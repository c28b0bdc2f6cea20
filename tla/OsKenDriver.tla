----------------------------- MODULE OsKenDriver -----------------------------
(***************************************************************************)
(* The os-ken driver of the agent (agent/driver/os_ken/driver.py) and the  *)
(* cache of running speakers it keeps (driver/utils.py).  The driver knows *)
(* a speaker by its AS number only.  An operation either raises, and then  *)
(* leaves the driver alone, or performs its effect on the os-ken speaker.  *)
(* Adding a speaker is two steps: the tests on the cache, and, after the   *)
(* os-ken speaker is constructed, the update of the cache.                 *)
(***************************************************************************)
EXTENDS BgpCommon

VARIABLE driver     \* running speakers: AS -> its sessions and prefixes

ASNumbers == {LocalAS[s] : s \in Speakers}

DriverTypeOK ==
    /\ DOMAIN driver \subseteq ASNumbers
    /\ \A as \in DOMAIN driver :
          driver[as] \in [peers : SUBSET Peers, routes : SUBSET Routes]

DriverInit == driver = [as \in {} |-> None]

AlreadyScheduled(as) == as \in DOMAIN driver

\* Mutant: the test of the count is off by one.
MaxExceeded == Cardinality(DOMAIN driver) > 1

\* os-ken supports one speaker.
MaxScheduled == Cardinality(DOMAIN driver) = 1

\* The speaker that was constructed enters the cache.
PutSpeaker(as) ==
    driver' = PutKey(driver, as, [peers |-> {}, routes |-> {}])

\* The effect of each operation on the speaker it is for.
AddPeer(speaker, ip) == [speaker EXCEPT !.peers = @ \cup {ip}]

DeletePeer(speaker, ip) == [speaker EXCEPT !.peers = @ \ {ip}]

\* prefix_add replaces the next hop of a prefix.
AdvertiseRoute(speaker, route) ==
    [speaker EXCEPT
        !.routes = WithoutDestination(@, route.destination) \cup {route}]

\* Mutant: the next hop must match.
WithdrawExactRoute(speaker, route) ==
    [speaker EXCEPT !.routes = @ \ {route}]

\* prefix_del is given the prefix and not the next hop.
WithdrawRoute(speaker, route) ==
    [speaker EXCEPT !.routes = WithoutDestination(@, route.destination)]

Effect(speaker, op, arg) ==
    CASE op = "add_bgp_peer"    -> AddPeer(speaker, arg)
      [] op = "delete_bgp_peer" -> DeletePeer(speaker, arg)
      [] op = "advertise_route" -> AdvertiseRoute(speaker, arg)
      [] op = "withdraw_route"  -> WithdrawRoute(speaker, arg)

\* BgpSpeakerNotAdded is raised for an AS that has no speaker; os-ken may
\* refuse a session that exists, or the end of one that does not.
MayRaise(as, op, arg) ==
    as \in DOMAIN driver =>
        \/ op = "add_bgp_peer" /\ arg \in driver[as].peers
        \/ op = "delete_bgp_peer" /\ arg \notin driver[as].peers

Perform(as, op, arg) ==
    /\ as \in DOMAIN driver
    /\ driver' = IF op = "delete_bgp_speaker"
                   THEN DropKey(driver, as)
                   ELSE [driver EXCEPT ![as] = Effect(@, op, arg)]
=============================================================================
