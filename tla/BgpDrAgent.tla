------------------------------ MODULE BgpDrAgent ------------------------------
(***************************************************************************)
(* The BGP dynamic routing agent (agent/bgp_dragent.py).  Two threads work *)
(* on one cache and one driver: the periodic task runs sync_state under    *)
(* the lock 'bgp-dragent', and a worker of the RPC server runs the handler *)
(* of a cast under the lock 'bgp-dr-agent'.  Each lock admits one thread,  *)
(* and neither excludes the other.                                         *)
(*                                                                         *)
(* A step is what a thread does between two points where the other can     *)
(* run: a test of the cache with the update that follows it, a call of the *)
(* driver, a call of the server, the recording of a resync reason.  A loop *)
(* is a set of items yet to be processed; the order of items is free.      *)
(***************************************************************************)
EXTENDS OsKenDriver, BgpServer

VARIABLES
    cache,          \* BgpSpeakerCache: speaker -> its peers and routes
    needsResync,    \* the keys of needs_resync_reasons
    needsFull,      \* whether needs_full_sync_reason is set
    pc,             \* where each thread is
    job,            \* the speaker each thread is working on, and how far
    sync,           \* the local variables of sync_state
    abandoned,      \* auxiliary: configured up to AlreadyScheduled only
    overlapped,     \* auxiliary: both threads were at work at once
    raised,         \* auxiliary: an operation of the driver raised
    misled          \* auxiliary: bound speakers the agent was not told of

agentVars == <<cache, needsResync, needsFull>>
threadVars == <<pc, job, sync>>
auxVars == <<abandoned, overlapped, raised, misled>>
vars == <<serverVars, driver, agentVars, threadVars, auxVars>>

Threads == {"sync", "handler"}

NoDict == [id |-> None, peers |-> {}, routes |-> {}]

\* kind: the function at work; bs: its speaker; todo: the rest of the loop;
\* call: the driver operation that comes next, if any, and its argument.
NoCall == [op |-> "none", arg |-> None]
Job(kind, bs, todo) ==
    [kind |-> kind, bs |-> bs, todo |-> todo, call |-> NoCall]
NoJob == Job("none", NoDict, {})

NoSync == [full |-> FALSE, only |-> {}, snap |-> {}, seen |-> {}, size |-> 0]

\* Where a thread is in each kind of work.
Places ==
    [none      |-> {"idle", "reset", "fetch", "iterate", "stale", "each"},
     configure |-> {"put", "add", "construct", "peers", "routes", "refresh"},
     refresh   |-> {"rmpeers", "peers", "withdraw", "routes", "refresh"},
     cast      |-> {"rmpeers", "peers", "withdraw", "routes"},
     drop      |-> {"stale", "remove"}]

\* The items of each loop.
TodoOf ==
    [rmpeers  |-> Peers \cup ItemsOf["disassociate"],
     peers    |-> Peers,
     withdraw |-> RoutePatterns,
     routes   |-> Routes]

Calls ==
    {NoCall}
    \cup [op : {"delete_bgp_speaker"}, arg : {None}]
    \cup [op : {"add_bgp_peer", "delete_bgp_peer"}, arg : Peers]
    \cup [op : {"advertise_route"}, arg : Routes]
    \cup [op : {"withdraw_route"}, arg : RoutePatterns]

Jobs ==
    [kind : DOMAIN Places, bs : SpeakerDicts \cup {NoDict},
     todo : SUBSET Items, call : Calls]

JobTypeOK(t) ==
    /\ job[t] \in Jobs
    /\ pc[t] \in Places[job[t].kind]
    /\ pc[t] \in DOMAIN TodoOf => job[t].todo \subseteq TodoOf[pc[t]]
    /\ job[t].kind = "none" => job[t].call = NoCall
    /\ job[t].kind # "none" => job[t].bs \in SpeakerDicts
    /\ job[t].kind = "drop" <=> job[t].call.op = "delete_bgp_speaker"

SyncRecords ==
    [full : BOOLEAN, only : SUBSET Speakers, snap : SUBSET SpeakerDicts,
     seen : SUBSET Speakers, size : Nat]

CacheTypeOK ==
    /\ DOMAIN cache \subseteq Speakers
    /\ \A s \in DOMAIN cache :
          cache[s] \in [peers : SUBSET Peers, routes : SUBSET Routes]
    /\ needsResync \subseteq Speakers
    /\ needsFull \in BOOLEAN
    /\ abandoned \subseteq DOMAIN cache
    /\ overlapped \in BOOLEAN /\ raised \in BOOLEAN
    /\ misled \subseteq Speakers

ThreadTypeOK ==
    /\ DOMAIN pc = Threads
    /\ DOMAIN job = Threads
    /\ \A t \in Threads : JobTypeOK(t)
    /\ pc["sync"] # "remove"
    /\ pc["handler"] \notin Places["none"] \ {"idle"}

SyncTypeOK == sync \in SyncRecords

TypeOK ==
    ServerTypeOK /\ DriverTypeOK /\ CacheTypeOK /\ ThreadTypeOK /\ SyncTypeOK

\* The agent starts with an empty cache and driver, and syncs at once.
Init ==
    /\ ServerInit
    /\ DriverInit
    /\ cache = [s \in {} |-> None]
    /\ needsResync = {}
    /\ needsFull = FALSE
    /\ pc = [t \in Threads |-> IF t = "sync" THEN "fetch" ELSE "idle"]
    /\ job = [t \in Threads |-> NoJob]
    /\ sync = NoSync
    /\ abandoned = {}
    /\ overlapped = FALSE /\ raised = FALSE
    /\ misled = {}

-----------------------------------------------------------------------------
Cached(s) == s \in DOMAIN cache

ScheduleResync(s) == needsResync' = needsResync \cup {s}

Goto(t, where) == pc' = [pc EXCEPT ![t] = where]

Enter(t, where, kind, bs, todo) ==
    /\ Goto(t, where)
    /\ job' = [job EXCEPT ![t] = Job(kind, bs, todo)]

\* A thread is done with a speaker: sync_state goes on to the next one.
Return(t) ==
    Enter(t, IF t = "sync" THEN "each" ELSE "idle", "none", NoDict, {})

\* Mutant: sync_state does not schedule a full resync.
AbortQuietly(t) ==
    /\ Enter(t, "idle", "none", NoDict, {})
    /\ sync' = IF t = "sync" THEN NoSync ELSE sync
    /\ UNCHANGED needsFull

\* An exception leaves the handler, or is caught at the end of sync_state,
\* which then schedules a full resync.
Abort(t) ==
    /\ Enter(t, "idle", "none", NoDict, {})
    /\ IF t = "sync"
         THEN needsFull' = TRUE /\ sync' = NoSync
         ELSE UNCHANGED <<needsFull, sync>>

At(t, where) == pc[t] = where /\ job[t].call = NoCall

\* The thread updated the cache; the driver comes next.
CallNext(t, op, arg, rest) ==
    job' = [job EXCEPT ![t].call = [op |-> op, arg |-> arg], ![t].todo = rest]

\* add_bgp_peers, advertise_routes, add_routes and withdraw_routes stop after
\* an item when a resync of the speaker is scheduled; sync_bgp_speaker's own
\* loops do not.
Breaks(t) ==
    \/ pc[t] \in {"peers", "routes"}
    \/ pc[t] = "withdraw" /\ job[t].kind = "cast"

Rest(t, todo, needs) ==
    IF Breaks(t) /\ job[t].bs.id \in needs THEN {} ELSE todo

\* An item needed nothing from the driver.
SkipItem(t, item) ==
    job' = [job EXCEPT ![t].todo = Rest(t, @ \ {item}, needsResync)]

-----------------------------------------------------------------------------
(* The periodic task.                                                      *)

\* _periodic_resync_helper reads the reason for a full resync ...
ReadReasons ==
    /\ pc["sync"] = "idle"
    /\ needsResync # {} \/ needsFull
    /\ Goto("sync", "reset")
    /\ sync' = [sync EXCEPT !.full = needsFull]
    /\ UNCHANGED <<serverVars, driver, agentVars, job, auxVars>>

\* ... and resets it with the other reasons, which it keeps by reference.
ResetReasons ==
    /\ pc["sync"] = "reset"
    /\ needsFull' = FALSE
    /\ sync' = [sync EXCEPT !.only = needsResync]
    /\ needsResync' = {}
    /\ Goto("sync", "fetch")
    /\ overlapped' = (overlapped \/ pc["handler"] # "idle")
    /\ UNCHANGED <<serverVars, driver, cache, job, abandoned, raised, misled>>

\* The server binds the speaker to the agent, or is about to.
Bound == hosted \cup arriving

\* The handler is to learn, or is learning, that the speaker is created.
Coming(s) ==
    \/ \E m \in inbox : m.op = "create" /\ m.speaker = s
    \/ pc["handler"] = "put" /\ job["handler"].bs.id = s

\* Bound speakers that the agent does not have, and no cast tells it of.
Untold == {s \in Bound : ~Cached(s) /\ ~Coming(s)}

\* Mutant: a sync for no speaker is for none, and not for all.
ResyncFull == sync.full

ResyncAll == sync.only = {} \/ sync.full

Selected(s) == ResyncAll \/ s \in sync.only

\* The reply makes good for what the agent missed, but has no speaker whose
\* rescheduling here is not committed.
FetchSpeakers ==
    /\ pc["sync"] = "fetch"
    /\ sync' = [sync EXCEPT !.snap = HostedDicts]
    /\ Goto("sync", "iterate")
    /\ misled' = (misled \ {s \in Served : Selected(s)})
                     \cup {s \in Untold \ hosted : Selected(s)}
    /\ UNCHANGED <<serverVars, driver, agentVars, job, abandoned, overlapped,
                   raised>>

FetchSpeakersFails ==
    /\ pc["sync"] = "fetch"
    /\ Fault("call")
    /\ Abort("sync")
    /\ UNCHANGED <<boundVars, config, inbox, changes, driver, cache,
                   needsResync, auxVars>>

\* sync_state iterates over a live view of the cache's keys ...
IterateCache ==
    /\ pc["sync"] = "iterate"
    /\ sync' = [sync EXCEPT !.size = Cardinality(DOMAIN cache)]
    /\ Goto("sync", "stale")
    /\ UNCHANGED <<serverVars, driver, agentVars, job, auxVars>>

Intact == Cardinality(DOMAIN cache) = sync.size

SnapIds == {d.id : d \in sync.snap}

\* ... so a change of the cache's size, its own removals included, ends the
\* iteration with a RuntimeError.
IterationFails ==
    /\ At("sync", "stale")
    /\ ~Intact
    /\ Abort("sync")
    /\ UNCHANGED <<serverVars, driver, cache, needsResync, auxVars>>

\* Mutant: a resync of some speakers keeps the others.
KeepOthers(s) ==
    /\ At("sync", "stale")
    /\ Intact
    /\ s \in {x \in DOMAIN cache : x \in SnapIds \/ ~ResyncAll} \ sync.seen
    /\ sync' = [sync EXCEPT !.seen = @ \cup {s}]
    /\ UNCHANGED <<serverVars, driver, agentVars, pc, job, auxVars>>

KeepHosted(s) ==
    /\ At("sync", "stale")
    /\ Intact
    /\ s \in (DOMAIN cache \cap SnapIds) \ sync.seen
    /\ sync' = [sync EXCEPT !.seen = @ \cup {s}]
    /\ UNCHANGED <<serverVars, driver, agentVars, pc, job, auxVars>>

\* A removal and an addition of the handler's and of the iteration's own may
\* cancel out: then the iteration goes on.
Unnoticed == IF pc["sync"] = "stale" /\ ~Intact /\ Intact' THEN Untold' ELSE {}

\* remove_bgp_speaker_from_dragent on a cached speaker.
RemoveSpeaker(t, s, where) ==
    /\ Cached(s)
    /\ cache' = DropKey(cache, s)
    /\ abandoned' = abandoned \ {s}
    /\ Goto(t, where)
    /\ job' = [job EXCEPT ![t] =
                 [Job("drop", [NoDict EXCEPT !.id = s], {}) EXCEPT
                    !.call = [op |-> "delete_bgp_speaker", arg |-> None]]]

RemoveStale(s) ==
    /\ At("sync", "stale")
    /\ Intact
    /\ s \in DOMAIN cache \ SnapIds
    /\ RemoveSpeaker("sync", s, "stale")
    /\ UNCHANGED <<serverVars, driver, needsResync, needsFull, sync,
                   overlapped, raised, misled>>

IterationEnds ==
    /\ At("sync", "stale")
    /\ Intact
    /\ DOMAIN cache \subseteq sync.seen
    /\ Goto("sync", "each")
    /\ UNCHANGED <<serverVars, driver, agentVars, job, sync, auxVars>>

\* Mutant: a hosted speaker that is not cached is left to its creation.
VisitCached(bs) ==
    /\ pc["sync"] = "each"
    /\ bs \in sync.snap
    /\ Selected(bs.id)
    /\ sync' = [sync EXCEPT !.snap = @ \ {bs}]
    /\ IF Cached(bs.id)
         THEN Enter("sync", "rmpeers", "refresh", bs,
                    cache[bs.id].peers \ bs.peers)
         ELSE UNCHANGED <<pc, job>>
    /\ UNCHANGED <<serverVars, driver, agentVars, auxVars>>

\* A hosted speaker is configured when it is not cached, or else refreshed.
VisitHosted(bs) ==
    /\ pc["sync"] = "each"
    /\ bs \in sync.snap
    /\ Selected(bs.id)
    /\ sync' = [sync EXCEPT !.snap = @ \ {bs}]
    /\ IF Cached(bs.id)
         THEN Enter("sync", "rmpeers", "refresh", bs,
                    cache[bs.id].peers \ bs.peers)
         ELSE Enter("sync", "put", "configure", bs, {})
    /\ UNCHANGED <<serverVars, driver, agentVars, auxVars>>

SyncEnds ==
    /\ pc["sync"] = "each"
    /\ \A bs \in sync.snap : ~Selected(bs.id)
    /\ Goto("sync", "idle")
    /\ sync' = NoSync
    /\ UNCHANGED <<serverVars, driver, agentVars, job, auxVars>>

-----------------------------------------------------------------------------
(* What both threads do with a speaker.                                    *)

\* add_bgp_speaker_on_dragent puts the speaker in the cache.  For a cached
\* speaker, put_bgp_speaker removes by an unhashable key: a TypeError.
Put(t) ==
    /\ At(t, "put")
    /\ ~Cached(job[t].bs.id)
    /\ cache' = PutKey(cache, job[t].bs.id, [peers |-> {}, routes |-> {}])
    /\ Goto(t, "add")
    /\ UNCHANGED <<serverVars, driver, needsResync, needsFull, job, sync,
                   abandoned, overlapped, raised>>
    /\ misled' = (misled \ {job[t].bs.id}) \cup Unnoticed

PutFails(t) ==
    /\ At(t, "put")
    /\ Cached(job[t].bs.id)
    /\ Abort(t)
    /\ UNCHANGED <<serverVars, driver, cache, needsResync, auxVars>>

\* The driver's tests.  A driver that runs the AS already ends the function;
\* after any other exception the function goes on.
AddSpeaker(t) ==
    LET s == job[t].bs.id IN
    /\ At(t, "add")
    /\ ~AlreadyScheduled(LocalAS[s])
    /\ ~MaxScheduled
    /\ Goto(t, "construct")
    /\ UNCHANGED <<serverVars, driver, agentVars, job, sync, auxVars>>

AddSpeakerExists(t) ==
    LET s == job[t].bs.id IN
    /\ At(t, "add")
    /\ AlreadyScheduled(LocalAS[s])
    /\ abandoned' = abandoned \cup ({s} \cap DOMAIN cache)
    /\ raised' = TRUE
    /\ Return(t)
    /\ UNCHANGED <<serverVars, driver, agentVars, sync, overlapped, misled>>

\* An operation of the driver raises an exception, or os-ken fails.
DriverRaises(raises) ==
    /\ raised' = TRUE
    /\ \/ raises /\ UNCHANGED faults
       \/ Fault("driver")

ConfigurePeers(t) == Enter(t, "peers", "configure", job[t].bs, job[t].bs.peers)

AddSpeakerFails(t) ==
    LET s == job[t].bs.id IN
    /\ At(t, "add")
    /\ ~AlreadyScheduled(LocalAS[s])
    /\ DriverRaises(MaxScheduled)
    /\ ScheduleResync(s)
    /\ ConfigurePeers(t)
    /\ UNCHANGED <<boundVars, config, inbox, changes, driver, cache,
                   needsFull, sync, abandoned, overlapped, misled>>

ConstructSpeaker(t) ==
    /\ At(t, "construct")
    /\ PutSpeaker(LocalAS[job[t].bs.id])
    /\ ConfigurePeers(t)
    /\ UNCHANGED <<serverVars, agentVars, sync, auxVars>>

\* The thread goes on after an operation, or is done with a removed speaker.
CallReturns(t, needs) ==
    IF job[t].kind = "drop"
      THEN Enter(t, IF t = "sync" THEN "stale" ELSE "idle", "none", NoDict, {})
      ELSE /\ job' = [job EXCEPT ![t].call = NoCall,
                                 ![t].todo = Rest(t, @, needs)]
           /\ UNCHANGED pc

\* The driver's part of an operation, after the cache's.
CallSucceeds(t) ==
    LET call == job[t].call IN
    /\ call # NoCall
    /\ Perform(LocalAS[job[t].bs.id], call.op, call.arg)
    /\ CallReturns(t, needsResync)
    /\ UNCHANGED <<serverVars, agentVars, sync, auxVars>>

\* _handle_driver_failure
CallFails(t) ==
    LET s == job[t].bs.id
        call == job[t].call
    IN  /\ call # NoCall
        /\ DriverRaises(MayRaise(LocalAS[s], call.op, call.arg))
        /\ ScheduleResync(s)
        /\ CallReturns(t, needsResync')
        /\ UNCHANGED <<boundVars, config, inbox, changes, driver, cache,
                       needsFull, sync, abandoned, overlapped, misled>>

\* The cache functions fail on a speaker that the other thread removed.
Gone(t, where) ==
    /\ At(t, where)
    /\ job[t].todo # {}
    /\ ~Cached(job[t].bs.id)
    /\ Abort(t)
    /\ UNCHANGED <<serverVars, driver, cache, needsResync, auxVars>>

AddBgpPeer(t, p) ==
    LET s == job[t].bs.id IN
    /\ At(t, "peers")
    /\ p \in job[t].todo
    /\ Cached(s)
    /\ IF p \in cache[s].peers
         THEN SkipItem(t, p) /\ UNCHANGED cache
         ELSE /\ cache' = [cache EXCEPT ![s].peers = @ \cup {p}]
              /\ CallNext(t, "add_bgp_peer", p, job[t].todo \ {p})
    /\ UNCHANGED <<serverVars, driver, needsResync, needsFull, pc, sync,
                   auxVars>>

\* A peer, or a speaker, that is not cached is out of sync.
RemoveBgpPeer(t, p) ==
    LET s == job[t].bs.id IN
    /\ At(t, "rmpeers")
    /\ p \in job[t].todo
    /\ IF Cached(s) /\ p \in cache[s].peers
         THEN /\ cache' = [cache EXCEPT ![s].peers = @ \ {p}]
              /\ CallNext(t, "delete_bgp_peer", p, job[t].todo \ {p})
              /\ UNCHANGED needsResync
         ELSE /\ ScheduleResync(s)
              /\ job' = [job EXCEPT ![t].todo = @ \ {p}]
              /\ UNCHANGED cache
    /\ UNCHANGED <<serverVars, driver, needsFull, pc, sync, auxVars>>

IsRouteAdvertised(s, r) ==
    \E q \in cache[s].routes :
        /\ q.destination = r.destination
        /\ r.next_hop \in {None, q.next_hop}

AdvertiseRouteVia(t, r) ==
    LET s == job[t].bs.id IN
    /\ At(t, "routes")
    /\ r \in job[t].todo
    /\ Cached(s)
    /\ IF IsRouteAdvertised(s, r)
         THEN SkipItem(t, r) /\ UNCHANGED cache
         ELSE /\ cache' = [cache EXCEPT ![s].routes = @ \cup {r}]
              /\ CallNext(t, "advertise_route", r, job[t].todo \ {r})
    /\ UNCHANGED <<serverVars, driver, needsResync, needsFull, pc, sync,
                   auxVars>>

\* remove_adv_route drops every route of the destination from the cache.
WithdrawRouteVia(t, r) ==
    LET s == job[t].bs.id IN
    /\ At(t, "withdraw")
    /\ r \in job[t].todo
    /\ Cached(s)
    /\ IF IsRouteAdvertised(s, r)
         THEN /\ cache' = [cache EXCEPT
                   ![s].routes = WithoutDestination(@, r.destination)]
              /\ CallNext(t, "withdraw_route", r, job[t].todo \ {r})
              /\ UNCHANGED needsResync
         ELSE /\ ScheduleResync(s)
              /\ job' = [job EXCEPT ![t].todo =
                           Rest(t, @ \ {r}, needsResync')]
              /\ UNCHANGED cache
    /\ UNCHANGED <<serverVars, driver, needsFull, pc, sync, auxVars>>

\* A loop is over.
LoopEnds(t, where, kinds) ==
    /\ At(t, where)
    /\ job[t].kind \in kinds
    /\ job[t].todo = {}

\* The next loop over the same speaker.
NextLoop(t, where, todo) ==
    /\ Enter(t, where, job[t].kind, job[t].bs, todo)
    /\ UNCHANGED <<serverVars, driver, agentVars, sync, auxVars>>

\* Mutant: the peers are advertised instead of the routes.
PeersEndsAgain(t) ==
    /\ LoopEnds(t, "peers", {"configure"})
    /\ NextLoop(t, "routes", job[t].bs.peers)

RmPeersEnds(t) ==
    /\ LoopEnds(t, "rmpeers", {"refresh"})
    /\ NextLoop(t, "peers", job[t].bs.peers)

PeersEnds(t) ==
    /\ LoopEnds(t, "peers", {"configure"})
    /\ NextLoop(t, "routes", job[t].bs.routes)

\* sync_bgp_speaker compares the routes, and is done if they are the same.
CompareRoutes(t) ==
    LET s == job[t].bs.id IN
    /\ LoopEnds(t, "peers", {"refresh"})
    /\ Cached(s)
    /\ IF cache[s].routes = job[t].bs.routes
         THEN NextLoop(t, "refresh", {})
         ELSE NextLoop(t, "withdraw", cache[s].routes \ job[t].bs.routes)

CompareRoutesFails(t) ==
    /\ LoopEnds(t, "peers", {"refresh"})
    /\ ~Cached(job[t].bs.id)
    /\ Abort(t)
    /\ UNCHANGED <<serverVars, driver, cache, needsResync, auxVars>>

WithdrawEnds(t) ==
    /\ LoopEnds(t, "withdraw", {"refresh"})
    /\ NextLoop(t, "routes", job[t].bs.routes)

RoutesEnds(t) ==
    /\ LoopEnds(t, "routes", {"configure", "refresh"})
    /\ NextLoop(t, "refresh", {})

\* Mutant: the next refresh is not scheduled.
RefreshOnce(t) ==
    /\ At(t, "refresh")
    /\ abandoned' = abandoned \ {job[t].bs.id}
    /\ Return(t)
    /\ UNCHANGED <<serverVars, driver, agentVars, sync, overlapped, raised,
                   misled>>

\* "Periodic route cache refresh"
Refresh(t) ==
    /\ At(t, "refresh")
    /\ ScheduleResync(job[t].bs.id)
    /\ abandoned' = abandoned \ {job[t].bs.id}
    /\ Return(t)
    /\ UNCHANGED <<serverVars, driver, cache, needsFull, sync, overlapped,
                   raised, misled>>

CastEnds(t) ==
    /\ pc[t] \in {"rmpeers", "peers", "routes", "withdraw"}
    /\ LoopEnds(t, pc[t], {"cast"})
    /\ Return(t)
    /\ UNCHANGED <<serverVars, driver, agentVars, sync, auxVars>>

ThreadStep(t) ==
    \/ Put(t) \/ PutFails(t)
    \/ AddSpeaker(t) \/ AddSpeakerExists(t) \/ AddSpeakerFails(t)
    \/ ConstructSpeaker(t)
    \/ CallSucceeds(t) \/ CallFails(t)
    \/ \E where \in {"peers", "routes", "withdraw"} : Gone(t, where)
    \/ \E p \in job[t].todo :
          \/ AddBgpPeer(t, p) \/ RemoveBgpPeer(t, p)
          \/ AdvertiseRouteVia(t, p) \/ WithdrawRouteVia(t, p)
    \/ RmPeersEnds(t) \/ PeersEnds(t) \/ WithdrawEnds(t) \/ RoutesEnds(t)
    \/ CompareRoutes(t) \/ CompareRoutesFails(t)
    \/ Refresh(t) \/ CastEnds(t)

-----------------------------------------------------------------------------
(* The handlers of casts.                                                  *)

Receive(m, op) ==
    /\ pc["handler"] = "idle"
    /\ m.op = op
    /\ inbox' = inbox \ {m}
    /\ overlapped' = (overlapped \/ pc["sync"] \notin {"idle", "reset"})
    /\ UNCHANGED <<boundVars, config, changes, raised>>

\* bgp_speaker_create_end asks the server for the speaker ...
CreateEnd(m) ==
    /\ Receive(m, "create")
    /\ Enter("handler", "put", "configure", SpeakerDict(m.speaker), {})
    /\ UNCHANGED <<faults, driver, agentVars, sync, abandoned, misled>>

\* ... and schedules a resync when the call fails, as does the handler of an
\* association, which asks for the peer.
CallServerFails(m) ==
    /\ Receive(m, m.op)
    /\ m.op \in {"create", "associate"}
    /\ m.op = "associate" => Cached(m.speaker)
    /\ Fault("call")
    /\ ScheduleResync(m.speaker)
    /\ UNCHANGED <<driver, cache, needsFull, threadVars, abandoned, misled>>

\* A cast that comes late removes a speaker that is bound again.
RemoveEnd(m) ==
    /\ Receive(m, "remove")
    /\ RemoveSpeaker("handler", m.speaker, "remove")
    /\ UNCHANGED <<faults, driver, needsResync, needsFull, sync>>
    /\ misled' = misled \cup (Untold' \cap {m.speaker}) \cup Unnoticed

\* A handler that needs the speaker cached.
OutOfSync(m) ==
    /\ Receive(m, m.op)
    /\ m.op # "create"
    /\ ~Cached(m.speaker)
    /\ ScheduleResync(m.speaker)
    /\ UNCHANGED <<faults, driver, cache, needsFull, threadVars, abandoned,
                   misled>>

Process(m, op, where) ==
    /\ Receive(m, op)
    /\ Cached(m.speaker)
    /\ Enter("handler", where, "cast", [NoDict EXCEPT !.id = m.speaker],
             m.items)
    /\ UNCHANGED <<faults, driver, agentVars, sync, abandoned, misled>>

AssociationEnd(m) == Process(m, "associate", "peers")
DisassociationEnd(m) == Process(m, "disassociate", "rmpeers")
AdvertisementEnd(m) == Process(m, "advertise", "routes")
WithdrawalEnd(m) == Process(m, "withdraw", "withdraw")

HandlerStarts ==
    \E m \in inbox :
        \/ CreateEnd(m) \/ CallServerFails(m)
        \/ RemoveEnd(m) \/ OutOfSync(m)
        \/ AssociationEnd(m) \/ DisassociationEnd(m)
        \/ AdvertisementEnd(m) \/ WithdrawalEnd(m)

\* agent_updated takes neither lock.  The reason it sets before the periodic
\* task resets the reasons is lost, if the task has read that there is none.
AgentUpdated(n) ==
    /\ n \in notices
    /\ notices' = notices \ {n}
    /\ needsFull' = TRUE
    /\ misled' = misled \cup (IF pc["sync"] = "reset" /\ ~sync.full
                                THEN Untold \ needsResync ELSE {})
    /\ UNCHANGED <<hosted, arriving, enabled, config, inbox, changes, faults,
                   driver, cache, needsResync, threadVars, abandoned,
                   overlapped, raised>>

\* So does the report of a revived agent.
AgentRevived ==
    /\ Change("revived")
    /\ needsFull' = TRUE
    /\ UNCHANGED <<boundVars, config, inbox, driver, cache, needsResync,
                   threadVars, auxVars>>

LoseCast ==
    /\ Fault("lose_cast")
    /\ \E m \in inbox :
          /\ inbox' = inbox \ {m}
          /\ UNCHANGED <<boundVars, config, changes, driver, agentVars,
                         threadVars, abandoned, overlapped, raised>>
          /\ misled' = misled \cup
                 (IF m.op = "create" THEN Untold' \cap {m.speaker} ELSE {})

LoseNotice ==
    /\ Fault("lose_cast")
    /\ \E n \in notices : notices' = notices \ {n}
    /\ misled' = misled \cup Untold
    /\ UNCHANGED <<hosted, arriving, enabled, config, inbox, changes, driver,
                   agentVars, threadVars, abandoned, overlapped, raised>>

\* The agent starts over; its queue of casts may be gone.
Restart ==
    /\ Fault("restart")
    /\ \/ UNCHANGED <<inbox, notices>>
       \/ inbox' = {} /\ notices' = {}
    /\ driver' = [as \in {} |-> None]
    /\ cache' = [s \in {} |-> None]
    /\ needsResync' = {}
    /\ needsFull' = FALSE
    /\ pc' = [t \in Threads |-> IF t = "sync" THEN "fetch" ELSE "idle"]
    /\ job' = [t \in Threads |-> NoJob]
    /\ sync' = NoSync
    /\ abandoned' = {}
    /\ overlapped' = FALSE /\ raised' = FALSE
    /\ misled' = {}
    /\ UNCHANGED <<hosted, arriving, enabled, config, changes>>

\* A speaker that the server binds without a cast is one the agent misses.
Server ==
    /\ ServerStep
    /\ UNCHANGED <<driver, agentVars, threadVars, abandoned, overlapped, raised>>
    /\ misled' = (misled \cap Bound') \cup (Untold' \ Bound)

SyncState ==
    \/ ReadReasons \/ ResetReasons
    \/ FetchSpeakers \/ IterateCache
    \/ IterationFails \/ IterationEnds
    \/ \E s \in Speakers : KeepHosted(s) \/ RemoveStale(s)
    \/ \E bs \in sync.snap : VisitHosted(bs)
    \/ SyncEnds
    \/ ThreadStep("sync")

Handler == HandlerStarts \/ ThreadStep("handler")

Environment ==
    \/ Server \/ AgentRevived \/ (\E n \in notices : AgentUpdated(n))
    \/ FetchSpeakersFails \/ LoseCast \/ LoseNotice \/ Restart

Next == SyncState \/ Handler \/ Environment

Spec == Init /\ [][Next]_vars

\* The periodic task is called again and again, and the RPC server has a
\* worker for every cast.
Fairness ==
    /\ WF_vars(SyncState)
    /\ WF_vars(Handler)
    /\ WF_vars(\E n \in notices : AgentUpdated(n))

FairSpec == Spec /\ Fairness

-----------------------------------------------------------------------------
(* Safety.                                                                 *)

FullScheduled == IF pc["sync"] = "reset" THEN sync.full ELSE needsFull

\* sync_state is yet to visit the hosted speaker s.
ToVisit(s) ==
    /\ pc["sync"] \notin {"idle", "reset", "fetch"}
    /\ Selected(s)
    /\ s \in SnapIds

Configuring(t, s) ==
    /\ job[t].bs.id = s
    /\ job[t].kind \in {"configure", "refresh"}
    /\ pc[t] # "put"

\* The periodic task has a reason to run, or a thread is at work that will
\* give it one.
Attended(s) ==
    \/ s \in needsResync
    \/ FullScheduled
    \/ pc["sync"] = "fetch" /\ Selected(s)
    \/ pc["sync"] = "iterate" /\ Selected(s)
    \/ pc["sync"] = "stale" /\ s \notin SnapIds
    \/ ToVisit(s)
    \/ \E t \in Threads : Configuring(t, s)

\* A speaker of the cache is refreshed forever ("Periodic route cache
\* refresh", bgp_dragent.py:124 and 365): whatever the two threads interleave,
\* and whatever fails, its next resync is scheduled or a thread is on its way
\* to schedule it.  The one exit from this chain is the early return on
\* AlreadyScheduled in add_bgp_speaker_on_dragent.
RefreshGoesOn ==
    \A s \in DOMAIN cache : Attended(s) \/ s \in abandoned

\* A speaker that the server binds to the enabled agent is not forgotten: until
\* it is cached its create cast, or a notice that the agent was updated, is on
\* the way, or a thread configures it, or a sync that will fetch it is due.  A
\* removal from the cache counts too: the iteration over it ends in the
\* RuntimeError that schedules a full resync.  The exceptions are misled: the
\* server binds the speaker and casts nothing (bgp_dragent_scheduler.py:179);
\* the agent's last word from the server came before the commit of the
\* rescheduling (bgp_dragentscheduler_db.py:171-174); the cast or the notice
\* was lost; a late removal ended what was bound again (bgp_dragent.py:587);
\* the notice's reason was overwritten (bgp_dragent.py:166); the live view of
\* the cache had its old size again (bgp_dragent.py:110).
NoSpeakerForgotten ==
    \A s \in Served \ (DOMAIN cache \cup misled) :
        \/ \E m \in inbox : m.op = "create" /\ m.speaker = s
        \/ notices # {}
        \/ \E t \in Threads : job[t].kind = "configure" /\ job[t].bs.id = s
        \/ s \in needsResync
        \/ FullScheduled
        \/ pc["sync"] = "fetch" /\ Selected(s)
        \/ pc["sync"] = "stale" /\ ~Intact
        \/ ToVisit(s)

\* What the driver runs for a cached speaker.
Mirrors(s) ==
    /\ LocalAS[s] \in DOMAIN driver
    /\ LET running == driver[LocalAS[s]] IN
       /\ running.peers = cache[s].peers
       /\ running.routes \subseteq cache[s].routes
       /\ {r.destination : r \in running.routes} =
              {r.destination : r \in cache[s].routes}

AtRest ==
    /\ pc["handler"] = "idle"
    /\ pc["sync"] \in {"idle", "reset", "fetch", "iterate", "each"}

\* The cache is what the driver runs ("Agent cache of the current BGP speaker
\* state", bgp_dragent.py:571) between two operations, as long as no operation
\* of the driver raised and sync_state never ran while a handler did.
DriverMirrorsCache ==
    AtRest /\ ~overlapped /\ ~raised =>
        /\ \A s \in DOMAIN cache : Mirrors(s)
        /\ DOMAIN driver = {LocalAS[s] : s \in DOMAIN cache}

\* The driver's test of the count ("os-ken can only support One speaker",
\* driver.py:77) and its insertion are two steps: between them no other thread
\* inserts a speaker, as long as sync_state never ran while a handler did, and
\* whatever fails.
OneSpeakerAlone == overlapped \/ Cardinality(DOMAIN driver) <= 1

-----------------------------------------------------------------------------
(* Liveness, once the server has no more changes to make.                  *)

\* The agent ends with the peers and routes the database has for the speaker
\* it hosts, whatever casts were lost, late or out of order.
CacheFollowsServer ==
    <>[](\A s \in Served \ abandoned : Cached(s) /\ cache[s] = config[s])

\* The enabled agent ends with the speaker the server binds to it in its cache,
\* whatever it was moved from or to, unless the agent was misled (see
\* NoSpeakerForgotten).
BoundSpeakersArrive == <>[](Served \subseteq DOMAIN cache \cup misled)

\* A speaker that is no longer hosted leaves the cache, told or not.
StaleSpeakersGo == <>[](DOMAIN cache \subseteq Served \cup abandoned)

\* So does the driver follow the server, if the threads never overlap.
DriverFollowsServer ==
    \/ <>overlapped
    \/ <>[](/\ \A s \in Served :
                  /\ LocalAS[s] \in DOMAIN driver
                  /\ driver[LocalAS[s]] = config[s]
            /\ DOMAIN driver = {LocalAS[s] : s \in Served})
=============================================================================
