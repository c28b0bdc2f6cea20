------------------------ MODULE BgpDrAgentCacheProofs ------------------------
(***************************************************************************)
(* Theorems about the cache of the BgpDrAgent: that the driver runs what    *)
(* the cache holds, one speaker at a time, and that the speaker the server  *)
(* binds to the agent gets into the cache.                                  *)
(*                                                                         *)
(* DriverMirrorsCache is about states in which no thread is in the middle   *)
(* of a speaker.  MirrorInv is about all states: the one thread at work is  *)
(* about to start, to stop or to change one speaker of the driver, and the  *)
(* cache is what the driver will run after that.  NoSpeakerForgotten is     *)
(* inductive once a thread counts as configuring a speaker only before it   *)
(* puts it in the cache, and once it is also said of a speaker whose        *)
(* rescheduling is not committed: a cast of its creation is out already     *)
(* (HostedDue).                                                             *)
(***************************************************************************)
EXTENDS BgpDrAgentProofs

-----------------------------------------------------------------------------
(* The cache and the driver.                                                *)

\* What runs has the peers of the cached speaker, and a route for each of its
\* destinations.
SameAs(running, cached) ==
    /\ running.peers = cached.peers
    /\ running.routes \subseteq cached.routes
    /\ {r.destination : r \in running.routes} =
           {r.destination : r \in cached.routes}

\* The driver runs the speakers of R, each under an AS number of its own.
Runs(R) ==
    /\ DOMAIN driver = {LocalAS[s] : s \in R}
    /\ \A s, u \in R : LocalAS[s] = LocalAS[u] => s = u

\* Between two operations of a thread.
Steady ==
    /\ Runs(DOMAIN cache)
    /\ \A s \in DOMAIN cache : SameAs(driver[LocalAS[s]], cache[s])

NewSpeaker == [peers |-> {}, routes |-> {}]

\* A thread has put its speaker in the cache, and the driver is to start it ...
Starting(where, s) ==
    /\ s \in DOMAIN cache /\ cache[s] = NewSpeaker
    /\ Runs(DOMAIN cache \ {s})
    /\ where = "construct" => LocalAS[s] \notin DOMAIN driver
    /\ \A u \in DOMAIN cache \ {s} : SameAs(driver[LocalAS[u]], cache[u])

\* ... or has removed it from the cache, and the driver is to stop it ...
Stopping(s) ==
    /\ s \in Speakers \ DOMAIN cache
    /\ Runs(DOMAIN cache \cup {s})
    /\ \A u \in DOMAIN cache : SameAs(driver[LocalAS[u]], cache[u])

\* ... or has changed it in the cache, and the driver is to do the same.
Changing(s, call) ==
    /\ s \in DOMAIN cache
    /\ Runs(DOMAIN cache)
    /\ SameAs(Effect(driver[LocalAS[s]], call.op, call.arg), cache[s])
    /\ \A u \in DOMAIN cache \ {s} : SameAs(driver[LocalAS[u]], cache[u])

\* The cache and the driver differ by what the thread at work has yet to do.
InStep(where, j) ==
    IF where \in {"add", "construct"}
      THEN j.call = NoCall /\ Starting(where, j.bs.id)
      ELSE IF j.call = NoCall THEN Steady
      ELSE IF j.call.op = "delete_bgp_speaker" THEN Stopping(j.bs.id)
      ELSE Changing(j.bs.id, j.call)

Resting(t) == pc[t] \in IF t = "sync" THEN {"idle", "reset"} ELSE {"idle"}

\* At most one thread is at work.
MirrorInv ==
    \/ overlapped \/ raised
    \/ \E t \in Threads : /\ \A u \in Threads \ {t} : Resting(u)
                          /\ InStep(pc[t], job[t])


\* A thread that is out of the loops, and one at rest, is asking nothing of the
\* driver.
LEMMA NothingAsked ==
    ASSUME TypeOK, NEW t \in Threads,
           pc[t] \in {"idle", "reset", "fetch", "iterate", "each"}
    PROVE  /\ job[t].call = NoCall
           /\ InStep(pc[t], job[t]) => Steady
<1>1. JobTypeOK(t)
  BY DEF TypeOK, ThreadTypeOK
<1>2. job[t].kind = "none"
  BY <1>1, AtKind, PlacesFacts DEF JobTypeOK
<1> QED  BY <1>1, <1>2 DEF JobTypeOK, InStep

\* A thread whose place is not in the middle of a speaker's creation, and that
\* asks nothing of the driver, is in step when the driver is steady.
LEMMA SteadyInStep ==
    ASSUME NEW where, NEW j, where \notin {"add", "construct"}, j.call = NoCall
    PROVE  InStep(where, j) <=> Steady
  BY DEF InStep

\* The operations of a thread on the cache and on the driver, from the cache of
\* one speaker and what runs of it to those after the operation.
LEMMA EffectMirrors ==
    ASSUME NEW running \in [peers : SUBSET Peers, routes : SUBSET Routes],
           NEW cached \in [peers : SUBSET Peers, routes : SUBSET Routes],
           SameAs(running, cached)
    PROVE  /\ \A p \in Peers :
                 SameAs(Effect(running, "add_bgp_peer", p),
                        [cached EXCEPT !.peers = @ \cup {p}])
           /\ \A p : SameAs(Effect(running, "delete_bgp_peer", p),
                            [cached EXCEPT !.peers = @ \ {p}])
           /\ \A r \in Routes :
                 SameAs(Effect(running, "advertise_route", r),
                        [cached EXCEPT !.routes = @ \cup {r}])
           /\ \A r : SameAs(Effect(running, "withdraw_route", r),
                            [cached EXCEPT !.routes =
                                WithoutDestination(@, r.destination)])
<1>1. ASSUME NEW p \in Peers
      PROVE  SameAs(Effect(running, "add_bgp_peer", p),
                    [cached EXCEPT !.peers = @ \cup {p}])
  BY DEF SameAs, Effect, AddPeer
<1>2. ASSUME NEW p
      PROVE  SameAs(Effect(running, "delete_bgp_peer", p),
                    [cached EXCEPT !.peers = @ \ {p}])
  BY DEF SameAs, Effect, DeletePeer
<1>3. ASSUME NEW r \in Routes
      PROVE  SameAs(Effect(running, "advertise_route", r),
                    [cached EXCEPT !.routes = @ \cup {r}])
  <2> DEFINE after == Effect(running, "advertise_route", r)
             there == [cached EXCEPT !.routes = @ \cup {r}]
  <2>1. /\ after.peers = running.peers /\ there.peers = cached.peers
        /\ after.routes =
               {q \in running.routes : q.destination # r.destination} \cup {r}
        /\ there.routes = cached.routes \cup {r}
    BY DEF Effect, AdvertiseRoute, WithoutDestination
  <2> HIDE DEF after, there
  <2>2. after.routes \subseteq there.routes
    BY <2>1 DEF SameAs
  <2>3. /\ {q.destination : q \in after.routes} =
               {q.destination : q \in running.routes} \cup {r.destination}
        /\ {q.destination : q \in there.routes} =
               {q.destination : q \in cached.routes} \cup {r.destination}
    BY <2>1
  <2>4. SameAs(after, there)
    BY <2>1, <2>2, <2>3 DEF SameAs
  <2> QED  BY <2>4 DEF after, there
<1>4. ASSUME NEW r
      PROVE  SameAs(Effect(running, "withdraw_route", r),
                    [cached EXCEPT !.routes =
                        WithoutDestination(@, r.destination)])
  <2> DEFINE after == Effect(running, "withdraw_route", r)
             there == [cached EXCEPT !.routes =
                          WithoutDestination(@, r.destination)]
  <2>1. /\ after.peers = running.peers /\ there.peers = cached.peers
        /\ after.routes =
               {q \in running.routes : q.destination # r.destination}
        /\ there.routes = {q \in cached.routes : q.destination # r.destination}
    BY DEF Effect, WithdrawRoute, WithoutDestination
  <2> HIDE DEF after, there
  <2>2. after.routes \subseteq there.routes
    BY <2>1 DEF SameAs
  <2>3. /\ {q.destination : q \in after.routes} =
               {q.destination : q \in running.routes} \ {r.destination}
        /\ {q.destination : q \in there.routes} =
               {q.destination : q \in cached.routes} \ {r.destination}
    BY <2>1
  <2>4. SameAs(after, there)
    BY <2>1, <2>2, <2>3 DEF SameAs
  <2> QED  BY <2>4 DEF after, there
<1> QED  BY <1>1, <1>2, <1>3, <1>4

\* The put of a speaker in the cache, and the tests of the driver.
LEMMA PutMirrors ==
    ASSUME TypeOK, NEW t \in Threads, InStep(pc[t], job[t]),
           Put(t) \/ PutFails(t) \/ AddSpeaker(t)
    PROVE  InStep(pc[t], job[t])'
<1> DEFINE s == job[t].bs.id
<1>1. CASE Put(t)
  <2>1. /\ pc[t] = "put" /\ job[t].call = NoCall /\ Steady
        /\ pc'[t] = "add" /\ UNCHANGED <<job, driver>>
        /\ s \notin DOMAIN cache /\ cache' = PutKey(cache, s, NewSpeaker)
    BY <1>1, OnlyMoves DEF Put, At, InStep, Cached, NewSpeaker
  <2>2. /\ DOMAIN cache' \ {s} = DOMAIN cache /\ s \in DOMAIN cache'
        /\ cache'[s] = NewSpeaker
        /\ \A u \in DOMAIN cache : cache'[u] = cache[u]
    BY <2>1 DEF PutKey
  <2>3. Starting("add", s)'
    BY <2>1, <2>2 DEF Starting, Steady, Runs
  <2> QED  BY <2>1, <2>3 DEF InStep
<1>2. CASE PutFails(t)
  <2>1. /\ pc[t] = "put" /\ job[t].call = NoCall /\ Steady
        /\ pc'[t] = "idle" /\ job'[t] = NoJob
        /\ UNCHANGED <<cache, driver>>
    BY <1>2, OnlyMoves DEF PutFails, Abort, At, InStep, NoJob
  <2>2. Steady'
    BY <2>1 DEF Steady, Runs
  <2> QED  BY <2>1, <2>2 DEF InStep, NoJob, Job
<1>3. CASE AddSpeaker(t)
  <2>1. /\ pc[t] = "add" /\ job[t].call = NoCall /\ Starting("add", s)
        /\ LocalAS[s] \notin DOMAIN driver
        /\ pc'[t] = "construct" /\ UNCHANGED <<cache, driver, job>>
    BY <1>3, OnlyMoves
       DEF AddSpeaker, At, InStep, AlreadyScheduled, agentVars
  <2>2. Starting("construct", s)'
    BY <2>1 DEF Starting, Runs
  <2> QED  BY <2>1, <2>2 DEF InStep
<1> QED  BY <1>1, <1>2, <1>3

\* The speaker that os-ken constructed runs under an AS number of its own.
LEMMA ConstructMirrors ==
    ASSUME TypeOK, NEW t \in Threads, InStep(pc[t], job[t]),
           ConstructSpeaker(t)
    PROVE  InStep(pc[t], job[t])'
<1> DEFINE s == job[t].bs.id
           as == LocalAS[s]
<1>1. /\ Starting("construct", s) /\ UNCHANGED cache
      /\ driver' = PutKey(driver, as, NewSpeaker)
  BY DEF ConstructSpeaker, At, InStep, PutSpeaker, NewSpeaker, agentVars
<1>2. pc'[t] = "peers" /\ job'[t].call = NoCall
  <2>1. Enter(t, "peers", "configure", job[t].bs, job[t].bs.peers)
    BY DEF ConstructSpeaker, ConfigurePeers
  <2>2. /\ pc'[t] = "peers"
        /\ job'[t] = Job("configure", job[t].bs, job[t].bs.peers)
    BY <2>1, OnlyMoves
  <2> QED  BY <2>2 DEF Job
<1>3. /\ DOMAIN driver' = DOMAIN driver \cup {as} /\ as \notin DOMAIN driver
      /\ driver'[as] = NewSpeaker
      /\ \A x \in DOMAIN driver : driver'[x] = driver[x]
  BY <1>1 DEF PutKey, Starting
<1>4. \A u \in DOMAIN cache \ {s} : LocalAS[u] \in DOMAIN driver
  BY <1>1 DEF Starting, Runs
<1>5. Runs(DOMAIN cache)'
  BY <1>1, <1>3, <1>4 DEF Starting, Runs
<1>6. SameAs(NewSpeaker, NewSpeaker)
  BY DEF SameAs
<1>7. \A u \in DOMAIN cache' : SameAs(driver'[LocalAS[u]], cache'[u])
  BY <1>1, <1>3, <1>4, <1>6 DEF Starting
<1> QED  BY <1>2, <1>5, <1>7 DEF InStep, Steady

\* When an operation of the driver is over, the driver has caught up.
LEMMA CallMirrors ==
    ASSUME TypeOK, NEW t \in Threads, InStep(pc[t], job[t]), CallSucceeds(t)
    PROVE  InStep(pc[t], job[t])'
<1> DEFINE s == job[t].bs.id
           as == LocalAS[s]
           call == job[t].call
<1>1. /\ call # NoCall /\ pc[t] \notin {"add", "construct"}
      /\ UNCHANGED cache /\ Perform(as, call.op, call.arg)
      /\ CallReturns(t, needsResync)
  BY DEF CallSucceeds, InStep, agentVars
<1>2. pc'[t] \notin {"add", "construct"} /\ job'[t].call = NoCall
  <2>1. CASE job[t].kind = "drop"
    <3> DEFINE where == IF t = "sync" THEN "stale" ELSE "idle"
    <3>1. Enter(t, where, "none", NoDict, {})
      BY <1>1, <2>1 DEF CallReturns
    <3>2. where \notin {"add", "construct"}
      OBVIOUS
    <3> HIDE DEF where
    <3>3. pc'[t] = where /\ job'[t] = Job("none", NoDict, {})
      BY <3>1, OnlyMoves
    <3> QED  BY <3>2, <3>3 DEF Job
  <2>2. CASE job[t].kind # "drop"
    <3> DEFINE rest == Rest(t, job[t].todo, needsResync)
    <3>1. job[t] \in Jobs /\ DOMAIN job = Threads
      BY AtKind DEF TypeOK, ThreadTypeOK
    <3>2. /\ UNCHANGED pc
          /\ job' = [job EXCEPT ![t].call = NoCall, ![t].todo = rest]
      BY <1>1, <2>2 DEF CallReturns
    <3> HIDE DEF rest
    <3> QED  BY <1>1, <3>1, <3>2 DEF Jobs
  <2> QED  BY <2>1, <2>2
<1>3. CASE call.op = "delete_bgp_speaker"
  <2>1. Stopping(s) /\ driver' = DropKey(driver, as)
    BY <1>1, <1>3 DEF InStep, Perform
  <2>2. /\ DOMAIN driver' = DOMAIN driver \ {as}
        /\ \A x \in DOMAIN driver' : driver'[x] = driver[x]
    BY <2>1 DEF DropKey
  <2>3. \A u \in DOMAIN cache : LocalAS[u] # as /\ LocalAS[u] \in DOMAIN driver
    BY <2>1 DEF Stopping, Runs
  <2>4. Steady'
    BY <1>1, <2>1, <2>2, <2>3 DEF Stopping, Steady, Runs
  <2> QED  BY <1>2, <2>4 DEF InStep
<1>4. CASE call.op # "delete_bgp_speaker"
  <2>1. /\ Changing(s, call) /\ as \in DOMAIN driver
        /\ driver' = [driver EXCEPT ![as] = Effect(driver[as], call.op, call.arg)]
    BY <1>1, <1>4 DEF InStep, Perform
  <2>2. /\ DOMAIN driver' = DOMAIN driver
        /\ driver'[as] = Effect(driver[as], call.op, call.arg)
        /\ \A x \in DOMAIN driver : x # as => driver'[x] = driver[x]
    BY <2>1
  <2>3. \A u \in DOMAIN cache \ {s} :
            LocalAS[u] # as /\ LocalAS[u] \in DOMAIN driver
    BY <2>1 DEF Changing, Runs
  <2>4. Steady'
    BY <1>1, <2>1, <2>2, <2>3 DEF Changing, Steady, Runs
  <2> QED  BY <1>2, <2>4 DEF InStep
<1> QED  BY <1>3, <1>4


\* An operation on the peers or the routes of a cached speaker changes the cache
\* as the driver will be asked to change what runs, or asks nothing.
LEMMA OperationMirrors ==
    ASSUME TypeOK, NEW t \in Threads, InStep(pc[t], job[t]),
           NEW item \in job[t].todo,
           \/ AddBgpPeer(t, item) \/ RemoveBgpPeer(t, item)
           \/ AdvertiseRouteVia(t, item) \/ WithdrawRouteVia(t, item)
    PROVE  InStep(pc[t], job[t])'
<1> DEFINE s == job[t].bs.id
           as == LocalAS[s]
<1>1. /\ Steady /\ job[t].call = NoCall /\ UNCHANGED <<pc, driver>>
      /\ pc[t] \in {"peers", "rmpeers", "routes", "withdraw"}
  BY DEF AddBgpPeer, RemoveBgpPeer, AdvertiseRouteVia, WithdrawRouteVia, At,
         InStep
<1>2. /\ job[t] \in Jobs /\ DOMAIN job = Threads
      /\ job[t].todo \subseteq TodoOf[pc[t]]
  <2>1. pc[t] \in DOMAIN TodoOf
    BY <1>1, PlacesFacts
  <2> QED  BY <2>1, AtKind DEF TypeOK, ThreadTypeOK
<1>3. ASSUME UNCHANGED cache,
             \/ SkipItem(t, item)
             \/ \E rest : job' = [job EXCEPT ![t].todo = rest]
      PROVE  InStep(pc[t], job[t])'
  <2>1. PICK rest : job' = [job EXCEPT ![t].todo = rest]
    <3> DEFINE rest == Rest(t, job[t].todo \ {item}, needsResync)
    <3>1. SkipItem(t, item) => job' = [job EXCEPT ![t].todo = rest]
      BY <1>2 DEF SkipItem
    <3> HIDE DEF rest
    <3> QED  BY <1>3, <3>1
  <2>2. job'[t].call = NoCall
    BY <1>1, <1>2, <2>1 DEF Jobs
  <2>3. Steady'
    BY <1>1, <1>3 DEF Steady, Runs
  <2> QED  BY <1>1, <2>2, <2>3 DEF InStep
<1>4. ASSUME NEW op, op \notin {"none", "delete_bgp_speaker"},
             NEW now, cache' = [cache EXCEPT ![s] = now],
             Cached(s), CallNext(t, op, item, job[t].todo \ {item}),
             SameAs(Effect(driver[as], op, item), now)
      PROVE  InStep(pc[t], job[t])'
  <2>1. /\ job'[t].call = [op |-> op, arg |-> item]
        /\ job'[t].bs = job[t].bs
    BY <1>2, <1>4 DEF CallNext, Jobs
  <2>2. job'[t].call.op = op /\ job'[t].call.arg = item
        /\ job'[t].call # NoCall
    BY <1>4, <2>1 DEF NoCall
  <2>3. /\ DOMAIN cache' = DOMAIN cache /\ cache'[s] = now
        /\ \A u \in DOMAIN cache \ {s} : cache'[u] = cache[u]
    BY <1>4 DEF Cached
  <2>4. Changing(job[t].bs.id, job[t].call)'
    BY <1>1, <1>4, <2>1, <2>2, <2>3 DEF Changing, Steady, Runs, Cached
  <2> QED  BY <1>1, <1>4, <2>2, <2>4 DEF InStep
<1>5. ASSUME Cached(s)
      PROVE  /\ driver[as] \in [peers : SUBSET Peers, routes : SUBSET Routes]
             /\ cache[s] \in [peers : SUBSET Peers, routes : SUBSET Routes]
             /\ SameAs(driver[as], cache[s])
  <2>1. as \in DOMAIN driver
    BY <1>1, <1>5 DEF Steady, Runs, Cached
  <2> QED
    BY <1>1, <1>5, <2>1
       DEF Steady, Cached, TypeOK, DriverTypeOK, CacheTypeOK
<1>6. CASE AddBgpPeer(t, item)
  <2>1. Cached(s) /\ item \in Peers
    BY <1>2, <1>6, PlacesFacts DEF AddBgpPeer, At
  <2> DEFINE now == [cache[s] EXCEPT !.peers = @ \cup {item}]
  <2>2. SameAs(Effect(driver[as], "add_bgp_peer", item), now)
    BY <1>5, <2>1, EffectMirrors
  <2>3. CASE item \in cache[s].peers
    BY <1>3, <1>6, <2>3 DEF AddBgpPeer
  <2>4. CASE item \notin cache[s].peers
    <3>1. /\ cache' = [cache EXCEPT ![s] = now]
          /\ CallNext(t, "add_bgp_peer", item, job[t].todo \ {item})
      BY <1>6, <2>4 DEF AddBgpPeer
    <3> HIDE DEF now
    <3> QED  BY <1>4, <2>1, <2>2, <3>1
  <2> QED  BY <2>3, <2>4
<1>7. CASE RemoveBgpPeer(t, item)
  <2> DEFINE now == [cache[s] EXCEPT !.peers = @ \ {item}]
  <2>1. CASE Cached(s) /\ item \in cache[s].peers
    <3>1. SameAs(Effect(driver[as], "delete_bgp_peer", item), now)
      BY <1>5, <2>1, EffectMirrors
    <3>2. /\ cache' = [cache EXCEPT ![s] = now]
          /\ CallNext(t, "delete_bgp_peer", item, job[t].todo \ {item})
      BY <1>7, <2>1 DEF RemoveBgpPeer
    <3> HIDE DEF now
    <3> QED  BY <1>4, <2>1, <3>1, <3>2
  <2>2. CASE ~(Cached(s) /\ item \in cache[s].peers)
    <3>1. job' = [job EXCEPT ![t].todo = job[t].todo \ {item}]
      BY <1>2, <1>7, <2>2 DEF RemoveBgpPeer
    <3> QED  BY <1>3, <1>7, <2>2, <3>1 DEF RemoveBgpPeer
  <2> QED  BY <2>1, <2>2
<1>8. CASE AdvertiseRouteVia(t, item)
  <2>1. Cached(s) /\ item \in Routes
    BY <1>2, <1>8, PlacesFacts DEF AdvertiseRouteVia, At
  <2> DEFINE now == [cache[s] EXCEPT !.routes = @ \cup {item}]
  <2>2. SameAs(Effect(driver[as], "advertise_route", item), now)
    BY <1>5, <2>1, EffectMirrors
  <2>3. CASE IsRouteAdvertised(s, item)
    BY <1>3, <1>8, <2>3 DEF AdvertiseRouteVia
  <2>4. CASE ~IsRouteAdvertised(s, item)
    <3>1. /\ cache' = [cache EXCEPT ![s] = now]
          /\ CallNext(t, "advertise_route", item, job[t].todo \ {item})
      BY <1>8, <2>4 DEF AdvertiseRouteVia
    <3> HIDE DEF now
    <3> QED  BY <1>4, <2>1, <2>2, <3>1
  <2> QED  BY <2>3, <2>4
<1>9. CASE WithdrawRouteVia(t, item)
  <2> DEFINE now == [cache[s] EXCEPT !.routes =
                        WithoutDestination(@, item.destination)]
  <2>1. Cached(s)
    BY <1>9 DEF WithdrawRouteVia
  <2>2. SameAs(Effect(driver[as], "withdraw_route", item), now)
    BY <1>5, <2>1, EffectMirrors
  <2>3. CASE IsRouteAdvertised(s, item)
    <3>1. /\ cache' = [cache EXCEPT ![s] = now]
          /\ CallNext(t, "withdraw_route", item, job[t].todo \ {item})
      BY <1>9, <2>3 DEF WithdrawRouteVia
    <3> HIDE DEF now
    <3> QED  BY <1>4, <2>1, <2>2, <3>1
  <2>4. CASE ~IsRouteAdvertised(s, item)
    <3> DEFINE rest == Rest(t, job[t].todo \ {item}, needsResync')
    <3>1. job' = [job EXCEPT ![t].todo = rest]
      BY <1>2, <1>9, <2>4 DEF WithdrawRouteVia
    <3> HIDE DEF rest
    <3> QED  BY <1>3, <1>9, <2>4, <3>1 DEF WithdrawRouteVia
  <2> QED  BY <2>3, <2>4
<1> QED  BY <1>6, <1>7, <1>8, <1>9

\* The steps of a thread that leave the cache and the driver alone.
LEMMA QuietMirrors ==
    ASSUME TypeOK, NEW t \in Threads, InStep(pc[t], job[t]),
           \/ CompareRoutesFails(t)
           \/ \E where \in {"peers", "routes", "withdraw"} : Gone(t, where)
           \/ RmPeersEnds(t) \/ PeersEnds(t) \/ WithdrawEnds(t)
           \/ RoutesEnds(t) \/ CompareRoutes(t) \/ Refresh(t) \/ CastEnds(t)
    PROVE  InStep(pc[t], job[t])'
<1>1. /\ job[t].call = NoCall /\ UNCHANGED <<cache, driver>>
      /\ pc[t] \in {"peers", "rmpeers", "routes", "withdraw", "refresh"}
  BY DEF CompareRoutesFails, Gone, RmPeersEnds, PeersEnds, WithdrawEnds,
         RoutesEnds, CompareRoutes, Refresh, CastEnds, LoopEnds, NextLoop, At,
         agentVars
<1>2. PICK where, kind, bs, todo :
          /\ Enter(t, where, kind, bs, todo)
          /\ where \notin {"add", "construct"}
  BY DEF CompareRoutesFails, Gone, RmPeersEnds, PeersEnds, WithdrawEnds,
         RoutesEnds, CompareRoutes, Refresh, CastEnds, NextLoop, Abort, Return
<1>3. pc'[t] = where /\ job'[t].call = NoCall
  <2>1. pc'[t] = where /\ job'[t] = Job(kind, bs, todo)
    BY <1>2, OnlyMoves
  <2>2. Job(kind, bs, todo).call = NoCall
    BY DEF Job
  <2> QED  BY <2>1, <2>2
<1>4. Steady'
  BY <1>1 DEF InStep, Steady, Runs
<1> QED  BY <1>2, <1>3, <1>4 DEF InStep

\* Each step of the thread at work keeps the cache and the driver in step,
\* unless an operation of the driver raises.
LEMMA ThreadStepMirrors ==
    ASSUME TypeOK, NEW t \in Threads, InStep(pc[t], job[t]), ThreadStep(t),
           ~raised'
    PROVE  InStep(pc[t], job[t])'
<1>1. ~AddSpeakerExists(t) /\ ~AddSpeakerFails(t) /\ ~CallFails(t)
  BY DEF AddSpeakerExists, AddSpeakerFails, CallFails, DriverRaises
<1> QED
  BY <1>1, PutMirrors, ConstructMirrors, CallMirrors, OperationMirrors,
     QuietMirrors DEF ThreadStep

\* A thread at rest takes no step of a job.
LEMMA RestingWaits ==
    ASSUME TypeOK, NEW t \in Threads, ThreadStep(t)
    PROVE  ~Resting(t)
<1> SUFFICES ASSUME pc[t] \in {"idle", "reset"}
             PROVE  FALSE
  BY DEF Resting
<1>1. job[t].call = NoCall
  BY NothingAsked
<1> QED
  BY <1>1
     DEF ThreadStep, Put, PutFails, AddSpeaker, AddSpeakerExists,
         AddSpeakerFails, ConstructSpeaker, CallSucceeds, CallFails, Gone,
         AddBgpPeer, RemoveBgpPeer, AdvertiseRouteVia, WithdrawRouteVia,
         RmPeersEnds, PeersEnds, WithdrawEnds, RoutesEnds, CompareRoutes,
         CompareRoutesFails, Refresh, CastEnds, LoopEnds, At


\* Only a restart clears what was raised and what overlapped.
LEMMA FlagsStay ==
    ASSUME [Next]_vars, ~Restart
    PROVE  (overlapped => overlapped') /\ (raised => raised')
<1>1. ASSUME NEW t \in Threads, ThreadStep(t)
      PROVE  (overlapped => overlapped') /\ (raised => raised')
  <2>1. CASE \/ AddSpeakerExists(t) \/ AddSpeakerFails(t) \/ CallFails(t)
    BY <2>1 DEF AddSpeakerExists, AddSpeakerFails, CallFails, DriverRaises
  <2>2. CASE \/ Put(t) \/ PutFails(t) \/ AddSpeaker(t) \/ ConstructSpeaker(t)
             \/ CallSucceeds(t)
    BY <2>2 DEF Put, PutFails, AddSpeaker, ConstructSpeaker, CallSucceeds,
                auxVars
  <2>3. CASE CompareRoutesFails(t) \/ \E where : Gone(t, where)
    BY <2>3 DEF CompareRoutesFails, Gone, auxVars
  <2>4. ASSUME NEW p, \/ AddBgpPeer(t, p) \/ RemoveBgpPeer(t, p)
                      \/ AdvertiseRouteVia(t, p) \/ WithdrawRouteVia(t, p)
        PROVE  UNCHANGED <<overlapped, raised>>
    BY <2>4 DEF AddBgpPeer, RemoveBgpPeer, AdvertiseRouteVia, WithdrawRouteVia,
                auxVars
  <2>5. CASE \/ RmPeersEnds(t) \/ PeersEnds(t) \/ WithdrawEnds(t)
             \/ RoutesEnds(t) \/ CompareRoutes(t) \/ Refresh(t) \/ CastEnds(t)
    BY <2>5 DEF RmPeersEnds, PeersEnds, WithdrawEnds, RoutesEnds, CompareRoutes,
                Refresh, CastEnds, NextLoop, auxVars
  <2> QED  BY <1>1, <2>1, <2>2, <2>3, <2>4, <2>5 DEF ThreadStep
<1>2. CASE HandlerStarts
  <2>1. PICK m, op : Receive(m, op)
    BY <1>2 DEF HandlerStarts, CreateEnd, CallServerFails, RemoveEnd, OutOfSync,
       Process, AssociationEnd, DisassociationEnd, AdvertisementEnd,
       WithdrawalEnd
  <2> QED  BY <2>1 DEF Receive
<1>3. CASE \/ ReadReasons \/ ResetReasons \/ FetchSpeakers \/ IterateCache
           \/ IterationFails \/ IterationEnds \/ SyncEnds
           \/ \E s \in Speakers : KeepHosted(s) \/ RemoveStale(s)
           \/ \E bs \in sync.snap : VisitHosted(bs)
  <2>1. ASSUME NEW s, KeepHosted(s) \/ RemoveStale(s)
        PROVE  UNCHANGED <<overlapped, raised>>
    BY <2>1 DEF KeepHosted, RemoveStale, auxVars
  <2>2. ASSUME NEW bs, VisitHosted(bs)
        PROVE  UNCHANGED <<overlapped, raised>>
    BY <2>2 DEF VisitHosted, auxVars
  <2>3. CASE \/ ReadReasons \/ FetchSpeakers \/ IterateCache
             \/ IterationFails \/ IterationEnds \/ SyncEnds
    BY <2>3 DEF ReadReasons, FetchSpeakers, IterateCache, IterationFails,
                IterationEnds, SyncEnds, auxVars
  <2>4. CASE ResetReasons
    BY <2>4 DEF ResetReasons
  <2> QED  BY <1>3, <2>1, <2>2, <2>3, <2>4
<1>4. CASE \/ Server \/ AgentRevived \/ (\E n \in notices : AgentUpdated(n))
           \/ FetchSpeakersFails \/ LoseCast \/ LoseNotice \/ UNCHANGED vars
  BY <1>4 DEF Server, AgentRevived, AgentUpdated, FetchSpeakersFails, LoseCast,
              LoseNotice, vars, auxVars
<1>5. CASE SyncState
  BY <1>1, <1>3, <1>5 DEF SyncState, Threads
<1>6. CASE Handler
  BY <1>1, <1>2, <1>6 DEF Handler, Threads
<1> QED  BY <1>4, <1>5, <1>6 DEF Next, Environment

\* While sync_state is between two speakers, the handler is at rest and the
\* driver is steady, unless sync_state is removing a speaker.
LEMMA SyncAlone ==
    ASSUME TypeOK, MirrorInv, ~overlapped, ~raised,
           pc["sync"] \notin {"idle", "reset"}
    PROVE  pc["handler"] = "idle" /\ InStep(pc["sync"], job["sync"])
  BY DEF MirrorInv, Resting, Threads

\* sync_state keeps the cache and the driver in step.
LEMMA SyncStateMirrors ==
    ASSUME TypeOK, MirrorInv, ~overlapped, ~raised,
           \/ FetchSpeakers \/ FetchSpeakersFails \/ IterateCache
           \/ IterationFails \/ IterationEnds \/ SyncEnds
           \/ \E s \in Speakers : KeepHosted(s) \/ RemoveStale(s)
           \/ \E bs \in sync.snap : VisitHosted(bs)
    PROVE  MirrorInv'
<1>1. /\ pc["sync"] \in {"fetch", "iterate", "stale", "each"}
      /\ "sync" \in Threads /\ "handler" \in Threads
  BY DEF FetchSpeakers, FetchSpeakersFails, IterateCache, IterationFails,
         IterationEnds, SyncEnds, KeepHosted, RemoveStale, VisitHosted, At,
         Threads
<1>2. pc["handler"] = "idle" /\ InStep(pc["sync"], job["sync"])
  BY <1>1, SyncAlone
<1>3. pc["sync"] = "stale" => job["sync"].call = NoCall
  BY <1>1 DEF FetchSpeakers, FetchSpeakersFails, IterateCache, IterationFails,
         IterationEnds, SyncEnds, KeepHosted, RemoveStale, VisitHosted, At
<1>4. job["sync"].call = NoCall /\ Steady
  BY <1>1, <1>2, <1>3, NothingAsked DEF InStep
<1>5. DOMAIN pc = Threads /\ DOMAIN job = Threads
  BY DEF TypeOK, ThreadTypeOK
<1>6. SUFFICES pc'["handler"] = "idle" /\ InStep(pc["sync"], job["sync"])'
  BY <1>1 DEF MirrorInv, Resting, Threads
<1>7. ASSUME NEW s \in Speakers, RemoveStale(s)
      PROVE  pc'["handler"] = "idle" /\ InStep(pc["sync"], job["sync"])'
  <2>1. /\ s \in DOMAIN cache /\ DOMAIN cache' = DOMAIN cache \ {s}
        /\ \A u \in DOMAIN cache' : cache'[u] = cache[u]
        /\ UNCHANGED driver
    BY <1>7 DEF RemoveStale, RemoveSpeaker, Cached, DropKey
  <2>2. pc'["sync"] = "stale" /\ pc'["handler"] = "idle"
    BY <1>1, <1>2, <1>7, OnlyMoves DEF RemoveStale, RemoveSpeaker
  <2>3. /\ job'["sync"].call = [op |-> "delete_bgp_speaker", arg |-> None]
        /\ job'["sync"].bs.id = s
    BY <1>1, <1>5, <1>7 DEF RemoveStale, RemoveSpeaker, Job, NoDict
  <2>4. DOMAIN cache' \cup {s} = DOMAIN cache
    BY <2>1
  <2>5. Stopping(s)'
    BY <1>4, <1>7, <2>1, <2>4 DEF Steady, Stopping, Runs
  <2> QED  BY <2>2, <2>3, <2>5 DEF InStep, NoCall
<1>8. CASE ~\E s \in Speakers : RemoveStale(s)
  <2>1. UNCHANGED <<cache, driver>>
    BY <1>8 DEF FetchSpeakers, FetchSpeakersFails, IterateCache, IterationFails,
       IterationEnds, SyncEnds, KeepHosted, VisitHosted, agentVars
  <2>2. /\ pc'["sync"] \notin {"add", "construct"}
        /\ pc'["handler"] = "idle" /\ job'["sync"].call = NoCall
    <3>1. CASE \E bs \in sync.snap : VisitHosted(bs)
      <4>1. PICK where, kind, bs, todo :
                Enter("sync", where, kind, bs, todo)
                /\ where \in {"rmpeers", "put"}
        BY <3>1 DEF VisitHosted
      <4>2. /\ pc'["sync"] = where /\ job'["sync"] = Job(kind, bs, todo)
            /\ pc'["handler"] = pc["handler"]
        BY <1>1, <4>1, OnlyMoves
      <4> QED  BY <1>2, <4>1, <4>2 DEF Job
    <3>2. CASE IterationFails \/ FetchSpeakersFails
      <4>1. Enter("sync", "idle", "none", NoDict, {})
        BY <3>2 DEF IterationFails, FetchSpeakersFails, Abort
      <4>2. /\ pc'["sync"] = "idle" /\ job'["sync"] = Job("none", NoDict, {})
            /\ pc'["handler"] = pc["handler"]
        BY <1>1, <4>1, OnlyMoves
      <4> QED  BY <1>2, <4>2 DEF Job
    <3>3. CASE \/ FetchSpeakers \/ IterateCache \/ IterationEnds \/ SyncEnds
               \/ \E s \in Speakers : KeepHosted(s)
      BY <1>1, <1>2, <1>4, <1>5, <3>3
         DEF FetchSpeakers, IterateCache, IterationEnds, SyncEnds, KeepHosted,
             Goto
    <3> QED  BY <1>8, <3>1, <3>2, <3>3
  <2>3. Steady'
    BY <1>4, <2>1 DEF Steady, Runs
  <2> QED  BY <2>2, <2>3 DEF InStep
<1> QED  BY <1>7, <1>8

\* A handler that starts while sync_state is at rest is the only one at work.
LEMMA HandlerStartsMirrors ==
    ASSUME TypeOK, MirrorInv, ~overlapped, ~raised, HandlerStarts, ~overlapped'
    PROVE  MirrorInv'
<1>1. PICK m \in inbox :
          \/ CreateEnd(m) \/ CallServerFails(m)
          \/ RemoveEnd(m) \/ OutOfSync(m)
          \/ AssociationEnd(m) \/ DisassociationEnd(m)
          \/ AdvertisementEnd(m) \/ WithdrawalEnd(m)
  BY DEF HandlerStarts
<1>2. /\ pc["handler"] = "idle" /\ pc["sync"] \in {"idle", "reset"}
      /\ "handler" \in Threads /\ "sync" \in Threads
  <2>1. PICK op : Receive(m, op)
    BY <1>1 DEF CreateEnd, CallServerFails, RemoveEnd, OutOfSync, Process,
       AssociationEnd, DisassociationEnd, AdvertisementEnd, WithdrawalEnd
  <2> QED  BY <2>1 DEF Receive, Threads
<1>3. Steady /\ job["handler"].call = NoCall
  <2>1. PICK t \in Threads : InStep(pc[t], job[t])
    BY DEF MirrorInv
  <2>2. pc[t] \in {"idle", "reset"}
    BY <1>2 DEF Threads
  <2> QED  BY <1>2, <2>1, <2>2, NothingAsked
<1>4. SUFFICES UNCHANGED pc["sync"] /\ InStep(pc["handler"], job["handler"])'
  BY <1>2 DEF MirrorInv, Resting, Threads
<1>5. CASE RemoveEnd(m)
  <2> DEFINE s == m.speaker
  <2>1. /\ s \in DOMAIN cache /\ DOMAIN cache' = DOMAIN cache \ {s}
        /\ \A u \in DOMAIN cache' : cache'[u] = cache[u]
        /\ UNCHANGED driver /\ s \in Speakers
    BY <1>5, MessageType DEF RemoveEnd, RemoveSpeaker, Cached, DropKey
  <2>2. pc'["handler"] = "remove" /\ UNCHANGED pc["sync"]
    BY <1>2, <1>5, OnlyMoves DEF RemoveEnd, RemoveSpeaker
  <2>3. /\ job'["handler"].call = [op |-> "delete_bgp_speaker", arg |-> None]
        /\ job'["handler"].bs.id = s
    BY <1>2, <1>5
       DEF RemoveEnd, RemoveSpeaker, Job, NoDict, TypeOK, ThreadTypeOK
  <2>4. DOMAIN cache' \cup {s} = DOMAIN cache
    BY <2>1
  <2>5. Stopping(s)'
    BY <1>3, <2>1, <2>4 DEF Steady, Stopping, Runs
  <2> QED  BY <2>2, <2>3, <2>5 DEF InStep, NoCall
<1>6. CASE ~RemoveEnd(m)
  <2>1. UNCHANGED <<cache, driver>>
    BY <1>1, <1>6 DEF CreateEnd, CallServerFails, OutOfSync, Process,
       AssociationEnd, DisassociationEnd, AdvertisementEnd, WithdrawalEnd,
       agentVars
  <2>2. /\ pc'["handler"] \notin {"add", "construct"}
        /\ UNCHANGED pc["sync"] /\ job'["handler"].call = NoCall
    <3>1. CASE CallServerFails(m) \/ OutOfSync(m)
      BY <1>2, <1>3, <3>1 DEF CallServerFails, OutOfSync, threadVars
    <3>2. CASE ~(CallServerFails(m) \/ OutOfSync(m))
      <4>1. PICK where, kind, bs, todo :
                Enter("handler", where, kind, bs, todo)
                /\ where \notin {"add", "construct"}
        BY <1>1, <1>6, <3>2 DEF CreateEnd, Process, AssociationEnd,
           DisassociationEnd, AdvertisementEnd, WithdrawalEnd
      <4>2. /\ pc'["handler"] = where /\ job'["handler"] = Job(kind, bs, todo)
            /\ pc'["sync"] = pc["sync"]
        BY <1>2, <4>1, OnlyMoves
      <4> QED  BY <4>1, <4>2 DEF Job
    <3> QED  BY <3>1, <3>2
  <2>3. Steady'
    BY <1>3, <2>1 DEF Steady, Runs
  <2> QED  BY <2>2, <2>3 DEF InStep
<1> QED  BY <1>5, <1>6

\* The periodic task reads and resets its reasons while both threads are at
\* rest, or a handler is at work.
LEMMA ReasonsMirrors ==
    ASSUME TypeOK, MirrorInv, ~overlapped, ~raised,
           ReadReasons \/ ResetReasons, ~overlapped'
    PROVE  MirrorInv'
<1>1. /\ UNCHANGED <<cache, driver, job>> /\ DOMAIN pc = Threads
      /\ pc["sync"] \in {"idle", "reset"} /\ pc'["handler"] = pc["handler"]
      /\ ReadReasons => pc'["sync"] = "reset"
      /\ ResetReasons => pc'["sync"] = "fetch" /\ pc["handler"] = "idle"
      /\ "sync" \in Threads /\ "handler" \in Threads
  BY DEF ReadReasons, ResetReasons, Goto, agentVars, TypeOK, ThreadTypeOK,
         Threads
<1>2. PICK t \in Threads : /\ \A u \in Threads \ {t} : Resting(u)
                           /\ InStep(pc[t], job[t])
  BY DEF MirrorInv
<1>3. CASE pc["handler"] = "idle"
  <2>1. Steady /\ job["sync"].call = NoCall
    <3>1. pc[t] \in {"idle", "reset"}
      BY <1>1, <1>3 DEF Threads
    <3> QED  BY <1>1, <1>2, <3>1, NothingAsked
  <2>2. Steady'
    BY <1>1, <2>1 DEF Steady, Runs
  <2>3. InStep(pc["sync"], job["sync"])' /\ Resting("handler")'
    BY <1>1, <1>3, <2>1, <2>2 DEF InStep, Resting
  <2> QED  BY <1>1, <2>3 DEF MirrorInv, Threads
<1>4. CASE pc["handler"] # "idle"
  <2>1. t = "handler" /\ pc'["sync"] = "reset"
    BY <1>1, <1>2, <1>4 DEF Resting, Threads
  <2>2. InStep(pc["handler"], job["handler"])' /\ Resting("sync")'
    BY <1>1, <1>2, <2>1
       DEF InStep, Resting, Starting, Stopping, Changing, Steady, Runs
  <2> QED  BY <1>1, <2>2 DEF MirrorInv, Threads
<1> QED  BY <1>3, <1>4

\* At most one thread is at work, and the cache and the driver differ by what
\* it has yet to do, after every step.
LEMMA NextMirrors ==
    ASSUME TypeOK, MirrorInv, [Next]_vars
    PROVE  MirrorInv'
<1>1. CASE Restart
  <2>1. /\ pc'["sync"] = "fetch" /\ pc'["handler"] = "idle"
        /\ job'["sync"] = NoJob /\ "sync" \in Threads
        /\ DOMAIN cache' = {} /\ DOMAIN driver' = {}
    BY <1>1 DEF Restart, Threads
  <2>2. Steady'
    BY <2>1 DEF Steady, Runs
  <2>3. InStep(pc["sync"], job["sync"])' /\ Resting("handler")'
    BY <2>1, <2>2 DEF InStep, Resting, NoJob, Job
  <2> QED  BY <2>1, <2>3 DEF MirrorInv, Threads
<1>2. CASE ~Restart /\ (overlapped' \/ raised')
  BY <1>2 DEF MirrorInv
<1>3. CASE ~Restart /\ ~overlapped' /\ ~raised'
  <2>1. ~overlapped /\ ~raised
    BY <1>3, FlagsStay
  <2>2. PICK t \in Threads : /\ \A u \in Threads \ {t} : Resting(u)
                             /\ InStep(pc[t], job[t])
    BY <2>1 DEF MirrorInv
  <2>3. ASSUME NEW u \in Threads, ThreadStep(u)
        PROVE  MirrorInv'
    <3>1. u = t
      BY <2>2, <2>3, RestingWaits
    <3>2. InStep(pc[t], job[t])'
      BY <1>3, <2>2, <2>3, <3>1, ThreadStepMirrors
    <3>3. \A x \in Threads \ {t} : Resting(x)'
      BY <2>2, <2>3, <3>1, ThreadStepCarries DEF Carries, Resting
    <3> QED  BY <3>2, <3>3 DEF MirrorInv
  <2>4. CASE \/ Server \/ AgentRevived \/ (\E n \in notices : AgentUpdated(n))
             \/ LoseCast \/ LoseNotice \/ UNCHANGED vars
    <3>1. UNCHANGED <<cache, driver, pc, job>>
      BY <2>4 DEF Server, AgentRevived, AgentUpdated, LoseCast, LoseNotice,
                  vars, agentVars, threadVars
    <3>2. InStep(pc[t], job[t])' /\ \A u \in Threads \ {t} : Resting(u)'
      BY <2>2, <3>1
         DEF InStep, Resting, Starting, Stopping, Changing, Steady, Runs
    <3> QED  BY <3>2 DEF MirrorInv
  <2> QED
    BY <1>3, <2>1, <2>3, <2>4, SyncStateMirrors, HandlerStartsMirrors,
       ReasonsMirrors
       DEF Next, SyncState, Handler, Environment, Threads
<1> QED  BY <1>1, <1>2, <1>3

\* The cache is what the driver runs (bgp_dragent.py:571) whenever no thread is
\* in the middle of a speaker, as long as no operation of the driver raised and
\* the locks 'bgp-dragent' and 'bgp-dr-agent' did not let the two threads work
\* at once: for any speakers, whatever AS numbers they share, and whatever the
\* server, the network and restarts do.
THEOREM DriverMirrors == Spec => []DriverMirrorsCache
<1>1. Init => TypeOK /\ MirrorInv
  <2> SUFFICES ASSUME Init PROVE MirrorInv
    BY InitType
  <2>1. /\ pc["sync"] = "fetch" /\ pc["handler"] = "idle"
        /\ job["sync"] = NoJob /\ "sync" \in Threads
        /\ DOMAIN cache = {} /\ DOMAIN driver = {}
    BY DEF Init, DriverInit, Threads
  <2>2. InStep(pc["sync"], job["sync"]) /\ Resting("handler")
    BY <2>1 DEF InStep, Resting, NoJob, Job, Steady, Runs
  <2> QED  BY <2>1, <2>2 DEF MirrorInv, Threads
<1>2. TypeOK /\ MirrorInv /\ [Next]_vars => (TypeOK /\ MirrorInv)'
  BY NextType, NextMirrors
<1>3. TypeOK /\ MirrorInv => DriverMirrorsCache
  <2> SUFFICES ASSUME TypeOK, MirrorInv, AtRest, ~overlapped, ~raised
               PROVE  /\ \A s \in DOMAIN cache : Mirrors(s)
                      /\ DOMAIN driver = {LocalAS[s] : s \in DOMAIN cache}
    BY DEF DriverMirrorsCache
  <2>1. PICK t \in Threads : InStep(pc[t], job[t])
    BY DEF MirrorInv
  <2>2. pc[t] \in {"idle", "reset", "fetch", "iterate", "each"}
    BY DEF AtRest, Threads
  <2>3. Steady
    BY <2>1, <2>2, NothingAsked
  <2> QED  BY <2>3 DEF Steady, Runs, SameAs, Mirrors
<1> QED  BY <1>1, <1>2, <1>3, PTL DEF Spec

-----------------------------------------------------------------------------
(* The speakers that the driver runs.                                       *)

\* One thread is at work, and it constructs the only speaker.
AloneInv ==
    \/ overlapped
    \/ /\ \A as, other \in DOMAIN driver : as = other
       /\ \A t \in Threads : pc[t] = "construct" => DOMAIN driver = {}
       /\ \E t \in Threads : \A u \in Threads \ {t} : Resting(u)

\* Only a construction and an operation of the driver change what runs, and
\* only the tests of the driver precede a construction.
LEMMA DriverSteps ==
    ASSUME TypeOK, NEW t \in Threads, ThreadStep(t)
    PROVE  /\ UNCHANGED driver \/ ConstructSpeaker(t) \/ CallSucceeds(t)
           /\ \/ pc'[t] # "construct" \/ AddSpeaker(t)
              \/ pc[t] = "construct" /\ UNCHANGED driver
              \/ pc[t] = "construct" /\ CallSucceeds(t)
<1>1. CASE Put(t) \/ PutFails(t)
  <2>1. pc'[t] \in {"add", "idle"}
    BY <1>1, OnlyMoves DEF Put, PutFails, Abort
  <2> QED  BY <1>1, <2>1 DEF Put, PutFails
<1>2. CASE AddSpeaker(t)
  BY <1>2 DEF AddSpeaker
<1>3. CASE AddSpeakerExists(t) \/ AddSpeakerFails(t) \/ ConstructSpeaker(t)
  <2>1. PICK where, kind, bs, todo :
            Enter(t, where, kind, bs, todo) /\ where # "construct"
    BY <1>3 DEF AddSpeakerExists, AddSpeakerFails, ConstructSpeaker,
                ConfigurePeers, Return
  <2>2. pc'[t] # "construct"
    BY <2>1, OnlyMoves
  <2> QED  BY <1>3, <2>2 DEF AddSpeakerExists, AddSpeakerFails
<1>4. CASE CallSucceeds(t) \/ CallFails(t)
  <2>1. PICK needs : CallReturns(t, needs)
    BY <1>4 DEF CallSucceeds, CallFails
  <2>2. pc'[t] = "construct" => pc[t] = "construct"
    <3>1. CASE job[t].kind = "drop"
      <4>1. PICK where : /\ Enter(t, where, "none", NoDict, {})
                         /\ where # "construct"
        BY <2>1, <3>1 DEF CallReturns
      <4> QED  BY <4>1, OnlyMoves
    <3>2. CASE job[t].kind # "drop"
      BY <2>1, <3>2 DEF CallReturns
    <3> QED  BY <3>1, <3>2
  <2> QED  BY <1>4, <2>2 DEF CallFails
<1>5. CASE \E p \in job[t].todo :
              \/ AddBgpPeer(t, p) \/ RemoveBgpPeer(t, p)
              \/ AdvertiseRouteVia(t, p) \/ WithdrawRouteVia(t, p)
  BY <1>5 DEF AddBgpPeer, RemoveBgpPeer, AdvertiseRouteVia, WithdrawRouteVia
<1>6. CASE \/ CompareRoutesFails(t)
           \/ \E where \in {"peers", "routes", "withdraw"} : Gone(t, where)
           \/ RmPeersEnds(t) \/ PeersEnds(t) \/ WithdrawEnds(t)
           \/ RoutesEnds(t) \/ CompareRoutes(t) \/ Refresh(t) \/ CastEnds(t)
  <2>1. UNCHANGED driver
    BY <1>6 DEF CompareRoutesFails, Gone, RmPeersEnds, PeersEnds, WithdrawEnds,
       RoutesEnds, CompareRoutes, Refresh, CastEnds, NextLoop
  <2>2. PICK where, kind, bs, todo :
            Enter(t, where, kind, bs, todo) /\ where # "construct"
    BY <1>6 DEF CompareRoutesFails, Gone, RmPeersEnds, PeersEnds, WithdrawEnds,
       RoutesEnds, CompareRoutes, Refresh, CastEnds, NextLoop, Abort, Return
  <2>3. pc'[t] # "construct"
    BY <2>2, OnlyMoves
  <2> QED  BY <2>1, <2>3
<1> QED  BY <1>1, <1>2, <1>3, <1>4, <1>5, <1>6 DEF ThreadStep

\* Each step of the thread at work leaves one speaker at most.
LEMMA ThreadStepAlone ==
    ASSUME TypeOK, AloneInv, ~overlapped, NEW t \in Threads, ThreadStep(t)
    PROVE  AloneInv'
<1>1. \A u \in Threads \ {t} : Resting(u)
  BY RestingWaits DEF AloneInv
<1>2. \A u \in Threads \ {t} : Resting(u)' /\ pc'[u] # "construct"
  BY <1>1, ThreadStepCarries DEF Carries, Resting
<1>3. \A as, other \in DOMAIN driver : as = other
  BY DEF AloneInv
<1>4. SUFFICES /\ \A as, other \in DOMAIN driver' : as = other
               /\ pc'[t] = "construct" => DOMAIN driver' = {}
  BY <1>2 DEF AloneInv
<1>5. CASE ConstructSpeaker(t)
  <2> DEFINE as == LocalAS[job[t].bs.id]
  <2>1. DOMAIN driver = {}
    BY <1>5 DEF AloneInv, ConstructSpeaker, At
  <2>2. DOMAIN driver' = {as}
    BY <1>5, <2>1 DEF ConstructSpeaker, PutSpeaker, PutKey
  <2>3. pc'[t] # "construct"
    <3>1. Enter(t, "peers", "configure", job[t].bs, job[t].bs.peers)
      BY <1>5 DEF ConstructSpeaker, ConfigurePeers
    <3> QED  BY <3>1, OnlyMoves
  <2> QED  BY <2>2, <2>3
<1>6. CASE CallSucceeds(t)
  <2> DEFINE as == LocalAS[job[t].bs.id]
  <2>1. as \in DOMAIN driver /\ DOMAIN driver' \subseteq DOMAIN driver
    BY <1>6 DEF CallSucceeds, Perform, DropKey
  <2>2. pc[t] # "construct"
    BY <2>1 DEF AloneInv
  <2>3. ~AddSpeaker(t)
    BY <1>6 DEF AddSpeaker, At, CallSucceeds
  <2> QED  BY <1>3, <2>1, <2>2, <2>3, DriverSteps
<1>7. CASE UNCHANGED driver
  <2>1. CASE AddSpeaker(t)
    <3>1. ASSUME NEW as \in DOMAIN driver
          PROVE  FALSE
      <4>1. DOMAIN driver = {as}
        BY <1>3
      <4>2. Cardinality(DOMAIN driver) = 1
        BY <4>1, FS_Singleton
      <4> QED  BY <2>1, <4>2 DEF AddSpeaker, MaxScheduled
    <3> QED  BY <1>3, <1>7, <3>1
  <2>2. CASE ~AddSpeaker(t)
    <3>1. pc'[t] = "construct" => pc[t] = "construct"
      BY <2>2, DriverSteps
    <3> QED  BY <1>3, <1>7, <3>1 DEF AloneInv
  <2> QED  BY <2>1, <2>2
<1> QED  BY <1>5, <1>6, <1>7, DriverSteps

\* The other steps construct nothing, and no handler starts during a sync, nor
\* a sync during a handler, without an overlap.
LEMMA OtherStepsAlone ==
    ASSUME TypeOK, AloneInv, ~overlapped, ~overlapped',
           \/ ReadReasons \/ ResetReasons \/ FetchSpeakers \/ FetchSpeakersFails
           \/ IterateCache \/ IterationFails \/ IterationEnds \/ SyncEnds
           \/ \E s \in Speakers : KeepHosted(s) \/ RemoveStale(s)
           \/ \E bs \in sync.snap : VisitHosted(bs)
           \/ HandlerStarts
           \/ Server \/ AgentRevived \/ (\E n \in notices : AgentUpdated(n))
           \/ LoseCast \/ LoseNotice \/ UNCHANGED vars
    PROVE  AloneInv'
<1>1. Threads = {"sync", "handler"} /\ DOMAIN pc = Threads
  BY DEF Threads, TypeOK, ThreadTypeOK
<1>2. PICK t \in Threads : \A u \in Threads \ {t} : Resting(u)
  BY DEF AloneInv
<1>3. CASE \/ Server \/ AgentRevived \/ (\E n \in notices : AgentUpdated(n))
           \/ LoseCast \/ LoseNotice \/ UNCHANGED vars
  <2>1. UNCHANGED <<driver, pc>>
    BY <1>3 DEF Server, AgentRevived, AgentUpdated, LoseCast, LoseNotice, vars,
                threadVars
  <2> QED  BY <1>2, <2>1 DEF AloneInv, Resting
<1>4. CASE HandlerStarts
  <2>1. PICK m \in inbox :
            \/ CreateEnd(m) \/ CallServerFails(m)
            \/ RemoveEnd(m) \/ OutOfSync(m)
            \/ AssociationEnd(m) \/ DisassociationEnd(m)
            \/ AdvertisementEnd(m) \/ WithdrawalEnd(m)
    BY <1>4 DEF HandlerStarts
  <2>2. pc["handler"] = "idle" /\ pc["sync"] \in {"idle", "reset"}
    <3>1. PICK op : Receive(m, op)
      BY <2>1 DEF CreateEnd, CallServerFails, RemoveEnd, OutOfSync, Process,
         AssociationEnd, DisassociationEnd, AdvertisementEnd, WithdrawalEnd
    <3> QED  BY <3>1 DEF Receive
  <2>3. UNCHANGED driver
    BY <2>1 DEF CreateEnd, CallServerFails, RemoveEnd, OutOfSync, Process,
       AssociationEnd, DisassociationEnd, AdvertisementEnd, WithdrawalEnd
  <2>4. pc'["sync"] = pc["sync"] /\ pc'["handler"] # "construct"
    <3>1. CASE CallServerFails(m) \/ OutOfSync(m)
      BY <2>2, <3>1 DEF CallServerFails, OutOfSync, threadVars
    <3>2. CASE ~(CallServerFails(m) \/ OutOfSync(m))
      <4>1. PICK where : Goto("handler", where) /\ where # "construct"
        BY <2>1, <3>2 DEF CreateEnd, RemoveEnd, RemoveSpeaker, Process, Enter,
           AssociationEnd, DisassociationEnd, AdvertisementEnd, WithdrawalEnd
      <4> QED  BY <1>1, <4>1, OnlyMoves
    <3> QED  BY <3>1, <3>2
  <2> QED  BY <1>1, <2>2, <2>3, <2>4 DEF AloneInv, Resting
<1>5. CASE \/ ReadReasons \/ ResetReasons \/ FetchSpeakers
           \/ FetchSpeakersFails \/ IterateCache \/ IterationFails
           \/ IterationEnds \/ SyncEnds
           \/ \E s \in Speakers : KeepHosted(s) \/ RemoveStale(s)
           \/ \E bs \in sync.snap : VisitHosted(bs)
  <2>1. UNCHANGED driver
    BY <1>5 DEF ReadReasons, ResetReasons, FetchSpeakers, FetchSpeakersFails,
       IterateCache, IterationFails, IterationEnds, SyncEnds, KeepHosted,
       RemoveStale, VisitHosted
  <2>2. /\ pc'["handler"] = pc["handler"] /\ pc'["sync"] # "construct"
        /\ \/ pc["handler"] = "idle"
           \/ pc["sync"] \in {"idle", "reset"} /\ pc'["sync"] = "reset"
    <3>1. CASE ReadReasons
      BY <1>1, <3>1 DEF ReadReasons, Goto
    <3>2. CASE ResetReasons
      BY <1>1, <3>2 DEF ResetReasons, Goto
    <3>3. CASE ~ReadReasons /\ ~ResetReasons
      <4>1. pc["sync"] \in {"fetch", "iterate", "stale", "each"}
        BY <1>5, <3>3
           DEF FetchSpeakers, FetchSpeakersFails, IterateCache, IterationFails,
               IterationEnds, SyncEnds, KeepHosted, RemoveStale, VisitHosted, At
      <4>2. pc["handler"] = "idle"
        BY <1>1, <1>2, <4>1 DEF Resting
      <4>3. UNCHANGED pc \/ \E where : Goto("sync", where) /\ where # "construct"
        <5>1. CASE \/ FetchSpeakers \/ IterateCache \/ IterationEnds \/ SyncEnds
          BY <5>1 DEF FetchSpeakers, IterateCache, IterationEnds, SyncEnds
        <5>2. CASE FetchSpeakersFails \/ IterationFails
          BY <5>2 DEF FetchSpeakersFails, IterationFails, Abort, Enter
        <5>3. ASSUME NEW s, KeepHosted(s) \/ RemoveStale(s)
              PROVE  UNCHANGED pc
                     \/ \E where : Goto("sync", where) /\ where # "construct"
          BY <5>3 DEF KeepHosted, RemoveStale, RemoveSpeaker
        <5>4. ASSUME NEW bs, VisitHosted(bs)
              PROVE  \E where : Goto("sync", where) /\ where # "construct"
          BY <5>4 DEF VisitHosted, Enter
        <5> QED  BY <1>5, <3>3, <5>1, <5>2, <5>3, <5>4
      <4> QED  BY <1>1, <4>1, <4>2, <4>3, OnlyMoves
    <3> QED  BY <3>1, <3>2, <3>3
  <2>3. \E x \in Threads : \A u \in Threads \ {x} : Resting(u)'
    BY <1>1, <2>2 DEF Resting
  <2> QED  BY <1>1, <2>1, <2>2, <2>3 DEF AloneInv
<1> QED  BY <1>3, <1>4, <1>5

\* The test and the insertion of OsKenBgpDriver.add_bgp_speaker (driver.py:78
\* and 99) let no second speaker in, for any number of speakers and whatever
\* calls and operations fail, unless a sync and a handler overlapped: the
\* missing common lock is the only cause of a second speaker.
THEOREM NoSecondSpeaker == Spec => []OneSpeakerAlone
<1>1. Init => TypeOK /\ AloneInv
  <2> SUFFICES ASSUME Init PROVE AloneInv
    BY InitType
  <2>1. /\ pc["sync"] = "fetch" /\ pc["handler"] = "idle"
        /\ Threads = {"sync", "handler"} /\ DOMAIN driver = {}
    BY DEF Init, DriverInit, Threads
  <2> QED  BY <2>1 DEF AloneInv, Resting
<1>2. TypeOK /\ AloneInv /\ [Next]_vars => (TypeOK /\ AloneInv)'
  <2> SUFFICES ASSUME TypeOK, AloneInv, [Next]_vars
               PROVE  AloneInv'
    BY NextType
  <2>1. CASE Restart
    <3>1. /\ pc'["sync"] = "fetch" /\ pc'["handler"] = "idle"
          /\ Threads = {"sync", "handler"} /\ DOMAIN driver' = {}
      BY <2>1 DEF Restart, Threads
    <3> QED  BY <3>1 DEF AloneInv, Resting
  <2>2. CASE ~Restart /\ ~overlapped'
    <3>1. ~overlapped
      BY <2>2, FlagsStay
    <3> QED
      BY <2>2, <3>1, ThreadStepAlone, OtherStepsAlone
         DEF Next, SyncState, Handler, Environment, Threads
  <2> QED  BY <2>1, <2>2 DEF AloneInv
<1>3. AloneInv => OneSpeakerAlone
  <2> SUFFICES ASSUME \A as, other \in DOMAIN driver : as = other
               PROVE  Cardinality(DOMAIN driver) <= 1
    BY DEF AloneInv, OneSpeakerAlone
  <2>1. CASE DOMAIN driver = {}
    BY <2>1, FS_EmptySet
  <2>2. ASSUME NEW as \in DOMAIN driver
        PROVE  Cardinality(DOMAIN driver) <= 1
    <3>1. DOMAIN driver = {as}
      OBVIOUS
    <3>2. Cardinality({as}) = 1
      BY FS_Singleton
    <3> QED  BY <3>1, <3>2
  <2> QED  BY <2>1, <2>2
<1> QED  BY <1>1, <1>2, <1>3, PTL DEF Spec

-----------------------------------------------------------------------------
(* Speakers that the server binds to the agent.                             *)

\* What brings a speaker of the server's into the cache.
Expected(s) ==
    \/ \E m \in inbox : m.op = "create" /\ m.speaker = s
    \/ notices # {}
    \/ \E t \in Threads : pc[t] = "put" /\ job[t].bs.id = s
    \/ s \in needsResync
    \/ FullScheduled
    \/ pc["sync"] = "fetch" /\ Selected(s)
    \/ pc["sync"] = "stale" /\ ~Intact
    \/ ToVisit(s)

HostedDue == enabled => \A s \in Bound \ (DOMAIN cache \cup misled) : Expected(s)

\* A bound speaker that is not cached comes, or the agent is not told of it.
LEMMA UntoldOrExpected ==
    /\ \A s \in Bound \ DOMAIN cache : s \in Untold \/ Expected(s)
    /\ \A s \in Bound' \ DOMAIN cache' : s \in Untold' \/ Expected(s)'
  BY DEF Untold, Coming, Cached, Expected, Threads

\* What the steps of a thread leave alone: the server's bindings, casts and
\* notices, and the cached speakers, but for the one a thread puts.
LEMMA ThreadKeeps ==
    ASSUME TypeOK, NEW t \in Threads, ThreadStep(t)
    PROVE  /\ UNCHANGED <<boundVars, inbox>>
           /\ DOMAIN cache \subseteq DOMAIN cache'
           /\ DOMAIN cache' = DOMAIN cache \/ Unnoticed \subseteq misled'
           /\ misled \subseteq misled' \cup DOMAIN cache'
           /\ pc[t] = "put" =>
                  \/ job[t].bs.id \in DOMAIN cache'
                  \/ pc'[t] = "put" /\ job'[t].bs = job[t].bs
<1>1. CASE Put(t) \/ PutFails(t)
  BY <1>1 DEF Put, PutFails, At, PutKey, Cached, serverVars, auxVars
<1>2. CASE \/ AddSpeaker(t) \/ AddSpeakerExists(t) \/ AddSpeakerFails(t)
           \/ ConstructSpeaker(t)
  BY <1>2 DEF AddSpeaker, AddSpeakerExists, AddSpeakerFails, ConstructSpeaker,
              At, serverVars, agentVars, auxVars
<1>3. CASE CallSucceeds(t) \/ CallFails(t)
  <2>1. UNCHANGED <<boundVars, inbox, cache, misled>>
    BY <1>3 DEF CallSucceeds, CallFails, serverVars, agentVars, auxVars
  <2>2. ASSUME pc[t] = "put"
        PROVE  pc'[t] = "put" /\ job'[t].bs = job[t].bs
    <3>1. PICK needs : CallReturns(t, needs)
      BY <1>3 DEF CallSucceeds, CallFails
    <3>2. /\ job[t].kind # "drop"
          /\ job[t] \in Jobs /\ DOMAIN job = Threads
      BY <2>2, AtKind DEF TypeOK, ThreadTypeOK
    <3> DEFINE rest == Rest(t, job[t].todo, needs)
    <3>3. /\ job' = [job EXCEPT ![t].call = NoCall, ![t].todo = rest]
          /\ UNCHANGED pc
      BY <3>1, <3>2 DEF CallReturns
    <3> HIDE DEF rest
    <3> QED  BY <2>2, <3>2, <3>3 DEF Jobs
  <2> QED  BY <2>1, <2>2
<1>4. CASE \/ CompareRoutesFails(t)
           \/ \E where \in {"peers", "routes", "withdraw"} : Gone(t, where)
  BY <1>4 DEF CompareRoutesFails, Gone, LoopEnds, At, serverVars, auxVars
<1>5. CASE \E p \in job[t].todo :
              \/ AddBgpPeer(t, p) \/ RemoveBgpPeer(t, p)
              \/ AdvertiseRouteVia(t, p) \/ WithdrawRouteVia(t, p)
  BY <1>5 DEF AddBgpPeer, RemoveBgpPeer, AdvertiseRouteVia, WithdrawRouteVia,
              At, serverVars, auxVars
<1>6. CASE \/ RmPeersEnds(t) \/ PeersEnds(t) \/ WithdrawEnds(t)
           \/ RoutesEnds(t) \/ CompareRoutes(t) \/ Refresh(t) \/ CastEnds(t)
  BY <1>6 DEF RmPeersEnds, PeersEnds, WithdrawEnds, RoutesEnds, CompareRoutes,
              Refresh, CastEnds, LoopEnds, NextLoop, At, serverVars, agentVars,
              auxVars
<1> QED  BY <1>1, <1>2, <1>3, <1>4, <1>5, <1>6 DEF ThreadStep

\* A step that loses no refresh, no cast of a creation and no speaker that is
\* to be put in the cache loses no bound speaker, if the agent is misled about
\* those it takes out of the cache or out of the sight of the iteration.
LEMMA StaysDue ==
    ASSUME TypeOK, HostedDue, NEW t \in Threads, Carries(t),
           UNCHANGED boundVars,
           \A m \in inbox : m.op = "create" =>
               \/ m \in inbox' \/ m.speaker \in needsResync'
               \/ pc'[t] = "put" /\ job'[t].bs.id = m.speaker,
           Untold' \cap DOMAIN cache \subseteq misled',
           DOMAIN cache' = DOMAIN cache \/ Unnoticed \subseteq misled',
           misled \subseteq misled' \cup DOMAIN cache',
           pc[t] = "put" =>
               \/ job[t].bs.id \in DOMAIN cache'
               \/ pc'[t] = "put" /\ job'[t].bs.id = job[t].bs.id
    PROVE  HostedDue'
<1>1. Bound' = Bound /\ enabled' = enabled /\ notices' = notices
  BY DEF Bound, boundVars
<1> SUFFICES ASSUME NEW s \in Bound, s \notin DOMAIN cache', s \notin misled',
                    enabled
             PROVE  Expected(s)'
  BY <1>1 DEF HostedDue
<1>2. CASE Aborted(t)
  BY <1>2 DEF Aborted, Expected, FullScheduled
<1>3. CASE s \in Untold'
  <2>1. /\ s \notin DOMAIN cache
        /\ pc["sync"] = "stale" /\ ~Intact => ~Intact' \/ Aborted(t)
    <3>1. s \notin Unnoticed \/ DOMAIN cache' = DOMAIN cache
      OBVIOUS
    <3>2. sync' = sync \/ Aborted(t)
      BY DEF Carries, SyncGoesOn
    <3> QED  BY <1>3, <3>1, <3>2 DEF Unnoticed, Intact
  <2>2. CASE ~Aborted(t)
    <3>1. Expected(s)
      BY <2>1 DEF HostedDue
    <3>2. /\ UNCHANGED <<needsFull, sync>>
          /\ \/ UNCHANGED pc["sync"]
             \/ pc["sync"] \in Working /\ pc'["sync"] \in Working \cup {"each"}
      BY <2>2 DEF Carries, SyncGoesOn, Threads
    <3>3. \/ UNCHANGED pc["sync"]
          \/ {pc["sync"], pc'["sync"]} \cap
                {"idle", "reset", "fetch", "iterate", "stale"} = {}
      BY <3>2 DEF Working
    <3>4. SnapIds' = SnapIds /\ Selected(s)' = Selected(s)
      BY <3>2 DEF SnapIds, Selected, ResyncAll
    <3>5. /\ FullScheduled => FullScheduled'
          /\ pc["sync"] = "fetch" /\ Selected(s) =>
                pc'["sync"] = "fetch" /\ Selected(s)'
          /\ pc["sync"] = "stale" /\ ~Intact => pc'["sync"] = "stale" /\ ~Intact'
          /\ ToVisit(s) => ToVisit(s)'
      BY <2>1, <2>2, <3>2, <3>3, <3>4 DEF FullScheduled, ToVisit
    <3>6. ASSUME NEW u \in Threads, pc[u] = "put", job[u].bs.id = s
          PROVE  pc'[u] = "put" /\ job'[u].bs.id = s
      BY <3>6 DEF Carries
    <3>7. ASSUME NEW m \in inbox, m.op = "create", m.speaker = s
          PROVE  Expected(s)'
      BY <3>7 DEF Expected
    <3>8. s \in needsResync => s \in needsResync'
      BY DEF Carries
    <3> QED  BY <1>1, <3>1, <3>5, <3>6, <3>7, <3>8 DEF Expected
  <2> QED  BY <1>2, <2>2
<1> QED  BY <1>1, <1>3, UntoldOrExpected

\* A handler that takes a creation is about to put its speaker, or schedules its
\* resync; one that takes a removal misleads the agent.
LEMMA HandlerStartsDue ==
    ASSUME TypeOK, HostedDue, HandlerStarts
    PROVE  HostedDue'
<1>1. PICK m \in inbox :
          \/ CreateEnd(m) \/ CallServerFails(m)
          \/ RemoveEnd(m) \/ OutOfSync(m)
          \/ AssociationEnd(m) \/ DisassociationEnd(m)
          \/ AdvertisementEnd(m) \/ WithdrawalEnd(m)
  BY DEF HandlerStarts
<1>2. /\ UNCHANGED boundVars /\ inbox' = inbox \ {m}
      /\ pc["handler"] = "idle" /\ "handler" \in Threads
  BY <1>1 DEF CreateEnd, CallServerFails, RemoveEnd, OutOfSync, Process,
     AssociationEnd, DisassociationEnd, AdvertisementEnd, WithdrawalEnd,
     Receive, Threads
<1>3. m.op = "create" =>
          \/ m.speaker \in needsResync'
          \/ pc'["handler"] = "put" /\ job'["handler"].bs.id = m.speaker
  <2>1. CASE CreateEnd(m)
    <3>1. /\ pc'["handler"] = "put"
          /\ job'["handler"] = Job("configure", SpeakerDict(m.speaker), {})
      BY <1>2, <2>1, OnlyMoves DEF CreateEnd
    <3> QED  BY <3>1 DEF Job, SpeakerDict
  <2>2. CASE CallServerFails(m)
    BY <2>2 DEF CallServerFails, ScheduleResync
  <2> QED
    BY <1>1, <2>1, <2>2 DEF RemoveEnd, OutOfSync, Process, AssociationEnd,
       DisassociationEnd, AdvertisementEnd, WithdrawalEnd, Receive
<1>4. /\ Untold' \cap DOMAIN cache \subseteq misled'
      /\ DOMAIN cache' = DOMAIN cache \/ Unnoticed \subseteq misled'
      /\ misled \subseteq misled'
  <2>1. CASE RemoveEnd(m)
    <3>1. DOMAIN cache' = DOMAIN cache \ {m.speaker}
      BY <2>1 DEF RemoveEnd, RemoveSpeaker, DropKey
    <3>2. misled' = misled \cup (Untold' \cap {m.speaker}) \cup Unnoticed
      BY <2>1 DEF RemoveEnd
    <3>3. Untold' \cap DOMAIN cache' = {}
      BY DEF Untold, Cached
    <3> QED  BY <3>1, <3>2, <3>3
  <2>2. CASE ~RemoveEnd(m)
    <3>1. UNCHANGED <<cache, misled>>
      BY <1>1, <2>2 DEF CreateEnd, CallServerFails, OutOfSync, Process,
         AssociationEnd, DisassociationEnd, AdvertisementEnd, WithdrawalEnd,
         agentVars
    <3> QED  BY <3>1 DEF Untold, Cached
  <2> QED  BY <2>1, <2>2
<1> QED  BY <1>2, <1>3, <1>4, HandlerStartsCarries, StaysDue

\* The removal of a stale speaker is a change of the size of the cache.
LEMMA RemoveStaleDue ==
    ASSUME TypeOK, NEW s \in Speakers, RemoveStale(s)
    PROVE  HostedDue'
<1>1. /\ DOMAIN cache' = DOMAIN cache \ {s} /\ s \in DOMAIN cache
      /\ UNCHANGED sync
      /\ Intact
  BY DEF RemoveStale, RemoveSpeaker, DropKey, Cached
<1>2. pc'["sync"] = "stale"
  BY DEF RemoveStale, RemoveSpeaker, Goto, TypeOK, ThreadTypeOK, Threads
<1>3. ~Intact'
  <2>1. /\ Cardinality(DOMAIN cache \ {s}) = Cardinality(DOMAIN cache) - 1
        /\ Cardinality(DOMAIN cache) \in Nat
    BY <1>1, CacheIsFinite, FS_RemoveElement, FS_CardinalityType
  <2> QED  BY <1>1, <2>1 DEF Intact
<1> QED  BY <1>2, <1>3 DEF HostedDue, Expected

\* The periodic task between two speakers passes on what it owes: the reasons it
\* resets choose the speakers of the sync, a hosted speaker is in the reply, and
\* a speaker of the reply that is not cached is put.
LEMMA SyncStepDue ==
    ASSUME TypeOK, HostedDue,
           \/ ReadReasons \/ ResetReasons \/ FetchSpeakers \/ IterateCache
           \/ IterationEnds \/ SyncEnds
           \/ \E s \in Speakers : KeepHosted(s)
    PROVE  HostedDue'
<1>1. /\ UNCHANGED <<boundVars, inbox, cache, job>>
      /\ sync \in SyncRecords /\ DOMAIN pc = Threads
      /\ pc["sync"] # "put"
      /\ FetchSpeakers \/ UNCHANGED misled
  BY DEF ReadReasons, ResetReasons, FetchSpeakers, IterateCache, IterationEnds,
     SyncEnds, KeepHosted, serverVars, agentVars, auxVars, TypeOK, SyncTypeOK,
     ThreadTypeOK, At
<1>2. UNCHANGED <<hosted, arriving, enabled, notices>>
  BY <1>1 DEF boundVars
<1>3. SUFFICES ASSUME NEW s \in Bound, s \notin DOMAIN cache, s \notin misled',
                      enabled
               PROVE  Expected(s)'
  BY <1>1, <1>2 DEF HostedDue, Bound
<1>4. FetchSpeakers /\ s \in hosted /\ Selected(s) => ToVisit(s)'
  <2>1. s \in hosted => SpeakerDict(s) \in HostedDicts
    BY <1>3 DEF HostedDicts, Served
  <2>2. SpeakerDict(s).id = s
    BY DEF SpeakerDict
  <2> QED
    BY <1>1, <2>1, <2>2
       DEF FetchSpeakers, Goto, Threads, ToVisit, SnapIds, Selected, ResyncAll,
           SyncRecords
<1>5. CASE s \in misled
  <2>1. FetchSpeakers /\ s \in hosted /\ Selected(s)
    BY <1>1, <1>3, <1>5 DEF FetchSpeakers, Served
  <2> QED  BY <1>4, <2>1 DEF Expected
<1> SUFFICES ASSUME s \notin misled
             PROVE  Expected(s)'
  BY <1>5
<1>6. Expected(s)
  BY <1>3 DEF HostedDue
<1>7. CASE \/ \E m \in inbox : m.op = "create" /\ m.speaker = s
           \/ notices # {}
  BY <1>1, <1>2, <1>7 DEF Expected
<1>8. ASSUME NEW t \in Threads, pc[t] = "put", job[t].bs.id = s
      PROVE  Expected(s)'
  <2>1. t = "handler"
    BY <1>1, <1>8 DEF Threads
  <2>2. pc'[t] = "put" /\ job'[t].bs.id = s
    BY <1>1, <1>8, <2>1 DEF ReadReasons, ResetReasons, FetchSpeakers,
       IterateCache, IterationEnds, SyncEnds, KeepHosted, Goto
  <2> QED  BY <1>8, <2>2 DEF Expected
<1>9. CASE FetchSpeakers /\ Selected(s) /\ s \notin hosted
  <2>1. s \notin Untold
    BY <1>3, <1>9 DEF FetchSpeakers
  <2>2. Coming(s)
    BY <1>3, <2>1 DEF Untold, Cached
  <2> QED  BY <1>7, <1>8, <2>2 DEF Coming, Threads
<1> SUFFICES ASSUME ~(FetchSpeakers /\ Selected(s) /\ s \notin hosted)
             PROVE  Expected(s)'
  BY <1>9
<1> DEFINE Owed == \/ s \in needsResync
                   \/ FullScheduled
                   \/ pc["sync"] = "fetch" /\ Selected(s)
                   \/ pc["sync"] = "stale" /\ ~Intact
                   \/ ToVisit(s)
<1>10. ASSUME Owed
       PROVE  Owed'
  <2> USE <1>1, <1>10 DEF FullScheduled, ToVisit, Selected, ResyncAll,
          SnapIds, SyncRecords, Goto, Threads
  <2>1. CASE ReadReasons
    BY <2>1 DEF ReadReasons, agentVars
  <2>2. CASE ResetReasons
    BY <2>2 DEF ResetReasons
  <2>3. CASE FetchSpeakers
    BY <1>4, <2>3 DEF FetchSpeakers, agentVars
  <2>4. CASE IterateCache
    BY <2>4 DEF IterateCache, agentVars
  <2>5. CASE IterationEnds
    <3>1. pc'["sync"] = "each" /\ UNCHANGED <<sync, needsFull, needsResync>>
      BY <2>5 DEF IterationEnds, agentVars
    <3>2. pc["sync"] = "stale" /\ Intact
      BY <2>5 DEF IterationEnds, At
    <3> QED  BY <3>1, <3>2
  <2>6. CASE SyncEnds
    BY <2>6 DEF SyncEnds, agentVars
  <2>7. ASSUME NEW x \in Speakers, KeepHosted(x)
        PROVE  Owed'
    BY <2>7 DEF KeepHosted, agentVars, Intact
  <2> QED  BY <2>1, <2>2, <2>3, <2>4, <2>5, <2>6, <2>7
<1>11. Owed' => Expected(s)'
  BY DEF Expected
<1> HIDE DEF Owed
<1>12. \/ Owed \/ notices # {}
       \/ \E m \in inbox : m.op = "create" /\ m.speaker = s
       \/ \E t \in Threads : pc[t] = "put" /\ job[t].bs.id = s
  BY <1>6 DEF Expected, Owed
<1> QED  BY <1>7, <1>8, <1>10, <1>11, <1>12

\* A visited speaker is put when it is not cached.
LEMMA VisitDue ==
    ASSUME TypeOK, HostedDue, NEW bs \in sync.snap, VisitHosted(bs)
    PROVE  HostedDue'
<1>1. /\ "sync" \in Threads /\ pc["sync"] = "each"
      /\ UNCHANGED <<hosted, arriving, enabled, notices, inbox, misled>>
      /\ UNCHANGED <<cache, needsResync, needsFull>>
      /\ sync \in SyncRecords
      /\ sync' = [sync EXCEPT !.snap = @ \ {bs}]
  BY DEF VisitHosted, Threads, serverVars, boundVars, agentVars, auxVars,
         TypeOK, SyncTypeOK
<1>2. SUFFICES ASSUME NEW s \in Bound, s \notin DOMAIN cache, s \notin misled,
                      enabled
               PROVE  Expected(s)'
  BY <1>1 DEF HostedDue, Bound
<1>3. /\ pc'["sync"] \in {"rmpeers", "put"}
      /\ pc'["handler"] = pc["handler"] /\ job'["handler"] = job["handler"]
  BY <1>1, OnlyMoves DEF VisitHosted, Threads
<1>4. CASE bs.id = s
  <2>1. Enter("sync", "put", "configure", bs, {})
    BY <1>2, <1>4 DEF VisitHosted, Cached
  <2>2. pc'["sync"] = "put" /\ job'["sync"] = Job("configure", bs, {})
    BY <1>1, <2>1, OnlyMoves
  <2> QED  BY <1>1, <1>4, <2>2 DEF Expected, Job
<1>5. CASE bs.id # s
  <2>1. Expected(s)
    BY <1>2 DEF HostedDue
  <2>2. FullScheduled' = FullScheduled /\ (ToVisit(s) => ToVisit(s)')
    BY <1>1, <1>3, <1>5
       DEF FullScheduled, ToVisit, Selected, ResyncAll, SnapIds, SyncRecords
  <2> QED  BY <1>1, <1>3, <2>1, <2>2 DEF Expected, Threads
<1> QED  BY <1>4, <1>5

\* The server takes back no cast and no notice.
LEMMA ServerKeeps ==
    ASSUME ServerStep
    PROVE  /\ inbox \subseteq inbox'
           /\ notices \subseteq notices'
           /\ enabled' = enabled \/ notices' # {}
<1>1. ASSUME NEW s \in Speakers,
             \/ HostSpeaker(s) \/ AutoSchedule(s)
             \/ RescheduleHere(s) \/ ArrivalCommits(s) \/ ArrivalFails(s)
             \/ UnhostSpeaker(s) \/ Reschedule(s)
      PROVE  inbox \subseteq inbox' /\ UNCHANGED <<enabled, notices>>
  BY <1>1 DEF HostSpeaker, AutoSchedule, RescheduleHere, ArrivalCommits,
              ArrivalFails, UnhostSpeaker, Reschedule
<1>2. CASE ToggleAgent
  BY <1>2 DEF ToggleAgent
<1>3. ASSUME NEW s \in Speakers, NEW p \in Peers,
             AssociatePeer(s, p) \/ DisassociatePeer(s, p)
      PROVE  inbox \subseteq inbox' /\ UNCHANGED <<enabled, notices>>
  BY <1>3 DEF AssociatePeer, DisassociatePeer, Notify, boundVars
<1>4. ASSUME NEW s \in Speakers, NEW r \in Routes,
             \/ StartRoute(s, r) \/ StopRoute(s, r)
             \/ \E hop \in NextHops : MoveRoute(s, r, hop)
      PROVE  inbox \subseteq inbox' /\ UNCHANGED <<enabled, notices>>
  BY <1>4 DEF StartRoute, StopRoute, MoveRoute, Notify, boundVars
<1> QED  BY <1>1, <1>2, <1>3, <1>4 DEF ServerStep

\* A newly bound speaker has a cast of its creation, or the agent is misled; the
\* agent that is enabled again has a notice.
LEMMA ServerDue ==
    ASSUME TypeOK, HostedDue, Server
    PROVE  HostedDue'
<1>1. UNCHANGED <<cache, needsResync, needsFull, pc, job, sync>>
  BY DEF Server, agentVars, threadVars
<1>2. /\ inbox \subseteq inbox' /\ notices \subseteq notices'
      /\ enabled' = enabled \/ notices' # {}
      /\ misled' = (misled \cap Bound') \cup (Untold' \ Bound)
  BY ServerKeeps DEF Server
<1>3. SUFFICES ASSUME enabled', NEW s \in Bound', s \notin DOMAIN cache,
                      s \notin misled'
               PROVE  Expected(s)'
  BY <1>1 DEF HostedDue
<1>4. CASE s \notin Bound
  <2>1. s \notin Untold'
    BY <1>2, <1>3, <1>4
  <2> QED  BY <1>1, <1>3, <2>1, UntoldOrExpected
<1>5. CASE s \in Bound
  <2>1. CASE enabled' # enabled
    BY <1>2, <2>1 DEF Expected
  <2>2. CASE enabled' = enabled
    <3>1. s \notin misled
      BY <1>2, <1>3
    <3>2. Expected(s)
      BY <1>3, <1>5, <2>2, <3>1 DEF HostedDue
    <3>3. /\ FullScheduled' = FullScheduled /\ Selected(s)' = Selected(s)
          /\ Intact' = Intact /\ ToVisit(s)' = ToVisit(s)
      BY <1>1 DEF FullScheduled, Selected, ResyncAll, Intact, ToVisit, SnapIds
    <3> QED  BY <1>1, <1>2, <3>2, <3>3 DEF Expected
  <2> QED  BY <2>1, <2>2
<1> QED  BY <1>4, <1>5

\* A lost cast or notice misleads the agent; a notice that is taken gives a
\* reason for a full resync, or misleads the agent when it comes between the two
\* steps of the periodic task.
LEMMA NoticeDue ==
    ASSUME TypeOK, HostedDue,
           \/ AgentRevived \/ (\E n \in notices : AgentUpdated(n))
           \/ LoseCast \/ LoseNotice \/ UNCHANGED vars
    PROVE  HostedDue'
<1>1. /\ UNCHANGED <<hosted, arriving, enabled, cache, needsResync, pc, job, sync>>
      /\ needsFull => needsFull'
      /\ misled \subseteq misled'
  BY DEF AgentRevived, AgentUpdated, LoseCast, LoseNotice, vars, serverVars,
         boundVars, agentVars, threadVars, auxVars
<1>2. SUFFICES ASSUME enabled, NEW s \in Bound, s \notin DOMAIN cache,
                      s \notin misled, s \notin misled'
               PROVE  Expected(s)'
  BY <1>1 DEF HostedDue, Bound
<1>3. Expected(s)
  BY <1>2 DEF HostedDue
<1>4. s \in Untold' \/ Expected(s)'
  BY <1>1, <1>2, UntoldOrExpected DEF Bound
<1>5. /\ FullScheduled => FullScheduled'
      /\ Selected(s)' = Selected(s)
      /\ Intact' = Intact /\ ToVisit(s)' = ToVisit(s)
  BY <1>1 DEF FullScheduled, Selected, ResyncAll, Intact, ToVisit, SnapIds
<1> DEFINE Owed == \/ \E t \in Threads : pc[t] = "put" /\ job[t].bs.id = s
                   \/ s \in needsResync
                   \/ FullScheduled
                   \/ pc["sync"] = "fetch" /\ Selected(s)
                   \/ pc["sync"] = "stale" /\ ~Intact
                   \/ ToVisit(s)
<1>6. Owed => Owed'
  BY <1>1, <1>5
<1>7. \/ Owed \/ notices # {}
      \/ \E m \in inbox : m.op = "create" /\ m.speaker = s
  BY <1>3 DEF Expected
<1>8. Owed' => Expected(s)'
  BY DEF Expected
<1> HIDE DEF Owed
<1>9. CASE UNCHANGED <<inbox, notices>>
  BY <1>6, <1>7, <1>8, <1>9 DEF Expected
<1>10. CASE \E n \in notices : AgentUpdated(n)
  <2>1. UNCHANGED inbox /\ needsFull'
    BY <1>10 DEF AgentUpdated
  <2>2. Untold' = Untold
    BY <1>1, <2>1 DEF Untold, Bound, Cached, Coming
  <2>3. CASE pc["sync"] = "reset" /\ ~sync.full
    <3>1. s \notin Untold \/ s \in needsResync
      BY <1>2, <1>10, <2>3 DEF AgentUpdated
    <3> QED  BY <1>1, <1>4, <2>2, <3>1 DEF Expected
  <2>4. CASE ~(pc["sync"] = "reset" /\ ~sync.full)
    BY <1>1, <2>1, <2>4 DEF Expected, FullScheduled
  <2> QED  BY <2>3, <2>4
<1>11. CASE LoseCast
  <2>1. PICK m \in inbox :
            /\ inbox' = inbox \ {m} /\ UNCHANGED notices
            /\ misled' = misled \cup
                   (IF m.op = "create" THEN Untold' \cap {m.speaker} ELSE {})
    BY <1>11 DEF LoseCast, boundVars
  <2>2. CASE m.op = "create" /\ m.speaker = s
    BY <1>2, <1>4, <2>1, <2>2
  <2>3. CASE ~(m.op = "create" /\ m.speaker = s)
    BY <1>6, <1>7, <1>8, <2>1, <2>3 DEF Expected
  <2> QED  BY <2>2, <2>3
<1>12. CASE LoseNotice
  <2>1. UNCHANGED inbox /\ misled' = misled \cup Untold
    BY <1>12 DEF LoseNotice
  <2>2. Untold' = Untold
    BY <1>1, <2>1 DEF Untold, Bound, Cached, Coming
  <2> QED  BY <1>2, <1>4, <2>1, <2>2
<1>13. AgentRevived \/ UNCHANGED vars => UNCHANGED <<inbox, notices>>
  BY DEF AgentRevived, vars, serverVars, boundVars
<1> QED  BY <1>9, <1>10, <1>11, <1>12, <1>13

\* Every step keeps the bound speaker on its way into the cache.
LEMMA NextDue ==
    ASSUME TypeOK, HostedDue, [Next]_vars
    PROVE  HostedDue'
<1>1. Threads = {"sync", "handler"}
  BY DEF Threads
<1>2. ASSUME NEW t \in Threads, ThreadStep(t)
      PROVE  HostedDue'
  <2>1. Untold' \cap DOMAIN cache = {}
    BY <1>2, ThreadKeeps DEF Untold, Cached
  <2> QED
    BY <1>2, <2>1, ThreadKeeps, ThreadStepCarries, StaysDue
<1>3. CASE IterationFails \/ FetchSpeakersFails
  <2>1. Abort("sync")
    BY <1>3 DEF IterationFails, FetchSpeakersFails
  <2>2. FullScheduled'
    <3>1. pc'["sync"] = "idle" /\ needsFull'
      BY <1>1, <2>1, OnlyMoves DEF Abort
    <3> QED  BY <3>1 DEF FullScheduled
  <2> QED  BY <2>2 DEF HostedDue, Expected
<1>4. CASE SyncState
  <2>1. CASE \E s \in Speakers : RemoveStale(s)
    BY <2>1, RemoveStaleDue
  <2> QED
    BY <1>1, <1>2, <1>3, <1>4, <2>1, SyncStepDue, VisitDue DEF SyncState
<1>5. CASE Handler
  BY <1>1, <1>2, <1>5, HandlerStartsDue DEF Handler
<1>6. CASE Server
  BY <1>6, ServerDue
<1>7. CASE \/ AgentRevived \/ (\E n \in notices : AgentUpdated(n))
           \/ LoseCast \/ LoseNotice \/ UNCHANGED vars
  BY <1>7, NoticeDue
<1>8. CASE Restart
  <2>1. pc'["sync"] = "fetch" /\ sync'.only = {}
    BY <1>8 DEF Restart, Threads, NoSync
  <2> QED
    BY <2>1 DEF HostedDue, Expected, Selected, ResyncAll
<1> QED
  BY <1>3, <1>4, <1>5, <1>6, <1>7, <1>8 DEF Next, Environment

\* A speaker that the server binds to the enabled agent is on its way into the
\* cache (see NoSpeakerForgotten), whatever the two threads interleave, whatever
\* the server, the driver and the network do, however often the agent restarts
\* and however many speakers there are.  The agent misses one only where
\* NoSpeakerForgotten says that it is misled: the list is complete.
THEOREM HostedRemembered == Spec => []NoSpeakerForgotten
<1>1. Init => TypeOK /\ HostedDue
  <2>1. Init => HostedDue
    BY DEF Init, HostedDue, Expected, Selected, ResyncAll, NoSync, Threads
  <2> QED  BY <2>1, InitType
<1>2. TypeOK /\ HostedDue /\ [Next]_vars => (TypeOK /\ HostedDue)'
  BY NextType, NextDue
<1>3. TypeOK /\ HostedDue => NoSpeakerForgotten
  <2> SUFFICES ASSUME TypeOK, HostedDue,
                      NEW s \in Served \ (DOMAIN cache \cup misled)
               PROVE  \/ \E m \in inbox : m.op = "create" /\ m.speaker = s
                      \/ notices # {}
                      \/ \E t \in Threads :
                            job[t].kind = "configure" /\ job[t].bs.id = s
                      \/ s \in needsResync
                      \/ FullScheduled
                      \/ pc["sync"] = "fetch" /\ Selected(s)
                      \/ pc["sync"] = "stale" /\ ~Intact
                      \/ ToVisit(s)
    BY DEF NoSpeakerForgotten
  <2>1. enabled /\ s \in Bound
    BY DEF Served, Bound
  <2>2. Expected(s)
    BY <2>1 DEF HostedDue
  <2>3. \A t \in Threads : pc[t] = "put" => job[t].kind = "configure"
    BY AtKind
  <2> QED  BY <2>2, <2>3 DEF Expected
<1> QED  BY <1>1, <1>2, <1>3, PTL DEF Spec
=============================================================================
