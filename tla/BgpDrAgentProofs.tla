--------------------------- MODULE BgpDrAgentProofs ---------------------------
(***************************************************************************)
(* Proofs about BgpDrAgent.                                                *)
(*                                                                         *)
(* TypeOK is inductive as it stands: the kind of a thread's job decides    *)
(* where the thread can be, and where it is decides the items of its loop. *)
(*                                                                         *)
(* RefreshGoesOn needs two facts more: that the threads are typed, so that *)
(* a thread without a job configures no speaker, and that the iteration    *)
(* over the cache has kept speakers of the server's reply only (SeenOK),   *)
(* so that a cached speaker that is not in the reply cannot slip through.  *)
(* RefreshInv is their conjunction.  The steps of a thread with a speaker  *)
(* share one argument, Carries: they lose a speaker only by scheduling its *)
(* resync, by removing it from the cache, or by abandoning it.             *)
(***************************************************************************)
EXTENDS BgpDrAgent, FiniteSetTheorems, TLAPS

\* What each cast carries.
LEMMA ItemsFacts ==
    /\ Routes \subseteq RoutePatterns
    /\ ItemsOf["create"] = {} /\ ItemsOf["remove"] = {}
    /\ ItemsOf["associate"] = Peers
    /\ ItemsOf["disassociate"] = {PeerId[p] : p \in Peers}
    /\ ItemsOf["advertise"] = Routes
    /\ ItemsOf["withdraw"] = RoutePatterns
    /\ AgentOps = {"create", "remove", "associate", "disassociate",
                   "advertise", "withdraw"}
<1>1. Routes \subseteq RoutePatterns
  BY DEF Routes, RoutePatterns
<1> QED  BY <1>1 DEF ItemsOf, AgentOps

\* The items of every cast are items.
LEMMA ItemsUnion == \A op \in AgentOps : ItemsOf[op] \subseteq Items
  BY DEF Items

\* The fields of a cast in the inbox.
LEMMA MessageType ==
    ASSUME TypeOK, NEW m \in inbox
    PROVE  /\ m.op \in AgentOps
           /\ m.speaker \in Speakers
           /\ m.items \subseteq ItemsOf[m.op]
           /\ m.items \subseteq Items
  BY DEF TypeOK, ServerTypeOK, Messages

\* A reply of the server is a well-typed speaker.
LEMMA SpeakerDictType ==
    ASSUME TypeOK, NEW s \in Speakers
    PROVE  SpeakerDict(s) \in SpeakerDicts
<1>1. config[s] \in [peers : SUBSET Peers, routes : SUBSET Routes]
  BY DEF TypeOK, ServerTypeOK, Configs
<1> QED  BY <1>1 DEF SpeakerDict, SpeakerDicts

\* A thread that enters a place gets a job of that place.
LEMMA EnterType ==
    ASSUME TypeOK, NEW t \in Threads, NEW where, NEW kind, NEW bs, NEW todo,
           Enter(t, where, kind, bs, todo),
           kind \in {"none", "configure", "refresh", "cast"},
           where \in Places[kind],
           bs \in SpeakerDicts \cup {NoDict},
           kind # "none" => bs \in SpeakerDicts,
           todo \subseteq Items,
           where \in DOMAIN TodoOf => todo \subseteq TodoOf[where],
           t = "sync" => where # "remove",
           t = "handler" => where \notin Places["none"] \ {"idle"}
    PROVE  ThreadTypeOK'
<1> DEFINE j == Job(kind, bs, todo)
<1>1. /\ DOMAIN pc' = Threads /\ DOMAIN job' = Threads
      /\ pc'[t] = where /\ job'[t] = j
      /\ \A u \in Threads : u # t => pc'[u] = pc[u] /\ job'[u] = job[u]
  BY DEF TypeOK, ThreadTypeOK, Enter, Goto
<1>2. /\ j.kind = kind /\ j.bs = bs /\ j.todo = todo /\ j.call = NoCall
      /\ j \in Jobs
  <2>1. kind \in DOMAIN Places  BY DEF Places
  <2>2. NoCall \in Calls  BY DEF Calls
  <2> QED  BY <2>1, <2>2 DEF Job, Jobs
<1>3. JobTypeOK(t)'
  <2>1. kind # "drop" /\ NoCall.op # "delete_bgp_speaker"
    BY DEF NoCall
  <2> QED  BY <1>1, <1>2, <2>1 DEF JobTypeOK
<1>4. \A u \in Threads : u # t => JobTypeOK(u)'
  BY <1>1 DEF TypeOK, ThreadTypeOK, JobTypeOK
<1>5. pc'["sync"] # "remove" /\ pc'["handler"] \notin Places["none"] \ {"idle"}
  BY <1>1 DEF TypeOK, ThreadTypeOK, Threads
<1> QED  BY <1>1, <1>3, <1>4, <1>5 DEF ThreadTypeOK

\* A thread that stays where it is keeps the speaker and the kind of its job.
LEMMA StayType ==
    ASSUME TypeOK, NEW t \in Threads,
           DOMAIN job' = Threads,
           job'[t] \in Jobs,
           job'[t].kind = job[t].kind, job'[t].bs = job[t].bs,
           job'[t].todo \subseteq job[t].todo,
           \A u \in Threads : u # t => job'[u] = job[u],
           job[t].kind \notin {"none", "drop"},
           job'[t].call.op # "delete_bgp_speaker",
           UNCHANGED pc
    PROVE  ThreadTypeOK'
<1>1. JobTypeOK(t)
  BY DEF TypeOK, ThreadTypeOK
<1>2. JobTypeOK(t)'
  BY <1>1 DEF JobTypeOK
<1>3. \A u \in Threads : u # t => JobTypeOK(u)'
  BY DEF TypeOK, ThreadTypeOK, JobTypeOK
<1> QED  BY <1>2, <1>3 DEF TypeOK, ThreadTypeOK

\* A thread that removes a speaker.
LEMMA RemoveSpeakerType ==
    ASSUME TypeOK, NEW t \in Threads, NEW s \in Speakers, NEW where,
           RemoveSpeaker(t, s, where),
           where = IF t = "sync" THEN "stale" ELSE "remove"
    PROVE  ThreadTypeOK'
<1> DEFINE bs == [NoDict EXCEPT !.id = s]
           drop == [op |-> "delete_bgp_speaker", arg |-> None]
           j == [Job("drop", bs, {}) EXCEPT !.call = drop]
<1>1. /\ DOMAIN pc' = Threads /\ DOMAIN job' = Threads
      /\ pc'[t] = where /\ job'[t] = j
      /\ \A u \in Threads : u # t => pc'[u] = pc[u] /\ job'[u] = job[u]
  BY DEF TypeOK, ThreadTypeOK, RemoveSpeaker, Goto
<1>2. bs \in SpeakerDicts
  BY DEF NoDict, SpeakerDicts
<1>3. drop \in Calls
  BY DEF Calls
<1>4. /\ j.kind = "drop" /\ j.bs = bs /\ j.todo = {} /\ j.call = drop
      /\ j \in Jobs
  BY <1>2, <1>3 DEF Job, Jobs, Places
<1>5. where \in Places["drop"] /\ where \notin DOMAIN TodoOf
  BY DEF Places, TodoOf
<1>6. JobTypeOK(t)'
  BY <1>1, <1>2, <1>4, <1>5 DEF JobTypeOK
<1>7. \A u \in Threads : u # t => JobTypeOK(u)'
  BY <1>1 DEF TypeOK, ThreadTypeOK, JobTypeOK
<1>8. pc'["sync"] # "remove" /\ pc'["handler"] \notin Places["none"] \ {"idle"}
  BY <1>1 DEF TypeOK, ThreadTypeOK, Threads, Places
<1> QED  BY <1>1, <1>6, <1>7, <1>8 DEF ThreadTypeOK

\* A step keeps the type of the variables it leaves alone.
LEMMA UnchangedTypes ==
    ASSUME TypeOK
    PROVE  /\ UNCHANGED serverVars => ServerTypeOK'
           /\ UNCHANGED driver => DriverTypeOK'
           /\ UNCHANGED <<agentVars, auxVars>> => CacheTypeOK'
           /\ UNCHANGED <<pc, job>> => ThreadTypeOK'
           /\ UNCHANGED sync => SyncTypeOK'
  BY DEF TypeOK, ServerTypeOK, DriverTypeOK, CacheTypeOK, ThreadTypeOK,
         SyncTypeOK, JobTypeOK, serverVars, boundVars, agentVars, auxVars

\* What is known of a thread from where it is.
LEMMA AtKind ==
    ASSUME TypeOK, NEW t \in Threads
    PROVE  /\ job[t] \in Jobs
           /\ job[t].kind \in {"none", "configure", "refresh", "cast", "drop"}
           /\ pc[t] \in {"put", "add", "construct"} => job[t].kind = "configure"
           /\ pc[t] = "refresh" => job[t].kind \in {"configure", "refresh"}
           /\ pc[t] \in {"rmpeers", "peers", "routes", "withdraw"} =>
                  job[t].kind \in {"configure", "refresh", "cast"}
           /\ pc[t] = "rmpeers" => job[t].kind \in {"refresh", "cast"}
           /\ job[t].call # NoCall => job[t].kind # "none"
           /\ job[t].kind # "none" =>
                  job[t].bs \in SpeakerDicts /\ job[t].bs.id \in Speakers
           /\ job[t].kind = "drop" <=> job[t].call.op = "delete_bgp_speaker"
           /\ pc[t] \in DOMAIN TodoOf => job[t].todo \subseteq TodoOf[pc[t]]
<1>1. JobTypeOK(t)
  BY DEF TypeOK, ThreadTypeOK
<1>2. job[t] \in Jobs /\ pc[t] \in Places[job[t].kind]
  BY <1>1 DEF JobTypeOK
<1>3. job[t].kind \in {"none", "configure", "refresh", "cast", "drop"}
  BY <1>2 DEF Jobs, Places
<1>4. job[t].kind # "none" =>
          job[t].bs \in SpeakerDicts /\ job[t].bs.id \in Speakers
  BY <1>1 DEF JobTypeOK, SpeakerDicts
<1>5. /\ pc[t] \in {"put", "add", "construct"} => job[t].kind = "configure"
      /\ pc[t] = "refresh" => job[t].kind \in {"configure", "refresh"}
      /\ pc[t] \in {"rmpeers", "peers", "routes", "withdraw"} =>
             job[t].kind \in {"configure", "refresh", "cast"}
      /\ pc[t] = "rmpeers" => job[t].kind \in {"refresh", "cast"}
  BY <1>2, <1>3 DEF Places
<1> QED  BY <1>1, <1>2, <1>3, <1>4, <1>5 DEF JobTypeOK

\* Aborting leaves the thread, the sync and the reasons well typed.
LEMMA AbortType ==
    ASSUME TypeOK, NEW t \in Threads, Abort(t),
           UNCHANGED <<cache, needsResync, auxVars>>
    PROVE  ThreadTypeOK' /\ SyncTypeOK' /\ CacheTypeOK'
<1>1. ThreadTypeOK'
  <2>1. "idle" \in Places["none"] /\ "idle" \notin DOMAIN TodoOf
    BY DEF Places, TodoOf
  <2> QED  BY <2>1, EnterType DEF Abort
<1>2. NoSync \in SyncRecords
  BY DEF NoSync, SyncRecords
<1> QED
  BY <1>1, <1>2 DEF Abort, TypeOK, SyncTypeOK, CacheTypeOK, auxVars

\* A thread that is done with a speaker stays well typed.
LEMMA ReturnType ==
    ASSUME TypeOK, NEW t \in Threads, Return(t)
    PROVE  ThreadTypeOK'
<1>1. /\ {"idle", "each"} \subseteq Places["none"]
      /\ DOMAIN TodoOf \cap {"idle", "each"} = {}
  BY DEF Places, TodoOf
<1> QED  BY <1>1, EnterType DEF Return
-----------------------------------------------------------------------------
(* The server's part.                                                      *)

\* A cast is a message.
LEMMA CastType ==
    ASSUME TypeOK, NEW op \in AgentOps, NEW s \in Speakers,
           NEW items \in SUBSET ItemsOf[op]
    PROVE  Cast(op, s, items) \in Messages
<1>1. changes \in Nat
  BY BoundAssumption DEF TypeOK, ServerTypeOK
<1>2. items \subseteq Items
  BY ItemsUnion
<1> QED  BY <1>1, <1>2 DEF Cast, Messages

\* An operation of the server keeps the counters in their bounds.
LEMMA ChangeType ==
    ASSUME TypeOK, NEW op, Change(op)
    PROVE  changes' \in 0 .. MaxChanges /\ faults' \in 0 .. MaxFaults
  BY BoundAssumption DEF TypeOK, ServerTypeOK, Change

\* A fault keeps the counter of faults in its bound.
LEMMA FaultType ==
    ASSUME TypeOK, NEW op, Fault(op)
    PROVE  faults' \in 0 .. MaxFaults
  BY BoundAssumption DEF TypeOK, ServerTypeOK, Fault

\* A change of one speaker's configuration that keeps it single-hop.
LEMMA ConfigType ==
    ASSUME TypeOK, NEW s \in Speakers,
           NEW peers \in SUBSET Peers, NEW routes \in SUBSET Routes,
           SingleHop(routes),
           \/ config' = [config EXCEPT ![s].peers = peers]
                 /\ routes = config[s].routes
           \/ config' = [config EXCEPT ![s].routes = routes]
                 /\ peers = config[s].peers
    PROVE  config' \in [Speakers -> Configs]
<1>1. config \in [Speakers -> Configs]
  BY DEF TypeOK, ServerTypeOK
<1>2. config[s] \in [peers : SUBSET Peers, routes : SUBSET Routes]
  BY <1>1 DEF Configs
<1>3. [peers |-> peers, routes |-> routes] \in Configs
  BY DEF Configs
<1>4. config'[s] = [peers |-> peers, routes |-> routes]
  BY <1>1, <1>2
<1> QED  BY <1>1, <1>3, <1>4

\* Each operation of the server keeps the server well typed.
LEMMA ServerStepType ==
    ASSUME TypeOK, ServerStep
    PROVE  ServerTypeOK'
<1> USE DEF TypeOK, ServerTypeOK
<1>1. ASSUME NEW s \in Speakers,
             \/ HostSpeaker(s) \/ AutoSchedule(s) \/ RescheduleHere(s)
             \/ UnhostSpeaker(s) \/ Reschedule(s)
      PROVE  ServerTypeOK'
  <2>1. Cast("create", s, {}) \in Messages /\ Cast("remove", s, {}) \in Messages
    BY CastType, ItemsFacts
  <2>2. changes' \in 0 .. MaxChanges /\ faults' \in 0 .. MaxFaults
    BY <1>1, ChangeType
       DEF HostSpeaker, AutoSchedule, RescheduleHere, UnhostSpeaker, Reschedule
  <2> QED
    BY <1>1, <2>1, <2>2
       DEF HostSpeaker, AutoSchedule, RescheduleHere, UnhostSpeaker, Reschedule
<1>2. ASSUME NEW s \in Speakers, NEW p \in Peers,
             AssociatePeer(s, p) \/ DisassociatePeer(s, p)
      PROVE  ServerTypeOK'
  <2>1. config[s] \in Configs
    OBVIOUS
  <2>2. config' \in [Speakers -> Configs]
    <3>1. CASE AssociatePeer(s, p)
      BY <2>1, <3>1, ConfigType DEF AssociatePeer, Configs
    <3>2. CASE DisassociatePeer(s, p)
      BY <2>1, <3>2, ConfigType DEF DisassociatePeer, Configs
    <3> QED  BY <1>2, <3>1, <3>2
  <2>3. /\ Cast("associate", s, {p}) \in Messages
        /\ Cast("disassociate", s, {PeerId[p]}) \in Messages
    BY CastType, ItemsFacts
  <2>4. changes' \in 0 .. MaxChanges /\ faults' \in 0 .. MaxFaults
    BY <1>2, ChangeType DEF AssociatePeer, DisassociatePeer
  <2> QED
    BY <1>2, <2>2, <2>3, <2>4
       DEF AssociatePeer, DisassociatePeer, Notify, boundVars
<1>3. ASSUME NEW s \in Speakers, NEW r \in Routes,
             \/ StartRoute(s, r) \/ StopRoute(s, r)
             \/ \E hop \in NextHops : MoveRoute(s, r, hop)
      PROVE  ServerTypeOK'
  <2>1. /\ config[s] \in Configs
        /\ config[s].peers \subseteq Peers /\ config[s].routes \subseteq Routes
        /\ SingleHop(config[s].routes)
    BY DEF Configs
  <2>2. CASE StartRoute(s, r)
    <3>1. SingleHop(config[s].routes \cup {r})
      BY <2>1, <2>2 DEF StartRoute, SingleHop
    <3>2. config' \in [Speakers -> Configs]
      BY <2>1, <2>2, <3>1, ConfigType DEF StartRoute
    <3>3. Cast("advertise", s, {r}) \in Messages
      BY CastType, ItemsFacts
    <3> QED  BY <2>2, <3>2, <3>3, ChangeType DEF StartRoute, Notify, boundVars
  <2>3. CASE StopRoute(s, r)
    <3>1. SingleHop(config[s].routes \ {r})
      BY <2>1 DEF SingleHop
    <3>2. config' \in [Speakers -> Configs]
      BY <2>1, <2>3, <3>1, ConfigType DEF StopRoute
    <3>3. \A hop \in {r.next_hop, None} :
              Cast("withdraw", s, {[r EXCEPT !.next_hop = hop]}) \in Messages
      <4> TAKE hop \in {r.next_hop, None}
      <4>1. [r EXCEPT !.next_hop = hop] \in RoutePatterns
        BY DEF Routes, RoutePatterns
      <4> QED  BY <4>1, CastType, ItemsFacts
    <3> QED  BY <2>3, <3>2, <3>3, ChangeType DEF StopRoute, Notify, boundVars
  <2>4. ASSUME NEW hop \in NextHops, MoveRoute(s, r, hop)
        PROVE  ServerTypeOK'
    <3> DEFINE moved == [r EXCEPT !.next_hop = hop]
               old == [r EXCEPT !.next_hop = None]
    <3>1. moved \in Routes /\ old \in RoutePatterns
          /\ moved.destination = r.destination
      BY DEF Routes, RoutePatterns
    <3> HIDE DEF moved, old
    <3>2. SingleHop((config[s].routes \ {r}) \cup {moved})
      BY <2>1, <2>4, <3>1 DEF MoveRoute, SingleHop
    <3>3. config' = [config EXCEPT
                       ![s].routes = (config[s].routes \ {r}) \cup {moved}]
      BY <2>4 DEF MoveRoute, moved
    <3>4. config' \in [Speakers -> Configs]
      BY <2>1, <3>1, <3>2, <3>3, ConfigType
    <3>5. Cast("advertise", s, {moved}) \in Messages
      BY <3>1, CastType, ItemsFacts
    <3>6. Cast("withdraw", s, {old}) \in Messages
      BY <3>1, CastType, ItemsFacts
    <3> QED
      BY <2>4, <3>4, <3>5, <3>6, ChangeType
         DEF MoveRoute, Notify, boundVars, moved, old
  <2> QED  BY <1>3, <2>2, <2>3, <2>4
<1>4. ASSUME NEW s \in Speakers, ArrivalCommits(s) \/ ArrivalFails(s)
      PROVE  ServerTypeOK'
  BY <1>4 DEF ArrivalCommits, ArrivalFails
<1>5. CASE ToggleAgent
  <2>1. changes' \in 0 .. MaxChanges /\ faults' \in 0 .. MaxFaults
    BY <1>5, ChangeType DEF ToggleAgent
  <2> QED  BY <1>5, <2>1 DEF ToggleAgent
<1> QED  BY <1>1, <1>2, <1>3, <1>4, <1>5 DEF ServerStep
-----------------------------------------------------------------------------
(* The driver's part.                                                      *)

\* Each operation of the driver keeps the driver well typed.
LEMMA PerformType ==
    ASSUME TypeOK, NEW as, NEW call \in Calls \ {NoCall},
           Perform(as, call.op, call.arg)
    PROVE  DriverTypeOK'
<1> DEFINE Running == [peers : SUBSET Peers, routes : SUBSET Routes]
<1>1. /\ DOMAIN driver \subseteq ASNumbers /\ as \in DOMAIN driver
      /\ \A x \in DOMAIN driver : driver[x] \in Running
  BY DEF TypeOK, DriverTypeOK, Perform
<1>2. CASE call.op = "delete_bgp_speaker"
  BY <1>1, <1>2 DEF Perform, DropKey, DriverTypeOK
<1>3. CASE call.op # "delete_bgp_speaker"
  <2>1. Effect(driver[as], call.op, call.arg) \in Running
    <3>1. CASE call \in [op : {"add_bgp_peer", "delete_bgp_peer"}, arg : Peers]
      BY <1>1, <3>1 DEF Effect, AddPeer, DeletePeer
    <3>2. CASE call \in [op : {"advertise_route"}, arg : Routes]
      BY <1>1, <3>2 DEF Effect, AdvertiseRoute, WithoutDestination
    <3>3. CASE call \in [op : {"withdraw_route"}, arg : RoutePatterns]
      BY <1>1, <3>3 DEF Effect, WithdrawRoute, WithoutDestination
    <3> QED  BY <1>3, <3>1, <3>2, <3>3 DEF Calls
  <2>2. driver' = [driver EXCEPT ![as] = Effect(driver[as], call.op, call.arg)]
    BY <1>3 DEF Perform
  <2> HIDE DEF Running
  <2>3. /\ DOMAIN driver' = DOMAIN driver
        /\ \A x \in DOMAIN driver' : driver'[x] \in Running
    BY <1>1, <2>1, <2>2
  <2> QED  BY <1>1, <2>3 DEF DriverTypeOK, Running
<1> QED  BY <1>2, <1>3

-----------------------------------------------------------------------------
(* What both threads do.                                                   *)

\* A thread goes on with its job elsewhere.
LEMMA GotoType ==
    ASSUME TypeOK, NEW t \in Threads, NEW where,
           Goto(t, where), UNCHANGED job,
           where \in Places[job[t].kind],
           where \notin DOMAIN TodoOf,
           t = "sync" => where # "remove",
           t = "handler" => where \notin Places["none"]
    PROVE  ThreadTypeOK'
<1>1. /\ DOMAIN pc' = Threads /\ pc'[t] = where
      /\ \A u \in Threads : u # t => pc'[u] = pc[u]
  BY DEF TypeOK, ThreadTypeOK, Goto
<1>2. \A u \in Threads : JobTypeOK(u)'
  BY <1>1 DEF TypeOK, ThreadTypeOK, JobTypeOK
<1>3. pc'["sync"] # "remove" /\ pc'["handler"] \notin Places["none"] \ {"idle"}
  BY <1>1 DEF TypeOK, ThreadTypeOK, Threads
<1> QED  BY <1>1, <1>2, <1>3 DEF TypeOK, ThreadTypeOK

\* Places, spelled out.
LEMMA PlacesFacts ==
    /\ Places["none"] =
           {"idle", "reset", "fetch", "iterate", "stale", "each"}
    /\ Places["configure"] =
           {"put", "add", "construct", "peers", "routes", "refresh"}
    /\ Places["refresh"] =
           {"rmpeers", "peers", "withdraw", "routes", "refresh"}
    /\ Places["cast"] = {"rmpeers", "peers", "withdraw", "routes"}
    /\ Places["drop"] = {"stale", "remove"}
    /\ DOMAIN TodoOf = {"rmpeers", "peers", "withdraw", "routes"}
    /\ TodoOf["rmpeers"] = Peers \cup ItemsOf["disassociate"]
    /\ TodoOf["peers"] = Peers
    /\ TodoOf["withdraw"] = RoutePatterns
    /\ TodoOf["routes"] = Routes
  BY DEF Places, TodoOf

\* Every set of items of a loop is a set of items.
LEMMA TodoItems == \A where \in DOMAIN TodoOf : TodoOf[where] \subseteq Items
<1>1. {"associate", "disassociate", "advertise", "withdraw"} \subseteq AgentOps
  BY ItemsFacts
<1> QED  BY <1>1, ItemsFacts, ItemsUnion, PlacesFacts

\* The speakers of which the agent is not told are speakers.
LEMMA UntoldType == ServerTypeOK => Untold \subseteq Speakers
  BY DEF ServerTypeOK, Untold, Bound

\* So are those of the next state.
LEMMA UntoldTypeNext ==
    ASSUME ServerTypeOK'
    PROVE  Untold' \subseteq Speakers /\ Unnoticed \subseteq Speakers
<1>1. hosted' \subseteq Speakers /\ arriving' \subseteq Speakers
  BY DEF ServerTypeOK
<1> QED  BY <1>1 DEF Untold, Bound, Unnoticed

\* put_bgp_speaker keeps the types, whether it raises or not.
LEMMA PutType ==
    ASSUME TypeOK, NEW t \in Threads, Put(t) \/ PutFails(t)
    PROVE  TypeOK'
<1>1. job[t].kind = "configure" /\ job[t].bs.id \in Speakers
  BY AtKind DEF Put, PutFails, At
<1>2. CASE Put(t)
  <2>1. ThreadTypeOK'
    <3>1. Goto(t, "add") /\ UNCHANGED job
      BY <1>2 DEF Put
    <3> QED  BY <1>1, <3>1, PlacesFacts, GotoType
  <2>2. UNCHANGED <<serverVars, driver, sync>>
    BY <1>2 DEF Put
  <2>3. misled' \subseteq Speakers
    <3>1. Unnoticed \subseteq Speakers
      BY <2>2, UnchangedTypes, UntoldTypeNext
    <3> QED  BY <1>2, <3>1 DEF Put, TypeOK, CacheTypeOK
  <2>4. CacheTypeOK'
    BY <1>1, <1>2, <2>3 DEF Put, PutKey, TypeOK, CacheTypeOK, auxVars
  <2> QED  BY <2>1, <2>2, <2>4, UnchangedTypes DEF TypeOK
<1>3. CASE PutFails(t)
  <2>1. ThreadTypeOK' /\ SyncTypeOK' /\ CacheTypeOK'
    BY <1>3, AbortType DEF PutFails
  <2>2. UNCHANGED <<serverVars, driver>>
    BY <1>3 DEF PutFails
  <2> QED  BY <2>1, <2>2, UnchangedTypes DEF TypeOK
<1> QED  BY <1>2, <1>3

\* A thread that goes on to the peers of a speaker stays well typed.
LEMMA ConfigurePeersType ==
    ASSUME TypeOK, NEW t \in Threads, ConfigurePeers(t),
           job[t].kind = "configure"
    PROVE  ThreadTypeOK'
<1>1. job[t].bs \in SpeakerDicts /\ job[t].bs.peers \subseteq Peers
  BY AtKind DEF SpeakerDicts
<1>2. Peers \subseteq Items
  BY PlacesFacts, TodoItems
<1> QED  BY <1>1, <1>2, EnterType, PlacesFacts DEF ConfigurePeers

\* The steps of the driver's add_bgp_speaker keep the types.
LEMMA AddSpeakerType ==
    ASSUME TypeOK, NEW t \in Threads,
           \/ AddSpeaker(t) \/ AddSpeakerExists(t) \/ AddSpeakerFails(t)
           \/ ConstructSpeaker(t)
    PROVE  TypeOK'
<1>1. job[t].kind = "configure" /\ job[t].bs.id \in Speakers
  BY AtKind DEF AddSpeaker, AddSpeakerExists, AddSpeakerFails,
                ConstructSpeaker, At
<1>2. CASE AddSpeaker(t)
  <2>1. Goto(t, "construct") /\ UNCHANGED job
    BY <1>2 DEF AddSpeaker
  <2>2. ThreadTypeOK'
    BY <1>1, <2>1, PlacesFacts, GotoType
  <2>3. UNCHANGED <<serverVars, driver, agentVars, auxVars, sync>>
    BY <1>2 DEF AddSpeaker
  <2> QED  BY <2>2, <2>3, UnchangedTypes DEF TypeOK
<1>3. CASE AddSpeakerExists(t)
  <2>1. ThreadTypeOK'
    BY <1>3, ReturnType DEF AddSpeakerExists
  <2>2. CacheTypeOK'
    BY <1>3 DEF AddSpeakerExists, TypeOK, CacheTypeOK, agentVars
  <2>3. UNCHANGED <<serverVars, driver, sync>>
    BY <1>3 DEF AddSpeakerExists
  <2> QED  BY <2>1, <2>2, <2>3, UnchangedTypes DEF TypeOK
<1>4. CASE AddSpeakerFails(t)
  <2>1. ThreadTypeOK'
    BY <1>1, <1>4, ConfigurePeersType DEF AddSpeakerFails
  <2>2. CacheTypeOK'
    BY <1>1, <1>4
       DEF AddSpeakerFails, DriverRaises, TypeOK, CacheTypeOK, ScheduleResync, auxVars
  <2>3. ServerTypeOK'
    BY <1>4, FaultType
       DEF AddSpeakerFails, DriverRaises, TypeOK, ServerTypeOK, boundVars
  <2>4. UNCHANGED <<driver, sync>>
    BY <1>4 DEF AddSpeakerFails
  <2> QED  BY <2>1, <2>2, <2>3, <2>4, UnchangedTypes DEF TypeOK
<1>5. CASE ConstructSpeaker(t)
  <2>1. ThreadTypeOK'
    BY <1>1, <1>5, ConfigurePeersType DEF ConstructSpeaker
  <2>2. DriverTypeOK'
    <3>1. LocalAS[job[t].bs.id] \in ASNumbers
      BY <1>1 DEF ASNumbers
    <3> QED
      BY <1>5, <3>1
         DEF ConstructSpeaker, PutSpeaker, PutKey, TypeOK, DriverTypeOK
  <2>3. UNCHANGED <<serverVars, agentVars, auxVars, sync>>
    BY <1>5 DEF ConstructSpeaker
  <2> QED  BY <2>1, <2>2, <2>3, UnchangedTypes DEF TypeOK
<1> QED  BY <1>2, <1>3, <1>4, <1>5

\* A thread goes on with its loop, and may have a call to make.
LEMMA ItemType ==
    ASSUME TypeOK, NEW t \in Threads, NEW todo \in SUBSET job[t].todo,
           job[t].kind \notin {"none", "drop"},
           UNCHANGED pc,
           \/ job' = [job EXCEPT ![t].todo = todo]
           \/ \E call \in Calls :
                 /\ call.op # "delete_bgp_speaker"
                 /\ job' = [job EXCEPT ![t].call = call, ![t].todo = todo]
    PROVE  ThreadTypeOK'
<1>1. job[t] \in Jobs
  BY AtKind
<1>2. job[t].call \in Calls /\ job[t].call.op # "delete_bgp_speaker"
  BY <1>1, AtKind DEF Jobs
<1>3. DOMAIN job = Threads
  BY DEF TypeOK, ThreadTypeOK
<1>4. CASE job' = [job EXCEPT ![t].todo = todo]
  BY <1>1, <1>2, <1>3, <1>4, StayType DEF Jobs
<1>5. ASSUME NEW call \in Calls, call.op # "delete_bgp_speaker",
             job' = [job EXCEPT ![t].call = call, ![t].todo = todo]
      PROVE  ThreadTypeOK'
  BY <1>1, <1>3, <1>5, StayType DEF Jobs
<1> QED  BY <1>4, <1>5

\* The driver's answer to an operation.
LEMMA CallType ==
    ASSUME TypeOK, NEW t \in Threads, CallSucceeds(t) \/ CallFails(t)
    PROVE  TypeOK'
<1>1. /\ job[t] \in Jobs /\ job[t].call \in Calls \ {NoCall}
      /\ job[t].kind \notin {"none"}
      /\ job[t].bs.id \in Speakers
  BY AtKind DEF CallSucceeds, CallFails, Jobs
<1>2. ThreadTypeOK'
  <2>1. CASE job[t].kind = "drop"
    <3>1. Enter(t, IF t = "sync" THEN "stale" ELSE "idle", "none", NoDict, {})
      BY <2>1 DEF CallSucceeds, CallFails, CallReturns
    <3> QED  BY <3>1, EnterType, PlacesFacts
  <2>2. ASSUME job[t].kind # "drop", NEW needs,
               job' = [job EXCEPT ![t].call = NoCall,
                                  ![t].todo = Rest(t, @, needs)],
               UNCHANGED pc
        PROVE  ThreadTypeOK'
    <3> DEFINE rest == Rest(t, job[t].todo, needs)
    <3>1. rest \subseteq job[t].todo
      BY DEF Rest
    <3>2. NoCall \in Calls /\ NoCall.op # "delete_bgp_speaker"
      BY DEF Calls, NoCall
    <3>3. DOMAIN job = Threads
      BY DEF TypeOK, ThreadTypeOK
    <3> HIDE DEF rest
    <3>4. job' = [job EXCEPT ![t].call = NoCall, ![t].todo = rest]
      BY <2>2, <3>3 DEF rest
    <3> QED  BY <1>1, <2>2, <3>1, <3>2, <3>4, ItemType
  <2> QED  BY <2>1, <2>2 DEF CallSucceeds, CallFails, CallReturns
<1>3. CASE CallSucceeds(t)
  <2>1. DriverTypeOK'
    BY <1>1, <1>3, PerformType DEF CallSucceeds
  <2>2. UNCHANGED <<serverVars, agentVars, auxVars, sync>>
    BY <1>3 DEF CallSucceeds
  <2> QED  BY <1>2, <2>1, <2>2, UnchangedTypes DEF TypeOK
<1>4. CASE CallFails(t)
  <2>1. CacheTypeOK'
    BY <1>1, <1>4 DEF CallFails, DriverRaises, TypeOK, CacheTypeOK, ScheduleResync, auxVars
  <2>2. ServerTypeOK'
    BY <1>4, FaultType DEF CallFails, DriverRaises, TypeOK, ServerTypeOK, boundVars
  <2>3. UNCHANGED <<driver, sync>>
    BY <1>4 DEF CallFails
  <2> QED  BY <1>2, <2>1, <2>2, <2>3, UnchangedTypes DEF TypeOK
<1> QED  BY <1>3, <1>4

\* An operation on a speaker that is gone keeps the types.
LEMMA GoneType ==
    ASSUME TypeOK, NEW t \in Threads,
           CompareRoutesFails(t) \/ \E where : Gone(t, where)
    PROVE  TypeOK'
<1>1. Abort(t) /\ UNCHANGED <<serverVars, driver, cache, needsResync, auxVars>>
  BY DEF CompareRoutesFails, Gone
<1> QED  BY <1>1, AbortType, UnchangedTypes DEF TypeOK

\* The operations on peers and routes.
LEMMA OperationType ==
    ASSUME TypeOK, NEW t \in Threads, NEW item \in job[t].todo,
           \/ AddBgpPeer(t, item) \/ RemoveBgpPeer(t, item)
           \/ AdvertiseRouteVia(t, item) \/ WithdrawRouteVia(t, item)
    PROVE  TypeOK'
<1> DEFINE s == job[t].bs.id
           todo == job[t].todo
           Running == [peers : SUBSET Peers, routes : SUBSET Routes]
<1>1. /\ s \in Speakers /\ job[t].kind \notin {"none", "drop"}
      /\ pc[t] \in DOMAIN TodoOf => todo \subseteq TodoOf[pc[t]]
  BY AtKind DEF AddBgpPeer, RemoveBgpPeer, AdvertiseRouteVia, WithdrawRouteVia,
                At
<1>2. Cached(s) => cache[s] \in Running
  BY DEF TypeOK, CacheTypeOK, Cached
<1>3. \A needs, rest : rest \subseteq todo => Rest(t, rest, needs) \subseteq todo
  BY DEF Rest
<1>4. ASSUME CacheTypeOK', ThreadTypeOK',
             UNCHANGED <<serverVars, driver, sync>>
      PROVE  TypeOK'
  BY <1>4, UnchangedTypes DEF TypeOK
<1>5. ASSUME SkipItem(t, item), UNCHANGED pc  PROVE ThreadTypeOK'
  <2> DEFINE rest == Rest(t, todo \ {item}, needsResync)
  <2>1. rest \subseteq todo
    BY <1>3
  <2>2. job' = [job EXCEPT ![t].todo = rest]
    BY <1>5 DEF SkipItem, TypeOK, ThreadTypeOK
  <2> HIDE DEF rest
  <2> QED  BY <1>1, <1>5, <2>1, <2>2, ItemType
<1>6. ASSUME NEW op \in {"add_bgp_peer", "delete_bgp_peer", "advertise_route",
                         "withdraw_route"},
             [op |-> op, arg |-> item] \in Calls,
             CallNext(t, op, item, todo \ {item}), UNCHANGED pc
      PROVE  ThreadTypeOK'
  <2> DEFINE call == [op |-> op, arg |-> item]
             rest == todo \ {item}
  <2>1. /\ call \in Calls /\ call.op # "delete_bgp_speaker"
        /\ rest \subseteq todo
        /\ job' = [job EXCEPT ![t].call = call, ![t].todo = rest]
    BY <1>6 DEF CallNext
  <2> HIDE DEF call, rest
  <2> QED  BY <1>1, <1>6, <2>1, ItemType
<1> USE DEF auxVars
<1>7. CASE AddBgpPeer(t, item)
  <2>1. item \in Peers
    BY <1>1, <1>7, PlacesFacts DEF AddBgpPeer, At
  <2>2. [op |-> "add_bgp_peer", arg |-> item] \in Calls
    BY <2>1 DEF Calls
  <2>3. ThreadTypeOK'
    BY <1>5, <1>6, <1>7, <2>2 DEF AddBgpPeer
  <2>4. CacheTypeOK'
    BY <1>2, <1>7, <2>1 DEF AddBgpPeer, TypeOK, CacheTypeOK, Cached
  <2> QED  BY <1>4, <1>7, <2>3, <2>4 DEF AddBgpPeer
<1>8. CASE RemoveBgpPeer(t, item)
  <2>1. Cached(s) /\ item \in cache[s].peers => item \in Peers
    BY <1>2
  <2>2. item \in Peers => [op |-> "delete_bgp_peer", arg |-> item] \in Calls
    BY DEF Calls
  <2>3. CASE Cached(s) /\ item \in cache[s].peers
    <3>1. ThreadTypeOK'
      BY <1>6, <1>8, <2>1, <2>2, <2>3 DEF RemoveBgpPeer
    <3>2. CacheTypeOK'
      BY <1>2, <1>8, <2>3 DEF RemoveBgpPeer, TypeOK, CacheTypeOK, Cached
    <3> QED  BY <1>4, <1>8, <3>1, <3>2 DEF RemoveBgpPeer
  <2>4. CASE ~(Cached(s) /\ item \in cache[s].peers)
    <3> DEFINE rest == todo \ {item}
    <3>0. rest \subseteq todo
      OBVIOUS
    <3>1. job' = [job EXCEPT ![t].todo = rest] /\ UNCHANGED pc
      BY <1>8, <2>4 DEF RemoveBgpPeer, TypeOK, ThreadTypeOK
    <3> HIDE DEF rest
    <3>2. ThreadTypeOK'
      BY <1>1, <3>0, <3>1, ItemType
    <3>3. CacheTypeOK'
      BY <1>1, <1>8, <2>4
         DEF RemoveBgpPeer, TypeOK, CacheTypeOK, ScheduleResync
    <3> QED  BY <1>4, <1>8, <3>2, <3>3 DEF RemoveBgpPeer
  <2> QED  BY <2>3, <2>4
<1>9. CASE AdvertiseRouteVia(t, item)
  <2>1. item \in Routes
    BY <1>1, <1>9, PlacesFacts DEF AdvertiseRouteVia, At
  <2>2. [op |-> "advertise_route", arg |-> item] \in Calls
    BY <2>1 DEF Calls
  <2>3. ThreadTypeOK'
    BY <1>5, <1>6, <1>9, <2>2 DEF AdvertiseRouteVia
  <2>4. CacheTypeOK'
    BY <1>2, <1>9, <2>1 DEF AdvertiseRouteVia, TypeOK, CacheTypeOK, Cached
  <2> QED  BY <1>4, <1>9, <2>3, <2>4 DEF AdvertiseRouteVia
<1>10. CASE WithdrawRouteVia(t, item)
  <2>1. item \in RoutePatterns
    BY <1>1, <1>10, PlacesFacts DEF WithdrawRouteVia, At
  <2>2. [op |-> "withdraw_route", arg |-> item] \in Calls
    BY <2>1 DEF Calls
  <2>3. CASE IsRouteAdvertised(s, item)
    <3>1. ThreadTypeOK'
      BY <1>6, <1>10, <2>2, <2>3 DEF WithdrawRouteVia
    <3>2. CacheTypeOK'
      BY <1>2, <1>10, <2>3
         DEF WithdrawRouteVia, TypeOK, CacheTypeOK, Cached, WithoutDestination
    <3> QED  BY <1>4, <1>10, <3>1, <3>2 DEF WithdrawRouteVia
  <2>4. CASE ~IsRouteAdvertised(s, item)
    <3> DEFINE rest == Rest(t, todo \ {item}, needsResync')
    <3>1. rest \subseteq todo
      BY <1>3
    <3>2. job' = [job EXCEPT ![t].todo = rest] /\ UNCHANGED pc
      BY <1>10, <2>4 DEF WithdrawRouteVia, TypeOK, ThreadTypeOK
    <3> HIDE DEF rest
    <3>3. ThreadTypeOK'
      BY <1>1, <3>1, <3>2, ItemType
    <3>4. CacheTypeOK'
      BY <1>1, <1>10, <2>4
         DEF WithdrawRouteVia, TypeOK, CacheTypeOK, ScheduleResync
    <3> QED  BY <1>4, <1>10, <3>3, <3>4 DEF WithdrawRouteVia
  <2> QED  BY <2>3, <2>4
<1> QED  BY <1>7, <1>8, <1>9, <1>10

\* The next loop over the same speaker.
LEMMA NextLoopType ==
    ASSUME TypeOK, NEW t \in Threads, NEW where, NEW todo \in SUBSET Items,
           NextLoop(t, where, todo),
           job[t].kind \in {"configure", "refresh"},
           where \in {"peers", "withdraw", "routes", "refresh"},
           job[t].kind = "configure" => where # "withdraw",
           where \in DOMAIN TodoOf => todo \subseteq TodoOf[where]
    PROVE  TypeOK'
<1>1. job[t].bs \in SpeakerDicts /\ where \in Places[job[t].kind]
  BY AtKind, PlacesFacts
<1>2. ThreadTypeOK'
  BY <1>1, EnterType, PlacesFacts DEF NextLoop
<1>3. UNCHANGED <<serverVars, driver, agentVars, auxVars, sync>>
  BY DEF NextLoop
<1> QED  BY <1>2, <1>3, UnchangedTypes DEF TypeOK

\* The end of each loop keeps the types.
LEMMA LoopEndsType ==
    ASSUME TypeOK, NEW t \in Threads,
           \/ RmPeersEnds(t) \/ PeersEnds(t) \/ WithdrawEnds(t)
           \/ RoutesEnds(t) \/ CompareRoutes(t) \/ Refresh(t) \/ CastEnds(t)
    PROVE  TypeOK'
<1> DEFINE s == job[t].bs.id
<1>1. /\ job[t].kind # "none" => /\ job[t].bs.peers \in SUBSET Peers
                                 /\ job[t].bs.routes \in SUBSET Routes
      /\ job[t].kind # "none" => s \in Speakers
  BY AtKind DEF SpeakerDicts
<1>2. Peers \subseteq Items /\ Routes \subseteq Items /\ Routes \subseteq RoutePatterns
  BY PlacesFacts, TodoItems, ItemsFacts
<1>3. CASE RmPeersEnds(t) \/ PeersEnds(t) \/ WithdrawEnds(t) \/ RoutesEnds(t)
  BY <1>1, <1>2, <1>3, NextLoopType, PlacesFacts
     DEF RmPeersEnds, PeersEnds, WithdrawEnds, RoutesEnds, LoopEnds
<1>4. CASE CompareRoutes(t)
  <2>1. cache[s].routes \ job[t].bs.routes \in SUBSET Routes
    BY <1>4 DEF CompareRoutes, Cached, TypeOK, CacheTypeOK
  <2>2. CASE NextLoop(t, "refresh", {})
    BY <1>4, <2>2, NextLoopType, PlacesFacts DEF CompareRoutes, LoopEnds
  <2>3. CASE NextLoop(t, "withdraw", cache[s].routes \ job[t].bs.routes)
    BY <1>2, <1>4, <2>1, <2>3, NextLoopType, PlacesFacts
       DEF CompareRoutes, LoopEnds
  <2> QED  BY <1>4, <2>2, <2>3 DEF CompareRoutes
<1>5. CASE Refresh(t)
  <2>1. s \in Speakers
    BY <1>1, <1>5, AtKind DEF Refresh, At
  <2>2. CacheTypeOK'
    BY <1>5, <2>1 DEF Refresh, TypeOK, CacheTypeOK, ScheduleResync
  <2>3. ThreadTypeOK' /\ UNCHANGED <<serverVars, driver, sync>>
    BY <1>5, ReturnType DEF Refresh
  <2> QED  BY <2>2, <2>3, UnchangedTypes DEF TypeOK
<1>6. CASE CastEnds(t)
  <2>1. ThreadTypeOK'
    BY <1>6, ReturnType DEF CastEnds
  <2>2. UNCHANGED <<serverVars, driver, agentVars, auxVars, sync>>
    BY <1>6 DEF CastEnds
  <2> QED  BY <2>1, <2>2, UnchangedTypes DEF TypeOK
<1> QED  BY <1>3, <1>4, <1>5, <1>6

\* Each step of a thread with a speaker keeps the types.
LEMMA ThreadStepType ==
    ASSUME TypeOK, NEW t \in Threads, ThreadStep(t)
    PROVE  TypeOK'
<1>1. CASE Put(t) \/ PutFails(t)
  BY <1>1, PutType
<1>2. CASE \/ AddSpeaker(t) \/ AddSpeakerExists(t) \/ AddSpeakerFails(t)
           \/ ConstructSpeaker(t)
  BY <1>2, AddSpeakerType
<1>3. CASE CallSucceeds(t) \/ CallFails(t)
  BY <1>3, CallType
<1>4. CASE CompareRoutesFails(t) \/ \E where : Gone(t, where)
  BY <1>4, GoneType
<1>5. CASE \E p \in job[t].todo :
              \/ AddBgpPeer(t, p) \/ RemoveBgpPeer(t, p)
              \/ AdvertiseRouteVia(t, p) \/ WithdrawRouteVia(t, p)
  BY <1>5, OperationType
<1>6. CASE \/ RmPeersEnds(t) \/ PeersEnds(t) \/ WithdrawEnds(t)
           \/ RoutesEnds(t) \/ CompareRoutes(t) \/ Refresh(t) \/ CastEnds(t)
  BY <1>6, LoopEndsType
<1> QED  BY <1>1, <1>2, <1>3, <1>4, <1>5, <1>6 DEF ThreadStep
-----------------------------------------------------------------------------
(* The periodic task.                                                      *)

\* A thread at a place of sync_state, and with no call to make, has no job.
LEMMA NoJobAt ==
    ASSUME TypeOK, NEW t \in Threads,
           \/ pc[t] \in {"idle", "reset", "fetch", "iterate", "each"}
           \/ At(t, "stale")
    PROVE  job[t].kind = "none"
<1>1. job[t].call = NoCall => job[t].kind # "drop"
  BY AtKind DEF NoCall
<1>2. pc[t] \in Places[job[t].kind]
  BY DEF TypeOK, ThreadTypeOK, JobTypeOK
<1> QED  BY <1>1, <1>2, AtKind, PlacesFacts DEF At

\* The size of the cache is a number.
LEMMA CacheIsFinite ==
    ASSUME TypeOK
    PROVE  IsFiniteSet(DOMAIN cache) /\ Cardinality(DOMAIN cache) \in Nat
<1>1. DOMAIN cache \subseteq Speakers
  BY DEF TypeOK, CacheTypeOK
<1> QED  BY <1>1, FiniteAssumption, FS_Subset, FS_CardinalityType

\* The reply to get_bgp_speakers is well typed.
LEMMA HostedDictsType ==
    ASSUME TypeOK
    PROVE  HostedDicts \subseteq SpeakerDicts
<1>1. hosted \subseteq Speakers
  BY DEF TypeOK, ServerTypeOK
<1> QED  BY <1>1, SpeakerDictType DEF HostedDicts, Served

\* Each step of the periodic task keeps the types.
LEMMA SyncStateType ==
    ASSUME TypeOK, SyncState
    PROVE  TypeOK'
<1> DEFINE At0 == pc["sync"] \in {"idle", "reset", "fetch", "iterate", "each"}
                  \/ At("sync", "stale")
           To(where) == Goto("sync", where) /\ UNCHANGED job
<1>1. "sync" \in Threads
  BY DEF Threads
<1>2. At0 => job["sync"].kind = "none"
  BY <1>1, NoJobAt
<1>3. ASSUME At0,
             NEW where \in {"idle", "reset", "fetch", "iterate", "stale", "each"},
             To(where)
      PROVE  ThreadTypeOK'
  BY <1>1, <1>2, <1>3, GotoType, PlacesFacts
<1>4. sync \in SyncRecords
  BY DEF TypeOK, SyncTypeOK
<1>5. ASSUME CacheTypeOK', ThreadTypeOK', SyncTypeOK',
             UNCHANGED <<serverVars, driver>>
      PROVE  TypeOK'
  BY <1>5, UnchangedTypes DEF TypeOK
<1> HIDE DEF To
<1>6. CASE ReadReasons
  <2>1. ThreadTypeOK'
    BY <1>3, <1>6 DEF ReadReasons, To
  <2>2. SyncTypeOK'
    BY <1>4, <1>6 DEF ReadReasons, SyncTypeOK, SyncRecords, TypeOK, CacheTypeOK
  <2> QED  BY <1>5, <1>6, <2>1, <2>2, UnchangedTypes DEF ReadReasons
<1>7. CASE ResetReasons
  <2>1. ThreadTypeOK'
    BY <1>3, <1>7 DEF ResetReasons, To
  <2>2. SyncTypeOK'
    BY <1>4, <1>7 DEF ResetReasons, SyncTypeOK, SyncRecords, TypeOK, CacheTypeOK
  <2>3. CacheTypeOK'
    BY <1>7 DEF ResetReasons, TypeOK, CacheTypeOK
  <2> QED  BY <1>5, <1>7, <2>1, <2>2, <2>3 DEF ResetReasons
<1>8. CASE FetchSpeakers
  <2>1. ThreadTypeOK'
    BY <1>3, <1>8 DEF FetchSpeakers, To
  <2>2. SyncTypeOK'
    BY <1>4, <1>8, HostedDictsType DEF FetchSpeakers, SyncTypeOK, SyncRecords
  <2>3. Untold \subseteq Speakers
    BY UntoldType DEF TypeOK
  <2>4. CacheTypeOK'
    BY <1>8, <2>3 DEF FetchSpeakers, TypeOK, CacheTypeOK, agentVars
  <2> QED  BY <1>5, <1>8, <2>1, <2>2, <2>4 DEF FetchSpeakers
<1>9. CASE IterateCache
  <2>1. ThreadTypeOK'
    BY <1>3, <1>9 DEF IterateCache, To
  <2>2. SyncTypeOK'
    BY <1>4, <1>9, CacheIsFinite DEF IterateCache, SyncTypeOK, SyncRecords
  <2> QED  BY <1>5, <1>9, <2>1, <2>2, UnchangedTypes DEF IterateCache
<1>10. CASE IterationFails
  BY <1>1, <1>5, <1>10, AbortType DEF IterationFails
<1>11. CASE IterationEnds
  <2>1. ThreadTypeOK'
    BY <1>3, <1>11 DEF IterationEnds, To
  <2> QED  BY <1>5, <1>11, <2>1, UnchangedTypes DEF IterationEnds
<1>12. ASSUME NEW s \in Speakers, KeepHosted(s)
       PROVE  TypeOK'
  <2>1. SyncTypeOK'
    BY <1>4, <1>12 DEF KeepHosted, SyncTypeOK, SyncRecords
  <2> QED  BY <1>5, <1>12, <2>1, UnchangedTypes DEF KeepHosted
<1>13. ASSUME NEW s \in Speakers, RemoveStale(s)
       PROVE  TypeOK'
  <2>1. ThreadTypeOK'
    BY <1>1, <1>13, RemoveSpeakerType DEF RemoveStale
  <2>2. CacheTypeOK'
    BY <1>13 DEF RemoveStale, RemoveSpeaker, DropKey, TypeOK, CacheTypeOK
  <2> QED  BY <1>5, <1>13, <2>1, <2>2, UnchangedTypes DEF RemoveStale
<1>14. ASSUME NEW bs \in sync.snap, VisitHosted(bs)
       PROVE  TypeOK'
  <2>1. bs \in SpeakerDicts /\ bs.id \in Speakers
    BY <1>4 DEF SyncRecords, SpeakerDicts
  <2>2. ThreadTypeOK'
    <3>1. Cached(bs.id) => cache[bs.id].peers \ bs.peers \subseteq Peers
      BY DEF Cached, TypeOK, CacheTypeOK
    <3>2. Peers \subseteq Items
      BY PlacesFacts, TodoItems
    <3>3. CASE Cached(bs.id)
      BY <1>1, <1>14, <2>1, <3>1, <3>2, <3>3, EnterType, PlacesFacts
         DEF VisitHosted
    <3>4. CASE ~Cached(bs.id)
      BY <1>1, <1>14, <2>1, <3>4, EnterType, PlacesFacts DEF VisitHosted
    <3> QED  BY <3>3, <3>4
  <2>3. SyncTypeOK'
    BY <1>4, <1>14 DEF VisitHosted, SyncTypeOK, SyncRecords
  <2> QED  BY <1>5, <1>14, <2>2, <2>3, UnchangedTypes DEF VisitHosted
<1>15. CASE SyncEnds
  <2>1. ThreadTypeOK'
    BY <1>3, <1>15 DEF SyncEnds, To
  <2>2. SyncTypeOK'
    BY <1>15 DEF SyncEnds, SyncTypeOK, SyncRecords, NoSync
  <2> QED  BY <1>5, <1>15, <2>1, <2>2, UnchangedTypes DEF SyncEnds
<1> QED
  BY <1>1, <1>6, <1>7, <1>8, <1>9, <1>10, <1>11, <1>12, <1>13, <1>14, <1>15,
     ThreadStepType DEF SyncState

-----------------------------------------------------------------------------
(* The handlers of casts.                                                  *)

\* A handler that takes a cast starts well typed.
LEMMA ProcessType ==
    ASSUME TypeOK, NEW m \in inbox, NEW op \in AgentOps,
           NEW where \in {"rmpeers", "peers", "routes", "withdraw"},
           ItemsOf[op] \subseteq TodoOf[where],
           Process(m, op, where)
    PROVE  ThreadTypeOK'
<1> DEFINE bs == [NoDict EXCEPT !.id = m.speaker]
<1>1. /\ m.speaker \in Speakers
      /\ m.items \subseteq Items /\ m.items \subseteq TodoOf[where]
  BY MessageType DEF Process, Receive
<1>2. bs \in SpeakerDicts
  BY <1>1 DEF NoDict, SpeakerDicts
<1>3. "handler" \in Threads
  BY DEF Threads
<1> QED  BY <1>1, <1>2, <1>3, EnterType, PlacesFacts DEF Process

\* The start of each handler keeps the types.
LEMMA HandlerStartsType ==
    ASSUME TypeOK, HandlerStarts
    PROVE  TypeOK'
<1>1. PICK m \in inbox :
          \/ CreateEnd(m) \/ CallServerFails(m)
          \/ RemoveEnd(m) \/ OutOfSync(m)
          \/ AssociationEnd(m) \/ DisassociationEnd(m)
          \/ AdvertisementEnd(m) \/ WithdrawalEnd(m)
  BY DEF HandlerStarts
<1>2. m.speaker \in Speakers /\ "handler" \in Threads
  BY MessageType DEF Threads
<1>3. /\ inbox' = inbox \ {m}
      /\ overlapped' \in BOOLEAN /\ raised' \in BOOLEAN
      /\ UNCHANGED <<boundVars, config, changes, driver, sync>>
      /\ faults' = faults \/ Fault("call")
  <2>1. PICK op : Receive(m, op)
    BY <1>1 DEF CreateEnd, CallServerFails, RemoveEnd, OutOfSync, Process,
       AssociationEnd, DisassociationEnd, AdvertisementEnd, WithdrawalEnd
  <2>2. /\ UNCHANGED <<driver, sync>>
        /\ UNCHANGED faults \/ Fault("call")
    BY <1>1 DEF CreateEnd, CallServerFails, RemoveEnd, OutOfSync, Process,
       AssociationEnd, DisassociationEnd, AdvertisementEnd, WithdrawalEnd,
       threadVars
  <2> QED  BY <2>1, <2>2 DEF Receive, TypeOK, CacheTypeOK
<1>4. ServerTypeOK'
  BY <1>3, FaultType DEF TypeOK, ServerTypeOK, boundVars
<1>5. DriverTypeOK' /\ SyncTypeOK'
  BY <1>3, UnchangedTypes
<1>6. CASE CreateEnd(m)
  <2>1. ThreadTypeOK'
    BY <1>2, <1>6, SpeakerDictType, EnterType, PlacesFacts DEF CreateEnd
  <2>2. CacheTypeOK'
    BY <1>3, <1>6 DEF CreateEnd, TypeOK, CacheTypeOK, agentVars
  <2> QED  BY <1>4, <1>5, <2>1, <2>2 DEF TypeOK
<1>7. CASE CallServerFails(m) \/ OutOfSync(m)
  <2>1. UNCHANGED threadVars /\ UNCHANGED <<cache, needsFull, abandoned, misled>>
        /\ ScheduleResync(m.speaker)
    BY <1>7 DEF CallServerFails, OutOfSync
  <2>2. ThreadTypeOK'
    BY <2>1, UnchangedTypes DEF threadVars
  <2>3. CacheTypeOK'
    BY <1>2, <1>3, <2>1 DEF TypeOK, CacheTypeOK, ScheduleResync
  <2> QED  BY <1>4, <1>5, <2>2, <2>3 DEF TypeOK
<1>8. CASE RemoveEnd(m)
  <2>1. ThreadTypeOK'
    BY <1>2, <1>8, RemoveSpeakerType DEF RemoveEnd
  <2>2. misled' \subseteq Speakers
    BY <1>2, <1>4, <1>8, UntoldTypeNext DEF RemoveEnd, TypeOK, CacheTypeOK
  <2>3. CacheTypeOK'
    BY <1>3, <1>8, <2>2
       DEF RemoveEnd, RemoveSpeaker, DropKey, TypeOK, CacheTypeOK
  <2> QED  BY <1>4, <1>5, <2>1, <2>3 DEF TypeOK
<1>9. ASSUME \/ AssociationEnd(m) \/ DisassociationEnd(m)
             \/ AdvertisementEnd(m) \/ WithdrawalEnd(m)
      PROVE  TypeOK'
  <2>1. ThreadTypeOK'
    BY <1>9, ProcessType, PlacesFacts, ItemsFacts
       DEF AssociationEnd, DisassociationEnd, AdvertisementEnd, WithdrawalEnd
  <2>2. UNCHANGED <<agentVars, abandoned, misled>>
    BY <1>9 DEF AssociationEnd, DisassociationEnd, AdvertisementEnd,
       WithdrawalEnd, Process
  <2>3. CacheTypeOK'
    BY <1>3, <2>2 DEF TypeOK, CacheTypeOK, agentVars
  <2> QED  BY <1>4, <1>5, <2>1, <2>3 DEF TypeOK
<1> QED  BY <1>1, <1>6, <1>7, <1>8, <1>9

-----------------------------------------------------------------------------
(* The environment.                                                        *)

\* A sync whose call of the server fails keeps the types.
LEMMA FetchSpeakersFailsType ==
    ASSUME TypeOK, FetchSpeakersFails
    PROVE  TypeOK'
<1>1. ThreadTypeOK' /\ SyncTypeOK' /\ CacheTypeOK'
  BY AbortType DEF FetchSpeakersFails, Threads
<1>2. ServerTypeOK'
  BY FaultType DEF FetchSpeakersFails, TypeOK, ServerTypeOK, boundVars
<1>3. UNCHANGED driver
  BY DEF FetchSpeakersFails
<1> QED  BY <1>1, <1>2, <1>3, UnchangedTypes DEF TypeOK

\* The agent restarts well typed.
LEMMA RestartType ==
    ASSUME TypeOK, Restart
    PROVE  TypeOK'
<1>1. ServerTypeOK'
  BY FaultType DEF Restart, TypeOK, ServerTypeOK
<1>2. DriverTypeOK' /\ CacheTypeOK'
  BY DEF Restart, DriverTypeOK, CacheTypeOK
<1>3. SyncTypeOK'
  BY DEF Restart, SyncTypeOK, SyncRecords, NoSync
<1>4. ThreadTypeOK'
  <2>1. NoJob \in Jobs
    BY PlacesFacts DEF NoJob, Job, NoDict, NoCall, Jobs, Calls, Places
  <2>2. \A t \in Threads : JobTypeOK(t)'
    <3> TAKE t \in Threads
    <3>1. job'[t] = NoJob /\ pc'[t] \in {"fetch", "idle"}
      BY DEF Restart
    <3>2. NoJob.kind = "none" /\ NoJob.call.op # "delete_bgp_speaker"
          /\ NoJob.call = NoCall
      BY DEF NoJob, Job, NoCall
    <3> QED  BY <2>1, <3>1, <3>2, PlacesFacts DEF JobTypeOK
  <2>3. DOMAIN pc' = Threads /\ DOMAIN job' = Threads
        /\ pc'["sync"] = "fetch" /\ pc'["handler"] = "idle"
    BY DEF Restart, Threads
  <2> QED  BY <2>2, <2>3 DEF ThreadTypeOK
<1> QED  BY <1>1, <1>2, <1>3, <1>4 DEF TypeOK

\* The steps of the server, the network and the host keep the types.
LEMMA EnvironmentType ==
    ASSUME TypeOK, Environment
    PROVE  TypeOK'
<1>1. CASE Server
  <2>1. ServerTypeOK'
    BY <1>1, ServerStepType DEF Server
  <2>2. UNCHANGED <<driver, agentVars, pc, job, sync, abandoned, overlapped, raised>>
    BY <1>1 DEF Server, threadVars
  <2>3. CacheTypeOK'
    BY <1>1, <2>1, <2>2, UntoldTypeNext
       DEF Server, TypeOK, CacheTypeOK, agentVars
  <2> QED  BY <2>1, <2>2, <2>3, UnchangedTypes DEF TypeOK
<1>2. ASSUME NEW n \in notices, AgentUpdated(n)
      PROVE  TypeOK'
  <2>1. ServerTypeOK'
    BY <1>2 DEF AgentUpdated, TypeOK, ServerTypeOK
  <2>2. Untold \subseteq Speakers
    BY UntoldType DEF TypeOK
  <2>3. CacheTypeOK'
    BY <1>2, <2>2 DEF AgentUpdated, TypeOK, CacheTypeOK
  <2>4. UNCHANGED <<driver, pc, job, sync>>
    BY <1>2 DEF AgentUpdated, threadVars
  <2> QED  BY <2>1, <2>3, <2>4, UnchangedTypes DEF TypeOK
<1>3. CASE AgentRevived
  <2>1. ServerTypeOK'
    BY <1>3, ChangeType DEF AgentRevived, TypeOK, ServerTypeOK, boundVars
  <2>2. CacheTypeOK'
    BY <1>3 DEF AgentRevived, TypeOK, CacheTypeOK, auxVars
  <2>3. UNCHANGED <<driver, pc, job, sync>>
    BY <1>3 DEF AgentRevived, threadVars
  <2> QED  BY <2>1, <2>2, <2>3, UnchangedTypes DEF TypeOK
<1>4. CASE LoseCast \/ LoseNotice
  <2>1. ServerTypeOK'
    BY <1>4, FaultType
       DEF LoseCast, LoseNotice, TypeOK, ServerTypeOK, boundVars
  <2>2. misled' \subseteq Speakers
    <3>1. Untold \subseteq Speakers /\ Untold' \subseteq Speakers
      BY <2>1, UntoldType, UntoldTypeNext DEF TypeOK
    <3> QED  BY <1>4, <3>1 DEF LoseCast, LoseNotice, TypeOK, CacheTypeOK
  <2>3. UNCHANGED <<driver, agentVars, pc, job, sync, abandoned, overlapped,
                    raised>>
    BY <1>4 DEF LoseCast, LoseNotice, threadVars
  <2>4. CacheTypeOK'
    BY <2>2, <2>3 DEF TypeOK, CacheTypeOK, agentVars
  <2> QED  BY <2>1, <2>3, <2>4, UnchangedTypes DEF TypeOK
<1> QED
  BY <1>1, <1>2, <1>3, <1>4, FetchSpeakersFailsType, RestartType
     DEF Environment

-----------------------------------------------------------------------------
(* Type correctness.                                                       *)

\* The initial states are well typed.
LEMMA InitType == Init => TypeOK
<1> SUFFICES ASSUME Init PROVE TypeOK
  OBVIOUS
<1>1. ServerTypeOK
  BY BoundAssumption DEF Init, ServerInit, ServerTypeOK
<1>2. DriverTypeOK /\ CacheTypeOK
  BY DEF Init, DriverInit, DriverTypeOK, CacheTypeOK
<1>3. SyncTypeOK
  BY DEF Init, SyncTypeOK, SyncRecords, NoSync
<1>4. NoJob \in Jobs
  BY PlacesFacts DEF NoJob, Job, NoDict, NoCall, Jobs, Calls, Places
<1>5. \A t \in Threads : JobTypeOK(t)
  <2> TAKE t \in Threads
  <2>1. job[t] = NoJob /\ pc[t] \in {"fetch", "idle"}
    BY DEF Init
  <2>2. /\ NoJob.kind = "none" /\ NoJob.call = NoCall
        /\ NoJob.call.op # "delete_bgp_speaker"
    BY DEF NoJob, Job, NoCall
  <2> QED  BY <1>4, <2>1, <2>2, PlacesFacts DEF JobTypeOK
<1>6. /\ DOMAIN pc = Threads /\ DOMAIN job = Threads
      /\ pc["sync"] = "fetch" /\ pc["handler"] = "idle"
  BY DEF Init, Threads
<1>7. ThreadTypeOK
  BY <1>5, <1>6 DEF ThreadTypeOK
<1> QED  BY <1>1, <1>2, <1>3, <1>7 DEF TypeOK

\* Every step keeps the types.
LEMMA NextType ==
    ASSUME TypeOK, [Next]_vars
    PROVE  TypeOK'
<1>1. CASE SyncState
  BY <1>1, SyncStateType
<1>2. CASE Handler
  BY <1>2, HandlerStartsType, ThreadStepType DEF Handler, Threads
<1>3. CASE Environment
  BY <1>3, EnvironmentType
<1>4. CASE UNCHANGED vars
  <2>1. UNCHANGED <<serverVars, driver, agentVars, auxVars, pc, job, sync>>
    BY <1>4 DEF vars, threadVars
  <2> QED  BY <2>1, UnchangedTypes DEF TypeOK
<1> QED  BY <1>1, <1>2, <1>3, <1>4 DEF Next

\* Whatever the threads interleave, each is at a place of the work it does and
\* holds the items of that place, and the cache and the driver hold what the
\* server sent.
THEOREM TypeCorrect == Spec => []TypeOK
<1>1. Init => TypeOK
  BY InitType
<1>2. TypeOK /\ [Next]_vars => TypeOK'
  BY NextType
<1> QED  BY <1>1, <1>2, PTL DEF Spec

-----------------------------------------------------------------------------
(* The periodic refresh.                                                   *)

\* The iteration over the cache has only kept speakers of the snapshot.
SeenOK ==
    /\ pc["sync"] = "stale" => sync.seen \subseteq SnapIds
    /\ pc["sync"] \in {"idle", "reset", "fetch", "iterate"} => sync.seen = {}

RefreshInv == TypeOK /\ SeenOK /\ RefreshGoesOn

\* What the periodic task owes to a speaker, apart from the thread at work.
Due(s) ==
    \/ FullScheduled
    \/ pc["sync"] = "fetch" /\ Selected(s)
    \/ pc["sync"] = "iterate" /\ Selected(s)
    \/ pc["sync"] = "stale" /\ s \notin SnapIds
    \/ ToVisit(s)

Working == {"put", "add", "construct", "rmpeers", "peers", "withdraw", "routes",
            "refresh"}

Aborted(t) ==
    t = "sync" /\ needsFull' /\ pc'["sync"] = "idle" /\ sync' = NoSync

\* How a step of thread t with a speaker leaves the periodic task.
SyncGoesOn(t) ==
    \/ Aborted(t)
    \/ UNCHANGED <<needsFull, sync>>
          /\ \/ t = "handler"
             \/ pc["sync"] \in Working /\ pc'["sync"] \in Working \cup {"each"}
             \/ pc["sync"] = "stale" /\ pc'["sync"] = "stale"

\* What such a step must do for the refresh to go on.
Carries(t) ==
    /\ needsResync \subseteq needsResync'
    /\ \A u \in Threads : u # t => pc'[u] = pc[u] /\ job'[u] = job[u]
    /\ SyncGoesOn(t)
    /\ \A s \in DOMAIN cache' :
          \/ s \in needsResync'
          \/ Configuring(t, s)'
          \/ Aborted(t)
          \/ s \in abandoned'
          \/ s \in DOMAIN cache /\ s \notin abandoned /\ ~Configuring(t, s)

\* The three ways in which a speaker is attended.
LEMMA AttendedSplit ==
    \A s : Attended(s) <=> \/ s \in needsResync
                           \/ Due(s)
                           \/ \E t \in Threads : Configuring(t, s)
  BY DEF Attended, Due

\* A step that carries its speaker keeps the refresh going.
LEMMA CarriesOn ==
    ASSUME RefreshInv, NEW t \in Threads, Carries(t)
    PROVE  RefreshGoesOn' /\ SeenOK'
<1>1. CASE Aborted(t)
  <2>1. FullScheduled' /\ SeenOK'
    BY <1>1 DEF Aborted, FullScheduled, SeenOK, NoSync
  <2> QED  BY <2>1 DEF RefreshGoesOn, Attended
<1>2. CASE ~Aborted(t)
  <2>1. /\ UNCHANGED <<needsFull, sync>>
        /\ \/ UNCHANGED pc["sync"]
           \/ pc["sync"] \in Working /\ pc'["sync"] \in Working \cup {"each"}
    BY <1>2 DEF Carries, SyncGoesOn, Threads
  <2>2. \/ UNCHANGED pc["sync"]
        \/ {pc["sync"], pc'["sync"]} \cap
              {"idle", "reset", "fetch", "iterate", "stale"} = {}
    BY <2>1 DEF Working
  <2>3. SnapIds' = SnapIds /\ \A s : Selected(s)' = Selected(s)
    BY <2>1 DEF SnapIds, Selected, ResyncAll
  <2>4. SeenOK'
    BY <2>1, <2>2, <2>3 DEF RefreshInv, SeenOK
  <2>5. ASSUME NEW s, Due(s)  PROVE Due(s)'
    BY <2>1, <2>2, <2>3, <2>5 DEF Due, FullScheduled, ToVisit
  <2>6. ASSUME NEW s \in DOMAIN cache', s \notin abandoned'
        PROVE  Attended(s)'
    <3>1. CASE s \in needsResync' \/ Configuring(t, s)'
      BY <3>1 DEF Attended
    <3>2. CASE s \in DOMAIN cache /\ s \notin abandoned /\ ~Configuring(t, s)
      <4>1. Attended(s)
        BY <3>2 DEF RefreshInv, RefreshGoesOn
      <4>2. ASSUME NEW u \in Threads, u # t, Configuring(u, s)
            PROVE  Configuring(u, s)'
        BY <4>2 DEF Carries, Configuring
      <4> QED  BY <2>5, <3>2, <4>1, <4>2 DEF Carries, Attended, Due
    <3> QED  BY <1>2, <2>6, <3>1, <3>2 DEF Carries
  <2> QED  BY <2>4, <2>6 DEF RefreshGoesOn
<1> QED  BY <1>1, <1>2

\* Only thread t moves, and to where it goes.
LEMMA OnlyMoves ==
    ASSUME TypeOK, NEW t \in Threads
    PROVE  /\ \A where : Goto(t, where) =>
                 /\ pc'[t] = where
                 /\ \A u \in Threads : u # t => pc'[u] = pc[u]
           /\ \A where, kind, bs, todo : Enter(t, where, kind, bs, todo) =>
                 /\ pc'[t] = where
                 /\ job'[t] = Job(kind, bs, todo)
                 /\ \A u \in Threads : u # t => pc'[u] = pc[u] /\ job'[u] = job[u]
  BY DEF TypeOK, ThreadTypeOK, Enter, Goto

\* An exception loses no speaker: sync_state schedules a full resync.
LEMMA AbortCarries ==
    ASSUME TypeOK, NEW t \in Threads, Abort(t),
           UNCHANGED <<cache, needsResync, auxVars>>,
           \A s \in DOMAIN cache : ~Configuring(t, s)
    PROVE  Carries(t)
<1>1. /\ \A u \in Threads : u # t => pc'[u] = pc[u] /\ job'[u] = job[u]
      /\ pc'[t] = "idle"
  BY OnlyMoves DEF Abort
<1>2. SyncGoesOn(t) /\ (t = "sync" => Aborted(t))
  BY <1>1 DEF Abort, Aborted, SyncGoesOn, Threads
<1> QED  BY <1>1, <1>2 DEF Carries, auxVars

\* A speaker that enters the cache is being configured.
LEMMA PutCarries ==
    ASSUME TypeOK, NEW t \in Threads, Put(t) \/ PutFails(t)
    PROVE  Carries(t)
<1>1. job[t].kind = "configure"
  BY AtKind DEF Put, PutFails, At
<1>2. CASE Put(t)
  <2>1. /\ pc[t] = "put" /\ pc'[t] = "add" /\ UNCHANGED job
        /\ \A u \in Threads : u # t => pc'[u] = pc[u]
    BY <1>2, OnlyMoves DEF Put, At
  <2>2. SyncGoesOn(t)
    BY <1>2, <2>1 DEF Put, SyncGoesOn, Working, Threads
  <2>3. \A s : Configuring(t, s)' <=> s = job[t].bs.id
    BY <1>1, <2>1 DEF Configuring
  <2>4. \A s : ~Configuring(t, s)
    BY <2>1 DEF Configuring
  <2>5. DOMAIN cache' = DOMAIN cache \cup {job[t].bs.id}
    BY <1>2 DEF Put, PutKey
  <2> QED  BY <1>2, <2>1, <2>2, <2>3, <2>4, <2>5 DEF Put, Carries, auxVars
<1>3. CASE PutFails(t)
  BY <1>3, AbortCarries DEF PutFails, Configuring, At
<1> QED  BY <1>2, <1>3

\* add_bgp_speaker loses no speaker but those it abandons.
LEMMA AddSpeakerCarries ==
    ASSUME TypeOK, NEW t \in Threads,
           \/ AddSpeaker(t) \/ AddSpeakerExists(t) \/ AddSpeakerFails(t)
           \/ ConstructSpeaker(t)
    PROVE  Carries(t)
<1> DEFINE id == job[t].bs.id
<1>1. /\ job[t].kind = "configure" /\ pc[t] \in {"add", "construct"}
      /\ UNCHANGED <<cache, needsFull, sync>>
      /\ needsResync \subseteq needsResync'
  BY AtKind DEF AddSpeaker, AddSpeakerExists, AddSpeakerFails,
     ConstructSpeaker, At, agentVars, ScheduleResync
<1>2. /\ \A u \in Threads : u # t => pc'[u] = pc[u] /\ job'[u] = job[u]
      /\ pc'[t] \in {"construct", "peers", "idle", "each"}
      /\ t = "sync" => pc'[t] # "idle"
      /\ AddSpeakerExists(t) \/ (job'[t].kind = "configure" /\ job'[t].bs = job[t].bs
                                 /\ pc'[t] # "put")
  <2>1. CASE AddSpeaker(t)
    BY <1>1, <2>1, OnlyMoves DEF AddSpeaker
  <2>2. CASE AddSpeakerExists(t)
    BY <2>2, OnlyMoves DEF AddSpeakerExists, Return
  <2>3. CASE AddSpeakerFails(t) \/ ConstructSpeaker(t)
    <3>1. Enter(t, "peers", "configure", job[t].bs, job[t].bs.peers)
      BY <2>3 DEF AddSpeakerFails, ConstructSpeaker, ConfigurePeers
    <3>2. /\ pc'[t] = "peers"
          /\ job'[t] = Job("configure", job[t].bs, job[t].bs.peers)
          /\ \A u \in Threads : u # t => pc'[u] = pc[u] /\ job'[u] = job[u]
      BY <3>1, OnlyMoves
    <3> QED  BY <3>2 DEF Job
  <2> QED  BY <2>1, <2>2, <2>3
<1>3. SyncGoesOn(t)
  BY <1>1, <1>2 DEF SyncGoesOn, Working, Threads
<1>4. \A s : Configuring(t, s) <=> s = id
  BY <1>1 DEF Configuring
<1>5. CASE AddSpeakerExists(t)
  <2>1. /\ abandoned \subseteq abandoned'
        /\ id \in DOMAIN cache => id \in abandoned'
    BY <1>5 DEF AddSpeakerExists
  <2> QED  BY <1>1, <1>2, <1>3, <1>4, <2>1 DEF Carries
<1>6. CASE ~AddSpeakerExists(t)
  <2>1. \A s : Configuring(t, s)' <=> s = id
    BY <1>2, <1>6 DEF Configuring
  <2>2. UNCHANGED abandoned
    BY <1>6 DEF AddSpeaker, AddSpeakerFails, ConstructSpeaker, auxVars
  <2> QED  BY <1>1, <1>2, <1>3, <1>4, <2>1, <2>2 DEF Carries
<1> QED  BY <1>5, <1>6

\* A step within a loop, or after it, that keeps the job's speaker.
LEMMA StayCarries ==
    ASSUME TypeOK, NEW t \in Threads,
           job[t].kind \notin {"none", "drop"},
           pc[t] \in Working, pc'[t] \in Working,
           pc[t] = "put" <=> pc'[t] = "put",
           job'[t].kind = job[t].kind, job'[t].bs = job[t].bs,
           \A u \in Threads : u # t => pc'[u] = pc[u] /\ job'[u] = job[u],
           needsResync \subseteq needsResync',
           DOMAIN cache' = DOMAIN cache,
           UNCHANGED <<needsFull, sync, abandoned>>
    PROVE  Carries(t)
<1>1. SyncGoesOn(t)
  BY DEF SyncGoesOn, Threads
<1>2. \A s : Configuring(t, s)' <=> Configuring(t, s)
  BY DEF Configuring, Working
<1> QED  BY <1>1, <1>2 DEF Carries

\* The driver's answer leaves a speaker attended.
LEMMA CallCarries ==
    ASSUME TypeOK, NEW t \in Threads, CallSucceeds(t) \/ CallFails(t)
    PROVE  Carries(t)
<1>1. /\ job[t].call # NoCall /\ job[t].kind # "none"
      /\ UNCHANGED <<cache, needsFull, sync, abandoned>>
      /\ needsResync \subseteq needsResync'
  BY AtKind
     DEF CallSucceeds, CallFails, agentVars, auxVars, ScheduleResync
<1>2. CASE job[t].kind = "drop"
  <2>1. Enter(t, IF t = "sync" THEN "stale" ELSE "idle", "none", NoDict, {})
    BY <1>2 DEF CallSucceeds, CallFails, CallReturns
  <2>2. \A u \in Threads : u # t => pc'[u] = pc[u] /\ job'[u] = job[u]
    BY <2>1, OnlyMoves
  <2>3. t = "sync" => pc["sync"] = "stale" /\ pc'["sync"] = "stale"
    <3>1. JobTypeOK(t) /\ pc["sync"] # "remove"
      BY DEF TypeOK, ThreadTypeOK
    <3> QED  BY <1>2, <2>1, <3>1, OnlyMoves, PlacesFacts DEF JobTypeOK
  <2>4. SyncGoesOn(t)
    BY <1>1, <2>3 DEF SyncGoesOn, Threads
  <2>5. \A s : ~Configuring(t, s)
    BY <1>2 DEF Configuring
  <2> QED  BY <1>1, <2>2, <2>4, <2>5 DEF Carries
<1>3. CASE job[t].kind # "drop"
  <2>1. job[t] \in Jobs /\ DOMAIN job = Threads /\ pc[t] \in Working
    <3>1. JobTypeOK(t) /\ DOMAIN job = Threads
      BY DEF TypeOK, ThreadTypeOK
    <3> QED  BY <1>1, <1>3, <3>1, AtKind, PlacesFacts DEF JobTypeOK, Working
  <2>2. PICK rest : job' = [job EXCEPT ![t].call = NoCall, ![t].todo = rest]
    <3>1. CASE CallSucceeds(t)
      <4> DEFINE rest == Rest(t, job[t].todo, needsResync)
      <4>1. job' = [job EXCEPT ![t].call = NoCall, ![t].todo = rest]
        BY <1>3, <2>1, <3>1 DEF CallSucceeds, CallReturns
      <4> HIDE DEF rest
      <4> QED  BY <4>1
    <3>2. CASE CallFails(t)
      <4> DEFINE rest == Rest(t, job[t].todo, needsResync')
      <4>1. job' = [job EXCEPT ![t].call = NoCall, ![t].todo = rest]
        BY <1>3, <2>1, <3>2 DEF CallFails, CallReturns
      <4> HIDE DEF rest
      <4> QED  BY <4>1
    <3> QED  BY <3>1, <3>2
  <2>3. /\ job'[t].kind = job[t].kind /\ job'[t].bs = job[t].bs
        /\ \A u \in Threads : u # t => job'[u] = job[u]
    BY <2>1, <2>2 DEF Jobs
  <2>4. UNCHANGED pc
    BY <1>3 DEF CallSucceeds, CallFails, CallReturns
  <2> QED  BY <1>1, <1>3, <2>1, <2>3, <2>4, StayCarries
<1> QED  BY <1>2, <1>3

\* A speaker that is gone needs no refresh.
LEMMA GoneCarries ==
    ASSUME TypeOK, NEW t \in Threads,
           CompareRoutesFails(t) \/ \E where : Gone(t, where)
    PROVE  Carries(t)
<1>1. \A s \in DOMAIN cache : ~Configuring(t, s)
  BY DEF CompareRoutesFails, Gone, Cached, Configuring
<1> QED  BY <1>1, AbortCarries DEF CompareRoutesFails, Gone

\* The operations on peers and routes leave a speaker attended.
LEMMA OperationCarries ==
    ASSUME TypeOK, NEW t \in Threads, NEW item,
           \/ AddBgpPeer(t, item) \/ RemoveBgpPeer(t, item)
           \/ AdvertiseRouteVia(t, item) \/ WithdrawRouteVia(t, item)
    PROVE  Carries(t)
<1>1. /\ UNCHANGED <<pc, needsFull, sync, abandoned>>
      /\ needsResync \subseteq needsResync'
      /\ DOMAIN cache' = DOMAIN cache
  BY DEF AddBgpPeer, RemoveBgpPeer, AdvertiseRouteVia, WithdrawRouteVia,
         auxVars, ScheduleResync
<1>2. pc[t] \in Working /\ job[t].kind \notin {"none", "drop"}
  BY AtKind DEF AddBgpPeer, RemoveBgpPeer, AdvertiseRouteVia,
                WithdrawRouteVia, At, Working
<1>3. job[t] \in Jobs /\ DOMAIN job = Threads
  BY AtKind DEF TypeOK, ThreadTypeOK
<1> DEFINE Same == /\ job'[t].kind = job[t].kind /\ job'[t].bs = job[t].bs
                   /\ \A u \in Threads : u # t => job'[u] = job[u]
<1>4. ASSUME NEW rest, job' = [job EXCEPT ![t].todo = rest]
      PROVE  Same
  BY <1>3, <1>4 DEF Jobs
<1>5. ASSUME NEW op, NEW rest, CallNext(t, op, item, rest)
      PROVE  Same
  BY <1>3, <1>5 DEF Jobs, CallNext
<1>6. ASSUME SkipItem(t, item)
      PROVE  Same
  <2> DEFINE rest == Rest(t, job[t].todo \ {item}, needsResync)
  <2>1. job' = [job EXCEPT ![t].todo = rest]
    BY <1>3, <1>6 DEF SkipItem
  <2> HIDE DEF rest, Same
  <2> QED  BY <1>4, <2>1
<1> HIDE DEF Same
<1>7. CASE AddBgpPeer(t, item) \/ AdvertiseRouteVia(t, item)
  <2>1. Same
    BY <1>5, <1>6, <1>7 DEF AddBgpPeer, AdvertiseRouteVia
  <2> QED  BY <1>1, <1>2, <2>1, StayCarries DEF Same
<1>8. CASE RemoveBgpPeer(t, item)
  <2>1. \/ CallNext(t, "delete_bgp_peer", item, job[t].todo \ {item})
        \/ job' = [job EXCEPT ![t].todo = job[t].todo \ {item}]
    BY <1>3, <1>8 DEF RemoveBgpPeer
  <2>2. Same
    BY <1>4, <1>5, <2>1
  <2> QED  BY <1>1, <1>2, <2>2, StayCarries DEF Same
<1>9. CASE WithdrawRouteVia(t, item)
  <2> DEFINE rest == Rest(t, job[t].todo \ {item}, needsResync')
  <2>1. \/ CallNext(t, "withdraw_route", item, job[t].todo \ {item})
        \/ job' = [job EXCEPT ![t].todo = rest]
    BY <1>3, <1>9 DEF WithdrawRouteVia
  <2> HIDE DEF rest
  <2>2. Same
    BY <1>4, <1>5, <2>1
  <2> QED  BY <1>1, <1>2, <2>2, StayCarries DEF Same
<1> QED  BY <1>7, <1>8, <1>9

\* The next loop works on the same speaker.
LEMMA NextLoopCarries ==
    ASSUME TypeOK, NEW t \in Threads, NEW where \in Working \ {"put"}, NEW todo,
           pc[t] \in {"rmpeers", "peers", "withdraw", "routes"},
           job[t].kind \in {"configure", "refresh"},
           NextLoop(t, where, todo)
    PROVE  Carries(t)
<1>1. /\ pc'[t] = where
      /\ job'[t] = Job(job[t].kind, job[t].bs, todo)
      /\ \A u \in Threads : u # t => pc'[u] = pc[u] /\ job'[u] = job[u]
      /\ UNCHANGED <<cache, needsResync, needsFull, sync, abandoned>>
  BY OnlyMoves DEF NextLoop, agentVars, auxVars
<1>2. job'[t].kind = job[t].kind /\ job'[t].bs = job[t].bs
  BY <1>1 DEF Job
<1>3. pc[t] \in Working /\ pc[t] # "put"
  BY DEF Working
<1> QED  BY <1>1, <1>2, <1>3, StayCarries

\* A thread that returns has no speaker that is not attended.
LEMMA ReturnCarries ==
    ASSUME TypeOK, NEW t \in Threads, Return(t), pc[t] \in Working,
           UNCHANGED <<cache, needsFull, sync>>,
           needsResync \subseteq needsResync',
           \A s : Configuring(t, s) \/ s \in abandoned \ abandoned' =>
                   s \in needsResync'
    PROVE  Carries(t)
<1>1. /\ t = "sync" => pc'[t] = "each"
      /\ \A u \in Threads : u # t => pc'[u] = pc[u] /\ job'[u] = job[u]
  BY OnlyMoves DEF Return
<1>2. SyncGoesOn(t)
  BY <1>1 DEF SyncGoesOn, Threads
<1> QED  BY <1>1, <1>2 DEF Carries

\* The end of each loop leaves a speaker attended.
LEMMA LoopEndsCarries ==
    ASSUME TypeOK, NEW t \in Threads,
           \/ RmPeersEnds(t) \/ PeersEnds(t) \/ WithdrawEnds(t)
           \/ RoutesEnds(t) \/ CompareRoutes(t) \/ Refresh(t) \/ CastEnds(t)
    PROVE  Carries(t)
<1>1. {"peers", "withdraw", "routes", "refresh"} \subseteq Working \ {"put"}
  BY DEF Working
<1>2. CASE RmPeersEnds(t) \/ PeersEnds(t) \/ WithdrawEnds(t) \/ RoutesEnds(t)
  BY <1>1, <1>2, NextLoopCarries
     DEF RmPeersEnds, PeersEnds, WithdrawEnds, RoutesEnds, LoopEnds, At
<1>3. CASE CompareRoutes(t)
  BY <1>1, <1>3, NextLoopCarries DEF CompareRoutes, LoopEnds, At
<1>4. CASE Refresh(t)
  <2>1. \A s : Configuring(t, s) \/ s \in abandoned \ abandoned' =>
                s \in needsResync'
    BY <1>4 DEF Refresh, Configuring, ScheduleResync
  <2> QED
    BY <1>1, <1>4, <2>1, ReturnCarries DEF Refresh, At, ScheduleResync
<1>5. CASE CastEnds(t)
  <2>1. \A s : ~Configuring(t, s)
    BY <1>5 DEF CastEnds, LoopEnds, Configuring
  <2>2. pc[t] \in Working
    BY <1>5 DEF CastEnds, Working
  <2> QED
    BY <1>5, <2>1, <2>2, ReturnCarries DEF CastEnds, agentVars, auxVars
<1> QED  BY <1>2, <1>3, <1>4, <1>5

\* Each step of a thread with a speaker leaves it attended.
LEMMA ThreadStepCarries ==
    ASSUME TypeOK, NEW t \in Threads, ThreadStep(t)
    PROVE  Carries(t)
<1>1. CASE Put(t) \/ PutFails(t)
  BY <1>1, PutCarries
<1>2. CASE \/ AddSpeaker(t) \/ AddSpeakerExists(t) \/ AddSpeakerFails(t)
           \/ ConstructSpeaker(t)
  BY <1>2, AddSpeakerCarries
<1>3. CASE CallSucceeds(t) \/ CallFails(t)
  BY <1>3, CallCarries
<1>4. CASE CompareRoutesFails(t) \/ \E where : Gone(t, where)
  BY <1>4, GoneCarries
<1>5. CASE \E p \in job[t].todo :
              \/ AddBgpPeer(t, p) \/ RemoveBgpPeer(t, p)
              \/ AdvertiseRouteVia(t, p) \/ WithdrawRouteVia(t, p)
  BY <1>5, OperationCarries
<1>6. CASE \/ RmPeersEnds(t) \/ PeersEnds(t) \/ WithdrawEnds(t)
           \/ RoutesEnds(t) \/ CompareRoutes(t) \/ Refresh(t) \/ CastEnds(t)
  BY <1>6, LoopEndsCarries
<1> QED  BY <1>1, <1>2, <1>3, <1>4, <1>5, <1>6 DEF ThreadStep

\* No handler takes over a thread that has a speaker.
LEMMA HandlerStartsCarries ==
    ASSUME TypeOK, HandlerStarts
    PROVE  Carries("handler")
<1>1. PICK m \in inbox :
          \/ CreateEnd(m) \/ CallServerFails(m)
          \/ RemoveEnd(m) \/ OutOfSync(m)
          \/ AssociationEnd(m) \/ DisassociationEnd(m)
          \/ AdvertisementEnd(m) \/ WithdrawalEnd(m)
  BY DEF HandlerStarts
<1>2. /\ pc["handler"] = "idle" /\ "handler" \in Threads
      /\ UNCHANGED <<needsFull, sync>>
      /\ needsResync \subseteq needsResync'
  BY <1>1 DEF CreateEnd, CallServerFails, RemoveEnd, OutOfSync, Process,
     AssociationEnd, DisassociationEnd, AdvertisementEnd, WithdrawalEnd,
     Receive, agentVars, threadVars, ScheduleResync, Threads
<1>3. \A s : ~Configuring("handler", s)
  BY <1>2, NoJobAt DEF Configuring
<1>4. \A u \in Threads : u # "handler" => pc'[u] = pc[u] /\ job'[u] = job[u]
  <2>1. CASE CreateEnd(m)
    BY <1>2, <2>1, OnlyMoves DEF CreateEnd
  <2>2. CASE RemoveEnd(m)
    BY <1>2, <2>2, OnlyMoves
       DEF RemoveEnd, RemoveSpeaker, TypeOK, ThreadTypeOK
  <2>3. CASE \E op, where : Process(m, op, where)
    BY <1>2, <2>3, OnlyMoves DEF Process
  <2>4. CASE CallServerFails(m) \/ OutOfSync(m)
    BY <2>4 DEF CallServerFails, OutOfSync, threadVars
  <2> QED
    BY <1>1, <2>1, <2>2, <2>3, <2>4
       DEF AssociationEnd, DisassociationEnd, AdvertisementEnd, WithdrawalEnd
<1>5. /\ DOMAIN cache' \subseteq DOMAIN cache
      /\ \A s \in DOMAIN cache' : s \in abandoned => s \in abandoned'
  <2>1. CASE RemoveEnd(m)
    BY <2>1 DEF RemoveEnd, RemoveSpeaker, DropKey
  <2>2. CASE ~RemoveEnd(m)
    BY <1>1, <2>2 DEF CreateEnd, CallServerFails, OutOfSync, Process,
       AssociationEnd, DisassociationEnd, AdvertisementEnd, WithdrawalEnd,
       agentVars
  <2> QED  BY <2>1, <2>2
<1> QED  BY <1>2, <1>3, <1>4, <1>5 DEF Carries, SyncGoesOn

\* The removal of a stale speaker touches no other.
LEMMA RemoveStaleCarries ==
    ASSUME TypeOK, NEW s \in Speakers, RemoveStale(s)
    PROVE  Carries("sync")
<1>1. "sync" \in Threads /\ At("sync", "stale")
  BY DEF Threads, RemoveStale
<1>2. \A x : ~Configuring("sync", x)
  BY <1>1, NoJobAt DEF Configuring
<1>3. /\ pc'["sync"] = "stale" /\ pc["sync"] = "stale"
      /\ \A u \in Threads : u # "sync" => pc'[u] = pc[u] /\ job'[u] = job[u]
  BY <1>1, OnlyMoves
     DEF RemoveStale, RemoveSpeaker, At, TypeOK, ThreadTypeOK
<1>4. /\ DOMAIN cache' = DOMAIN cache \ {s} /\ abandoned' = abandoned \ {s}
      /\ UNCHANGED <<needsResync, needsFull, sync>>
  BY DEF RemoveStale, RemoveSpeaker, DropKey
<1> QED  BY <1>2, <1>3, <1>4 DEF Carries, SyncGoesOn

\* A sync that fails between two speakers schedules a full resync.
LEMMA SyncAborts ==
    ASSUME TypeOK, IterationFails \/ FetchSpeakersFails
    PROVE  Carries("sync")
<1>1. "sync" \in Threads
  BY DEF Threads
<1>2. \A s : ~Configuring("sync", s)
  BY <1>1, NoJobAt DEF Configuring, IterationFails, FetchSpeakersFails
<1> QED  BY <1>1, <1>2, AbortCarries DEF IterationFails, FetchSpeakersFails

\* The periodic task between two speakers.
LEMMA SyncStepRefreshes ==
    ASSUME RefreshInv,
           \/ ReadReasons \/ ResetReasons \/ FetchSpeakers \/ IterateCache
           \/ IterationEnds \/ SyncEnds
           \/ \E s \in Speakers : KeepHosted(s)
    PROVE  RefreshGoesOn' /\ SeenOK'
<1>1. /\ UNCHANGED <<cache, abandoned>> /\ UNCHANGED job
      /\ "sync" \in Threads /\ TypeOK /\ sync \in SyncRecords
      /\ DOMAIN pc = Threads
  BY DEF ReadReasons, ResetReasons, FetchSpeakers, IterateCache, IterationEnds,
     SyncEnds, KeepHosted, agentVars, auxVars, Threads, RefreshInv, TypeOK,
     SyncTypeOK, ThreadTypeOK
<1>2. SUFFICES /\ SeenOK'
               /\ \A s \in DOMAIN cache :
                     s \in needsResync \/ Due(s) => s \in needsResync' \/ Due(s)'
  <2>1. /\ \A s : ~Configuring("sync", s)
        /\ pc'["handler"] = pc["handler"]
    BY <1>1, NoJobAt
       DEF ReadReasons, ResetReasons, FetchSpeakers, IterateCache,
           IterationEnds, SyncEnds, KeepHosted, Configuring, Threads, Goto
  <2>2. \A s : Configuring("handler", s) => Configuring("handler", s)'
    BY <1>1, <2>1 DEF Configuring
  <2>3. ASSUME NEW s \in DOMAIN cache, s \notin abandoned,
               s \in needsResync \/ Due(s) => s \in needsResync' \/ Due(s)'
        PROVE  Attended(s)'
    <3>1. Attended(s)
      BY <2>3 DEF RefreshInv, RefreshGoesOn
    <3>2. s \in needsResync' \/ Due(s)' \/ Configuring("handler", s)'
      BY <2>1, <2>2, <2>3, <3>1, AttendedSplit DEF Threads
    <3> QED  BY <3>2 DEF Attended, Due, Threads
  <2> QED  BY <1>1, <2>3 DEF RefreshGoesOn
<1> USE <1>1 DEF SeenOK, Due, FullScheduled, ToVisit, Selected, ResyncAll,
                 SnapIds, SyncRecords, Goto
<1>3. CASE ReadReasons
  BY <1>3 DEF ReadReasons, RefreshInv, agentVars
<1>4. CASE ResetReasons
  BY <1>4 DEF ResetReasons, RefreshInv
<1>5. CASE FetchSpeakers
  BY <1>5 DEF FetchSpeakers, RefreshInv, agentVars
<1>6. CASE IterateCache
  BY <1>6 DEF IterateCache, RefreshInv, agentVars
<1>7. CASE IterationEnds
  BY <1>7 DEF IterationEnds, RefreshInv, agentVars
<1>8. CASE SyncEnds
  BY <1>8 DEF SyncEnds, RefreshInv, agentVars, NoSync
<1>9. ASSUME NEW s \in Speakers, KeepHosted(s)
      PROVE  SeenOK' /\ \A x \in DOMAIN cache :
                x \in needsResync \/ Due(x) => x \in needsResync' \/ Due(x)'
  BY <1>9 DEF KeepHosted, RefreshInv, agentVars, At
<1> QED  BY <1>3, <1>4, <1>5, <1>6, <1>7, <1>8, <1>9

\* A visit turns the owed refresh of a speaker into the work of the thread.
LEMMA VisitRefreshes ==
    ASSUME RefreshInv, NEW bs \in sync.snap, VisitHosted(bs)
    PROVE  RefreshGoesOn' /\ SeenOK'
<1>1. /\ TypeOK /\ "sync" \in Threads /\ pc["sync"] = "each"
      /\ UNCHANGED <<cache, needsResync, needsFull, abandoned>>
      /\ sync \in SyncRecords
      /\ sync' = [sync EXCEPT !.snap = @ \ {bs}]
  BY DEF RefreshInv, VisitHosted, Threads, agentVars, auxVars, TypeOK,
         SyncTypeOK
<1>2. /\ pc'["sync"] \in {"rmpeers", "put"}
      /\ pc'["handler"] = pc["handler"] /\ job'["handler"] = job["handler"]
  BY <1>1, OnlyMoves DEF VisitHosted, Threads
<1>3. bs.id \in DOMAIN cache => Configuring("sync", bs.id)'
  <2> DEFINE todo == cache[bs.id].peers \ bs.peers
  <2> SUFFICES ASSUME bs.id \in DOMAIN cache
               PROVE  Configuring("sync", bs.id)'
    OBVIOUS
  <2>1. Enter("sync", "rmpeers", "refresh", bs, todo)
    BY DEF VisitHosted, Cached
  <2>2. pc'["sync"] = "rmpeers" /\ job'["sync"] = Job("refresh", bs, todo)
    <3> HIDE DEF todo
    <3> QED  BY <1>1, <2>1, OnlyMoves
  <2> QED  BY <2>2 DEF Job, Configuring
<1>4. \A s : ~Configuring("sync", s)
  BY <1>1, NoJobAt DEF Configuring
<1>5. /\ FullScheduled' = FullScheduled
      /\ \A s : s # bs.id /\ ToVisit(s) => ToVisit(s)'
  BY <1>1, <1>2
     DEF FullScheduled, ToVisit, Selected, ResyncAll, SnapIds, SyncRecords
<1>6. ASSUME NEW s \in DOMAIN cache, s \notin abandoned
      PROVE  Attended(s)'
  <2>1. CASE s = bs.id
    BY <1>3, <1>6, <2>1 DEF Attended, Threads
  <2>2. CASE s # bs.id
    <3>1. Attended(s)
      BY <1>6 DEF RefreshInv, RefreshGoesOn
    <3>2. s \in needsResync \/ FullScheduled \/ ToVisit(s)
          \/ Configuring("handler", s)
      BY <1>1, <1>4, <3>1 DEF Attended, Threads
    <3>3. Configuring("handler", s) => Configuring("handler", s)'
      BY <1>2 DEF Configuring
    <3> QED  BY <1>1, <1>5, <2>2, <3>2, <3>3 DEF Attended, Threads
  <2> QED  BY <2>1, <2>2
<1>7. SeenOK'
  BY <1>2 DEF SeenOK
<1> QED  BY <1>1, <1>6, <1>7 DEF RefreshGoesOn

\* The server, the network and the host leave the refresh going.
LEMMA EnvironmentRefreshes ==
    ASSUME RefreshInv,
           \/ Server \/ AgentRevived \/ (\E n \in notices : AgentUpdated(n))
           \/ LoseCast \/ LoseNotice \/ Restart
           \/ UNCHANGED vars
    PROVE  RefreshGoesOn' /\ SeenOK'
<1>1. CASE Restart
  BY <1>1 DEF Restart, RefreshGoesOn, SeenOK, NoSync
<1>2. CASE AgentRevived \/ \E n \in notices : AgentUpdated(n)
  <2>1. UNCHANGED <<cache, needsResync, pc, job, sync, abandoned>> /\ needsFull'
    BY <1>2 DEF AgentRevived, AgentUpdated, threadVars, auxVars
  <2>2. SeenOK'
    BY <2>1 DEF RefreshInv, SeenOK, SnapIds
  <2>3. \A s : Attended(s) => Attended(s)'
    BY <2>1 DEF Attended, FullScheduled, ToVisit, Selected, ResyncAll, SnapIds,
                Configuring
  <2> QED  BY <2>1, <2>2, <2>3 DEF RefreshInv, RefreshGoesOn
<1>3. CASE Server \/ LoseCast \/ LoseNotice \/ UNCHANGED vars
  <2>1. UNCHANGED <<cache, needsResync, needsFull, pc, job, sync, abandoned>>
    BY <1>3
       DEF Server, LoseCast, LoseNotice, vars, threadVars, auxVars, agentVars
  <2>2. SeenOK'
    BY <2>1 DEF RefreshInv, SeenOK, SnapIds
  <2>3. \A s : Attended(s) => Attended(s)'
    BY <2>1 DEF Attended, FullScheduled, ToVisit, Selected, ResyncAll, SnapIds,
                Configuring
  <2> QED  BY <2>1, <2>2, <2>3 DEF RefreshInv, RefreshGoesOn
<1> QED  BY <1>1, <1>2, <1>3

\* The inductive invariant holds after every step.
LEMMA NextRefreshes ==
    ASSUME RefreshInv, [Next]_vars
    PROVE  RefreshInv'
<1>1. TypeOK /\ TypeOK'
  BY NextType DEF RefreshInv
<1>2. Threads = {"sync", "handler"}
  BY DEF Threads
<1> SUFFICES RefreshGoesOn' /\ SeenOK'
  BY <1>1 DEF RefreshInv
<1>3. CASE SyncState
  <2>1. CASE \/ ReadReasons \/ ResetReasons \/ FetchSpeakers \/ IterateCache
             \/ IterationEnds \/ SyncEnds
             \/ \E s \in Speakers : KeepHosted(s)
    BY <2>1, SyncStepRefreshes
  <2>2. CASE \/ IterationFails \/ ThreadStep("sync")
             \/ \E s \in Speakers : RemoveStale(s)
    <3>1. Carries("sync")
      BY <1>1, <1>2, <2>2, SyncAborts, ThreadStepCarries, RemoveStaleCarries
    <3> QED  BY <1>2, <3>1, CarriesOn
  <2>3. CASE \E bs \in sync.snap : VisitHosted(bs)
    BY <2>3, VisitRefreshes
  <2> QED  BY <1>3, <2>1, <2>2, <2>3 DEF SyncState
<1>4. CASE Handler
  <2>1. Carries("handler")
    BY <1>1, <1>2, <1>4, HandlerStartsCarries, ThreadStepCarries DEF Handler
  <2> QED  BY <1>2, <2>1, CarriesOn
<1>5. CASE FetchSpeakersFails
  <2>1. Carries("sync")
    BY <1>1, <1>5, SyncAborts
  <2> QED  BY <1>2, <2>1, CarriesOn
<1>6. CASE \/ Server \/ AgentRevived \/ (\E n \in notices : AgentUpdated(n))
           \/ LoseCast \/ LoseNotice \/ Restart \/ UNCHANGED vars
  BY <1>6, EnvironmentRefreshes
<1> QED  BY <1>3, <1>4, <1>5, <1>6 DEF Next, Environment

\* The chain of refreshes of a cached speaker (bgp_dragent.py:124 and 365)
\* breaks only at the early return on a driver that runs the AS already,
\* whatever the two threads interleave, whatever the server, the driver and the
\* network do, and for any number of speakers, peers and routes.
THEOREM RefreshForever == Spec => []RefreshGoesOn
<1>1. Init => RefreshInv
  BY InitType
     DEF Init, RefreshInv, RefreshGoesOn, SeenOK, NoSync
<1>2. RefreshInv /\ [Next]_vars => RefreshInv'
  BY NextRefreshes
<1>3. RefreshInv => RefreshGoesOn
  BY DEF RefreshInv
<1> QED  BY <1>1, <1>2, <1>3, PTL DEF Spec
=============================================================================
