--------------------------- MODULE BgpPeeringProofs ---------------------------
(***************************************************************************)
(* Proofs about BgpPeering, for any number of peers, agents and workers:   *)
(* its types, and that agents learn of peers without waiting for a sync.   *)
(***************************************************************************)
EXTENDS BgpPeering, TLAPS

-----------------------------------------------------------------------------
\* An idle worker is well formed.
LEMMA IdleWorks == Idle \in Works
  BY ValueAssumption DEF Idle, Works, PeerOps

\* What the database says of a peer is a configuration.
LEMMA ConfigTyped ==
  ASSUME TypeOK, NEW p \in Peers
  PROVE  Config(p) \in Configs
  BY DEF TypeOK, Config, Configs

\* So is what it says of each peer of the speaker.
LEMMA BoundTyped ==
  ASSUME TypeOK
  PROVE  Bound \in SUBSET Configs
  BY ConfigTyped DEF Bound, TypeOK

\* A call opens the job it is given.
LEMMA CallTypes ==
  ASSUME TypeOK, NEW w \in Workers, NEW op, NEW job \in Works, Call(w, op, job)
  PROVE  work' \in [Workers -> Works] /\ changes' \in 0 .. MaxChanges
  BY ValueAssumption DEF Call, Change, TypeOK

\* A worker that goes on is done, or keeps its job.
LEMMA ContinueTypes ==
  ASSUME TypeOK, NEW w \in Workers, NEW place, Continue(w, place),
         \/ place = "idle"
         \/ place = "hosts" /\ work[w].op = "associate"
         \/ place = "tell" /\ work[w].op # "none"
  PROVE  work' \in [Workers -> Works]
<1>1. work[w] \in Works
  BY DEF TypeOK
<1>2. place # "idle" => [work[w] EXCEPT !.place = place] \in Works
  BY <1>1 DEF Works
<1> QED BY <1>1, <1>2, IdleWorks DEF Continue, TypeOK

\* An agent adds only peers it is given.
LEMMA AdditionsTyped ==
  ASSUME NEW old, NEW bs \in SUBSET Configs, NEW scheduled,
         NEW F \in Additions(old, bs, scheduled)
  PROVE  F \subseteq Configs
  BY DEF Additions

\* So does a loop over peers.
LEMMA LearnTypes ==
  ASSUME TypeOK, NEW a \in Agents, NEW old \in SUBSET Configs,
         NEW bs \in SUBSET Configs, Learn(a, old, bs)
  PROVE  /\ known' \in [Agents -> SUBSET Configs]
         /\ cached' \subseteq Agents
         /\ due' \subseteq Agents
         /\ late' \subseteq Agents
<1>1. PICK F \in Additions(old, bs, a \in due) :
        known' = [known EXCEPT ![a] = old \cup F]
  BY DEF Learn
<1>2. F \subseteq Configs
  BY AdditionsTyped
<1>3. known' \in [Agents -> SUBSET Configs]
  BY <1>1, <1>2 DEF TypeOK
<1> QED BY <1>3 DEF Learn, TypeOK

\* Calls about peers keep the types.
LEMMA PeerCallTypes ==
  ASSUME TypeOK, PeerCall
  PROVE  TypeOK'
<1>1. changes' \in 0 .. MaxChanges
  BY ValueAssumption DEF PeerCall, CreatePeer, UpdatePeer, DeletePeer, QuietCall,
                         Change, TypeOK
<1>2. CASE \E p \in Peers, pw \in Passwords \cup {None} : CreatePeer(p, pw)
  BY <1>1, <1>2 DEF TypeOK, CreatePeer, QuietCall, agentVars
<1>3. CASE \E p \in Peers, pw \in Passwords \cup {None} : UpdatePeer(p, pw)
  BY <1>1, <1>3 DEF TypeOK, UpdatePeer, QuietCall, agentVars
<1>4. CASE \E p \in Peers : DeletePeer(p)
  BY <1>1, <1>4 DEF TypeOK, DeletePeer, QuietCall, agentVars
<1> QED BY <1>2, <1>3, <1>4 DEF PeerCall

\* So do the calls that open a job,
LEMMA ApiCallTypes ==
  ASSUME TypeOK, NEW w \in Workers, ApiCall(w)
  PROVE  TypeOK'
<1>1. CASE \E p \in Peers : AddPeer(w, p)
  <2> PICK p \in Peers : AddPeer(w, p)
    BY <1>1
  <2>1. Job("insert", "associate", p, {}) \in Works
    BY DEF Job, Works, PeerOps, TypeOK
  <2> QED BY <2>1, CallTypes DEF AddPeer, TypeOK, peerVars, agentVars
<1>2. CASE \E p \in Peers : RemovePeer(w, p)
  <2> PICK p \in Peers : RemovePeer(w, p)
    BY <1>2
  <2>1. Job("delete", "disassociate", p, hosts) \in Works
    BY DEF Job, Works, PeerOps, TypeOK
  <2> QED BY <2>1, CallTypes DEF RemovePeer, TypeOK, peerVars, agentVars
<1>3. CASE \E a \in Agents : Host(w, a)
  <2> PICK a \in Agents : Host(w, a)
    BY <1>3
  <2>1. Job("tell", "create", None, {a}) \in Works
    BY DEF Job, Works, PeerOps, TypeOK
  <2> QED BY <2>1, CallTypes DEF Host, TypeOK, peerVars, agentVars
<1>4. CASE \E a \in Agents : Unhost(w, a)
  <2> PICK a \in Agents : Unhost(w, a)
    BY <1>4
  <2>1. Job("tell", "remove", None, {a}) \in Works
    BY DEF Job, Works, PeerOps, TypeOK
  <2> QED BY <2>1, CallTypes DEF Unhost, TypeOK, peerVars
<1>5. CASE \E a \in Agents : Move(w, a)
  <2> PICK a \in Agents : Move(w, a)
    BY <1>5
  <2>1. Job("move", "create", None, {a}) \in Works
    BY DEF Job, Works, PeerOps, TypeOK
  <2>2. casts' \subseteq Casts
    BY DEF Move, TypeOK, Casts, PeerOps
  <2> QED BY <2>1, <2>2, CallTypes DEF Move, TypeOK, peerVars, agentVars
<1> QED BY <1>1, <1>2, <1>3, <1>4, <1>5 DEF ApiCall

\* the steps of a worker,
LEMMA WorkerTypes ==
  ASSUME TypeOK, NEW w \in Workers, Step(w)
  PROVE  TypeOK'
<1>0. work[w] \in Works
  BY DEF TypeOK
<1>1. CASE Insert(w)
  <2>1. work[w].op = "associate" /\ work[w].peer \in Peers
    BY <1>0, <1>1 DEF Works, Insert, PeerOps
  <2> QED BY <1>1, <2>1, ContinueTypes DEF Insert, TypeOK, agentVars
<1>2. CASE ReadHosts(w)
  <2>1. [work[w] EXCEPT !.place = "tell", !.tell = hosts] \in Works
    BY <1>0, <1>2 DEF Works, ReadHosts, TypeOK
  <2>2. work' \in [Workers -> Works]
    BY <1>2, <2>1 DEF ReadHosts, TypeOK
  <2> QED BY <1>2, <2>2 DEF ReadHosts, TypeOK, peerVars, agentVars
<1>3. CASE Delete(w)
  <2>1. work[w].op # "none"
    BY <1>0, <1>3 DEF Works, Delete
  <2> QED BY <1>3, <2>1, ContinueTypes DEF Delete, TypeOK, agentVars
<1>4. CASE Tell(w)
  <2>1. \A a \in work[w].tell : Message(w, a) \in Casts
    BY <1>0, <1>4 DEF Works, Tell, Message, Casts
  <2> QED BY <1>4, <2>1, ContinueTypes DEF Tell, TypeOK, peerVars, agentVars
<1>5. CASE \E a \in hosts : MoveCommits(w, a)
  <2>1. work[w].tell \subseteq Agents
    BY <1>0 DEF Works
  <2> QED BY <1>5, <2>1, ContinueTypes DEF MoveCommits, TypeOK, peerVars
<1>6. CASE MoveFails(w)
  BY <1>6, ContinueTypes DEF MoveFails, TypeOK, peerVars, agentVars
<1> QED BY <1>1, <1>2, <1>3, <1>4, <1>5, <1>6 DEF Step

\* the handlers of an agent,
LEMMA HandlerTypes ==
  ASSUME TypeOK, NEW a \in Agents, Handle(a)
  PROVE  TypeOK'
<1>1. CASE AddSpeaker(a)
  <2>1. CASE a \in cached
    BY <1>1, <2>1 DEF AddSpeaker, TypeOK, serverVars, peerVars
  <2>2. CASE a \notin cached
    <3>1. fetched[a][1] \in SUBSET Configs
      BY <1>1 DEF AddSpeaker, TypeOK
    <3>2. Learn(a, {}, fetched[a][1])
      BY <1>1, <2>2 DEF AddSpeaker
    <3> QED BY <1>1, <3>1, <3>2, LearnTypes
            DEF AddSpeaker, TypeOK, serverVars, peerVars
  <2> QED BY <2>1, <2>2
<1>2. ASSUME NEW m \in casts, m.agent = a
      PROVE  FetchSpeaker(m) \/ RemoveSpeaker(m) \/ AssociatePeer(m)
                \/ DisassociatePeer(m) => TypeOK'
  <2>0. m \in Casts
    BY DEF TypeOK
  <2>1. CASE FetchSpeaker(m)
    BY <1>2, <2>1, BoundTyped
       DEF FetchSpeaker, Receive, TypeOK, serverVars, peerVars
  <2>2. CASE RemoveSpeaker(m)
    BY <1>2, <2>2 DEF RemoveSpeaker, Receive, TypeOK, serverVars, peerVars
  <2>3. CASE AssociatePeer(m)
    <3>1. Config(m.peer) \in Configs
      BY <2>0, <2>3, ConfigTyped DEF AssociatePeer, Receive, Casts, PeerOps
    <3> QED BY <1>2, <2>3, <3>1
            DEF AssociatePeer, Receive, TypeOK, serverVars, peerVars
  <2>4. CASE DisassociatePeer(m)
    BY <1>2, <2>4 DEF DisassociatePeer, Receive, TypeOK, serverVars, peerVars
  <2> QED BY <2>1, <2>2, <2>3, <2>4
<1> QED BY <1>1, <1>2 DEF Handle

\* and its syncs.
LEMMA SyncTypes ==
  ASSUME TypeOK, NEW a \in Agents, Sync(a)
  PROVE  TypeOK'
<1>1. CASE SyncFetches(a)
  BY <1>1, BoundTyped
     DEF SyncFetches, SyncStarts, Replies, TypeOK, serverVars, peerVars
<1>2. CASE SyncRemoves(a)
  BY <1>2 DEF SyncRemoves, SyncEnds, TypeOK, serverVars, peerVars
<1>3. CASE SyncPeers(a)
  <2> DEFINE bs == reply[a][1]
             kept == {c \in known[a] : AddressOf[c.peer] \in Addresses(bs)}
  <2>1. kept \subseteq Configs
    BY DEF TypeOK
  <2>2. bs \subseteq Configs
    BY <1>3 DEF SyncPeers, Refreshing, Replies, TypeOK
  <2>3. Learn(a, kept, bs)
    BY <1>3 DEF SyncPeers
  <2> HIDE DEF kept, bs
  <2>4. /\ known' \in [Agents -> SUBSET Configs]
        /\ cached' \subseteq Agents
        /\ due' \subseteq Agents
        /\ late' \subseteq Agents
    BY <2>1, <2>2, <2>3, LearnTypes
  <2> QED BY <1>3, <2>4 DEF SyncPeers, SyncEnds, TypeOK, serverVars, peerVars
<1> QED BY <1>1, <1>2, <1>3 DEF Sync

\* So does every step.
LEMMA StepTypes == TypeOK /\ [Next]_vars => TypeOK'
<1> SUFFICES ASSUME TypeOK, [Next]_vars
             PROVE  TypeOK'
  OBVIOUS
<1>1. CASE \E m \in casts : CallTimesOut(m)
  <2> PICK m \in casts : CallTimesOut(m)
    BY <1>1
  <2>1. m.agent \in Agents
    BY DEF TypeOK, Casts
  <2>2. changes' \in 0 .. MaxChanges
    BY ValueAssumption DEF CallTimesOut, Change, TypeOK
  <2> QED BY <2>1, <2>2 DEF CallTimesOut, TypeOK, serverVars, peerVars
<1>3. CASE \E a \in Agents : SyncTimesOut(a)
  BY <1>3, ValueAssumption
     DEF SyncTimesOut, SyncStarts, Change, TypeOK, serverVars, peerVars
<1>2. CASE UNCHANGED vars
  BY <1>2 DEF vars, serverVars, peerVars, agentVars, TypeOK
<1> QED BY <1>1, <1>2, <1>3, PeerCallTypes, ApiCallTypes, WorkerTypes, HandlerTypes,
           SyncTypes DEF Next

\* Types hold for any number of peers, agents and workers.
THEOREM PeeringTypes == Spec => []TypeOK
<1>1. Init => TypeOK
  BY IdleWorks, ValueAssumption DEF Init, TypeOK
<1> QED BY <1>1, StepTypes, PTL DEF Spec

-----------------------------------------------------------------------------
\* An agent is about to be told of a peer.
Coming(a, p) ==
    \/ \E w \in Workers :
          /\ work[w].op = "associate"
          /\ work[w].peer = p
          /\ \/ work[w].place = "hosts"
             \/ work[w].place = "tell" /\ a \in work[w].tell
    \/ \E m \in casts : m.op = "associate" /\ m.peer = p /\ m.agent = a

\* What an agent has learnt, or will learn from what it fetched: a sync leaves
\* it with the addresses of its reply, whatever the agent has learnt meanwhile.
Learnt(a, p) ==
    IF Refreshing(a)
      THEN AddressOf[p] \in Addresses(reply[a][1])
      ELSE /\ a \in cached => AddressOf[p] \in Addresses(known[a])
           /\ fetched[a] # None /\ (a \notin cached \/ reply[a] = <<>>)
                 => AddressOf[p] \in Addresses(fetched[a][1])

\* An agent that learns of the speaker without being bound waits for a sync.
Waits ==
    \A a \in Agents \ hosts :
        a \in cached \/ fetched[a] # None \/ Refreshing(a) => a \in late

Told == \A a \in hosts \ late, p \in peerings : Coming(a, p) \/ Learnt(a, p)

ToldInv == TypeOK /\ Waits /\ Told

\* The step of a worker that has nobody to tell of a peer leaves what is coming.
LEMMA ComingKept ==
  ASSUME NEW w \in Workers, NEW a, NEW p, Coming(a, p), casts \subseteq casts',
         \A v \in Workers \ {w} : work'[v] = work[v],
         \/ work[w].op # "associate"
         \/ work[w].place \notin {"hosts", "tell"}
  PROVE  Coming(a, p)'
  BY DEF Coming

\* An agent that is not bound, and does not wait, knows nothing yet.
LEMMA LearntByNewHost ==
  ASSUME Waits, NEW a \in Agents \ (hosts \cup late), NEW p,
         UNCHANGED <<cached, known, fetched, reply>>
  PROVE  Learnt(a, p)'
  BY DEF Waits, Learnt, Refreshing

\* A peer of the speaker has an address among those of the speaker.
LEMMA BoundAddress ==
  ASSUME NEW p \in peerings
  PROVE  AddressOf[p] \in Addresses(Bound)
<1>1. Config(p) \in Bound /\ Config(p).peer = p
  BY DEF Bound, Config
<1> QED BY <1>1 DEF Addresses

\* Calls about peers add no peer to the speaker: nothing new is to be told.
LEMMA PeerCallTold ==
  ASSUME ToldInv, PeerCall
  PROVE  Waits' /\ Told'
<1>1. peerings' \subseteq peerings /\ UNCHANGED <<hosts, work, casts, agentVars>>
  BY DEF PeerCall, CreatePeer, UpdatePeer, DeletePeer, QuietCall
<1> QED BY <1>1 DEF ToldInv, Waits, Told, Coming, Learnt, Refreshing, agentVars,
               Addresses

\* A call that opens a job takes nothing from what an agent will learn.
LEMMA ApiCallTold ==
  ASSUME ToldInv, NEW w \in Workers, ApiCall(w)
  PROVE  Waits' /\ Told'
<1>0. work[w].op # "associate"
  <2>1. work[w] = Idle
    BY DEF ApiCall, AddPeer, RemovePeer, Host, Unhost, Move, Call
  <2> QED BY <2>1 DEF Idle
<1>1. \A v \in Workers \ {w} : work'[v] = work[v]
  BY DEF ApiCall, AddPeer, RemovePeer, Host, Unhost, Move, Call, ToldInv, TypeOK
<1>2. casts \subseteq casts' /\ peerings' = peerings
  BY DEF ApiCall, AddPeer, RemovePeer, Host, Unhost, Move, peerVars
<1>3. UNCHANGED <<cached, known, fetched, reply>> /\ late \subseteq late'
  BY DEF ApiCall, AddPeer, RemovePeer, Host, Unhost, Move, agentVars
<1>4. \A a \in Agents \ hosts' : a \in hosts => a \in late'
  BY DEF ApiCall, AddPeer, RemovePeer, Host, Unhost, Move
<1>5. hosts' \subseteq Agents
  BY ApiCallTypes DEF ToldInv, TypeOK
<1>6. Waits'
  BY <1>3, <1>4 DEF ToldInv, Waits, Refreshing
<1>7. ASSUME NEW a \in hosts' \ late', NEW p \in peerings'
      PROVE  Coming(a, p)' \/ Learnt(a, p)'
  <2>1. CASE a \notin hosts
    BY <1>3, <1>5, <1>7, <2>1, LearntByNewHost DEF ToldInv
  <2>2. CASE a \in hosts
    <3>1. Coming(a, p) \/ Learnt(a, p)
      BY <1>2, <1>3, <1>7, <2>2 DEF ToldInv, Told
    <3>2. Coming(a, p) => Coming(a, p)'
      BY <1>0, <1>1, <1>2, ComingKept
    <3>3. Learnt(a, p) => Learnt(a, p)'
      BY <1>3 DEF Learnt, Refreshing, Addresses
    <3> QED BY <3>1, <3>2, <3>3
  <2> QED BY <2>1, <2>2
<1> QED BY <1>6, <1>7 DEF Told

\* A worker hands on what it has to tell: from its job to casts.
LEMMA WorkerTold ==
  ASSUME ToldInv, NEW w \in Workers, Step(w)
  PROVE  Waits' /\ Told'
<1>0. work[w] \in Works /\ work \in [Workers -> Works]
  BY DEF ToldInv, TypeOK
<1>1. \A v \in Workers \ {w} : work'[v] = work[v]
  BY <1>0 DEF Step, Insert, ReadHosts, Delete, Tell, MoveCommits, MoveFails, Continue
<1>2. casts \subseteq casts'
  BY DEF Step, Insert, ReadHosts, Delete, Tell, MoveCommits, MoveFails
<1>3. UNCHANGED <<cached, known, fetched, reply>> /\ late \subseteq late'
  BY DEF Step, Insert, ReadHosts, Delete, Tell, MoveCommits, MoveFails, agentVars
<1>4. \A a \in hosts \ hosts' : a \in late'
  BY DEF Step, Insert, ReadHosts, Delete, Tell, MoveCommits, MoveFails
<1>5. hosts' \subseteq Agents
  BY WorkerTypes DEF ToldInv, TypeOK
<1>6. Waits'
  BY <1>3, <1>4 DEF ToldInv, Waits, Refreshing
<1>7. ASSUME NEW a \in hosts' \ late', NEW p \in peerings'
      PROVE  Coming(a, p)' \/ Learnt(a, p)'
  <2>1. CASE a \notin hosts
    BY <1>3, <1>5, <1>7, <2>1, LearntByNewHost DEF ToldInv
  <2>2. CASE p \notin peerings
    <3>1. Insert(w) /\ p = work[w].peer /\ Continue(w, "hosts")
      BY <1>7, <2>2 DEF Step, Insert, ReadHosts, Delete, Tell, MoveCommits,
                        MoveFails, peerVars
    <3>2. work[w].op = "associate"
      BY <1>0, <3>1 DEF Insert, Works
    <3>3. /\ work'[w].op = "associate"
          /\ work'[w].peer = p
          /\ work'[w].place = "hosts"
      BY <1>0, <3>1, <3>2 DEF Continue, Works
    <3> QED BY <3>3 DEF Coming
  <2>3. CASE a \in hosts /\ p \in peerings
    <3>1. Coming(a, p) \/ Learnt(a, p)
      BY <1>3, <1>7, <2>3 DEF ToldInv, Told
    <3>2. Learnt(a, p) => Learnt(a, p)'
      BY <1>3 DEF Learnt, Refreshing, Addresses
    <3>3. ASSUME Coming(a, p)
          PROVE  Coming(a, p)'
      <4>1. CASE work[w].op # "associate" \/ work[w].place \notin {"hosts", "tell"}
        BY <1>1, <1>2, <3>3, <4>1, ComingKept
      <4>2. CASE work[w].op = "associate" /\ work[w].place = "hosts"
        <5>1. ReadHosts(w)
          BY <4>2 DEF Step, Insert, Delete, Tell, MoveCommits, MoveFails
        <5>2. /\ work'[w].op = "associate"
              /\ work'[w].peer = work[w].peer
              /\ work'[w].place = "tell"
              /\ work'[w].tell = hosts
          BY <1>0, <4>2, <5>1 DEF ReadHosts, Works
        <5>3. casts' = casts
          BY <5>1 DEF ReadHosts
        <5> QED BY <1>1, <2>3, <3>3, <5>2, <5>3 DEF Coming
      <4>3. CASE work[w].op = "associate" /\ work[w].place = "tell"
        <5>1. casts' = casts \cup {Message(w, b) : b \in work[w].tell}
          BY <4>3 DEF Step, Insert, ReadHosts, Delete, Tell, MoveCommits, MoveFails
        <5>2. CASE work[w].peer = p /\ a \in work[w].tell
          <6>1. Message(w, a) \in casts'
            BY <5>1, <5>2
          <6> QED BY <4>3, <5>2, <6>1 DEF Coming, Message
        <5>3. CASE ~(work[w].peer = p /\ a \in work[w].tell)
          BY <1>1, <1>2, <3>3, <4>3, <5>3 DEF Coming
        <5> QED BY <5>2, <5>3
      <4> QED BY <4>1, <4>2, <4>3
    <3> QED BY <3>1, <3>2, <3>3
  <2> QED BY <2>1, <2>2, <2>3
<1> QED BY <1>6, <1>7 DEF Told

\* What is coming for an agent is lost only when the agent receives it.
LEMMA ComingUnlessReceived ==
  ASSUME NEW m, NEW a, NEW p, Coming(a, p), work' = work, casts' = casts \ {m},
         ~(m.op = "associate" /\ m.peer = p /\ m.agent = a)
  PROVE  Coming(a, p)'
  BY DEF Coming

\* An agent that handles a cast knows the peers the cast brought, or is late.
LEMMA ReceiverTold ==
  ASSUME ToldInv, NEW b \in Agents, NEW m \in casts, m.agent = b,
         \/ FetchSpeaker(m) \/ RemoveSpeaker(m)
         \/ AssociatePeer(m) \/ DisassociatePeer(m)
  PROVE  Waits' /\ Told'
<1>0. /\ fetched[b] = None
      /\ casts' = casts \ {m}
      /\ UNCHANGED <<peerings, hosts, work, stage, reply>>
  BY DEF FetchSpeaker, RemoveSpeaker, AssociatePeer, DisassociatePeer, Receive,
         serverVars, peerVars
<1>1. \A a \in Agents \ {b} :
         /\ a \in cached' <=> a \in cached
         /\ known'[a] = known[a]
         /\ fetched'[a] = fetched[a]
         /\ a \in late' <=> a \in late
  BY DEF FetchSpeaker, RemoveSpeaker, AssociatePeer, DisassociatePeer, ToldInv,
         TypeOK
<1>2. ASSUME NEW a \in Agents \ hosts',
             a \in cached' \/ fetched'[a] # None \/ Refreshing(a)'
      PROVE  a \in late'
  <2>1. CASE a # b
    BY <1>0, <1>1, <1>2, <2>1 DEF ToldInv, Waits, Refreshing
  <2>2. CASE a = b
    BY <1>0, <1>2, <2>2 DEF FetchSpeaker, RemoveSpeaker, AssociatePeer,
          DisassociatePeer, ToldInv, Waits, Refreshing
  <2> QED BY <2>1, <2>2
<1>3. ASSUME NEW a \in hosts' \ late', NEW p \in peerings'
      PROVE  Coming(a, p)' \/ Learnt(a, p)'
  <2>0. a \in Agents /\ p \in peerings /\ a \in hosts /\ stage[p] = "live"
    BY <1>0, <1>3 DEF ToldInv, TypeOK
  <2>1. CASE a # b
    <3>1. Coming(a, p) \/ Learnt(a, p)
      BY <1>0, <1>1, <1>3, <2>0, <2>1 DEF ToldInv, Told
    <3>2. Coming(a, p) => Coming(a, p)'
      BY <1>0, <2>1, ComingUnlessReceived
    <3>3. Learnt(a, p) => Learnt(a, p)'
      BY <1>0, <1>1, <2>0, <2>1 DEF Learnt, Refreshing, Addresses
    <3> QED BY <3>1, <3>2, <3>3
  <2>2. CASE a = b /\ FetchSpeaker(m)
    <3>1. fetched'[a] = <<Bound>>
      BY <2>0, <2>2 DEF FetchSpeaker, ToldInv, TypeOK
    <3>2. AddressOf[p] \in Addresses(Bound)
      BY <2>0, BoundAddress
    <3>3. CASE a \notin cached /\ ~Refreshing(a)
      BY <1>0, <2>2, <3>1, <3>2, <3>3
         DEF FetchSpeaker, Learnt, Refreshing, Addresses
    <3>4. CASE a \in cached \/ Refreshing(a)
      <4>1. a \notin late
        BY <1>3, <2>0, <2>2, <3>4 DEF FetchSpeaker
      <4>2. Coming(a, p) \/ Learnt(a, p)
        BY <2>0, <4>1 DEF ToldInv, Told
      <4>3. m.op # "associate"
        BY <2>2 DEF FetchSpeaker, Receive
      <4>4. Coming(a, p) => Coming(a, p)'
        BY <1>0, <4>3, ComingUnlessReceived
      <4>5. Learnt(a, p) => Learnt(a, p)'
        BY <1>0, <2>2, <3>1, <3>2, <3>4
           DEF FetchSpeaker, Learnt, Refreshing, Addresses
      <4> QED BY <4>2, <4>4, <4>5
    <3> QED BY <3>3, <3>4
  <2>3. CASE a = b /\ RemoveSpeaker(m)
    <3>1. UNCHANGED <<fetched, late>> /\ a \notin cached' /\ m.op # "associate"
      BY <2>3 DEF RemoveSpeaker, Receive
    <3>2. CASE Refreshing(a)
      <4>1. Coming(a, p) \/ Learnt(a, p)
        BY <1>3, <2>0, <3>1 DEF ToldInv, Told
      <4>2. Coming(a, p) => Coming(a, p)'
        BY <1>0, <3>1, ComingUnlessReceived
      <4> QED BY <1>0, <3>2, <4>1, <4>2 DEF Learnt, Refreshing, Addresses
    <3>3. CASE ~Refreshing(a)
      BY <1>0, <2>3, <3>1, <3>3 DEF Learnt, Refreshing
    <3> QED BY <3>2, <3>3
  <2>4. CASE a = b /\ AssociatePeer(m)
    <3>1. UNCHANGED <<cached, fetched>> /\ m.op = "associate"
      BY <2>4 DEF AssociatePeer, Receive
    <3>2. a \notin late /\ ~Outdated(a, m.peer)
      BY <1>3, <2>4 DEF AssociatePeer
    <3>3. CASE m.peer = p /\ Refreshing(a)
      BY <1>0, <3>2, <3>3 DEF Outdated, Learnt, Refreshing, Addresses
    <3>4. CASE m.peer = p /\ ~Refreshing(a) /\ a \notin cached
      BY <1>0, <2>4, <3>1, <3>4 DEF Learnt, Refreshing
    <3>5. CASE m.peer = p /\ ~Refreshing(a) /\ a \in cached
      <4>1. AddressOf[p] \in Addresses(known'[a])
        <5>1. CASE AddressOf[p] \in Addresses(known[a])
          BY <2>0, <2>4, <3>5, <5>1 DEF AssociatePeer
        <5>2. CASE AddressOf[p] \notin Addresses(known[a])
          <6>1. known'[a] = known[a] \cup {Config(p)}
            BY <2>0, <2>4, <3>5, <5>2 DEF AssociatePeer, ToldInv, TypeOK
          <6> QED BY <6>1 DEF Addresses, Config
        <5> QED BY <5>1, <5>2
      <4>2. fetched'[a] = None
        BY <1>0, <2>4, <3>1
      <4> QED BY <1>0, <3>1, <3>5, <4>1, <4>2 DEF Learnt, Refreshing, Addresses
    <3>6. CASE m.peer # p
      <4>1. Coming(a, p) \/ Learnt(a, p)
        BY <2>0, <3>2 DEF ToldInv, Told
      <4>2. Coming(a, p) => Coming(a, p)'
        BY <1>0, <3>6, ComingUnlessReceived
      <4>3. known[a] \subseteq known'[a]
        BY <2>0, <2>4 DEF AssociatePeer, ToldInv, TypeOK
      <4>4. Learnt(a, p) => Learnt(a, p)'
        BY <1>0, <3>1, <4>3 DEF Learnt, Refreshing, Addresses
      <4> QED BY <4>1, <4>2, <4>4
    <3> QED BY <3>3, <3>4, <3>5, <3>6
  <2>5. CASE a = b /\ DisassociatePeer(m)
    <3>1. UNCHANGED <<cached, known, fetched, late>> /\ m.op # "associate"
      BY <2>5 DEF DisassociatePeer, Receive
    <3>2. Coming(a, p) \/ Learnt(a, p)
      BY <1>3, <2>0, <3>1 DEF ToldInv, Told
    <3>3. Coming(a, p) => Coming(a, p)'
      BY <1>0, <3>1, ComingUnlessReceived
    <3> QED BY <1>0, <3>1, <3>2, <3>3 DEF Learnt, Refreshing, Addresses
  <2> QED BY <2>1, <2>2, <2>3, <2>4, <2>5
<1> QED BY <1>2, <1>3 DEF Waits, Told

\* A step by which one agent learns, and no cast is received.
LEMMA LearnerTold ==
  ASSUME ToldInv, NEW b \in Agents,
         UNCHANGED <<peerings, hosts, work, casts>>,
         \A a \in Agents \ {b} :
            /\ a \in cached' <=> a \in cached
            /\ known'[a] = known[a]
            /\ fetched'[a] = fetched[a]
            /\ reply'[a] = reply[a]
            /\ a \in late' <=> a \in late,
         b \notin hosts =>
            (b \in cached' \/ fetched'[b] # None \/ Refreshing(b)' => b \in late'),
         b \in hosts \ late' =>
            \A p \in peerings : Coming(b, p) \/ Learnt(b, p)'
  PROVE  Waits' /\ Told'
<1>1. Waits'
  BY DEF ToldInv, Waits, Refreshing
<1>2. ASSUME NEW a \in hosts' \ late', NEW p \in peerings'
      PROVE  Coming(a, p)' \/ Learnt(a, p)'
  <2>0. a \in Agents /\ a \in hosts /\ p \in peerings
    BY <1>2 DEF ToldInv, TypeOK
  <2>1. Coming(a, p) => Coming(a, p)'
    BY DEF Coming
  <2>2. CASE a = b
    BY <1>2, <2>0, <2>1, <2>2
  <2>3. CASE a # b
    <3>1. Coming(a, p) \/ Learnt(a, p)
      BY <1>2, <2>0, <2>3 DEF ToldInv, Told
    <3>2. Learnt(a, p) => Learnt(a, p)'
      BY <2>0, <2>3 DEF Learnt, Refreshing, Addresses
    <3> QED BY <2>1, <3>1, <3>2
  <2> QED BY <2>2, <2>3
<1> QED BY <1>1, <1>2 DEF Told

\* A loop over peers leaves the agent with their addresses, or late.
LEMMA LearnTold ==
  ASSUME TypeOK, NEW a \in Agents, NEW old, NEW bs, Learn(a, old, bs)
  PROVE  /\ a \in cached'
         /\ late \subseteq late'
         /\ a \notin late' => Addresses(bs) \subseteq Addresses(known'[a])
         /\ \A b \in Agents \ {a} :
               /\ b \in cached' <=> b \in cached
               /\ known'[b] = known[b]
               /\ b \in late' <=> b \in late
<1>1. PICK F \in Additions(old, bs, a \in due) :
        /\ known' = [known EXCEPT ![a] = old \cup F]
        /\ late' = IF Addresses(bs) \subseteq Addresses(F \cup old)
                     THEN late ELSE late \cup {a}
  BY DEF Learn
<1>2. known'[a] = F \cup old
  BY <1>1 DEF TypeOK
<1>3. a \notin late' => Addresses(bs) \subseteq Addresses(known'[a])
  BY <1>1, <1>2
<1>4. \A b \in Agents \ {a} : known'[b] = known[b]
  BY <1>1 DEF TypeOK
<1> QED BY <1>1, <1>3, <1>4 DEF Learn

\* A creation adds the peers that were fetched, or leaves the agent late.
LEMMA AddSpeakerTold ==
  ASSUME ToldInv, NEW b \in Agents, AddSpeaker(b)
  PROVE  Waits' /\ Told'
<1>1. UNCHANGED <<peerings, hosts, work, casts, reply>>
  BY DEF AddSpeaker, serverVars, peerVars
<1>2. fetched'[b] = None /\ fetched[b] # None
  BY DEF AddSpeaker, ToldInv, TypeOK
<1>3. \A a \in Agents \ {b} : fetched'[a] = fetched[a]
  BY DEF AddSpeaker, ToldInv, TypeOK
<1>4. CASE b \in cached
  <2>1. UNCHANGED <<cached, known, late>>
    BY <1>4 DEF AddSpeaker
  <2>2. b \notin hosts => b \in late'
    BY <1>4, <2>1 DEF ToldInv, Waits
  <2>3. ASSUME b \in hosts \ late', NEW p \in peerings
        PROVE  Coming(b, p) \/ Learnt(b, p)'
    <3>1. Coming(b, p) \/ Learnt(b, p)
      BY <2>1, <2>3 DEF ToldInv, Told
    <3> QED BY <1>1, <1>2, <2>1, <3>1 DEF Learnt, Refreshing, Addresses
  <2> QED BY <1>1, <1>3, <2>1, <2>2, <2>3, LearnerTold
<1>5. CASE b \notin cached
  <2>1. Learn(b, {}, fetched[b][1])
    BY <1>5 DEF AddSpeaker
  <2>2. /\ b \in cached'
        /\ late \subseteq late'
        /\ b \notin late' =>
              Addresses(fetched[b][1]) \subseteq Addresses(known'[b])
        /\ \A a \in Agents \ {b} :
              /\ a \in cached' <=> a \in cached
              /\ known'[a] = known[a]
              /\ a \in late' <=> a \in late
    BY <2>1, LearnTold DEF ToldInv
  <2>3. b \notin hosts => b \in late'
    BY <1>2, <2>2 DEF ToldInv, Waits
  <2>4. ASSUME b \in hosts \ late', NEW p \in peerings
        PROVE  Coming(b, p) \/ Learnt(b, p)'
    <3>1. Coming(b, p) \/ Learnt(b, p)
      BY <2>2, <2>4 DEF ToldInv, Told
    <3>2. CASE Refreshing(b)
      BY <1>1, <3>1, <3>2 DEF Learnt, Refreshing, Addresses
    <3>3. CASE ~Refreshing(b) /\ Learnt(b, p)
      <4>1. AddressOf[p] \in Addresses(fetched[b][1])
        BY <1>2, <1>5, <3>3 DEF Learnt
      <4>2. AddressOf[p] \in Addresses(known'[b])
        BY <2>2, <2>4, <4>1
      <4> QED BY <1>1, <1>2, <2>2, <3>3, <4>2 DEF Learnt, Refreshing, Addresses
    <3> QED BY <3>1, <3>2, <3>3
  <2> QED BY <1>1, <1>3, <2>2, <2>3, <2>4, LearnerTold
<1> QED BY <1>4, <1>5

\* A sync leaves the agent with the addresses of its reply, or late.
LEMMA SyncTold ==
  ASSUME ToldInv, NEW b \in Agents, Sync(b)
  PROVE  Waits' /\ Told'
<1>1. UNCHANGED <<peerings, hosts, work, casts, fetched>>
  BY DEF Sync, SyncFetches, SyncStarts, SyncRemoves, SyncPeers, SyncEnds,
         serverVars, peerVars
<1>2. \A a \in Agents \ {b} : reply'[a] = reply[a]
  BY DEF Sync, SyncFetches, SyncRemoves, SyncPeers, SyncEnds, ToldInv, TypeOK
<1>3. CASE SyncFetches(b)
  <2>1. UNCHANGED <<cached, known>> /\ \A a \in Agents \ {b} : a \in late' <=> a \in late
    BY <1>3 DEF SyncFetches, SyncStarts
  <2>2. CASE b \in hosts
    <3>1. reply'[b] = <<Bound>>
      BY <1>3, <2>2 DEF SyncFetches, ToldInv, TypeOK
    <3>2. ASSUME NEW p \in peerings
          PROVE  Learnt(b, p)'
      <4>1. AddressOf[p] \in Addresses(Bound)
        BY BoundAddress
      <4>2. Refreshing(b)' /\ reply'[b][1] = Bound
        BY <3>1, BoundTyped, ValueAssumption DEF Refreshing, Replies, ToldInv
      <4> QED BY <4>1, <4>2 DEF Learnt, Addresses
    <3> QED BY <1>1, <1>2, <2>1, <2>2, <3>2, LearnerTold
  <2>3. CASE b \notin hosts
    <3>1. reply'[b] = <<>> /\ late' = late
      BY <1>3, <2>3 DEF SyncFetches, ToldInv, TypeOK
    <3>2. b \in cached' \/ fetched'[b] # None \/ Refreshing(b)' => b \in late'
      BY <1>1, <2>1, <2>3, <3>1 DEF ToldInv, Waits, Refreshing
    <3> QED BY <1>1, <1>2, <2>1, <2>3, <3>2, LearnerTold
  <2> QED BY <2>2, <2>3
<1>4. CASE SyncRemoves(b)
  <2>1. /\ reply[b] = <<>> /\ reply'[b] = None
        /\ b \notin cached' /\ late' = late
        /\ \A a \in Agents \ {b} : /\ a \in cached' <=> a \in cached
                                   /\ known'[a] = known[a]
    BY <1>4 DEF SyncRemoves, SyncEnds, ToldInv, TypeOK
  <2>2. b \notin hosts =>
           (b \in cached' \/ fetched'[b] # None \/ Refreshing(b)' => b \in late')
    BY <1>1, <2>1 DEF ToldInv, Waits, Refreshing
  <2>3. ASSUME b \in hosts \ late', NEW p \in peerings
        PROVE  Coming(b, p) \/ Learnt(b, p)'
    <3>1. Coming(b, p) \/ Learnt(b, p)
      BY <2>1, <2>3 DEF ToldInv, Told
    <3> QED BY <1>1, <2>1, <3>1 DEF Learnt, Refreshing, Addresses
  <2> QED BY <1>1, <1>2, <2>1, <2>2, <2>3, LearnerTold
<1>5. CASE SyncPeers(b)
  <2> DEFINE bs == reply[b][1]
             kept == {c \in known[b] : AddressOf[c.peer] \in Addresses(bs)}
  <2>1. Refreshing(b) /\ Learn(b, kept, bs)
    BY <1>5 DEF SyncPeers
  <2>2. reply'[b] = None
    BY <1>5 DEF SyncPeers, SyncEnds, ToldInv, TypeOK
  <2> HIDE DEF kept
  <2>3. /\ b \in cached'
        /\ late \subseteq late'
        /\ b \notin late' => Addresses(bs) \subseteq Addresses(known'[b])
        /\ \A a \in Agents \ {b} :
              /\ a \in cached' <=> a \in cached
              /\ known'[a] = known[a]
              /\ a \in late' <=> a \in late
    BY <2>1, LearnTold DEF ToldInv
  <2>4. b \notin hosts => b \in late'
    BY <2>1, <2>3 DEF ToldInv, Waits
  <2>5. ASSUME b \in hosts \ late', NEW p \in peerings
        PROVE  Coming(b, p) \/ Learnt(b, p)'
    <3>1. Coming(b, p) \/ Learnt(b, p)
      BY <2>3, <2>5 DEF ToldInv, Told
    <3>2. ASSUME Learnt(b, p)
          PROVE  Learnt(b, p)'
      <4>1. AddressOf[p] \in Addresses(known'[b])
        BY <2>1, <2>3, <2>5, <3>2 DEF Learnt
      <4>2. reply'[b] # <<>>
        BY <2>2, ValueAssumption DEF Replies
      <4> QED BY <2>2, <2>3, <4>1, <4>2 DEF Learnt, Refreshing, Addresses
    <3> QED BY <3>1, <3>2
  <2> QED BY <1>1, <1>2, <2>3, <2>4, <2>5, LearnerTold
<1> QED BY <1>3, <1>4, <1>5 DEF Sync

\* A cast that is lost with its call makes the agent late.
LEMMA TimeoutTold ==
  ASSUME ToldInv, NEW m \in casts, CallTimesOut(m)
  PROVE  Waits' /\ Told'
<1>1. /\ UNCHANGED <<peerings, hosts, work, cached, known, fetched>>
      /\ late' = late \cup {m.agent}
      /\ casts' = casts \ {m}
      /\ reply' = reply
  BY DEF CallTimesOut, serverVars, peerVars
<1>2. Waits'
  BY <1>1 DEF ToldInv, Waits, Refreshing
<1>3. ASSUME NEW a \in hosts' \ late', NEW p \in peerings'
      PROVE  Coming(a, p)' \/ Learnt(a, p)'
  <2>1. Coming(a, p) \/ Learnt(a, p)
    BY <1>1, <1>3 DEF ToldInv, Told
  <2>2. Coming(a, p) => Coming(a, p)'
    BY <1>1, <1>3, ComingUnlessReceived
  <2> QED BY <1>1, <2>1, <2>2 DEF Learnt, Refreshing, Addresses
<1> QED BY <1>2, <1>3 DEF Told

\* So every step keeps what agents know, or will.
LEMMA StepTold == ToldInv /\ [Next]_vars => Waits' /\ Told'
<1> SUFFICES ASSUME ToldInv, [Next]_vars
             PROVE  Waits' /\ Told'
  OBVIOUS
<1>1. CASE UNCHANGED vars
  BY <1>1 DEF ToldInv, Waits, Told, Coming, Learnt, Refreshing, Addresses, vars,
              serverVars, peerVars, agentVars
<1>2. ASSUME NEW a \in Agents, Handle(a)
      PROVE  Waits' /\ Told'
  BY <1>2, ReceiverTold, AddSpeakerTold DEF Handle
<1>3. ASSUME NEW a \in Agents, SyncTimesOut(a)
      PROVE  Waits' /\ Told'
  BY <1>3 DEF SyncTimesOut, SyncStarts, ToldInv, Waits, Told, Coming, Learnt,
              Refreshing, Addresses, serverVars, peerVars
<1> QED BY <1>1, <1>2, <1>3, PeerCallTold, ApiCallTold, WorkerTold, SyncTold,
           TimeoutTold DEF Next

\* Once its casts are handled an agent knows the address of every peer without
\* a sync, for any number of workers and agents.  The induction needs that what
\* an agent lacks is on its way to it, that a sync at work has it in its reply,
\* and that an agent that learnt anything while it was not bound waits for a
\* sync.
THEOREM PeersComePromptly == Spec => []PeersArePrompt
<1>1. Init => ToldInv
  BY IdleWorks, ValueAssumption
     DEF Init, TypeOK, ToldInv, Waits, Told, Refreshing
<1>2. ToldInv /\ [Next]_vars => ToldInv'
  BY StepTypes, StepTold DEF ToldInv
<1>3. ToldInv => PeersArePrompt
  <2> SUFFICES ASSUME ToldInv, Quiet,
                      NEW a \in (hosts \cap cached) \ late, NEW p \in peerings
               PROVE  AddressOf[p] \in Addresses(known[a])
    BY DEF PeersArePrompt, Addresses, Bound, Config
  <2>1. ~Coming(a, p)
    BY DEF Quiet, Coming, Idle
  <2> QED BY <2>1 DEF ToldInv, Told, Learnt, Quiet, Refreshing, TypeOK
<1> QED BY <1>1, <1>2, <1>3, PTL DEF Spec
=============================================================================
