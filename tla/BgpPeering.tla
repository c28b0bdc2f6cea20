------------------------------ MODULE BgpPeering ------------------------------
(***************************************************************************)
(* The peers of one BGP speaker: the rows of the database, the casts of    *)
(* the plugin, and the sessions of the agents that host the speaker.       *)
(* Workers of the API read, write and cast in steps of their own; casts    *)
(* arrive in any order.  The handlers of an agent exclude each other, and  *)
(* its syncs each other, but not these two: a sync works on a reply that   *)
(* may be older than what a handler has learnt meanwhile.  A handler is    *)
(* one step, except that a creation applies later what it fetched; a sync  *)
(* is its call and its work on the reply.  How the threads of an agent     *)
(* interleave within these is BgpDrAgent; a peer is more than its address  *)
(* here, since an agent knows it by its address only.                      *)
(***************************************************************************)
EXTENDS Integers, FiniteSets

CONSTANTS
    Peers,          \* ids of peers; one fixes the AS, which is never updated
    AddressOf,      \* the address of each peer
    AuthOf,         \* "md5" or "none"
    Passwords,
    Agents,
    Workers,        \* workers of the API
    None,           \* Python's None
    Ops,            \* the operations that a run allows
    MaxChanges      \* bound on their number

\* What an agent is told of a peer; the peer stands for address and AS.
Configs == [peer : Peers, password : Passwords \cup {None}]

\* The answers to get_bgp_speakers: the speaker with its peers, or nothing.
Replies == {<<>>} \cup {<<F>> : F \in SUBSET Configs}

ASSUME ValueAssumption ==
    /\ None \notin Passwords \cup Peers \cup Replies
    /\ AuthOf \in [Peers -> {"md5", "none"}]
    /\ MaxChanges \in Nat

VARIABLES
    stage,      \* table bgp_peers: which peers are new, live or deleted
    password,   \* their passwords
    peerings,   \* table bgp_speaker_peer_bindings, for the speaker
    hosts,      \* the agents that are bound to the speaker
    casts,      \* on their way to the agents
    work,       \* where each worker is, with its local variables
    cached,     \* agents whose cache has the speaker
    known,      \* the peers in the cache of each agent
    fetched,    \* the reply that a handler of a creation works on
    reply,      \* the reply that a sync works on: the list of hosted speakers
    due,        \* agents with a resync of the speaker scheduled
    full,       \* agents with a full resync scheduled
    late,       \* auxiliary: agents that wait for a sync to learn of peers
    changes     \* number of operations so far

peerVars == <<stage, password, peerings>>
serverVars == <<peerVars, hosts, work>>
agentVars == <<cached, known, fetched, reply, due, full, late>>
vars == <<serverVars, casts, agentVars, changes>>

Config(p) == [peer |-> p, password |-> password[p]]

PeerOps == {"associate", "disassociate"}

Casts ==
    {m \in [op : {"create", "remove"} \cup PeerOps, peer : Peers \cup {None},
            agent : Agents, at : 0 .. MaxChanges] :
        m.op \in PeerOps => m.peer \in Peers}

Idle == [at |-> 0, place |-> "idle", op |-> "none", peer |-> None, tell |-> {}]

Works ==
    {j \in [at : 0 .. MaxChanges,
            place : {"idle", "insert", "hosts", "delete", "move", "tell"},
            op : {"none", "create", "remove"} \cup PeerOps,
            peer : Peers \cup {None}, tell : SUBSET Agents] :
        /\ j.op \in PeerOps => j.peer \in Peers
        /\ j.place \in {"insert", "hosts"} => j.op = "associate"
        /\ j.place = "delete" => j.op = "disassociate"
        /\ j.place = "tell" => j.op # "none"}

TypeOK ==
    /\ stage \in [Peers -> {"new", "live", "deleted"}]
    /\ password \in [Peers -> Passwords \cup {None}]
    /\ peerings \subseteq {p \in Peers : stage[p] = "live"}
    /\ hosts \subseteq Agents
    /\ casts \subseteq Casts
    /\ work \in [Workers -> Works]
    /\ cached \subseteq Agents
    /\ known \in [Agents -> SUBSET Configs]
    /\ fetched \in [Agents -> {None} \cup {<<F>> : F \in SUBSET Configs}]
    /\ reply \in [Agents -> Replies \cup {None}]
    /\ due \subseteq Agents
    /\ full \subseteq Agents
    /\ late \subseteq Agents
    /\ changes \in 0 .. MaxChanges

\* create_bgp_peer asks for a password with md5, and takes one without.
Accepts(p, pw) == AuthOf[p] = "md5" => pw # None

Init ==
    /\ stage \in [Peers -> {"new", "live"}]
    /\ password \in [Peers -> Passwords \cup {None}]
    /\ \A p \in Peers :
          IF stage[p] = "new" THEN password[p] = None ELSE Accepts(p, password[p])
    /\ peerings = {}
    /\ hosts = {}
    /\ casts = {}
    /\ work = [w \in Workers |-> Idle]
    /\ cached = {}
    /\ known = [a \in Agents |-> {}]
    /\ fetched = [a \in Agents |-> None]
    /\ reply = [a \in Agents |-> None]
    /\ due = {}
    /\ full = {}
    /\ late = {}
    /\ changes = 0

-----------------------------------------------------------------------------
(* The API.                                                                *)

Change(op) ==
    /\ op \in Ops
    /\ changes < MaxChanges
    /\ changes' = changes + 1

\* A call that is one transaction and tells nobody.
QuietCall(op) == Change(op) /\ UNCHANGED <<hosts, work, casts, agentVars>>

CreatePeer(p, pw) ==
    /\ QuietCall("create")
    /\ stage[p] = "new"
    /\ Accepts(p, pw)
    /\ stage' = [stage EXCEPT ![p] = "live"]
    /\ password' = [password EXCEPT ![p] = pw]
    /\ UNCHANGED peerings

\* update_bgp_peer may take away the password that md5 needs.
UpdatePeer(p, pw) ==
    /\ QuietCall("update")
    /\ stage[p] = "live"
    /\ pw # None => AuthOf[p] # "none"
    /\ password' = [password EXCEPT ![p] = pw]
    /\ UNCHANGED <<stage, peerings>>

\* Mutant: the bindings stay.
DeleteLeavesPeering(p) ==
    /\ QuietCall("delete")
    /\ stage[p] = "live"
    /\ stage' = [stage EXCEPT ![p] = "deleted"]
    /\ UNCHANGED <<password, peerings>>

\* The bindings go with the peer.
DeletePeer(p) ==
    /\ QuietCall("delete")
    /\ stage[p] = "live"
    /\ stage' = [stage EXCEPT ![p] = "deleted"]
    /\ peerings' = peerings \ {p}
    /\ UNCHANGED password

Job(place, op, peer, tell) ==
    [at |-> changes, place |-> place, op |-> op, peer |-> peer, tell |-> tell]

Call(w, op, job) ==
    /\ work[w] = Idle
    /\ Change(op)
    /\ work' = [work EXCEPT ![w] = job]

Continue(w, place) ==
    work' = [work EXCEPT ![w] = IF place = "idle" THEN Idle
                                ELSE [@ EXCEPT !.place = place]]

Unused(p) == \A q \in peerings : AddressOf[q] # AddressOf[p]

\* _save_bgp_speaker_peer_binding validates what it reads, and inserts ...
AddPeer(w, p) ==
    /\ stage[p] = "live"
    /\ Unused(p)
    /\ Call(w, "add", Job("insert", "associate", p, {}))
    /\ UNCHANGED <<peerVars, hosts, casts, agentVars>>

\* ... unless the peer was deleted meanwhile, or bound.
Insert(w) ==
    LET p == work[w].peer IN
    /\ work[w].place = "insert"
    /\ IF stage[p] = "live" /\ p \notin peerings
         THEN peerings' = peerings \cup {p} /\ Continue(w, "hosts")
         ELSE Continue(w, "idle") /\ UNCHANGED peerings
    /\ UNCHANGED <<stage, password, hosts, casts, agentVars, changes>>

ReadHosts(w) ==
    /\ work[w].place = "hosts"
    /\ work' = [work EXCEPT ![w].place = "tell", ![w].tell = hosts]
    /\ UNCHANGED <<peerVars, hosts, casts, agentVars, changes>>

\* remove_bgp_peer reads the agents first.
RemovePeer(w, p) ==
    /\ Call(w, "remove", Job("delete", "disassociate", p, hosts))
    /\ UNCHANGED <<peerVars, hosts, casts, agentVars>>

Delete(w) ==
    LET p == work[w].peer IN
    /\ work[w].place = "delete"
    /\ Continue(w, IF p \in peerings THEN "tell" ELSE "idle")
    /\ peerings' = peerings \ {p}
    /\ UNCHANGED <<stage, password, hosts, casts, agentVars, changes>>

Message(w, a) ==
    [op |-> work[w].op, peer |-> work[w].peer, agent |-> a, at |-> work[w].at]

Tell(w) ==
    /\ work[w].place = "tell"
    /\ casts' = casts \cup {Message(w, a) : a \in work[w].tell}
    /\ Continue(w, "idle")
    /\ UNCHANGED <<peerVars, hosts, agentVars, changes>>

Host(w, a) ==
    /\ a \notin hosts
    /\ Call(w, "host", Job("tell", "create", None, {a}))
    /\ hosts' = hosts \cup {a}
    /\ UNCHANGED <<peerVars, casts, agentVars>>

Unhost(w, a) ==
    /\ a \in hosts
    /\ Call(w, "unhost", Job("tell", "remove", None, {a}))
    /\ hosts' = hosts \ {a}
    /\ late' = late \cup {a}
    /\ UNCHANGED <<peerVars, casts, cached, known, fetched, reply, due, full>>

\* A rescheduling tells the new agent before it commits, and not the old one.
Move(w, a) ==
    /\ hosts # {}
    /\ a \notin hosts
    /\ Call(w, "move", Job("move", "create", None, {a}))
    /\ casts' = casts \cup {[op |-> "create", peer |-> None, agent |-> a,
                             at |-> changes]}
    /\ UNCHANGED <<peerVars, hosts, agentVars>>

MoveCommits(w, a) ==
    /\ work[w].place = "move"
    /\ a \in hosts
    /\ work[w].tell \cap hosts = {}
    /\ hosts' = (hosts \ {a}) \cup work[w].tell
    /\ late' = late \cup {a}
    /\ Continue(w, "idle")
    /\ UNCHANGED <<peerVars, casts, cached, known, fetched, reply, due, full, changes>>

MoveFails(w) ==
    /\ work[w].place = "move"
    /\ hosts = {} \/ work[w].tell \cap hosts # {}
    /\ Continue(w, "idle")
    /\ UNCHANGED <<peerVars, hosts, casts, agentVars, changes>>

-----------------------------------------------------------------------------
(* The agents.                                                             *)

Addresses(configs) == {AddressOf[c.peer] : c \in configs}

Bound == {Config(p) : p \in peerings}

\* validate_auth: the driver raises, and the peer stays in the cache.
Refused(c) == (AuthOf[c.peer] = "md5") # (c.password # None)

\* What add_bgp_peers_to_bgp_speaker adds: one peer for an address that is not
\* known, until a resync of the speaker is scheduled, which it looks at after
\* each peer.
Additions(old, bs, scheduled) ==
    LET free == {c \in bs : AddressOf[c.peer] \notin Addresses(old)} IN
    {F \in SUBSET free :
        /\ \A c, d \in F : AddressOf[c.peer] = AddressOf[d.peer] => c = d
        /\ Cardinality({c \in F : Refused(c)}) <= 1
        /\ IF scheduled
             THEN \/ Cardinality(F) = 1
                  \/ F = {} /\ (bs = {} \/ free # bs)
             ELSE \/ \E c \in F : Refused(c)
                  \/ Addresses(bs) \subseteq Addresses(F \cup old)}

\* add_bgp_speaker_on_dragent and sync_bgp_speaker end with the next refresh
\* scheduled.
Learn(a, old, bs) ==
    /\ \E F \in Additions(old, bs, a \in due) :
          /\ known' = [known EXCEPT ![a] = old \cup F]
          /\ late' = IF Addresses(bs) \subseteq Addresses(F \cup old)
                       THEN late ELSE late \cup {a}
    /\ cached' = cached \cup {a}
    /\ due' = due \cup {a}

Receive(m, op) ==
    /\ m.op = op
    /\ fetched[m.agent] = None
    /\ casts' = casts \ {m}
    /\ UNCHANGED <<serverVars, changes, reply, full>>

\* A sync of the agent works on a reply that lists the speaker.
Refreshing(a) == reply[a] \notin {None, <<>>}

FetchSpeaker(m) ==
    LET a == m.agent IN
    /\ Receive(m, "create")
    /\ fetched' = [fetched EXCEPT ![a] = <<Bound>>]
    /\ late' = IF a \notin hosts THEN late \cup {a}
               ELSE IF a \in cached \/ Refreshing(a) THEN late ELSE late \ {a}
    /\ UNCHANGED <<cached, known, due>>

\* put_bgp_speaker raises a TypeError for a speaker that is cached.
AddSpeaker(a) ==
    /\ fetched[a] # None
    /\ IF a \in cached
         THEN UNCHANGED <<cached, known, due, late>>
         ELSE Learn(a, {}, fetched[a][1])
    /\ fetched' = [fetched EXCEPT ![a] = None]
    /\ UNCHANGED <<serverVars, casts, reply, full, changes>>

RemoveSpeaker(m) ==
    LET a == m.agent IN
    /\ Receive(m, "remove")
    /\ due' = IF a \in cached THEN due ELSE due \cup {a}
    /\ cached' = cached \ {a}
    /\ known' = [known EXCEPT ![a] = {}]
    /\ UNCHANGED <<fetched, late>>

\* What a handler learns of a peer that the reply of a sync lacks is undone.
Outdated(a, p) == Refreshing(a) /\ AddressOf[p] \notin Addresses(reply[a][1])

\* Mutant: a peer waits for the resync that is scheduled.
AssociateWaits(m) ==
    LET a == m.agent
        c == Config(m.peer)
    IN  /\ Receive(m, "associate")
        /\ IF a \in cached \ due /\ stage[m.peer] = "live"
             THEN known' = [known EXCEPT ![a] = @ \cup {c}]
             ELSE UNCHANGED known
        /\ due' = due \cup {a}
        /\ late' = IF Outdated(a, m.peer) THEN late \cup {a} ELSE late
        /\ UNCHANGED <<cached, fetched>>

\* The speaker is not cached, or the peer is gone: out of sync.
AssociatePeer(m) ==
    LET a == m.agent
        c == Config(m.peer)
    IN  /\ Receive(m, "associate")
        /\ IF a \in cached /\ stage[m.peer] = "live"
             THEN IF AddressOf[m.peer] \in Addresses(known[a])
                    THEN UNCHANGED <<known, due>>
                    ELSE /\ known' = [known EXCEPT ![a] = @ \cup {c}]
                         /\ due' = IF Refused(c) THEN due \cup {a} ELSE due
             ELSE due' = due \cup {a} /\ UNCHANGED known
        /\ late' = IF Outdated(a, m.peer) THEN late \cup {a} ELSE late
        /\ UNCHANGED <<cached, fetched>>

\* The cast carries an id, which is no address that the agent knows.
DisassociatePeer(m) ==
    /\ Receive(m, "disassociate")
    /\ due' = due \cup {m.agent}
    /\ UNCHANGED <<cached, known, fetched, late>>

\* The call of the server that a handler makes times out.
CallTimesOut(m) ==
    /\ m.op \in {"create", "associate"}
    /\ m.op = "associate" => m.agent \in cached
    /\ fetched[m.agent] = None
    /\ Change("timeout")
    /\ casts' = casts \ {m}
    /\ due' = due \cup {m.agent}
    /\ late' = late \cup {m.agent}
    /\ UNCHANGED <<serverVars, cached, known, fetched, reply, full>>

\* What is scheduled starts one sync, which forgets the reasons and calls the
\* server.
SyncStarts(a) ==
    /\ a \in due \cup full
    /\ reply[a] = None
    /\ due' = due \ {a}
    /\ UNCHANGED <<serverVars, casts, cached, known, fetched>>

SyncFetches(a) ==
    /\ SyncStarts(a)
    /\ full' = full \ {a}
    /\ reply' = [reply EXCEPT ![a] = IF a \in hosts THEN <<Bound>> ELSE <<>>]
    /\ late' = IF a \in hosts THEN late \ {a} ELSE late
    /\ UNCHANGED changes

\* The call fails: a full resync is scheduled.
SyncTimesOut(a) ==
    /\ SyncStarts(a)
    /\ Change("timeout")
    /\ full' = full \cup {a}
    /\ UNCHANGED <<reply, late>>

SyncEnds(a) ==
    /\ reply' = [reply EXCEPT ![a] = None]
    /\ UNCHANGED <<serverVars, casts, fetched, changes>>

\* A speaker that is not in the reply: its removal ends in a RuntimeError, and
\* a full resync is scheduled.
SyncRemoves(a) ==
    /\ reply[a] = <<>>
    /\ full' = IF a \in cached THEN full \cup {a} ELSE full
    /\ cached' = cached \ {a}
    /\ known' = [known EXCEPT ![a] = {}]
    /\ SyncEnds(a)
    /\ UNCHANGED <<due, late>>

\* Mutant: the peers that are gone stay.
SyncKeepsPeers(a) ==
    /\ Refreshing(a)
    /\ Learn(a, known[a], reply[a][1])
    /\ SyncEnds(a)
    /\ UNCHANGED full

\* Addresses that are not in the reply go, and those that are not known come.
SyncPeers(a) ==
    LET bs == reply[a][1]
        kept == {c \in known[a] : AddressOf[c.peer] \in Addresses(bs)}
    IN  /\ Refreshing(a)
        /\ Learn(a, kept, bs)
        /\ SyncEnds(a)
        /\ UNCHANGED full

-----------------------------------------------------------------------------
PeerCall ==
    \/ \E p \in Peers, pw \in Passwords \cup {None} :
          CreatePeer(p, pw) \/ UpdatePeer(p, pw)
    \/ \E p \in Peers : DeletePeer(p)

ApiCall(w) ==
    \/ \E p \in Peers : AddPeer(w, p) \/ RemovePeer(w, p)
    \/ \E a \in Agents : Host(w, a) \/ Unhost(w, a) \/ Move(w, a)

Step(w) ==
    \/ Insert(w) \/ ReadHosts(w) \/ Delete(w) \/ Tell(w)
    \/ \E a \in hosts : MoveCommits(w, a)
    \/ MoveFails(w)

Handle(a) ==
    \/ \E m \in {c \in casts : c.agent = a} :
          \/ FetchSpeaker(m) \/ RemoveSpeaker(m)
          \/ AssociatePeer(m) \/ DisassociatePeer(m)
    \/ AddSpeaker(a)

Sync(a) == SyncFetches(a) \/ SyncRemoves(a) \/ SyncPeers(a)

Next ==
    \/ PeerCall
    \/ \E w \in Workers : ApiCall(w) \/ Step(w)
    \/ \E a \in Agents : Handle(a) \/ Sync(a) \/ SyncTimesOut(a)
    \/ \E m \in casts : CallTimesOut(m)

Spec == Init /\ [][Next]_vars

\* Calls that are being served go on, casts are handled, agents sync.
Fairness ==
    /\ \A w \in Workers : WF_vars(Step(w))
    /\ \A a \in Agents : WF_vars(Handle(a)) /\ WF_vars(Sync(a))

FairSpec == Spec /\ Fairness

-----------------------------------------------------------------------------
Quiet ==
    /\ casts = {}
    /\ \A w \in Workers : work[w] = Idle
    /\ \A a \in Agents : fetched[a] = None /\ reply[a] = None

\* Once its casts are handled an agent knows the address of every peer of the
\* speaker, and has no need of a sync for that: add_bgp_peer reads the agents
\* to tell after its commit, and an agent that is bound after that reads the
\* peer itself.  That fails, until the next sync, only when a loop of the agent
\* broke off, a call failed, the agent was told of a binding that is not
\* committed or that it had lost, or a cast was handled while a sync worked on
\* a reply that lacks the peer, and undoes it.
PeersArePrompt ==
    Quiet => \A a \in (hosts \cap cached) \ late :
                Addresses(Bound) \subseteq Addresses(known[a])

\* In the end an agent knows the addresses of the speaker's peers and no other,
\* though nobody is told of the deletion of a peer, and though a cast of a
\* disassociation names no address that an agent knows.
PeersFollow ==
    <>[](\A a \in hosts \cap cached : Addresses(known[a]) = Addresses(Bound))
=============================================================================
