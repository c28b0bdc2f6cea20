------------------------------ MODULE BgpServer ------------------------------
(***************************************************************************)
(* The neutron server as one BgpDrAgent sees it: the speaker the server    *)
(* binds to this agent, what the database holds for every speaker, and the *)
(* casts on their way to the agent.  A cast is delivered at most once and  *)
(* in any order: the agent's RPC server hands messages to a thread pool.   *)
(*                                                                         *)
(* An operation that commits and then casts is one step: a cast may be     *)
(* late anyway.  A rescheduling casts before it commits, so its arrival at *)
(* this agent is two steps, and the agent may ask the server in between.   *)
(* ServerOps names the operations a run allows and MaxChanges bounds their *)
(* number; faults counts, up to MaxFaults, the faults a run allows by      *)
(* FaultOps: a cast is lost, a call of the server or of the driver fails,  *)
(* the agent restarts.                                                     *)
(***************************************************************************)
EXTENDS BgpCommon

CONSTANTS ServerOps, MaxChanges, FaultOps, MaxFaults

ASSUME BoundAssumption == MaxChanges \in Nat /\ MaxFaults \in Nat

VARIABLES
    hosted,     \* speakers bound to this agent
    arriving,   \* speakers whose rescheduling here is cast, not committed
    enabled,    \* the agent's admin_state_up
    notices,    \* agent_updated casts not handled yet
    config,     \* the database's peers and routes of each speaker
    inbox,      \* casts not handled yet
    changes,    \* number of server operations so far
    faults      \* number of faults so far

boundVars == <<hosted, arriving, enabled, notices>>
serverVars == <<boundVars, config, inbox, changes, faults>>

\* What each handler of the agent is given besides the speaker.
ItemsOf ==
    [create       |-> {},
     remove       |-> {},
     associate    |-> Peers,
     disassociate |-> {PeerId[p] : p \in Peers},
     advertise    |-> Routes,
     withdraw     |-> RoutePatterns]

AgentOps == DOMAIN ItemsOf

Items == UNION {ItemsOf[op] : op \in AgentOps}

Messages ==
    {m \in [op : AgentOps, speaker : Speakers, items : SUBSET Items, at : Nat] :
        m.items \subseteq ItemsOf[m.op]}

ServerTypeOK ==
    /\ hosted \subseteq Speakers /\ arriving \subseteq Speakers
    /\ enabled \in BOOLEAN
    /\ notices \subseteq 0 .. MaxChanges
    /\ config \in [Speakers -> Configs]
    /\ inbox \subseteq Messages
    /\ changes \in 0 .. MaxChanges
    /\ faults \in 0 .. MaxFaults

\* A binding's primary key is the agent: an agent hosts one speaker.
ServerInit ==
    /\ hosted \in {H \in SUBSET Speakers : Cardinality(H) <= 1}
    /\ arriving = {} /\ enabled = TRUE /\ notices = {}
    /\ config \in [Speakers -> Configs]
    /\ inbox = {}
    /\ changes = 0
    /\ faults = 0

Cast(op, s, items) ==
    [op |-> op, speaker |-> s, items |-> items, at |-> changes]

Change(op) ==
    /\ op \in ServerOps
    /\ changes < MaxChanges
    /\ changes' = changes + 1
    /\ UNCHANGED faults

\* Casts about a speaker go to the agents that host it.
Notify(s, casts) ==
    inbox' = inbox \cup (IF s \in hosted THEN casts ELSE {})

\* The operator, or the scheduler, binds a speaker and notifies the agent.
HostSpeaker(s) ==
    /\ Change("host")
    /\ enabled
    /\ hosted \cup arriving = {}
    /\ hosted' = {s}
    /\ inbox' = inbox \cup {Cast("create", s, {})}
    /\ UNCHANGED <<arriving, enabled, notices, config>>

\* auto_schedule_bgp_speakers binds a speaker and sends nothing.
AutoSchedule(s) ==
    /\ Change("auto_schedule")
    /\ enabled
    /\ hosted \cup arriving = {}
    /\ hosted' = {s}
    /\ UNCHANGED <<arriving, enabled, notices, config, inbox>>

\* reschedule_bgp_speaker moves a speaker here, from another agent or from this
\* one: it casts inside its transaction, which then commits or rolls back.
RescheduleHere(s) ==
    /\ Change("reschedule_here")
    /\ enabled
    /\ arriving = {} /\ hosted \subseteq {s}
    /\ arriving' = {s}
    /\ inbox' = inbox \cup {Cast("create", s, {})}
    /\ UNCHANGED <<hosted, enabled, notices, config>>

ArrivalCommits(s) ==
    /\ s \in arriving
    /\ hosted' = hosted \cup {s}
    /\ arriving' = arriving \ {s}
    /\ UNCHANGED <<enabled, notices, config, inbox, changes, faults>>

ArrivalFails(s) ==
    /\ s \in arriving
    /\ arriving' = arriving \ {s}
    /\ UNCHANGED <<hosted, enabled, notices, config, inbox, changes, faults>>

\* The operator unbinds the speaker; a row that a transaction holds waits.
UnhostSpeaker(s) ==
    /\ Change("unhost")
    /\ s \in hosted \ arriving
    /\ hosted' = hosted \ {s}
    /\ inbox' = inbox \cup {Cast("remove", s, {})}
    /\ UNCHANGED <<arriving, enabled, notices, config>>

\* The speaker is moved to another agent, and this one is not told.
Reschedule(s) ==
    /\ Change("reschedule")
    /\ s \in hosted \ arriving
    /\ hosted' = hosted \ {s}
    /\ UNCHANGED <<arriving, enabled, notices, config, inbox>>

\* neutron's update_agent tells the agent that admin_state_up has changed.
ToggleAgent ==
    /\ Change("toggle")
    /\ enabled' = ~enabled
    /\ notices' = notices \cup {changes}
    /\ UNCHANGED <<hosted, arriving, config, inbox>>

AssociatePeer(s, p) ==
    /\ Change("associate")
    /\ p \notin config[s].peers
    /\ config' = [config EXCEPT ![s].peers = @ \cup {p}]
    /\ Notify(s, {Cast("associate", s, {p})})
    /\ UNCHANGED boundVars

\* The cast carries the peer's id where the agent expects its address.
DisassociatePeer(s, p) ==
    /\ Change("disassociate")
    /\ p \in config[s].peers
    /\ config' = [config EXCEPT ![s].peers = @ \ {p}]
    /\ Notify(s, {Cast("disassociate", s, {PeerId[p]})})
    /\ UNCHANGED boundVars

StartRoute(s, r) ==
    /\ Change("advertise")
    /\ \A q \in config[s].routes : q.destination # r.destination
    /\ config' = [config EXCEPT ![s].routes = @ \cup {r}]
    /\ Notify(s, {Cast("advertise", s, {r})})
    /\ UNCHANGED boundVars

\* Router events name the next hop; floating IP events leave it open.
StopRoute(s, r) ==
    /\ Change("withdraw")
    /\ r \in config[s].routes
    /\ config' = [config EXCEPT ![s].routes = @ \ {r}]
    /\ \E hop \in {r.next_hop, None} :
          Notify(s, {Cast("withdraw", s, {[r EXCEPT !.next_hop = hop]})})
    /\ UNCHANGED boundVars

\* A floating IP moves to another router: one commit, two casts.
MoveRoute(s, r, hop) ==
    LET moved == [r EXCEPT !.next_hop = hop]
        old   == [r EXCEPT !.next_hop = None]
    IN  /\ Change("move")
        /\ r \in config[s].routes
        /\ hop # r.next_hop
        /\ config' = [config EXCEPT ![s].routes = (@ \ {r}) \cup {moved}]
        /\ Notify(s, {Cast("withdraw", s, {old}),
                      Cast("advertise", s, {moved})})
        /\ UNCHANGED boundVars

\* The reply to get_bgp_speaker_info, for any speaker.
SpeakerDict(s) ==
    [id |-> s, peers |-> config[s].peers, routes |-> config[s].routes]

\* The reply to get_bgp_speakers: a disabled agent is told of no speaker.
Served == IF enabled THEN hosted ELSE {}

HostedDicts == {SpeakerDict(s) : s \in Served}

Fault(op) ==
    /\ op \in FaultOps
    /\ faults < MaxFaults
    /\ faults' = faults + 1

ServerStep ==
    \/ \E s \in Speakers :
          \/ HostSpeaker(s) \/ AutoSchedule(s)
          \/ RescheduleHere(s) \/ ArrivalCommits(s) \/ ArrivalFails(s)
          \/ UnhostSpeaker(s) \/ Reschedule(s)
    \/ ToggleAgent
    \/ \E s \in Speakers, p \in Peers :
          AssociatePeer(s, p) \/ DisassociatePeer(s, p)
    \/ \E s \in Speakers, r \in Routes :
          \/ StartRoute(s, r)
          \/ StopRoute(s, r)
          \/ \E hop \in NextHops : MoveRoute(s, r, hop)
=============================================================================
