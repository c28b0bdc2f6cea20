----------------------------- MODULE BgpScheduler -----------------------------
(***************************************************************************)
(* The binding of BGP speakers to agents by the neutron server (db/        *)
(* bgp_dragentscheduler_db.py and scheduler/bgp_dragent_scheduler.py, with *)
(* the ChanceScheduler or the WeightScheduler).  Workers of the API serve  *)
(* the operator's calls; one periodic worker moves speakers away from dead *)
(* agents, and another binds the speakers that have no agent.              *)
(*                                                                         *)
(* A step is a transaction, or one end of it: a transaction that decides   *)
(* by what it reads and then writes is a step that reads and a step that   *)
(* commits.  The commit of a binding meets the table's constraints: the    *)
(* primary key is the agent, and the speaker must exist.  An exception     *)
(* rolls a transaction back.                                               *)
(***************************************************************************)
EXTENDS Integers, FiniteSets

CONSTANTS
    Speakers,       \* ids of BGP speakers
    Agents,         \* BGP dynamic routing agents, one on a host
    ApiWorkers,     \* workers of the API
    None,           \* Python's None
    Ops,            \* the operations and events that a run allows
    MaxChanges,     \* bound on their number
    MaxFaults       \* bound on the number of crashes

ASSUME NoneAssumption == None \notin Speakers \cup Agents

ASSUME WorkerAssumption == ApiWorkers \cap {"pass", "auto"} = {}

ASSUME BoundAssumption == MaxChanges \in Nat /\ MaxFaults \in Nat

VARIABLES
    existing,   \* the speakers of the database
    bindings,   \* table bgp_speaker_dragent_bindings
    enabled,    \* agents whose admin_state_up is True
    alive,      \* agents whose heartbeat is recent
    told,       \* the last cast to each agent
    pc,         \* where each worker is
    work,       \* the local variables of each worker
    changes,    \* number of calls and events so far
    faults      \* number of crashes so far

agentVars == <<enabled, alive>>
tableVars == <<existing, bindings>>
workerVars == <<pc, work>>
vars == <<tableVars, agentVars, told, workerVars, changes, faults>>

Workers == ApiWorkers \cup {"pass", "auto"}

Bindings == [agent : Agents, speaker : Speakers]

Casts == [op : {"create", "remove"}, speaker : Speakers]

\* speaker: the speaker at hand; old and new: the agents it leaves and gets;
\* tell: agents to tell of a removal; todo: bindings the periodic work is for.
NoWork == [speaker |-> None, old |-> None, new |-> None, tell |-> {},
           todo |-> {}]

Works ==
    [speaker : Speakers \cup {None}, old : Agents \cup {None},
     new : Agents \cup {None}, tell : SUBSET Agents, todo : SUBSET Bindings]

Places(w) ==
    CASE w = "pass" -> {"idle", "each", "move", "cast", "commit"}
      [] w = "auto" -> {"idle", "commit"}
      [] OTHER      -> {"idle", "schedule", "bind", "cast", "delete", "uncast"}

\* A worker may be at a place with a job.
Fits(w, place, job) ==
    /\ place \in Places(w)
    /\ job \in Works
    /\ place \in {"schedule", "bind", "cast", "delete", "uncast", "move"}
          => job.speaker \in Speakers
    /\ place \in {"bind", "cast"} => job.new \in Agents
    /\ w = "pass" /\ place \in {"move", "cast", "commit"}
          => job.old \in Agents /\ job.speaker \in Speakers

DataOK ==
    /\ existing \subseteq Speakers
    /\ bindings \subseteq Bindings
    /\ enabled \subseteq Agents
    /\ alive \subseteq Agents
    /\ told \in [Agents -> Casts \cup {None}]
    /\ changes \in 0 .. MaxChanges
    /\ faults \in 0 .. MaxFaults

WorkersOK ==
    /\ DOMAIN pc = Workers
    /\ DOMAIN work = Workers
    /\ \A w \in Workers : Fits(w, pc[w], work[w])

TypeOK == DataOK /\ WorkersOK

Init ==
    /\ existing = {}
    /\ bindings = {}
    /\ enabled = Agents
    /\ alive \in SUBSET Agents
    /\ told = [a \in Agents |-> None]
    /\ pc = [w \in Workers |-> "idle"]
    /\ work = [w \in Workers |-> NoWork]
    /\ changes = 0
    /\ faults = 0

-----------------------------------------------------------------------------
Binding(a, s) == [agent |-> a, speaker |-> s]

HostsOf(bs, s) == {b.agent : b \in {c \in bs : c.speaker = s}}

Occupied(bs) == {b.agent : b \in bs}

Bound(bs) == {b.speaker : b \in bs}

Active == enabled \cap alive

\* filter_agents: one agent for a speaker that has none, free and active.
Hostable(bs, s) ==
    IF HostsOf(bs, s) # {} THEN {} ELSE Active \ Occupied(bs)

\* The scheduler's choice among them.
Choices(bs, s) ==
    IF Hostable(bs, s) = {} THEN {None} ELSE Hostable(bs, s)

\* What the database accepts.
Free(a) == a \notin Occupied(bindings)

\* Rows that the rescheduling has deleted in its open transaction.
Locked ==
    IF pc["pass"] \in {"cast", "commit"}
      THEN {Binding(work["pass"].old, work["pass"].speaker)}
      ELSE {}

Change(op) ==
    /\ op \in Ops
    /\ changes < MaxChanges
    /\ changes' = changes + 1
    /\ UNCHANGED faults

Goto(w, place, job) ==
    /\ pc' = [pc EXCEPT ![w] = place]
    /\ work' = [work EXCEPT ![w] = job]

Done(w) == Goto(w, "idle", NoWork)

Call(w, op, place, job) ==
    /\ pc[w] = "idle"
    /\ Change(op)
    /\ Goto(w, place, job)
    /\ UNCHANGED <<agentVars, told>>

\* A step of a worker that writes neither the tables nor an agent.
Thinks == UNCHANGED <<tableVars, agentVars, told, changes, faults>>

Tell(agents, op, s) ==
    told' = [a \in Agents |->
                IF a \in agents THEN [op |-> op, speaker |-> s] ELSE told[a]]

-----------------------------------------------------------------------------
(* The API.                                                                *)

\* The creation commits, and the scheduler's callback comes after it.
CreateSpeaker(w, s) ==
    /\ s \notin existing
    /\ Call(w, "create", "schedule", [NoWork EXCEPT !.speaker = s])
    /\ existing' = existing \cup {s}
    /\ UNCHANGED bindings

\* Mutant: no agent is taken for an agent.
ScheduleNone(w) ==
    /\ pc[w] = "schedule"
    /\ \E a \in Choices(bindings, work[w].speaker) :
          Goto(w, "bind", [work[w] EXCEPT !.new = a])
    /\ Thinks

Schedule(w) ==
    /\ pc[w] = "schedule"
    /\ \E a \in Choices(bindings, work[w].speaker) :
          IF a = None
            THEN Done(w)
            ELSE Goto(w, "bind", [work[w] EXCEPT !.new = a])
    /\ Thinks

\* Mutant: the table has no primary key.
BindAnyway(w) ==
    LET a == work[w].new
        s == work[w].speaker
    IN  /\ pc[w] = "bind"
        /\ s \in existing
        /\ bindings' = bindings \cup {Binding(a, s)}
        /\ Goto(w, "cast", work[w])
        /\ UNCHANGED <<existing, agentVars, told, changes, faults>>

\* A duplicate is taken for a success; the agent is told in either case.
Bind(w) ==
    LET a == work[w].new
        s == work[w].speaker
    IN  /\ pc[w] = "bind"
        /\ s \in existing
        /\ bindings' =
              bindings \cup (IF Free(a) THEN {Binding(a, s)} ELSE {})
        /\ Goto(w, "cast", work[w])
        /\ UNCHANGED <<existing, agentVars, told, changes, faults>>

\* The speaker was deleted meanwhile.
BindFails(w) ==
    /\ pc[w] = "bind"
    /\ work[w].speaker \notin existing
    /\ Done(w)
    /\ Thinks

CastCreate(w) ==
    /\ pc[w] = "cast"
    /\ Tell({work[w].new}, "create", work[w].speaker)
    /\ IF w = "pass" THEN Goto(w, "commit", work[w]) ELSE Done(w)
    /\ UNCHANGED <<tableVars, agentVars, changes, faults>>

\* add_bgp_speaker_to_dragent does not ask whether the agent is alive or the
\* speaker has an agent.
AddToAgent(w, a, s) ==
    /\ s \in existing
    /\ a \in enabled
    /\ Free(a)
    /\ Call(w, "add", "cast", [NoWork EXCEPT !.speaker = s, !.new = a])
    /\ bindings' = bindings \cup {Binding(a, s)}
    /\ UNCHANGED existing

RemoveFromAgent(w, b) ==
    /\ b \in bindings \ Locked
    /\ Call(w, "remove", "uncast",
            [NoWork EXCEPT !.speaker = b.speaker, !.tell = {b.agent}])
    /\ bindings' = bindings \ {b}
    /\ UNCHANGED existing

\* delete_bgp_speaker reads the agents to tell before it deletes ...
DeleteSpeaker(w, s) ==
    /\ s \in existing
    /\ Call(w, "delete", "delete",
            [NoWork EXCEPT !.speaker = s, !.tell = HostsOf(bindings, s)])
    /\ UNCHANGED tableVars

\* Mutant: the bindings stay.
DeleteLeavesBindings(w) ==
    /\ pc[w] = "delete"
    /\ work[w].speaker \in existing
    /\ \A b \in Locked : b.speaker # work[w].speaker
    /\ existing' = existing \ {work[w].speaker}
    /\ Goto(w, "uncast", work[w])
    /\ UNCHANGED <<bindings, agentVars, told, changes, faults>>

\* ... and the bindings go with the speaker.
DeleteCommits(w) ==
    LET s == work[w].speaker IN
    /\ pc[w] = "delete"
    /\ s \in existing
    /\ \A b \in Locked : b.speaker # s
    /\ existing' = existing \ {s}
    /\ bindings' = {b \in bindings : b.speaker # s}
    /\ Goto(w, "uncast", work[w])
    /\ UNCHANGED <<agentVars, told, changes, faults>>

DeleteFails(w) ==
    /\ pc[w] = "delete"
    /\ work[w].speaker \notin existing
    /\ Done(w)
    /\ Thinks

CastRemoved(w) ==
    /\ pc[w] = "uncast"
    /\ Tell(work[w].tell, "remove", work[w].speaker)
    /\ Done(w)
    /\ UNCHANGED <<tableVars, agentVars, changes, faults>>

-----------------------------------------------------------------------------
(* remove_bgp_speaker_from_down_dragents.                                  *)

DownBindings == {b \in bindings : b.agent \in enabled \ alive}

\* Mutant: the pass is for the agents that are disabled.
PassBeginsDisabled ==
    LET down == {b \in bindings : b.agent \notin enabled \cup alive} IN
    /\ pc["pass"] = "idle"
    /\ down # {}
    /\ Goto("pass", "each", [NoWork EXCEPT !.todo = down])
    /\ Thinks

PassBegins ==
    /\ pc["pass"] = "idle"
    /\ DownBindings # {}
    /\ Goto("pass", "each", [NoWork EXCEPT !.todo = DownBindings])
    /\ Thinks

PassEnds ==
    /\ pc["pass"] = "each"
    /\ work["pass"].todo = {}
    /\ Done("pass")
    /\ Thinks

\* The agent reported again after the pass began.
PassSkips(b) ==
    /\ pc["pass"] = "each"
    /\ b.agent \in alive
    /\ Goto("pass", "each", [work["pass"] EXCEPT !.todo = @ \ {b}])
    /\ Thinks

\* reschedule_bgp_speaker takes the first of the agents that host the speaker.
Reschedule(b) ==
    /\ pc["pass"] = "each"
    /\ b.agent \notin alive
    /\ \E a \in HostsOf(bindings, b.speaker) :
          Goto("pass", "move",
               [work["pass"] EXCEPT !.speaker = b.speaker, !.old = a,
                                    !.todo = @ \ {b}])
    /\ Thinks

\* There is none: an IndexError ends the pass.
RescheduleFails(b) ==
    /\ pc["pass"] = "each"
    /\ b.agent \notin alive
    /\ HostsOf(bindings, b.speaker) = {}
    /\ Done("pass")
    /\ Thinks

Leaving == Binding(work["pass"].old, work["pass"].speaker)

\* The transaction deletes the binding and schedules the speaker ...
MoveBegins ==
    LET s == work["pass"].speaker IN
    /\ pc["pass"] = "move"
    /\ Leaving \in bindings
    /\ \E a \in Choices(bindings \ {Leaving}, s) :
          Goto("pass", IF a = None THEN "commit" ELSE "cast",
               [work["pass"] EXCEPT !.new = a])
    /\ Thinks

MoveFails ==
    /\ pc["pass"] = "move"
    /\ Leaving \notin bindings
    /\ Done("pass")
    /\ Thinks

Insertable(bs) ==
    /\ \A b \in bs : Free(b.agent) /\ b.speaker \in existing
    /\ \A b, c \in bs : b.agent = c.agent => b = c

Arriving ==
    IF work["pass"].new = None
      THEN {}
      ELSE {Binding(work["pass"].new, work["pass"].speaker)}

\* ... and commits after the cast.  BgpSpeakerRescheduleError is caught: the
\* pass goes on.
MoveCommits ==
    /\ pc["pass"] = "commit"
    /\ Insertable(Arriving \ {Leaving})
    /\ bindings' = (bindings \ {Leaving}) \cup Arriving
    /\ Goto("pass", "each", [NoWork EXCEPT !.todo = work["pass"].todo])
    /\ UNCHANGED <<existing, agentVars, told, changes, faults>>

MoveRollsBack ==
    /\ pc["pass"] = "commit"
    /\ ~Insertable(Arriving \ {Leaving})
    /\ Done("pass")
    /\ Thinks

-----------------------------------------------------------------------------
(* schedule_all_unscheduled_bgp_speakers, one transaction for all hosts.   *)

Unscheduled == existing \ Bound(bindings)

Available == Active \ Occupied(bindings)

\* Each available agent gets a speaker as long as there is one left.
Assignments ==
    {P \in SUBSET [agent : Available, speaker : Unscheduled] :
        /\ \A b, c \in P : b.agent = c.agent <=> b.speaker = c.speaker
        /\ \/ Occupied(P) = Available
           \/ Bound(P) = Unscheduled}

\* Mutant: an agent is not free when any agent has a speaker.
AutoBeginsEmpty ==
    /\ pc["auto"] = "idle"
    /\ bindings = {}
    /\ \E P \in Assignments :
          /\ P # {}
          /\ Goto("auto", "commit", [NoWork EXCEPT !.todo = P])
    /\ Thinks

AutoBegins ==
    /\ pc["auto"] = "idle"
    /\ \E P \in Assignments :
          /\ P # {}
          /\ Goto("auto", "commit", [NoWork EXCEPT !.todo = P])
    /\ Thinks

\* No agent is told.
AutoCommits ==
    /\ pc["auto"] = "commit"
    /\ Insertable(work["auto"].todo)
    /\ bindings' = bindings \cup work["auto"].todo
    /\ Done("auto")
    /\ UNCHANGED <<existing, agentVars, told, changes, faults>>

AutoRollsBack ==
    /\ pc["auto"] = "commit"
    /\ ~Insertable(work["auto"].todo)
    /\ Done("auto")
    /\ Thinks

-----------------------------------------------------------------------------
(* Agents, and crashes of the server.                                      *)

AgentStops(a) == Change("stop") /\ alive' = alive \ {a} /\ UNCHANGED enabled

AgentReports(a) ==
    Change("report") /\ alive' = alive \cup {a} /\ UNCHANGED enabled

AgentToggled(a) ==
    /\ Change("toggle")
    /\ enabled' = IF a \in enabled THEN enabled \ {a} ELSE enabled \cup {a}
    /\ UNCHANGED alive

AgentEvent ==
    /\ \E a \in Agents : AgentStops(a) \/ AgentReports(a) \/ AgentToggled(a)
    /\ UNCHANGED <<tableVars, told, workerVars>>

\* An open transaction is rolled back, and casts not sent yet are lost.
Crash(w) ==
    /\ pc[w] # "idle"
    /\ faults < MaxFaults
    /\ faults' = faults + 1
    /\ Done(w)
    /\ UNCHANGED <<tableVars, agentVars, told, changes>>

ApiCall(w) ==
    \/ \E s \in Speakers : CreateSpeaker(w, s) \/ DeleteSpeaker(w, s)
    \/ \E a \in Agents, s \in Speakers : AddToAgent(w, a, s)
    \/ \E b \in bindings : RemoveFromAgent(w, b)

Continue(w) ==
    \/ Schedule(w) \/ Bind(w) \/ BindFails(w) \/ CastCreate(w)
    \/ DeleteCommits(w) \/ DeleteFails(w) \/ CastRemoved(w)

Pass ==
    \/ PassBegins \/ PassEnds
    \/ \E b \in work["pass"].todo :
          PassSkips(b) \/ Reschedule(b) \/ RescheduleFails(b)
    \/ MoveBegins \/ MoveFails \/ MoveCommits \/ MoveRollsBack
    \/ CastCreate("pass")

ScheduleAll == AutoBegins \/ AutoCommits \/ AutoRollsBack

Next ==
    \/ \E w \in ApiWorkers : ApiCall(w) \/ Continue(w)
    \/ Pass
    \/ ScheduleAll
    \/ AgentEvent
    \/ \E w \in Workers : Crash(w)

Spec == Init /\ [][Next]_vars

\* A call that is being served goes on, and the periodic workers run again
\* and again.
Fairness ==
    /\ \A w \in ApiWorkers : WF_vars(Continue(w))
    /\ WF_vars(Pass)
    /\ WF_vars(ScheduleAll)

FairSpec == Spec /\ Fairness

-----------------------------------------------------------------------------
\* An agent hosts one speaker: get_bgp_speakers_for_agent_host reads the
\* binding of the agent by query.one() (bgp_dragentscheduler_db.py:272), which
\* raises an exception for two.  Automatic and manual scheduling, rescheduling
\* and API calls all insert into the table, each from what it read earlier.
AgentHostsOne == \A b, c \in bindings : b.agent = c.agent => b = c

\* In the end no speaker is left without an agent while an active agent is
\* free ("It will automatically schedule newly created BGP speakers to one of
\* the active DRAgents", doc/source/admin/agent-scheduler.rst:115), whatever
\* transactions were rolled back and whatever crashed.
SpeakersGetAgents == <>[](Unscheduled = {} \/ Available = {})

\* In the end no enabled agent that is down keeps a speaker ("When a DRAgent
\* goes down, the BGP speaker will be disassociated from it", agent-scheduler.
\* rst:116), though a pass may end early and may move the speaker away from
\* another agent than the one that is down.
DownAgentsAreReleased == <>[](DownBindings = {})

\* The speaker bound to an agent.  get_bgp_speakers_for_agent_host finds it, but
\* returns {} for a disabled agent before it looks (BgpServer!Served).
HostedBy(bs, a) ==
    IF a \in Occupied(bs) THEN (CHOOSE b \in bs : b.agent = a).speaker ELSE None

Promise ==
    INSTANCE BgpHosting WITH hosting <- [a \in Agents |-> HostedBy(bindings, a)]

\* Transactions that decide by what they read and commit later, rollbacks and
\* crashes show in the table as steps that are whole: an agent never exchanges
\* its speaker for another, a speaker that is rescheduled never is at no agent
\* or at both in between, and with a speaker all its bindings go.
KeepsPromise == Promise!Spec
=============================================================================
