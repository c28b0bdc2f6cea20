-------------------------- MODULE BgpSchedulerProofs --------------------------
(***************************************************************************)
(* Proofs about BgpScheduler: the type invariant, and that an agent hosts  *)
(* one speaker, for any number of agents, speakers and API workers.        *)
(***************************************************************************)
EXTENDS BgpScheduler, TLAPS

\* A worker that goes to a place with a job that fits keeps every worker so.
LEMMA GotoFits ==
  ASSUME WorkersOK, NEW w \in Workers, NEW place, NEW job,
         Goto(w, place, job), Fits(w, place, job)
  PROVE  WorkersOK'
<1>1. DOMAIN pc' = Workers /\ DOMAIN work' = Workers
  BY DEF WorkersOK, Goto
<1>2. ASSUME NEW v \in Workers PROVE Fits(v, pc'[v], work'[v])
  <2>1. CASE v = w
    <3>1. pc'[v] = place /\ work'[v] = job
      BY <2>1 DEF WorkersOK, Goto
    <3> QED BY <3>1, <2>1
  <2>2. CASE v # w
    <3>1. pc'[v] = pc[v] /\ work'[v] = work[v]
      BY <2>2 DEF WorkersOK, Goto
    <3>2. Fits(v, pc[v], work[v])
      BY DEF WorkersOK
    <3> QED BY <3>1, <3>2
  <2> QED BY <2>1, <2>2
<1>3. \A v \in Workers : Fits(v, pc'[v], work'[v])
  BY <1>2
<1>4. \A v \in Workers : Fits(v, pc[v], work[v])'
  BY <1>3 DEF Fits
<1> QED BY <1>1, <1>4 DEF WorkersOK

\* A worker without a job fits.
LEMMA IdleFits == ASSUME NEW w \in Workers PROVE Fits(w, "idle", NoWork)
  BY DEF Fits, Places, Works, NoWork

\* A worker that is done is idle, which fits.
LEMMA DoneFits ==
  ASSUME WorkersOK, NEW w \in Workers, Done(w)
  PROVE  WorkersOK'
  BY GotoFits, IdleFits DEF Done

\* Steps that leave the workers alone.
LEMMA SameWorkers ==
  ASSUME WorkersOK, UNCHANGED workerVars
  PROVE  WorkersOK'
  BY DEF WorkersOK, workerVars, Fits

\* An API call counts as a change.
LEMMA CallData ==
  ASSUME DataOK, NEW w, NEW op, NEW place, NEW job, Call(w, op, place, job)
  PROVE  /\ changes' \in 0 .. MaxChanges /\ faults' \in 0 .. MaxFaults
         /\ enabled' = enabled /\ alive' = alive /\ told' = told
         /\ Goto(w, place, job)
  BY BoundAssumption DEF DataOK, Call, Change, agentVars

\* A step that only reads keeps the types of the data.
LEMMA ThinksData == ASSUME DataOK, Thinks PROVE DataOK'
  BY DEF DataOK, Thinks, tableVars, agentVars

\* The casts are well formed.
LEMMA TellType ==
  ASSUME told \in [Agents -> Casts \cup {None}], NEW agents,
         NEW op \in {"create", "remove"}, NEW s \in Speakers,
         Tell(agents, op, s)
  PROVE  told' \in [Agents -> Casts \cup {None}]
<1>1. [op |-> op, speaker |-> s] \in Casts
  BY DEF Casts
<1> QED BY <1>1 DEF Tell

\* The scheduler chooses an agent or none.
LEMMA ChoiceType ==
  ASSUME DataOK, NEW bs, NEW s, NEW a \in Choices(bs, s)
  PROVE  a \in Agents \/ a = None
  BY DEF DataOK, Choices, Hostable, Active

\* The types hold at first.
LEMMA InitOK == Init => TypeOK
<1> SUFFICES ASSUME Init PROVE TypeOK
  OBVIOUS
<1>1. DataOK
  BY BoundAssumption DEF Init, DataOK
<1>2. ASSUME NEW w \in Workers PROVE Fits(w, pc[w], work[w])
  BY IdleFits DEF Init
<1>3. WorkersOK
  BY <1>2 DEF Init, WorkersOK
<1> QED BY <1>1, <1>3 DEF TypeOK

\* A call of the API keeps the types.
LEMMA ApiCallOK ==
  ASSUME TypeOK, NEW w \in ApiWorkers, ApiCall(w)
  PROVE  TypeOK'
<1> USE DEF TypeOK
<1>w. w \in Workers /\ w # "pass" /\ w # "auto"
  BY WorkerAssumption DEF Workers
<1>1. CASE \E s \in Speakers : CreateSpeaker(w, s)
  <2> PICK s \in Speakers : CreateSpeaker(w, s)
    BY <1>1
  <2> DEFINE job == [NoWork EXCEPT !.speaker = s]
  <2>1. Call(w, "create", "schedule", job)
    BY DEF CreateSpeaker
  <2>2. Fits(w, "schedule", job)
    BY <1>w DEF Fits, Places, Works, NoWork
  <2>3. WorkersOK'
    BY <1>w, <2>1, <2>2, CallData, GotoFits
  <2>4. DataOK'
    BY <2>1, CallData DEF DataOK, CreateSpeaker
  <2> QED BY <2>3, <2>4
<1>2. CASE \E s \in Speakers : DeleteSpeaker(w, s)
  <2> PICK s \in Speakers : DeleteSpeaker(w, s)
    BY <1>2
  <2> DEFINE job == [NoWork EXCEPT !.speaker = s, !.tell = HostsOf(bindings, s)]
  <2>1. Call(w, "delete", "delete", job)
    BY DEF DeleteSpeaker
  <2>2. HostsOf(bindings, s) \subseteq Agents
    BY DEF DataOK, HostsOf, Bindings
  <2>3. Fits(w, "delete", job)
    BY <1>w, <2>2 DEF Fits, Places, Works, NoWork
  <2>4. WorkersOK'
    BY <1>w, <2>1, <2>3, CallData, GotoFits
  <2>5. DataOK'
    BY <2>1, CallData DEF DataOK, DeleteSpeaker, tableVars
  <2> QED BY <2>4, <2>5
<1>3. CASE \E a \in Agents, s \in Speakers : AddToAgent(w, a, s)
  <2> PICK a \in Agents, s \in Speakers : AddToAgent(w, a, s)
    BY <1>3
  <2> DEFINE job == [NoWork EXCEPT !.speaker = s, !.new = a]
  <2>1. Call(w, "add", "cast", job)
    BY DEF AddToAgent
  <2>2. Fits(w, "cast", job)
    BY <1>w DEF Fits, Places, Works, NoWork
  <2>3. WorkersOK'
    BY <1>w, <2>1, <2>2, CallData, GotoFits
  <2>4. bindings' \subseteq Bindings
    BY DEF DataOK, AddToAgent, Binding, Bindings
  <2>5. DataOK'
    BY <2>1, <2>4, CallData DEF DataOK, AddToAgent
  <2> QED BY <2>3, <2>5
<1>4. CASE \E b \in bindings : RemoveFromAgent(w, b)
  <2> PICK b \in bindings : RemoveFromAgent(w, b)
    BY <1>4
  <2> DEFINE job == [NoWork EXCEPT !.speaker = b.speaker, !.tell = {b.agent}]
  <2>1. Call(w, "remove", "uncast", job)
    BY DEF RemoveFromAgent
  <2>2. b.speaker \in Speakers /\ b.agent \in Agents
    BY DEF DataOK, Bindings
  <2>3. Fits(w, "uncast", job)
    BY <1>w, <2>2 DEF Fits, Places, Works, NoWork
  <2>4. WorkersOK'
    BY <1>w, <2>1, <2>3, CallData, GotoFits
  <2>5. DataOK'
    BY <2>1, CallData DEF DataOK, RemoveFromAgent
  <2> QED BY <2>4, <2>5
<1> QED BY <1>1, <1>2, <1>3, <1>4 DEF ApiCall

\* A worker that goes on keeps the types.
LEMMA CastCreateOK ==
  ASSUME TypeOK, NEW w \in Workers, w # "auto", CastCreate(w)
  PROVE  TypeOK'
<1> USE DEF TypeOK
<1>1. Fits(w, "cast", work[w])
  BY DEF WorkersOK, CastCreate
<1>2. work[w].speaker \in Speakers
  BY <1>1 DEF Fits
<1>3. told' \in [Agents -> Casts \cup {None}]
  BY <1>2, TellType DEF CastCreate, DataOK
<1>4. DataOK'
  BY <1>3 DEF DataOK, CastCreate, tableVars, agentVars
<1>5. CASE w = "pass"
  <2>1. Fits(w, "commit", work[w])
    BY <1>1, <1>5 DEF Fits, Places
  <2>2. WorkersOK'
    BY <1>5, <2>1, GotoFits DEF CastCreate
  <2> QED BY <1>4, <2>2
<1>6. CASE w # "pass"
  <2>1. WorkersOK'
    BY <1>6, DoneFits DEF CastCreate
  <2> QED BY <1>4, <2>1
<1> QED BY <1>5, <1>6

\* The steps of a call keep the types,
LEMMA ContinueOK ==
  ASSUME TypeOK, NEW w \in ApiWorkers, Continue(w)
  PROVE  TypeOK'
<1> USE DEF TypeOK
<1>w. w \in Workers /\ w # "pass" /\ w # "auto"
  BY WorkerAssumption DEF Workers
<1>f. Fits(w, pc[w], work[w])
  BY <1>w DEF WorkersOK
<1>1. CASE Schedule(w)
  <2> PICK a \in Choices(bindings, work[w].speaker) :
           IF a = None
             THEN Done(w)
             ELSE Goto(w, "bind", [work[w] EXCEPT !.new = a])
    BY <1>1 DEF Schedule
  <2>1. DataOK'
    BY <1>1, ThinksData DEF Schedule
  <2>2. CASE a = None
    BY <1>w, <2>1, <2>2, DoneFits
  <2>3. CASE a # None
    <3> DEFINE job == [work[w] EXCEPT !.new = a]
    <3>1. a \in Agents
      BY <2>3, ChoiceType
    <3>2. Fits(w, "bind", job)
      BY <1>1, <1>w, <1>f, <3>1 DEF Fits, Places, Works, Schedule
    <3> QED BY <1>w, <2>1, <2>3, <3>2, GotoFits
  <2> QED BY <2>2, <2>3
<1>2. CASE Bind(w)
  <2>1. Fits(w, "cast", work[w])
    BY <1>2, <1>w, <1>f DEF Fits, Places, Bind
  <2>2. Binding(work[w].new, work[w].speaker) \in Bindings
    BY <1>2, <1>f DEF Fits, Bind, Binding, Bindings
  <2>3. DataOK'
    BY <1>2, <2>2 DEF DataOK, Bind, agentVars
  <2> QED BY <1>2, <1>w, <2>1, <2>3, GotoFits DEF Bind
<1>3. CASE BindFails(w)
  BY <1>3, <1>w, DoneFits, ThinksData DEF BindFails
<1>4. CASE CastCreate(w)
  BY <1>4, <1>w, CastCreateOK
<1>5. CASE DeleteCommits(w)
  <2>1. Fits(w, "uncast", work[w])
    BY <1>5, <1>w, <1>f DEF Fits, Places, DeleteCommits
  <2>2. DataOK'
    BY <1>5 DEF DataOK, DeleteCommits, agentVars
  <2> QED BY <1>5, <1>w, <2>1, <2>2, GotoFits DEF DeleteCommits
<1>6. CASE DeleteFails(w)
  BY <1>6, <1>w, DoneFits, ThinksData DEF DeleteFails
<1>7. CASE CastRemoved(w)
  <2>1. work[w].speaker \in Speakers
    BY <1>7, <1>f DEF Fits, CastRemoved
  <2>2. told' \in [Agents -> Casts \cup {None}]
    BY <1>7, <2>1, TellType DEF CastRemoved, DataOK
  <2>3. DataOK'
    BY <1>7, <2>2 DEF DataOK, CastRemoved, tableVars, agentVars
  <2> QED BY <1>7, <1>w, <2>3, DoneFits DEF CastRemoved
<1> QED
  BY <1>1, <1>2, <1>3, <1>4, <1>5, <1>6, <1>7 DEF Continue

\* those of the rescheduling of down bindings,
LEMMA PassOK == ASSUME TypeOK, Pass PROVE TypeOK'
<1> USE DEF TypeOK
<1>w. "pass" \in Workers
  BY DEF Workers
<1>f. Fits("pass", pc["pass"], work["pass"])
  BY <1>w DEF WorkersOK
<1>1. CASE PassBegins
  <2> DEFINE job == [NoWork EXCEPT !.todo = DownBindings]
  <2>1. DownBindings \subseteq Bindings
    BY DEF DataOK, DownBindings
  <2>2. Fits("pass", "each", job)
    BY <2>1 DEF Fits, Places, Works, NoWork
  <2> QED BY <1>1, <1>w, <2>2, GotoFits, ThinksData DEF PassBegins
<1>2. CASE PassEnds
  BY <1>2, <1>w, DoneFits, ThinksData DEF PassEnds
<1>3. CASE \E b \in work["pass"].todo : PassSkips(b)
  <2> PICK b \in work["pass"].todo : PassSkips(b)
    BY <1>3
  <2> DEFINE job == [work["pass"] EXCEPT !.todo = @ \ {b}]
  <2>1. Fits("pass", "each", job)
    BY <1>f DEF Fits, Places, Works
  <2> QED BY <1>w, <2>1, GotoFits, ThinksData DEF PassSkips
<1>4. CASE \E b \in work["pass"].todo : Reschedule(b)
  <2> PICK b \in work["pass"].todo : Reschedule(b)
    BY <1>4
  <2> PICK a \in HostsOf(bindings, b.speaker) :
           Goto("pass", "move",
                [work["pass"] EXCEPT !.speaker = b.speaker, !.old = a,
                                     !.todo = @ \ {b}])
    BY DEF Reschedule
  <2> DEFINE job == [work["pass"] EXCEPT !.speaker = b.speaker, !.old = a,
                                         !.todo = @ \ {b}]
  <2>1. a \in Agents
    BY DEF DataOK, HostsOf, Bindings
  <2>2. b.speaker \in Speakers
    BY <1>f DEF Fits, Works, Bindings
  <2>3. Fits("pass", "move", job)
    BY <1>f, <2>1, <2>2 DEF Fits, Places, Works
  <2> QED BY <1>w, <2>3, GotoFits, ThinksData DEF Reschedule
<1>5. CASE \E b \in work["pass"].todo : RescheduleFails(b)
  BY <1>5, <1>w, DoneFits, ThinksData DEF RescheduleFails
<1>6. CASE MoveBegins
  <2> PICK a \in Choices(bindings \ {Leaving}, work["pass"].speaker) :
           Goto("pass", IF a = None THEN "commit" ELSE "cast",
                [work["pass"] EXCEPT !.new = a])
    BY <1>6 DEF MoveBegins
  <2> DEFINE job == [work["pass"] EXCEPT !.new = a]
  <2>1. a \in Agents \/ a = None
    BY ChoiceType
  <2>2. Fits("pass", IF a = None THEN "commit" ELSE "cast", job)
    BY <1>6, <1>f, <2>1 DEF Fits, Places, Works, MoveBegins
  <2> QED BY <1>6, <1>w, <2>2, GotoFits, ThinksData DEF MoveBegins
<1>7. CASE MoveFails
  BY <1>7, <1>w, DoneFits, ThinksData DEF MoveFails
<1>8. CASE MoveCommits
  <2> DEFINE job == [NoWork EXCEPT !.todo = work["pass"].todo]
  <2>1. Arriving \subseteq Bindings
    BY <1>8, <1>f DEF Fits, Works, Arriving, Binding, Bindings, MoveCommits
  <2>2. Fits("pass", "each", job)
    BY <1>f DEF Fits, Places, Works, NoWork
  <2>3. DataOK'
    BY <1>8, <2>1 DEF DataOK, MoveCommits, agentVars
  <2> QED BY <1>8, <1>w, <2>2, <2>3, GotoFits DEF MoveCommits
<1>9. CASE MoveRollsBack
  BY <1>9, <1>w, DoneFits, ThinksData DEF MoveRollsBack
<1>10. CASE CastCreate("pass")
  BY <1>10, <1>w, CastCreateOK
<1> QED
  BY <1>1, <1>2, <1>3, <1>4, <1>5, <1>6, <1>7, <1>8, <1>9, <1>10 DEF Pass

\* those of the periodic scheduling,
LEMMA AutoOK == ASSUME TypeOK, ScheduleAll PROVE TypeOK'
<1> USE DEF TypeOK
<1>w. "auto" \in Workers
  BY DEF Workers
<1>f. Fits("auto", pc["auto"], work["auto"])
  BY <1>w DEF WorkersOK
<1>1. CASE AutoBegins
  <2> PICK plan \in Assignments :
           Goto("auto", "commit", [NoWork EXCEPT !.todo = plan])
    BY <1>1 DEF AutoBegins
  <2>1. plan \subseteq Bindings
    BY DEF Assignments, Available, Active, Unscheduled, DataOK, Bindings
  <2>2. Fits("auto", "commit", [NoWork EXCEPT !.todo = plan])
    BY <2>1 DEF Fits, Places, Works, NoWork
  <2> QED BY <1>1, <1>w, <2>2, GotoFits, ThinksData DEF AutoBegins
<1>2. CASE AutoCommits
  <2>1. work["auto"].todo \subseteq Bindings
    BY <1>f DEF Fits, Works
  <2>2. DataOK'
    BY <1>2, <2>1 DEF DataOK, AutoCommits, agentVars
  <2> QED BY <1>2, <1>w, <2>2, DoneFits DEF AutoCommits
<1>3. CASE AutoRollsBack
  BY <1>3, <1>w, DoneFits, ThinksData DEF AutoRollsBack
<1> QED BY <1>1, <1>2, <1>3 DEF ScheduleAll

\* what happens to agents,
LEMMA AgentEventOK == ASSUME TypeOK, AgentEvent PROVE TypeOK'
<1> USE DEF TypeOK
<1>1. WorkersOK'
  BY SameWorkers DEF AgentEvent
<1>2. PICK a \in Agents : AgentStops(a) \/ AgentReports(a) \/ AgentToggled(a)
  BY DEF AgentEvent
<1>3. \E op : Change(op)
  BY <1>2 DEF AgentStops, AgentReports, AgentToggled
<1>4. changes' \in 0 .. MaxChanges /\ faults' = faults
  BY <1>3, BoundAssumption DEF Change, DataOK
<1>5. alive' \subseteq Agents /\ enabled' \subseteq Agents
  BY <1>2 DEF DataOK, AgentStops, AgentReports, AgentToggled
<1>6. DataOK'
  BY <1>4, <1>5 DEF DataOK, AgentEvent, tableVars
<1> QED BY <1>1, <1>6

\* and the crash of a worker.
LEMMA CrashOK ==
  ASSUME TypeOK, NEW w \in Workers, Crash(w)
  PROVE  TypeOK'
<1> USE DEF TypeOK
<1>1. WorkersOK'
  BY DoneFits DEF Crash
<1>2. DataOK'
  BY BoundAssumption DEF DataOK, Crash, tableVars, agentVars
<1> QED BY <1>1, <1>2

\* So does every step.
LEMMA StepOK == ASSUME TypeOK, [Next]_vars PROVE TypeOK'
<1>1. CASE \E w \in ApiWorkers : ApiCall(w) \/ Continue(w)
  BY <1>1, ApiCallOK, ContinueOK
<1>2. CASE Pass
  BY <1>2, PassOK
<1>3. CASE ScheduleAll
  BY <1>3, AutoOK
<1>4. CASE AgentEvent
  BY <1>4, AgentEventOK
<1>5. CASE \E w \in Workers : Crash(w)
  BY <1>5, CrashOK
<1>6. CASE UNCHANGED vars
  <2>1. WorkersOK'
    BY <1>6, SameWorkers DEF TypeOK, vars
  <2>2. DataOK'
    BY <1>6 DEF TypeOK, DataOK, vars, tableVars, agentVars
  <2> QED BY <2>1, <2>2 DEF TypeOK
<1> QED BY <1>1, <1>2, <1>3, <1>4, <1>5, <1>6 DEF Next

\* Whatever the workers interleave, each is at a place of its work with the
\* speaker and the agents that the place needs, and the table binds agents to
\* speakers: create_bgp_speaker, schedule_bgp_speaker, the passes of the
\* periodic workers, and their rollbacks.
THEOREM SchedulerTypes == Spec => []TypeOK
<1>1. Init => TypeOK
  BY InitOK
<1>2. TypeOK /\ [Next]_vars => TypeOK'
  BY StepOK
<1> QED BY <1>1, <1>2, PTL DEF Spec

-----------------------------------------------------------------------------
OneEach(bs) == \A b, c \in bs : b.agent = c.agent => b = c

\* The database accepts no binding of an agent that has one.
LEMMA InsertOne ==
  ASSUME NEW old, NEW new, OneEach(old), OneEach(new),
         \A b \in new : b.agent \notin Occupied(old)
  PROVE  OneEach(old \cup new)
  BY DEF OneEach, Occupied

\* Fewer bindings have one speaker per agent still.
LEMMA SubsetOne ==
  ASSUME NEW bs, NEW some, OneEach(bs), some \subseteq bs
  PROVE  OneEach(some)
  BY DEF OneEach

\* The row that the rescheduling deletes stays until its transaction ends: it
\* may be inserted again, for an agent that came back, without a duplicate.
LockHeld == Locked \subseteq bindings

\* A step of another worker that leaves the locked row.
LEMMA LockStays ==
  ASSUME LockHeld, pc'["pass"] = pc["pass"], work'["pass"] = work["pass"],
         bindings \cap Locked \subseteq bindings'
  PROVE  LockHeld'
  BY DEF LockHeld, Locked

\* Every step keeps the row that a rescheduling has locked.
LEMMA LockStep ==
  ASSUME TypeOK, LockHeld, [Next]_vars
  PROVE  LockHeld'
<1>w. "pass" \in Workers /\ DOMAIN pc = Workers /\ DOMAIN work = Workers
  BY DEF TypeOK, WorkersOK, Workers
<1>g. ASSUME NEW w, w # "pass", NEW place, NEW job, Goto(w, place, job)
      PROVE  pc'["pass"] = pc["pass"] /\ work'["pass"] = work["pass"]
  BY <1>w, <1>g DEF Goto
<1>1. ASSUME NEW w \in ApiWorkers, ApiCall(w) \/ Continue(w) PROVE LockHeld'
  <2>w. w # "pass"
    BY WorkerAssumption
  <2>1. CASE \E s \in Speakers : CreateSpeaker(w, s) \/ DeleteSpeaker(w, s)
    BY <2>1, <2>w, <1>g, LockStays DEF CreateSpeaker, DeleteSpeaker, Call, tableVars
  <2>2. CASE \E a \in Agents, s \in Speakers : AddToAgent(w, a, s)
    BY <2>2, <2>w, <1>g, LockStays DEF AddToAgent, Call
  <2>3. CASE \E b \in bindings : RemoveFromAgent(w, b)
    BY <2>3, <2>w, <1>g, LockStays DEF RemoveFromAgent, Call
  <2>4. CASE Bind(w)
    BY <2>4, <2>w, <1>g, LockStays DEF Bind
  <2>5. CASE DeleteCommits(w)
    BY <2>5, <2>w, <1>g, LockStays DEF DeleteCommits
  <2>6. CASE Schedule(w) \/ BindFails(w) \/ DeleteFails(w)
    BY <2>6, <2>w, <1>g, LockStays
       DEF Schedule, BindFails, DeleteFails, Done, Thinks, tableVars
  <2>7. CASE CastCreate(w) \/ CastRemoved(w)
    BY <2>7, <2>w, <1>g, LockStays DEF CastCreate, CastRemoved, Done, tableVars
  <2> QED
    BY <1>1, <2>1, <2>2, <2>3, <2>4, <2>5, <2>6, <2>7 DEF ApiCall, Continue
<1>p. ASSUME NEW place \in {"idle", "each", "move"}, NEW job,
             Goto("pass", place, job)
      PROVE  LockHeld'
  BY <1>p, <1>w DEF Goto, LockHeld, Locked
<1>2. CASE \/ PassBegins \/ PassEnds
           \/ \E b \in work["pass"].todo :
                 PassSkips(b) \/ Reschedule(b) \/ RescheduleFails(b)
           \/ MoveFails \/ MoveCommits \/ MoveRollsBack
  BY <1>2, <1>p DEF PassBegins, PassEnds, PassSkips, Reschedule,
     RescheduleFails, MoveFails, MoveCommits, MoveRollsBack, Done
<1>3. CASE MoveBegins
  <2> PICK a \in Choices(bindings \ {Leaving}, work["pass"].speaker) :
           Goto("pass", IF a = None THEN "commit" ELSE "cast",
                [work["pass"] EXCEPT !.new = a])
    BY <1>3 DEF MoveBegins
  <2>1. work["pass"] \in Works
    BY <1>w DEF TypeOK, WorkersOK, Fits
  <2>2. /\ work'["pass"].old = work["pass"].old
        /\ work'["pass"].speaker = work["pass"].speaker
    BY <1>w, <2>1 DEF Goto, Works
  <2>3. bindings' = bindings /\ Leaving \in bindings
    BY <1>3 DEF MoveBegins, Thinks, tableVars
  <2> QED BY <2>2, <2>3 DEF LockHeld, Locked, Leaving
<1>4. CASE CastCreate("pass")
  <2>1. Locked' = Locked
    BY <1>4, <1>w DEF CastCreate, Goto, Locked
  <2> QED BY <1>4, <2>1 DEF CastCreate, LockHeld, tableVars
<1>5. CASE ScheduleAll
  BY <1>5, <1>g, LockStays DEF ScheduleAll, AutoBegins, AutoCommits,
     AutoRollsBack, Done, Thinks, tableVars
<1>6. CASE AgentEvent \/ UNCHANGED vars
  BY <1>6, LockStays DEF AgentEvent, vars, tableVars, workerVars
<1>7. CASE \E w \in Workers : Crash(w)
  <2> PICK w \in Workers : Crash(w)
    BY <1>7
  <2>1. CASE w = "pass"
    BY <2>1, <1>p DEF Crash, Done
  <2>2. CASE w # "pass"
    BY <2>2, <1>g, LockStays DEF Crash, Done, tableVars
  <2> QED BY <2>1, <2>2
<1> QED BY <1>1, <1>2, <1>3, <1>4, <1>5, <1>6, <1>7 DEF Next, Pass

\* Each step that writes the table keeps one speaker for an agent.
LEMMA TableStep ==
  ASSUME TypeOK, OneEach(bindings), LockHeld, [Next]_vars
  PROVE  OneEach(bindings')
<1>1. ASSUME NEW w \in ApiWorkers, ApiCall(w) \/ Continue(w)
      PROVE  OneEach(bindings')
  <2>1. CASE \E s \in Speakers : CreateSpeaker(w, s) \/ DeleteSpeaker(w, s)
    BY <2>1 DEF CreateSpeaker, DeleteSpeaker, tableVars
  <2>2. CASE \E a \in Agents, s \in Speakers : AddToAgent(w, a, s)
    <3> PICK a \in Agents, s \in Speakers : AddToAgent(w, a, s)
      BY <2>2
    <3>1. OneEach({Binding(a, s)})
      BY DEF OneEach
    <3>2. \A b \in {Binding(a, s)} : b.agent \notin Occupied(bindings)
      BY DEF AddToAgent, Free, Binding
    <3>3. bindings' = bindings \cup {Binding(a, s)}
      BY DEF AddToAgent
    <3> QED BY <3>1, <3>2, <3>3, InsertOne
  <2>3. CASE \E b \in bindings : RemoveFromAgent(w, b)
    BY <2>3, SubsetOne DEF RemoveFromAgent
  <2>4. CASE Bind(w)
    <3> DEFINE b == Binding(work[w].new, work[w].speaker)
               new == IF Free(work[w].new) THEN {b} ELSE {}
    <3>1. OneEach(new)
      BY DEF OneEach
    <3>2. \A c \in new : c.agent \notin Occupied(bindings)
      BY DEF Free, Binding
    <3>3. bindings' = bindings \cup new
      BY <2>4 DEF Bind
    <3> HIDE DEF new
    <3> QED BY <3>1, <3>2, <3>3, InsertOne
  <2>5. CASE DeleteCommits(w)
    BY <2>5, SubsetOne DEF DeleteCommits
  <2>6. CASE Schedule(w) \/ BindFails(w) \/ DeleteFails(w)
    BY <2>6 DEF Schedule, BindFails, DeleteFails, Thinks, tableVars
  <2>7. CASE CastCreate(w) \/ CastRemoved(w)
    BY <2>7 DEF CastCreate, CastRemoved, tableVars
  <2> QED
    BY <1>1, <2>1, <2>2, <2>3, <2>4, <2>5, <2>6, <2>7 DEF ApiCall, Continue
<1>2. CASE MoveCommits
  <2> DEFINE kept == bindings \ {Leaving}
             new == Arriving \ {Leaving}
  <2>1. OneEach(kept) /\ OneEach(new)
    BY SubsetOne DEF OneEach, Arriving
  <2>2. \A b \in new : b.agent \notin Occupied(kept)
    BY <1>2 DEF MoveCommits, Insertable, Free, Occupied
  <2>3. OneEach(kept \cup new)
    <3> HIDE DEF kept, new
    <3> QED BY <2>1, <2>2, InsertOne
  <2>4. CASE Leaving \in Arriving
    <3>1. Arriving = {Leaving} /\ Leaving \in bindings
      BY <1>2, <2>4 DEF Arriving, LockHeld, Locked, Leaving, MoveCommits
    <3> QED BY <1>2, <3>1, SubsetOne DEF MoveCommits
  <2>5. CASE Leaving \notin Arriving
    <3>1. new = Arriving
      BY <2>5
    <3> QED BY <1>2, <2>3, <3>1 DEF MoveCommits
  <2> QED BY <2>4, <2>5
<1>3. CASE AutoCommits
  <2>1. OneEach(work["auto"].todo)
    BY <1>3 DEF AutoCommits, Insertable, OneEach
  <2>2. \A b \in work["auto"].todo : b.agent \notin Occupied(bindings)
    BY <1>3 DEF AutoCommits, Insertable, Free
  <2> QED BY <1>3, <2>1, <2>2, InsertOne DEF AutoCommits
<1>4. CASE \/ PassBegins \/ PassEnds
           \/ \E b \in work["pass"].todo :
                 PassSkips(b) \/ Reschedule(b) \/ RescheduleFails(b)
           \/ MoveBegins \/ MoveFails \/ MoveRollsBack
  BY <1>4 DEF PassBegins, PassEnds, PassSkips, Reschedule, RescheduleFails,
              MoveBegins, MoveFails, MoveRollsBack, Thinks, tableVars
<1>5. CASE CastCreate("pass") \/ AutoBegins \/ AutoRollsBack
  BY <1>5 DEF CastCreate, AutoBegins, AutoRollsBack, Thinks, tableVars
<1>6. CASE AgentEvent \/ \E w \in Workers : Crash(w)
  BY <1>6 DEF AgentEvent, Crash, tableVars
<1>7. CASE UNCHANGED vars
  BY <1>7 DEF vars, tableVars
<1> QED
  BY <1>1, <1>2, <1>3, <1>4, <1>5, <1>6, <1>7 DEF Next, Pass, ScheduleAll

\* query.one() in get_bgp_speakers_for_agent_host finds no second binding,
\* although every writer decides by what it read before it writes.
THEOREM AgentsHostOne == Spec => []AgentHostsOne
<1> DEFINE Inv == TypeOK /\ OneEach(bindings) /\ LockHeld
<1>1. Init => Inv
  BY InitOK DEF Init, OneEach, LockHeld, Locked, Workers
<1>2. Inv /\ [Next]_vars => Inv'
  BY StepOK, TableStep, LockStep DEF OneEach
<1>3. Inv => AgentHostsOne
  BY DEF OneEach, AgentHostsOne
<1> QED BY <1>1, <1>2, <1>3, PTL DEF Spec
=============================================================================
