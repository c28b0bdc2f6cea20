--------------------------- MODULE BgpHostingProofs ---------------------------
(***************************************************************************)
(* Proof that BgpScheduler keeps the promise of BgpHosting: each step of    *)
(* the workers is a step of the promise, or leaves speakers and bindings.   *)
(***************************************************************************)
EXTENDS BgpSchedulerProofs

\* With one binding for an agent, query.one() returns its speaker.
LEMMA HostedOne ==
  ASSUME NEW bs, OneEach(bs), NEW b \in bs
  PROVE  HostedBy(bs, b.agent) = b.speaker
<1>1. b.agent \in Occupied(bs)
  BY DEF Occupied
<1> DEFINE c == CHOOSE x \in bs : x.agent = b.agent
<1>2. c \in bs /\ c.agent = b.agent
  OBVIOUS
<1>3. c = b
  BY <1>2 DEF OneEach
<1> QED BY <1>1, <1>3 DEF HostedBy

\* An agent without a binding hosts no speaker.
LEMMA HostedNone ==
  ASSUME NEW bs, NEW a, a \notin Occupied(bs)
  PROVE  HostedBy(bs, a) = None
  BY DEF HostedBy

\* An agent with a binding hosts the speaker of that binding.
LEMMA HostedSome ==
  ASSUME NEW bs, OneEach(bs), bs \subseteq Bindings, NEW a \in Occupied(bs)
  PROVE  /\ HostedBy(bs, a) \in Speakers
         /\ HostedBy(bs, a) # None
         /\ [agent |-> a, speaker |-> HostedBy(bs, a)] \in bs
<1>1. PICK b \in bs : b.agent = a
  BY DEF Occupied
<1>2. HostedBy(bs, a) = b.speaker
  BY <1>1, HostedOne
<1>3. b = [agent |-> a, speaker |-> b.speaker] /\ b.speaker \in Speakers
  BY <1>1 DEF Bindings
<1> QED BY <1>2, <1>3, NoneAssumption

\* New bindings of free agents change what those agents host.
LEMMA HostedMore ==
  ASSUME NEW bs, NEW new, OneEach(bs), OneEach(new),
         \A b \in new : b.agent \notin Occupied(bs),
         NEW a
  PROVE  HostedBy(bs \cup new, a) =
            IF a \in Occupied(new) THEN HostedBy(new, a) ELSE HostedBy(bs, a)
<1>1. OneEach(bs \cup new)
  BY InsertOne
<1>2. CASE a \in Occupied(new)
  <2>1. PICK b \in new : b.agent = a
    BY <1>2 DEF Occupied
  <2> QED BY <1>1, <1>2, <2>1, HostedOne
<1>3. CASE a \notin Occupied(new) /\ a \in Occupied(bs)
  <2>1. PICK b \in bs : b.agent = a
    BY <1>3 DEF Occupied
  <2> QED BY <1>1, <1>3, <2>1, HostedOne
<1>4. CASE a \notin Occupied(new) /\ a \notin Occupied(bs)
  <2>1. a \notin Occupied(bs \cup new)
    BY <1>4 DEF Occupied
  <2> QED BY <1>4, <2>1, HostedNone
<1> QED BY <1>2, <1>3, <1>4

\* Agents whose bindings are removed host nothing, and the others what they did.
LEMMA HostedLess ==
  ASSUME NEW bs, NEW some, OneEach(bs), some \subseteq bs, NEW a
  PROVE  HostedBy(some, a) =
            IF a \in Occupied(some) THEN HostedBy(bs, a) ELSE None
<1>1. OneEach(some)
  BY SubsetOne
<1>2. CASE a \in Occupied(some)
  <2>1. PICK b \in some : b.agent = a
    BY <1>2 DEF Occupied
  <2> QED BY <1>1, <1>2, <2>1, HostedOne
<1>3. CASE a \notin Occupied(some)
  BY <1>3, HostedNone
<1> QED BY <1>2, <1>3

-----------------------------------------------------------------------------
\* The invariant of AgentsHostOne, under which the steps map.
HostingInv == TypeOK /\ OneEach(bindings) /\ LockHeld

\* A step that inserts bindings of free agents to speakers that exist.
LEMMA InsertMaps ==
  ASSUME HostingInv, NEW new, OneEach(new), new \subseteq Bindings,
         \A b \in new : b.agent \notin Occupied(bindings)
                        /\ b.speaker \in existing,
         bindings' = bindings \cup new, existing' = existing
  PROVE  Promise!Next
<1> DEFINE A == Occupied(new)
           f == [a \in A |-> HostedBy(new, a)]
<1>1. A \in SUBSET Promise!Idle
  BY HostedNone DEF Promise!Idle, Occupied, Bindings
<1>2. \A a \in A : \E b \in new : b.agent = a /\ HostedBy(new, a) = b.speaker
  BY HostedOne DEF Occupied
<1>3. f \in [A -> existing]
  BY <1>2
<1>4. \A a \in Agents :
         HostedBy(bindings', a) = IF a \in A THEN f[a] ELSE HostedBy(bindings, a)
  BY HostedMore DEF HostingInv
<1>5. Promise!Assign(A, f)
  BY <1>4 DEF Promise!Assign
<1> QED BY <1>1, <1>3, <1>5 DEF Promise!Next

\* A step that removes one binding.
LEMMA RemoveMaps ==
  ASSUME HostingInv, NEW b \in bindings,
         bindings' = bindings \ {b}, existing' = existing
  PROVE  Promise!Next
<1>1. b.agent \in Agents /\ b.agent \in Occupied(bindings)
  BY DEF HostingInv, TypeOK, DataOK, Bindings, Occupied
<1>2. b.agent \notin Occupied(bindings') /\ OneEach(bindings)
  BY DEF HostingInv, OneEach, Occupied
<1>3. \A a \in Occupied(bindings) : a # b.agent => a \in Occupied(bindings')
  BY DEF Occupied
<1>4. \A a \in Agents :
         HostedBy(bindings', a) =
            IF a = b.agent THEN None ELSE HostedBy(bindings, a)
  BY <1>2, <1>3, HostedLess, HostedNone
<1>5. b.agent \notin Promise!Idle
  BY <1>1, HostedSome DEF Promise!Idle, HostingInv, TypeOK, DataOK
<1>6. Promise!Release(b.agent)
  BY <1>1, <1>4, <1>5 DEF Promise!Release
<1> QED BY <1>1, <1>6 DEF Promise!Next

\* A deleted speaker leaves all its agents in one step of the promise.
LEMMA DeleteMaps ==
  ASSUME HostingInv, NEW w \in ApiWorkers, DeleteCommits(w)
  PROVE  Promise!Next
<1> DEFINE s == work[w].speaker
<1>1. s \in Speakers
  BY DEF HostingInv, TypeOK, DataOK, DeleteCommits
<1>2. \A a \in Agents :
         HostedBy(bindings', a) =
            IF HostedBy(bindings, a) = s THEN None ELSE HostedBy(bindings, a)
  <2> SUFFICES ASSUME NEW a \in Agents
               PROVE  HostedBy(bindings', a) =
                        IF HostedBy(bindings, a) = s
                          THEN None ELSE HostedBy(bindings, a)
    OBVIOUS
  <2>0. bindings' = {b \in bindings : b.speaker # s} /\ OneEach(bindings)
    BY DEF DeleteCommits, HostingInv
  <2>1. CASE a \notin Occupied(bindings)
    <3>1. a \notin Occupied(bindings')
      BY <2>0, <2>1 DEF Occupied
    <3> QED BY <2>1, <3>1, HostedNone
  <2>2. CASE a \in Occupied(bindings)
    <3>1. PICK b \in bindings : b.agent = a
      BY <2>2 DEF Occupied
    <3>2. HostedBy(bindings, a) = b.speaker
      BY <2>0, <3>1, HostedOne
    <3>3. a \in Occupied(bindings') <=> b.speaker # s
      BY <2>0, <3>1 DEF Occupied, OneEach
    <3>4. bindings' \subseteq bindings
      BY <2>0
    <3>5. HostedBy(bindings', a) =
             IF a \in Occupied(bindings') THEN HostedBy(bindings, a) ELSE None
      BY <2>0, <3>4, HostedLess
    <3> QED BY <3>2, <3>3, <3>5
  <2> QED BY <2>1, <2>2
<1>3. Promise!Delete(s)
  BY <1>2 DEF Promise!Delete, DeleteCommits
<1> QED BY <1>1, <1>3 DEF Promise!Next

\* A rescheduling that commits moves the speaker, releases it when there is no
\* agent to get it, or puts back the binding it took away.
LEMMA MoveMaps ==
  ASSUME HostingInv, MoveCommits
  PROVE  Promise!Next \/ UNCHANGED tableVars
<1> DEFINE old == work["pass"].old
           new == work["pass"].new
           s   == work["pass"].speaker
<1>1. Leaving = Binding(old, s) /\ Leaving \in bindings /\ existing' = existing
  BY DEF MoveCommits, HostingInv, LockHeld, Locked, Leaving
<1>2. CASE new = None
  <2>1. bindings' = bindings \ {Leaving}
    BY <1>2 DEF MoveCommits, Arriving
  <2> QED BY <1>1, <2>1, RemoveMaps
<1>3. CASE new # None /\ Binding(new, s) = Leaving
  <2>1. bindings' = bindings
    BY <1>1, <1>3 DEF MoveCommits, Arriving
  <2> QED BY <1>1, <2>1 DEF tableVars
<1>4. CASE new # None /\ Binding(new, s) # Leaving
  <2>1. bindings' = (bindings \ {Leaving}) \cup {Binding(new, s)}
    BY <1>4 DEF MoveCommits, Arriving
  <2>2. new \notin Occupied(bindings)
    <3>1. Binding(new, s) \in Arriving \ {Leaving}
      BY <1>4 DEF Arriving
    <3>2. \A b \in Arriving \ {Leaving} : b.agent \notin Occupied(bindings)
      BY DEF MoveCommits, Insertable, Free
    <3> QED BY <3>1, <3>2 DEF Binding
  <2>3. old \in Occupied(bindings) /\ old \in Agents /\ old # new
    BY <1>1, <2>2 DEF Occupied, Binding, HostingInv, TypeOK, DataOK, Bindings
  <2>4. new \in Agents
    BY <1>4 DEF MoveCommits, HostingInv, TypeOK, WorkersOK, Workers, Fits, Works
  <2>5. HostedBy(bindings, old) = s
    BY <1>1, HostedOne DEF Binding, HostingInv
  <2> DEFINE kept == bindings \ {Leaving}
             one == {Binding(new, s)}
  <2>6. /\ OneEach(kept) /\ OneEach(one)
        /\ \A b \in one : b.agent \notin Occupied(kept)
    BY <2>2, SubsetOne DEF HostingInv, OneEach, Occupied, Binding
  <2>7. HostedBy(one, new) = s /\ Occupied(one) = {new}
    BY <2>6, HostedOne DEF Binding, Occupied
  <2>8. old \notin Occupied(kept)
    BY <1>1 DEF Occupied, Binding, HostingInv, OneEach
  <2>9. \A a \in Occupied(bindings) : a # old => a \in Occupied(kept)
    BY <1>1 DEF Occupied, Binding
  <2>10. \A a \in Agents :
            HostedBy(kept, a) = IF a = old THEN None ELSE HostedBy(bindings, a)
    BY <2>8, <2>9, HostedLess, HostedNone DEF HostingInv
  <2>11. \A a \in Agents :
            HostedBy(bindings', a) =
              IF a = new THEN s
              ELSE IF a = old THEN None ELSE HostedBy(bindings, a)
    <3> HIDE DEF kept, one
    <3>1. \A a : HostedBy(kept \cup one, a) =
             IF a \in Occupied(one) THEN HostedBy(one, a) ELSE HostedBy(kept, a)
      BY <2>6, HostedMore
    <3>2. bindings' = kept \cup one
      BY <2>1 DEF kept, one
    <3> QED BY <2>7, <2>10, <3>1, <3>2
  <2>12. old \notin Promise!Idle /\ new \in Promise!Idle
    BY <2>2, <2>3, <2>4, HostedSome, HostedNone
       DEF Promise!Idle, HostingInv, TypeOK, DataOK
  <2>13. Promise!Move(old, new)
    BY <1>1, <2>3, <2>4, <2>5, <2>11, <2>12 DEF Promise!Move
  <2> QED BY <2>3, <2>4, <2>13 DEF Promise!Next
<1> QED BY <1>2, <1>3, <1>4

\* Every step of the scheduler is a step of the promise or leaves the tables.
LEMMA StepMaps ==
  ASSUME HostingInv, [Next]_vars
  PROVE  Promise!Next \/ UNCHANGED tableVars
<1>1. ASSUME NEW w \in ApiWorkers, ApiCall(w) \/ Continue(w)
      PROVE  Promise!Next \/ UNCHANGED tableVars
  <2>1. CASE \E s \in Speakers : CreateSpeaker(w, s)
    <3> PICK s \in Speakers : CreateSpeaker(w, s)
      BY <2>1
    <3>1. Promise!Create(s)
      BY DEF CreateSpeaker, Promise!Create
    <3> QED BY <3>1 DEF Promise!Next
  <2>2. CASE \E a \in Agents, s \in Speakers : AddToAgent(w, a, s)
    <3> PICK a \in Agents, s \in Speakers : AddToAgent(w, a, s)
      BY <2>2
    <3> DEFINE new == {Binding(a, s)}
    <3>1. /\ OneEach(new) /\ new \subseteq Bindings
          /\ \A b \in new : b.agent \notin Occupied(bindings)
                            /\ b.speaker \in existing
      BY DEF AddToAgent, OneEach, Binding, Bindings, Free
    <3>2. bindings' = bindings \cup new /\ existing' = existing
      BY DEF AddToAgent
    <3> HIDE DEF new
    <3> QED BY <3>1, <3>2, InsertMaps
  <2>3. CASE \E b \in bindings : RemoveFromAgent(w, b)
    BY <2>3, RemoveMaps DEF RemoveFromAgent
  <2>4. CASE Bind(w)
    <3> DEFINE b == Binding(work[w].new, work[w].speaker)
               new == IF Free(work[w].new) THEN {b} ELSE {}
    <3>1. b \in Bindings
      BY <2>4 DEF HostingInv, TypeOK, WorkersOK, Workers, Fits, Bind, Binding,
                  Bindings
    <3>2. /\ OneEach(new) /\ new \subseteq Bindings
          /\ \A c \in new : c.agent \notin Occupied(bindings)
                            /\ c.speaker \in existing
      BY <2>4, <3>1 DEF OneEach, Binding, Free, Bind
    <3>3. bindings' = bindings \cup new /\ existing' = existing
      BY <2>4 DEF Bind
    <3> HIDE DEF new
    <3> QED BY <3>2, <3>3, InsertMaps
  <2>5. CASE DeleteCommits(w)
    BY <2>5, DeleteMaps
  <2>6. CASE \E s \in Speakers : DeleteSpeaker(w, s)
    BY <2>6 DEF DeleteSpeaker
  <2>7. CASE Schedule(w) \/ BindFails(w) \/ DeleteFails(w)
    BY <2>7 DEF Schedule, BindFails, DeleteFails, Thinks
  <2>8. CASE CastCreate(w) \/ CastRemoved(w)
    BY <2>8 DEF CastCreate, CastRemoved
  <2> QED
    BY <1>1, <2>1, <2>2, <2>3, <2>4, <2>5, <2>6, <2>7, <2>8
       DEF ApiCall, Continue
<1>2. CASE MoveCommits
  BY <1>2, MoveMaps
<1>3. CASE AutoCommits
  <2> DEFINE new == work["auto"].todo
  <2>1. /\ OneEach(new)
        /\ \A b \in new : b.agent \notin Occupied(bindings)
                          /\ b.speaker \in existing
    BY <1>3 DEF AutoCommits, Insertable, OneEach, Free
  <2>2. new \subseteq Bindings
    BY DEF HostingInv, TypeOK, WorkersOK, Workers, Fits, Works
  <2>3. bindings' = bindings \cup new /\ existing' = existing
    BY <1>3 DEF AutoCommits
  <2> HIDE DEF new
  <2> QED BY <2>1, <2>2, <2>3, InsertMaps
<1>4. CASE \/ PassBegins \/ PassEnds
           \/ \E b \in work["pass"].todo :
                 PassSkips(b) \/ Reschedule(b) \/ RescheduleFails(b)
           \/ MoveBegins \/ MoveFails \/ MoveRollsBack
  BY <1>4 DEF PassBegins, PassEnds, PassSkips, Reschedule, RescheduleFails,
              MoveBegins, MoveFails, MoveRollsBack, Thinks
<1>5. CASE CastCreate("pass") \/ AutoBegins \/ AutoRollsBack
  BY <1>5 DEF CastCreate, AutoBegins, AutoRollsBack, Thinks
<1>6. CASE AgentEvent \/ \E w \in Workers : Crash(w)
  BY <1>6 DEF AgentEvent, Crash
<1>7. CASE UNCHANGED vars
  BY <1>7 DEF vars
<1> QED
  BY <1>1, <1>2, <1>3, <1>4, <1>5, <1>6, <1>7 DEF Next, Pass, ScheduleAll

\* The transactions of any number of workers, their rollbacks and crashes show
\* in the tables only as whole steps of BgpHosting: binding an idle agent,
\* releasing one, moving a speaker, deleting one with all its bindings.
THEOREM SchedulerKeepsPromise == Spec => KeepsPromise
<1>1. Init => Promise!Init
  BY HostedNone DEF Init, Promise!Init, Occupied
<1>2. Init => HostingInv
  BY InitOK DEF HostingInv, Init, OneEach, LockHeld, Locked, Workers
<1>3. HostingInv /\ [Next]_vars => HostingInv'
  BY StepOK, TableStep, LockStep DEF HostingInv, OneEach
<1>4. HostingInv /\ [Next]_vars => [Promise!Next]_(Promise!vars)
  <2> SUFFICES ASSUME HostingInv, [Next]_vars
               PROVE  [Promise!Next]_(Promise!vars)
    OBVIOUS
  <2>1. CASE Promise!Next
    BY <2>1
  <2>2. CASE UNCHANGED tableVars
    <3>1. existing' = existing /\ bindings' = bindings
      BY <2>2 DEF tableVars
    <3> QED BY <3>1 DEF Promise!vars
  <2> QED BY <2>1, <2>2, StepMaps
<1> QED
  BY <1>1, <1>2, <1>3, <1>4, PTL DEF Spec, KeepsPromise, Promise!Spec
=============================================================================
