------------------------------ MODULE BgpHosting ------------------------------
(***************************************************************************)
(* What the binding of BGP speakers to agents promises: an agent hosts one  *)
(* speaker or none, and gets another only after it has lost the first; a    *)
(* speaker that is moved leaves one agent and reaches the other in one      *)
(* step; one that is deleted leaves all its agents at once.  How the        *)
(* server's workers come to that, by transactions that read, write, fail    *)
(* and are rolled back, is BgpScheduler.                                    *)
(***************************************************************************)
CONSTANTS
    Speakers,
    Agents,
    None

VARIABLES
    existing,   \* the speakers of the database
    hosting     \* the speaker that each agent hosts, or None

vars == <<existing, hosting>>

Init ==
    /\ existing = {}
    /\ hosting = [a \in Agents |-> None]

Idle == {a \in Agents : hosting[a] = None}

Create(s) ==
    /\ s \notin existing
    /\ existing' = existing \cup {s}
    /\ UNCHANGED hosting

Delete(s) ==
    /\ s \in existing
    /\ existing' = existing \ {s}
    /\ hosting' = [a \in Agents |-> IF hosting[a] = s THEN None ELSE hosting[a]]

\* Idle agents get speakers: one agent, or several by automatic scheduling.
Assign(A, f) ==
    /\ hosting' = [a \in Agents |-> IF a \in A THEN f[a] ELSE hosting[a]]
    /\ UNCHANGED existing

Release(a) ==
    /\ a \notin Idle
    /\ hosting' = [hosting EXCEPT ![a] = None]
    /\ UNCHANGED existing

Move(a, b) ==
    /\ a \notin Idle
    /\ b \in Idle
    /\ hosting' = [hosting EXCEPT ![a] = None, ![b] = hosting[a]]
    /\ UNCHANGED existing

Next ==
    \/ \E s \in Speakers : Create(s) \/ Delete(s)
    \/ \E A \in SUBSET Idle : \E f \in [A -> existing] : Assign(A, f)
    \/ \E a \in Agents : Release(a)
    \/ \E a, b \in Agents : Move(a, b)

Spec == Init /\ [][Next]_vars
=============================================================================
