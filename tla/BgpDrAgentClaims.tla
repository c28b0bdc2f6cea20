--------------------------- MODULE BgpDrAgentClaims ---------------------------
(***************************************************************************)
(* What comments and documents say of the agent, stated as properties that *)
(* the agent does not have.  Each is refuted by a run of its own.          *)
(***************************************************************************)
EXTENDS BgpDrAgent

\* "os-ken can only support One speaker" (driver/os_ken/driver.py:77): the
\* driver never runs two.  The test of the count and the update of the cache
\* are not one step, and the threads of the agent share no lock.
OneSpeakerRuns == Cardinality(DOMAIN driver) <= 1

\* "Re-sync already scheduled for the queried BGP speaker. ... Let's stop
\* processing and wait for re-sync to happen" (bgp_dragent.py:526): the resync
\* a driver failure schedules brings the driver to the cache's sessions.
ResyncRepairsSessions ==
    \/ <>overlapped
    \/ <>[](\A s \in DOMAIN cache :
              LocalAS[s] \in DOMAIN driver =>
                  driver[LocalAS[s]].peers = cache[s].peers)
=============================================================================
