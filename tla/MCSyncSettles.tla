---------------------------- MODULE MCSyncSettles ----------------------------
(***************************************************************************)
(* ManualSync in an environment that comes to rest. At some moment nobody  *)
(* starts a call any more and Core stays up and answers; calls in flight   *)
(* finish and passes keep coming, for RPCs have a timeout and the          *)
(* profiler's ten-minute interval keeps firing.                            *)
(***************************************************************************)
EXTENDS ManualSync

VARIABLE calm

settleVars == <<rows, kept, core, pending, parked, op, snap, sy, calm>>

CalmInit == SyncInit /\ calm = FALSE

Busy == ~calm /\ SyncNext /\ UNCHANGED calm

CalmDown == ~calm /\ calm' = TRUE /\ UNCHANGED syncVars

Finish(p) == calm /\ Step(p) /\ UNCHANGED <<sy, calm>>

Pass(s) == calm /\ PassStep(s) /\ UNCHANGED calm

CalmNext ==
  \/ Busy \/ CalmDown
  \/ \E p \in Actors : Finish(p)
  \/ \E s \in Syncers : Pass(s)

CalmSpec ==
  /\ CalmInit /\ [][CalmNext]_settleVars
  /\ \A p \in Actors : WF_settleVars(Finish(p))
  /\ \A s \in Syncers : WF_settleVars(Pass(s))

\* Whatever happened before - failed RPCs, calls cut off, Core restarts, entries
\* of somebody else's - once things are calm the passes bring the manual set and
\* Core's list together, and they stay together.
Settles == <>[](calm => InSync)
=============================================================================
