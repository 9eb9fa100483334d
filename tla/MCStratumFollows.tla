--------------------------- MODULE MCStratumFollows ---------------------------
(***************************************************************************)
(* StratumRace when the dashboard and the restarts come to rest: what the  *)
(* worker holds must come to match what the settings ask for.              *)
(***************************************************************************)
EXTENDS StratumRace, TLC

VARIABLE calm  \* TRUE once nobody edits anything and the worker stays up

allVars == <<vars, calm>>

PoolSymmetry == Permutations(Pool \ Malformed)

CalmInit == Init /\ calm = FALSE

CalmDown == ~calm /\ calm' = TRUE /\ UNCHANGED vars

CalmNext ==
  \/ /\ \/ \E p \in Pool : NewJob(p) \/ Connect(p) \/ Drop(p) \/ Notify(p)
        \/ Worker
        \/ ~calm /\ (Restart \/ Dashboard)
     /\ UNCHANGED calm
  \/ CalmDown

\* The periodic sync gets through at some point, and timers fire; the other
\* handlers, the pools and the toggle check promise nothing.
Fairness ==
  /\ WF_allVars(CalmDown)
  /\ WF_allVars(SyncConnections /\ UNCHANGED calm)
  /\ WF_allVars(Tick /\ UNCHANGED calm)
  /\ \A b \in Block : WF_allVars(Finalize(b) /\ UNCHANGED calm)

CalmSpec == CalmInit /\ [][CalmNext]_allVars /\ Fairness

Wanted == IF switch = "on" THEN {p \in Pool : pool[p] = "enabled"} ELSE {}

\* Whatever was edited, dropped, restarted or lost before, the worker comes to
\* watch exactly the enabled pools, none when switched off, and every race ends.
Follows == <>[](active = Wanted /\ open = {})
=============================================================================
