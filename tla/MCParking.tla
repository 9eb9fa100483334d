----------------------------- MODULE MCParking -----------------------------
(***************************************************************************)
(* Rotation with another memory: how often each parked peer that was due   *)
(* has been passed over.                                                   *)
(***************************************************************************)
EXTENDS Rotation, TLC

CONSTANT Patience  \* how often a peer that is due may be passed over

\* As often as there are peers beyond the few of a tick; and time is told apart.
ASSUME PatienceAssumption ==
  Patience \in Nat /\ Patience + ProbesPerTick >= Cardinality(Addr) /\ MaxInterval > 0

VARIABLES waiting, missed

AddrSymmetry == Permutations(Addr)

\* Those that are due and not chosen. Knocks on peers just parked are no reason
\* to complain: these come first, and how many there are is up to the peers.
Waiting ==
  LET knocks == tick'.knocks
      fair == Len(knocks) = ProbesPerTick /\ \A b \in ToSet(knocks) : quiet[b] = Never
  IN  IF In("retire") /\ tick'.pass = "revive"
      THEN {a \in ToSet(queue') : quiet[a] # Never /\ IsDue(a) /\ ~fair} \ ToSet(knocks)
      ELSE IF tick' = Idle \/ (Ask /\ knocks = <<>>) THEN {}
      ELSE waiting \cap ToSet(queue')

\* They were passed over once the tick has knocked on the others.
Missed ==
  [a \in Addr |->
    IF a \notin ToSet(queue') \/ (quiet'[a] = 0 /\ quiet[a] # 0) THEN 0
    ELSE IF EndRevive /\ a \in waiting THEN Later(missed[a], Patience + 1) ELSE missed[a]]

QueueInit == Init /\ waiting = {} /\ missed = [a \in Addr |-> 0]

QueueNext == Next /\ waiting' = Waiting /\ missed' = Missed

QueueSpec == QueueInit /\ [][QueueNext]_<<vars, waiting, missed>>

\* "Due first, then the few per tick" (reviveParkedPeers): a parked peer whose
\* backoff is over waits for its turn among those that are due, never for one that
\* keeps failing and is to be left alone.
DueSoon == \A a \in Addr : missed[a] <= Patience
=============================================================================
