----------------------------- MODULE MCRotation -----------------------------
(***************************************************************************)
(* Rotation with a memory: whom the running tick has let in, whom of those *)
(* it knows to be offline and to have a record it has taken out, and whom  *)
(* a person has touched, or Core held for the first time, since it began.  *)
(***************************************************************************)
EXTENDS Rotation, TLC

VARIABLES entered, taken, touched

memory == <<entered, taken, touched>>

OthersSymmetry == Permutations(Addr \ (Starrable \cup Restless \cup Handed))

Entering == rows' \ rows
Leaving == rows \ rows'

MemInit == Init /\ entered = {} /\ taken = {} /\ touched = {}

MemNext ==
  /\ Next
  /\ IF tick' = Idle THEN entered' = {} /\ taken' = {} /\ touched' = {}
     ELSE IF tick' # tick
     THEN /\ entered' = entered \cup Entering
          /\ taken' = taken \cup (Leaving \cap tick.measured)
          /\ UNCHANGED touched
     ELSE /\ touched' = touched \cup Entering \cup Leaving \cup (starred' \ starred) \cup (held' \ held)
          /\ UNCHANGED <<entered, taken>>

MemSpec == MemInit /\ [][MemNext]_<<vars, memory>>

\* One peer joins the manual set per tick at most, revived or promoted (tick).
OneJoin == Cardinality(entered) <= 1

\* Being added again restarts the grace: a tick retires only a peer that has had
\* its slot for the whole of it (offlineForMs), but for one that a person re-added
\* while the tick was on its way.
GraceHonoured ==
  [][\A a \in Addr : Retire(a) => since[a] >= Grace \/ a \in touched]_<<vars, memory>>

\* "A peer with the star set is never a candidate for displacement", and loses its
\* slot for being away only when it never stood: neither a swap nor a retirement
\* takes it, unless its star or its first session came after the tick had begun.
StarHolds ==
  [][\A a \in starred \cap held :
       a \notin rows' => tick' = tick \/ a \in touched]_<<vars, memory>>

\* "Losing a slot is meant to be reversible" (peer-sync.js:497): an offline peer with
\* a record that a tick has taken out, retired or displaced, is parked or back when
\* the tick ends, unless a person had a hand in it. One that was never connected for
\* a block is not parked (parkPeer), and is not meant.
Reversible ==
  [][EndRevive \/ EndPromote => taken \subseteq rows \cup Parked \cup touched]_<<vars, memory>>
=============================================================================
