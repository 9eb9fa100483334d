--------------------------- MODULE RelayRace_proofs ---------------------------
(***************************************************************************)
(* Proofs about RelayRace, for any number of peers, blocks and handlers in *)
(* flight and every window: the shape of the state, the rollup, one credit *)
(* for a race, and that a recorded race stands.                            *)
(***************************************************************************)
EXTENDS RelayRace, FiniteSetTheorems, TLAPS

-----------------------------------------------------------------------------
(***************************************************************************)
(* The shape of the state. TypeOK is inductive as it stands.               *)
(***************************************************************************)

LEMMA NewCallType ==
  ASSUME TypeOK, NEW b \in Block
  PROVE  NewCall(b) \in Calls
BY DEF TypeOK, NewCall, Calls, Questions

\* An answer leaves a call a call.
LEMMA AnswerType ==
  ASSUME TypeOK, NEW c \in calls, NEW d \in Calls, Answer(c, d)
  PROVE  TypeOK'
BY DEF TypeOK, Answer, core, database

\* Fewer calls, and nothing else.
LEMMA EndType ==
  ASSUME TypeOK, calls' \subseteq calls, lastCatchUp' \in Time \cup {Never},
         UNCHANGED <<now, core, database>>
  PROVE  TypeOK'
BY DEF TypeOK, core, database

LEMMA CreditMark ==
  ASSUME NEW c, NEW p
  PROVE  Credit(c, p) \in {"eligible", "first"}
BY DEF Credit

\* What recordRace makes of the rows and the totals.
LEMMA FilledRows ==
  ASSUME TypeOK, NEW c \in calls, c.block \notin raced, FillRace(c)
  PROVE  /\ \A b \in Block, p \in Peer :
              obs'[b][p] = IF b = c.block /\ p \in c.eligible THEN Credit(c, p) ELSE obs[b][p]
         /\ obs' \in [Block -> [Peer -> Marks]]
         /\ \A p \in Peer :
              stats'[p] = IF p \in c.eligible THEN Counted(stats[p], Credit(c, p)) ELSE stats[p]
         /\ stats' \in [Peer -> Total]
<1>1. c.block \in Block /\ \A p \in Peer : obs[c.block][p] = "none"
  BY DEF TypeOK, Calls
<1>2. obs' = [obs EXCEPT ![c.block] = [p \in Peer |->
                IF p \in c.eligible /\ obs[c.block][p] = "none"
                THEN Credit(c, p) ELSE obs[c.block][p]]]
  BY DEF FillRace
<1>3. \A b \in Block, p \in Peer :
        obs'[b][p] = IF b = c.block /\ p \in c.eligible THEN Credit(c, p) ELSE obs[b][p]
  BY <1>1, <1>2 DEF TypeOK
<1>4. obs' \in [Block -> [Peer -> Marks]]
  BY <1>1, <1>2, CreditMark DEF TypeOK, Marks
<1>5. \A p \in Peer :
        stats'[p] = IF p \in c.eligible THEN Counted(stats[p], Credit(c, p)) ELSE stats[p]
  BY <1>1 DEF FillRace
<1>6. ASSUME NEW p \in Peer PROVE Counted(stats[p], Credit(c, p)) \in Total
  BY DEF TypeOK, Counted, Total
<1>7. stats' \in [Peer -> Total]
  BY <1>5, <1>6 DEF FillRace, TypeOK
<1>8. QED
  BY <1>3, <1>4, <1>5, <1>7

LEMMA RecordType ==
  ASSUME TypeOK, NEW c \in calls, Record(c)
  PROVE  TypeOK'
<1>1. FillRace(c) /\ c.block \notin raced /\ c.block \in Block
  BY DEF Record, TypeOK, Calls
<1>2. \A b \in Block \ raced' : \A p \in Peer : obs'[b][p] = "none"
  BY <1>1, FilledRows DEF TypeOK, Record
<1>3. QED
  BY <1>1, <1>2, FilledRows DEF TypeOK, Record, core

LEMMA HandlerType ==
  ASSUME TypeOK, Handler
  PROVE  TypeOK'
<1>1. ASSUME NEW c \in calls, AnswerPeers(c) PROVE TypeOK'
  <2> DEFINE d == [c EXCEPT !.waiting = @ \ {"peers"}, !.eligible = connected,
                            !.matches = {p \in connected : IsFirst(p, c.at)}]
  <2>1. d \in Calls
    BY DEF TypeOK, Calls
  <2>2. QED
    BY <1>1, <2>1, AnswerType DEF AnswerPeers
<1>2. ASSUME NEW c \in calls, AnswerHeader(c) PROVE TypeOK'
  <2>1. PICK told \in BOOLEAN :
          Answer(c, [c EXCEPT !.waiting = @ \ {"header"},
                              !.catching = @ \/ (told /\ height > c.block)])
    BY <1>2 DEF AnswerHeader
  <2>2. [c EXCEPT !.waiting = @ \ {"header"},
                  !.catching = @ \/ (told /\ height > c.block)] \in Calls
    BY DEF TypeOK, Calls
  <2>3. QED
    BY <2>1, <2>2, AnswerType
<1>3. ASSUME NEW c \in calls, AnswerChain(c) PROVE TypeOK'
  <2>1. PICK told \in BOOLEAN :
          Answer(c, [c EXCEPT !.waiting = @ \ {"chain"},
                              !.catching = @ \/ (told /\ headers > height)])
    BY <1>3 DEF AnswerChain
  <2>2. [c EXCEPT !.waiting = @ \ {"chain"},
                  !.catching = @ \/ (told /\ headers > height)] \in Calls
    BY DEF TypeOK, Calls
  <2>3. QED
    BY <2>1, <2>2, AnswerType
<1>4. ASSUME NEW c \in calls, PeersFail(c) PROVE TypeOK'
  BY <1>4, EndType DEF PeersFail, TypeOK
<1>5. ASSUME NEW c \in calls, Skip(c) PROVE TypeOK'
  BY <1>5, EndType DEF Skip, TypeOK, Calls
<1>6. ASSUME NEW c \in calls, Discard(c) PROVE TypeOK'
  BY <1>6, EndType DEF Discard, TypeOK
<1>7. ASSUME Restart PROVE TypeOK'
  BY <1>7, EndType DEF Restart
<1>8. QED
  BY <1>1, <1>2, <1>3, <1>4, <1>5, <1>6, <1>7, RecordType DEF Handler

LEMMA CoreType ==
  ASSUME TypeOK, Core
  PROVE  TypeOK'
<1> USE NumberAssumption
<1>1. CASE Tick
  BY <1>1 DEF Tick, TypeOK, Time, core, database
<1>2. CASE HeadersArrive
  BY <1>2 DEF HeadersArrive, TypeOK, database
<1>3. CASE Repeat
  <2>1. height \in Block
    BY <1>3 DEF Repeat, TypeOK, Block
  <2>2. QED
    BY <1>3, <2>1, NewCallType DEF Repeat, TypeOK, core, database
<1>4. ASSUME NEW p \in Peer, PeerConnects(p) PROVE TypeOK'
  BY <1>4 DEF PeerConnects, TypeOK, database
<1>5. ASSUME NEW p \in Peer, PeerLeaves(p) PROVE TypeOK'
  BY <1>5 DEF PeerLeaves, TypeOK, database
<1>6. ASSUME NEW p \in Peer, ConnectBlock(p) PROVE TypeOK'
  <2>1. height + 1 \in Block
    BY <1>6 DEF ConnectBlock, TypeOK, Block
  <2>2. calls' \subseteq Calls
    BY <1>6, <2>1, NewCallType DEF ConnectBlock, TypeOK
  <2>3. height' \in 0..MaxBlock /\ headers' \in height'..MaxBlock
    BY <1>6 DEF ConnectBlock, TypeOK
  <2>4. lastBlock' \in [Peer -> Time \cup {Never}]
    BY <1>6 DEF ConnectBlock, TypeOK
  <2>5. QED
    BY <1>6, <2>2, <2>3, <2>4 DEF ConnectBlock, TypeOK, database
<1>7. QED
  BY <1>1, <1>2, <1>3, <1>4, <1>5, <1>6 DEF Core

LEMMA TypeStep == TypeOK /\ [Next]_vars => TypeOK'
<1> SUFFICES ASSUME TypeOK, [Next]_vars PROVE TypeOK'
  OBVIOUS
<1>1. CASE ResetPeerData
  BY <1>1 DEF ResetPeerData, TypeOK, Marks, Total, NoTotal, core
<1>2. ASSUME NEW p \in Peer, Prune(p) PROVE TypeOK'
  BY <1>2 DEF Prune, TypeOK, Marks, Total, NoTotal, core
<1>3. CASE UNCHANGED vars
  BY <1>3 DEF vars, core, database, TypeOK
<1>4. QED
  BY <1>1, <1>2, <1>3, CoreType, HandlerType DEF Next

LEMMA TypeInit == Init => TypeOK
BY NumberAssumption
   DEF Init, TypeOK, Time, Marks, Total, NoTotal, Calls

\* Every variable keeps its shape, and an observation hangs on a race: no row of
\* recordRace outlives its relay_race.
THEOREM TypeCorrect == Spec => []TypeOK
<1>1. QED
  BY TypeInit, TypeStep, PTL DEF Spec

-----------------------------------------------------------------------------
(***************************************************************************)
(* The rollup. With the type it is inductive: a race's rows are new, as a  *)
(* block without a race has none, so each is counted once.                 *)
(***************************************************************************)

Rows(p) == {b \in Block : obs[b][p] # "none"}
Firsts(p) == {b \in Block : obs[b][p] = "first"}

LEMMA SetsFinite ==
  ASSUME NEW S \in SUBSET Block
  PROVE  IsFiniteSet(S) /\ Cardinality(S) \in Nat
<1>1. IsFiniteSet(Block)
  BY NumberAssumption, FS_Interval DEF Block
<1>2. QED
  BY <1>1, FS_Subset, FS_CardinalityType

RollupOf(p) ==
  stats[p] = [eligible |-> Cardinality(Rows(p)), first |-> Cardinality(Firsts(p))]

LEMMA RollupByPeer == RollupAgrees <=> \A p \in Peer : RollupOf(p)
BY DEF RollupAgrees, RollupOf, Rows, Firsts

\* Nothing but the two tables matters to the rollup.
LEMMA RollupUntouched == RollupAgrees /\ UNCHANGED <<obs, stats>> => RollupAgrees'
BY DEF RollupAgrees

LEMMA RecordRollup ==
  ASSUME TypeOK, NEW c \in calls, Record(c), NEW p \in Peer, RollupOf(p)
  PROVE  RollupOf(p)'
<1>1. /\ FillRace(c) /\ c.block \notin raced /\ c.block \in Block
      /\ c.block \notin Rows(p) /\ c.block \notin Firsts(p)
  BY DEF Record, TypeOK, Calls, Rows, Firsts
<1>2. CASE p \notin c.eligible
  <2>1. Rows(p)' = Rows(p) /\ Firsts(p)' = Firsts(p) /\ stats'[p] = stats[p]
    BY <1>1, <1>2, FilledRows DEF Rows, Firsts
  <2>2. QED
    BY <2>1 DEF RollupOf
<1>3. CASE p \in c.eligible
  <2>1. /\ Rows(p)' = Rows(p) \cup {c.block}
        /\ Firsts(p)' = IF Credit(c, p) = "first" THEN Firsts(p) \cup {c.block} ELSE Firsts(p)
    BY <1>1, <1>3, FilledRows, CreditMark DEF Rows, Firsts
  <2>2. stats'[p] = Counted(stats[p], Credit(c, p))
    BY <1>1, <1>3, FilledRows
  <2>3. /\ Cardinality(Rows(p) \cup {c.block}) = Cardinality(Rows(p)) + 1
        /\ Cardinality(Firsts(p) \cup {c.block}) = Cardinality(Firsts(p)) + 1
        /\ Cardinality(Firsts(p)) \in Nat
    BY <1>1, SetsFinite, FS_AddElement DEF Rows, Firsts
  <2>4. Cardinality(Rows(p)') = Cardinality(Rows(p)) + 1
    BY <2>1, <2>3
  <2>5. Cardinality(Firsts(p)') =
          Cardinality(Firsts(p)) + (IF Credit(c, p) = "first" THEN 1 ELSE 0)
    BY <2>1, <2>3
  <2>6. stats'[p] = [eligible |-> Cardinality(Rows(p)'), first |-> Cardinality(Firsts(p)')]
    BY <2>2, <2>4, <2>5 DEF Counted, RollupOf
  <2>7. QED
    BY <2>6 DEF RollupOf
<1>4. QED
  BY <1>2, <1>3

\* A peer without rows counts nothing.
LEMMA EmptyRollup ==
  ASSUME NEW p \in Peer, \A b \in Block : obs[b][p] = "none", stats[p] = NoTotal
  PROVE  RollupOf(p)
<1>1. Rows(p) = {} /\ Firsts(p) = {}
  BY DEF Rows, Firsts
<1>2. QED
  BY <1>1, FS_EmptySet DEF RollupOf, NoTotal

LEMMA PruneRollup ==
  ASSUME TypeOK, NEW q \in Peer, Prune(q), NEW p \in Peer, RollupOf(p)
  PROVE  RollupOf(p)'
<1>1. CASE p = q
  <2>1. (\A b \in Block : obs'[b][p] = "none") /\ stats'[p] = NoTotal
    BY <1>1 DEF Prune, TypeOK
  <2>2. Rows(p)' = {} /\ Firsts(p)' = {}
    BY <2>1 DEF Rows, Firsts
  <2>3. QED
    BY <2>1, <2>2, FS_EmptySet DEF RollupOf, NoTotal
<1>2. CASE p # q
  <2>1. (\A b \in Block : obs'[b][p] = obs[b][p]) /\ stats'[p] = stats[p]
    BY <1>2 DEF Prune, TypeOK
  <2>2. Rows(p)' = Rows(p) /\ Firsts(p)' = Firsts(p)
    BY <2>1 DEF Rows, Firsts
  <2>3. QED
    BY <2>1, <2>2 DEF RollupOf
<1>3. QED
  BY <1>1, <1>2

LEMMA ResetRollup ==
  ASSUME ResetPeerData, NEW p \in Peer
  PROVE  RollupOf(p)'
<1>1. Rows(p)' = {} /\ Firsts(p)' = {} /\ stats'[p] = NoTotal
  BY DEF ResetPeerData, Rows, Firsts
<1>2. QED
  BY <1>1, FS_EmptySet DEF RollupOf, NoTotal

\* Every step but recording, pruning and resetting leaves the three tables.
LEMMA QuietSteps ==
  ASSUME [Next]_vars
  PROVE  \/ UNCHANGED database
         \/ \E c \in calls : Record(c)
         \/ \E p \in Peer : Prune(p)
         \/ ResetPeerData
<1>1. CASE Core
  BY <1>1 DEF Core, Tick, HeadersArrive, Repeat, PeerConnects, PeerLeaves, ConnectBlock, database
<1>2. CASE Handler
  BY <1>2 DEF Handler, AnswerPeers, AnswerHeader, AnswerChain, PeersFail, Answer, Skip,
              Discard, Restart, database
<1>3. CASE UNCHANGED vars
  BY <1>3 DEF vars
<1>4. QED
  BY <1>1, <1>2, <1>3 DEF Next

\* The totals the ranking reads are what the rows of relay_observation add up to,
\* whatever handlers, pruning and resets do to the tables in between.
THEOREM RollupHolds == Spec => []RollupAgrees
<1>1. Init => RollupAgrees
  <2> SUFFICES ASSUME Init, NEW p \in Peer PROVE RollupOf(p)
    BY RollupByPeer
  <2>1. QED
    BY EmptyRollup DEF Init
<1>2. TypeOK /\ RollupAgrees /\ [Next]_vars => RollupAgrees'
  <2> SUFFICES ASSUME TypeOK, RollupAgrees, [Next]_vars PROVE RollupAgrees'
    OBVIOUS
  <2>1. \A p \in Peer : RollupOf(p)
    BY RollupByPeer
  <2>2. CASE UNCHANGED database
    BY <2>2, RollupUntouched DEF database
  <2>3. CASE ~UNCHANGED database
    <3>1. ASSUME NEW p \in Peer PROVE RollupOf(p)'
      BY <2>1, <2>3, QuietSteps, RecordRollup, PruneRollup, ResetRollup
    <3>2. QED
      BY <3>1 DEF RollupAgrees, RollupOf, Rows, Firsts
  <2>4. QED
    BY <2>2, <2>3
<1>3. QED
  BY <1>1, <1>2, TypeCorrect, PTL DEF Spec

-----------------------------------------------------------------------------
(***************************************************************************)
(* Races.                                                                  *)
(***************************************************************************)

\* A step gives a row or a credit only in the race it records.
LEMMA OldRaces ==
  ASSUME TypeOK, [Next]_vars, NEW b \in Block, NEW p \in Peer,
         \A c \in calls : Record(c) => b # c.block
  PROVE  obs'[b][p] \in {obs[b][p], "none"}
<1>1. ASSUME NEW c \in calls, Record(c) PROVE obs'[b][p] = obs[b][p]
  BY <1>1, FilledRows DEF Record
<1>2. ASSUME NEW q \in Peer, Prune(q) PROVE obs'[b][p] \in {obs[b][p], "none"}
  BY <1>2 DEF Prune, TypeOK
<1>3. CASE ResetPeerData
  BY <1>3 DEF ResetPeerData
<1>4. CASE UNCHANGED database
  BY <1>4 DEF database
<1>5. QED
  BY <1>1, <1>2, <1>3, <1>4, QuietSteps

\* A race once recorded stands: INSERT OR IGNORE on the block keeps a repeated
\* announcement from adding a peer to it or moving its credit.
THEOREM RacesStand == Spec => RaceStands
<1>1. TypeOK /\ [Next]_vars =>
        \A b \in raced : \A p \in Peer : obs'[b][p] \in {obs[b][p], "none"}
  BY OldRaces DEF Record, TypeOK
<1>2. QED
  BY <1>1, TypeCorrect, PTL DEF Spec, RaceStands

\* The peers credited for a race.
Credited(b) == {p \in Peer : obs[b][p] = "first"}

\* At most one element, without counting.
LEMMA AtMostOne ==
  ASSUME NEW S \in SUBSET Peer
  PROVE  Cardinality(S) <= 1 <=> \A p, q \in S : p = q
<1>1. IsFiniteSet(S) /\ Cardinality(S) \in Nat
  BY PeerAssumption, FS_Subset, FS_CardinalityType
<1>2. Cardinality(S) = 0 <=> S = {}
  BY <1>1, FS_EmptySet
<1>3. Cardinality(S) = 1 <=> \E x : S = {x}
  BY <1>1, FS_Singleton
<1>4. (\A p, q \in S : p = q) <=> S = {} \/ \E x : S = {x}
  OBVIOUS
<1>5. QED
  BY <1>1, <1>2, <1>3, <1>4

LEMMA RecordCredit ==
  ASSUME TypeOK, NEW c \in calls, Record(c),
         NEW p \in Credited(c.block)', NEW q \in Credited(c.block)'
  PROVE  p = q
<1>1. FillRace(c) /\ c.block \notin raced /\ c.block \in Block
  BY DEF Record, TypeOK, Calls
<1>2. ASSUME NEW r \in Peer, obs'[c.block][r] = "first" PROVE c.matches = {r}
  BY <1>1, <1>2, FilledRows DEF Credit, TypeOK
<1>3. QED
  BY <1>2 DEF Credited

\* A race credits one peer or nobody, however many matched.
THEOREM CreditsHold == Spec => []OneCredit
<1>1. Init => OneCredit
  <2> SUFFICES ASSUME Init, NEW b \in Block PROVE Cardinality(Credited(b)) <= 1
    BY DEF OneCredit, Credited
  <2>1. Credited(b) = {}
    BY DEF Init, Credited
  <2>2. QED
    BY <2>1, FS_EmptySet
<1>2. TypeOK /\ OneCredit /\ [Next]_vars => OneCredit'
  <2> SUFFICES ASSUME TypeOK, OneCredit, [Next]_vars, NEW b \in Block
               PROVE  Cardinality(Credited(b)') <= 1
    BY DEF OneCredit, Credited
  <2>1. \A p, q \in Credited(b) : p = q
    BY AtMostOne DEF OneCredit, Credited
  <2>2. ASSUME NEW c \in calls, Record(c), b = c.block
        PROVE  \A p, q \in Credited(b)' : p = q
    BY <2>2, RecordCredit
  <2>3. ASSUME \A c \in calls : Record(c) => b # c.block
        PROVE  \A p, q \in Credited(b)' : p = q
    <3>1. \A p \in Peer : obs'[b][p] \in {obs[b][p], "none"}
      BY <2>3, OldRaces
    <3>2. QED
      BY <2>1, <3>1 DEF Credited
  <2>4. \A p, q \in Credited(b)' : p = q
    BY <2>2, <2>3
  <2>5. QED
    BY <2>4, AtMostOne DEF Credited
<1>3. QED
  BY <1>1, <1>2, TypeCorrect, PTL DEF Spec
=============================================================================
