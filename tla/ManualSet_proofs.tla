--------------------------- MODULE ManualSet_proofs ---------------------------
(***************************************************************************)
(* Proofs about ManualSet, for every set of addresses and actors, every    *)
(* limit and every choice of what may fail: the shape of the state, the    *)
(* bound on the rows, and that ManualSet implements SlotBook.              *)
(***************************************************************************)
EXTENDS MCManualRaces, ManualSync, FiniteSetTheorems, TLAPS

-----------------------------------------------------------------------------
\* A set of addresses is finite and has a size, as Addr is finite.
LEMMA RowsFinite ==
  ASSUME NEW S \in SUBSET Addr
  PROVE  IsFiniteSet(S) /\ Cardinality(S) \in Nat
BY AddrAssumption, FS_Subset, FS_CardinalityType

\* The size of the rows after one address more, and after one less.
LEMMA OneMore ==
  ASSUME NEW S \in SUBSET Addr, NEW a \in Addr
  PROVE  /\ Cardinality(S \cup {a}) <= Cardinality(S) + 1
         /\ a \in S => Cardinality(S \cup {a}) = Cardinality(S)
BY RowsFinite, FS_AddElement

LEMMA OneLess ==
  ASSUME NEW S \in SUBSET Addr, NEW a
  PROVE  Cardinality(S \ {a}) <= Cardinality(S)
BY RowsFinite, FS_RemoveElement

\* Whoever is displaced is an address, so it can be parked.
LEMMA EvictableAddr == TypeOK => Evictable \subseteq Addr
BY DEF TypeOK, Evictable

-----------------------------------------------------------------------------
\* Type correctness needs one thing more than shapes: a call that has come to a
\* point knows the addresses it works on there.
Knows(call) ==
  /\ call.pc \in {"add", "write", "displace", "takeback"} => call.addr \in Addr
  /\ call.pc \in {"displace", "remove", "park"} => call.out \in Addr

CallsKnow == \A p \in Actors : Knows(op[p])

Shape == TypeOK /\ CallsKnow

\* The part of TypeOK that is not about the calls.
GoodSets ==
  /\ rows \subseteq Addr /\ kept \subseteq rows /\ core \subseteq Addr
  /\ pending \subseteq Addr /\ parked \subseteq Addr
  /\ snap \in [Actors -> Snapshots]

LEMMA SnapshotTypes ==
  /\ NoSnapshot \in Snapshots
  /\ TypeOK => Ranking \in Snapshots
BY EvictableAddr DEF TypeOK, NoSnapshot, Snapshots, Ranking

\* An action that gives one actor a good call and leaves good sets leaves the
\* shape.
LEMMA CallShape ==
  ASSUME NEW p \in Actors, NEW call \in Calls, Shape, Knows(call),
         op' = [op EXCEPT ![p] = call],
         GoodSets'
  PROVE  Shape'
<1>1. op' \in [Actors -> Calls]
  BY DEF Shape, TypeOK
<1>2. ASSUME NEW q \in Actors PROVE Knows(op'[q])
  <2>1. CASE q = p
    BY <2>1 DEF Shape, TypeOK
  <2>2. CASE q # p
    BY <2>2 DEF Shape, TypeOK, CallsKnow
  <2>3. QED
    BY <2>1, <2>2
<1>3. CallsKnow'
  BY <1>2 DEF CallsKnow, Knows
<1>4. QED
  BY <1>1, <1>3 DEF Shape, TypeOK, GoodSets

\* The calls an actor may be given: one moved to another point, or none.
LEMMA MovedCall ==
  ASSUME NEW p \in Actors, NEW point \in Points, Shape
  PROVE  /\ [op[p] EXCEPT !.pc = point] \in Calls
         /\ [op[p] EXCEPT !.pc = point].addr = op[p].addr
         /\ [op[p] EXCEPT !.pc = point].out = op[p].out
         /\ [op[p] EXCEPT !.pc = point].pc = point
         /\ Goto(p, point) => op' = [op EXCEPT ![p] = [op[p] EXCEPT !.pc = point]]
BY DEF Shape, TypeOK, Calls, Goto

LEMMA IdleCall == Idle \in Calls /\ Knows(Idle)
BY DEF Idle, Calls, Points, Knows

LEMMA BeginAddShape ==
  ASSUME NEW p \in Actors, NEW a \in Addr, NEW star \in BOOLEAN,
         NEW victims \in SUBSET Addr, Shape, BeginAdd(p, a, star, victims)
  PROVE  Shape'
<1>1. PICK v \in Addr \cup {NoAddr}, park \in BOOLEAN :
        op' = [op EXCEPT ![p] = [Idle EXCEPT !.pc = "add", !.addr = a, !.out = v,
                                             !.star = star, !.park = park]]
  BY DEF BeginAdd, MayPark
<1> DEFINE call == [Idle EXCEPT !.pc = "add", !.addr = a, !.out = v,
                                !.star = star, !.park = park]
<1>2. call \in Calls /\ Knows(call)
  BY DEF Idle, Calls, Points, Knows
<1>3. QED
  BY <1>1, <1>2, CallShape DEF BeginAdd, Shape, TypeOK, GoodSets

LEMMA DeleteRowShape ==
  ASSUME NEW p \in Actors, NEW a \in Addr, NEW call \in Calls, Shape,
         call.pc = "remove", call.out \in Addr, DeleteRow(p, a, call),
         snap' \in [Actors -> Snapshots]
  PROVE  Shape'
<1>1. Knows(call)
  BY DEF Knows
<1>2. QED
  BY <1>1, CallShape DEF DeleteRow, Shape, TypeOK, GoodSets

\* The call of a removal that has deleted its row.
LEMMA RemoveCall ==
  ASSUME NEW a \in Addr, NEW park \in BOOLEAN
  PROVE  /\ [Idle EXCEPT !.pc = "remove", !.out = a, !.park = park] \in Calls
         /\ [Idle EXCEPT !.pc = "remove", !.out = a, !.park = park].pc = "remove"
         /\ [Idle EXCEPT !.pc = "remove", !.out = a, !.park = park].out = a
BY DEF Idle, Calls, Points

LEMMA BeginShape ==
  ASSUME NEW p \in Actors, NEW a \in Addr, Shape, Begin(p, a)
  PROVE  Shape'
<1>1. CASE HandAdd(p, a)
  BY <1>1, BeginAddShape, EvictableAddr DEF HandAdd, Shape
<1>2. CASE RotationAdd(p, a)
  <2>1. snap[p].victims \in SUBSET Addr
    BY DEF Shape, TypeOK, Snapshots
  <2>2. QED
    BY <1>2, <2>1, BeginAddShape DEF RotationAdd
<1>3. CASE HandRemove(p, a)
  <2> DEFINE call == [Idle EXCEPT !.pc = "remove", !.out = a]
  <2>1. call \in Calls /\ call.pc = "remove" /\ call.out = a
    BY DEF Idle, Calls, Points
  <2>2. QED
    BY <1>3, <2>1, DeleteRowShape DEF HandRemove, Shape, TypeOK
<1>4. CASE Retire(p, a)
  <2>0. snap' \in [Actors -> Snapshots]
    BY <1>4 DEF Retire, Shape, TypeOK, Snapshots
  <2>1. CASE a \in Parkable
    <3>1. (a \in Parkable) = TRUE
      BY <2>1, Zenon
    <3>2. DeleteRow(p, a, [Idle EXCEPT !.pc = "remove", !.out = a, !.park = TRUE])
      BY <1>4, <3>1, Zenon DEF Retire
    <3>3. QED
      BY <2>0, <3>2, RemoveCall, DeleteRowShape
  <2>2. CASE a \notin Parkable
    <3>1. (a \in Parkable) = FALSE
      BY <2>2
    <3>2. DeleteRow(p, a, [Idle EXCEPT !.pc = "remove", !.out = a, !.park = FALSE])
      BY <1>4, <3>1, Zenon DEF Retire
    <3>3. QED
      BY <2>0, <3>2, RemoveCall, DeleteRowShape
  <2>3. QED
    BY <2>1, <2>2
<1>5. QED
  BY <1>1, <1>2, <1>3, <1>4 DEF Begin

\* An action that ends the call, and leaves good sets.
LEMMA ReturnShape ==
  ASSUME NEW p \in Actors, Shape, Return(p),
         GoodSets'
  PROVE  Shape'
BY IdleCall, CallShape DEF Return

\* An action that moves the call on to a point whose addresses it knows.
LEMMA GotoShape ==
  ASSUME NEW p \in Actors, NEW point \in Points, Shape, Goto(p, point),
         point \in {"add", "write", "displace", "takeback"} => op[p].addr \in Addr,
         point \in {"displace", "remove", "park"} => op[p].out \in Addr,
         GoodSets'
  PROVE  Shape'
<1> DEFINE call == [op[p] EXCEPT !.pc = point]
<1>1. call \in Calls /\ op' = [op EXCEPT ![p] = call]
  BY MovedCall
<1>2. Knows(call)
  BY MovedCall DEF Knows
<1>3. QED
  BY <1>1, <1>2, CallShape

LEMMA StepShape ==
  ASSUME NEW p \in Actors, Shape, Step(p) \/ Fail(p)
  PROVE  Shape'
<1>0. /\ rows \subseteq Addr /\ kept \subseteq rows /\ core \subseteq Addr
      /\ pending \subseteq Addr /\ parked \subseteq Addr
      /\ snap \in [Actors -> Snapshots]
      /\ [snap EXCEPT ![p] = NoSnapshot] \in [Actors -> Snapshots]
      /\ op \in [Actors -> Calls] /\ op[p] \in Calls /\ Knows(op[p])
      /\ op[p].addr \in Addr \cup {NoAddr} /\ op[p].out \in Addr \cup {NoAddr}
  BY SnapshotTypes DEF Shape, TypeOK, CallsKnow, Calls
<1> USE DEF GoodSets
<1>1. CASE CoreAdds(p)
  <2> DEFINE call == [op[p] EXCEPT !.pc = "write", !.inCore = op[p].addr \in core]
  <2>1. op[p].addr \in Addr
    BY <1>0, <1>1 DEF CoreAdds, At, Knows
  <2>2. (op[p].addr \in core) \in BOOLEAN
    OBVIOUS
  <2>3. call \in Calls /\ call.pc = "write" /\ call.addr = op[p].addr
    BY <1>0, <2>2 DEF Calls, Points
  <2>4. op' = [op EXCEPT ![p] = call]
    BY <1>0, <1>1 DEF CoreAdds
  <2>5. Knows(call)
    BY <2>1, <2>3 DEF Knows
  <2>6. QED
    BY <1>0, <1>1, <2>1, <2>3, <2>4, <2>5, CallShape, ZenonT(40) DEF CoreAdds
<1>2. CASE WriteRow(p)
  <2>1. op[p].addr \in Addr
    BY <1>0, <1>2 DEF WriteRow, At, Knows
  <2>2. CASE op[p].out = NoAddr
    BY <1>0, <1>2, <2>1, <2>2, ReturnShape DEF WriteRow
  <2>3. CASE op[p].out # NoAddr
    BY <1>0, <1>2, <2>1, <2>3, GotoShape DEF WriteRow, Points
  <2>4. QED
    BY <2>2, <2>3
<1>3. CASE LoseSlot(p)
  <2>1. op[p].addr \in Addr
    BY <1>0, <1>3 DEF LoseSlot, At, Knows
  <2>2. CASE op[p].inCore
    BY <1>0, <1>3, <2>2, ReturnShape DEF LoseSlot
  <2>3. CASE ~op[p].inCore
    BY <1>0, <1>3, <2>1, <2>3, GotoShape DEF LoseSlot, Points
  <2>4. QED
    BY <2>2, <2>3
<1>4. CASE TakeBack(p)
  BY <1>0, <1>4, ReturnShape DEF TakeBack
<1>5. CASE Displace(p)
  <2>1. op[p].out \in Addr
    BY <1>0, <1>5 DEF Displace, At, Knows
  <2>2. QED
    BY <1>0, <1>5, <2>1, MovedCall, DeleteRowShape, ZenonT(40) DEF Displace, Points
<1>6. ASSUME op[p].pc = "remove", AfterRemove(p),
             rows' = rows, kept' = kept, core' \subseteq Addr,
             pending' \subseteq Addr, parked' = parked, snap' = snap
      PROVE  Shape'
  <2>1. op[p].out \in Addr
    BY <1>0, <1>6 DEF Knows
  <2>2. CASE op[p].park
    BY <1>0, <1>6, <2>1, <2>2, GotoShape DEF AfterRemove, Points
  <2>3. CASE ~op[p].park
    BY <1>0, <1>6, <2>3, ReturnShape DEF AfterRemove
  <2>4. QED
    BY <2>2, <2>3
<1>7. CASE CoreRemoves(p)
  BY <1>0, <1>6, <1>7 DEF CoreRemoves, At
<1>8. CASE RemoveFails(p)
  <2>1. op[p].out \in Addr
    BY <1>0, <1>8 DEF RemoveFails, At, Knows
  <2>2. QED
    BY <1>0, <1>6, <1>8, <2>1 DEF RemoveFails, At
<1>9. CASE Park(p)
  <2>1. op[p].out \in Addr
    BY <1>0, <1>9 DEF Park, At, Knows
  <2>2. QED
    BY <1>0, <1>9, <2>1, ReturnShape DEF Park
<1>10. CASE AddFails(p)
  <2>1. op[p].addr \in Addr
    BY <1>0, <1>10 DEF AddFails, At, Knows
  <2>2. QED
    BY <1>0, <1>10, <2>1, ReturnShape DEF AddFails
<1>11. CASE TakeBackFails(p)
  BY <1>0, <1>11, ReturnShape DEF TakeBackFails
<1>12. CASE Abort(p)
  BY <1>0, <1>12, ReturnShape DEF Abort
<1>13. QED
  BY <1>1, <1>2, <1>3, <1>4, <1>5, <1>7, <1>8, <1>9, <1>10, <1>11, <1>12 DEF Step, Fail

LEMMA NextShape == Shape /\ [Next]_vars => Shape'
<1> SUFFICES ASSUME Shape, [Next]_vars PROVE Shape'
  OBVIOUS
<1>1. ASSUME NEW p \in Actors, Step(p) \/ Fail(p) PROVE Shape'
  BY <1>1, StepShape
<1>2. ASSUME NEW p \in Actors, NEW a \in Addr, Begin(p, a) PROVE Shape'
  BY <1>2, BeginShape
<1>3. ASSUME NEW a \in Addr, Star(a) \/ Unstar(a) PROVE Shape'
  BY <1>3 DEF Star, Unstar, Shape, TypeOK, CallsKnow, Knows
<1>4. CASE Environment
  BY <1>4, EnvAssumption
  DEF Environment, CoreRestart, ForeignAdd, PendingExpires, Shape, TypeOK,
      CallsKnow, Knows
<1>5. CASE UNCHANGED vars
  BY <1>5 DEF vars, Shape, TypeOK, CallsKnow, Knows
<1>6. ASSUME NEW p \in Actors, Snapshot(p) PROVE Shape'
  BY <1>6, SnapshotTypes DEF Snapshot, Shape, TypeOK, CallsKnow, Knows
<1>7. QED
  BY <1>1, <1>2, <1>3, <1>4, <1>5, <1>6 DEF Next

LEMMA InitShape == Init => Shape
BY EnvAssumption, SnapshotTypes DEF Init, Shape, TypeOK, CallsKnow, Knows, Idle, Calls, Points

\* Type correctness of the manual set: every reachable state has the shape the
\* schema of trusted_peer, parked_peer and meta gives it, and a star sits only
\* on a row.
THEOREM TypeCorrect == Spec => []TypeOK
<1>1. Spec => []Shape
  BY InitShape, NextShape, PTL DEF Spec
<1>2. Shape => TypeOK
  BY DEF Shape
<1>3. QED
  BY <1>1, <1>2, PTL

-----------------------------------------------------------------------------
\* Only the transaction of addTrustedPeer lets a row in, and it has just counted.
LEMMA FitsBound ==
  ASSUME NEW p \in Actors, Shape, SlotBound, WriteRow(p)
  PROVE  SlotBound'
<1>1. op[p].addr \in Addr /\ rows \in SUBSET Addr
  BY DEF WriteRow, At, Shape, TypeOK, CallsKnow, Knows
<1>2. Cardinality(rows) \in Nat /\ Cardinality(rows') \in Nat
  BY <1>1, RowsFinite DEF WriteRow
<1>3. CASE op[p].addr \in rows
  BY <1>1, <1>3, OneMore DEF WriteRow, SlotBound
<1>4. CASE op[p].addr \notin rows
  <2>1. Cardinality(rows) < Cap + 1
    BY <1>2, <1>4, CapAssumption DEF WriteRow, Fits, Limit
  <2>2. Cardinality(rows') <= Cardinality(rows) + 1
    BY <1>1, OneMore DEF WriteRow
  <2>3. QED
    BY <1>2, <2>1, <2>2, CapAssumption DEF SlotBound
<1>5. QED
  BY <1>3, <1>4

LEMMA LessBound ==
  ASSUME NEW p \in Actors, NEW a, NEW call, Shape, SlotBound, DeleteRow(p, a, call)
  PROVE  SlotBound'
<1>1. rows \in SUBSET Addr /\ rows' = rows \ {a}
  BY DEF DeleteRow, Shape, TypeOK
<1>2. Cardinality(rows') <= Cardinality(rows)
  BY <1>1, OneLess
<1>3. Cardinality(rows) \in Nat /\ Cardinality(rows') \in Nat
  BY <1>1, RowsFinite
<1>4. QED
  BY <1>2, <1>3, CapAssumption DEF SlotBound

LEMMA NextBound == Shape /\ SlotBound /\ [Next]_vars => SlotBound'
<1> SUFFICES ASSUME Shape, SlotBound, [Next]_vars PROVE SlotBound'
  OBVIOUS
<1>1. ASSUME NEW p \in Actors, Step(p) PROVE SlotBound'
  <2>1. CASE WriteRow(p)
    BY <2>1, FitsBound
  <2>2. CASE Displace(p)
    BY <2>2, LessBound DEF Displace
  <2>3. CASE rows' = rows
    BY <2>3 DEF SlotBound
  <2>4. QED
    BY <1>1, <2>1, <2>2, <2>3
    DEF Step, CoreAdds, LoseSlot, TakeBack, CoreRemoves, Park
<1>2. ASSUME NEW p \in Actors, Fail(p) PROVE SlotBound'
  BY <1>2 DEF Fail, AddFails, TakeBackFails, RemoveFails, Abort, SlotBound
<1>3. ASSUME NEW p \in Actors, NEW a \in Addr, Begin(p, a) PROVE SlotBound'
  <2>1. CASE HandRemove(p, a)
    BY <2>1, LessBound DEF HandRemove
  <2>2. CASE Retire(p, a)
    BY <2>2, LessBound DEF Retire
  <2>3. CASE HandAdd(p, a) \/ RotationAdd(p, a)
    BY <2>3 DEF HandAdd, RotationAdd, BeginAdd, SlotBound
  <2>4. QED
    BY <1>3, <2>1, <2>2, <2>3 DEF Begin
<1>4. ASSUME NEW p \in Actors, Snapshot(p) PROVE SlotBound'
  BY <1>4 DEF Snapshot, SlotBound
<1>5. ASSUME NEW a \in Addr, Star(a) \/ Unstar(a) PROVE SlotBound'
  BY <1>5 DEF Star, Unstar, SlotBound
<1>6. CASE Environment \/ UNCHANGED vars
  BY <1>6 DEF Environment, CoreRestart, ForeignAdd, PendingExpires, vars, SlotBound
<1>7. QED
  BY <1>1, <1>2, <1>3, <1>4, <1>5, <1>6 DEF Next

\* The manual set never holds more than one row above its limit, for any limit,
\* any number of calls in flight and whatever fails: addTrustedPeer counts again
\* in the transaction that writes the row. The inductive invariant is Shape with
\* the bound itself.
THEOREM BoundHolds == Spec => []SlotBound
<1>1. Init => SlotBound
  BY FS_EmptySet, CapAssumption DEF Init, SlotBound
<1>2. Spec => [](Shape /\ SlotBound)
  <2>1. Init => Shape /\ SlotBound
    BY <1>1, InitShape
  <2>2. (Shape /\ SlotBound) /\ [Next]_vars => (Shape /\ SlotBound)'
    BY NextShape, NextBound
  <2>3. QED
    BY <2>1, <2>2, PTL DEF Spec
<1>3. QED
  BY <1>2, PTL

-----------------------------------------------------------------------------
\* Every step of the manual set is a step of the book, or leaves it alone.
bookVars == <<rows, kept, parked>>

LEMMA WriteRowEnters ==
  ASSUME NEW p \in Actors, Shape, WriteRow(p)
  PROVE  Book!Next
<1>1. op[p].addr \in Addr /\ rows \in SUBSET Addr
  BY DEF WriteRow, At, Shape, TypeOK, CallsKnow, Knows
<1>2. Cardinality(rows) \in Nat
  BY <1>1, RowsFinite
<1>3. op[p].addr \in rows \/ Cardinality(rows) <= Cap
  BY <1>2, CapAssumption DEF WriteRow, Fits, Limit
<1>4. Book!Cardinality(rows) = Cardinality(rows)
  BY DEF Cardinality, Book!Cardinality
<1>5. Book!Enter(op[p].addr)
  BY <1>3, <1>4 DEF WriteRow, Book!Enter
<1>6. QED
  BY <1>1, <1>5 DEF Book!Next

LEMMA DeleteRowLeaves ==
  ASSUME NEW p \in Actors, NEW a \in Addr, NEW call, DeleteRow(p, a, call)
  PROVE  Book!Next
BY DEF DeleteRow, Book!Leave, Book!Next

LEMMA NextInBook == Shape /\ [Next]_vars => [Book!Next]_bookVars
<1> SUFFICES ASSUME Shape, [Next]_vars PROVE [Book!Next]_bookVars
  OBVIOUS
<1>1. ASSUME NEW p \in Actors, Step(p) PROVE [Book!Next]_bookVars
  <2>1. CASE WriteRow(p)
    BY <2>1, WriteRowEnters
  <2>2. CASE Displace(p)
    <3>1. op[p].out \in Addr
      BY <2>2 DEF Displace, At, Shape, CallsKnow, Knows
    <3>2. QED
      BY <2>2, <3>1, DeleteRowLeaves DEF Displace
  <2>3. CASE Park(p)
    <3>1. op[p].out \in Addr
      BY <2>3 DEF Park, At, Shape, CallsKnow, Knows
    <3>2. Book!Record(op[p].out)
      BY <2>3 DEF Park, Book!Record
    <3>3. QED
      BY <3>1, <3>2 DEF Book!Next
  <2>4. CASE UNCHANGED bookVars
    BY <2>4
  <2>5. QED
    BY <1>1, <2>1, <2>2, <2>3, <2>4
    DEF Step, CoreAdds, LoseSlot, TakeBack, CoreRemoves, bookVars
<1>2. ASSUME NEW p \in Actors, Fail(p) PROVE UNCHANGED bookVars
  BY <1>2 DEF Fail, AddFails, TakeBackFails, RemoveFails, Abort, bookVars
<1>3. ASSUME NEW p \in Actors, NEW a \in Addr, Begin(p, a) PROVE [Book!Next]_bookVars
  <2>1. CASE HandRemove(p, a)
    BY <2>1, DeleteRowLeaves DEF HandRemove
  <2>2. CASE Retire(p, a)
    BY <2>2, DeleteRowLeaves DEF Retire
  <2>3. CASE HandAdd(p, a) \/ RotationAdd(p, a)
    BY <2>3 DEF HandAdd, RotationAdd, BeginAdd, bookVars
  <2>4. QED
    BY <1>3, <2>1, <2>2, <2>3 DEF Begin
<1>4. ASSUME NEW a \in Addr, Star(a) \/ Unstar(a) PROVE Book!Next
  <2>1. a \in rows
    BY <1>4 DEF Star, Unstar, Shape, TypeOK
  <2>2. Book!Star(a)
    BY <1>4, <2>1 DEF Star, Unstar, Book!Star
  <2>3. QED
    BY <2>2 DEF Book!Next
<1>5. CASE Environment \/ UNCHANGED vars \/ \E p \in Actors : Snapshot(p)
  BY <1>5 DEF Snapshot, Environment, CoreRestart, ForeignAdd, PendingExpires, vars, bookVars
<1>6. QED
  BY <1>1, <1>2, <1>3, <1>4, <1>5 DEF Next

\* The calls of the manual set, interleaved in any way, implement the slot book:
\* nobody enters past the one extra slot, entering never clears a star, and a
\* parked record is given up only for a row.
THEOREM KeepsBook == Spec => BookSpec
<1>1. Init => Book!Init
  BY DEF Init, Book!Init
<1>2. Spec => []Shape
  BY InitShape, NextShape, PTL DEF Spec
<1>3. QED
  BY <1>1, <1>2, NextInBook, PTL DEF Spec, BookSpec, Book!Spec, bookVars

-----------------------------------------------------------------------------
\* Who answers for an entry without a row. It is narrower than Handling, as it
\* must be to be inductive: of the calls that have yet to write their row only
\* those that put the entry there will take it back.
Responsible(p, a) ==
  \/ op[p].addr = a /\ (At(p, "takeback") \/ (At(p, "write") /\ ~op[p].inCore))
  \/ op[p].out = a /\ At(p, "remove")

Owned == \A a \in core \ rows : a \in astray \/ \E p \in Actors : Responsible(p, a)

\* A step of one actor that was not responsible, or stays so, leaves an entry
\* that was owned before in the same hands.
LEMMA OwnerStays ==
  ASSUME Shape, Owned, NEW q \in Actors, NEW call, op' = [op EXCEPT ![q] = call],
         NEW a \in core \ rows, a \notin astray, Responsible(q, a) => Responsible(q, a)'
  PROVE  \E p \in Actors : Responsible(p, a)'
<1>1. PICK p \in Actors : Responsible(p, a)
  BY DEF Owned
<1>2. CASE p = q
  BY <1>1, <1>2
<1>3. CASE p # q
  <2>1. op'[p] = op[p]
    BY <1>3 DEF Shape, TypeOK
  <2>2. QED
    BY <1>1, <2>1 DEF Responsible, At
<1>4. QED
  BY <1>2, <1>3

\* The same for a step of nobody's.
LEMMA OwnerLeft ==
  ASSUME Owned, op' = op, NEW a \in core \ rows, a \notin astray
  PROVE  \E p \in Actors : Responsible(p, a)'
BY DEF Owned, Responsible, At

LEMMA StepOwned ==
  ASSUME Shape, Owned, NEW q \in Actors, Step(q), NEW a \in core' \ rows', a \notin astray
  PROVE  \E p \in Actors : Responsible(p, a)'
<1>0. op \in [Actors -> Calls] /\ op[q] \in Calls
  BY DEF Shape, TypeOK
<1>1. CASE CoreAdds(q)
  <2>1. op' = [op EXCEPT ![q] = [op[q] EXCEPT !.pc = "write", !.inCore = op[q].addr \in core]]
    BY <1>0, <1>1 DEF CoreAdds
  <2>2. ~Responsible(q, a)
    BY <1>1 DEF CoreAdds, Responsible, At
  <2>3. CASE a \in core
    BY <1>1, <2>1, <2>2, <2>3, OwnerStays DEF CoreAdds
  <2>4. CASE a \notin core
    <3>1. a = op[q].addr
      BY <1>1, <2>4 DEF CoreAdds
    <3>2. op'[q].addr = a /\ op'[q].pc = "write" /\ ~op'[q].inCore
      BY <1>0, <2>1, <2>4, <3>1 DEF Calls
    <3>3. QED
      BY <3>2 DEF Responsible, At
  <2>5. QED
    BY <2>3, <2>4
<1>2. CASE WriteRow(q)
  <2>1. a \in core \ rows /\ a # op[q].addr
    BY <1>2 DEF WriteRow
  <2>2. ~Responsible(q, a)
    BY <1>2, <2>1 DEF WriteRow, Responsible, At
  <2>3. op' = [op EXCEPT ![q] = Idle] \/ op' = [op EXCEPT ![q].pc = "displace"]
    BY <1>2 DEF WriteRow, Return, Goto
  <2>4. QED
    BY <2>1, <2>2, <2>3, OwnerStays
<1>3. CASE LoseSlot(q)
  <2>1. a \in core \ rows
    BY <1>3 DEF LoseSlot
  <2>2. CASE op[q].inCore
    <3>1. ~Responsible(q, a) /\ op' = [op EXCEPT ![q] = Idle]
      BY <1>3, <2>2 DEF LoseSlot, Return, Responsible, At
    <3>2. QED
      BY <2>1, <3>1, OwnerStays
  <2>3. CASE ~op[q].inCore
    <3>1. op' = [op EXCEPT ![q].pc = "takeback"]
      BY <1>3, <2>3 DEF LoseSlot, Goto
    <3>2. op'[q].addr = op[q].addr /\ op'[q].pc = "takeback"
      BY <1>0, <3>1 DEF Calls
    <3>3. Responsible(q, a) => Responsible(q, a)'
      BY <1>3, <3>2 DEF LoseSlot, Responsible, At
    <3>4. QED
      BY <2>1, <3>1, <3>3, OwnerStays
  <2>4. QED
    BY <2>2, <2>3
<1>4. CASE TakeBack(q)
  <2>1. a \in core \ rows /\ a # op[q].addr /\ op' = [op EXCEPT ![q] = Idle]
    BY <1>4 DEF TakeBack, Return
  <2>2. ~Responsible(q, a)
    BY <1>4, <2>1 DEF TakeBack, Responsible, At
  <2>3. QED
    BY <2>1, <2>2, OwnerStays
<1>5. CASE Displace(q)
  <2>1. op' = [op EXCEPT ![q] = [op[q] EXCEPT !.pc = "remove"]]
    BY <1>5 DEF Displace, DeleteRow
  <2>2. op'[q].out = op[q].out /\ op'[q].pc = "remove"
    BY <1>0, <2>1 DEF Calls
  <2>3. CASE a = op[q].out
    BY <2>2, <2>3 DEF Responsible, At
  <2>4. CASE a # op[q].out
    <3>1. a \in core \ rows
      BY <1>5, <2>4 DEF Displace, DeleteRow
    <3>2. ~Responsible(q, a)
      BY <1>5 DEF Displace, Responsible, At
    <3>3. QED
      BY <2>1, <3>1, <3>2, OwnerStays
  <2>5. QED
    BY <2>3, <2>4
<1>6. CASE CoreRemoves(q)
  <2>1. a \in core \ rows /\ a # op[q].out
    BY <1>6 DEF CoreRemoves
  <2>2. ~Responsible(q, a)
    BY <1>6, <2>1 DEF CoreRemoves, Responsible, At
  <2>3. op' = [op EXCEPT ![q] = Idle] \/ op' = [op EXCEPT ![q].pc = "park"]
    BY <1>6 DEF CoreRemoves, AfterRemove, Return, Goto
  <2>4. QED
    BY <2>1, <2>2, <2>3, OwnerStays
<1>7. CASE Park(q)
  <2>1. a \in core \ rows /\ op' = [op EXCEPT ![q] = Idle] /\ ~Responsible(q, a)
    BY <1>7 DEF Park, Return, Responsible, At
  <2>2. QED
    BY <2>1, OwnerStays
<1>8. QED
  BY <1>1, <1>2, <1>3, <1>4, <1>5, <1>6, <1>7 DEF Step

\* A call that fails or is cut off leaves astray what it was working on, and
\* nothing else.
LEMMA FailOwned ==
  ASSUME Shape, Owned, NEW q \in Actors, Fail(q), NEW a \in core' \ rows', a \notin astray,
         a \notin {op[q].addr, op[q].out}
  PROVE  \E p \in Actors : Responsible(p, a)'
<1>1. a \in core \ rows /\ ~Responsible(q, a)
  BY DEF Fail, AddFails, TakeBackFails, RemoveFails, Abort, Responsible
<1>2. op' = [op EXCEPT ![q] = Idle] \/ op' = [op EXCEPT ![q].pc = "park"]
  BY DEF Fail, AddFails, TakeBackFails, RemoveFails, Abort, AfterRemove, Return, Goto
<1>3. QED
  BY <1>1, <1>2, OwnerStays

LEMMA DeletedOwned ==
  ASSUME Shape, Owned, NEW q \in Actors, NEW b, NEW call, At(q, "idle"),
         DeleteRow(q, b, call), call.pc = "remove", call.out = b,
         NEW a \in core' \ rows', a \notin astray
  PROVE  \E p \in Actors : Responsible(p, a)'
<1>1. CASE a = b
  <2>1. op'[q] = call
    BY DEF DeleteRow, Shape, TypeOK
  <2>2. QED
    BY <1>1, <2>1 DEF Responsible, At
<1>2. CASE a # b
  <2>1. a \in core \ rows /\ op' = [op EXCEPT ![q] = call] /\ ~Responsible(q, a)
    BY <1>2 DEF DeleteRow, Responsible, At
  <2>2. QED
    BY <2>1, OwnerStays
<1>3. QED
  BY <1>1, <1>2

LEMMA BeginOwned ==
  ASSUME Shape, Owned, NEW q \in Actors, NEW b \in Addr, Begin(q, b),
         NEW a \in core' \ rows', a \notin astray
  PROVE  \E p \in Actors : Responsible(p, a)'
<1>1. ASSUME NEW star, NEW victims, BeginAdd(q, b, star, victims)
      PROVE  \E p \in Actors : Responsible(p, a)'
  <2>1. PICK call : op' = [op EXCEPT ![q] = call]
    BY <1>1 DEF BeginAdd
  <2>2. a \in core \ rows /\ ~Responsible(q, a)
    BY <1>1 DEF BeginAdd, Responsible, At
  <2>3. QED
    BY <2>1, <2>2, OwnerStays
<1>2. CASE HandAdd(q, b) \/ RotationAdd(q, b)
  BY <1>1, <1>2 DEF HandAdd, RotationAdd
<1>3. CASE HandRemove(q, b)
  <2> DEFINE call == [Idle EXCEPT !.pc = "remove", !.out = b]
  <2>1. call.pc = "remove" /\ call.out = b
    BY DEF Idle
  <2>2. QED
    BY <1>3, <2>1, DeletedOwned DEF HandRemove
<1>4. CASE Retire(q, b)
  <2> DEFINE call == [Idle EXCEPT !.pc = "remove", !.out = b, !.park = b \in Parkable]
  <2>1. call.pc = "remove" /\ call.out = b
    BY DEF Idle
  <2>2. At(q, "idle") /\ DeleteRow(q, b, call)
    BY <1>4 DEF Retire
  <2> HIDE DEF call
  <2>3. QED
    BY <2>1, <2>2, DeletedOwned
<1>5. QED
  BY <1>2, <1>3, <1>4 DEF Begin

LEMMA NextOwned == Shape /\ Owned /\ [RacesNext]_<<vars, memory>> => Owned'
<1> SUFFICES ASSUME Shape, Owned, RacesNext, NEW a \in core' \ rows', a \notin astray'
             PROVE  \E p \in Actors : Responsible(p, a)'
  BY DEF Owned, vars, memory, Responsible, At
<1>0. a \notin astray /\ ~GoesWrong(a)
  BY DEF RacesNext
<1>1. ASSUME NEW q \in Actors, Step(q) PROVE \E p \in Actors : Responsible(p, a)'
  BY <1>0, <1>1, StepOwned
<1>2. ASSUME NEW q \in Actors, Fail(q) PROVE \E p \in Actors : Responsible(p, a)'
  BY <1>0, <1>2, FailOwned DEF GoesWrong
<1>3. ASSUME NEW q \in Actors, Snapshot(q) PROVE \E p \in Actors : Responsible(p, a)'
  BY <1>0, <1>3, OwnerLeft DEF Snapshot
<1>4. ASSUME NEW q \in Actors, NEW b \in Addr, Begin(q, b)
      PROVE  \E p \in Actors : Responsible(p, a)'
  BY <1>0, <1>4, BeginOwned
<1>5. ASSUME NEW b \in Addr, Star(b) \/ Unstar(b) PROVE \E p \in Actors : Responsible(p, a)'
  BY <1>0, <1>5, OwnerLeft DEF Star, Unstar
<1>6. CASE Environment
  <2>1. op' = op /\ rows' = rows
    BY <1>6 DEF Environment, CoreRestart, ForeignAdd, PendingExpires
  <2>2. a \in core
    BY <1>0, <1>6 DEF Environment, CoreRestart, ForeignAdd, PendingExpires, GoesWrong
  <2>3. QED
    BY <1>0, <2>1, <2>2, OwnerLeft
<1>7. QED
  BY <1>1, <1>2, <1>3, <1>4, <1>5, <1>6 DEF RacesNext, Next

LEMMA RacesShape == RacesSpec => []Shape
<1>1. RacesInit => Shape
  BY InitShape DEF RacesInit
<1>2. Shape /\ [RacesNext]_<<vars, memory>> => Shape'
  BY NextShape DEF RacesNext, vars, memory
<1>3. QED
  BY <1>1, <1>2, PTL DEF RacesSpec

\* No entry of Core's is ever forgotten, with any number of calls in flight: it
\* has a row, or a call in addTrustedPeer or removeTrustedPeer is still to deal
\* with it, or it went astray - its call failed or was cut off, or Core holds it
\* without the app. The strengthening is Owned: it names who will act.
THEOREM NothingForgotten == RacesSpec => []NoOrphan
<1>1. RacesInit => Owned
  BY DEF RacesInit, Init, Owned
<1>2. RacesSpec => []Owned
  BY <1>1, NextOwned, RacesShape, PTL DEF RacesSpec
<1>3. Owned => NoOrphan
  BY DEF Owned, Responsible, NoOrphan, Handling, At
<1>4. QED
  BY <1>2, <1>3, PTL

-----------------------------------------------------------------------------
\* What an add that nobody has overtaken may rely on. Before it writes its row,
\* having found the set full: the set is full still, and its peer is not in it.
\* After: the set is one over.
InTime(p) ==
  /\ op[p].pc \in {"add", "write"} /\ op[p].out # NoAddr =>
       op[p].addr \notin rows /\ Cardinality(rows) >= Cap
  /\ At(p, "displace") => Cardinality(rows) >= Cap + 1

\* Two such adds are never both about to displace somebody: the second of them
\* could not have written its row.
Reliable ==
  /\ \A p \in Actors \ overtaken : InTime(p)
  /\ \A p, q \in Actors \ overtaken : At(p, "displace") /\ At(q, "displace") => p = q

\* A call that begins an add, or goes on to its next point before the row, while
\* the rows stay as they are.
Fresh(p) ==
  /\ At(p, "add")' /\ op'[p].out # NoAddr => op'[p].addr \notin rows /\ Full
  /\ At(p, "write")' =>
       At(p, "add") /\ op'[p].addr = op[p].addr /\ op'[p].out = op[p].out
  /\ ~At(p, "displace")'

LEMMA StillInTime ==
  ASSUME Reliable, RacesNext, rows' = rows,
         \A p \in Actors : op'[p] = op[p] \/ Fresh(p)
  PROVE  Reliable'
<1>1. \A p \in Actors \ overtaken' : op'[p] = op[p] /\ ~At(p, "idle") => p \notin overtaken
  BY DEF RacesNext, At
<1>2. ASSUME NEW p \in Actors, p \notin overtaken' PROVE InTime(p)'
  <2>1. CASE op'[p] = op[p] /\ ~At(p, "idle")
    BY <1>1, <1>2, <2>1 DEF Reliable, InTime, At
  <2>2. CASE op'[p] = op[p] /\ At(p, "idle")
    BY <2>2 DEF InTime, At
  <2>3. CASE Fresh(p) /\ At(p, "write")'
    <3>1. At(p, "add") /\ ~At(p, "idle")'
      BY <2>3 DEF Fresh, At
    <3>2. p \notin overtaken
      BY <1>2, <3>1 DEF RacesNext
    <3>3. QED
      BY <2>3, <3>1, <3>2 DEF Reliable, InTime, Fresh, At
  <2>4. CASE Fresh(p) /\ ~At(p, "write")'
    BY <2>4 DEF InTime, Fresh, At, Full
  <2>5. QED
    BY <2>1, <2>2, <2>3, <2>4
<1>3. ASSUME NEW p \in Actors \ overtaken', NEW q \in Actors \ overtaken',
             At(p, "displace")', At(q, "displace")'
      PROVE  p = q
  <2>1. op'[p] = op[p] /\ op'[q] = op[q]
    BY <1>3 DEF Fresh
  <2>2. QED
    BY <1>1, <1>3, <2>1 DEF Reliable, At
<1>4. QED
  BY <1>2, <1>3 DEF Reliable

\* A removal overtakes every call in flight.
LEMMA RemovalOvertakes == RacesNext /\ Removal => Reliable'
<1> SUFFICES ASSUME RacesNext, Removal, NEW p \in Actors, p \notin overtaken'
             PROVE  At(p, "idle")'
  BY DEF Reliable, InTime, At
<1>1. QED
  BY DEF RacesNext, Overtakes

\* The row of a call that was not overtaken is the one row over the limit.
LEMMA WritingInTime ==
  ASSUME Shape, Reliable, RacesNext, NEW p \in Actors, WriteRow(p)
  PROVE  Reliable'
<1>0. /\ op \in [Actors -> Calls] /\ rows \in SUBSET Addr /\ op[p].addr \in Addr
      /\ rows' = rows \cup {op[p].addr} /\ ~At(p, "idle")
  BY DEF Shape, TypeOK, CallsKnow, Knows, WriteRow, At
<1>1. /\ Cardinality(rows) \in Nat /\ Cardinality(rows') \in Nat
      /\ Cardinality(rows') >= Cardinality(rows)
      /\ op[p].addr \notin rows => Cardinality(rows') = Cardinality(rows) + 1
  BY <1>0, RowsFinite, FS_AddElement
<1>2. ASSUME NEW q \in Actors, q \notin overtaken', ~At(q, "idle")', q # p
      PROVE  /\ op'[q] = op[q] /\ q \notin overtaken
             /\ op[q].addr \in rows' => op[q].addr \in rows
  <2>1. op'[q] = op[q]
    BY <1>0, <1>2 DEF WriteRow, Return, Goto
  <2>2. ~Overtakes(q) /\ q \notin overtaken
    BY <1>2 DEF RacesNext
  <2>3. QED
    BY <2>1, <2>2 DEF Overtakes, LetIn
<1>3. ASSUME p \notin overtaken', ~At(p, "idle")'
      PROVE  /\ Cardinality(rows') = Cap + 1 /\ Cardinality(rows) = Cap
             /\ At(p, "displace")' /\ p \notin overtaken
  <2>1. p \notin overtaken
    BY <1>3 DEF RacesNext
  <2>2. op[p].out # NoAddr /\ op'[p].pc = "displace"
    BY <1>0, <1>3 DEF WriteRow, Return, Goto, At, Idle, Calls
  <2>3. op[p].addr \notin rows /\ Cardinality(rows) >= Cap
    BY <2>1, <2>2 DEF Reliable, InTime, WriteRow, At
  <2>4. Cardinality(rows) < Cap + 1
    BY <2>2, <2>3 DEF WriteRow, Fits, Limit
  <2>5. QED
    BY <1>1, <2>1, <2>2, <2>3, <2>4, CapAssumption DEF At
<1>4. ASSUME NEW q \in Actors, q \notin overtaken' PROVE InTime(q)'
  <2>1. CASE At(q, "idle")'
    BY <2>1 DEF InTime, At
  <2>2. CASE ~At(q, "idle")' /\ q = p
    BY <1>1, <1>3, <1>4, <2>2, CapAssumption DEF InTime, At
  <2>3. CASE ~At(q, "idle")' /\ q # p
    <3>1. /\ op'[q] = op[q] /\ InTime(q)
          /\ op[q].addr \in rows' => op[q].addr \in rows
      BY <1>2, <1>4, <2>3 DEF Reliable
    <3>2. QED
      BY <1>1, <3>1, CapAssumption DEF InTime, At
  <2>4. QED
    BY <2>1, <2>2, <2>3
<1>5. ASSUME NEW q \in Actors, q \notin overtaken', At(q, "displace")', q # p
      PROVE  Cardinality(rows) >= Cap + 1
  <2>1. op'[q] = op[q] /\ q \notin overtaken
    BY <1>2, <1>5 DEF At
  <2>2. QED
    BY <1>5, <2>1 DEF Reliable, InTime, At
<1>6. ASSUME NEW q \in Actors \ overtaken', NEW r \in Actors \ overtaken',
             At(q, "displace")', At(r, "displace")'
      PROVE  q = r
  <2>1. CASE p \notin {q, r}
    <3>1. op'[q] = op[q] /\ q \notin overtaken /\ op'[r] = op[r] /\ r \notin overtaken
      BY <1>2, <1>6, <2>1 DEF At
    <3>2. QED
      BY <1>6, <3>1 DEF Reliable, At
  <2>2. CASE p \in {q, r}
    <3>1. Cardinality(rows) = Cap
      BY <1>3, <1>6, <2>2 DEF At
    <3>2. QED
      BY <1>5, <1>6, <2>2, <3>1, CapAssumption
  <2>3. QED
    BY <2>1, <2>2
<1>7. QED
  BY <1>4, <1>6 DEF Reliable

\* Nobody but the call itself was about to displace anybody, so once its
\* predecessor has left, the set is full and no more.
LEMMA DisplacingInTime ==
  ASSUME Shape, Reliable, RacesNext, NEW p \in Actors, Displace(p)
  PROVE  Reliable' /\ (p \notin overtaken => Full')
<1>0. /\ op \in [Actors -> Calls] /\ rows \in SUBSET Addr
      /\ rows' = rows \ {op[p].out} /\ ~At(p, "idle")
      /\ op' = [op EXCEPT ![p] = [op[p] EXCEPT !.pc = "remove"]]
  BY DEF Shape, TypeOK, Displace, DeleteRow, At
<1>1. /\ Cardinality(rows) \in Nat /\ Cardinality(rows') \in Nat
      /\ Cardinality(rows') >= Cardinality(rows) - 1
  BY <1>0, RowsFinite, FS_RemoveElement
<1>2. CASE p \in overtaken
  <2>1. Removal
    BY <1>2 DEF Removal
  <2>2. QED
    BY <1>2, <2>1, RemovalOvertakes
<1>3. CASE p \notin overtaken
  <2>1. Cardinality(rows') >= Cap
    BY <1>1, <1>3, CapAssumption DEF Reliable, InTime, Displace
  <2>2. ASSUME NEW q \in Actors, q \notin overtaken', ~At(q, "idle")', q # p
        PROVE  op'[q] = op[q] /\ q \notin overtaken
    BY <1>0, <2>2 DEF RacesNext
  <2>3. op'[p].pc = "remove"
    BY <1>0 DEF Calls
  <2>4. ASSUME NEW q \in Actors, q \notin overtaken' PROVE ~At(q, "displace")'
    <3>1. CASE q = p
      BY <2>3, <3>1 DEF At
    <3>2. CASE q # p
      BY <1>3, <2>2, <2>4, <3>2 DEF Reliable, Displace, At
    <3>3. QED
      BY <3>1, <3>2
  <2>5. ASSUME NEW q \in Actors, q \notin overtaken' PROVE InTime(q)'
    <3>1. CASE At(q, "idle")' \/ q = p
      BY <2>3, <3>1 DEF InTime, At
    <3>2. CASE ~At(q, "idle")' /\ q # p
      <4>1. op'[q] = op[q] /\ InTime(q)
        BY <2>2, <2>5, <3>2 DEF Reliable
      <4>2. QED
        BY <1>0, <2>1, <2>4, <2>5, <4>1 DEF InTime, At
    <3>3. QED
      BY <3>1, <3>2
  <2>6. QED
    BY <2>1, <2>4, <2>5 DEF Reliable, Full
<1>4. QED
  BY <1>2, <1>3

\* Every step that leaves the rows alone moves at most one call, and that one to
\* a point that asks nothing new.
LEMMA QuietStep ==
  ASSUME Shape, NEW p \in Actors, Step(p) \/ Fail(p), ~WriteRow(p), ~Displace(p)
  PROVE  rows' = rows /\ \A q \in Actors : op'[q] = op[q] \/ Fresh(q)
<1>0. op \in [Actors -> Calls] /\ op[p] \in Calls
  BY DEF Shape, TypeOK
<1>1. ASSUME NEW call, op' = [op EXCEPT ![p] = call],
             call.pc \notin {"add", "write", "displace"}
      PROVE  \A q \in Actors : op'[q] = op[q] \/ Fresh(q)
  BY <1>0, <1>1 DEF Fresh, At
<1>2. Idle.pc = "idle"
  BY DEF Idle
<1>3. CASE Return(p)
  <2>1. \A q \in Actors : op'[q] = op[q] \/ Fresh(q)
    BY <1>1, <1>2, <1>3 DEF Return
  <2>2. QED
    BY <2>1 DEF Step, Fail, CoreAdds, LoseSlot, TakeBack, CoreRemoves, Park,
                AddFails, TakeBackFails, RemoveFails, Abort
<1>4. ASSUME NEW point \in {"takeback", "park"}, Goto(p, point)
      PROVE  \A q \in Actors : op'[q] = op[q] \/ Fresh(q)
  <2>1. [op[p] EXCEPT !.pc = point].pc = point
    BY <1>0 DEF Calls
  <2>2. op' = [op EXCEPT ![p] = [op[p] EXCEPT !.pc = point]]
    BY <1>4 DEF Goto
  <2>3. QED
    BY <1>1, <2>1, <2>2
<1>5. CASE CoreAdds(p)
  <2>1. op' = [op EXCEPT ![p] = [op[p] EXCEPT !.pc = "write", !.inCore = op[p].addr \in core]]
    BY <1>5 DEF CoreAdds
  <2>2. /\ op'[p].pc = "write" /\ op'[p].addr = op[p].addr /\ op'[p].out = op[p].out
        /\ \A q \in Actors : q # p => op'[q] = op[q]
    BY <1>0, <2>1 DEF Calls
  <2>3. Fresh(p)
    BY <1>5, <2>2 DEF CoreAdds, Fresh, At
  <2>4. QED
    BY <1>5, <2>2, <2>3 DEF CoreAdds
<1>6. CASE ~CoreAdds(p) /\ ~Return(p)
  <2>1. Goto(p, "takeback") \/ Goto(p, "park")
    BY <1>6 DEF Step, Fail, LoseSlot, TakeBack, CoreRemoves, Park,
                AddFails, TakeBackFails, RemoveFails, Abort, AfterRemove
  <2>2. rows' = rows
    BY <1>6 DEF Step, Fail, LoseSlot, TakeBack, CoreRemoves, Park,
                AddFails, TakeBackFails, RemoveFails, Abort
  <2>3. QED
    BY <1>4, <2>1, <2>2
<1>7. QED
  BY <1>3, <1>5, <1>6

LEMMA QuietBegin ==
  ASSUME Shape, NEW p \in Actors, NEW a \in Addr, NEW star, NEW victims,
         BeginAdd(p, a, star, victims)
  PROVE  rows' = rows /\ \A q \in Actors : op'[q] = op[q] \/ Fresh(q)
<1>1. PICK v \in IF a \in rows \/ ~Full THEN {NoAddr} ELSE victims \ {a} :
        \E park \in MayPark(v) :
          op' = [op EXCEPT ![p] = [Idle EXCEPT !.pc = "add", !.addr = a, !.out = v,
                                               !.star = star, !.park = park]]
  BY DEF BeginAdd
<1>2. /\ op'[p].pc = "add" /\ op'[p].addr = a /\ op'[p].out = v
      /\ \A q \in Actors : q # p => op'[q] = op[q]
  BY <1>1 DEF Idle, Shape, TypeOK
<1>3. v # NoAddr => a \notin rows /\ Full
  BY <1>1
<1>4. Fresh(p)
  BY <1>2, <1>3 DEF Fresh, At
<1>5. QED
  BY <1>2, <1>4 DEF BeginAdd

LEMMA NextReliable == Shape /\ Reliable /\ [RacesNext]_<<vars, memory>> => Reliable'
<1> SUFFICES ASSUME Shape, Reliable, RacesNext PROVE Reliable'
  BY DEF Reliable, InTime, At, vars, memory
<1>1. ASSUME NEW p \in Actors, Step(p) \/ Fail(p) PROVE Reliable'
  <2>1. CASE WriteRow(p)
    BY <2>1, WritingInTime
  <2>2. CASE Displace(p)
    BY <2>2, DisplacingInTime
  <2>3. CASE ~WriteRow(p) /\ ~Displace(p)
    BY <1>1, <2>3, QuietStep, StillInTime
  <2>4. QED
    BY <2>1, <2>2, <2>3
<1>2. ASSUME NEW p \in Actors, NEW a \in Addr, Begin(p, a) PROVE Reliable'
  <2>1. CASE HandRemove(p, a) \/ Retire(p, a)
    BY <2>1, RemovalOvertakes DEF Removal
  <2>2. CASE HandAdd(p, a) \/ RotationAdd(p, a)
    BY <2>2, QuietBegin, StillInTime DEF HandAdd, RotationAdd
  <2>3. QED
    BY <1>2, <2>1, <2>2 DEF Begin
<1>3. CASE rows' = rows /\ op' = op
  BY <1>3, StillInTime
<1>4. QED
  BY <1>1, <1>2, <1>3
  DEF RacesNext, Next, Snapshot, Star, Unstar, Environment, CoreRestart, ForeignAdd,
      PendingExpires

\* Once full, the manual set is smaller again only because somebody removed a
\* peer, or a swap had been overtaken: for every limit and any number of calls, an
\* add that addTrustedPeer refuses, that fails or that is cut off costs no slot.
THEOREM NoSlotLost == RacesSpec => NoShrink
<1>1. RacesInit => Reliable
  BY DEF RacesInit, Init, Reliable, InTime, Idle, At
<1>2. RacesSpec => []Reliable
  BY <1>1, NextReliable, RacesShape, PTL DEF RacesSpec
<1>3. Shape /\ Reliable /\ [RacesNext]_<<vars, memory>>
        => [Full /\ ~Full' => Removal]_<<vars, memory>>
  <2> SUFFICES ASSUME Shape, Reliable, RacesNext, Full, ~Full' PROVE Removal
    BY DEF vars, memory
  <2>1. ASSUME NEW p \in Actors, WriteRow(p) PROVE FALSE
    <3>1. op[p].addr \in Addr /\ rows \in SUBSET Addr /\ rows' = rows \cup {op[p].addr}
      BY <2>1 DEF WriteRow, At, Shape, TypeOK, CallsKnow, Knows
    <3>2. rows' \in SUBSET Addr /\ IsFiniteSet(rows)
      BY <3>1, RowsFinite
    <3>3. Cardinality(rows) \in Nat /\ Cardinality(rows') \in Nat
      BY <3>1, <3>2, RowsFinite
    <3>4. Cardinality(rows') >= Cardinality(rows)
      BY <3>1, <3>2, <3>3, FS_AddElement, SMTT(30)
    <3>5. QED
      BY <3>3, <3>4, CapAssumption DEF Full
  <2>2. ASSUME NEW p \in Actors, Displace(p) PROVE Removal
    BY <2>2, DisplacingInTime DEF Removal
  <2>3. ASSUME NEW p \in Actors, Step(p) \/ Fail(p), ~WriteRow(p), ~Displace(p) PROVE FALSE
    BY <2>3, QuietStep DEF Full
  <2>4. ASSUME NEW p \in Actors, NEW a \in Addr, Begin(p, a) PROVE Removal
    BY <2>4 DEF Begin, HandAdd, RotationAdd, BeginAdd, Removal, Full
  <2>5. rows' # rows
    BY DEF Full
  <2>6. QED
    BY <2>1, <2>2, <2>3, <2>4, <2>5
    DEF RacesNext, Next, Snapshot, Star, Unstar, Environment, CoreRestart, ForeignAdd,
        PendingExpires
<1>4. QED
  BY <1>2, <1>3, RacesShape, PTL DEF RacesSpec, NoShrink

-----------------------------------------------------------------------------
(* The manual set with the sync passes beside the calls (ManualSync).      *)

SyncShape == Shape /\ sy \in [Syncers -> Passes]

\* What a pass may still let in of what it was told before its awaits: as many
\* entries as there was room then.
Promised == {t \in Syncers \X (1..Cap) : sy[t[1]].pc = "retry" /\ t[2] <= sy[t[1]].room}

Budget == Cardinality(rows) + Cardinality(Promised) <= Cap + 1 + Cap * Cardinality(Syncers)

LEMMA PromisedIs ==
  ASSUME NEW S \in SUBSET (Syncers \X (1..Cap))
  PROVE  /\ IsFiniteSet(S) /\ Cardinality(S) \in Nat
         /\ Cardinality(S) <= Cap * Cardinality(Syncers)
         /\ Cap * Cardinality(Syncers) \in Nat
<1>1. IsFiniteSet(1..Cap) /\ Cardinality(1..Cap) = Cap
  BY CapAssumption, FS_Interval
<1>2. IsFiniteSet(Syncers) /\ Cardinality(Syncers) \in Nat
  BY SyncersAssumption, FS_CardinalityType
<1>3. IsFiniteSet(Syncers \X (1..Cap)) /\ Cardinality(Syncers \X (1..Cap)) = Cardinality(Syncers) * Cap
  BY <1>1, <1>2, FS_Product
<1>4. IsFiniteSet(S) /\ Cardinality(S) <= Cardinality(Syncers) * Cap
  BY <1>3, FS_Subset
<1>5. Cardinality(S) \in Nat
  BY <1>4, FS_CardinalityType
<1>6. \A x, y \in Nat : x * y = y * x /\ x * y \in Nat
  OBVIOUS
<1>7. Cardinality(Syncers) * Cap = Cap * Cardinality(Syncers) /\ Cap * Cardinality(Syncers) \in Nat
  BY <1>2, <1>6, CapAssumption
<1>8. QED
  BY <1>4, <1>5, <1>7, Zenon

\* A step after which the set is no more than one over is always within the
\* budget, and so is one that promises no more and lets nobody in.
LEMMA WithinBudget ==
  ASSUME SyncShape', Cardinality(rows') <= Cap + 1
  PROVE  Budget'
<1>1. Promised' \in SUBSET (Syncers \X (1..Cap))
  BY DEF Promised
<1>2. /\ Cardinality(Promised') \in Nat
      /\ Cardinality(Promised') <= Cap * Cardinality(Syncers)
      /\ Cap * Cardinality(Syncers) \in Nat
  BY <1>1, PromisedIs
<1>3. Cardinality(rows') \in Nat
  BY RowsFinite DEF SyncShape, Shape, TypeOK
<1>4. QED
  BY <1>2, <1>3, CapAssumption DEF Budget

LEMMA NoMore ==
  ASSUME SyncShape, SyncShape', Budget, Promised' \subseteq Promised, rows' \subseteq rows
  PROVE  Budget'
<1>1. Promised \in SUBSET (Syncers \X (1..Cap))
  BY DEF Promised
<1>2. /\ IsFiniteSet(Promised) /\ Cardinality(Promised) \in Nat
      /\ Cap * Cardinality(Syncers) \in Nat
  BY <1>1, PromisedIs
<1>3. Cardinality(Promised') \in Nat /\ Cardinality(Promised') <= Cardinality(Promised)
  BY <1>2, FS_Subset, FS_CardinalityType
<1>4. /\ Cardinality(rows) \in Nat /\ Cardinality(rows') \in Nat
      /\ Cardinality(rows') <= Cardinality(rows)
  BY RowsFinite, FS_Subset DEF SyncShape, Shape, TypeOK
<1>5. QED
  BY <1>2, <1>3, <1>4, CapAssumption DEF Budget

\* The calls of ManualSet count the rows in the transaction that adds one.
LEMMA CallsBound ==
  ASSUME Shape, [Next]_vars
  PROVE  rows' \subseteq rows \/ Cardinality(rows') <= Cap + 1
<1>1. ASSUME NEW p \in Actors, Step(p) PROVE rows' \subseteq rows \/ Cardinality(rows') <= Cap + 1
  <2>1. CASE WriteRow(p)
    <3>1. op[p].addr \in Addr /\ rows \in SUBSET Addr /\ rows' = rows \cup {op[p].addr}
      BY <2>1 DEF WriteRow, At, Shape, TypeOK, CallsKnow, Knows
    <3>2. CASE op[p].addr \in rows
      BY <3>1, <3>2
    <3>3. CASE op[p].addr \notin rows
      <4>1. Cardinality(rows) \in Nat /\ Cardinality(rows') \in Nat
        BY <3>1, RowsFinite
      <4>2. Cardinality(rows) < Cap + 1
        BY <2>1, <3>3, <4>1, CapAssumption DEF WriteRow, Fits, Limit
      <4>3. Cardinality(rows') <= Cardinality(rows) + 1
        BY <3>1, OneMore
      <4>4. QED
        BY <4>1, <4>2, <4>3, CapAssumption
    <3>4. QED
      BY <3>2, <3>3
  <2>2. CASE rows' \subseteq rows
    BY <2>2
  <2>3. QED
    BY <1>1, <2>1, <2>2
    DEF Step, CoreAdds, LoseSlot, TakeBack, CoreRemoves, Park, Displace, DeleteRow
<1>2. ASSUME NEW p \in Actors, Fail(p) \/ Snapshot(p) PROVE rows' \subseteq rows
  BY <1>2 DEF Fail, AddFails, TakeBackFails, RemoveFails, Abort, Snapshot
<1>3. ASSUME NEW p \in Actors, NEW a \in Addr, Begin(p, a) PROVE rows' \subseteq rows
  BY <1>3 DEF Begin, HandAdd, RotationAdd, BeginAdd, HandRemove, Retire, DeleteRow
<1>4. ASSUME NEW a \in Addr, Star(a) \/ Unstar(a) PROVE rows' \subseteq rows
  BY <1>4 DEF Star, Unstar
<1>5. CASE Environment \/ UNCHANGED vars
  BY <1>5 DEF Environment, CoreRestart, ForeignAdd, PendingExpires, vars
<1>6. QED
  BY <1>1, <1>2, <1>3, <1>4, <1>5 DEF Next

\* A step of a pass that touches neither the rows nor the calls.
LEMMA PassMoves ==
  ASSUME SyncShape, NEW s \in Syncers, NEW pass \in Passes, sy' = [sy EXCEPT ![s] = pass],
         core' \subseteq Addr, UNCHANGED <<rows, kept, pending, parked, op, snap>>
  PROVE  SyncShape'
<1>1. sy' \in [Syncers -> Passes]
  BY DEF SyncShape
<1>2. Shape'
  BY DEF SyncShape, Shape, TypeOK, CallsKnow, Knows
<1>3. QED
  BY <1>1, <1>2 DEF SyncShape

LEMMA RoomIs == \A n \in Nat : Room(n) \in 0..Cap /\ (n <= Cap => n + Room(n) = Cap)
                               /\ (n >= Cap => Room(n) = 0)
BY CapAssumption DEF Room

LEMMA PassesAre ==
  /\ NoPass \in Passes
  /\ \A want, list \in SUBSET Addr : Restoring(want, list) \in Passes
<1>1. NoPass \in Passes
  BY CapAssumption DEF NoPass, Passes, Phases
<1>2. ASSUME NEW want \in SUBSET Addr, NEW list \in SUBSET Addr
      PROVE  Restoring(want, list) \in Passes
  <2>1. want \ list \in SUBSET Addr
    OBVIOUS
  <2>2. Room(Cardinality(want \cap list)) \in 0..Cap
    <3>1. Cardinality(want \cap list) \in Nat
      BY RowsFinite
    <3>2. QED
      BY <3>1, RoomIs
  <2> DEFINE k == Room(Cardinality(want \cap list))
  <2>3. ASSUME NEW r \in 0..Cap
        PROVE  [NoPass EXCEPT !.pc = "restore", !.todo = want \ list, !.room = r] \in Passes
    BY <2>1 DEF NoPass, Passes, Phases
  <2>4. QED
    BY <2>2, <2>3 DEF Restoring
<1>3. QED
  BY <1>1, <1>2

\* What one stretch of the adoption loop does, up to its next await or its end.
LEMMA AdoptIs ==
  ASSUME SyncShape, NEW s \in Syncers, NEW todo \in SUBSET Addr, NEW room \in 0..Cap,
         NEW pend \in SUBSET Addr, NEW dirty \in BOOLEAN, Adopt(s, todo, room, pend, dirty),
         core' \subseteq Addr
  PROVE  /\ SyncShape'
         /\ \A t \in Syncers \ {s} : sy'[t] = sy[t]
         /\ \E ins \in SUBSET Addr :
              /\ rows' = rows \cup ins /\ Cardinality(ins) <= room
              /\ sy'[s].pc = "retry" => sy'[s].room = room - Cardinality(ins)
<1>1. PICK seen \in SUBSET (todo \ pend) :
        \E ins \in kSubset(Min({Cardinality(seen), room}), seen) :
          /\ rows' = rows \cup ins
          /\ kept' = kept \cup (ins \ rows)
          /\ \/ /\ seen = todo
                /\ pending' = IF dirty THEN pend ELSE pending
                /\ sy' = [sy EXCEPT ![s] = Restoring(rows', sy[s].list)]
             \/ \E e \in todo \cap pend :
                  /\ sy' = [sy EXCEPT ![s] = [@ EXCEPT !.pc = "retry", !.again = e,
                              !.todo = todo \ (seen \cup {e}), !.room = room - Cardinality(ins),
                              !.pend = pend, !.dirty = dirty]]
                  /\ UNCHANGED pending
          /\ UNCHANGED <<parked, op, snap>>
  BY DEF Adopt
<1>2. PICK ins \in kSubset(Min({Cardinality(seen), room}), seen) :
          /\ rows' = rows \cup ins
          /\ kept' = kept \cup (ins \ rows)
          /\ \/ /\ seen = todo
                /\ pending' = IF dirty THEN pend ELSE pending
                /\ sy' = [sy EXCEPT ![s] = Restoring(rows', sy[s].list)]
             \/ \E e \in todo \cap pend :
                  /\ sy' = [sy EXCEPT ![s] = [@ EXCEPT !.pc = "retry", !.again = e,
                              !.todo = todo \ (seen \cup {e}), !.room = room - Cardinality(ins),
                              !.pend = pend, !.dirty = dirty]]
                  /\ UNCHANGED pending
          /\ UNCHANGED <<parked, op, snap>>
  BY <1>1
<1>3. Cardinality(seen) \in Nat /\ room \in Nat
  BY RowsFinite, CapAssumption
<1>4. Min({Cardinality(seen), room}) <= room
  <2>1. \A x, y \in Nat : Min({x, y}) <= y
    <3> SUFFICES ASSUME NEW x \in Nat, NEW y \in Nat PROVE Min({x, y}) <= y
      OBVIOUS
    <3>1. \E z \in {x, y} : \A w \in {x, y} : z <= w
      BY \A u, v \in Nat : u <= v \/ v <= u
    <3>2. QED
      BY <3>1 DEF Min
  <2>2. QED
    BY <1>3, <2>1
<1>5. ins \in SUBSET Addr /\ Cardinality(ins) <= room /\ Cardinality(ins) \in Nat
  <2>1. ins \subseteq seen /\ Cardinality(ins) = Min({Cardinality(seen), room})
    BY <1>2 DEF kSubset
  <2>2. ins \in SUBSET Addr
    BY <2>1
  <2>3. QED
    BY <1>4, <2>1, <2>2, RowsFinite
<1>6. room - Cardinality(ins) \in 0..Cap
  BY <1>3, <1>5, CapAssumption
<1>7. /\ rows' \subseteq Addr /\ kept' \subseteq rows' /\ pending' \subseteq Addr
      /\ parked' \subseteq Addr /\ UNCHANGED <<op, snap>>
  BY <1>2, <1>5 DEF SyncShape, Shape, TypeOK
<1>8. Shape'
  BY <1>7 DEF SyncShape, Shape, TypeOK, CallsKnow, Knows
<1>9. /\ sy' \in [Syncers -> Passes] /\ \A t \in Syncers \ {s} : sy'[t] = sy[t]
      /\ sy'[s].pc = "retry" => sy'[s].room = room - Cardinality(ins)
  <2>1. CASE sy' = [sy EXCEPT ![s] = Restoring(rows', sy[s].list)]
    <3>1. sy[s].list \in SUBSET Addr /\ rows' \in SUBSET Addr
      BY <1>7 DEF SyncShape, Passes
    <3>2. Restoring(rows', sy[s].list) \in Passes
      BY <3>1, PassesAre
    <3>3. Restoring(rows', sy[s].list).pc = "restore"
      BY DEF Restoring, NoPass
    <3>4. QED
      BY <2>1, <3>2, <3>3 DEF SyncShape
  <2>2. ASSUME NEW e \in todo \cap pend,
               sy' = [sy EXCEPT ![s] = [@ EXCEPT !.pc = "retry", !.again = e,
                        !.todo = todo \ (seen \cup {e}), !.room = room - Cardinality(ins),
                        !.pend = pend, !.dirty = dirty]]
        PROVE  /\ sy' \in [Syncers -> Passes] /\ \A t \in Syncers \ {s} : sy'[t] = sy[t]
               /\ sy'[s].pc = "retry" => sy'[s].room = room - Cardinality(ins)
    <3> DEFINE left == todo \ (seen \cup {e})
               rest == room - Cardinality(ins)
               pass == [sy[s] EXCEPT !.pc = "retry", !.again = e, !.todo = left, !.room = rest,
                                     !.pend = pend, !.dirty = dirty]
    <3>1. left \in SUBSET Addr /\ rest \in 0..Cap /\ e \in Addr
      BY <1>6
    <3> HIDE DEF left, rest
    <3>2. sy[s] \in Passes
      BY DEF SyncShape
    <3>3. pass \in Passes /\ pass.room = rest
      BY <3>1, <3>2 DEF Passes, Phases
    <3>4. sy' = [sy EXCEPT ![s] = pass]
      BY <2>2 DEF left, rest
    <3> HIDE DEF pass
    <3>5. sy'[s] = pass
      BY <3>4 DEF SyncShape
    <3>6. QED
      BY <3>3, <3>4, <3>5 DEF SyncShape, rest
  <2>3. QED
    BY <1>2, <2>1, <2>2
<1>10. QED
  BY <1>2, <1>5, <1>8, <1>9 DEF SyncShape

\* The first stretch: the rows are counted, and no await comes between.
LEMMA TurnKeeps ==
  ASSUME SyncShape, Budget, NEW s \in Syncers, AdoptTurn(s)
  PROVE  SyncShape' /\ Budget'
<1> DEFINE room == Room(Cardinality(rows))
<1>1. rows \in SUBSET Addr /\ Cardinality(rows) \in Nat /\ pending \in SUBSET Addr
      /\ core' \subseteq Addr /\ sy[s].list \ rows \in SUBSET Addr
  BY RowsFinite DEF SyncShape, Shape, TypeOK, AdoptTurn, Passes
<1>2. room \in 0..Cap /\ room \in Nat
  BY <1>1, RoomIs, CapAssumption
<1>3. FALSE \in BOOLEAN /\ Adopt(s, sy[s].list \ rows, room, pending, FALSE)
  BY DEF AdoptTurn
<1> HIDE DEF room
<1>4. /\ SyncShape' /\ \A t \in Syncers \ {s} : sy'[t] = sy[t]
      /\ \E ins \in SUBSET Addr : /\ rows' = rows \cup ins /\ Cardinality(ins) <= room
                                  /\ sy'[s].pc = "retry" => sy'[s].room = room - Cardinality(ins)
  BY <1>1, <1>2, <1>3, AdoptIs
<1>5. PICK ins \in SUBSET Addr : /\ rows' = rows \cup ins /\ Cardinality(ins) <= room
                                 /\ sy'[s].pc = "retry" => sy'[s].room = room - Cardinality(ins)
  BY <1>4
<1>6. IsFiniteSet(ins) /\ Cardinality(ins) \in Nat
  BY RowsFinite
<1>7. CASE Cardinality(rows) >= Cap
  <2>1. room = 0
    BY <1>1, <1>7, RoomIs DEF room
  <2>2. Cardinality(ins) = 0
    BY <1>5, <1>6, <2>1
  <2>3. ins = {}
    BY <1>6, <2>2, FS_EmptySet
  <2>4. sy'[s].pc = "retry" => sy'[s].room = 0
    BY <1>5, <2>1, <2>2
  <2>5. Promised' \subseteq Promised
    <3> SUFFICES ASSUME NEW t \in Promised' PROVE t \in Promised
      OBVIOUS
    <3>1. /\ t \in Syncers \X (1..Cap) /\ t[1] \in Syncers /\ t[2] \in 1..Cap
          /\ sy'[t[1]].pc = "retry" /\ t[2] <= sy'[t[1]].room
      BY DEF Promised
    <3>2. t[1] # s
      BY <2>4, <3>1, CapAssumption
    <3>3. sy'[t[1]] = sy[t[1]]
      BY <1>4, <3>1, <3>2
    <3>4. QED
      BY <3>1, <3>3 DEF Promised
  <2>6. rows' \subseteq rows
    BY <1>5, <2>3
  <2>7. QED
    BY <1>4, <2>5, <2>6, NoMore
<1>8. CASE Cardinality(rows) < Cap
  <2>1. Cardinality(rows) + room = Cap
    BY <1>1, <1>8, RoomIs, CapAssumption DEF room
  <2>2. Cardinality(rows') <= Cardinality(rows) + Cardinality(ins) /\ Cardinality(rows') \in Nat
    <3>1. /\ Cardinality(rows') = Cardinality(rows) + Cardinality(ins) - Cardinality(rows \cap ins)
          /\ Cardinality(rows \cap ins) \in Nat /\ Cardinality(rows') \in Nat
      BY <1>1, <1>5, RowsFinite, FS_Union
    <3>2. QED
      BY <1>1, <1>6, <3>1
  <2>3. Cardinality(rows') <= Cap + 1
    BY <1>1, <1>2, <1>5, <1>6, <2>1, <2>2, CapAssumption
  <2>4. QED
    BY <1>4, <2>3, WithinBudget
<1>9. QED
  BY <1>1, <1>7, <1>8, CapAssumption

\* A later stretch: what is let in was promised.
LEMMA RetryKeeps ==
  ASSUME SyncShape, Budget, NEW s \in Syncers, sy[s].pc = "retry", core' \subseteq Addr,
         NEW pend \in SUBSET Addr, NEW dirty \in BOOLEAN,
         Adopt(s, sy[s].todo, sy[s].room, pend, dirty)
  PROVE  SyncShape' /\ Budget'
<1> DEFINE room == sy[s].room
<1>1. sy[s].todo \in SUBSET Addr /\ room \in 0..Cap /\ room \in Nat
  BY CapAssumption DEF SyncShape, Passes
<1>2. rows \in SUBSET Addr /\ IsFiniteSet(rows) /\ Cardinality(rows) \in Nat
  BY RowsFinite DEF SyncShape, Shape, TypeOK
<1>3. Adopt(s, sy[s].todo, room, pend, dirty) /\ \A j : <<s, j>>[1] = s /\ <<s, j>>[2] = j
  OBVIOUS
<1>4. \A t \in Syncers \X (1..Cap) :
        t \in Promised <=> sy[t[1]].pc = "retry" /\ t[2] <= sy[t[1]].room
  BY DEF Promised
<1>5. \A j \in 1..Cap : j <= room => <<s, j>> \in Promised
  BY <1>3, <1>4
<1> HIDE DEF room
<1>6. /\ SyncShape' /\ \A t \in Syncers \ {s} : sy'[t] = sy[t]
      /\ \E ins \in SUBSET Addr : /\ rows' = rows \cup ins /\ Cardinality(ins) <= room
                                  /\ sy'[s].pc = "retry" => sy'[s].room = room - Cardinality(ins)
  BY <1>1, <1>3, AdoptIs
<1>7. PICK ins \in SUBSET Addr : /\ rows' = rows \cup ins /\ Cardinality(ins) <= room
                                 /\ sy'[s].pc = "retry" => sy'[s].room = room - Cardinality(ins)
  BY <1>6
<1> DEFINE k == Cardinality(ins)
           used == {s} \X ((room - k + 1)..room)
<1>8. IsFiniteSet(ins) /\ k \in Nat /\ k <= room
  BY <1>7, RowsFinite
<1> HIDE DEF k
<1>9. used \subseteq Promised /\ IsFiniteSet(used) /\ Cardinality(used) = k
  <2>1. room - k + 1 \in Int /\ room \in Int /\ (room - k + 1 > room => k = 0)
        /\ room - (room - k + 1) + 1 = k
    BY <1>1, <1>8
  <2>2. IsFiniteSet((room - k + 1)..room) /\ Cardinality((room - k + 1)..room) = k
    BY <2>1, FS_Interval
  <2>3. IsFiniteSet({s}) /\ Cardinality({s}) = 1
    BY FS_Singleton
  <2>4. IsFiniteSet(used) /\ Cardinality(used) = 1 * k
    BY <2>2, <2>3, FS_Product, ZenonT(40)
  <2>5. ASSUME NEW j \in (room - k + 1)..room PROVE <<s, j>> \in Promised
    <3>1. j \in 1..Cap /\ j <= room
      BY <1>1, <1>8, CapAssumption
    <3>2. QED
      BY <1>5, <3>1
  <2>6. used \subseteq Promised
    BY <2>5
  <2>7. QED
    BY <1>8, <2>4, <2>6
<1>10. Promised' \subseteq Promised \ used
  <2> SUFFICES ASSUME NEW t \in Promised' PROVE t \in Promised /\ t \notin used
    OBVIOUS
  <2>1. /\ t \in Syncers \X (1..Cap) /\ t[1] \in Syncers /\ t[2] \in 1..Cap /\ t = <<t[1], t[2]>>
        /\ sy'[t[1]].pc = "retry" /\ t[2] <= sy'[t[1]].room
    BY DEF Promised
  <2>2. CASE t[1] # s
    <3>1. sy'[t[1]] = sy[t[1]]
      BY <1>6, <2>1, <2>2
    <3>2. t \in Promised
      BY <1>4, <2>1, <3>1
    <3>3. QED
      BY <2>2, <3>2
  <2>3. CASE t[1] = s
    <3>1. t[2] <= room - k
      BY <1>7, <2>1, <2>3 DEF k
    <3>2. t[2] <= room /\ t[2] \notin (room - k + 1)..room
      BY <1>1, <1>8, <2>1, <3>1
    <3>3. t \in Promised
      BY <1>5, <2>1, <2>3, <3>2
    <3>4. QED
      BY <3>2, <3>3
  <2>4. QED
    BY <2>2, <2>3
<1> HIDE DEF used
<1>11. /\ IsFiniteSet(Promised) /\ Cardinality(Promised) \in Nat
       /\ Cap * Cardinality(Syncers) \in Nat
  <2>1. Promised \in SUBSET (Syncers \X (1..Cap))
    BY DEF Promised
  <2>2. QED
    BY <2>1, PromisedIs
<1>12. Cardinality(Promised') \in Nat /\ Cardinality(Promised') + k <= Cardinality(Promised)
  <2>1. Promised \cap used = used
    BY <1>9
  <2>2. IsFiniteSet(Promised \ used) /\ Cardinality(Promised \ used) = Cardinality(Promised) - k
    BY <1>9, <1>11, <2>1, FS_Difference, ZenonT(40)
  <2>3. Cardinality(Promised') \in Nat /\ Cardinality(Promised') <= Cardinality(Promised \ used)
    BY <1>10, <2>2, FS_Subset, FS_CardinalityType
  <2>4. QED
    BY <1>8, <1>11, <2>2, <2>3
<1>13. Cardinality(rows') \in Nat /\ Cardinality(rows') <= Cardinality(rows) + k
  <2>1. /\ Cardinality(rows') = Cardinality(rows) + k - Cardinality(rows \cap ins)
        /\ Cardinality(rows \cap ins) \in Nat /\ Cardinality(rows') \in Nat
    BY <1>2, <1>7, <1>8, RowsFinite, FS_Union DEF k
  <2>2. QED
    BY <1>2, <1>8, <2>1
<1>14. Budget'
  <2>1. Cardinality(rows) + Cardinality(Promised) <= Cap + 1 + Cap * Cardinality(Syncers)
    BY DEF Budget
  <2>2. Cardinality(rows') + Cardinality(Promised') <= Cap + 1 + Cap * Cardinality(Syncers)
    BY <1>2, <1>8, <1>11, <1>12, <1>13, <2>1, CapAssumption
  <2>3. QED
    BY <2>2 DEF Budget
<1>15. QED
  BY <1>6, <1>14

\* The steps of a pass that let nobody in and promise nothing.
LEMMA QuietPass ==
  ASSUME SyncShape, Budget, NEW s \in Syncers, NEW pass \in Passes, pass.pc # "retry",
         sy' = [sy EXCEPT ![s] = pass], core' \subseteq Addr,
         UNCHANGED <<rows, kept, pending, parked, op, snap>>
  PROVE  SyncShape' /\ Budget'
<1>1. SyncShape'
  BY PassMoves
<1>2. Promised' \subseteq Promised
  <2> SUFFICES ASSUME NEW t \in Promised' PROVE t \in Promised
    OBVIOUS
  <2>1. /\ t \in Syncers \X (1..Cap) /\ t[1] \in Syncers
        /\ sy'[t[1]].pc = "retry" /\ t[2] <= sy'[t[1]].room
    BY DEF Promised
  <2>2. sy'[s] = pass /\ \A u \in Syncers \ {s} : sy'[u] = sy[u]
    BY DEF SyncShape
  <2>3. t[1] # s
    BY <2>1, <2>2
  <2>4. sy'[t[1]] = sy[t[1]]
    BY <2>1, <2>2, <2>3
  <2>5. QED
    BY <2>1, <2>4 DEF Promised
<1>3. QED
  BY <1>1, <1>2, NoMore

LEMMA PassKeeps ==
  ASSUME SyncShape, Budget, NEW s \in Syncers, PassStep(s) \/ PassFails(s)
  PROVE  SyncShape' /\ Budget'
<1>1. /\ rows \in SUBSET Addr /\ core \in SUBSET Addr /\ pending \in SUBSET Addr
      /\ sy[s] \in Passes /\ sy[s].todo \in SUBSET Addr /\ sy[s].pend \in SUBSET Addr
      /\ sy[s].dirty \in BOOLEAN /\ sy[s].room \in 0..Cap
  BY DEF SyncShape, Shape, TypeOK, Passes
<1>2. CASE BeginPass(s)
  <2>1. [sy[s] EXCEPT !.pc = "fetch"] \in Passes /\ [sy[s] EXCEPT !.pc = "fetch"].pc # "retry"
    BY <1>1 DEF Passes, Phases
  <2>2. QED
    BY <1>1, <1>2, <2>1, QuietPass DEF BeginPass, vars
<1>3. CASE Listed(s)
  <2> DEFINE pass == [sy[s] EXCEPT !.pc = "turn", !.list = core]
  <2>1. pass \in Passes /\ pass.pc # "retry"
    BY <1>1 DEF Passes, Phases
  <2>2. sy' = [sy EXCEPT ![s] = pass]
    BY <1>3 DEF Listed, SyncShape
  <2> HIDE DEF pass
  <2>3. QED
    BY <1>1, <1>3, <2>1, <2>2, QuietPass DEF Listed, vars
<1>4. CASE Relisted(s)
  <2>1. Restoring(sy[s].todo, core) \in Passes /\ Restoring(sy[s].todo, core).pc # "retry"
    BY <1>1, PassesAre DEF Restoring, NoPass
  <2>2. QED
    BY <1>1, <1>4, <2>1, QuietPass DEF Relisted, vars
<1>5. CASE ListFails(s)
  <2> DEFINE pass == [NoPass EXCEPT !.pc = "refetch", !.todo = rows]
  <2>1. pass \in Passes /\ pass.pc # "retry"
    BY <1>1, PassesAre DEF NoPass, Passes, Phases
  <2>2. sy' = [sy EXCEPT ![s] = pass]
    BY <1>5 DEF ListFails
  <2> HIDE DEF pass
  <2>3. QED
    BY <1>1, <1>5, <2>1, <2>2, QuietPass DEF ListFails, vars
<1>6. CASE EndPass(s) \/ RelistFails(s) \/ AbortPass(s)
  <2>1. NoPass \in Passes /\ NoPass.pc # "retry"
    BY PassesAre DEF NoPass
  <2>2. sy' = [sy EXCEPT ![s] = NoPass] /\ UNCHANGED vars
    BY <1>6 DEF EndPass, RelistFails, AbortPass
  <2>3. QED
    BY <1>1, <2>1, <2>2, QuietPass DEF vars
<1>7. CASE \E a \in Addr : Restore(s, a) \/ RestoreFails(s, a)
  <2>1. PICK a \in Addr : Restore(s, a) \/ RestoreFails(s, a)
    BY <1>7
  <2>2. sy[s].pc = "restore" /\ sy[s].room > 0 /\ core' \subseteq Addr
        /\ UNCHANGED <<rows, kept, pending, parked, op, snap>>
    BY <1>1, <2>1 DEF Restore, RestoreFails
  <2>3. PICK room \in {sy[s].room, sy[s].room - 1} :
          sy' = [sy EXCEPT ![s] = [sy[s] EXCEPT !.todo = @ \ {a}, !.room = room]]
    <3>1. CASE Restore(s, a) /\ a \notin core
      <4>1. sy' = [sy EXCEPT ![s] = [sy[s] EXCEPT !.todo = @ \ {a}, !.room = sy[s].room - 1]]
        BY <3>1 DEF Restore, SyncShape, Passes
      <4>2. QED
        BY <4>1
    <3>2. CASE RestoreFails(s, a) \/ (Restore(s, a) /\ a \in core)
      <4>1. sy' = [sy EXCEPT ![s] = [sy[s] EXCEPT !.todo = @ \ {a}, !.room = sy[s].room]]
        BY <1>1, <3>2 DEF Restore, RestoreFails, SyncShape, Passes
      <4>2. QED
        BY <4>1
    <3>3. QED
      BY <2>1, <3>1, <3>2
  <2> DEFINE left == sy[s].todo \ {a}
             pass == [sy[s] EXCEPT !.todo = left, !.room = room]
  <2>4. left \in SUBSET Addr /\ room \in 0..Cap
    BY <1>1, <2>2, CapAssumption
  <2> HIDE DEF left
  <2>5. pass \in Passes /\ pass.pc = "restore"
    BY <1>1, <2>2, <2>4 DEF Passes
  <2>6. sy' = [sy EXCEPT ![s] = pass]
    BY <2>3 DEF left
  <2> HIDE DEF pass
  <2>7. QED
    BY <2>2, <2>5, <2>6, QuietPass
<1>8. CASE AdoptTurn(s)
  BY <1>8, TurnKeeps
<1>9. CASE Retried(s)
  <2>1. /\ sy[s].pc = "retry" /\ core' \subseteq Addr
        /\ Adopt(s, sy[s].todo, sy[s].room, sy[s].pend \ {sy[s].again}, TRUE)
        /\ sy[s].pend \ {sy[s].again} \in SUBSET Addr /\ TRUE \in BOOLEAN
    BY <1>1, <1>9 DEF Retried
  <2>2. QED
    BY <2>1, RetryKeeps
<1>10. CASE RetryFails(s)
  <2>1. /\ sy[s].pc = "retry" /\ core' \subseteq Addr
        /\ Adopt(s, sy[s].todo, sy[s].room, sy[s].pend, sy[s].dirty)
    BY <1>1, <1>10 DEF RetryFails
  <2>2. QED
    BY <1>1, <2>1, RetryKeeps
<1>11. QED
  BY <1>2, <1>3, <1>4, <1>5, <1>6, <1>7, <1>8, <1>9, <1>10 DEF PassStep, PassFails

LEMMA SyncKeeps == SyncShape /\ Budget /\ [SyncNext]_syncVars => SyncShape' /\ Budget'
<1> SUFFICES ASSUME SyncShape, Budget, [SyncNext]_syncVars PROVE SyncShape' /\ Budget'
  OBVIOUS
<1>1. ASSUME [Next]_vars, UNCHANGED sy PROVE SyncShape' /\ Budget'
  <2>1. SyncShape'
    BY <1>1, NextShape DEF SyncShape
  <2>2. Promised' \subseteq Promised
    BY <1>1 DEF Promised
  <2>3. rows' \subseteq rows \/ Cardinality(rows') <= Cap + 1
    BY <1>1, CallsBound DEF SyncShape
  <2>4. QED
    BY <2>1, <2>2, <2>3, NoMore, WithinBudget
<1>2. ASSUME NEW s \in Syncers, PassStep(s) \/ PassFails(s) PROVE SyncShape' /\ Budget'
  BY <1>2, PassKeeps
<1>3. CASE UNCHANGED syncVars
  BY <1>1, <1>3 DEF syncVars, vars
<1>4. QED
  BY <1>1, <1>2, <1>3 DEF SyncNext

LEMMA SyncInitially == SyncInit => SyncShape /\ Budget
<1> SUFFICES ASSUME SyncInit PROVE SyncShape /\ Budget
  OBVIOUS
<1>1. SyncShape
  BY InitShape, PassesAre DEF SyncInit, SyncShape
<1>2. Promised = {} /\ rows = {}
  BY DEF SyncInit, Init, Promised, NoPass
<1>3. Cardinality(Promised) = 0 /\ Cardinality(rows) = 0
  BY <1>2, FS_EmptySet
<1>4. {} \in SUBSET (Syncers \X (1..Cap)) /\ Cap * Cardinality(Syncers) \in Nat
  BY PromisedIs
<1>5. QED
  BY <1>1, <1>3, <1>4, CapAssumption DEF Budget

LEMMA AlwaysInBudget == SyncSpec => [](SyncShape /\ Budget)
BY SyncInitially, SyncKeeps, PTL DEF SyncSpec

\* Type correctness of the manual set with the sync passes beside it: a pass
\* never has more room than the limit, nor less than none, through failures of
\* its retries and calls that change the rows during its awaits
\* (adoptExternalManualPeers, syncTrustedToAddnode).
THEOREM SyncTypes == SyncSpec => []SyncTypeOK
<1>1. SyncShape => SyncTypeOK
  BY DEF SyncShape, Shape, SyncTypeOK
<1>2. QED
  BY <1>1, AlwaysInBudget, PTL

\* The adoption loop compares with a count from before its awaits
\* (adoptExternalManualPeers), and so can pass the limit; but by no more than the
\* limit itself for each pass that can be under way, however often passes come
\* and go, whatever they and the calls beside them do: with a set above the limit
\* a new pass has no room.
THEOREM OvershootBound == SyncSpec => []PassBound
<1>1. ASSUME SyncShape, Budget PROVE PassBound
  <2>1. Cardinality(rows) \in Nat
    BY <1>1, RowsFinite DEF SyncShape, Shape, TypeOK
  <2>2. Promised \in SUBSET (Syncers \X (1..Cap))
    BY DEF Promised
  <2>3. Cardinality(Promised) \in Nat /\ Cap * Cardinality(Syncers) \in Nat
    BY <2>2, PromisedIs
  <2>4. Cardinality(rows) <= Cap + 1 + Cap * Cardinality(Syncers)
    BY <1>1, <2>1, <2>3, CapAssumption DEF Budget
  <2>5. QED
    BY <2>4 DEF PassBound
<1>2. QED
  BY <1>1, AlwaysInBudget, PTL
=============================================================================
