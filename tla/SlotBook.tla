------------------------------ MODULE SlotBook ------------------------------
(***************************************************************************)
(* What the manual set promises, whoever changes it and however their      *)
(* calls interleave: a book of slots, the stars on them, and the records   *)
(* of peers that lost a slot.                                              *)
(*   - Nobody enters a full book with more than one extra slot in use.     *)
(*   - Entering never clears a star; only a person does, or leaving.       *)
(*   - A record is given up only when its peer enters the book.            *)
(***************************************************************************)
EXTENDS FiniteSets, Integers

CONSTANTS Addr, Cap

VARIABLES book, starred, records

Init == book = {} /\ starred = {} /\ records = {}

Enter(a) ==
  /\ a \in book \/ Cardinality(book) <= Cap
  /\ book' = book \cup {a}
  /\ starred' \in {starred, starred \cup {a}}
  /\ records' = records \ {a}

Leave(a) ==
  /\ book' = book \ {a}
  /\ starred' = starred \ {a}
  /\ UNCHANGED records

Star(a) ==
  /\ a \in book
  /\ starred' \in {starred \cup {a}, starred \ {a}}
  /\ UNCHANGED <<book, records>>

Record(a) ==
  /\ records' = records \cup {a}
  /\ UNCHANGED <<book, starred>>

Next == \E a \in Addr : Enter(a) \/ Leave(a) \/ Star(a) \/ Record(a)

Spec == Init /\ [][Next]_<<book, starred, records>>
=============================================================================
