--------------------------- MODULE Induction_proofs ---------------------------
(***************************************************************************)
(* Induction over the natural numbers, as the other proofs use it.         *)
(***************************************************************************)
EXTENDS Integers, WellFoundedInduction, TLAPS

\* Induction over the naturals, for a set: what holds of zero and passes from
\* each number to the next holds of all.
LEMMA NatBySteps ==
  ASSUME NEW T, 0 \in T, \A n \in Nat : n \in T => n + 1 \in T
  PROVE  Nat \subseteq T
<1> DEFINE R == OpToRel(<, Nat)
           Rest == Nat \ T
<1>1. IsWellFoundedOn(R, Nat)
  BY NatLessThanWellFounded, Zenon
<1>2. \A k, j \in Nat : <<k, j>> \in R <=> k < j
  BY DEF OpToRel
<1> SUFFICES ASSUME Rest # {} PROVE FALSE
  OBVIOUS
<1> HIDE DEF R
<1>3. Rest \subseteq Nat
  OBVIOUS
<1>4. PICK m \in Rest : \A k \in Rest : ~ (<<k, m>> \in R)
  <2> HIDE DEF Rest
  <2> QED BY <1>1, <1>3, WFMin, Zenon
<1>5. m - 1 \in Nat /\ m - 1 < m
  <2>1. m # 0 /\ m \in Nat
    OBVIOUS
  <2>2. QED BY <2>1
<1>6. m - 1 \notin Rest
  BY <1>2, <1>3, <1>4, <1>5
<1>7. m - 1 \in T
  BY <1>5, <1>6
<1>8. (m - 1) + 1 \in T
  BY <1>5, <1>7
<1>9. QED
  BY <1>5, <1>8
=============================================================================
