---------------------------- MODULE MCManualSet ----------------------------
(***************************************************************************)
(* Small instances of ManualSet for TLC. The configurations choose who     *)
(* acts and what may go wrong; addresses that no configuration tells apart *)
(* are interchangeable.                                                    *)
(***************************************************************************)
EXTENDS ManualSet, TLC

AddrSymmetry == Permutations(Addr)
PeopleSymmetry == Permutations(Addr) \cup Permutations(Actors \ Rotators)
=============================================================================
