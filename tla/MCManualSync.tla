---------------------------- MODULE MCManualSync ----------------------------
(* Small instances of ManualSync for TLC. *)
EXTENDS ManualSync, TLC

AddrSymmetry == Permutations(Addr)
=============================================================================
