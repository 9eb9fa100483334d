---------------------------- MODULE MCStratumRace ----------------------------
(* StratumRace with small sets for TLC. *)
EXTENDS StratumRace, TLC

\* Pools differ in nothing but their id.
PoolSymmetry == Permutations(Pool \ Malformed)
=============================================================================
