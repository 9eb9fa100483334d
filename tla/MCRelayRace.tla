----------------------------- MODULE MCRelayRace -----------------------------
(* RelayRace with small sets for TLC. *)
EXTENDS RelayRace, TLC

PeerSymmetry == Permutations(Peer)
=============================================================================
