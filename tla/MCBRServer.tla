----------------------------- MODULE MCBRServer -----------------------------
EXTENDS BRServer, TLC

(* Clients are told apart by nothing but their order in the lists.         *)
ClientSymmetry == Permutations(Clients)
=============================================================================
