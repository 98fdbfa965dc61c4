---------------------------- MODULE MCLocalModel ----------------------------
(* LocalModel on small sets of requests and threads.                       *)
EXTENDS LocalModel, TLC

Symmetry == Permutations(Calls) \cup Permutations(Streams) \cup Permutations(Workers)
=============================================================================
