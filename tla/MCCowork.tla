------------------------------ MODULE MCCowork ------------------------------
(* Cowork with a few interchangeable requests and principals.              *)
EXTENDS Cowork, TLC

Symmetry == Permutations(Requests) \cup Permutations(Principals)
=============================================================================
