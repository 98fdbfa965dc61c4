---------------------------- MODULE MCRateWindow ----------------------------
(* RateWindow with a few interchangeable clients.                          *)
EXTENDS RateWindow, TLC

Symmetry == Permutations(Clients)
=============================================================================
