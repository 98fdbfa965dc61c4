---------------------------- MODULE MCRemoteCalls ----------------------------
(* RemoteCalls with two remote providers.                                  *)
EXTENDS RemoteCalls

CONSTANTS p1, p2

TwoProviders == <<p1, p2>>

=============================================================================
