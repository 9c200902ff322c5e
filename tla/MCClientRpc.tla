---------------------------- MODULE MCClientRpc ----------------------------
(* Clients of a daemon, for TLC.                                            *)
EXTENDS ClientRpc, TLC

CONSTANTS c1, c2, a1

=============================================================================
