--------------------------- MODULE MCMatrixClient ---------------------------
(* The client with a few logins, for TLC.                                   *)
EXTENDS MatrixClient, TLC
=============================================================================
