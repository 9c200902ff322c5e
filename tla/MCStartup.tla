----------------------------- MODULE MCStartup -----------------------------
(* One host with a handful of ports, for TLC: daemons s1 and s2 search for  *)
(* their ports, s3 may be given ports of its own.                           *)
EXTENDS Startup, TLC

CONSTANTS s1, s2, s3

NoOption   == [d \in Daemons |-> NoPort]
S3Rpc(p)   == [d \in Daemons |-> IF d = s3 THEN p ELSE NoPort]
S3RpcIs23  == S3Rpc(23)
NoPeers    == [d \in Daemons |-> {}]
PeersGiven == [d \in Daemons |-> IF d = s1 THEN {12} ELSE {11}]
=============================================================================
