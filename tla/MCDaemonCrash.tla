--------------------------- MODULE MCDaemonCrash ---------------------------
(* The networks of MCDaemonNet with daemons that are restarted, for TLC.    *)
EXTENDS DaemonCrash, MCDaemonNet
=============================================================================
