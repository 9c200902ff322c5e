-------------------------------- MODULE MCCli --------------------------------
(* The client with a few wallets and accounts, for TLC.                     *)
EXTENDS Cli, TLC
=============================================================================
