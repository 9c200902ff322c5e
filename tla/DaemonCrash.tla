---------------------------- MODULE DaemonCrash ----------------------------
(***************************************************************************)
(* The network of DaemonNet with daemons that are killed and started       *)
(* again.  A daemon keeps its database and its address; what main          *)
(* (daemon.cpp:511-533) sets up is set up anew.  A daemon that is down is  *)
(* one that has been started and has not taken a step yet: messages for it *)
(* wait in the queues of their senders all the same.                       *)
(*                                                                         *)
(* On a link to the killed daemon the messages that had already left their *)
(* sender are lost, the others are sent when the connection is made again; *)
(* of the killed daemon's own messages those are lost that had not left.   *)
(***************************************************************************)
EXTENDS DaemonNet, SequencesExt

CONSTANTS
  NoDaemon,    \* none of the daemons
  MaxRestarts  \* bound on the number of restarts

ASSUME RestartsAssumption ==
  MaxRestarts \in Nat /\ NoDaemon \notin Daemons

VARIABLES
  restarts,  \* the restarts so far
  last       \* history: the daemon that was restarted last

crashVars == <<vars, restarts, last>>

\* Mutant: a daemon that starts announces nothing.
SetUpQuiet(d) ==
  /\ peers' = [peers EXCEPT ![d] = InitialPeers(d)]
  /\ toBcastPeers' = [toBcastPeers EXCEPT ![d] = TRUE]
  /\ toBcastHashes' = [toBcastHashes EXCEPT ![d] = FALSE]
  /\ toSendDbRequests' = [toSendDbRequests EXCEPT ![d] = FALSE]
  /\ dbRequests' = [dbRequests EXCEPT ![d] = [e \in Daemons |-> {}]]
  /\ p2pPc' = [p2pPc EXCEPT ![d] = "start"]
  /\ inMsg' = [inMsg EXCEPT ![d] = NoMsg]
  /\ dbInput' = [dbInput EXCEPT ![d] = FALSE]
  /\ hashes' = [hashes EXCEPT ![d] = {}]
  /\ dbPc' = [dbPc EXCEPT ![d] = "start"]
  /\ toDb' = [toDb EXCEPT ![d] = <<>>]
  /\ toP2p' = [toP2p EXCEPT ![d] = <<>>]

\* The memory of d is what main and the two threads start with.
SetUp(d) ==
  /\ peers' = [peers EXCEPT ![d] = InitialPeers(d)]
  /\ toBcastPeers' = [toBcastPeers EXCEPT ![d] = TRUE]
  /\ toBcastHashes' = [toBcastHashes EXCEPT ![d] = TRUE]
  /\ toSendDbRequests' = [toSendDbRequests EXCEPT ![d] = FALSE]
  /\ dbRequests' = [dbRequests EXCEPT ![d] = [e \in Daemons |-> {}]]
  /\ p2pPc' = [p2pPc EXCEPT ![d] = "start"]
  /\ inMsg' = [inMsg EXCEPT ![d] = NoMsg]
  /\ dbInput' = [dbInput EXCEPT ![d] = FALSE]
  /\ hashes' = [hashes EXCEPT ![d] = {}]
  /\ dbPc' = [dbPc EXCEPT ![d] = "start"]
  /\ toDb' = [toDb EXCEPT ![d] = <<>>]
  /\ toP2p' = [toP2p EXCEPT ![d] = <<>>]

\* The links of d break: others' messages to it are lost from the front, its
\* own from the end.
LinksBreak(d) ==
  \E in  \in [Daemons -> UNION {Suffixes(chan[e][d]) : e \in Daemons}],
     out \in [Daemons -> UNION {Prefixes(chan[d][e]) : e \in Daemons}] :
    /\ \A e \in Daemons :
         in[e] \in Suffixes(chan[e][d]) /\ out[e] \in Prefixes(chan[d][e])
    /\ chan' = [x \in Daemons |-> [y \in Daemons |->
         CASE y = d -> in[x]
           [] x = d /\ y # d -> out[y]
           [] OTHER -> chan[x][y]]]

\* Mutant: the database is set up anew as well.
RestartEmpty(d) ==
  /\ restarts < MaxRestarts
  /\ SetUp(d)
  /\ LinksBreak(d)
  /\ restarts' = restarts + 1 /\ last' = d
  /\ db' = [db EXCEPT ![d] = {}]
  /\ UNCHANGED <<added, budget>>

\* The daemon is killed, at any point of either thread, and started again.
Restart(d) ==
  /\ restarts < MaxRestarts
  /\ SetUp(d)
  /\ LinksBreak(d)
  /\ restarts' = restarts + 1 /\ last' = d
  /\ UNCHANGED <<db, added, budget>>

-----------------------------------------------------------------------------
CrashInit == Init /\ restarts = 0 /\ last = NoDaemon

CrashNext ==
  \/ Next /\ UNCHANGED <<restarts, last>>
  \/ \E d \in Daemons : Restart(d)

CrashSpec == CrashInit /\ [][CrashNext]_crashVars

-----------------------------------------------------------------------------
(* Properties, beside those of DaemonNet.                                  *)

\* The signed ads of a daemon that has been restarted are everywhere once the
\* network is at rest, for it announces all it has when it starts
\* (daemon_p2p_thread.cpp:336-337), whatever was lost when it was killed.
RestartedIsCopied ==
  Quiescent /\ last # NoDaemon /\ budget.rm = MaxRm =>
    \A e \in Daemons : Signed \cap db[last] \subseteq db[e]
=============================================================================
