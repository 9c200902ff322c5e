------------------------------ MODULE Startup ------------------------------
(***************************************************************************)
(* Daemons being started, killed and started again on one host.  Each has  *)
(* two threads that bind a listening socket (try_bind, zmq_util.cpp): the  *)
(* p2p thread, whose port decides which default peers it takes up, and the *)
(* db thread, which listens to clients.  DaemonNet assumes what this       *)
(* module is about: the ports its daemons have and the peers they bring.   *)
(***************************************************************************)
EXTENDS Naturals, FiniteSets

CONSTANTS
  Daemons,      \* the daemons started on the host
  MaxPort,      \* the highest port there is
  Foreign,      \* the ports other programs listen on
  DefaultP2p,   \* 65090 (daemon.cpp:210)
  DefaultRpc,   \* 55090 (daemon.cpp:209)
  NoPort,       \* an option that is not given
  P2pBindPort,  \* --p2p-bind-port of each daemon, or NoPort
  RpcBindPort,  \* --rpc-bind-port of each daemon, or NoPort
  PeerArgs,     \* the --peer ports of each daemon
  MaxStarts     \* bound on the number of starts of each daemon

Ports == 1 .. MaxPort
Kinds == {"p2p", "rpc"}

ASSUME PortsAssumption ==
  /\ MaxPort \in Nat /\ MaxStarts \in Nat
  /\ Foreign \subseteq Ports
  /\ DefaultP2p \in Ports /\ DefaultRpc \in Ports
  /\ NoPort \notin Ports
  /\ P2pBindPort \in [Daemons -> Ports \cup {NoPort}]
  /\ RpcBindPort \in [Daemons -> Ports \cup {NoPort}]
  /\ PeerArgs \in [Daemons -> SUBSET Ports]

VARIABLES
  thread,  \* thread[d][k]: what the thread of kind k of daemon d does
  port,    \* port[d][k]: the port it tries or is bound to
  peers,   \* my_peers of each daemon, by port
  starts   \* the starts each daemon has had

vars == <<thread, port, peers, starts>>

-----------------------------------------------------------------------------
(* Options.  Either option makes both threads strict.                      *)

Strict(d) == P2pBindPort[d] # NoPort \/ RpcBindPort[d] # NoPort

\* default_p2p_port and rpc_port after the options are read.
FirstPort(d) ==
  [p2p |-> IF P2pBindPort[d] # NoPort THEN P2pBindPort[d] ELSE DefaultP2p,
   rpc |-> IF RpcBindPort[d] # NoPort THEN RpcBindPort[d] ELSE DefaultRpc]

Start(d) ==
  /\ \A k \in Kinds : thread[d][k] = "off"
  /\ starts[d] < MaxStarts
  /\ thread' = [thread EXCEPT ![d] = [k \in Kinds |-> "bind"]]
  /\ port' = [port EXCEPT ![d] = FirstPort(d)]
  /\ peers' = [peers EXCEPT ![d] = PeerArgs[d]]
  /\ starts' = [starts EXCEPT ![d] = @ + 1]

-----------------------------------------------------------------------------
(* try_bind.                                                               *)

Taken ==
  Foreign \cup {port[x[1]][x[2]] : x \in
                 {y \in Daemons \X Kinds : thread[y[1]][y[2]] = "bound"}}

Free(p) == p \in Ports \ Taken

\* Mutant: the port just below is left out.
WithDefaultPeersShort(d, p) ==
  (peers[d] \ {p}) \cup {q \in Ports : FirstPort(d).p2p <= q /\ q + 1 < p}

\* Mutant: the daemon's own port is not dropped.
WithDefaultPeersSelf(d, p) ==
  peers[d] \cup {q \in Ports : FirstPort(d).p2p <= q /\ q < p}

\* Mutant: the ports below are counted from zero.
WithDefaultPeersAll(d, p) == (peers[d] \ {p}) \cup 0 .. (p - 1)

\* The p2p thread drops its own address, which it may have been given as a
\* peer's, and adds every port from default_p2p_port up to its own.
WithDefaultPeers(d, p) ==
  (peers[d] \ {p}) \cup {q \in Ports : FirstPort(d).p2p <= q /\ q < p}

\* The port is free: the thread is bound to it.
Bind(d, k) ==
  /\ thread[d][k] = "bind"
  /\ Free(port[d][k])
  /\ thread' = [thread EXCEPT ![d][k] = "bound"]
  /\ peers' = IF k = "p2p"
              THEN [peers EXCEPT ![d] = WithDefaultPeers(d, port[d][k])]
              ELSE peers
  /\ UNCHANGED <<port, starts>>

\* Mutant: the same port is tried again.
TryNextSame(d, k) ==
  /\ thread[d][k] = "bind"
  /\ ~Free(port[d][k]) /\ ~Strict(d)
  /\ UNCHANGED vars

\* The port cannot be bound to, because it is taken or because there is none
\* of that number: the next one is tried, however many have been.  (An int that
\* has gone through all of its values is left out.)
TryNext(d, k) ==
  /\ thread[d][k] = "bind"
  /\ ~Free(port[d][k]) /\ ~Strict(d)
  /\ port' = [port EXCEPT ![d][k] = @ + 1]
  /\ UNCHANGED <<thread, peers, starts>>

\* The process of d is gone, and its sockets with it.
Gone(d) ==
  /\ thread' = [thread EXCEPT ![d] = [k \in Kinds |-> "off"]]
  /\ UNCHANGED <<port, peers, starts>>

\* A strict bind fails: the exception leaves the thread and ends the daemon.
StrictFail(d, k) ==
  /\ thread[d][k] = "bind"
  /\ ~Free(port[d][k]) /\ Strict(d)
  /\ Gone(d)

\* The daemon is killed.
Stop(d) ==
  /\ \E k \in Kinds : thread[d][k] # "off"
  /\ Gone(d)

-----------------------------------------------------------------------------
Init ==
  /\ thread = [d \in Daemons |-> [k \in Kinds |-> "off"]]
  /\ port = [d \in Daemons |-> FirstPort(d)]
  /\ peers = [d \in Daemons |-> {}]
  /\ starts = [d \in Daemons |-> 0]

Thread(d, k) == Bind(d, k) \/ TryNext(d, k) \/ StrictFail(d, k)

Next ==
  \E d \in Daemons : Start(d) \/ Stop(d) \/ \E k \in Kinds : Thread(d, k)

Spec == Init /\ [][Next]_vars

\* The threads are scheduled; nobody need start or kill a daemon.
FairSpec == Spec /\ \A d \in Daemons, k \in Kinds : WF_vars(Thread(d, k))

-----------------------------------------------------------------------------
(* Properties.                                                             *)

\* Threads, ports and peers keep their types.  A search may pass all ports there
\* are (zmq_util.cpp:132), but listens only on one that nobody else has taken.
TypeOK ==
  /\ thread \in [Daemons -> [Kinds -> {"off", "bind", "bound"}]]
  /\ port \in [Daemons -> [Kinds -> Nat]]
  /\ peers \in [Daemons -> SUBSET Ports]
  /\ starts \in [Daemons -> 0 .. MaxStarts]
  /\ \A d \in Daemons, k \in Kinds :
       thread[d][k] = "bound" => port[d][k] \in Ports \ Foreign

Listening(d) == thread[d].p2p = "bound"

\* Two daemons that search for their peer-to-peer port never listen on the
\* same one, and the one on the higher port has the other among its peers: so
\* daemons of one host find each other "via a hard-coded default P2P port"
\* (doc/communication.md:38-39) in whatever order they are started, killed and
\* started again.  DaemonNet's Port and InitialPeers rest on it.  Daemons with
\* ports of their own need not find each other.
HigherKnowsLower ==
  \A d, e \in Daemons :
    /\ d # e
    /\ Listening(d) /\ ~Strict(d)
    /\ Listening(e) /\ ~Strict(e)
    => \/ port[e].p2p < port[d].p2p /\ port[e].p2p \in peers[d]
       \/ port[d].p2p < port[e].p2p /\ port[d].p2p \in peers[e]

\* A daemon is no peer of its own, even if it was given its own port as one.
NotOwnPeer ==
  \A d \in Daemons : Listening(d) => port[d].p2p \notin peers[d]

\* A thread that looks for a port ends up listening, or its daemon is gone, as
\* long as there are free ports above the default one.
SearchEnds ==
  \A d \in Daemons, k \in Kinds :
    thread[d][k] = "bind" ~> thread[d][k] # "bind"

\* "Number of ports to attempt in increasing order: port+range"
\* (zmq_util.cpp:116), where the range is 10 (daemon_p2p_thread.cpp:319).
WithinRange ==
  \A d \in Daemons, k \in Kinds : port[d][k] < FirstPort(d)[k] + 10
=============================================================================
