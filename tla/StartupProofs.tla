--------------------------- MODULE StartupProofs ---------------------------
(***************************************************************************)
(* The daemons of one host find each other, for any number of daemons,     *)
(* ports, options, starts and programs that listen beside them.            *)
(*                                                                         *)
(* No port is bound to twice (PortsApart), a search goes up from the first *)
(* port (SearchGoesUp), and a daemon that listens has taken up every port  *)
(* that its search has passed (PassedArePeers).  So of two daemons that    *)
(* search from the same port the one that went further has passed the      *)
(* other's port.                                                           *)
(***************************************************************************)
EXTENDS Startup, TLAPS

\* A port that a thread is bound to is bound to by nobody else (zmq_util.cpp:127
\* binds only if the port is free).
PortsApart ==
  \A d, e \in Daemons, k, l \in Kinds :
    thread[d][k] = "bound" =>
      /\ port[d][k] \in Ports \ Foreign
      /\ thread[e][l] = "bound" /\ port[e][l] = port[d][k] => d = e /\ k = l

\* A search goes up from the first port.
SearchGoesUp ==
  \A d \in Daemons, k \in Kinds :
    thread[d][k] # "off" => FirstPort(d)[k] <= port[d][k]

\* A daemon that listens knows every port that its search has passed, and is no
\* peer of its own (daemon_p2p_thread.cpp:322-327).
PassedArePeers ==
  \A d \in Daemons : Listening(d) =>
    /\ port[d].p2p \notin peers[d]
    /\ \A q \in Ports : FirstPort(d).p2p <= q /\ q < port[d].p2p => q \in peers[d]

\* The inductive invariant.
IInv == TypeOK /\ PortsApart /\ SearchGoesUp /\ PassedArePeers

-----------------------------------------------------------------------------
\* The first port of a thread is a port (daemon.cpp:209-210 and its options).
LEMMA FirstPortType ==
  ASSUME NEW d \in Daemons
  PROVE  /\ FirstPort(d) \in [Kinds -> Nat]
         /\ FirstPort(d).p2p \in Ports /\ FirstPort(d).rpc \in Ports
  <1> DEFINE p == IF P2pBindPort[d] # NoPort THEN P2pBindPort[d] ELSE DefaultP2p
             r == IF RpcBindPort[d] # NoPort THEN RpcBindPort[d] ELSE DefaultRpc
  <1>1. p \in Ports /\ r \in Ports
    BY PortsAssumption
  <1>2. Ports \subseteq Nat
    BY DEF Ports
  <1>3. FirstPort(d) = [p2p |-> p, rpc |-> r]
    BY DEF FirstPort
  <1> HIDE DEF p, r
  <1>4. [p2p |-> p, rpc |-> r] = [k \in Kinds |-> IF k = "p2p" THEN p ELSE r]
    BY DEF Kinds
  <1>5. FirstPort(d) \in [Kinds -> Nat]
    BY <1>1, <1>2, <1>3, <1>4 DEF Kinds
  <1> QED BY <1>1, <1>3, <1>5

\* The invariant holds initially: no thread is bound.
LEMMA InitIInv == Init => IInv
  <1> SUFFICES ASSUME Init PROVE IInv
    OBVIOUS
  <1>1. port \in [Daemons -> [Kinds -> Nat]]
    BY FirstPortType DEF Init
  <1>2. \A d \in Daemons, k \in Kinds : thread[d][k] = "off"
    BY DEF Init
  <1>3. TypeOK
    BY <1>1, <1>2, PortsAssumption DEF Init, TypeOK
  <1> QED BY <1>2, <1>3
             DEF IInv, PortsApart, SearchGoesUp, PassedArePeers, Listening, Kinds

\* A daemon starts: its threads look for ports, and listen to none.
LEMMA StartIInv ==
  ASSUME IInv, NEW d \in Daemons, Start(d)
  PROVE  IInv'
  <1>1. /\ thread' = [thread EXCEPT ![d] = [k \in Kinds |-> "bind"]]
        /\ port' = [port EXCEPT ![d] = FirstPort(d)]
        /\ peers' = [peers EXCEPT ![d] = PeerArgs[d]]
        /\ starts' = [starts EXCEPT ![d] = @ + 1]
        /\ starts[d] < MaxStarts
    BY DEF Start
  <1>2. TypeOK'
    <2>1. thread' \in [Daemons -> [Kinds -> {"off", "bind", "bound"}]]
      BY <1>1 DEF IInv, TypeOK
    <2>2. port' \in [Daemons -> [Kinds -> Nat]]
      BY <1>1, FirstPortType DEF IInv, TypeOK
    <2>3. peers' \in [Daemons -> SUBSET Ports]
      BY <1>1, PortsAssumption DEF IInv, TypeOK
    <2>4. starts' \in [Daemons -> 0 .. MaxStarts]
      BY <1>1, PortsAssumption DEF IInv, TypeOK
    <2>5. ASSUME NEW e \in Daemons, NEW k \in Kinds, thread'[e][k] = "bound"
          PROVE  port'[e][k] \in Ports \ Foreign
      <3>1. e # d /\ thread[e][k] = "bound" /\ port'[e] = port[e]
        BY <1>1, <2>5 DEF IInv, TypeOK
      <3> QED BY <3>1 DEF IInv, TypeOK
    <2> QED BY <2>1, <2>2, <2>3, <2>4, <2>5 DEF TypeOK
  <1>3. \A k \in Kinds : thread'[d][k] = "bind" /\ port'[d] = FirstPort(d)
    BY <1>1 DEF IInv, TypeOK
  <1>4. \A e \in Daemons : e # d => /\ thread'[e] = thread[e]
                                    /\ port'[e] = port[e] /\ peers'[e] = peers[e]
    BY <1>1 DEF IInv, TypeOK
  <1>5. PortsApart'
    BY <1>3, <1>4 DEF IInv, PortsApart
  <1>6. SearchGoesUp'
    <2>1. \A k \in Kinds : FirstPort(d)[k] <= FirstPort(d)[k]
      BY FirstPortType, PortsAssumption
    <2> QED BY <1>3, <1>4, <2>1 DEF IInv, SearchGoesUp, FirstPort
  <1>7. PassedArePeers'
    BY <1>3, <1>4 DEF IInv, PassedArePeers, Listening, FirstPort, Kinds
  <1> QED BY <1>2, <1>5, <1>6, <1>7 DEF IInv

\* A daemon is gone: its ports are free again.
LEMMA GoneIInv ==
  ASSUME IInv, NEW d \in Daemons, Gone(d)
  PROVE  IInv'
  <1>1. /\ thread' = [thread EXCEPT ![d] = [k \in Kinds |-> "off"]]
        /\ UNCHANGED <<port, peers, starts>>
    BY DEF Gone
  <1>2. TypeOK'
    BY <1>1 DEF IInv, TypeOK
  <1>3. \A e \in Daemons, k \in Kinds :
          thread'[e][k] = thread[e][k] \/ thread'[e][k] = "off"
    BY <1>1 DEF IInv, TypeOK
  <1> QED BY <1>1, <1>2, <1>3
             DEF IInv, PortsApart, SearchGoesUp, PassedArePeers, Listening, Kinds,
                 FirstPort

\* A thread is bound to a port that was free; the p2p thread takes up its peers.
LEMMA BindIInv ==
  ASSUME IInv, NEW d \in Daemons, NEW k \in Kinds, Bind(d, k)
  PROVE  IInv'
  <1>1. /\ thread' = [thread EXCEPT ![d][k] = "bound"]
        /\ thread[d][k] = "bind"
        /\ port' = port /\ starts' = starts
        /\ Free(port[d][k])
    BY DEF Bind
  <1>2. /\ k = "p2p" => peers' = [peers EXCEPT ![d] =
                                    WithDefaultPeers(d, port[d][k])]
        /\ k # "p2p" => peers' = peers
    BY DEF Bind
  <1>3. WithDefaultPeers(d, port[d][k]) \subseteq Ports
    BY DEF IInv, TypeOK, WithDefaultPeers
  <1>4. TypeOK'
    <2>1. thread' \in [Daemons -> [Kinds -> {"off", "bind", "bound"}]]
      BY <1>1 DEF IInv, TypeOK
    <2>2. peers' \in [Daemons -> SUBSET Ports]
      BY <1>2, <1>3 DEF IInv, TypeOK
    <2>3. ASSUME NEW e \in Daemons, NEW l \in Kinds, thread'[e][l] = "bound"
          PROVE  port[e][l] \in Ports \ Foreign
      <3>1. CASE e = d /\ l = k
        BY <1>1, <3>1 DEF Free, Taken
      <3>2. CASE ~(e = d /\ l = k)
        BY <1>1, <2>3, <3>2 DEF IInv, TypeOK
      <3> QED BY <3>1, <3>2
    <2> QED BY <1>1, <2>1, <2>2, <2>3 DEF IInv, TypeOK
  <1>5. \A e \in Daemons, l \in Kinds :
          thread'[e][l] = IF e = d /\ l = k THEN "bound" ELSE thread[e][l]
    BY <1>1 DEF IInv, TypeOK
  <1>6. PortsApart'
    <2>1. \A e \in Daemons, l \in Kinds :
            thread[e][l] = "bound" => port[e][l] # port[d][k]
      <3> SUFFICES ASSUME NEW e \in Daemons, NEW l \in Kinds,
                          thread[e][l] = "bound"
                   PROVE  port[e][l] \in Taken
        BY <1>1 DEF Free
      <3>1. <<e, l>> \in {y \in Daemons \X Kinds : thread[y[1]][y[2]] = "bound"}
        OBVIOUS
      <3> QED BY <3>1 DEF Taken
    <2>2. port[d][k] \in Ports \ Foreign
      BY <1>1 DEF Free, Taken
    <2> QED BY <1>1, <1>5, <2>1, <2>2 DEF IInv, PortsApart
  <1>7. SearchGoesUp'
    BY <1>1, <1>5 DEF IInv, SearchGoesUp, FirstPort
  <1>8. PassedArePeers'
    <2>1. CASE k = "p2p"
      <3>1. peers'[d] = WithDefaultPeers(d, port[d].p2p)
        BY <1>2, <2>1 DEF IInv, TypeOK
      <3>2. \A e \in Daemons : e # d => peers'[e] = peers[e]
        BY <1>2, <2>1 DEF IInv, TypeOK
      <3>3. /\ port[d].p2p \notin peers'[d]
            /\ \A q \in Ports : FirstPort(d).p2p <= q /\ q < port[d].p2p =>
                 q \in peers'[d]
        <4>1. port[d].p2p \in Nat
          BY PortsAssumption DEF IInv, TypeOK, Kinds
        <4> QED BY <3>1, <4>1 DEF WithDefaultPeers
      <3>4. \A e \in Daemons : e # d => (Listening(e)' <=> Listening(e))
        BY <1>5 DEF Listening, Kinds
      <3> QED BY <1>1, <3>2, <3>3, <3>4 DEF IInv, PassedArePeers, FirstPort
    <2>2. CASE k # "p2p"
      BY <1>1, <1>2, <1>5, <2>2
         DEF IInv, PassedArePeers, Listening, Kinds, FirstPort
    <2> QED BY <2>1, <2>2
  <1> QED BY <1>4, <1>6, <1>7, <1>8 DEF IInv

\* The next port is tried.
LEMMA TryNextIInv ==
  ASSUME IInv, NEW d \in Daemons, NEW k \in Kinds, TryNext(d, k)
  PROVE  IInv'
  <1>1. /\ thread[d][k] = "bind"
        /\ port' = [port EXCEPT ![d][k] = @ + 1]
        /\ UNCHANGED <<thread, peers, starts>>
    BY DEF TryNext
  <1>2. \A e \in Daemons, l \in Kinds :
          port'[e][l] = IF e = d /\ l = k THEN port[e][l] + 1 ELSE port[e][l]
    BY <1>1 DEF IInv, TypeOK
  <1>3. port[d][k] + 1 \in Nat
    BY DEF IInv, TypeOK
  <1>4. TypeOK'
    <2>1. port' \in [Daemons -> [Kinds -> Nat]]
      BY <1>1, <1>3 DEF IInv, TypeOK
    <2>2. \A e \in Daemons, l \in Kinds :
            thread[e][l] = "bound" => port'[e][l] = port[e][l]
      BY <1>1, <1>2
    <2> QED BY <1>1, <2>1, <2>2 DEF IInv, TypeOK
  <1>5. \A e \in Daemons, l \in Kinds :
          thread[e][l] = "bound" => port'[e][l] = port[e][l]
    BY <1>1, <1>2
  <1>6. PortsApart'
    BY <1>1, <1>5 DEF IInv, PortsApart
  <1>7. SearchGoesUp'
    <2>1. FirstPort(d)[k] <= port[d][k]
      BY <1>1 DEF IInv, SearchGoesUp
    <2>2. FirstPort(d)[k] \in Nat /\ port[d][k] \in Nat
      BY FirstPortType, PortsAssumption DEF IInv, TypeOK
    <2>3. FirstPort(d)[k] <= port'[d][k]
      BY <1>2, <2>1, <2>2
    <2> QED BY <1>1, <1>2, <2>3 DEF IInv, SearchGoesUp, FirstPort
  <1>8. PassedArePeers'
    BY <1>1, <1>5 DEF IInv, PassedArePeers, Listening, Kinds, FirstPort
  <1> QED BY <1>4, <1>6, <1>7, <1>8 DEF IInv

\* Every step keeps it.
LEMMA StepIInv == IInv /\ [Next]_vars => IInv'
  <1> SUFFICES ASSUME IInv, [Next]_vars PROVE IInv'
    OBVIOUS
  <1>1. CASE UNCHANGED vars
    BY <1>1 DEF vars, IInv, TypeOK, PortsApart, SearchGoesUp, PassedArePeers,
                Listening, FirstPort
  <1>2. CASE Next
    BY <1>2, StartIInv, GoneIInv, BindIInv, TryNextIInv
       DEF Next, Stop, StrictFail, Thread
  <1> QED BY <1>1, <1>2

-----------------------------------------------------------------------------
\* Threads, ports and peers keep their types, and whatever has been started and
\* killed, a thread that listens does so on a port there is and that no other
\* program has (zmq_util.cpp:125-132); a search may go beyond them.
THEOREM TypeCorrect == Spec => []TypeOK
  BY InitIInv, StepIInv, PTL DEF Spec, IInv

\* Two daemons that search for their peer-to-peer port never listen on the same
\* one, and the one on the higher port has the other among its peers, in whatever
\* order they are started, killed and started again
\* (daemon_p2p_thread.cpp:319-327).
THEOREM HigherKnows == Spec => []HigherKnowsLower
  <1>1. IInv => HigherKnowsLower
    <2> SUFFICES ASSUME IInv, NEW d \in Daemons, NEW e \in Daemons, d # e,
                        Listening(d), ~Strict(d), Listening(e), ~Strict(e)
                 PROVE  \/ port[e].p2p < port[d].p2p /\ port[e].p2p \in peers[d]
                        \/ port[d].p2p < port[e].p2p /\ port[d].p2p \in peers[e]
      BY DEF HigherKnowsLower
    <2>1. FirstPort(d).p2p = DefaultP2p /\ FirstPort(e).p2p = DefaultP2p
      BY DEF Strict, FirstPort
    <2>2. "p2p" \in Kinds
      BY DEF Kinds
    <2>3. /\ port[d].p2p \in Ports /\ port[e].p2p \in Ports
          /\ port[d].p2p # port[e].p2p
      BY <2>2 DEF IInv, PortsApart, Listening
    <2>4. DefaultP2p <= port[d].p2p /\ DefaultP2p <= port[e].p2p
      BY <2>1, <2>2 DEF IInv, SearchGoesUp, Listening
    <2>5. port[d].p2p \in Nat /\ port[e].p2p \in Nat
      BY <2>3 DEF Ports
    <2>6. port[e].p2p < port[d].p2p => port[e].p2p \in peers[d]
      BY <2>1, <2>3, <2>4 DEF IInv, PassedArePeers
    <2>7. port[d].p2p < port[e].p2p => port[d].p2p \in peers[e]
      BY <2>1, <2>3, <2>4 DEF IInv, PassedArePeers
    <2> QED BY <2>3, <2>5, <2>6, <2>7
  <1> QED BY <1>1, InitIInv, StepIInv, PTL DEF Spec

\* A daemon that listens is no peer of its own, whatever its --peer options are
\* (daemon_p2p_thread.cpp:323).
THEOREM NeverOwnPeer == Spec => []NotOwnPeer
  <1>1. IInv => NotOwnPeer
    BY DEF IInv, PassedArePeers, NotOwnPeer
  <1> QED BY <1>1, InitIInv, StepIInv, PTL DEF Spec
=============================================================================
