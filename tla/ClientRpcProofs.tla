-------------------------- MODULE ClientRpcProofs --------------------------
(***************************************************************************)
(* What a client shows answers its command, for any number of clients,     *)
(* ads, attempts, commands and stops of the daemon.                        *)
(*                                                                         *)
(* A socket is used for one attempt only.  So whatever is under way        *)
(* through the socket in use belongs to the command in hand (SocketsOnce), *)
(* and a reply that is under way was made to the request it answers        *)
(* (RepliesTrue); together with ShownAnswersCommand these are inductive.   *)
(***************************************************************************)
EXTENDS ClientRpc, FiniteSetTheorems, TLAPS

\* What is under way between the clients and the daemon.
Flight == out \cup in \cup {b.req : b \in back}

\* The attempt in hand carries the number of its command and its socket, and a
\* request or reply under way through a client's socket in use belongs to the
\* command in hand: zmq_util.cpp:71 and :99 open a socket for each attempt.
SocketsOnce ==
  /\ \A c \in Clients : Sending(c) =>
       /\ req[c] \in Request
       /\ req[c].client = c /\ req[c].no = count[c] /\ req[c].sock = sock[c]
  /\ \A r \in Flight :
       /\ r.sock <= sock[r.client]
       /\ r.sock = sock[r.client] => r.no = count[r.client]

\* The replies the daemon has made to command i of client c.
Made(c, i) == {replies[c][i][n] : n \in 1 .. Len(replies[c][i])}

\* A reply under way was made to the request that it answers
\* (daemon_db_thread.cpp:290-298).
RepliesTrue == \A b \in back : b.reply \in Made(b.req.client, b.req.no)

\* pirate_send has shown an answer only after a command.
ToldOnlyIfSent == \A c \in Clients : Told(c) => count[c] > 0

\* The inductive invariant.
IInv ==
  TypeOK /\ SocketsOnce /\ RepliesTrue /\ ToldOnlyIfSent /\ ShownAnswersCommand

-----------------------------------------------------------------------------
\* A reply is one of those db_client_op makes.
LEMMA ReplyType ==
  ASSUME NEW k \in Cmd
  PROVE  ReplyTo(k) \in Reply
  <1>1. Found(k.ad) \in {0, 1} /\ 1 - Found(k.ad) \in {0, 1}
    BY DEF Found
  <1>2. k.op \in {"add", "rm", "query"}
    BY DEF Cmd
  <1>3. CASE k.op = "add"
    BY <1>1, <1>3 DEF ReplyTo, Reply
  <1>4. CASE k.op = "rm"
    <2>1. CASE db = {}
      BY <1>4, <2>1 DEF ReplyTo, Reply
    <2>2. CASE db # {}
      BY <1>1, <1>4, <2>2 DEF ReplyTo, Reply
    <2> QED BY <2>1, <2>2
  <1>5. CASE k.op = "query"
    <2>1. CASE created
      BY <1>1, <1>5, <2>1 DEF ReplyTo, Reply
    <2>2. CASE ~created
      BY <1>5, <2>2 DEF ReplyTo, Reply
    <2> QED BY <2>1, <2>2
  <1> QED BY <1>2, <1>3, <1>4, <1>5

\* Commands leave a database of ads.
LEMMA DbType ==
  ASSUME NEW k \in Cmd, db \subseteq Ads
  PROVE  DbAfter(k) \subseteq Ads
  BY DEF DbAfter, Cmd

\* The invariant holds initially.
LEMMA InitIInv == Init => IInv
  <1> SUFFICES ASSUME Init PROVE IInv
    OBVIOUS
  <1>1. /\ count \in [Clients -> 0 .. MaxCmds]
        /\ sock \in [Clients -> Nat]
        /\ retries \in [Clients -> 0 .. Retries]
        /\ stops \in 0 .. MaxStops
    BY RpcAssumption DEF Init
  <1>2. /\ req \in [Clients -> Request \cup {NoReq}]
        /\ shown \in [Clients -> Reply \cup {NoReply, NoResponse}]
    BY DEF Init
  <1>3. got \in [Clients -> BOOLEAN] /\ up \in BOOLEAN /\ created \in BOOLEAN
    BY DEF Init
  <1>4. replies \in [Clients -> [1 .. MaxCmds -> Seq(Reply)]]
    BY DEF Init
  <1>5. TypeOK
    BY <1>1, <1>2, <1>3, <1>4 DEF Init, TypeOK
  <1>6. SocketsOnce
    BY DEF Init, SocketsOnce, Flight, Sending
  <1>7. \A c \in Clients : ~Told(c)
    BY DEF Init, Told
  <1> QED BY <1>5, <1>6, <1>7 DEF Init, IInv, RepliesTrue, ToldOnlyIfSent,
                                  ShownAnswersCommand

-----------------------------------------------------------------------------
\* A command is sent.
LEMMA SendIInv ==
  ASSUME IInv, NEW c \in Clients, NEW k \in Cmd, Send(c, k)
  PROVE  IInv'
  <1> DEFINE r == [client |-> c, no |-> count[c] + 1, sock |-> sock[c] + 1,
                   cmd |-> k]
  <1> USE RpcAssumption DEF IInv
  <1>1. r \in Request
    BY DEF Send, Started, TypeOK, Request
  <1>2. /\ req' = [req EXCEPT ![c] = r]
        /\ sock' = [sock EXCEPT ![c] = sock[c] + 1]
        /\ out' = (out \ {req[c]}) \cup {r}
        /\ count' = [count EXCEPT ![c] = @ + 1]
        /\ retries' = [retries EXCEPT ![c] = Retries]
        /\ shown' = [shown EXCEPT ![c] = NoReply]
        /\ got' = [got EXCEPT ![c] = FALSE]
        /\ UNCHANGED <<in, back, up, stops, db, created, replies>>
        /\ count[c] < MaxCmds
    BY DEF Send, Started, Issue, daemonVars
  <1> HIDE DEF r
  <1>3. TypeOK'
    BY <1>1, <1>2 DEF TypeOK, NoReply
  <1>4. SocketsOnce'
    <2>1. \A x \in Clients : Sending(x)' =>
            /\ req'[x] \in Request
            /\ req'[x].client = x /\ req'[x].no = count'[x]
            /\ req'[x].sock = sock'[x]
      BY <1>1, <1>2 DEF TypeOK, SocketsOnce, Sending, r
    <2>2. Flight' \subseteq Flight \cup {r}
      BY <1>2 DEF Flight
    <2>3. \A q \in Flight : q \in Request
      BY DEF Flight, TypeOK
    <2>4. \A q \in Flight :
            /\ q.sock <= sock'[q.client]
            /\ q.sock = sock'[q.client] => q.no = count'[q.client]
      <3> SUFFICES ASSUME NEW q \in Flight
                   PROVE  /\ q.sock <= sock'[q.client]
                          /\ q.sock = sock'[q.client] => q.no = count'[q.client]
        OBVIOUS
      <3>1. q.client \in Clients /\ q.sock \in Nat
        BY <2>3 DEF Request
      <3>2. /\ q.sock <= sock[q.client]
            /\ q.sock = sock[q.client] => q.no = count[q.client]
        BY DEF SocketsOnce
      <3>3. sock \in [Clients -> Nat] /\ count \in [Clients -> 0 .. MaxCmds]
        BY DEF TypeOK
      <3> HIDE DEF IInv
      <3>4. CASE q.client = c
        BY <1>2, <3>1, <3>2, <3>3, <3>4
      <3>5. CASE q.client # c
        BY <1>2, <3>1, <3>2, <3>3, <3>5
      <3> QED BY <3>4, <3>5
    <2>5. /\ r.sock <= sock'[r.client]
          /\ r.no = count'[r.client]
      BY <1>2 DEF r, TypeOK
    <2> QED BY <2>1, <2>2, <2>4, <2>5 DEF SocketsOnce
  <1>5. RepliesTrue'
    BY <1>2 DEF RepliesTrue, Made
  <1>6. ToldOnlyIfSent'
    BY <1>2 DEF ToldOnlyIfSent, Told, TypeOK
  <1>7. ShownAnswersCommand'
    <2>1. shown'[c] = NoReply
      BY <1>2 DEF TypeOK
    <2>2. ASSUME NEW x \in Clients, x # c
          PROVE  shown'[x] = shown[x] /\ count'[x] = count[x]
      BY <1>2, <2>2 DEF TypeOK
    <2>3. \A x \in Clients : x # c => RepliesTo(x)' = RepliesTo(x)
      BY <1>2, <2>2 DEF RepliesTo
    <2> QED BY <2>1, <2>2, <2>3 DEF ShownAnswersCommand, Told
  <1> QED BY <1>3, <1>4, <1>5, <1>6, <1>7

\* A reply is received.
LEMMA ReceiveIInv ==
  ASSUME IInv, NEW c \in Clients, Receive(c)
  PROVE  IInv'
  <1> USE RpcAssumption DEF IInv
  <1>1. PICK b \in back :
          /\ b.req.client = c /\ b.req.sock = sock[c]
          /\ \/ /\ shown' = [shown EXCEPT ![c] = b.reply]
                /\ retries' = [retries EXCEPT ![c] = 0]
             \/ /\ shown' = shown
                /\ retries' = retries
          /\ back' \subseteq back
    BY DEF Receive, BackWithout
  <1>2. /\ got' = [got EXCEPT ![c] = TRUE]
        /\ UNCHANGED <<count, sock, req, out, in, up, stops, db, created,
                       replies>>
    BY DEF Receive, daemonVars
  <1>3. /\ b \in [req : Request, reply : Reply]
        /\ b.req \in Request /\ b.reply \in Reply
    BY DEF TypeOK
  <1>4. TypeOK'
    <2>1. /\ shown' \in [Clients -> Reply \cup {NoReply, NoResponse}]
          /\ retries' \in [Clients -> 0 .. Retries]
      <3> DEFINE S == Reply \cup {NoReply, NoResponse}
      <3>1. /\ shown \in [Clients -> S] /\ retries \in [Clients -> 0 .. Retries]
            /\ b.reply \in S /\ 0 \in 0 .. Retries
        BY <1>3 DEF TypeOK
      <3> HIDE DEF S, IInv
      <3>2. shown' = shown \/ shown' = [shown EXCEPT ![c] = b.reply]
        BY <1>1
      <3>3. retries' = retries \/ retries' = [retries EXCEPT ![c] = 0]
        BY <1>1
      <3>4. shown' \in [Clients -> S]
        BY <3>1, <3>2
      <3>5. retries' \in [Clients -> 0 .. Retries]
        BY <3>1, <3>3
      <3> QED BY <3>4, <3>5 DEF S
    <2>2. got' \in [Clients -> BOOLEAN]
      BY <1>2 DEF TypeOK
    <2>3. back' \subseteq [req : Request, reply : Reply]
      BY <1>1 DEF TypeOK
    <2> QED BY <1>2, <2>1, <2>2, <2>3 DEF TypeOK
  <1>5. SocketsOnce'
    <2>1. Flight' \subseteq Flight
      BY <1>1, <1>2 DEF Flight
    <2>2. \A x \in Clients : Sending(x)' => Sending(x)
      <3>1. retries \in [Clients -> 0 .. Retries]
        BY DEF TypeOK
      <3>2. CASE retries' = retries
        BY <3>2 DEF Sending
      <3>3. CASE retries' = [retries EXCEPT ![c] = 0]
        <4> HIDE DEF IInv
        <4> QED BY <3>1, <3>3 DEF Sending
      <3> QED BY <1>1, <3>2, <3>3
    <2> QED BY <1>2, <2>1, <2>2 DEF SocketsOnce
  <1>6. RepliesTrue'
    BY <1>1, <1>2 DEF RepliesTrue, Made
  <1>7. b.req.no = count[c]
    BY <1>1 DEF SocketsOnce, Flight
  <1>8. b.reply \in RepliesTo(c) /\ count[c] > 0
    <2>1. b.reply \in Made(c, count[c])
      BY <1>1, <1>7 DEF RepliesTrue
    <2>2. count[c] \in 1 .. MaxCmds
      BY <1>3, <1>7 DEF Request
    <2> QED BY <2>1, <2>2 DEF Made, RepliesTo
  <1>9. ToldOnlyIfSent'
    BY <1>1, <1>2, <1>8 DEF ToldOnlyIfSent, Told, TypeOK
  <1>10. ShownAnswersCommand'
    <2>1. \A x \in Clients : RepliesTo(x)' = RepliesTo(x)
      BY <1>2 DEF RepliesTo
    <2>2. \A x \in Clients : \/ shown'[x] = shown[x]
                             \/ x = c /\ shown'[x] = b.reply
      BY <1>1 DEF TypeOK
    <2> QED BY <1>8, <2>1, <2>2 DEF ShownAnswersCommand, Told
  <1> QED BY <1>4, <1>5, <1>6, <1>9, <1>10

\* A poll times out.
LEMMA TimeoutIInv ==
  ASSUME IInv, NEW c \in Clients, Timeout(c)
  PROVE  IInv'
  <1> USE RpcAssumption DEF IInv
  <1>1. /\ retries' = [retries EXCEPT ![c] = @ - 1]
        /\ back' \subseteq back
        /\ retries[c] > 0
        /\ UNCHANGED <<count, got, in, up, stops, db, created, replies>>
    BY DEF Timeout, BackWithout, daemonVars, Sending
  <1>2. /\ req[c] \in Request
        /\ req[c].client = c /\ req[c].no = count[c] /\ req[c].sock = sock[c]
    BY <1>1 DEF SocketsOnce, Sending
  <1>3. RepliesTrue'
    BY <1>1 DEF RepliesTrue, Made
  <1>4. CASE retries[c] = 1
    <2>1. /\ shown' = [shown EXCEPT ![c] = NoResponse]
          /\ out' \subseteq out
          /\ UNCHANGED <<req, sock>>
      BY <1>4 DEF Timeout
    <2>2. TypeOK'
      BY <1>1, <2>1 DEF TypeOK
    <2>3. Flight' \subseteq Flight
      BY <1>1, <2>1 DEF Flight
    <2>4. \A x \in Clients : Sending(x)' => Sending(x)
      BY <1>1 DEF Sending, TypeOK
    <2>5. SocketsOnce'
      BY <1>1, <2>1, <2>3, <2>4 DEF SocketsOnce
    <2>6. ToldOnlyIfSent' /\ ShownAnswersCommand'
      BY <1>1, <2>1
         DEF ToldOnlyIfSent, ShownAnswersCommand, Told, RepliesTo, TypeOK
    <2> QED BY <1>3, <2>2, <2>5, <2>6
  <1>5. CASE retries[c] # 1
    <2> DEFINE r == [req[c] EXCEPT !.sock = @ + 1]
    <2>1. /\ req' = [req EXCEPT ![c] = r]
          /\ sock' = [sock EXCEPT ![c] = r.sock]
          /\ out' = (out \ {req[c]}) \cup {r}
          /\ UNCHANGED shown
      BY <1>5 DEF Timeout, Issue
    <2>2. /\ r \in Request
          /\ r.client = c /\ r.no = count[c] /\ r.sock = sock[c] + 1
      BY <1>2 DEF Request
    <2> HIDE DEF r
    <2>3. TypeOK'
      BY <1>1, <2>1, <2>2 DEF TypeOK
    <2>4. Flight' \subseteq Flight \cup {r}
      BY <1>1, <2>1 DEF Flight
    <2>5. \A q \in Flight : q \in Request
      BY DEF Flight, TypeOK
    <2>6. \A q \in Flight :
            /\ q.sock <= sock'[q.client]
            /\ q.sock = sock'[q.client] => q.no = count'[q.client]
      <3> SUFFICES ASSUME NEW q \in Flight
                   PROVE  /\ q.sock <= sock'[q.client]
                          /\ q.sock = sock'[q.client] => q.no = count'[q.client]
        OBVIOUS
      <3>1. q.client \in Clients /\ q.sock \in Nat
        BY <2>5 DEF Request
      <3>2. /\ q.sock <= sock[q.client]
            /\ q.sock = sock[q.client] => q.no = count[q.client]
        BY DEF SocketsOnce
      <3>3. sock \in [Clients -> Nat]
        BY DEF TypeOK
      <3> HIDE DEF IInv
      <3>4. CASE q.client = c
        BY <1>1, <2>1, <2>2, <3>1, <3>2, <3>3, <3>4
      <3>5. CASE q.client # c
        BY <1>1, <2>1, <2>2, <3>1, <3>2, <3>3, <3>5
      <3> QED BY <3>4, <3>5
    <2>7. /\ r.sock <= sock'[r.client]
          /\ r.no = count'[r.client]
      BY <1>1, <2>1, <2>2 DEF TypeOK
    <2>8. \A x \in Clients : Sending(x)' =>
            /\ req'[x] \in Request
            /\ req'[x].client = x /\ req'[x].no = count'[x]
            /\ req'[x].sock = sock'[x]
      BY <1>1, <2>1, <2>2 DEF TypeOK, SocketsOnce, Sending
    <2>9. SocketsOnce'
      BY <2>4, <2>6, <2>7, <2>8 DEF SocketsOnce
    <2>10. ToldOnlyIfSent' /\ ShownAnswersCommand'
      BY <1>1, <2>1 DEF ToldOnlyIfSent, ShownAnswersCommand, Told, RepliesTo
    <2> QED BY <1>3, <2>3, <2>9, <2>10
  <1> QED BY <1>4, <1>5

\* The daemon carries a command out and replies.
LEMMA AnswerIInv ==
  ASSUME IInv, NEW r \in in, Answer(r)
  PROVE  IInv'
  <1> USE DEF IInv
  <1> DEFINE x == ReplyTo(r.cmd)
             a == [req |-> r, reply |-> x]
  <1>1. r \in Request /\ r.cmd \in Cmd
    BY DEF TypeOK, Request
  <1>2. x \in Reply
    BY <1>1, ReplyType
  <1>3. DbAfter(r.cmd) \subseteq Ads
    BY <1>1, DbType DEF TypeOK
  <1>4. /\ in' = in \ {r}
        /\ db' = DbAfter(r.cmd)
        /\ created' \in BOOLEAN
        /\ back' \subseteq back \cup {a}
        /\ replies' = [replies EXCEPT ![r.client][r.no] = Append(@, x)]
        /\ UNCHANGED <<count, sock, req, retries, got, shown, up, stops, out>>
    BY DEF Answer, clientVars, TypeOK
  <1> HIDE DEF x
  <1>5. /\ r.client \in Clients /\ r.no \in 1 .. MaxCmds
        /\ replies[r.client][r.no] \in Seq(Reply)
    BY <1>1 DEF TypeOK, Request
  <1>6. /\ Append(replies[r.client][r.no], x) \in Seq(Reply)
        /\ \A s \in Seq(Reply) :
             {s[n] : n \in 1 .. Len(s)} \cup {x} \subseteq
             {Append(s, x)[n] : n \in 1 .. Len(Append(s, x))}
    <2>1. ASSUME NEW s \in Seq(Reply)
          PROVE  /\ Append(s, x) \in Seq(Reply)
                 /\ Len(Append(s, x)) = Len(s) + 1
                 /\ Append(s, x)[Len(s) + 1] = x
                 /\ \A n \in 1 .. Len(s) : Append(s, x)[n] = s[n]
                 /\ Len(s) \in Nat
      BY <1>2
    <2> QED BY <1>5, <2>1
  <1>7. TypeOK'
    <2>1. replies' \in [Clients -> [1 .. MaxCmds -> Seq(Reply)]]
      BY <1>4, <1>5, <1>6 DEF TypeOK
    <2>2. a \in [req : Request, reply : Reply]
      BY <1>1, <1>2
    <2> QED BY <1>3, <1>4, <2>1, <2>2 DEF TypeOK
  <1>8. \A c \in Clients, i \in 1 .. MaxCmds : Made(c, i) \subseteq Made(c, i)'
    <2> TAKE c \in Clients, i \in 1 .. MaxCmds
    <2>1. CASE c = r.client /\ i = r.no
      <3>1. replies'[c][i] = Append(replies[c][i], x)
        BY <1>4, <2>1 DEF TypeOK
      <3> QED BY <1>5, <1>6, <2>1, <3>1 DEF Made
    <2>2. CASE ~(c = r.client /\ i = r.no)
      <3>1. replies'[c][i] = replies[c][i]
        BY <1>4, <2>2 DEF TypeOK
      <3> QED BY <3>1 DEF Made
    <2> QED BY <2>1, <2>2
  <1>9. x \in Made(r.client, r.no)'
    <2>1. replies'[r.client][r.no] = Append(replies[r.client][r.no], x)
      BY <1>4, <1>5 DEF TypeOK
    <2> QED BY <1>5, <1>6, <2>1 DEF Made
  <1>10. SocketsOnce'
    <2>1. Flight' \subseteq Flight
      BY <1>4 DEF Flight
    <2> QED BY <1>4, <2>1 DEF SocketsOnce, Sending
  <1>11. RepliesTrue'
    <2>1. \A b \in back : b.req.client \in Clients /\ b.req.no \in 1 .. MaxCmds
      BY DEF TypeOK, Request
    <2> QED BY <1>4, <1>8, <1>9, <2>1 DEF RepliesTrue
  <1>12. ToldOnlyIfSent'
    BY <1>4 DEF ToldOnlyIfSent, Told
  <1>13. ShownAnswersCommand'
    <2>1. \A c \in Clients : Told(c) => count[c] \in 1 .. MaxCmds
      BY DEF ToldOnlyIfSent, TypeOK
    <2>2. \A c \in Clients : /\ RepliesTo(c) = Made(c, count[c])
                             /\ RepliesTo(c)' = Made(c, count[c])'
      BY DEF RepliesTo, Made
    <2> QED BY <1>4, <1>8, <2>1, <2>2 DEF ShownAnswersCommand, Told, Made
  <1> QED BY <1>7, <1>10, <1>11, <1>12, <1>13

\* The other steps move requests or drop them.
LEMMA OtherIInv ==
  ASSUME IInv, \/ \E r \in out : Arrive(r)
               \/ StartDaemon \/ StopDaemon
  PROVE  IInv'
  <1> USE DEF IInv
  <1>1. /\ UNCHANGED <<count, sock, req, retries, got, shown, back, db, created,
                       replies>>
        /\ out' \subseteq out /\ in' \subseteq out \cup in
    BY DEF Arrive, StartDaemon, StopDaemon, clientVars, daemonVars
  <1>2. up' \in BOOLEAN /\ stops' \in 0 .. MaxStops
    <2>1. up \in BOOLEAN /\ stops \in 0 .. MaxStops /\ MaxStops \in Nat
      BY RpcAssumption DEF TypeOK
    <2>2. CASE \E r \in out : Arrive(r)
      BY <2>1, <2>2 DEF Arrive, daemonVars
    <2>3. CASE StartDaemon
      BY <2>1, <2>3 DEF StartDaemon
    <2>4. CASE StopDaemon
      <3>1. up' = FALSE /\ stops' = stops + 1 /\ stops < MaxStops
        BY <2>4 DEF StopDaemon
      <3>2. up' \in BOOLEAN
        BY <3>1
      <3>3. stops' \in 0 .. MaxStops
        <4> HIDE DEF IInv
        <4>1. stops \in 0 .. MaxStops /\ MaxStops \in Nat
          BY <2>1
        <4>2. stops' = stops + 1 /\ stops < MaxStops
          BY <3>1
        <4> QED BY <4>1, <4>2
      <3> QED BY <3>2, <3>3
    <2> QED BY <2>2, <2>3, <2>4
  <1>3. TypeOK'
    BY <1>1, <1>2 DEF TypeOK
  <1>4. SocketsOnce'
    <2>1. Flight' \subseteq Flight
      BY <1>1 DEF Flight
    <2> QED BY <1>1, <2>1 DEF SocketsOnce, Sending
  <1> QED BY <1>1, <1>3, <1>4
             DEF RepliesTrue, Made, ToldOnlyIfSent, ShownAnswersCommand, Told,
                 RepliesTo

\* Every step keeps the invariant.
LEMMA StepIInv == IInv /\ [Next]_vars => IInv'
  <1> SUFFICES ASSUME IInv, [Next]_vars PROVE IInv'
    OBVIOUS
  <1>1. CASE UNCHANGED vars
    BY <1>1 DEF vars, clientVars, daemonVars, IInv, TypeOK, SocketsOnce, Flight,
                Sending, RepliesTrue, Made, ToldOnlyIfSent, Told,
                ShownAnswersCommand, RepliesTo
  <1>2. CASE Next
    BY <1>2, SendIInv, ReceiveIInv, TimeoutIInv, AnswerIInv, OtherIInv
       DEF Next, Daemon, Client
  <1> QED BY <1>1, <1>2

\* Requests are well formed wherever they are, and replies are those that
\* db_client_op makes (daemon_db_thread.cpp:76-120).
THEOREM TypeCorrect == Spec => []TypeOK
  BY InitIInv, StepIInv, PTL DEF Spec, IInv

\* What a client shows is a reply to the very command it sent: late replies to
\* earlier commands and attempts go to sockets that are closed
\* (zmq_util.cpp:71 and :99).
THEOREM ShownIsTrue == Spec => []ShownAnswersCommand
  BY InitIInv, StepIInv, PTL DEF Spec, IInv

-----------------------------------------------------------------------------
(* How often a command is carried out.  Every attempt makes one request,   *)
(* and every request is answered at most once; so the replies to a command *)
(* and its requests that are still to be answered are never more than the  *)
(* attempts that have been taken off its retries.                          *)

\* The requests of command i of c that the daemon may still answer.
Pending(c, i) == {r \in out \cup in : r.client = c /\ r.no = i}

\* The attempts that c has made, or may have made, to send its command i.
Used(c, i) ==
  IF i > count[c] THEN 0
  ELSE IF i = count[c] /\ Sending(c) THEN Retries - retries[c] + 1
  ELSE Retries

\* A request is in one place only, and the attempts pay for the replies.
AttemptsPay ==
  /\ IsFiniteSet(out \cup in)
  /\ out \cap in = {}
  /\ \A c \in Clients, i \in 1 .. MaxCmds :
       Len(replies[c][i]) + Cardinality(Pending(c, i)) <= Used(c, i)

\* The requests of a command that may be answered are finitely many.
LEMMA PendingFinite ==
  ASSUME AttemptsPay, NEW c, NEW i
  PROVE  IsFiniteSet(Pending(c, i)) /\ Cardinality(Pending(c, i)) \in Nat
  <1>1. Pending(c, i) \in SUBSET (out \cup in)
    BY DEF Pending
  <1>2. IsFiniteSet(Pending(c, i))
    BY <1>1, FS_Subset DEF AttemptsPay
  <1> QED BY <1>2, FS_CardinalityType

\* When requests go and none comes, fewer of a command may be answered.
LEMMA FewerPending ==
  ASSUME AttemptsPay, out' \cup in' \subseteq out \cup in
  PROVE  /\ IsFiniteSet(out' \cup in')
         /\ \A c, i : /\ Cardinality(Pending(c, i)') \in Nat
                      /\ Cardinality(Pending(c, i)') <= Cardinality(Pending(c, i))
  <1>1. IsFiniteSet(out' \cup in')
    BY FS_Subset DEF AttemptsPay
  <1>2. ASSUME NEW c, NEW i
        PROVE  /\ Cardinality(Pending(c, i)') \in Nat
               /\ Cardinality(Pending(c, i)') <= Cardinality(Pending(c, i))
    <2>1. Pending(c, i)' \in SUBSET Pending(c, i)
      BY DEF Pending
    <2> QED BY <2>1, PendingFinite, FS_Subset, FS_CardinalityType
  <1> QED BY <1>1, <1>2

\* A new request adds one to those of its command, and to no other's.
LEMMA OneMorePending ==
  ASSUME AttemptsPay, NEW r, out' \cup in' \subseteq (out \cup in) \cup {r}
  PROVE  /\ IsFiniteSet(out' \cup in')
         /\ \A c, i :
              /\ Cardinality(Pending(c, i)') \in Nat
              /\ Cardinality(Pending(c, i)') <= Cardinality(Pending(c, i)) + 1
              /\ ~(r.client = c /\ r.no = i) =>
                   Cardinality(Pending(c, i)') <= Cardinality(Pending(c, i))
  <1>1. IsFiniteSet(out' \cup in')
    BY FS_AddElement, FS_Subset DEF AttemptsPay
  <1>2. ASSUME NEW c, NEW i
        PROVE  /\ Cardinality(Pending(c, i)') \in Nat
               /\ Cardinality(Pending(c, i)') <= Cardinality(Pending(c, i)) + 1
               /\ ~(r.client = c /\ r.no = i) =>
                    Cardinality(Pending(c, i)') <= Cardinality(Pending(c, i))
    <2> DEFINE P == Pending(c, i)
               Q == Pending(c, i)'
    <2>1. IsFiniteSet(P) /\ Cardinality(P) \in Nat
      BY PendingFinite
    <2>2. /\ IsFiniteSet(P \cup {r})
          /\ Cardinality(P \cup {r}) <= Cardinality(P) + 1
      <3>1. /\ IsFiniteSet(P \cup {r})
            /\ \/ Cardinality(P \cup {r}) = Cardinality(P)
               \/ Cardinality(P \cup {r}) = Cardinality(P) + 1
        BY <2>1, FS_AddElement
      <3> QED BY <2>1, <3>1
    <2>3. Q \in SUBSET (P \cup {r})
      BY DEF Pending
    <2>4. ~(r.client = c /\ r.no = i) => Q \in SUBSET P
      BY DEF Pending
    <2> HIDE DEF P, Q
    <2>5. /\ Cardinality(Q) \in Nat /\ Cardinality(P \cup {r}) \in Nat
          /\ Cardinality(Q) <= Cardinality(P \cup {r})
      BY <2>2, <2>3, FS_Subset, FS_CardinalityType
    <2>6. Q \in SUBSET P => Cardinality(Q) <= Cardinality(P)
      BY <2>1, FS_Subset
    <2>7. Cardinality(Q) <= Cardinality(P) + 1
      BY <2>1, <2>2, <2>5
    <2> QED BY <2>4, <2>5, <2>6, <2>7 DEF P, Q
  <1> QED BY <1>1, <1>2

\* Nothing has been sent initially.
LEMMA InitAttempts == Init => AttemptsPay
  <1> SUFFICES ASSUME Init PROVE AttemptsPay
    OBVIOUS
  <1>1. out = {} /\ in = {}
    BY DEF Init
  <1>2. IsFiniteSet(out \cup in)
    BY <1>1, FS_EmptySet
  <1>3. ASSUME NEW c \in Clients, NEW i \in 1 .. MaxCmds
        PROVE  Len(replies[c][i]) + Cardinality(Pending(c, i)) <= Used(c, i)
    <2>1. Pending(c, i) = {}
      BY <1>1 DEF Pending
    <2>2. Cardinality(Pending(c, i)) = 0
      BY <2>1, FS_EmptySet
    <2>3. Len(replies[c][i]) = 0
      BY DEF Init
    <2>4. count[c] = 0
      BY DEF Init
    <2>5. Used(c, i) = 0
      BY <2>4, RpcAssumption DEF Used
    <2> QED BY <2>2, <2>3, <2>5
  <1> QED BY <1>1, <1>2, <1>3 DEF AttemptsPay

\* The replies to a command are counted by a natural number, and so are the
\* attempts.
LEMMA Counts ==
  ASSUME TypeOK, NEW c \in Clients, NEW i \in 1 .. MaxCmds
  PROVE  /\ Len(replies[c][i]) \in Nat
         /\ count[c] \in Nat /\ retries[c] \in 0 .. Retries
         /\ Retries \in Nat /\ Used(c, i) \in Nat
         /\ Used(c, i) <= Retries
  <1>1. replies[c][i] \in Seq(Reply)
    BY DEF TypeOK
  <1>2. count[c] \in Nat /\ retries[c] \in 0 .. Retries /\ Retries \in Nat
    BY RpcAssumption DEF TypeOK
  <1>3. Used(c, i) \in Nat /\ Used(c, i) <= Retries
    BY <1>2 DEF Used, Sending
  <1> QED BY <1>1, <1>2, <1>3

\* A command is sent: its first attempt pays for its first request.
LEMMA SendAttempts ==
  ASSUME IInv, AttemptsPay, NEW c \in Clients, NEW k \in Cmd, Send(c, k)
  PROVE  AttemptsPay'
  <1> DEFINE r == [client |-> c, no |-> count[c] + 1, sock |-> sock[c] + 1,
                   cmd |-> k]
  <1>1. /\ out' = (out \ {req[c]}) \cup {r}
        /\ count' = [count EXCEPT ![c] = @ + 1]
        /\ retries' = [retries EXCEPT ![c] = Retries]
        /\ in' = in /\ replies' = replies
        /\ ~Sending(c)
    BY DEF Send, Started, Issue, daemonVars
  <1>2. r \notin in
    <2>1. \A q \in in : q \in Request /\ q.sock <= sock[q.client]
      BY DEF IInv, TypeOK, SocketsOnce, Flight
    <2>2. sock[c] \in Nat
      BY DEF IInv, TypeOK
    <2> QED BY <2>1, <2>2 DEF Request
  <1>3. r.client = c /\ r.no = count[c] + 1
    OBVIOUS
  <1> HIDE DEF r
  <1>4. out' \cap in' = {}
    BY <1>1, <1>2 DEF AttemptsPay
  <1>5. out' \cup in' \subseteq (out \cup in) \cup {r}
    BY <1>1
  <1>6. ASSUME NEW x \in Clients, NEW i \in 1 .. MaxCmds
        PROVE  Len(replies'[x][i]) + Cardinality(Pending(x, i)') <= Used(x, i)'
    <2> DEFINE l == Len(replies[x][i])
               p == Cardinality(Pending(x, i))
               q == Cardinality(Pending(x, i)')
    <2>1. /\ l \in Nat /\ count[x] \in Nat /\ retries[x] \in 0 .. Retries
          /\ Retries \in Nat /\ Used(x, i) \in Nat
      BY Counts DEF IInv
    <2>2. p \in Nat /\ l + p <= Used(x, i)
      BY PendingFinite DEF AttemptsPay
    <2>3. q \in Nat /\ q <= p + 1 /\ (~(x = c /\ i = count[c] + 1) => q <= p)
      BY <1>3, <1>5, OneMorePending
    <2>4. Len(replies'[x][i]) = l
      BY <1>1
    <2>5. count \in [Clients -> 0 .. MaxCmds] /\ retries \in [Clients -> 0 .. Retries]
      BY DEF IInv, TypeOK
    <2> HIDE DEF l, p, q
    <2>6. CASE x # c
      <3>1. count'[x] = count[x] /\ retries'[x] = retries[x]
        BY <1>1, <2>5, <2>6
      <3>2. Used(x, i)' = Used(x, i)
        BY <3>1 DEF Used, Sending
      <3> QED BY <2>1, <2>2, <2>3, <2>4, <2>6, <3>2 DEF q
    <2>7. CASE x = c
      <3>1. count'[c] = count[c] + 1 /\ retries'[c] = Retries
        BY <1>1, <2>5
      <3>2. Retries > 0
        BY RpcAssumption
      <3>3. CASE i = count[c] + 1
        <4>1. Used(c, i) = 0
          BY <2>1, <2>7, <3>3 DEF Used
        <4>2. Used(c, i)' = 1
          BY <2>1, <2>7, <3>1, <3>2, <3>3 DEF Used, Sending
        <4> QED BY <2>1, <2>2, <2>3, <2>4, <2>7, <4>1, <4>2 DEF q
      <3>4. CASE i # count[c] + 1
        <4>1. Used(c, i)' = Used(c, i)
          BY <1>1, <2>1, <2>7, <3>1, <3>4 DEF Used, Sending
        <4> QED BY <2>1, <2>2, <2>3, <2>4, <2>7, <3>4, <4>1 DEF q
      <3> QED BY <3>3, <3>4
    <2> QED BY <2>6, <2>7
  <1>7. IsFiniteSet(out' \cup in')
    BY <1>5, OneMorePending
  <1> QED BY <1>4, <1>6, <1>7 DEF AttemptsPay

\* Receiving a reply ends the command: no attempt is given back.
LEMMA ReceiveAttempts ==
  ASSUME IInv, AttemptsPay, NEW c \in Clients, Receive(c)
  PROVE  AttemptsPay'
  <1>1. /\ UNCHANGED <<count, out, in, replies>>
        /\ \/ retries' = [retries EXCEPT ![c] = 0]
           \/ retries' = retries
    BY DEF Receive, daemonVars
  <1>2. ASSUME NEW x \in Clients, NEW i \in 1 .. MaxCmds
        PROVE  Used(x, i)' \in Nat /\ Used(x, i) <= Used(x, i)'
    <2>1. retries \in [Clients -> 0 .. Retries] /\ Retries \in Nat
      BY RpcAssumption DEF IInv, TypeOK
    <2>2. retries'[x] = retries[x] \/ retries'[x] = 0
      BY <1>1, <2>1
    <2> QED BY <1>1, <2>1, <2>2 DEF Used, Sending
  <1>3. ASSUME NEW x \in Clients, NEW i \in 1 .. MaxCmds
        PROVE  Len(replies'[x][i]) + Cardinality(Pending(x, i)') <= Used(x, i)'
    <2>1. Pending(x, i)' = Pending(x, i)
      BY <1>1 DEF Pending
    <2>2. Len(replies[x][i]) + Cardinality(Pending(x, i)) <= Used(x, i)
      BY DEF AttemptsPay
    <2>3. Len(replies[x][i]) \in Nat /\ Used(x, i) \in Nat
      BY Counts DEF IInv
    <2>4. Cardinality(Pending(x, i)) \in Nat
      BY PendingFinite
    <2> QED BY <1>1, <1>2, <2>1, <2>2, <2>3, <2>4
  <1> QED BY <1>1, <1>3 DEF AttemptsPay

\* A poll times out: what is sent again is paid for by the attempt taken off.
LEMMA TimeoutAttempts ==
  ASSUME IInv, AttemptsPay, NEW c \in Clients, Timeout(c)
  PROVE  AttemptsPay'
  <1> DEFINE r == [req[c] EXCEPT !.sock = @ + 1]
  <1>1. /\ retries' = [retries EXCEPT ![c] = @ - 1]
        /\ Sending(c) /\ UNCHANGED <<count, in, replies>>
    BY DEF Timeout, daemonVars
  <1>2. IF retries[c] = 1 THEN out' = out \ {req[c]}
                          ELSE out' = (out \ {req[c]}) \cup {r}
    BY DEF Timeout, Issue
  <1>3. /\ r.client = c /\ r.no = count[c] /\ r.sock = sock[c] + 1
    BY <1>1 DEF IInv, SocketsOnce, Request
  <1>4. r \notin in
    <2>1. \A q \in in : q \in Request /\ q.sock <= sock[q.client]
      BY DEF IInv, TypeOK, SocketsOnce, Flight
    <2>2. sock[c] \in Nat
      BY DEF IInv, TypeOK
    <2> QED BY <1>3, <2>1, <2>2 DEF Request
  <1> HIDE DEF r
  <1>5. out' \cap in' = {} /\ out' \cup in' \subseteq (out \cup in) \cup {r}
    BY <1>1, <1>2, <1>4 DEF AttemptsPay
  <1>6. ASSUME NEW x \in Clients, NEW i \in 1 .. MaxCmds
        PROVE  Len(replies'[x][i]) + Cardinality(Pending(x, i)') <= Used(x, i)'
    <2> DEFINE l == Len(replies[x][i])
               p == Cardinality(Pending(x, i))
               q == Cardinality(Pending(x, i)')
    <2>1. /\ l \in Nat /\ count[x] \in Nat /\ retries[x] \in 0 .. Retries
          /\ Retries \in Nat /\ Used(x, i) \in Nat
      BY Counts DEF IInv
    <2>2. p \in Nat /\ l + p <= Used(x, i)
      BY PendingFinite DEF AttemptsPay
    <2>3. /\ q \in Nat /\ q <= p + 1 /\ (~(x = c /\ i = count[c]) => q <= p)
      BY <1>3, <1>5, OneMorePending
    <2>4. retries[c] = 1 => q <= p
      <3> SUFFICES ASSUME retries[c] = 1 PROVE q <= p
        OBVIOUS
      <3>1. out' \cup in' \subseteq out \cup in
        BY <1>1, <1>2
      <3> QED BY <3>1, FewerPending
    <2>5. Len(replies'[x][i]) = l
      BY <1>1
    <2>6. retries \in [Clients -> 0 .. Retries]
      BY DEF IInv, TypeOK
    <2> HIDE DEF l, p, q
    <2>7. CASE x = c /\ i = count[c]
      <3>1. retries[c] > 0 /\ retries'[c] = retries[c] - 1 /\ count'[c] = count[c]
        BY <1>1, <2>6 DEF Sending
      <3>2. Used(c, i) = Retries - retries[c] + 1
        BY <1>1, <2>1, <2>7 DEF Used
      <3>3. Used(c, i)' = IF retries[c] = 1 THEN Retries
                          ELSE Retries - retries[c] + 2
        BY <2>1, <2>7, <3>1 DEF Used, Sending
      <3> QED BY <2>1, <2>2, <2>3, <2>4, <2>5, <2>7, <3>1, <3>2, <3>3 DEF q
    <2>8. CASE ~(x = c /\ i = count[c])
      <3>1. Used(x, i)' = Used(x, i)
        BY <1>1, <2>6, <2>8 DEF Used, Sending
      <3> QED BY <2>1, <2>2, <2>3, <2>5, <2>8, <3>1 DEF q
    <2> QED BY <2>7, <2>8
  <1>7. IsFiniteSet(out' \cup in')
    BY <1>5, OneMorePending
  <1> QED BY <1>5, <1>6, <1>7 DEF AttemptsPay

\* A reply is made: the request that it answers is no more.
LEMMA AnswerAttempts ==
  ASSUME IInv, AttemptsPay, NEW r \in in, Answer(r)
  PROVE  AttemptsPay'
  <1> DEFINE y == ReplyTo(r.cmd)
  <1>1. /\ in' = in \ {r} /\ out' = out
        /\ replies' = [replies EXCEPT ![r.client][r.no] = Append(@, y)]
        /\ UNCHANGED <<count, retries>>
    BY DEF Answer, clientVars
  <1>2. r \in Request /\ r.client \in Clients /\ r.no \in 1 .. MaxCmds
        /\ y \in Reply
    BY ReplyType DEF IInv, TypeOK, Request
  <1> HIDE DEF y
  <1>3. out' \cap in' = {} /\ out' \cup in' \subseteq out \cup in
    BY <1>1 DEF AttemptsPay
  <1>4. ASSUME NEW x \in Clients, NEW i \in 1 .. MaxCmds
        PROVE  Len(replies'[x][i]) + Cardinality(Pending(x, i)') <= Used(x, i)'
    <2>1. Len(replies[x][i]) \in Nat /\ replies[x][i] \in Seq(Reply)
      BY Counts DEF IInv, TypeOK
    <2>2. /\ IsFiniteSet(Pending(x, i)) /\ Cardinality(Pending(x, i)) \in Nat
          /\ Len(replies[x][i]) + Cardinality(Pending(x, i)) <= Used(x, i)
      BY PendingFinite DEF AttemptsPay
    <2>3. Used(x, i)' = Used(x, i) /\ Used(x, i) \in Nat
      BY <1>1, Counts DEF Used, Sending, IInv
    <2>4. /\ Cardinality(Pending(x, i)') \in Nat
          /\ Cardinality(Pending(x, i)') <= Cardinality(Pending(x, i))
      BY <1>3, FewerPending
    <2>5. replies \in [Clients -> [1 .. MaxCmds -> Seq(Reply)]]
      BY DEF IInv, TypeOK
    <2>6. CASE x = r.client /\ i = r.no
      <3>1. replies'[x][i] = Append(replies[x][i], y)
        BY <1>1, <1>2, <2>5, <2>6
      <3>2. Len(replies'[x][i]) = Len(replies[x][i]) + 1
        BY <1>2, <2>1, <3>1
      <3>3. Pending(x, i)' = Pending(x, i) \ {r} /\ r \in Pending(x, i)
        BY <1>1, <2>6 DEF Pending, AttemptsPay
      <3>4. Cardinality(Pending(x, i)') = Cardinality(Pending(x, i)) - 1
        BY <2>2, <3>3, FS_RemoveElement
      <3> QED BY <2>1, <2>2, <2>3, <3>2, <3>4
    <2>7. CASE ~(x = r.client /\ i = r.no)
      <3>1. replies'[x][i] = replies[x][i]
        BY <1>1, <1>2, <2>5, <2>7
      <3> QED BY <2>1, <2>2, <2>3, <2>4, <3>1
    <2> QED BY <2>6, <2>7
  <1>5. IsFiniteSet(out' \cup in')
    BY <1>3, FewerPending
  <1> QED BY <1>3, <1>4, <1>5 DEF AttemptsPay

\* A request reaches the daemon, or is lost when the daemon stops.
LEMMA OtherAttempts ==
  ASSUME IInv, AttemptsPay, \/ \E r \in out : Arrive(r)
                            \/ StartDaemon \/ StopDaemon
                            \/ UNCHANGED vars
  PROVE  AttemptsPay'
  <1>1. /\ UNCHANGED <<count, retries, replies>>
        /\ out' \cup in' \subseteq out \cup in
        /\ out' \cap in' \subseteq out \cap in
    BY DEF Arrive, StartDaemon, StopDaemon, vars, clientVars, daemonVars
  <1>2. ASSUME NEW x \in Clients, NEW i \in 1 .. MaxCmds
        PROVE  Len(replies'[x][i]) + Cardinality(Pending(x, i)') <= Used(x, i)'
    <2>1. Len(replies[x][i]) + Cardinality(Pending(x, i)) <= Used(x, i)
      BY DEF AttemptsPay
    <2>2. Len(replies[x][i]) \in Nat /\ Used(x, i) \in Nat
      BY Counts DEF IInv
    <2>3. /\ Cardinality(Pending(x, i)) \in Nat
          /\ Cardinality(Pending(x, i)') \in Nat
          /\ Cardinality(Pending(x, i)') <= Cardinality(Pending(x, i))
      BY <1>1, FewerPending, PendingFinite
    <2>4. Used(x, i)' = Used(x, i) /\ replies'[x][i] = replies[x][i]
      BY <1>1 DEF Used, Sending
    <2> QED BY <2>1, <2>2, <2>3, <2>4
  <1>3. IsFiniteSet(out' \cup in')
    BY <1>1, FewerPending
  <1> QED BY <1>1, <1>2, <1>3 DEF AttemptsPay

\* The daemon carries a command out at most REQUEST_RETRIES times, however
\* often it is sent again, delayed or given up (zmq_util.cpp:67-103).
THEOREM AtMostRetriesTimes == Spec => []AtMostRetries
  <1>1. IInv /\ AttemptsPay /\ [Next]_vars => AttemptsPay'
    BY SendAttempts, ReceiveAttempts, TimeoutAttempts, AnswerAttempts,
       OtherAttempts DEF Next, Daemon, Client
  <1>2. IInv /\ AttemptsPay => AtMostRetries
    <2> SUFFICES ASSUME IInv, AttemptsPay,
                        NEW c \in Clients, NEW i \in 1 .. MaxCmds
                 PROVE  Len(replies[c][i]) <= Retries
      BY DEF AtMostRetries
    <2>1. Len(replies[c][i]) + Cardinality(Pending(c, i)) <= Used(c, i)
      BY DEF AttemptsPay
    <2> QED BY <2>1, Counts, PendingFinite DEF IInv
  <1> QED BY <1>1, <1>2, InitIInv, StepIInv, InitAttempts, PTL DEF Spec
=============================================================================
