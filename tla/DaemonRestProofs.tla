-------------------------- MODULE DaemonRestProofs --------------------------
(***************************************************************************)
(* Theorems about networks of DaemonNet that have come to rest: nothing    *)
(* that had to be told, or sent, was lost on the way, for any set of       *)
(* daemons, users and ads.                                                 *)
(***************************************************************************)
EXTENDS DaemonNetProofs

-----------------------------------------------------------------------------
(* Queues.                                                                 *)

\* One of the messages in M waits in a queue.
Queued(q, M) == \E i \in 1 .. Len(q) : q[i] \in M

\* What Append gives, whatever is appended.
LEMMA AppendAny ==
  ASSUME NEW S, NEW q \in Seq(S), NEW m
  PROVE  /\ Len(q) \in Nat
         /\ Len(Append(q, m)) = Len(q) + 1
         /\ \A i \in 1 .. Len(q) : Append(q, m)[i] = q[i]
         /\ Append(q, m)[Len(q) + 1] = m
  <1>1. q \in Seq(S \cup {m})
    OBVIOUS
  <1> QED BY <1>1, AppendFacts

\* A message that waits goes on waiting when one is added, and when the first
\* is taken, unless it is the first.
LEMMA QueuedStays ==
  ASSUME NEW S, NEW q \in Seq(S), NEW M, Queued(q, M)
  PROVE  /\ \A m : Queued(Append(q, m), M)
         /\ q # <<>> /\ (Head(q) \in M \/ Queued(Tail(q), M))
  <1>1. PICK i \in 1 .. Len(q) : q[i] \in M
    BY DEF Queued
  <1>2. ASSUME NEW m PROVE Queued(Append(q, m), M)
    <2>1. i \in 1 .. Len(Append(q, m)) /\ Append(q, m)[i] = q[i]
      BY AppendAny
    <2> QED BY <1>1, <2>1 DEF Queued
  <1>3. q # <<>>
    OBVIOUS
  <1>4. Head(q) \in M \/ Queued(Tail(q), M)
    <2>1. CASE i = 1
      BY <1>1, <1>3, <2>1, TailFacts
    <2>2. CASE i # 1
      <3>1. i - 1 \in 1 .. Len(Tail(q)) /\ Tail(q)[i - 1] = q[i]
        BY <1>3, <2>2, TailFacts
      <3> QED BY <1>1, <3>1 DEF Queued
    <2> QED BY <2>1, <2>2
  <1> QED BY <1>2, <1>3, <1>4

\* A message that is added waits.
LEMMA QueuedNow ==
  ASSUME NEW S, NEW q \in Seq(S), NEW M, NEW m \in M
  PROVE  Queued(Append(q, m), M)
  <1>1. Len(q) + 1 \in 1 .. Len(Append(q, m)) /\ Append(q, m)[Len(q) + 1] = m
    BY AppendAny
  <1> QED BY <1>1 DEF Queued

-----------------------------------------------------------------------------
(* Where the threads are, and what they have still to do.                  *)

\* What the p2p thread announces and asks for on its way round the loop
\* (daemon_p2p_thread.cpp:350-393), and what it has received.
Phases ==
  \A d \in Daemons :
    /\ p2pPc[d] # "start" => dbPc[d] # "start"
    /\ p2pPc[d] \in {"requests", "poll", "answer", "read"} => ~toBcastHashes[d]
    /\ p2pPc[d] \in {"poll", "answer", "read"} => ~toSendDbRequests[d]
    /\ p2pPc[d] \notin {"answer", "read"} => inMsg[d] = NoMsg
    /\ \A e \in Daemons : dbRequests[d][e] # {} => toSendDbRequests[d]

\* Ad a is stored wherever it is listed or has been added.
Stored(a) == \A d \in Daemons : a \in hashes[d] \cup added[d] => a \in db[d]

\* A step takes ad a out of no database.
Keeps(a) == \A d \in Daemons : a \in db[d] => a \in db'[d]

\* d is going to announce its ads: it has to, or the db thread will tell it to.
AnnounceDue(d) ==
  \/ toBcastHashes[d]
  \/ dbPc[d] \in {"update", "swap"}
  \/ Queued(toP2p[d], NewMsg)

\* The messages that bring ad a, or the news that x has it.
Brings(x, a) ==
  {m \in P2pMessage : /\ m.type = "DOC" \/ (m.type = "HASH" /\ m.from = x)
                      /\ a \in m.ads}

\* The messages by which y asks for ad a, and the answer to it.
Asks(y, a) == {m \in P2pMessage : m.type = "REQ" /\ m.from = y /\ a \in m.ads}
Gets(y, a) == {m \in DbMessage : m.type = "GET" /\ m.from = y /\ a \in m.ads}
Puts(y, a) == {m \in NoteMessage : m.type = "PUT" /\ m.from = y /\ a \in m.ads}

\* The messages that hand ad a over to the db thread.
Inserts(a) == {m \in DbMessage : m.type = "INS" /\ a \in m.ads}

\* Ad a of x is on its way to y: announced, asked for, looked up or sent.
OnItsWay(a, x, y) ==
  \/ Queued(chan[x][y], Brings(x, a)) \/ inMsg[y] \in Brings(x, a)
  \/ a \in dbRequests[y][x]
  \/ Queued(chan[y][x], Asks(y, a)) \/ inMsg[x] \in Asks(y, a)
  \/ Queued(toDb[x], Gets(y, a))
  \/ Queued(toP2p[x], Puts(y, a))
  \/ Queued(toDb[y], Inserts(a))

\* If x has ad a its peer y has it too, is about to be told of it, or the ad is
\* on its way.
Custody(a, x, y) ==
  a \in db[x] /\ y \in peers[x] =>
    a \in db[y] \/ AnnounceDue(x) \/ OnItsWay(a, x, y)

\* Ad a is on its way from wherever it is to wherever it is not.
Spreading(a) == Stored(a) /\ \A x, y \in Daemons : Custody(a, x, y)

\* The messages that tell of z.
Naming(z) == {m \in P2pMessage : m.type = "PEER" /\ z \in m.peers}

\* A daemon that has announced its peers has told each of all of them.
PeersTold ==
  \A x, y \in Daemons : y \in peers[x] /\ ~toBcastPeers[x] =>
    \A z \in ({x} \cup peers[x]) \ {y} :
      z \in PeersSoon(y) \/ Queued(chan[x][y], Naming(z))

\* A daemon forgets no peer it has been started with, and is not its own peer.
PeersKept ==
  \A d \in Daemons : InitialPeers(d) \subseteq peers[d] /\ d \notin peers[d]

\* The invariant of networks nobody is restarted in: who has to be told of whom
\* is about to be, or the news is on its way.
NetInv ==
  IInv /\ HashesCurrent /\ OnlyPostedAds /\ Phases /\ PeersTold /\ PeersKept

\* As long as nobody removes ads, that holds of all signed ads as well.
RestInv == NetInv /\ (budget.rm = MaxRm => \A a \in Signed : Spreading(a))

-----------------------------------------------------------------------------
(* What a step may do to each variable.                                    *)

Step(d) == P2pThread(d) \/ DbThread(d) \/ Client(d)

\* A message on a link stays there until the receiver takes it.
LEMMA LinkStep ==
  ASSUME TypeOK, NEW d \in Daemons, Step(d), NEW x \in Daemons, NEW y \in Daemons,
         NEW M, Queued(chan[x][y], M)
  PROVE  \/ Queued(chan'[x][y], M)
         \/ RecvPeer(y, x) /\ inMsg'[y] \in M
  <1>1. chan[x][y] \in Seq(P2pMessage)
    BY DEF TypeOK
  <1>2. ASSUME NEW msgs, chan' = Sent(d, msgs)
        PROVE  Queued(chan'[x][y], M)
    <2>1. \/ chan'[x][y] = chan[x][y]
          \/ chan'[x][y] = Append(chan[x][y], msgs[y])
      BY <1>2 DEF Sent, TypeOK
    <2> QED BY <1>1, <2>1, QueuedStays
  <1>3. CASE BcastPeers(d) \/ BcastHashes(d) \/ SendDbRequests(d) \/ AnswerPut(d)
    <2>1. \E msgs : chan' = Sent(d, msgs)
      BY <1>3 DEF BcastPeers, BcastHashes, SendDbRequests, AnswerPut
    <2> QED BY <1>2, <2>1
  <1>4. ASSUME NEW e \in Daemons, RecvPeer(d, e)
        PROVE  \/ Queued(chan'[x][y], M)
               \/ RecvPeer(y, x) /\ inMsg'[y] \in M
    <2>1. CASE x = e /\ y = d
      <3>1. /\ chan'[x][y] = Tail(chan[x][y])
            /\ inMsg'[y] = Head(chan[x][y])
        BY <1>4, <2>1 DEF RecvPeer, TypeOK
      <3> QED BY <1>1, <1>4, <2>1, <3>1, QueuedStays
    <2>2. CASE ~(x = e /\ y = d)
      <3>1. chan'[x][y] = chan[x][y]
        BY <1>4, <2>2 DEF RecvPeer, TypeOK
      <3> QED BY <3>1
    <2> QED BY <2>1, <2>2
  <1>5. CASE UNCHANGED chan
    BY <1>5
  <1> QED BY <1>3, <1>4, <1>5
          DEF Step, P2pThread, DbThread, Client, P2pStart, AnswerPeer, PassGate,
              AnswerHash, AnswerReq, AnswerDoc, PollDb, AnswerNew, DbStart,
              PeerGet, PeerIns, BeginUpdate, EndUpdate, ClientAdd, ClientRm

\* A message for the db thread waits until that takes it.
LEMMA ToDbStep ==
  ASSUME TypeOK, NEW d \in Daemons, Step(d), NEW x \in Daemons,
         NEW M, Queued(toDb[x], M)
  PROVE  \/ Queued(toDb'[x], M)
         \/ (PeerGet(x) \/ PeerIns(x)) /\ Head(toDb[x]) \in M
  <1>1. toDb[x] \in Seq(DbMessage)
    BY DEF TypeOK
  <1>2. CASE AnswerReq(d) \/ AnswerDoc(d)
    <2>1. \E m : toDb' = [toDb EXCEPT ![d] = Append(toDb[d], m)]
      BY <1>2 DEF AnswerReq, AnswerDoc
    <2>2. toDb'[x] = toDb[x] \/ \E m : toDb'[x] = Append(toDb[x], m)
      BY <2>1 DEF TypeOK
    <2> QED BY <1>1, <2>2, QueuedStays
  <1>3. CASE PeerGet(d) \/ PeerIns(d)
    <2>1. toDb' = [toDb EXCEPT ![d] = Tail(toDb[d])]
      BY <1>3 DEF PeerGet, PeerIns
    <2>2. CASE x = d
      <3>1. toDb'[x] = Tail(toDb[x])
        BY <2>1, <2>2 DEF TypeOK
      <3> QED BY <1>1, <1>3, <2>2, <3>1, QueuedStays
    <2>3. CASE x # d
      <3>1. toDb'[x] = toDb[x]
        BY <2>1, <2>3 DEF TypeOK
      <3> QED BY <3>1
    <2> QED BY <2>2, <2>3
  <1>4. CASE UNCHANGED toDb
    BY <1>4
  <1> QED BY <1>2, <1>3, <1>4
          DEF Step, P2pThread, DbThread, Client, P2pStart, BcastPeers, BcastHashes,
              SendDbRequests, RecvPeer, AnswerPeer, PassGate, AnswerHash, PollDb,
              AnswerPut, AnswerNew, DbStart, BeginUpdate, EndUpdate, ClientAdd,
              ClientRm

\* A message from the db thread waits until the p2p thread takes it.
LEMMA ToP2pStep ==
  ASSUME TypeOK, NEW d \in Daemons, Step(d), NEW x \in Daemons,
         NEW M, Queued(toP2p[x], M)
  PROVE  \/ Queued(toP2p'[x], M)
         \/ (AnswerPut(x) \/ AnswerNew(x)) /\ Head(toP2p[x]) \in M
  <1>1. toP2p[x] \in Seq(NoteMessage)
    BY DEF TypeOK
  <1>2. CASE PeerGet(d) \/ EndUpdate(d)
    <2>1. \E m : toP2p' = [toP2p EXCEPT ![d] = Append(toP2p[d], m)]
      BY <1>2 DEF PeerGet, EndUpdate
    <2>2. toP2p'[x] = toP2p[x] \/ \E m : toP2p'[x] = Append(toP2p[x], m)
      BY <2>1 DEF TypeOK
    <2> QED BY <1>1, <2>2, QueuedStays
  <1>3. CASE AnswerPut(d) \/ AnswerNew(d)
    <2>1. toP2p' = [toP2p EXCEPT ![d] = Tail(toP2p[d])]
      BY <1>3 DEF AnswerPut, AnswerNew
    <2>2. CASE x = d
      <3>1. toP2p'[x] = Tail(toP2p[x])
        BY <2>1, <2>2 DEF TypeOK
      <3> QED BY <1>1, <1>3, <2>2, <3>1, QueuedStays
    <2>3. CASE x # d
      <3>1. toP2p'[x] = toP2p[x]
        BY <2>1, <2>3 DEF TypeOK
      <3> QED BY <3>1
    <2> QED BY <2>2, <2>3
  <1>4. CASE UNCHANGED toP2p
    BY <1>4
  <1> QED BY <1>2, <1>3, <1>4
          DEF Step, P2pThread, DbThread, Client, P2pStart, BcastPeers, BcastHashes,
              SendDbRequests, RecvPeer, AnswerPeer, PassGate, AnswerHash, AnswerReq,
              AnswerDoc, PollDb, DbStart, PeerIns, BeginUpdate, ClientAdd,
              ClientRm

\* A message that has been received is held until it is answered.
LEMMA InMsgStep ==
  ASSUME TypeOK, Phases, NEW d \in Daemons, Step(d), NEW y \in Daemons,
         inMsg[y] # NoMsg
  PROVE  \/ inMsg'[y] = inMsg[y]
         \/ AnswerPeer(y) \/ AnswerHash(y) \/ AnswerReq(y) \/ AnswerDoc(y)
  <1>1. ASSUME NEW e \in Daemons, RecvPeer(d, e) PROVE inMsg'[y] = inMsg[y]
    BY <1>1 DEF RecvPeer, Phases, TypeOK
  <1>2. CASE AnswerPeer(d) \/ AnswerHash(d) \/ AnswerReq(d) \/ AnswerDoc(d)
    <2>1. CASE y = d
      BY <1>2, <2>1
    <2>2. CASE y # d
      BY <1>2, <2>2 DEF AnswerPeer, AnswerHash, AnswerReq, AnswerDoc, Answered,
                        TypeOK
    <2> QED BY <2>1, <2>2
  <1>3. CASE UNCHANGED inMsg
    BY <1>3
  <1> QED BY <1>1, <1>2, <1>3
          DEF Step, P2pThread, DbThread, Client, P2pStart, BcastPeers, BcastHashes,
              SendDbRequests, PassGate, PollDb, AnswerPut, AnswerNew, DbStart,
              PeerGet, PeerIns, BeginUpdate, EndUpdate, ClientAdd, ClientRm,
              p2pVars

\* What a daemon has to ask for, it goes on having to, until it asks for it.
LEMMA RequestsStep ==
  ASSUME TypeOK, NEW d \in Daemons, Step(d), NEW y \in Daemons, NEW x \in Daemons
  PROVE  dbRequests[y][x] \subseteq dbRequests'[y][x] \/ SendDbRequests(y)
  <1>1. CASE SendDbRequests(d)
    <2>1. CASE y = d
      BY <1>1, <2>1
    <2>2. CASE y # d
      BY <1>1, <2>2 DEF SendDbRequests, TypeOK
    <2> QED BY <2>1, <2>2
  <1>2. CASE AnswerHash(d)
    <2>1. PICK view \in HashViews(d) :
            dbRequests' = [dbRequests EXCEPT
              ![d][inMsg[d].from] = @ \cup (inMsg[d].ads \ view)]
      BY <1>2 DEF AnswerHash
    <2> QED BY <2>1 DEF TypeOK
  <1>3. CASE UNCHANGED dbRequests
    BY <1>3
  <1> QED BY <1>1, <1>2, <1>3
          DEF Step, P2pThread, DbThread, Client, P2pStart, BcastPeers, BcastHashes,
              RecvPeer, AnswerPeer, PassGate, AnswerReq, AnswerDoc, PollDb,
              AnswerPut, AnswerNew, DbStart, PeerGet, PeerIns, BeginUpdate,
              EndUpdate, ClientAdd, ClientRm, p2pVars

\* An ad that has come to a database is listed later.
LEMMA DbStep ==
  ASSUME TypeOK, NEW d \in Daemons, Step(d), NEW a, NEW y \in Daemons,
         a \in db'[y], a \notin db[y]
  PROVE  dbPc'[y] = "update"
  <1>1. ASSUME NEW u \in Users, ClientRm(d, u) PROVE FALSE
    <2>1. PICK left \in SUBSET db[d] : db' = [db EXCEPT ![d] = left]
      BY <1>1 DEF ClientRm, DbRmDocs
    <2> QED BY <2>1 DEF TypeOK
  <1>2. ASSUME NEW u \in Users, ClientAdd(d, u) PROVE dbPc'[y] = "update"
    <2>1. PICK file : db' = [db EXCEPT ![d] = @ \cup (file \ hashes[d])]
      BY <1>2 DEF ClientAdd, AddDocument, IndexDb
    <2>2. dbPc' = [dbPc EXCEPT ![d] = "update"]
      BY <1>2 DEF ClientAdd
    <2> QED BY <2>1, <2>2 DEF TypeOK
  <1>3. ASSUME PeerIns(d) PROVE dbPc'[y] = "update"
    <2> DEFINE docs == Head(toDb[d]).ads \ hashes[d]
    <2>1. /\ db' = [db EXCEPT ![d] = @ \cup {b \in docs : AuthorOf[b] # NoUser}]
          /\ dbPc' = [dbPc EXCEPT ![d] = IF docs = {} THEN "idle" ELSE "update"]
      BY <1>3 DEF PeerIns, DbPutDocs, AddDocument
    <2> HIDE DEF docs
    <2> QED BY <2>1 DEF TypeOK
  <1>4. CASE UNCHANGED db
    BY <1>4
  <1> QED BY <1>1, <1>2, <1>3, <1>4
          DEF Step, P2pThread, DbThread, Client, P2pStart, BcastPeers, BcastHashes,
              SendDbRequests, RecvPeer, AnswerPeer, PassGate, AnswerHash, AnswerReq,
              AnswerDoc, PollDb, AnswerPut, AnswerNew, DbStart, PeerGet, BeginUpdate,
              EndUpdate, dbVars

\* As long as no "db rm" has been taken, no step takes an ad away.
LEMMA NoRmKeeps ==
  ASSUME TypeOK, NEW d \in Daemons, Step(d), budget'.rm = MaxRm
  PROVE  budget.rm = MaxRm /\ \A a : Keeps(a)
  <1>1. ASSUME NEW u \in Users, ClientRm(d, u) PROVE FALSE
    <2>1. budget.rm \in 0 .. MaxRm /\ budget'.rm = budget.rm - 1
      BY <1>1 DEF ClientRm, TypeOK
    <2> QED BY <2>1, BoundsAssumption
  <1>2. ASSUME NEW u \in Users, ClientAdd(d, u)
        PROVE  budget'.rm = budget.rm /\ \A a : Keeps(a)
    <2>1. PICK file : db' = [db EXCEPT ![d] = @ \cup (file \ hashes[d])]
      BY <1>2 DEF ClientAdd, AddDocument, IndexDb
    <2>2. budget'.rm = budget.rm
      BY <1>2 DEF ClientAdd, TypeOK
    <2> QED BY <2>1, <2>2 DEF Keeps, TypeOK
  <1>3. CASE PeerIns(d)
    <2>1. PICK docs : db' = [db EXCEPT ![d] = @ \cup docs]
      BY <1>3 DEF PeerIns, DbPutDocs, AddDocument
    <2>2. UNCHANGED budget
      BY <1>3 DEF PeerIns
    <2> QED BY <2>1, <2>2 DEF Keeps, TypeOK
  <1>4. CASE UNCHANGED <<db, budget>>
    BY <1>4 DEF Keeps
  <1> QED BY <1>1, <1>2, <1>3, <1>4
          DEF Step, P2pThread, DbThread, Client, P2pStart, BcastPeers, BcastHashes,
              SendDbRequests, RecvPeer, AnswerPeer, PassGate, AnswerHash, AnswerReq,
              AnswerDoc, PollDb, AnswerPut, AnswerNew, DbStart, PeerGet, BeginUpdate,
              EndUpdate, dbVars

\* Peers are only added, and all are told of each other, and of the ads, then.
LEMMA PeersStep ==
  ASSUME TypeOK, NEW d \in Daemons, Step(d), NEW x \in Daemons
  PROVE  /\ peers[x] \subseteq peers'[x]
         /\ peers'[x] # peers[x] => toBcastPeers'[x] /\ toBcastHashes'[x]
         /\ toBcastPeers[x] /\ ~toBcastPeers'[x] => BcastPeers(x)
         /\ toBcastHashes[x] /\ ~toBcastHashes'[x] => BcastHashes(x)
  <1>1. CASE AnswerPeer(d)
    <2> DEFINE found == inMsg[d].peers \ ({d} \cup peers[d])
    <2>1. /\ peers' = [peers EXCEPT ![d] = @ \cup found]
          /\ toBcastPeers' = [toBcastPeers EXCEPT ![d] = @ \/ found # {}]
          /\ toBcastHashes' = [toBcastHashes EXCEPT ![d] = @ \/ found # {}]
      BY <1>1 DEF AnswerPeer
    <2> HIDE DEF found
    <2>2. CASE x = d
      <3>1. /\ peers'[x] = peers[x] \cup found
            /\ toBcastPeers'[x] = (toBcastPeers[x] \/ found # {})
            /\ toBcastHashes'[x] = (toBcastHashes[x] \/ found # {})
        BY <2>1, <2>2 DEF TypeOK
      <3> QED BY <3>1
    <2>3. CASE x # d
      <3>1. /\ peers'[x] = peers[x]
            /\ toBcastPeers'[x] = toBcastPeers[x]
            /\ toBcastHashes'[x] = toBcastHashes[x]
        BY <2>1, <2>3 DEF TypeOK
      <3> QED BY <3>1
    <2> QED BY <2>2, <2>3
  <1>2. CASE BcastPeers(d)
    <2>1. CASE x = d
      BY <1>2, <2>1 DEF BcastPeers
    <2>2. CASE x # d
      BY <1>2, <2>2 DEF BcastPeers, TypeOK
    <2> QED BY <2>1, <2>2
  <1>3. CASE BcastHashes(d)
    <2>1. CASE x = d
      BY <1>3, <2>1 DEF BcastHashes
    <2>2. CASE x # d
      BY <1>3, <2>2 DEF BcastHashes, TypeOK
    <2> QED BY <2>1, <2>2
  <1>4. CASE AnswerNew(d)
    BY <1>4 DEF AnswerNew, TypeOK
  <1>5. CASE UNCHANGED <<peers, toBcastPeers, toBcastHashes>>
    BY <1>5
  <1> QED BY <1>1, <1>2, <1>3, <1>4, <1>5
          DEF Step, P2pThread, DbThread, Client, P2pStart, SendDbRequests, RecvPeer,
              PassGate, AnswerHash, AnswerReq, AnswerDoc, PollDb, AnswerPut, DbStart,
              PeerGet, PeerIns, BeginUpdate, EndUpdate, ClientAdd, ClientRm, p2pVars

\* An announcement is due until it is made, and again if the db thread had not
\* finished listing the ads when it was made.
LEMMA DueStep ==
  ASSUME TypeOK, NEW d \in Daemons, Step(d), NEW x \in Daemons,
         AnnounceDue(x), ~AnnounceDue(x)'
  PROVE  BcastHashes(x) /\ dbPc[x] \notin {"update", "swap"}
  <1>1. CASE toBcastHashes[x]
    <2>1. BcastHashes(x)
      BY <1>1, PeersStep DEF AnnounceDue
    <2>2. dbPc'[x] = dbPc[x]
      BY <2>1 DEF BcastHashes, dbVars
    <2> QED BY <2>1, <2>2 DEF AnnounceDue
  <1>2. CASE dbPc[x] \in {"update", "swap"}
    <2>1. ASSUME EndUpdate(x) PROVE AnnounceDue(x)'
      <3>1. toP2p'[x] = Append(toP2p[x], [type |-> "NEW"])
        BY <2>1 DEF EndUpdate, TypeOK
      <3>2. [type |-> "NEW"] \in NewMsg /\ toP2p[x] \in Seq(NoteMessage)
        BY DEF NewMsg, TypeOK
      <3>3. Queued(toP2p'[x], NewMsg)
        BY <3>1, <3>2, QueuedNow
      <3> QED BY <3>3 DEF AnnounceDue
    <2>2. ASSUME ~EndUpdate(x) PROVE dbPc'[x] \in {"update", "swap"}
      BY <1>2, <2>2
         DEF Step, P2pThread, DbThread, Client, P2pStart, BcastPeers, BcastHashes,
             SendDbRequests, RecvPeer, AnswerPeer, PassGate, AnswerHash, AnswerReq,
             AnswerDoc, PollDb, AnswerPut, AnswerNew, DbStart, PeerGet, PeerIns,
             BeginUpdate, EndUpdate, ClientAdd, ClientRm, dbVars, TypeOK
    <2> QED BY <2>1, <2>2 DEF AnnounceDue
  <1>3. CASE Queued(toP2p[x], NewMsg)
    <2>1. (AnswerPut(x) \/ AnswerNew(x)) /\ Head(toP2p[x]) \in NewMsg
      BY <1>3, ToP2pStep DEF AnnounceDue
    <2>2. AnswerNew(x)
      BY <2>1 DEF AnswerPut, NewMsg
    <2>3. toBcastHashes'[x]
      BY <2>2 DEF AnswerNew, TypeOK
    <2> QED BY <2>3 DEF AnnounceDue
  <1> QED BY <1>1, <1>2, <1>3 DEF AnnounceDue

\* The p2p thread goes round its loop.
LEMMA PhasesStep ==
  ASSUME TypeOK, Phases, NEW d \in Daemons, Step(d)
  PROVE  Phases'
  <1> SUFFICES ASSUME NEW y \in Daemons
               PROVE  /\ p2pPc'[y] # "start" => dbPc'[y] # "start"
                      /\ p2pPc'[y] \in {"requests", "poll", "answer", "read"} =>
                           ~toBcastHashes'[y]
                      /\ p2pPc'[y] \in {"poll", "answer", "read"} =>
                           ~toSendDbRequests'[y]
                      /\ p2pPc'[y] \notin {"answer", "read"} => inMsg'[y] = NoMsg
                      /\ \A e \in Daemons : dbRequests'[y][e] # {} =>
                           toSendDbRequests'[y]
    BY DEF Phases
  <1>1. CASE SendDbRequests(d)
    <2> DEFINE asked == {e \in Daemons : toSendDbRequests[d]
                                         /\ dbRequests[d][e] # {}}
    <2>1. /\ dbRequests' = [dbRequests EXCEPT ![d] = [e \in Daemons |->
               IF e \in asked THEN {} ELSE dbRequests[d][e]]]
          /\ toSendDbRequests' = [toSendDbRequests EXCEPT ![d] = FALSE]
          /\ p2pPc[d] = "requests"
          /\ p2pPc' = [p2pPc EXCEPT ![d] = "poll"]
          /\ UNCHANGED <<toBcastHashes, inMsg, dbPc>>
      BY <1>1 DEF SendDbRequests, dbVars
    <2>2. CASE y = d
      <3>1. \A e \in Daemons : dbRequests'[y][e] = {}
        BY <2>1, <2>2 DEF Phases, TypeOK
      <3> QED BY <2>1, <2>2, <3>1 DEF Phases, TypeOK
    <2>3. CASE y # d
      BY <2>1, <2>3 DEF Phases, TypeOK
    <2> QED BY <2>2, <2>3
  <1>2. CASE AnswerHash(d)
    <2>1. PICK view \in HashViews(d) :
            /\ dbRequests' = [dbRequests EXCEPT
                 ![d][inMsg[d].from] = @ \cup (inMsg[d].ads \ view)]
            /\ toSendDbRequests' = [toSendDbRequests EXCEPT
                 ![d] = @ \/ (inMsg[d].ads \ view) # {}]
      BY <1>2 DEF AnswerHash
    <2> DEFINE missing == inMsg[d].ads \ view
    <2>2. /\ inMsg' = [inMsg EXCEPT ![d] = NoMsg]
          /\ p2pPc' = [p2pPc EXCEPT ![d] = IF dbInput[d] THEN "db" ELSE "flush"]
          /\ p2pPc[d] = "read"
          /\ UNCHANGED <<toBcastHashes, dbPc>>
      BY <1>2 DEF AnswerHash, Answered, dbVars
    <2>3. /\ dbRequests' = [dbRequests EXCEPT ![d][inMsg[d].from] = @ \cup missing]
          /\ toSendDbRequests' = [toSendDbRequests EXCEPT ![d] = @ \/ missing # {}]
      BY <2>1
    <2> HIDE DEF missing
    <2>4. CASE y = d
      <3>1. \A e \in Daemons : \/ dbRequests'[y][e] = dbRequests[y][e]
                               \/ dbRequests'[y][e] = dbRequests[y][e] \cup missing
        BY <2>3, <2>4 DEF TypeOK
      <3>2. toSendDbRequests'[y] = (toSendDbRequests[y] \/ missing # {})
        BY <2>3, <2>4 DEF TypeOK
      <3>3. \A e \in Daemons : dbRequests'[y][e] # {} => toSendDbRequests'[y]
        BY <3>1, <3>2 DEF Phases
      <3>4. /\ p2pPc'[y] \in {"db", "flush"} /\ p2pPc[y] = "read"
            /\ inMsg'[y] = NoMsg /\ dbPc'[y] = dbPc[y]
        BY <2>2, <2>4 DEF TypeOK
      <3> QED BY <3>3, <3>4 DEF Phases
    <2>5. CASE y # d
      BY <2>2, <2>3, <2>5 DEF Phases, TypeOK
    <2> QED BY <2>4, <2>5
  <1>3. CASE P2pThread(d) /\ ~SendDbRequests(d) /\ ~AnswerHash(d)
    <2>1. UNCHANGED <<dbPc, toSendDbRequests, dbRequests>>
      BY <1>3 DEF P2pThread, P2pStart, BcastPeers, BcastHashes, RecvPeer, AnswerPeer,
             PassGate, AnswerReq, AnswerDoc, PollDb, AnswerPut, AnswerNew, dbVars
    <2>2. CASE y = d
      <3>1. p2pPc'[d] # "start" => dbPc[d] # "start"
        BY <1>3 DEF P2pThread, P2pStart, BcastPeers, BcastHashes, RecvPeer, AnswerPeer,
             PassGate, AnswerReq, AnswerDoc, PollDb, AnswerPut, AnswerNew, GateOpen,
             Phases
      <3>2. p2pPc'[d] \in {"requests", "poll", "answer", "read"} =>
              ~toBcastHashes'[d]
        <4>1. CASE AnswerPeer(d) \/ AnswerReq(d) \/ AnswerDoc(d)
          <5>1. p2pPc'[d] \in {"db", "flush"}
            BY <4>1 DEF AnswerPeer, AnswerReq, AnswerDoc, Answered, TypeOK
          <5> QED BY <5>1
        <4>2. CASE P2pStart(d) \/ PollDb(d) \/ AnswerPut(d) \/ AnswerNew(d)
          <5>1. p2pPc'[d] \in {"db", "flush"}
            BY <4>2 DEF P2pStart, PollDb, AnswerPut, AnswerNew, TypeOK
          <5> QED BY <5>1
        <4>3. CASE BcastPeers(d)
          BY <4>3 DEF BcastPeers, TypeOK
        <4>4. CASE BcastHashes(d)
          BY <4>4 DEF BcastHashes, TypeOK
        <4>5. CASE PassGate(d) \/ \E e \in Daemons : RecvPeer(d, e)
          BY <4>5 DEF PassGate, RecvPeer, Phases, TypeOK
        <4> QED BY <1>3, <4>1, <4>2, <4>3, <4>4, <4>5 DEF P2pThread
      <3>3. p2pPc'[d] \in {"poll", "answer", "read"} => ~toSendDbRequests[d]
        BY <1>3 DEF P2pThread, P2pStart, BcastPeers, BcastHashes, RecvPeer, AnswerPeer,
             PassGate, AnswerReq, AnswerDoc, PollDb, AnswerPut, AnswerNew, Answered,
             Phases, TypeOK
      <3>4. p2pPc'[d] \notin {"answer", "read"} => inMsg'[d] = NoMsg
        BY <1>3 DEF P2pThread, P2pStart, BcastPeers, BcastHashes, RecvPeer, AnswerPeer,
             PassGate, AnswerReq, AnswerDoc, PollDb, AnswerPut, AnswerNew, Answered,
             Phases, TypeOK
      <3> QED BY <2>1, <2>2, <3>1, <3>2, <3>3, <3>4 DEF Phases
    <2>3. CASE y # d
      <3>1. /\ p2pPc'[y] = p2pPc[y] /\ toBcastHashes'[y] = toBcastHashes[y]
            /\ inMsg'[y] = inMsg[y]
        BY <1>3, <2>3
           DEF P2pThread, P2pStart, BcastPeers, BcastHashes, RecvPeer, AnswerPeer,
             PassGate, AnswerReq, AnswerDoc, PollDb, AnswerPut, AnswerNew, Answered,
             TypeOK
      <3> QED BY <2>1, <3>1 DEF Phases
    <2> QED BY <2>2, <2>3
  <1>4. CASE DbThread(d) \/ Client(d)
    <2>1. UNCHANGED p2pVars /\ dbPc'[y] \in {dbPc[y], "idle", "update", "swap"}
      BY <1>4 DEF DbThread, Client, DbStart, PeerGet, PeerIns, BeginUpdate, EndUpdate,
             ClientAdd, ClientRm, dbVars, TypeOK
    <2> QED BY <2>1 DEF p2pVars, Phases
  <1> QED BY <1>1, <1>2, <1>3, <1>4 DEF Step

\* What is listed or has been added stays stored.
LEMMA StoredStep ==
  ASSUME TypeOK, HashesCurrent, NEW d \in Daemons, Step(d), NEW a, Stored(a), Keeps(a)
  PROVE  Stored(a)'
  <1> SUFFICES ASSUME NEW y \in Daemons, a \in hashes'[y] \cup added'[y]
               PROVE  a \in db'[y]
    BY DEF Stored
  <1>1. a \in hashes[y] \cup added[y] \cup db[y] => a \in db'[y]
    BY DEF Stored, Keeps
  <1>2. hashes'[y] = hashes[y] \/ hashes'[y] = db[y]
    BY DEF Step, P2pThread, DbThread, Client, P2pStart, BcastPeers, BcastHashes,
           SendDbRequests, RecvPeer, AnswerPeer, PassGate, AnswerHash, AnswerReq,
           AnswerDoc, PollDb, AnswerPut, AnswerNew, DbStart, PeerGet, PeerIns,
           BeginUpdate, EndUpdate, ClientAdd, ClientRm, dbVars, TypeOK
  <1>3. ASSUME NEW u \in Users, ClientAdd(d, u), a \in added'[y] PROVE a \in db'[y]
    <2>1. PICK file :
            /\ db' = [db EXCEPT ![d] = @ \cup (file \ hashes[d])]
            /\ added' = [added EXCEPT ![d] = @ \cup file]
      BY <1>3 DEF ClientAdd, AddDocument, IndexDb
    <2> QED BY <1>1, <1>3, <2>1 DEF TypeOK
  <1>4. UNCHANGED added \/ \E u \in Users : ClientAdd(d, u)
    BY DEF Step, P2pThread, DbThread, Client, P2pStart, BcastPeers, BcastHashes,
           SendDbRequests, RecvPeer, AnswerPeer, PassGate, AnswerHash, AnswerReq,
           AnswerDoc, PollDb, AnswerPut, AnswerNew, DbStart, PeerGet, PeerIns,
           BeginUpdate, EndUpdate, ClientRm, dbVars
  <1> QED BY <1>1, <1>2, <1>3, <1>4

-----------------------------------------------------------------------------
(* The way of an ad.                                                       *)

\* A message is sent to each of its receivers.
LEMMA SentArrives ==
  ASSUME TypeOK, NEW d \in Daemons, NEW e \in Daemons, NEW msgs, chan' = Sent(d, msgs),
         e \in DOMAIN msgs, NEW M, msgs[e] \in M
  PROVE  Queued(chan'[d][e], M)
  <1>1. chan'[d][e] = Append(chan[d][e], msgs[e]) /\ chan[d][e] \in Seq(P2pMessage)
    BY DEF Sent, TypeOK
  <1> QED BY <1>1, QueuedNow

\* Whatever the p2p thread sees of the set that is being refilled is stored.
LEMMA ViewsStored ==
  ASSUME NEW a, Stored(a), NEW y \in Daemons, NEW view \in HashViews(y), a \in view
  PROVE  a \in db[y]
  BY DEF Stored, HashViews

\* An announcement, once the ads are listed, names every ad.
LEMMA AnnouncementBrings ==
  ASSUME TypeOK, Phases, HashesCurrent, NEW x \in Daemons, NEW y \in peers[x],
         NEW a \in db[x], BcastHashes(x), dbPc[x] \notin {"update", "swap"}
  PROVE  Queued(chan'[x][y], Brings(x, a))
  <1>1. PICK view \in [peers[x] -> HashViews(x)] :
          chan' = Sent(x, [e \in peers[x] |->
                    [type |-> "HASH", from |-> x, ads |-> view[e]]])
    BY DEF BcastHashes
  <1>2. dbPc[x] = "idle"
    BY DEF BcastHashes, Phases, TypeOK
  <1>3. view[y] = db[x]
    BY <1>1, <1>2 DEF HashViews, HashesCurrent
  <1>4. y \in Daemons /\ db[x] \in SUBSET Ads
    BY DEF TypeOK
  <1>5. [type |-> "HASH", from |-> x, ads |-> view[y]] \in Brings(x, a)
    BY <1>3, <1>4 DEF Brings, P2pMessage, HashMsg
  <1> QED BY <1>1, <1>4, <1>5, SentArrives

\* What has been announced or sent is received; what has been received is asked
\* for, or handed to the db thread, unless it is known.
LEMMA NewsStep ==
  ASSUME TypeOK, Phases, NEW d \in Daemons, Step(d),
         NEW a \in Ads, Stored(a), Keeps(a), NEW x \in Daemons, NEW y \in Daemons,
         Queued(chan[x][y], Brings(x, a)) \/ inMsg[y] \in Brings(x, a)
  PROVE  a \in db'[y] \/ OnItsWay(a, x, y)'
  <1>1. CASE Queued(chan[x][y], Brings(x, a))
    BY <1>1, LinkStep DEF OnItsWay
  <1>2. CASE inMsg[y] \in Brings(x, a)
    <2>1. /\ inMsg[y] \in P2pMessage /\ a \in inMsg[y].ads
          /\ inMsg[y].type = "DOC" \/ (inMsg[y].type = "HASH" /\ inMsg[y].from = x)
      BY <1>2 DEF Brings
    <2>2. inMsg[y].ads \in SUBSET Ads
      BY <2>1, P2pMessageFields
    <2>3. \A view \in HashViews(y) : a \in view => a \in db'[y]
      BY ViewsStored DEF Keeps
    <2>4. ASSUME AnswerHash(y) PROVE a \in db'[y] \/ OnItsWay(a, x, y)'
      <3>1. PICK view \in HashViews(y) :
              dbRequests' = [dbRequests EXCEPT
                ![y][inMsg[y].from] = @ \cup (inMsg[y].ads \ view)]
        BY <2>4 DEF AnswerHash
      <3>2. inMsg[y].from = x
        BY <2>1, <2>4 DEF AnswerHash
      <3>3. dbRequests'[y][x] = dbRequests[y][x] \cup (inMsg[y].ads \ view)
        BY <3>1, <3>2 DEF TypeOK
      <3> QED BY <2>1, <2>3, <3>3 DEF OnItsWay
    <2>5. ASSUME AnswerDoc(y) PROVE a \in db'[y] \/ OnItsWay(a, x, y)'
      <3>1. PICK view \in HashViews(y) :
              toDb' = [toDb EXCEPT ![y] =
                Append(@, [type |-> "INS", ads |-> inMsg[y].ads \ view])]
        BY <2>5 DEF AnswerDoc
      <3>2. CASE a \in view
        BY <2>3, <3>2
      <3>3. CASE a \notin view
        <4>1. [type |-> "INS", ads |-> inMsg[y].ads \ view] \in Inserts(a)
          BY <2>1, <2>2, <3>3 DEF Inserts, DbMessage, InsMsg
        <4>2. /\ toDb'[y] = Append(toDb[y],
                              [type |-> "INS", ads |-> inMsg[y].ads \ view])
              /\ toDb[y] \in Seq(DbMessage)
          BY <3>1 DEF TypeOK
        <4>3. Queued(toDb'[y], Inserts(a))
          BY <4>1, <4>2, QueuedNow
        <4> QED BY <4>3 DEF OnItsWay
      <3> QED BY <3>2, <3>3
    <2>6. inMsg[y] # NoMsg /\ ~AnswerPeer(y) /\ ~AnswerReq(y)
      BY <2>1 DEF NoMsg, AnswerPeer, AnswerReq
    <2>7. CASE inMsg'[y] = inMsg[y]
      BY <1>2, <2>7 DEF OnItsWay
    <2> QED BY <2>4, <2>5, <2>6, <2>7, InMsgStep
  <1> QED BY <1>1, <1>2

\* What has to be asked for is asked for; what is asked for is looked up.
LEMMA AskedStep ==
  ASSUME TypeOK, Phases, NEW d \in Daemons, Step(d),
         NEW a \in Ads, NEW x \in Daemons, NEW y \in Daemons,
         \/ a \in dbRequests[y][x]
         \/ Queued(chan[y][x], Asks(y, a)) \/ inMsg[x] \in Asks(y, a)
  PROVE  OnItsWay(a, x, y)'
  <1>1. CASE a \in dbRequests[y][x]
    <2>1. ASSUME SendDbRequests(y) PROVE OnItsWay(a, x, y)'
      <3> DEFINE asked == {e \in Daemons : toSendDbRequests[y]
                                           /\ dbRequests[y][e] # {}}
                 msgs == [e \in asked |-> [type |-> "REQ", from |-> y,
                                           ads |-> dbRequests[y][e]]]
      <3>1. chan' = Sent(y, msgs)
        BY <2>1 DEF SendDbRequests
      <3>2. x \in asked
        BY <1>1 DEF Phases
      <3>3. dbRequests[y][x] \in SUBSET Ads
        BY DEF TypeOK
      <3>4. [type |-> "REQ", from |-> y, ads |-> dbRequests[y][x]] \in Asks(y, a)
        BY <1>1, <3>3 DEF Asks, P2pMessage, ReqMsg
      <3>5. x \in DOMAIN msgs /\ msgs[x] \in Asks(y, a)
        BY <3>2, <3>4
      <3> HIDE DEF asked, msgs
      <3>6. Queued(chan'[y][x], Asks(y, a))
        BY <3>1, <3>5, SentArrives
      <3> QED BY <3>6 DEF OnItsWay
    <2> QED BY <1>1, <2>1, RequestsStep DEF OnItsWay
  <1>2. CASE Queued(chan[y][x], Asks(y, a))
    BY <1>2, LinkStep DEF OnItsWay
  <1>3. CASE inMsg[x] \in Asks(y, a)
    <2>1. /\ inMsg[x] \in P2pMessage /\ a \in inMsg[x].ads
          /\ inMsg[x].type = "REQ" /\ inMsg[x].from = y
      BY <1>3 DEF Asks
    <2>2. inMsg[x].ads \in SUBSET Ads
      BY <2>1, P2pMessageFields
    <2>3. ASSUME AnswerReq(x) PROVE OnItsWay(a, x, y)'
      <3>1. /\ toDb'[x] = Append(toDb[x], [type |-> "GET", from |-> y,
                                           ads |-> inMsg[x].ads])
            /\ toDb[x] \in Seq(DbMessage)
        BY <2>1, <2>3 DEF AnswerReq, TypeOK
      <3>2. [type |-> "GET", from |-> y, ads |-> inMsg[x].ads] \in Gets(y, a)
        BY <2>1, <2>2 DEF Gets, DbMessage, GetMsg
      <3>3. Queued(toDb'[x], Gets(y, a))
        BY <3>1, <3>2, QueuedNow
      <3> QED BY <3>3 DEF OnItsWay
    <2>4. inMsg[x] # NoMsg /\ ~AnswerPeer(x) /\ ~AnswerHash(x) /\ ~AnswerDoc(x)
      BY <2>1 DEF NoMsg, AnswerPeer, AnswerHash, AnswerDoc
    <2>5. CASE inMsg'[x] = inMsg[x]
      BY <1>3, <2>5 DEF OnItsWay
    <2> QED BY <2>3, <2>4, <2>5, InMsgStep
  <1> QED BY <1>1, <1>2, <1>3

\* What is looked up is found, and sent.
LEMMA LookedUpStep ==
  ASSUME TypeOK, NEW d \in Daemons, Step(d),
         NEW a \in Ads, NEW x \in Daemons, NEW y \in Daemons, a \in db[x],
         Queued(toDb[x], Gets(y, a)) \/ Queued(toP2p[x], Puts(y, a))
  PROVE  OnItsWay(a, x, y)'
  <1>1. CASE Queued(toDb[x], Gets(y, a))
    <2>1. ASSUME PeerGet(x), Head(toDb[x]) \in Gets(y, a)
          PROVE  OnItsWay(a, x, y)'
      <3> DEFINE put == [type |-> "PUT", from |-> Head(toDb[x]).from,
                         ads |-> DbGetDocs(db[x], Head(toDb[x]).ads)]
      <3>1. toP2p'[x] = Append(toP2p[x], put) /\ toP2p[x] \in Seq(NoteMessage)
        BY <2>1 DEF PeerGet, TypeOK
      <3>2. put \in Puts(y, a)
        <4>1. Head(toDb[x]).from = y /\ a \in Head(toDb[x]).ads
          BY <2>1 DEF Gets
        <4>2. a \in db[x] \cap Head(toDb[x]).ads
              /\ db[x] \cap Head(toDb[x]).ads \in SUBSET Ads
          BY <4>1 DEF TypeOK
        <4> QED BY <4>1, <4>2 DEF Puts, NoteMessage, PutMsg, DbGetDocs
      <3> HIDE DEF put
      <3>3. Queued(toP2p'[x], Puts(y, a))
        BY <3>1, <3>2, QueuedNow
      <3> QED BY <3>3 DEF OnItsWay
    <2>2. ASSUME Head(toDb[x]) \in Gets(y, a) PROVE ~PeerIns(x)
      BY <2>2 DEF Gets, PeerIns
    <2> QED BY <1>1, <2>1, <2>2, ToDbStep DEF OnItsWay
  <1>2. CASE Queued(toP2p[x], Puts(y, a))
    <2>1. ASSUME AnswerPut(x), Head(toP2p[x]) \in Puts(y, a)
          PROVE  OnItsWay(a, x, y)'
      <3> DEFINE msgs == [e \in {Head(toP2p[x]).from} |->
                            [type |-> "DOC", ads |-> Head(toP2p[x]).ads]]
      <3>1. chan' = Sent(x, msgs)
        BY <2>1 DEF AnswerPut
      <3>2. /\ Head(toP2p[x]).from = y /\ a \in Head(toP2p[x]).ads
            /\ Head(toP2p[x]).ads \in SUBSET Ads
        BY <2>1, NoteMessageFields DEF Puts
      <3>3. y \in DOMAIN msgs /\ msgs[y] \in Brings(x, a)
        BY <3>2 DEF Brings, P2pMessage, DocMsg
      <3> HIDE DEF msgs
      <3>4. Queued(chan'[x][y], Brings(x, a))
        BY <3>1, <3>3, SentArrives
      <3> QED BY <3>4 DEF OnItsWay
    <2>2. ASSUME Head(toP2p[x]) \in Puts(y, a) PROVE ~AnswerNew(x)
      BY <2>2 DEF Puts, AnswerNew
    <2> QED BY <1>2, <2>1, <2>2, ToP2pStep DEF OnItsWay
  <1> QED BY <1>1, <1>2

\* What is handed over is stored, if it is signed.
LEMMA InsertedStep ==
  ASSUME TypeOK, NEW d \in Daemons, Step(d), NEW a \in Signed, Stored(a), Keeps(a),
         NEW x \in Daemons, NEW y \in Daemons,
         Queued(toDb[y], Inserts(a))
  PROVE  a \in db'[y] \/ OnItsWay(a, x, y)'
  <1>1. ASSUME PeerIns(y), Head(toDb[y]) \in Inserts(a) PROVE a \in db'[y]
    <2>1. db' = [db EXCEPT ![y] = @ \cup {b \in Head(toDb[y]).ads \ hashes[y] :
                                            AuthorOf[b] # NoUser}]
      BY <1>1 DEF PeerIns, DbPutDocs, AddDocument
    <2>2. a \in Head(toDb[y]).ads /\ AuthorOf[a] # NoUser
      BY <1>1 DEF Inserts, Signed
    <2>3. a \in hashes[y] => a \in db[y]
      BY DEF Stored
    <2> QED BY <2>1, <2>2, <2>3 DEF TypeOK
  <1>2. ASSUME Head(toDb[y]) \in Inserts(a) PROVE ~PeerGet(y)
    BY <1>2 DEF Inserts, PeerGet
  <1> QED BY <1>1, <1>2, ToDbStep DEF OnItsWay

\* No step loses an ad on its way, unless it takes it out of a database.
LEMMA CustodyStep ==
  ASSUME TypeOK, Phases, HashesCurrent, NEW d \in Daemons, Step(d),
         NEW a \in Signed, Stored(a), Keeps(a),
         NEW x \in Daemons, NEW y \in Daemons, Custody(a, x, y)
  PROVE  Custody(a, x, y)'
  <1> SUFFICES ASSUME a \in db'[x], y \in peers'[x], a \notin db'[y], ~AnnounceDue(x)'
               PROVE  OnItsWay(a, x, y)'
    BY DEF Custody
  <1>1. a \in db[x] /\ a \notin db[y]
    BY DbStep DEF AnnounceDue, Keeps
  <1>2. y \in peers[x]
    BY PeersStep DEF AnnounceDue
  <1>3. a \in Ads
    BY DEF Signed
  <1>4. CASE AnnounceDue(x)
    <2>1. BcastHashes(x) /\ dbPc[x] \notin {"update", "swap"}
      BY <1>4, DueStep
    <2>2. Queued(chan'[x][y], Brings(x, a))
      BY <1>1, <1>2, <2>1, AnnouncementBrings
    <2> QED BY <2>2 DEF OnItsWay
  <1>5. CASE OnItsWay(a, x, y)
    BY <1>1, <1>3, <1>5, NewsStep, AskedStep, LookedUpStep, InsertedStep
       DEF OnItsWay
  <1> QED BY <1>1, <1>2, <1>4, <1>5 DEF Custody

\* So an ad that is kept goes on spreading.
LEMMA SpreadingStep ==
  ASSUME TypeOK, Phases, HashesCurrent, NEW a \in Signed, Spreading(a), Keeps(a),
         NEW d \in Daemons, Step(d)
  PROVE  Spreading(a)'
  <1>1. Stored(a)'
    BY StoredStep DEF Spreading
  <1>2. \A x, y \in Daemons : Custody(a, x, y)'
    BY CustodyStep DEF Spreading
  <1> QED BY <1>1, <1>2 DEF Spreading

-----------------------------------------------------------------------------
(* The way of an address.                                                  *)

\* A daemon that has received a list of peers is going to add them.
LEMMA SoonStep ==
  ASSUME TypeOK, Phases, NEW d \in Daemons, Step(d), NEW y \in Daemons
  PROVE  PeersSoon(y) \subseteq PeersSoon(y)'
  <1>1. CASE inMsg[y].type # "PEER"
    <2>1. PeersSoon(y) = peers[y]
      BY <1>1 DEF PeersSoon
    <2> QED BY <2>1, PeersStep DEF PeersSoon
  <1>2. CASE inMsg[y].type = "PEER"
    <2>1. PeersSoon(y) = peers[y] \cup (inMsg[y].peers \ {y})
      BY <1>2 DEF PeersSoon
    <2>2. CASE inMsg'[y] = inMsg[y]
      BY <2>1, <2>2, <1>2, PeersStep DEF PeersSoon
    <2>3. CASE AnswerPeer(y)
      <3>1. peers'[y] = peers[y] \cup (inMsg[y].peers \ ({y} \cup peers[y]))
        BY <2>3 DEF AnswerPeer, TypeOK
      <3> QED BY <2>1, <3>1 DEF PeersSoon
    <2>4. inMsg[y] # NoMsg /\ ~AnswerHash(y) /\ ~AnswerReq(y) /\ ~AnswerDoc(y)
      BY <1>2 DEF NoMsg, AnswerHash, AnswerReq, AnswerDoc
    <2> QED BY <2>2, <2>3, <2>4, InMsgStep
  <1> QED BY <1>1, <1>2

\* No step loses an address on its way.
LEMMA PeersToldStep ==
  ASSUME TypeOK, Phases, PeersTold, NEW d \in Daemons, Step(d)
  PROVE  PeersTold'
  <1> SUFFICES ASSUME NEW x \in Daemons, NEW y \in Daemons, y \in peers'[x],
                      ~toBcastPeers'[x], NEW z \in ({x} \cup peers'[x]) \ {y}
               PROVE  z \in PeersSoon(y)' \/ Queued(chan'[x][y], Naming(z))
    BY DEF PeersTold, Naming
  <1>1. peers'[x] = peers[x]
    BY PeersStep
  <1>2. CASE toBcastPeers[x]
    <2>1. BcastPeers(x)
      BY <1>2, PeersStep
    <2> DEFINE to == {e \in peers[x] : toBcastPeers[x]}
               msgs == [e \in to |-> [type |-> "PEER", peers |-> {x} \cup peers[x]]]
    <2>2. chan' = Sent(x, msgs)
      BY <2>1 DEF BcastPeers
    <2>3. peers[x] \in SUBSET Daemons
      BY DEF TypeOK
    <2>4. [type |-> "PEER", peers |-> {x} \cup peers[x]] \in Naming(z)
      BY <1>1, <2>3 DEF Naming, P2pMessage, PeerMsg
    <2>5. y \in DOMAIN msgs /\ msgs[y] \in Naming(z)
      BY <1>1, <1>2, <2>4
    <2> HIDE DEF to, msgs
    <2> QED BY <2>2, <2>5, SentArrives
  <1>3. CASE ~toBcastPeers[x]
    <2>1. CASE z \in PeersSoon(y)
      BY <2>1, SoonStep
    <2>2. CASE Queued(chan[x][y], Naming(z))
      <3>1. ASSUME inMsg'[y] \in Naming(z) PROVE z \in PeersSoon(y)'
        BY <3>1 DEF Naming, PeersSoon
      <3> QED BY <2>2, <3>1, LinkStep
    <2> QED BY <1>1, <1>3, <2>1, <2>2 DEF PeersTold
  <1> QED BY <1>2, <1>3

\* No step makes a daemon forget a peer, or take itself for one.
LEMMA PeersKeptStep ==
  ASSUME TypeOK, PeersKept, NEW d \in Daemons, Step(d)
  PROVE  PeersKept'
  <1> SUFFICES ASSUME NEW y \in Daemons
               PROVE  InitialPeers(y) \subseteq peers'[y] /\ y \notin peers'[y]
    BY DEF PeersKept, InitialPeers, DefaultPeers
  <1>1. InitialPeers(y) \subseteq peers'[y]
    BY PeersStep DEF PeersKept
  <1>2. AnswerPeer(d) \/ UNCHANGED peers
    BY DEF Step, P2pThread, DbThread, Client, P2pStart, BcastPeers, BcastHashes,
           SendDbRequests, RecvPeer, PassGate, AnswerHash, AnswerReq, AnswerDoc, PollDb,
           AnswerPut, AnswerNew, DbStart, PeerGet, PeerIns, BeginUpdate, EndUpdate,
           ClientAdd, ClientRm, p2pVars
  <1>3. CASE AnswerPeer(d)
    <2>1. peers' = [peers EXCEPT ![d] =
                      @ \cup (inMsg[d].peers \ ({d} \cup peers[d]))]
      BY <1>3 DEF AnswerPeer
    <2> QED BY <1>1, <2>1 DEF PeersKept, TypeOK
  <1>4. CASE UNCHANGED peers
    BY <1>1, <1>4 DEF PeersKept
  <1> QED BY <1>2, <1>3, <1>4

-----------------------------------------------------------------------------
(* The invariants.                                                         *)

\* They hold initially: everything is still to be announced.
LEMMA InitRestInv == Init => NetInv /\ \A a \in Signed : Spreading(a)
  <1> SUFFICES ASSUME Init PROVE NetInv /\ \A a \in Signed : Spreading(a)
    OBVIOUS
  <1>1. IInv /\ OnlyPostedAds
    BY InitIInv, InitOnlyPosted
  <1>2. HashesCurrent /\ Phases
    BY DEF Init, HashesCurrent, Phases
  <1>3. PeersTold
    BY DEF Init, PeersTold
  <1>4. PeersKept
    BY NetAssumption DEF Init, PeersKept, InitialPeers, DefaultPeers
  <1>5. \A a \in Signed : Spreading(a)
    BY DEF Init, Spreading, Stored, Custody, AnnounceDue
  <1> QED BY <1>1, <1>2, <1>3, <1>4, <1>5 DEF NetInv

\* Every step keeps the part about the network.
LEMMA StepNetInv == NetInv /\ [Next]_vars => NetInv'
  <1> SUFFICES ASSUME NetInv, [Next]_vars PROVE NetInv'
    OBVIOUS
  <1>1. IInv' /\ OnlyPostedAds' /\ HashesCurrent'
    BY StepIInv, StepOnlyPosted, StepHashesCurrent DEF NetInv, IInv
  <1>2. ASSUME NEW d \in Daemons, Step(d) PROVE Phases' /\ PeersTold' /\ PeersKept'
    BY <1>2, PhasesStep, PeersToldStep, PeersKeptStep DEF NetInv, IInv
  <1>3. CASE UNCHANGED vars
    <2>1. UNCHANGED <<p2pVars, dbPc, chan>>
      BY <1>3 DEF vars, dbVars
    <2>2. Phases'
      BY <2>1 DEF p2pVars, NetInv, Phases
    <2>3. PeersKept'
      BY <2>1 DEF p2pVars, NetInv, PeersKept, InitialPeers, DefaultPeers
    <2>4. PeersTold'
      <3> SUFFICES ASSUME NEW x \in Daemons, NEW y \in Daemons, y \in peers'[x],
                          ~toBcastPeers'[x], NEW z \in ({x} \cup peers'[x]) \ {y}
                   PROVE  z \in PeersSoon(y)' \/ Queued(chan'[x][y], Naming(z))
        BY DEF PeersTold, Naming
      <3>1. z \in PeersSoon(y) \/ Queued(chan[x][y], Naming(z))
        BY <2>1 DEF p2pVars, NetInv, PeersTold
      <3> QED BY <2>1, <3>1 DEF p2pVars, PeersSoon
    <2> QED BY <1>1, <2>2, <2>3, <2>4 DEF NetInv
  <1> QED BY <1>1, <1>2, <1>3 DEF Next, Step, NetInv

\* A step in which nothing happens keeps the part about an ad.
LEMMA StutterSpreading ==
  ASSUME UNCHANGED vars, NEW a, Spreading(a)
  PROVE  Spreading(a)'
  BY DEF vars, p2pVars, dbVars, Spreading, Stored, Custody, AnnounceDue, OnItsWay, Queued

\* Every step keeps both.
LEMMA StepRestInv == RestInv /\ [Next]_vars => RestInv'
  <1> SUFFICES ASSUME RestInv, [Next]_vars, budget'.rm = MaxRm, NEW a \in Signed
               PROVE  Spreading(a)'
    BY StepNetInv DEF RestInv
  <1>1. ASSUME NEW d \in Daemons, Step(d) PROVE Spreading(a)'
    BY <1>1, NoRmKeeps, SpreadingStep DEF RestInv, NetInv, IInv
  <1>2. CASE UNCHANGED vars
    <2>1. budget.rm = MaxRm
      BY <1>2 DEF vars, dbVars
    <2> QED BY <1>2, <2>1, StutterSpreading DEF RestInv
  <1> QED BY <1>1, <1>2 DEF Next, Step

-----------------------------------------------------------------------------
(* Networks at rest.                                                       *)

\* The --peer arguments and the default ports leave no group of daemons that
\* neither knows one of the others nor is known by one.
Connected ==
  \A S \in SUBSET Daemons :
    /\ S # {}
    /\ \A d \in Daemons : \A e \in InitialPeers(d) : d \in S <=> e \in S
    => S = Daemons

\* Daemons on the default port and those above it are connected without any
\* argument: of two, the higher one takes the lower for a peer
\* (daemon.cpp:320-324).
LEMMA PortsConnect ==
  ASSUME \A d \in Daemons : DefaultPort <= Port[d]
  PROVE  Connected
  <1> SUFFICES ASSUME NEW S \in SUBSET Daemons, S # {},
                      \A d \in Daemons : \A e \in InitialPeers(d) : d \in S <=> e \in S,
                      NEW d \in Daemons
               PROVE  d \in S
    BY DEF Connected
  <1>1. PICK e \in S : TRUE
    OBVIOUS
  <1>2. CASE Port[e] < Port[d]
    BY <1>1, <1>2 DEF InitialPeers, DefaultPeers
  <1>3. CASE Port[d] < Port[e]
    BY <1>1, <1>3 DEF InitialPeers, DefaultPeers
  <1>4. Port[e] < Port[d] \/ Port[d] < Port[e] \/ d = e
    <2>1. Port[d] \in Nat /\ Port[e] \in Nat /\ (d # e => Port[d] # Port[e])
      BY <1>1, NetAssumption
    <2> QED BY <2>1
  <1> QED BY <1>1, <1>2, <1>3, <1>4

\* At rest, a peer of a daemon has that daemon and all its other peers for peers.
LEMMA RestTold ==
  ASSUME NetInv, Quiescent, NEW x \in Daemons, NEW y \in peers[x],
         NEW z \in ({x} \cup peers[x]) \ {y}
  PROVE  z \in peers[y]
  <1>1. y \in Daemons
    BY DEF NetInv, IInv, TypeOK
  <1>2. ~toBcastPeers[x]
    BY DEF NetInv, IInv, Introductions, Held, Quiescent
  <1>3. ~Queued(chan[x][y], Naming(z))
    BY <1>1 DEF Quiescent, Queued
  <1>4. PeersSoon(y) = peers[y]
    BY <1>1 DEF NetInv, Quiescent, Phases, PeersSoon, NoMsg
  <1> QED BY <1>1, <1>2, <1>3, <1>4 DEF NetInv, PeersTold

\* So every daemon knows all the others, if they are connected at all.
LEMMA NetInvKnowsAll ==
  ASSUME Connected, NetInv
  PROVE  RestKnowsAll
  <1> SUFFICES ASSUME Quiescent, NEW d \in Daemons
               PROVE  peers[d] = Daemons \ {d}
    BY DEF RestKnowsAll
  <1> DEFINE S == {d} \cup peers[d]
  <1>1. /\ peers \in [Daemons -> SUBSET Daemons]
        /\ \A x \in Daemons : InitialPeers(x) \subseteq peers[x] /\ x \notin peers[x]
    BY DEF NetInv, IInv, TypeOK, PeersKept
  <1>2. \A x \in Daemons : \A y \in peers[x] : x \in S <=> y \in S
    <2> SUFFICES ASSUME NEW x \in Daemons, NEW y \in peers[x]
                 PROVE  x \in S <=> y \in S
      OBVIOUS
    <2>1. y \in Daemons /\ x # y
      BY <1>1
    <2>2. x \in peers[y]
      BY <2>1, RestTold
    <2>3. ASSUME NEW u \in Daemons, NEW v \in peers[u], u \in S PROVE v \in S
      <3>1. CASE u = d
        BY <3>1
      <3>2. CASE u \in peers[d]
        <4>1. d \in peers[u]
          BY <1>1, <3>2, RestTold
        <4>2. CASE v # d
          BY <1>1, <4>1, <4>2, RestTold
        <4> QED BY <4>2
      <3> QED BY <2>3, <3>1, <3>2
    <2> QED BY <2>1, <2>2, <2>3
  <1>3. S \in SUBSET Daemons /\ S # {}
    BY <1>1
  <1>4. S = Daemons
    <2> HIDE DEF S
    <2> QED BY <1>1, <1>2, <1>3 DEF Connected
  <1> QED BY <1>1, <1>4

\* "eventually all peers find each other" (doc/communication.md:44): no PEER is
\* lost or left out on the way to rest, whatever the order of the messages.
THEOREM RestIsKnown == ASSUME Connected PROVE Spec => []RestKnowsAll
  <1>1. NetInv => RestKnowsAll
    BY NetInvKnowsAll
  <1> QED BY <1>1, InitRestInv, StepNetInv, PTL DEF Spec

\* At rest no ad is on its way.
LEMMA RestDelivered ==
  ASSUME TypeOK, Phases, Quiescent, NEW a \in Ads, NEW x \in Daemons, NEW y \in Daemons
  PROVE  ~AnnounceDue(x) /\ ~OnItsWay(a, x, y)
  <1>1. ASSUME NEW M, NEW u \in Daemons, NEW v \in Daemons
        PROVE  ~Queued(chan[u][v], M) /\ ~Queued(toDb[u], M) /\ ~Queued(toP2p[u], M)
    BY DEF Quiescent, Queued
  <1>2. /\ ~toBcastHashes[x] /\ dbPc[x] = "idle"
        /\ inMsg[x] = NoMsg /\ inMsg[y] = NoMsg /\ dbRequests[y][x] = {}
    BY DEF Quiescent, Phases
  <1>3. NoMsg \notin P2pMessage
    BY DEF NoMsg, P2pMessage, PeerMsg, HashMsg, ReqMsg, DocMsg
  <1> QED BY <1>1, <1>2, <1>3 DEF AnnounceDue, OnItsWay, Brings, Asks

\* Ad a has got everywhere, if the network is at rest and somebody has added it.
RestHas(a) == Quiescent /\ a \in posted => \A d \in Daemons : a \in db[d]

\* So an ad that has been spreading is everywhere.
LEMMA SpreadingHas ==
  ASSUME Connected, NetInv, NEW a \in Signed, Spreading(a)
  PROVE  RestHas(a)
  <1> SUFFICES ASSUME Quiescent, a \in posted, NEW d \in Daemons
               PROVE  a \in db[d]
    BY DEF RestHas
  <1>1. PICK x \in Daemons : a \in added[x]
    BY DEF posted
  <1>2. a \in db[x] /\ a \in Ads
    BY <1>1 DEF Spreading, Stored, Signed
  <1>3. CASE d # x
    <2>1. d \in peers[x]
      BY <1>1, <1>3, NetInvKnowsAll DEF RestKnowsAll
    <2>2. ~AnnounceDue(x) /\ ~OnItsWay(a, x, d)
      BY <1>1, <1>2, RestDelivered DEF NetInv, IInv
    <2> QED BY <1>1, <1>2, <2>1, <2>2 DEF Spreading, Custody
  <1> QED BY <1>2, <1>3

\* "the union of all ads every peer having the same ads in their database"
\* (doc/communication.md:50): no HASH, REQ, DOC, GET, PUT, INS or NEW is lost or
\* answered too early on the way to rest, as long as nobody removes ads.
THEOREM RestIsUnion == ASSUME Connected PROVE Spec => []RestAgrees
  <1>1. RestInv => RestAgrees
    <2> SUFFICES ASSUME RestInv, Quiescent, budget.rm = MaxRm, NEW d \in Daemons
                 PROVE  db[d] \subseteq posted /\ Signed \cap posted \subseteq db[d]
      BY DEF RestAgrees
    <2>1. db[d] \subseteq posted
      BY DEF RestInv, NetInv, OnlyPostedAds
    <2>2. \A a \in Signed : RestHas(a)
      BY SpreadingHas DEF RestInv
    <2> QED BY <2>1, <2>2 DEF RestHas
  <1>2. Init => RestInv
    BY InitRestInv DEF RestInv
  <1> QED BY <1>1, <1>2, StepRestInv, PTL DEF Spec

\* The same of every signed ad that stays where it is stored, whatever becomes of
\* the others: the removal of ads, and the announcement and requests it leads to
\* (daemon_db_thread.cpp:98-107), keep no other ad from getting everywhere.
THEOREM KeptIsEverywhere ==
  ASSUME Connected, NEW a \in Signed
  PROVE  Spec /\ [][Keeps(a)]_vars => []RestHas(a)
  <1> DEFINE Inv == NetInv /\ Spreading(a)
  <1>1. Init => Inv
    BY InitRestInv
  <1>2. Inv /\ [Next]_vars /\ [Keeps(a)]_vars => Inv'
    <2> SUFFICES ASSUME Inv, [Next]_vars, [Keeps(a)]_vars PROVE Spreading(a)'
      BY StepNetInv
    <2>1. ASSUME NEW d \in Daemons, Step(d), Keeps(a) PROVE Spreading(a)'
      BY <2>1, SpreadingStep DEF NetInv, IInv
    <2>2. CASE UNCHANGED vars
      BY <2>2, StutterSpreading
    <2> QED BY <2>1, <2>2 DEF Next, Step
  <1>3. Inv => RestHas(a)
    BY SpreadingHas
  <1> QED BY <1>1, <1>2, <1>3, PTL DEF Spec
=============================================================================
