-------------------------- MODULE DaemonNetProofs --------------------------
(***************************************************************************)
(* Theorems about DaemonNet, for any set of daemons, users and ads.        *)
(***************************************************************************)
EXTENDS DaemonNet, SequenceTheorems, TLAPS

-----------------------------------------------------------------------------
(* Queues.                                                                 *)

\* What Append gives.
LEMMA AppendFacts ==
  ASSUME NEW S, NEW s \in Seq(S), NEW m \in S
  PROVE  /\ Append(s, m) \in Seq(S)
         /\ Append(s, m) # <<>>
         /\ Len(Append(s, m)) = Len(s) + 1
         /\ \A i \in 1 .. Len(s) : Append(s, m)[i] = s[i]
         /\ Append(s, m)[Len(s) + 1] = m
  OBVIOUS

\* What Head and Tail give.
LEMMA TailFacts ==
  ASSUME NEW S, NEW s \in Seq(S), s # <<>>
  PROVE  /\ Head(s) \in S
         /\ Head(s) = s[1]
         /\ Len(s) \in Nat /\ Len(s) >= 1
         /\ Tail(s) \in Seq(S)
         /\ Len(Tail(s)) = Len(s) - 1
         /\ \A i \in 1 .. Len(Tail(s)) : Tail(s)[i] = s[i + 1]
  OBVIOUS

-----------------------------------------------------------------------------
(* Messages.                                                               *)

\* What a message between peers carries, by its command.
LEMMA P2pMessageFields ==
  ASSUME NEW m \in P2pMessage \cup {NoMsg}
  PROVE  /\ m.type = "PEER" => m \in PeerMsg /\ m.peers \in SUBSET Daemons
         /\ m.type \in {"HASH", "REQ"} => m.from \in Daemons
         /\ m.type \in {"HASH", "REQ", "DOC"} => m.ads \in SUBSET Ads
         /\ m.type # "none" => m \in P2pMessage
  <1>1. CASE m \in PeerMsg BY <1>1 DEF PeerMsg, P2pMessage
  <1>2. CASE m \in HashMsg BY <1>2 DEF HashMsg, P2pMessage
  <1>3. CASE m \in ReqMsg BY <1>3 DEF ReqMsg, P2pMessage
  <1>4. CASE m \in DocMsg BY <1>4 DEF DocMsg, P2pMessage
  <1>5. CASE m = NoMsg BY <1>5 DEF NoMsg
  <1> QED BY <1>1, <1>2, <1>3, <1>4, <1>5 DEF P2pMessage

\* What a message to the db thread carries.
LEMMA DbMessageFields ==
  ASSUME NEW m \in DbMessage
  PROVE  /\ m.type = "GET" => m.from \in Daemons
         /\ m.ads \in SUBSET Ads
  <1>1. CASE m \in GetMsg BY <1>1 DEF GetMsg
  <1>2. CASE m \in InsMsg BY <1>2 DEF InsMsg
  <1> QED BY <1>1, <1>2 DEF DbMessage

\* What a message from the db thread carries.
LEMMA NoteMessageFields ==
  ASSUME NEW m \in NoteMessage
  PROVE  m.type = "PUT" => m.from \in Daemons /\ m.ads \in SUBSET Ads
  <1>1. CASE m \in PutMsg BY <1>1 DEF PutMsg
  <1>2. CASE m \in NewMsg BY <1>2 DEF NewMsg
  <1> QED BY <1>1, <1>2 DEF NoteMessage

-----------------------------------------------------------------------------
(* Type correctness.                                                       *)

\* The type invariant holds initially.
LEMMA InitTypeOK == Init => TypeOK
  <1> SUFFICES ASSUME Init PROVE TypeOK OBVIOUS
  <1> USE DEF Init
  <1>1. peers \in [Daemons -> SUBSET Daemons]
    BY NetAssumption DEF InitialPeers, DefaultPeers
  <1>2. db \in [Daemons -> SUBSET Ads]
    BY InitDbAssumption
  <1>3. added \in [Daemons -> SUBSET Ads]
    BY InitDbAssumption
  <1>4. budget \in [add : 0 .. MaxAdd, rm : 0 .. MaxRm]
    BY BoundsAssumption
  <1>5. chan \in [Daemons -> [Daemons -> Seq(P2pMessage)]]
    OBVIOUS
  <1>6. /\ toDb \in [Daemons -> Seq(DbMessage)]
        /\ toP2p \in [Daemons -> Seq(NoteMessage)]
    OBVIOUS
  <1> QED BY <1>1, <1>2, <1>3, <1>4, <1>5, <1>6 DEF TypeOK

\* Sending messages changes the links to their receivers only.
LEMMA SentLinks ==
  ASSUME TypeOK, NEW d \in Daemons, NEW to, NEW msgs, DOMAIN msgs = to
  PROVE  \A x, y \in Daemons :
           Sent(d, msgs)[x][y] = IF x = d /\ y \in to
                                   THEN Append(chan[x][y], msgs[y])
                                   ELSE chan[x][y]
  BY DEF Sent, TypeOK

\* Sending messages of the protocol keeps the type of the links.
LEMMA SentType ==
  ASSUME TypeOK, NEW d \in Daemons, NEW to \in SUBSET Daemons,
         NEW msgs \in [to -> P2pMessage]
  PROVE  Sent(d, msgs) \in [Daemons -> [Daemons -> Seq(P2pMessage)]]
  <1>1. chan \in [Daemons -> [Daemons -> Seq(P2pMessage)]]
    BY DEF TypeOK
  <1>2. \A y \in Daemons : y \in to =>
          Append(chan[d][y], msgs[y]) \in Seq(P2pMessage)
    BY <1>1, AppendFacts
  <1> QED BY <1>1, <1>2 DEF Sent

\* Every step of the p2p thread keeps the types.
LEMMA P2pTypeOK ==
  ASSUME TypeOK, NEW d \in Daemons, P2pThread(d)
  PROVE  TypeOK'
  <1> USE DEF p2pVars, dbVars
  <1>1. CASE P2pStart(d)
    BY <1>1 DEF P2pStart, TypeOK
  <1>2. CASE BcastPeers(d)
    <2> DEFINE to == {e \in peers[d] : toBcastPeers[d]}
               msgs == [e \in to |-> [type |-> "PEER",
                                      peers |-> {d} \cup peers[d]]]
    <2>1. to \in SUBSET Daemons /\ msgs \in [to -> P2pMessage]
      BY DEF TypeOK, P2pMessage, PeerMsg
    <2>2. chan' = Sent(d, msgs)
      BY <1>2 DEF BcastPeers
    <2> HIDE DEF to, msgs
    <2>3. chan' \in [Daemons -> [Daemons -> Seq(P2pMessage)]]
      BY <2>1, <2>2, SentType
    <2> QED BY <1>2, <2>3 DEF BcastPeers, TypeOK
  <1>3. CASE BcastHashes(d)
    <2>1. PICK view \in [peers[d] -> HashViews(d)] :
            chan' = Sent(d, [e \in peers[d] |->
                      [type |-> "HASH", from |-> d, ads |-> view[e]]])
      BY <1>3 DEF BcastHashes
    <2> DEFINE msgs == [e \in peers[d] |->
                          [type |-> "HASH", from |-> d, ads |-> view[e]]]
    <2>2. HashViews(d) \in SUBSET SUBSET Ads
      BY DEF HashViews, TypeOK
    <2>3. peers[d] \in SUBSET Daemons /\ msgs \in [peers[d] -> P2pMessage]
      BY <2>2 DEF TypeOK, P2pMessage, HashMsg
    <2> HIDE DEF msgs
    <2>4. chan' \in [Daemons -> [Daemons -> Seq(P2pMessage)]]
      BY <2>1, <2>3, SentType DEF msgs
    <2> QED BY <1>3, <2>4 DEF BcastHashes, TypeOK
  <1>4. CASE SendDbRequests(d)
    <2> DEFINE asked == {e \in Daemons : toSendDbRequests[d]
                                         /\ dbRequests[d][e] # {}}
               msgs == [e \in asked |-> [type |-> "REQ", from |-> d,
                                         ads |-> dbRequests[d][e]]]
    <2>1. asked \in SUBSET Daemons /\ msgs \in [asked -> P2pMessage]
      BY DEF TypeOK, P2pMessage, ReqMsg
    <2>2. chan' = Sent(d, msgs)
      BY <1>4 DEF SendDbRequests
    <2>3. dbRequests' \in [Daemons -> [Daemons -> SUBSET Ads]]
      BY <1>4 DEF SendDbRequests, TypeOK
    <2> HIDE DEF asked, msgs
    <2>4. chan' \in [Daemons -> [Daemons -> Seq(P2pMessage)]]
      BY <2>1, <2>2, SentType
    <2> QED BY <1>4, <2>3, <2>4 DEF SendDbRequests, TypeOK
  <1>5. ASSUME NEW e \in Daemons, RecvPeer(d, e) PROVE TypeOK'
    <2>1. chan[e][d] \in Seq(P2pMessage) /\ chan[e][d] # <<>>
      BY <1>5 DEF RecvPeer, TypeOK
    <2>2. Head(chan[e][d]) \in P2pMessage
          /\ Tail(chan[e][d]) \in Seq(P2pMessage)
      BY <2>1, TailFacts
    <2> QED BY <1>5, <2>2 DEF RecvPeer, TypeOK
  <1>m. inMsg[d] \in P2pMessage \cup {NoMsg}
    BY DEF TypeOK
  <1>6. CASE AnswerPeer(d)
    <2>1. inMsg[d].peers \in SUBSET Daemons
      BY <1>6, <1>m, P2pMessageFields DEF AnswerPeer
    <2> QED BY <1>6, <2>1 DEF AnswerPeer, Answered, TypeOK
  <1>7. CASE PassGate(d)
    BY <1>7 DEF PassGate, TypeOK
  <1>8. CASE AnswerHash(d)
    <2>1. inMsg[d].from \in Daemons /\ inMsg[d].ads \in SUBSET Ads
      BY <1>8, <1>m, P2pMessageFields DEF AnswerHash
    <2>2. PICK view \in HashViews(d) :
            /\ dbRequests' = [dbRequests EXCEPT ![d][inMsg[d].from] =
                                @ \cup (inMsg[d].ads \ view)]
            /\ toSendDbRequests' = [toSendDbRequests EXCEPT
                                      ![d] = @ \/ inMsg[d].ads \ view # {}]
      BY <1>8 DEF AnswerHash
    <2>3. dbRequests' \in [Daemons -> [Daemons -> SUBSET Ads]]
      BY <2>1, <2>2 DEF TypeOK
    <2>4. toSendDbRequests' \in [Daemons -> BOOLEAN]
      BY <2>2 DEF TypeOK
    <2> QED BY <1>8, <2>3, <2>4 DEF AnswerHash, Answered, TypeOK
  <1>9. CASE AnswerReq(d)
    <2>1. inMsg[d].from \in Daemons /\ inMsg[d].ads \in SUBSET Ads
      BY <1>9, <1>m, P2pMessageFields DEF AnswerReq
    <2>2. [type |-> "GET", from |-> inMsg[d].from, ads |-> inMsg[d].ads]
            \in DbMessage
      BY <2>1 DEF DbMessage, GetMsg
    <2>3. toDb' \in [Daemons -> Seq(DbMessage)]
      BY <1>9, <2>2, AppendFacts DEF AnswerReq, TypeOK
    <2> QED BY <1>9, <2>3 DEF AnswerReq, Answered, TypeOK
  <1>10. CASE AnswerDoc(d)
    <2>1. PICK view \in HashViews(d) :
            toDb' = [toDb EXCEPT ![d] =
              Append(@, [type |-> "INS", ads |-> inMsg[d].ads \ view])]
      BY <1>10 DEF AnswerDoc
    <2>2. inMsg[d].ads \in SUBSET Ads
      BY <1>10, <1>m, P2pMessageFields DEF AnswerDoc
    <2>3. [type |-> "INS", ads |-> inMsg[d].ads \ view] \in DbMessage
      BY <2>2 DEF DbMessage, InsMsg
    <2>4. toDb' \in [Daemons -> Seq(DbMessage)]
      BY <2>1, <2>3, AppendFacts DEF TypeOK
    <2> QED BY <1>10, <2>4 DEF AnswerDoc, Answered, TypeOK
  <1>11. CASE PollDb(d)
    BY <1>11 DEF PollDb, TypeOK
  <1>12. CASE AnswerPut(d)
    <2> DEFINE m == Head(toP2p[d])
               to == {m.from}
               msgs == [e \in to |-> [type |-> "DOC", ads |-> m.ads]]
    <2>1. toP2p[d] \in Seq(NoteMessage) /\ toP2p[d] # <<>>
      BY <1>12 DEF AnswerPut, TypeOK
    <2>2. m \in NoteMessage /\ Tail(toP2p[d]) \in Seq(NoteMessage)
      BY <2>1, TailFacts
    <2>3. m.from \in Daemons /\ m.ads \in SUBSET Ads
      BY <1>12, <2>2, NoteMessageFields DEF AnswerPut
    <2>4. to \in SUBSET Daemons /\ msgs \in [to -> P2pMessage]
      BY <2>3 DEF P2pMessage, DocMsg
    <2>5. chan' = Sent(d, msgs)
      BY <1>12 DEF AnswerPut
    <2> HIDE DEF m, to, msgs
    <2>6. chan' \in [Daemons -> [Daemons -> Seq(P2pMessage)]]
      BY <2>4, <2>5, SentType
    <2> QED BY <1>12, <2>2, <2>6 DEF AnswerPut, TypeOK
  <1>13. CASE AnswerNew(d)
    <2>1. toP2p[d] \in Seq(NoteMessage) /\ toP2p[d] # <<>>
      BY <1>13 DEF AnswerNew, TypeOK
    <2>2. Tail(toP2p[d]) \in Seq(NoteMessage)
      BY <2>1, TailFacts
    <2> QED BY <1>13, <2>2 DEF AnswerNew, TypeOK
  <1> QED BY <1>1, <1>2, <1>3, <1>4, <1>5, <1>6, <1>7, <1>8, <1>9, <1>10,
             <1>11, <1>12, <1>13 DEF P2pThread

\* Every step of the db thread and of a client keeps the types.
LEMMA DbTypeOK ==
  ASSUME TypeOK, NEW d \in Daemons, DbThread(d) \/ Client(d)
  PROVE  TypeOK'
  <1> USE DEF p2pVars
  <1>1. CASE DbStart(d)
    BY <1>1 DEF DbStart, TypeOK
  <1>2. ASSUME NEW u \in Users, ClientAdd(d, u) PROVE TypeOK'
    <2>1. PICK file \in SUBSET {a \in Ads : PosterOf[a] = u} :
            /\ db' = [db EXCEPT ![d] = @ \cup (file \ hashes[d])]
            /\ added' = [added EXCEPT ![d] = @ \cup file]
      BY <1>2 DEF ClientAdd, AddDocument, IndexDb
    <2>2. budget' \in [add : 0 .. MaxAdd, rm : 0 .. MaxRm]
      <3>1. /\ budget \in [add : 0 .. MaxAdd, rm : 0 .. MaxRm]
            /\ budget' = [budget EXCEPT !.add = @ - 1]
            /\ budget.add > 0
        BY <1>2 DEF ClientAdd, TypeOK
      <3>2. budget.add \in 0 .. MaxAdd /\ budget.rm \in 0 .. MaxRm
        BY <3>1
      <3>3. budget.add - 1 \in 0 .. MaxAdd
        BY <3>1, <3>2, BoundsAssumption
      <3>4. budget' = [add |-> budget.add - 1,
                       rm |-> budget.rm]
        BY <3>1
      <3> QED BY <3>2, <3>3, <3>4
    <2> QED BY <1>2, <2>1, <2>2 DEF ClientAdd, TypeOK
  <1>3. ASSUME NEW u \in Users, ClientRm(d, u) PROVE TypeOK'
    <2>1. PICK gone : db' = [db EXCEPT ![d] = @ \ gone]
      BY <1>3 DEF ClientRm, DbRmDocs
    <2>2. budget' \in [add : 0 .. MaxAdd, rm : 0 .. MaxRm]
      <3>1. /\ budget \in [add : 0 .. MaxAdd, rm : 0 .. MaxRm]
            /\ budget' = [budget EXCEPT !.rm = @ - 1]
            /\ budget.rm > 0
        BY <1>3 DEF ClientRm, TypeOK
      <3>2. budget.add \in 0 .. MaxAdd /\ budget.rm \in 0 .. MaxRm
        BY <3>1
      <3>3. budget.rm - 1 \in 0 .. MaxRm
        BY <3>1, <3>2, BoundsAssumption
      <3>4. budget' = [add |-> budget.add,
                       rm |-> budget.rm - 1]
        BY <3>1
      <3> QED BY <3>2, <3>3, <3>4
    <2> QED BY <1>3, <2>1, <2>2 DEF ClientRm, TypeOK
  <1>4. CASE PeerGet(d)
    <2> DEFINE m == Head(toDb[d])
    <2>1. toDb[d] \in Seq(DbMessage) /\ toDb[d] # <<>>
      BY <1>4 DEF PeerGet, TypeOK
    <2>2. m \in DbMessage /\ Tail(toDb[d]) \in Seq(DbMessage)
      BY <2>1, TailFacts
    <2>3. m.from \in Daemons /\ m.ads \in SUBSET Ads
      BY <1>4, <2>2, DbMessageFields DEF PeerGet
    <2>4. [type |-> "PUT", from |-> m.from, ads |-> DbGetDocs(db[d], m.ads)]
            \in NoteMessage
      BY <2>3 DEF NoteMessage, PutMsg, DbGetDocs
    <2> HIDE DEF m
    <2>5. toP2p' \in [Daemons -> Seq(NoteMessage)]
      BY <1>4, <2>4, AppendFacts DEF PeerGet, TypeOK, m
    <2> QED BY <1>4, <2>2, <2>5 DEF PeerGet, dbVars, TypeOK
  <1>5. CASE PeerIns(d)
    <2>1. toDb[d] \in Seq(DbMessage) /\ toDb[d] # <<>>
      BY <1>5 DEF PeerIns, TypeOK
    <2>2. Head(toDb[d]) \in DbMessage /\ Tail(toDb[d]) \in Seq(DbMessage)
      BY <2>1, TailFacts
    <2>3. Head(toDb[d]).ads \in SUBSET Ads
      BY <2>2, DbMessageFields
    <2> QED BY <1>5, <2>2, <2>3 DEF PeerIns, DbPutDocs, AddDocument, TypeOK
  <1>6. CASE BeginUpdate(d)
    BY <1>6 DEF BeginUpdate, TypeOK
  <1>7. CASE EndUpdate(d)
    <2>1. [type |-> "NEW"] \in NoteMessage
      BY DEF NoteMessage, NewMsg
    <2>2. toP2p' \in [Daemons -> Seq(NoteMessage)]
      BY <1>7, <2>1, AppendFacts DEF EndUpdate, TypeOK
    <2> QED BY <1>7, <2>2 DEF EndUpdate, TypeOK
  <1> QED BY <1>1, <1>2, <1>3, <1>4, <1>5, <1>6, <1>7 DEF DbThread, Client

\* Every variable keeps its type (daemon.cpp:516-521, the message formats of
\* daemon_p2p_thread.cpp and daemon_db_thread.cpp).
THEOREM TypeCorrect == Spec => []TypeOK
  <1>1. TypeOK /\ [Next]_vars => TypeOK'
    <2>1. TypeOK /\ UNCHANGED vars => TypeOK'
      BY DEF TypeOK, vars, p2pVars, dbVars
    <2> QED BY <2>1, P2pTypeOK, DbTypeOK DEF Next
  <1> QED BY <1>1, InitTypeOK, PTL DEF Spec

-----------------------------------------------------------------------------
(* Every daemon knows the peers it asks and answers.                       *)

IInv == TypeOK /\ Introductions /\ PeersKnown

\* The strengthened invariant holds initially.
LEMMA InitIInv == Init => IInv
  <1> SUFFICES ASSUME Init PROVE IInv OBVIOUS
  <1>1. TypeOK BY InitTypeOK
  <1>2. \A d \in Daemons : d \notin InitialPeers(d)
    BY NetAssumption DEF InitialPeers, DefaultPeers
  <1>3. \A d \in Daemons : Held(d)
    BY <1>2 DEF Init, Held, NoMsg
  <1>4. \A x, y \in Daemons : Link(x, y)
    BY DEF Init, Link
  <1>5. PeersKnown
    BY DEF Init, PeersKnown
  <1> QED BY <1>1, <1>3, <1>4, <1>5 DEF IInv, Introductions

\* Introductions last when nothing is received and peers are only added.
LEMMA StillIntroduced ==
  ASSUME TypeOK, \A x, y \in Daemons : Link(x, y), UNCHANGED chan,
         \A y \in Daemons : PeersSoon(y) \subseteq PeersSoon(y)',
         \A x \in Daemons : \/ toBcastPeers'[x]
                            \/ /\ peers'[x] = peers[x]
                               /\ toBcastPeers'[x] = toBcastPeers[x]
  PROVE  \A x, y \in Daemons : Link(x, y)'
  <1> SUFFICES ASSUME NEW x \in Daemons, NEW y \in Daemons PROVE Link(x, y)'
    OBVIOUS
  <1>1. \A n : Introduced(x, y, n) => Introduced(x, y, n)'
    BY DEF Introduced
  <1>2. Link(x, y) OBVIOUS
  <1> QED BY <1>1, <1>2 DEF Link

\* Introductions last when a daemon sends: a HASH or a REQ only to a peer, when
\* its own address has been told to all its peers.
LEMMA SentIntroduced ==
  ASSUME TypeOK, \A x, y \in Daemons : Link(x, y),
         NEW d \in Daemons, NEW to \in SUBSET peers[d],
         NEW msgs \in [to -> P2pMessage],
         chan' = Sent(d, msgs), UNCHANGED <<peers, inMsg>>,
         d \notin peers[d],
         \A x \in Daemons \ {d} : toBcastPeers'[x] = toBcastPeers[x],
         ~toBcastPeers'[d] =>
           \/ ~toBcastPeers[d]
           \/ \A e \in peers[d] : e \in to /\ msgs[e].type = "PEER",
         \A e \in to : msgs[e].type = "PEER" => d \in msgs[e].peers,
         \A e \in to : msgs[e].type \in {"HASH", "REQ"} =>
           msgs[e].from = d /\ ~toBcastPeers[d]
  PROVE  \A x, y \in Daemons : Link(x, y)'
  <1> SUFFICES ASSUME NEW x \in Daemons, NEW y \in Daemons PROVE Link(x, y)'
    OBVIOUS
  <1>2. chan'[x][y] = IF x = d /\ y \in to THEN Append(chan[x][y], msgs[y])
                                          ELSE chan[x][y]
    <2>1. \A a, b \in Daemons :
            Sent(d, msgs)[a][b] = IF a = d /\ b \in to
                                    THEN Append(chan[a][b], msgs[b])
                                    ELSE chan[a][b]
      <3>1. DOMAIN msgs = to OBVIOUS
      <3> QED BY <3>1, SentLinks
    <2> QED BY <2>1
  <1>3. PeersSoon(y)' = PeersSoon(y)
    BY DEF PeersSoon
  <1>4. Link(x, y) OBVIOUS
  <1>5. CASE x = d /\ y \in to
    <2>1. chan[x][y] \in Seq(P2pMessage) /\ msgs[y] \in P2pMessage
      BY <1>5 DEF TypeOK
    <2> PICK n \in Nat : n = Len(chan[x][y])
      BY <2>1
    <2>2. /\ chan'[x][y] # <<>>
          /\ Len(chan'[x][y]) = n + 1
          /\ \A i \in 1 .. n : chan'[x][y][i] = chan[x][y][i]
          /\ chan'[x][y][n + 1] = msgs[y]
      BY <1>2, <1>5, <2>1, AppendFacts
    <2>3. \A k \in 0 .. n : Introduced(x, y, k) => Introduced(x, y, k)'
      BY <1>3, <2>2 DEF Introduced
    <2>4. Introduced(x, y, n)' => Introduced(x, y, n + 1)'
      BY DEF Introduced
    <2>5. ~toBcastPeers[d] => Introduced(x, y, n)'
      <3>1. ~toBcastPeers[d] => Introduced(x, y, n)
        BY <1>4, <1>5 DEF Link
      <3> QED BY <2>3, <3>1
    <2>6. msgs[y].type = "PEER" => Introduced(x, y, n + 1)'
      BY <2>2 DEF Introduced
    <2>7. ~toBcastPeers'[d] => Introduced(x, y, n + 1)'
      BY <1>5, <2>4, <2>5, <2>6
    <2>8. ASSUME NEW i \in 1 .. n
          PROVE  /\ chan'[x][y][i].type = "PEER" => x \in chan'[x][y][i].peers
                 /\ chan'[x][y][i].type \in {"HASH", "REQ"} =>
                      chan'[x][y][i].from = x /\ Introduced(x, y, i - 1)'
      <3>1. i - 1 \in 0 .. n
        OBVIOUS
      <3>2. chan'[x][y][i] = chan[x][y][i]
        BY <2>2
      <3>3. /\ chan[x][y][i].type = "PEER" => x \in chan[x][y][i].peers
            /\ chan[x][y][i].type \in {"HASH", "REQ"} =>
                 chan[x][y][i].from = x /\ Introduced(x, y, i - 1)
        BY <1>4 DEF Link
      <3> QED BY <2>3, <3>1, <3>2, <3>3
    <2>9. ASSUME NEW i \in 1 .. n + 1
          PROVE  /\ chan'[x][y][i].type = "PEER" => x \in chan'[x][y][i].peers
                 /\ chan'[x][y][i].type \in {"HASH", "REQ"} =>
                      chan'[x][y][i].from = x /\ Introduced(x, y, i - 1)'
      <3>1. CASE i \in 1 .. n
        BY <3>1, <2>8
      <3>2. CASE i = n + 1
        <4>1. chan'[x][y][i] = msgs[y]
          BY <2>2, <3>2
        <4>2. i - 1 = n
          BY <3>2
        <4> HIDE <3>2
        <4>3. ~toBcastPeers[d] => Introduced(x, y, i - 1)'
          BY <2>5, <4>2
        <4> QED BY <1>5, <4>1, <4>3
      <3> QED BY <3>1, <3>2
    <2>10. x # y
      BY <1>5
    <2>11. Len(chan[x][y])' = n + 1
      BY <2>2
    <2> QED BY <2>2, <2>7, <2>9, <2>10, <2>11, <1>5 DEF Link
  <1>6. CASE ~(x = d /\ y \in to)
    <2>1. chan'[x][y] = chan[x][y]
      BY <1>2, <1>6
    <2>2. \A n : Introduced(x, y, n) => Introduced(x, y, n)'
      BY <1>3, <2>1 DEF Introduced
    <2>3. y \in peers'[x] /\ ~toBcastPeers'[x] =>
            y \in peers[x] /\ ~toBcastPeers[x]
      BY <1>6
    <2> QED BY <1>4, <2>1, <2>2, <2>3 DEF Link
  <1> QED BY <1>5, <1>6

\* Introductions last when the first message of a link is received: a PEER is
\* replaced by the peers it is about to add.
LEMMA RecvIntroduced ==
  ASSUME IInv, NEW d \in Daemons, NEW e \in Daemons, RecvPeer(d, e)
  PROVE  /\ \A x, y \in Daemons : Link(x, y)'
         /\ \A y \in Daemons : Held(y)'
  <1> DEFINE m == Head(chan[e][d])
  <1>0. /\ TypeOK
        /\ \A y \in Daemons : Held(y)
        /\ \A x, y \in Daemons : Link(x, y)
    BY DEF IInv, Introductions
  <1>1. chan[e][d] \in Seq(P2pMessage) /\ chan[e][d] # <<>>
    BY <1>0 DEF RecvPeer, TypeOK
  <1>2. PICK n \in Nat : n = Len(chan[e][d]) /\ n >= 1
    BY <1>1, TailFacts
  <1>3. /\ chan'[e][d] = Tail(chan[e][d])
        /\ \A x, y \in Daemons : ~(x = e /\ y = d) => chan'[x][y] = chan[x][y]
    BY <1>0 DEF RecvPeer, TypeOK
  <1>4. /\ m = chan[e][d][1] /\ m \in P2pMessage
        /\ Len(chan'[e][d]) = n - 1
        /\ \A i \in 1 .. n - 1 : chan'[e][d][i] = chan[e][d][i + 1]
    BY <1>1, <1>2, <1>3, TailFacts
  <1>5. /\ inMsg'[d] = m /\ inMsg[d] = NoMsg
        /\ \A y \in Daemons : y # d => inMsg'[y] = inMsg[y]
        /\ UNCHANGED <<peers, toBcastPeers>>
    BY <1>0 DEF RecvPeer, TypeOK, Held
  <1> HIDE DEF m
  <1>6. PeersSoon(d) = peers[d]
    BY <1>5 DEF PeersSoon, NoMsg
  <1>7. \A y \in Daemons : PeersSoon(y) \subseteq PeersSoon(y)'
    BY <1>5, <1>6 DEF PeersSoon
  <1>8. m.type = "PEER" => e \in PeersSoon(d)'
    <2>1. e # d
      BY <1>0, <1>1 DEF Link
    <2>2. m.type = "PEER" => e \in m.peers
      BY <1>0, <1>2, <1>4 DEF Link
    <2> QED BY <1>5, <2>1, <2>2 DEF PeersSoon
  <1>9. \A k \in 1 .. n : Introduced(e, d, k) => Introduced(e, d, k - 1)'
    <2> SUFFICES ASSUME NEW k \in 1 .. n, Introduced(e, d, k)
                 PROVE  Introduced(e, d, k - 1)'
      OBVIOUS
    <2>1. CASE e \in PeersSoon(d)
      BY <2>1, <1>7 DEF Introduced
    <2>2. ASSUME NEW i \in 1 .. k, chan[e][d][i].type = "PEER"
          PROVE  Introduced(e, d, k - 1)'
      <3>1. CASE i = 1
        BY <2>2, <3>1, <1>4, <1>8 DEF Introduced
      <3>2. CASE i # 1
        <4>1. i - 1 \in 1 .. k - 1 /\ i - 1 \in 1 .. n - 1 /\ (i - 1) + 1 = i
          BY <3>2
        <4>2. chan'[e][d][i - 1] = chan[e][d][i]
          BY <1>4, <4>1
        <4> QED BY <2>2, <4>1, <4>2 DEF Introduced
      <3> QED BY <3>1, <3>2
    <2> QED BY <2>1, <2>2 DEF Introduced
  <1>10. ASSUME NEW x \in Daemons, NEW y \in Daemons PROVE Link(x, y)'
    <2>1. CASE x = e /\ y = d
      <3>1. d \in peers'[e] /\ ~toBcastPeers'[e] => Introduced(e, d, n - 1)'
        BY <1>0, <1>2, <1>5, <1>9 DEF Link
      <3>2. ASSUME NEW i \in 1 .. n - 1
            PROVE  /\ chan'[e][d][i].type = "PEER" =>
                        e \in chan'[e][d][i].peers
                   /\ chan'[e][d][i].type \in {"HASH", "REQ"} =>
                        /\ chan'[e][d][i].from = e
                        /\ Introduced(e, d, i - 1)'
        <4>1. i + 1 \in 1 .. n /\ i \in 1 .. n /\ (i + 1) - 1 = i
          OBVIOUS
        <4>2. chan'[e][d][i] = chan[e][d][i + 1]
          BY <1>4
        <4>3. /\ chan[e][d][i + 1].type = "PEER" =>
                   e \in chan[e][d][i + 1].peers
              /\ chan[e][d][i + 1].type \in {"HASH", "REQ"} =>
                   chan[e][d][i + 1].from = e /\ Introduced(e, d, i)
          BY <1>0, <1>2, <4>1 DEF Link
        <4> QED BY <1>9, <4>1, <4>2, <4>3
      <3>3. e # d
        BY <1>0, <1>1 DEF Link
      <3>4. Len(chan[e][d])' = n - 1
        BY <1>4
      <3> QED BY <2>1, <3>1, <3>2, <3>3, <3>4 DEF Link
    <2>2. CASE ~(x = e /\ y = d)
      <3>1. chan'[x][y] = chan[x][y]
        BY <1>3, <2>2
      <3>2. \A k : Introduced(x, y, k) => Introduced(x, y, k)'
        BY <1>7, <3>1 DEF Introduced
      <3> QED BY <1>0, <1>5, <3>1, <3>2 DEF Link
    <2> QED BY <2>1, <2>2
  <1>11. m.type \in {"HASH", "REQ"} => m.from \in peers[d]
    <2>1. m.type \in {"HASH", "REQ"} => m.from = e /\ Introduced(e, d, 0)
      BY <1>0, <1>2, <1>4 DEF Link
    <2>2. Introduced(e, d, 0) => e \in peers[d]
      BY <1>6 DEF Introduced
    <2> QED BY <2>1, <2>2
  <1>12. ASSUME NEW y \in Daemons PROVE Held(y)'
    <2>1. CASE y = d
      <3>1. p2pPc'[d] = "answer" /\ p2pPc[d] = "poll"
        BY <1>0 DEF RecvPeer, TypeOK
      <3> QED BY <1>0, <1>5, <1>11, <2>1, <3>1 DEF Held
    <2>2. CASE y # d
      <3>1. p2pPc'[y] = p2pPc[y]
        BY <1>0, <2>2 DEF RecvPeer, TypeOK
      <3> QED BY <1>0, <1>5, <2>2, <3>1 DEF Held
    <2> QED BY <2>1, <2>2
  <1> QED BY <1>10, <1>12

\* Every step of the p2p thread keeps the introductions.
LEMMA P2pIntroductions ==
  ASSUME IInv, NEW d \in Daemons, P2pThread(d)
  PROVE  Introductions'
  <1>0. /\ TypeOK /\ PeersKnown
        /\ \A y \in Daemons : Held(y)
        /\ \A x, y \in Daemons : Link(x, y)
    BY DEF IInv, Introductions
  <1>1. CASE P2pStart(d)
    <2>1. \A x, y \in Daemons : Link(x, y)'
      BY <1>0, <1>1, StillIntroduced DEF P2pStart, PeersSoon
    <2>2. \A y \in Daemons : Held(y)'
      BY <1>0, <1>1 DEF P2pStart, Held, TypeOK
    <2> QED BY <2>1, <2>2 DEF Introductions
  <1>2. CASE BcastPeers(d)
    <2> DEFINE to == {e \in peers[d] : toBcastPeers[d]}
               msgs == [e \in to |-> [type |-> "PEER",
                                      peers |-> {d} \cup peers[d]]]
    <2>1. to \in SUBSET peers[d] /\ msgs \in [to -> P2pMessage]
      BY <1>0 DEF TypeOK, P2pMessage, PeerMsg
    <2>2. \A e \in to : msgs[e].type = "PEER" /\ d \in msgs[e].peers
      OBVIOUS
    <2>3. toBcastPeers[d] => to = peers[d]
      OBVIOUS
    <2>4. /\ chan' = Sent(d, msgs)
          /\ UNCHANGED <<peers, inMsg>>
          /\ toBcastPeers'[d] = FALSE
          /\ \A x \in Daemons \ {d} : toBcastPeers'[x] = toBcastPeers[x]
      BY <1>0, <1>2 DEF BcastPeers, TypeOK
    <2>5. d \notin peers[d]
      BY <1>0 DEF Held
    <2> HIDE DEF to, msgs
    <2>6. \A x, y \in Daemons : Link(x, y)'
      BY <1>0, <2>1, <2>2, <2>3, <2>4, <2>5, SentIntroduced
    <2>7. \A y \in Daemons : Held(y)'
      BY <1>0, <1>2, <2>4 DEF BcastPeers, Held, TypeOK
    <2> QED BY <2>6, <2>7 DEF Introductions
  <1>3. CASE BcastHashes(d)
    <2>1. PICK view \in [peers[d] -> HashViews(d)] :
            chan' = Sent(d, [e \in peers[d] |->
                      [type |-> "HASH", from |-> d, ads |-> view[e]]])
      BY <1>3 DEF BcastHashes
    <2> DEFINE msgs == [e \in peers[d] |->
                          [type |-> "HASH", from |-> d, ads |-> view[e]]]
    <2>2. HashViews(d) \in SUBSET SUBSET Ads
      BY <1>0 DEF HashViews, TypeOK
    <2>3. msgs \in [peers[d] -> P2pMessage]
      BY <1>0, <2>2 DEF TypeOK, P2pMessage, HashMsg
    <2>4. \A e \in peers[d] : msgs[e].type = "HASH" /\ msgs[e].from = d
      OBVIOUS
    <2>5. /\ chan' = Sent(d, msgs)
          /\ UNCHANGED <<peers, inMsg, toBcastPeers>>
      BY <1>3, <2>1 DEF BcastHashes
    <2>6. d \notin peers[d] /\ ~toBcastPeers[d]
      BY <1>0, <1>3 DEF Held, BcastHashes
    <2> HIDE DEF msgs
    <2>7. \A x, y \in Daemons : Link(x, y)'
      BY <1>0, <2>3, <2>4, <2>5, <2>6, SentIntroduced
    <2>8. \A y \in Daemons : Held(y)'
      BY <1>0, <1>3 DEF BcastHashes, Held, TypeOK
    <2> QED BY <2>7, <2>8 DEF Introductions
  <1>4. CASE SendDbRequests(d)
    <2> DEFINE asked == {e \in Daemons : toSendDbRequests[d]
                                         /\ dbRequests[d][e] # {}}
               msgs == [e \in asked |-> [type |-> "REQ", from |-> d,
                                         ads |-> dbRequests[d][e]]]
    <2>1. msgs \in [asked -> P2pMessage]
      BY <1>0 DEF TypeOK, P2pMessage, ReqMsg
    <2>2. \A e \in asked : msgs[e].type = "REQ" /\ msgs[e].from = d
      OBVIOUS
    <2>3. /\ asked \in SUBSET peers[d]
          /\ chan' = Sent(d, msgs)
          /\ UNCHANGED <<peers, inMsg, toBcastPeers>>
      BY <1>4 DEF SendDbRequests
    <2>4. d \notin peers[d] /\ ~toBcastPeers[d]
      BY <1>0, <1>4 DEF Held, SendDbRequests
    <2> HIDE DEF asked, msgs
    <2>5. \A x, y \in Daemons : Link(x, y)'
      BY <1>0, <2>1, <2>2, <2>3, <2>4, SentIntroduced
    <2>6. \A y \in Daemons : Held(y)'
      BY <1>0, <1>4 DEF SendDbRequests, Held, TypeOK
    <2> QED BY <2>5, <2>6 DEF Introductions
  <1>5. ASSUME NEW e \in Daemons, RecvPeer(d, e) PROVE Introductions'
    BY <1>5, RecvIntroduced DEF Introductions
  <1>6. CASE AnswerPeer(d)
    <2> DEFINE found == inMsg[d].peers \ ({d} \cup peers[d])
    <2>1. /\ peers' = [peers EXCEPT ![d] = @ \cup found]
          /\ toBcastPeers' = [toBcastPeers EXCEPT ![d] = @ \/ found # {}]
          /\ inMsg' = [inMsg EXCEPT ![d] = NoMsg]
          /\ inMsg[d].type = "PEER" /\ p2pPc[d] = "answer"
          /\ p2pPc' = [p2pPc EXCEPT ![d] = IF dbInput[d] THEN "db" ELSE "flush"]
          /\ UNCHANGED chan
      BY <1>6 DEF AnswerPeer, Answered
    <2>2. \A y \in Daemons : PeersSoon(y) \subseteq PeersSoon(y)'
      BY <1>0, <2>1 DEF PeersSoon, TypeOK, NoMsg
    <2>3. \A x \in Daemons : \/ toBcastPeers'[x]
                             \/ /\ peers'[x] = peers[x]
                                /\ toBcastPeers'[x] = toBcastPeers[x]
      BY <1>0, <2>1 DEF TypeOK
    <2>4. \A x, y \in Daemons : Link(x, y)'
      BY <1>0, <2>1, <2>2, <2>3, StillIntroduced
    <2>5. \A y \in Daemons : Held(y)'
      <3> SUFFICES ASSUME NEW y \in Daemons PROVE Held(y)'
        OBVIOUS
      <3>1. CASE y = d
        BY <1>0, <2>1, <3>1 DEF Held, TypeOK, NoMsg
      <3>2. CASE y # d
        BY <1>0, <2>1, <3>2 DEF Held, TypeOK
      <3> QED BY <3>1, <3>2
    <2> QED BY <2>4, <2>5 DEF Introductions
  <1>7. CASE PassGate(d)
    <2>1. \A x, y \in Daemons : Link(x, y)'
      BY <1>0, <1>7, StillIntroduced DEF PassGate, PeersSoon
    <2>2. \A y \in Daemons : Held(y)'
      BY <1>0, <1>7 DEF PassGate, Held, TypeOK
    <2> QED BY <2>1, <2>2 DEF Introductions
  <1>8. CASE AnswerHash(d) \/ AnswerReq(d) \/ AnswerDoc(d)
    <2>1. /\ inMsg[d].type # "PEER"
          /\ inMsg' = [inMsg EXCEPT ![d] = NoMsg]
          /\ p2pPc' = [p2pPc EXCEPT ![d] = IF dbInput[d] THEN "db" ELSE "flush"]
          /\ UNCHANGED <<chan, peers, toBcastPeers>>
      BY <1>8 DEF AnswerHash, AnswerReq, AnswerDoc, Answered
    <2>2. \A x, y \in Daemons : Link(x, y)'
      BY <1>0, <2>1, StillIntroduced DEF PeersSoon, TypeOK
    <2>3. \A y \in Daemons : Held(y)'
      BY <1>0, <2>1 DEF Held, TypeOK, NoMsg
    <2> QED BY <2>2, <2>3 DEF Introductions
  <1>9. CASE PollDb(d)
    <2>1. \A x, y \in Daemons : Link(x, y)'
      BY <1>0, <1>9, StillIntroduced DEF PollDb, PeersSoon
    <2>2. \A y \in Daemons : Held(y)'
      BY <1>0, <1>9 DEF PollDb, Held, TypeOK
    <2> QED BY <2>1, <2>2 DEF Introductions
  <1>10. CASE AnswerPut(d)
    <2> DEFINE m == Head(toP2p[d])
               to == {m.from}
               msgs == [e \in to |-> [type |-> "DOC", ads |-> m.ads]]
    <2>1. toP2p[d] \in Seq(NoteMessage) /\ toP2p[d] # <<>>
      BY <1>0, <1>10 DEF AnswerPut, TypeOK
    <2>2. m.ads \in SUBSET Ads
      BY <1>10, <2>1, TailFacts, NoteMessageFields DEF AnswerPut
    <2>3. msgs \in [to -> P2pMessage]
      BY <2>2 DEF P2pMessage, DocMsg
    <2>4. \A e \in to : msgs[e].type = "DOC"
      OBVIOUS
    <2>5. /\ to \in SUBSET peers[d]
          /\ chan' = Sent(d, msgs)
          /\ UNCHANGED <<peers, inMsg, toBcastPeers>>
      BY <1>10 DEF AnswerPut
    <2>6. d \notin peers[d]
      BY <1>0 DEF Held
    <2> HIDE DEF m, to, msgs
    <2>7. \A x, y \in Daemons : Link(x, y)'
      BY <1>0, <2>3, <2>4, <2>5, <2>6, SentIntroduced
    <2>8. \A y \in Daemons : Held(y)'
      BY <1>0, <1>10 DEF AnswerPut, Held, TypeOK
    <2> QED BY <2>7, <2>8 DEF Introductions
  <1>11. CASE AnswerNew(d)
    <2>1. \A x, y \in Daemons : Link(x, y)'
      BY <1>0, <1>11, StillIntroduced DEF AnswerNew, PeersSoon
    <2>2. \A y \in Daemons : Held(y)'
      BY <1>0, <1>11 DEF AnswerNew, Held, TypeOK
    <2> QED BY <2>1, <2>2 DEF Introductions
  <1> QED BY <1>1, <1>2, <1>3, <1>4, <1>5, <1>6, <1>7, <1>8, <1>9, <1>10,
             <1>11 DEF P2pThread

\* The db thread and the clients leave peers and their links alone.
LEMMA DbIntroductions ==
  ASSUME IInv, NEW d \in Daemons, DbThread(d) \/ Client(d)
  PROVE  Introductions'
  <1>1. UNCHANGED <<p2pVars, chan>>
    BY DEF DbThread, Client, DbStart, PeerGet, PeerIns, BeginUpdate, EndUpdate,
           ClientAdd, ClientRm
  <1> QED BY <1>1 DEF IInv, Introductions, Held, Link, Introduced, PeersSoon,
                      p2pVars

\* The messages of one kind in a queue name daemons of P only.
FromIn(q, kind, P) == \A i \in 1 .. Len(q) : q[i].type = kind => q[i].from \in P

\* A queue with one message more, or one less, still names known daemons only.
LEMMA QueueStillKnown ==
  ASSUME NEW S, NEW q \in Seq(S), NEW P, NEW Q, P \subseteq Q,
         NEW kind, FromIn(q, kind, P)
  PROVE  /\ FromIn(q, kind, Q)
         /\ q # <<>> => FromIn(Tail(q), kind, Q)
         /\ \A m \in S : (m.type = kind => m.from \in P) =>
              FromIn(Append(q, m), kind, Q)
  <1>1. FromIn(q, kind, Q)
    BY DEF FromIn
  <1>2. ASSUME q # <<>> PROVE FromIn(Tail(q), kind, Q)
    <2> SUFFICES ASSUME NEW i \in 1 .. Len(Tail(q))
                 PROVE  Tail(q)[i].type = kind => Tail(q)[i].from \in Q
      BY DEF FromIn
    <2>1. Tail(q)[i] = q[i + 1] /\ i + 1 \in 1 .. Len(q)
      BY <1>2, TailFacts
    <2> QED BY <2>1 DEF FromIn
  <1>3. ASSUME NEW m \in S, m.type = kind => m.from \in P
        PROVE  FromIn(Append(q, m), kind, Q)
    <2> SUFFICES ASSUME NEW i \in 1 .. Len(Append(q, m))
                 PROVE  Append(q, m)[i].type = kind =>
                          Append(q, m)[i].from \in Q
      BY DEF FromIn
    <2>1. CASE i \in 1 .. Len(q)
      BY <2>1, AppendFacts DEF FromIn
    <2>2. CASE i = Len(q) + 1
      BY <1>3, <2>2, AppendFacts
    <2>3. i \in 1 .. Len(q) \/ i = Len(q) + 1
      BY AppendFacts
    <2> QED BY <2>1, <2>2, <2>3
  <1> QED BY <1>1, <1>2, <1>3

\* Whom a daemon asks and answers stays known.
LEMMA StepPeersKnown ==
  ASSUME IInv, TypeOK', NEW d \in Daemons,
         P2pThread(d) \/ DbThread(d) \/ Client(d)
  PROVE  PeersKnown'
  <1>0. /\ TypeOK /\ PeersKnown
        /\ \A y \in Daemons : Held(y)
    BY DEF IInv, Introductions
  <1>1. \A y \in Daemons : peers[y] \subseteq peers'[y]
    <2>1. CASE AnswerPeer(d)
      BY <1>0, <2>1 DEF AnswerPeer, TypeOK
    <2>2. CASE UNCHANGED peers
      BY <2>2
    <2> QED
      BY <2>1, <2>2
         DEF P2pThread, DbThread, Client, P2pStart, BcastPeers, BcastHashes,
             SendDbRequests, RecvPeer, PassGate, AnswerHash, AnswerReq,
             AnswerDoc, PollDb, AnswerPut, AnswerNew, DbStart, PeerGet,
             PeerIns, BeginUpdate, EndUpdate, ClientAdd, ClientRm, p2pVars
  <1>2. \A y, e \in Daemons : dbRequests'[y][e] # {} => e \in peers'[y]
    <2>0. \A y, e \in Daemons : dbRequests[y][e] # {} => e \in peers'[y]
      BY <1>0, <1>1 DEF PeersKnown
    <2>1. CASE AnswerHash(d)
      <3>1. inMsg[d].from \in peers[d] /\ inMsg[d].from \in Daemons
        BY <1>0, <2>1, P2pMessageFields DEF AnswerHash, Held, TypeOK
      <3>2. PICK missing :
              dbRequests' = [dbRequests EXCEPT
                               ![d][inMsg[d].from] = @ \cup missing]
        BY <2>1 DEF AnswerHash
      <3>3. inMsg[d].from \in peers'[d]
        BY <1>1, <3>1
      <3>4. \A y, e \in Daemons : y # d \/ e # inMsg[d].from =>
              dbRequests'[y][e] = dbRequests[y][e]
        <4> DEFINE f == inMsg[d].from
        <4>1. /\ dbRequests \in [Daemons -> [Daemons -> SUBSET Ads]]
              /\ f \in Daemons
          BY <1>0, <3>1 DEF TypeOK
        <4>2. dbRequests' = [dbRequests EXCEPT ![d] =
                [dbRequests[d] EXCEPT ![f] = dbRequests[d][f] \cup missing]]
          BY <3>2
        <4> HIDE DEF f
        <4> QED BY <4>1, <4>2 DEF f
      <3> QED BY <2>0, <3>3, <3>4
    <2>2. CASE SendDbRequests(d)
      <3>1. \A y, e \in Daemons :
              dbRequests'[y][e] = dbRequests[y][e] \/ dbRequests'[y][e] = {}
        BY <1>0, <2>2 DEF SendDbRequests, TypeOK
      <3> QED BY <2>0, <3>1
    <2>3. CASE UNCHANGED dbRequests
      BY <1>0, <1>1, <2>3 DEF PeersKnown
    <2> QED
      BY <2>1, <2>2, <2>3
         DEF P2pThread, DbThread, Client, P2pStart, BcastPeers,
             BcastHashes, RecvPeer, AnswerPeer, PassGate, AnswerReq, AnswerDoc,
             PollDb, AnswerPut, AnswerNew, DbStart, PeerGet, PeerIns,
             BeginUpdate, EndUpdate, ClientAdd, ClientRm, p2pVars
  <1>3. ASSUME NEW y \in Daemons
        PROVE  FromIn(toDb'[y], "GET", peers'[y])
    <2>0. toDb[y] \in Seq(DbMessage) /\ toDb'[y] \in Seq(DbMessage)
      BY <1>0 DEF TypeOK
    <2>1. \/ toDb'[y] = toDb[y]
          \/ toDb[y] # <<>> /\ toDb'[y] = Tail(toDb[y])
          \/ \E m \in DbMessage : /\ toDb'[y] = Append(toDb[y], m)
                                  /\ m.type = "GET" => m.from \in peers[y]
      <3>1. CASE AnswerReq(d)
        <4> DEFINE m == [type |-> "GET", from |-> inMsg[d].from,
                         ads |-> inMsg[d].ads]
        <4>1. inMsg[d].from \in Daemons /\ inMsg[d].ads \in SUBSET Ads
          BY <1>0, <3>1, P2pMessageFields DEF AnswerReq, TypeOK
        <4>2. m \in DbMessage
          BY <4>1 DEF DbMessage, GetMsg
        <4>3. m.from \in peers[d]
          BY <1>0, <3>1 DEF AnswerReq, Held
        <4>4. toDb' = [toDb EXCEPT ![d] = Append(@, m)]
          BY <3>1 DEF AnswerReq
        <4> HIDE DEF m
        <4> QED BY <1>0, <4>2, <4>3, <4>4 DEF TypeOK
      <3>2. CASE AnswerDoc(d)
        <4>1. PICK view \in HashViews(d) :
                toDb' = [toDb EXCEPT ![d] =
                  Append(@, [type |-> "INS", ads |-> inMsg[d].ads \ view])]
          BY <3>2 DEF AnswerDoc
        <4> DEFINE m == [type |-> "INS", ads |-> inMsg[d].ads \ view]
        <4>2. inMsg[d].ads \in SUBSET Ads
          BY <1>0, <3>2, P2pMessageFields DEF AnswerDoc, TypeOK
        <4>3. m \in DbMessage /\ m.type # "GET"
          BY <4>2 DEF DbMessage, InsMsg
        <4>4. toDb' = [toDb EXCEPT ![d] = Append(@, m)]
          BY <4>1
        <4> HIDE DEF m
        <4> QED BY <1>0, <4>3, <4>4 DEF TypeOK
      <3>3. CASE PeerGet(d) \/ PeerIns(d)
        <4>1. toDb[d] # <<>> /\ toDb' = [toDb EXCEPT ![d] = Tail(@)]
          BY <3>3 DEF PeerGet, PeerIns
        <4> QED BY <1>0, <4>1 DEF TypeOK
      <3>4. CASE UNCHANGED toDb
        BY <3>4
      <3> QED
        BY <3>1, <3>2, <3>3, <3>4
           DEF P2pThread, DbThread, Client, P2pStart, BcastPeers, BcastHashes,
               SendDbRequests, RecvPeer, AnswerPeer, PassGate, AnswerHash,
               PollDb, AnswerPut, AnswerNew, DbStart, BeginUpdate, EndUpdate,
               ClientAdd, ClientRm
    <2>2. FromIn(toDb[y], "GET", peers[y])
      BY <1>0 DEF PeersKnown, FromIn
    <2>3. peers[y] \subseteq peers'[y]
      BY <1>1
    <2>4. /\ FromIn(toDb[y], "GET", peers'[y])
          /\ toDb[y] # <<>> => FromIn(Tail(toDb[y]), "GET", peers'[y])
          /\ \A m \in DbMessage : (m.type = "GET" => m.from \in peers[y]) =>
               FromIn(Append(toDb[y], m), "GET", peers'[y])
      BY <2>0, <2>2, <2>3, QueueStillKnown
    <2> QED BY <2>1, <2>4
  <1>4. ASSUME NEW y \in Daemons
        PROVE  FromIn(toP2p'[y], "PUT", peers'[y])
    <2>0. toP2p[y] \in Seq(NoteMessage) /\ toP2p'[y] \in Seq(NoteMessage)
      BY <1>0 DEF TypeOK
    <2>1. \/ toP2p'[y] = toP2p[y]
          \/ toP2p[y] # <<>> /\ toP2p'[y] = Tail(toP2p[y])
          \/ \E m \in NoteMessage : /\ toP2p'[y] = Append(toP2p[y], m)
                                    /\ m.type = "PUT" => m.from \in peers[y]
      <3>1. CASE PeerGet(d)
        <4> DEFINE g == Head(toDb[d])
                   m == [type |-> "PUT", from |-> g.from,
                         ads |-> DbGetDocs(db[d], g.ads)]
        <4>1. toDb[d] \in Seq(DbMessage) /\ toDb[d] # <<>>
          BY <1>0, <3>1 DEF PeerGet, TypeOK
        <4>2. /\ g \in DbMessage /\ g = toDb[d][1] /\ g.type = "GET"
              /\ 1 \in 1 .. Len(toDb[d])
          BY <3>1, <4>1, TailFacts DEF PeerGet
        <4>3. g.from \in peers[d]
          BY <1>0, <4>2 DEF PeersKnown
        <4>4. g.from \in Daemons /\ g.ads \in SUBSET Ads
          BY <4>2, DbMessageFields
        <4>5. toP2p' = [toP2p EXCEPT ![d] = Append(@, m)]
          BY <3>1 DEF PeerGet
        <4> HIDE DEF g
        <4>6. m \in NoteMessage /\ m.from \in peers[d]
          BY <4>3, <4>4 DEF NoteMessage, PutMsg, DbGetDocs
        <4> HIDE DEF m
        <4> QED BY <1>0, <4>5, <4>6 DEF TypeOK
      <3>2. CASE EndUpdate(d)
        <4> DEFINE m == [type |-> "NEW"]
        <4>1. m \in NoteMessage /\ m.type # "PUT"
          BY DEF NoteMessage, NewMsg
        <4>2. toP2p' = [toP2p EXCEPT ![d] = Append(@, m)]
          BY <3>2 DEF EndUpdate
        <4> HIDE DEF m
        <4> QED BY <1>0, <4>1, <4>2 DEF TypeOK
      <3>3. CASE AnswerPut(d) \/ AnswerNew(d)
        <4>1. toP2p[d] # <<>> /\ toP2p' = [toP2p EXCEPT ![d] = Tail(@)]
          BY <3>3 DEF AnswerPut, AnswerNew
        <4> QED BY <1>0, <4>1 DEF TypeOK
      <3>4. CASE UNCHANGED toP2p
        BY <3>4
      <3> QED
        BY <3>1, <3>2, <3>3, <3>4
           DEF P2pThread, DbThread, Client, P2pStart, BcastPeers, BcastHashes,
               SendDbRequests, RecvPeer, AnswerPeer, PassGate, AnswerHash,
               AnswerReq, AnswerDoc, PollDb, DbStart, PeerIns, BeginUpdate,
               ClientAdd, ClientRm
    <2>2. FromIn(toP2p[y], "PUT", peers[y])
      BY <1>0 DEF PeersKnown, FromIn
    <2>3. peers[y] \subseteq peers'[y]
      BY <1>1
    <2>4. /\ FromIn(toP2p[y], "PUT", peers'[y])
          /\ toP2p[y] # <<>> => FromIn(Tail(toP2p[y]), "PUT", peers'[y])
          /\ \A m \in NoteMessage : (m.type = "PUT" => m.from \in peers[y]) =>
               FromIn(Append(toP2p[y], m), "PUT", peers'[y])
      BY <2>0, <2>2, <2>3, QueueStillKnown
    <2> QED BY <2>1, <2>4
  <1> QED BY <1>2, <1>3, <1>4 DEF PeersKnown, FromIn

\* The strengthened invariant is inductive.
LEMMA StepIInv == IInv /\ [Next]_vars => IInv'
  <1> SUFFICES ASSUME IInv, [Next]_vars PROVE IInv'
    OBVIOUS
  <1>1. CASE UNCHANGED vars
    BY <1>1 DEF IInv, vars, p2pVars, dbVars, TypeOK, Introductions, Held, Link,
                Introduced, PeersSoon, PeersKnown
  <1>2. ASSUME NEW d \in Daemons, P2pThread(d) \/ DbThread(d) \/ Client(d)
        PROVE  IInv'
    <2>1. TypeOK'
      BY <1>2, P2pTypeOK, DbTypeOK DEF IInv
    <2>2. Introductions'
      BY <1>2, P2pIntroductions, DbIntroductions
    <2>3. PeersKnown'
      BY <1>2, <2>1, StepPeersKnown
    <2> QED BY <2>1, <2>2, <2>3 DEF IInv
  <1> QED BY <1>1, <1>2 DEF Next

\* my_peers.at never throws: a daemon knows whom it asks and answers
\* (daemon_p2p_thread.cpp:126 and :281), in any schedule of any number of daemons
\* of one host whose --peer arguments name each by the address it gives itself,
\* "localhost:<port>" (NetAssumption).  By another name it may well throw.
THEOREM NeverUnknownPeer == Spec => []PeersKnown
  <1>1. IInv => PeersKnown
    BY DEF IInv
  <1> QED BY <1>1, InitIInv, StepIInv, PTL DEF Spec

\* Every HASH and REQ comes from a daemon its receiver knows or follows a PEER
\* that introduces it (daemon_p2p_thread.cpp:355-357).
THEOREM AlwaysIntroduced == Spec => []Introductions
  <1>1. IInv => Introductions
    BY DEF IInv
  <1> QED BY <1>1, InitIInv, StepIInv, PTL DEF Spec

-----------------------------------------------------------------------------
(* The network implements AdReplication.                                   *)

\* Every message of a queue carries ads of A only.
AllCarry(q, A) == \A i \in 1 .. Len(q) : Carries(q[i], A)

\* A queue with one message more, or one less, still carries ads of A only.
LEMMA QueueStillCarries ==
  ASSUME NEW S, NEW q \in Seq(S), NEW A, NEW B, A \subseteq B, AllCarry(q, A)
  PROVE  /\ AllCarry(q, B)
         /\ q # <<>> => Carries(Head(q), A) /\ AllCarry(Tail(q), B)
         /\ \A m \in S : Carries(m, B) => AllCarry(Append(q, m), B)
  <1>1. AllCarry(q, B)
    BY DEF AllCarry, Carries
  <1>2. ASSUME q # <<>> PROVE Carries(Head(q), A) /\ AllCarry(Tail(q), B)
    <2>1. Carries(Head(q), A)
      BY <1>2, TailFacts DEF AllCarry
    <2>2. ASSUME NEW i \in 1 .. Len(Tail(q)) PROVE Carries(Tail(q)[i], B)
      <3>1. Tail(q)[i] = q[i + 1] /\ i + 1 \in 1 .. Len(q)
        BY <1>2, TailFacts
      <3> QED BY <1>1, <3>1 DEF AllCarry
    <2> QED BY <2>1, <2>2 DEF AllCarry
  <1>3. ASSUME NEW m \in S, Carries(m, B) PROVE AllCarry(Append(q, m), B)
    <2> SUFFICES ASSUME NEW i \in 1 .. Len(Append(q, m))
                 PROVE  Carries(Append(q, m)[i], B)
      BY DEF AllCarry
    <2>1. CASE i \in 1 .. Len(q)
      BY <1>1, <2>1, AppendFacts DEF AllCarry
    <2>2. CASE i = Len(q) + 1
      BY <1>3, <2>2, AppendFacts
    <2>3. i \in 1 .. Len(q) \/ i = Len(q) + 1
      BY AppendFacts
    <2> QED BY <2>1, <2>2, <2>3
  <1> QED BY <1>1, <1>2, <1>3

\* No step forgets an ad that was added, and only "db add" adds one.
LEMMA PostedGrows ==
  ASSUME TypeOK, NEW d \in Daemons, P2pThread(d) \/ DbThread(d) \/ Client(d)
  PROVE  /\ posted \subseteq posted'
         /\ \A file \in SUBSET Ads :
              added' = [added EXCEPT ![d] = @ \cup file] => file \subseteq posted'
  <1>1. P2pThread(d) \/ DbThread(d) => UNCHANGED added
    BY DEF P2pThread, DbThread, P2pStart, BcastPeers, BcastHashes,
           SendDbRequests, RecvPeer, AnswerPeer, PassGate, AnswerHash,
           AnswerReq, AnswerDoc, PollDb, AnswerPut, AnswerNew, DbStart, PeerGet,
           PeerIns, BeginUpdate, EndUpdate, dbVars
  <1>2. \A e \in Daemons : added[e] \subseteq added'[e]
    <2>1. CASE UNCHANGED added
      BY <2>1
    <2>2. CASE Client(d)
      BY <2>2 DEF Client, ClientAdd, ClientRm, TypeOK
    <2> QED BY <1>1, <2>1, <2>2
  <1>3. posted \subseteq posted'
    BY <1>2 DEF posted
  <1>4. ASSUME NEW file \in SUBSET Ads,
               added' = [added EXCEPT ![d] = @ \cup file]
        PROVE  file \subseteq posted'
    <2>1. file \subseteq added'[d]
      BY <1>4 DEF TypeOK
    <2> QED BY <2>1 DEF posted
  <1> QED BY <1>3, <1>4

\* OnlyPostedAds holds initially.
LEMMA InitOnlyPosted == Init => OnlyPostedAds
  BY InitDbAssumption DEF Init, OnlyPostedAds, posted, Carries, NoMsg

\* What is sent over the links was added somewhere, if the messages sent were.
LEMMA SentCarries ==
  ASSUME TypeOK, OnlyPostedAds, NEW d \in Daemons, NEW to \in SUBSET Daemons,
         NEW msgs \in [to -> P2pMessage], chan' = Sent(d, msgs),
         \A e \in to : Carries(msgs[e], posted), UNCHANGED posted
  PROVE  \A x, y \in Daemons : AllCarry(chan'[x][y], posted')
  <1> SUFFICES ASSUME NEW x \in Daemons, NEW y \in Daemons
               PROVE  AllCarry(chan'[x][y], posted)
    OBVIOUS
  <1>1. chan'[x][y] = IF x = d /\ y \in to THEN Append(chan[x][y], msgs[y])
                                          ELSE chan[x][y]
    <2>1. DOMAIN msgs = to OBVIOUS
    <2> QED BY <2>1, SentLinks
  <1>2. chan[x][y] \in Seq(P2pMessage) /\ AllCarry(chan[x][y], posted)
    BY DEF TypeOK, OnlyPostedAds, AllCarry
  <1>3. CASE x = d /\ y \in to
    <2>1. msgs[y] \in P2pMessage /\ Carries(msgs[y], posted)
      BY <1>3
    <2>2. AllCarry(Append(chan[x][y], msgs[y]), posted)
      BY <1>2, <2>1, QueueStillCarries
    <2> QED BY <1>1, <1>3, <2>2
  <1> QED BY <1>1, <1>2, <1>3

\* The links carry only what was added somewhere.
LEMMA LinksCarry ==
  ASSUME TypeOK, OnlyPostedAds, NEW d \in Daemons,
         P2pThread(d) \/ DbThread(d) \/ Client(d)
  PROVE  \A x, y \in Daemons : AllCarry(chan'[x][y], posted')
  <1>0. \A x, y \in Daemons : /\ chan[x][y] \in Seq(P2pMessage)
                              /\ AllCarry(chan[x][y], posted)
    BY DEF TypeOK, OnlyPostedAds, AllCarry
  <1>1. CASE BcastPeers(d)
    <2> DEFINE to == {e \in peers[d] : toBcastPeers[d]}
               msgs == [e \in to |-> [type |-> "PEER",
                                      peers |-> {d} \cup peers[d]]]
    <2>1. to \in SUBSET Daemons /\ msgs \in [to -> P2pMessage]
      BY DEF TypeOK, P2pMessage, PeerMsg
    <2>2. \A e \in to : Carries(msgs[e], posted)
      BY DEF Carries
    <2>3. chan' = Sent(d, msgs) /\ UNCHANGED posted
      BY <1>1 DEF BcastPeers, dbVars, posted
    <2> HIDE DEF to, msgs
    <2> QED BY <2>1, <2>2, <2>3, SentCarries
  <1>2. CASE BcastHashes(d)
    <2>1. PICK view \in [peers[d] -> HashViews(d)] :
            chan' = Sent(d, [e \in peers[d] |->
                      [type |-> "HASH", from |-> d, ads |-> view[e]]])
      BY <1>2 DEF BcastHashes
    <2> DEFINE msgs == [e \in peers[d] |->
                          [type |-> "HASH", from |-> d, ads |-> view[e]]]
    <2>2. HashViews(d) \in SUBSET SUBSET Ads
          /\ \A v \in HashViews(d) : v \subseteq posted
      BY DEF HashViews, TypeOK, OnlyPostedAds
    <2>3. peers[d] \in SUBSET Daemons /\ msgs \in [peers[d] -> P2pMessage]
      BY <2>2 DEF TypeOK, P2pMessage, HashMsg
    <2>4. \A e \in peers[d] : Carries(msgs[e], posted)
      BY <2>2 DEF Carries
    <2>5. chan' = Sent(d, msgs) /\ UNCHANGED posted
      BY <1>2, <2>1 DEF BcastHashes, dbVars, posted
    <2> HIDE DEF msgs
    <2> QED BY <2>3, <2>4, <2>5, SentCarries
  <1>3. CASE SendDbRequests(d)
    <2> DEFINE asked == {e \in Daemons : toSendDbRequests[d]
                                         /\ dbRequests[d][e] # {}}
               msgs == [e \in asked |-> [type |-> "REQ", from |-> d,
                                         ads |-> dbRequests[d][e]]]
    <2>1. asked \in SUBSET Daemons /\ msgs \in [asked -> P2pMessage]
      BY DEF TypeOK, P2pMessage, ReqMsg
    <2>2. \A e \in asked : Carries(msgs[e], posted)
      BY DEF Carries, OnlyPostedAds
    <2>3. chan' = Sent(d, msgs) /\ UNCHANGED posted
      BY <1>3 DEF SendDbRequests, dbVars, posted
    <2> HIDE DEF asked, msgs
    <2> QED BY <2>1, <2>2, <2>3, SentCarries
  <1>4. ASSUME NEW e \in Daemons, RecvPeer(d, e)
        PROVE  \A x, y \in Daemons : AllCarry(chan'[x][y], posted')
    <2> SUFFICES ASSUME NEW x \in Daemons, NEW y \in Daemons
                 PROVE  AllCarry(chan'[x][y], posted)
      BY <1>4 DEF RecvPeer, dbVars, posted
    <2>1. CASE x = e /\ y = d
      <3>1. chan[e][d] # <<>> /\ chan'[e][d] = Tail(chan[e][d])
        BY <1>4 DEF RecvPeer, TypeOK
      <3> QED BY <1>0, <2>1, <3>1, QueueStillCarries
    <2>2. CASE ~(x = e /\ y = d)
      <3>1. chan'[x][y] = chan[x][y]
        BY <1>4, <2>2 DEF RecvPeer, TypeOK
      <3> QED BY <1>0, <3>1
    <2> QED BY <2>1, <2>2
  <1>5. CASE AnswerPut(d)
    <2> DEFINE m == Head(toP2p[d])
               to == {m.from}
               msgs == [e \in to |-> [type |-> "DOC", ads |-> m.ads]]
    <2>1. /\ toP2p[d] \in Seq(NoteMessage) /\ toP2p[d] # <<>>
          /\ m.type = "PUT"
          /\ AllCarry(toP2p[d], posted)
      BY <1>5 DEF AnswerPut, TypeOK, OnlyPostedAds, AllCarry
    <2>2. m.from \in Daemons /\ m.ads \in SUBSET Ads
      BY <2>1, TailFacts, NoteMessageFields
    <2>3. m.ads \subseteq posted
      BY <2>1, QueueStillCarries DEF Carries
    <2>4. to \in SUBSET Daemons /\ msgs \in [to -> P2pMessage]
      BY <2>2 DEF P2pMessage, DocMsg
    <2>5. \A e \in to : Carries(msgs[e], posted)
      BY <2>3 DEF Carries
    <2>6. chan' = Sent(d, msgs) /\ UNCHANGED posted
      BY <1>5 DEF AnswerPut, dbVars, posted
    <2> HIDE DEF m, to, msgs
    <2> QED BY <2>4, <2>5, <2>6, SentCarries
  <1>6. CASE UNCHANGED chan /\ posted \subseteq posted'
    BY <1>0, <1>6 DEF AllCarry, Carries
  <1>7. posted \subseteq posted'
    BY PostedGrows
  <1> QED
    BY <1>1, <1>2, <1>3, <1>4, <1>5, <1>6, <1>7
       DEF P2pThread, DbThread, Client, P2pStart, AnswerPeer, PassGate,
           AnswerHash, AnswerReq, AnswerDoc, PollDb, AnswerNew, DbStart,
           PeerGet, PeerIns, BeginUpdate, EndUpdate, ClientAdd, ClientRm

\* Databases, and so my_hashes, hold only what was added somewhere.
LEMMA StoresPosted ==
  ASSUME TypeOK, OnlyPostedAds, NEW d \in Daemons,
         P2pThread(d) \/ DbThread(d) \/ Client(d)
  PROVE  \A y \in Daemons : hashes'[y] \subseteq posted'
                            /\ db'[y] \subseteq posted'
  <1>0. \A y \in Daemons : hashes[y] \subseteq posted' /\ db[y] \subseteq posted'
    BY PostedGrows DEF OnlyPostedAds
  <1>1. CASE DbStart(d) \/ EndUpdate(d)
    BY <1>0, <1>1 DEF DbStart, EndUpdate, TypeOK
  <1>2. ASSUME NEW u \in Users, ClientAdd(d, u)
        PROVE  \A y \in Daemons : hashes'[y] \subseteq posted'
                                  /\ db'[y] \subseteq posted'
    <2>1. PICK file \in SUBSET {a \in Ads : PosterOf[a] = u} :
            /\ db' = [db EXCEPT ![d] = @ \cup (file \ hashes[d])]
            /\ added' = [added EXCEPT ![d] = @ \cup file]
      BY <1>2 DEF ClientAdd, AddDocument, IndexDb
    <2>2. file \subseteq posted'
      BY <2>1, PostedGrows
    <2> QED BY <1>0, <1>2, <2>1, <2>2 DEF ClientAdd, TypeOK
  <1>3. ASSUME NEW u \in Users, ClientRm(d, u)
        PROVE  \A y \in Daemons : hashes'[y] \subseteq posted'
                                  /\ db'[y] \subseteq posted'
    BY <1>0, <1>3 DEF ClientRm, DbRmDocs, TypeOK
  <1>4. CASE PeerIns(d)
    <2>1. toDb[d] \in Seq(DbMessage) /\ toDb[d] # <<>>
          /\ AllCarry(toDb[d], posted) /\ Head(toDb[d]).type = "INS"
      BY <1>4 DEF PeerIns, TypeOK, OnlyPostedAds, AllCarry
    <2>2. Head(toDb[d]).ads \subseteq posted
      BY <2>1, QueueStillCarries DEF Carries
    <2>3. Head(toDb[d]).ads \subseteq posted'
      BY <2>2, PostedGrows
    <2> QED BY <1>0, <1>4, <2>3 DEF PeerIns, DbPutDocs, AddDocument, TypeOK
  <1>5. CASE UNCHANGED <<hashes, db>>
    BY <1>0, <1>5
  <1> QED
    BY <1>1, <1>2, <1>3, <1>4, <1>5
       DEF P2pThread, DbThread, Client, P2pStart, BcastPeers, BcastHashes,
           SendDbRequests, RecvPeer, AnswerPeer, PassGate, AnswerHash,
           AnswerReq, AnswerDoc, PollDb, AnswerPut, AnswerNew, PeerGet,
           BeginUpdate, dbVars

\* What the p2p thread holds and is going to ask for was added somewhere.
LEMMA HeldPosted ==
  ASSUME TypeOK, OnlyPostedAds, NEW d \in Daemons,
         P2pThread(d) \/ DbThread(d) \/ Client(d)
  PROVE  \A y \in Daemons :
           /\ Carries(inMsg'[y], posted')
           /\ \A e \in Daemons : dbRequests'[y][e] \subseteq posted'
  <1>0. /\ \A y \in Daemons : Carries(inMsg[y], posted)
        /\ \A y, e \in Daemons : dbRequests[y][e] \subseteq posted
    BY DEF OnlyPostedAds
  <1>1. posted \subseteq posted'
    BY PostedGrows
  <1>2. /\ \A y \in Daemons : Carries(inMsg[y], posted')
        /\ \A y, e \in Daemons : dbRequests[y][e] \subseteq posted'
    BY <1>0, <1>1 DEF Carries
  <1>3. \A y \in Daemons : Carries(inMsg'[y], posted')
    <2>1. ASSUME NEW e \in Daemons, RecvPeer(d, e)
          PROVE  \A y \in Daemons : Carries(inMsg'[y], posted')
      <3>1. chan[e][d] \in Seq(P2pMessage) /\ chan[e][d] # <<>>
            /\ AllCarry(chan[e][d], posted)
        BY <2>1 DEF RecvPeer, TypeOK, OnlyPostedAds, AllCarry
      <3>2. Carries(Head(chan[e][d]), posted)
        BY <3>1, QueueStillCarries
      <3>3. \A y \in Daemons : inMsg'[y] = inMsg[y]
                               \/ inMsg'[y] = Head(chan[e][d])
        BY <2>1 DEF RecvPeer, TypeOK
      <3> QED BY <1>1, <1>2, <3>2, <3>3 DEF Carries
    <2>2. CASE Answered(d)
      <3>1. \A y \in Daemons : inMsg'[y] = inMsg[y] \/ inMsg'[y] = NoMsg
        BY <2>2 DEF Answered, TypeOK
      <3> QED BY <1>2, <3>1 DEF Carries, NoMsg
    <2>3. CASE UNCHANGED inMsg
      BY <1>2, <2>3
    <2> QED
      BY <2>1, <2>2, <2>3
         DEF P2pThread, DbThread, Client, P2pStart, BcastPeers, BcastHashes,
             SendDbRequests, AnswerPeer, PassGate, AnswerHash, AnswerReq,
             AnswerDoc, PollDb, AnswerPut, AnswerNew, DbStart, PeerGet, PeerIns,
             BeginUpdate, EndUpdate, ClientAdd, ClientRm, p2pVars
  <1>4. \A y, e \in Daemons : dbRequests'[y][e] \subseteq posted'
    <2>1. CASE AnswerHash(d)
      <3>1. inMsg[d].from \in Daemons /\ inMsg[d].ads \subseteq posted'
        BY <1>2, <2>1, P2pMessageFields DEF AnswerHash, TypeOK, Carries
      <3>2. PICK view :
              dbRequests' = [dbRequests EXCEPT ![d][inMsg[d].from] =
                               @ \cup (inMsg[d].ads \ view)]
        BY <2>1 DEF AnswerHash
      <3>3. \A y, e \in Daemons :
              dbRequests'[y][e] \subseteq dbRequests[y][e] \cup inMsg[d].ads
        <4> DEFINE f == inMsg[d].from
        <4>1. /\ dbRequests \in [Daemons -> [Daemons -> SUBSET Ads]]
              /\ f \in Daemons
          BY <3>1 DEF TypeOK
        <4>2. dbRequests' = [dbRequests EXCEPT ![d] =
                [dbRequests[d] EXCEPT
                   ![f] = dbRequests[d][f] \cup (inMsg[d].ads \ view)]]
          BY <3>2
        <4> HIDE DEF f
        <4> QED BY <4>1, <4>2
      <3> QED BY <1>2, <3>1, <3>3
    <2>2. CASE SendDbRequests(d)
      <3>1. \A y, e \in Daemons :
              dbRequests'[y][e] = dbRequests[y][e] \/ dbRequests'[y][e] = {}
        BY <2>2 DEF SendDbRequests, TypeOK
      <3> QED BY <1>2, <3>1
    <2>3. CASE UNCHANGED dbRequests
      BY <1>2, <2>3
    <2> QED
      BY <2>1, <2>2, <2>3
         DEF P2pThread, DbThread, Client, P2pStart, BcastPeers, BcastHashes,
             RecvPeer, AnswerPeer, PassGate, AnswerReq, AnswerDoc, PollDb,
             AnswerPut, AnswerNew, DbStart, PeerGet, PeerIns, BeginUpdate,
             EndUpdate, ClientAdd, ClientRm, p2pVars
  <1> QED BY <1>3, <1>4

\* The two threads of a daemon tell each other only what was added somewhere.
LEMMA QueuesPosted ==
  ASSUME TypeOK, OnlyPostedAds, NEW d \in Daemons,
         P2pThread(d) \/ DbThread(d) \/ Client(d)
  PROVE  \A y \in Daemons : /\ AllCarry(toDb'[y], posted')
                            /\ AllCarry(toP2p'[y], posted')
  <1>0. \A y \in Daemons :
          /\ toDb[y] \in Seq(DbMessage) /\ AllCarry(toDb[y], posted)
          /\ toP2p[y] \in Seq(NoteMessage) /\ AllCarry(toP2p[y], posted)
          /\ Carries(inMsg[y], posted)
    BY DEF TypeOK, OnlyPostedAds, AllCarry
  <1>1. posted \subseteq posted'
    BY PostedGrows
  <1>2. \A y \in Daemons :
          /\ AllCarry(toDb[y], posted')
          /\ toDb[y] # <<>> => AllCarry(Tail(toDb[y]), posted')
          /\ \A m \in DbMessage : Carries(m, posted') =>
               AllCarry(Append(toDb[y], m), posted')
    BY <1>0, <1>1, QueueStillCarries
  <1>3. \A y \in Daemons :
          /\ AllCarry(toP2p[y], posted')
          /\ toP2p[y] # <<>> => AllCarry(Tail(toP2p[y]), posted')
          /\ \A m \in NoteMessage : Carries(m, posted') =>
               AllCarry(Append(toP2p[y], m), posted')
    BY <1>0, <1>1, QueueStillCarries
  <1>4. \A y \in Daemons : AllCarry(toDb'[y], posted')
    <2>1. CASE AnswerReq(d)
      <3> DEFINE m == [type |-> "GET", from |-> inMsg[d].from,
                       ads |-> inMsg[d].ads]
      <3>1. inMsg[d].from \in Daemons /\ inMsg[d].ads \in SUBSET Ads
        BY <2>1, P2pMessageFields DEF AnswerReq, TypeOK
      <3>2. inMsg[d].ads \subseteq posted'
        BY <1>0, <1>1, <2>1 DEF AnswerReq, Carries
      <3>3. m \in DbMessage /\ Carries(m, posted')
        BY <3>1, <3>2 DEF DbMessage, GetMsg, Carries
      <3>4. toDb' = [toDb EXCEPT ![d] = Append(@, m)]
        BY <2>1 DEF AnswerReq
      <3> HIDE DEF m
      <3>5. \A y \in Daemons : toDb'[y] = toDb[y]
                               \/ toDb'[y] = Append(toDb[y], m)
        BY <3>4 DEF TypeOK
      <3> QED BY <1>2, <3>3, <3>5
    <2>2. CASE AnswerDoc(d)
      <3>1. PICK view \in HashViews(d) :
              toDb' = [toDb EXCEPT ![d] =
                Append(@, [type |-> "INS", ads |-> inMsg[d].ads \ view])]
        BY <2>2 DEF AnswerDoc
      <3> DEFINE m == [type |-> "INS", ads |-> inMsg[d].ads \ view]
      <3>2. inMsg[d].ads \in SUBSET Ads
        BY <2>2, P2pMessageFields DEF AnswerDoc, TypeOK
      <3>3. inMsg[d].ads \subseteq posted'
        BY <1>0, <1>1, <2>2 DEF AnswerDoc, Carries
      <3>4. m \in DbMessage /\ Carries(m, posted')
        BY <3>2, <3>3 DEF DbMessage, InsMsg, Carries
      <3>5. toDb' = [toDb EXCEPT ![d] = Append(@, m)]
        BY <3>1
      <3> HIDE DEF m
      <3>6. \A y \in Daemons : toDb'[y] = toDb[y]
                               \/ toDb'[y] = Append(toDb[y], m)
        BY <3>5 DEF TypeOK
      <3> QED BY <1>2, <3>4, <3>6
    <2>3. CASE PeerGet(d) \/ PeerIns(d)
      <3>1. toDb[d] # <<>> /\ toDb' = [toDb EXCEPT ![d] = Tail(@)]
        BY <2>3 DEF PeerGet, PeerIns
      <3>2. ASSUME NEW y \in Daemons
            PROVE  \/ toDb'[y] = toDb[y]
                   \/ toDb[y] # <<>> /\ toDb'[y] = Tail(toDb[y])
        <4>1. CASE y = d
          BY <3>1, <4>1 DEF TypeOK
        <4>2. CASE y # d
          BY <3>1, <4>2 DEF TypeOK
        <4> QED BY <4>1, <4>2
      <3> QED BY <1>2, <3>2
    <2>4. CASE UNCHANGED toDb
      BY <1>2, <2>4
    <2> QED
      BY <2>1, <2>2, <2>3, <2>4
         DEF P2pThread, DbThread, Client, P2pStart, BcastPeers, BcastHashes,
             SendDbRequests, RecvPeer, AnswerPeer, PassGate, AnswerHash,
             PollDb, AnswerPut, AnswerNew, DbStart, BeginUpdate, EndUpdate,
             ClientAdd, ClientRm
  <1>5. \A y \in Daemons : AllCarry(toP2p'[y], posted')
    <2>1. CASE PeerGet(d)
      <3> DEFINE g == Head(toDb[d])
                 m == [type |-> "PUT", from |-> g.from,
                       ads |-> DbGetDocs(db[d], g.ads)]
      <3>1. toDb[d] \in Seq(DbMessage) /\ toDb[d] # <<>> /\ g.type = "GET"
        BY <2>1 DEF PeerGet, TypeOK
      <3>2. g.from \in Daemons /\ g.ads \in SUBSET Ads
        BY <3>1, TailFacts, DbMessageFields
      <3>3. g.ads \subseteq posted
        BY <1>0, <3>1, QueueStillCarries DEF Carries
      <3>4. toP2p' = [toP2p EXCEPT ![d] = Append(@, m)]
        BY <2>1 DEF PeerGet
      <3> HIDE DEF g
      <3>5. m \in NoteMessage /\ Carries(m, posted')
        BY <1>1, <3>2, <3>3 DEF NoteMessage, PutMsg, Carries, DbGetDocs
      <3> HIDE DEF m
      <3>6. \A y \in Daemons : toP2p'[y] = toP2p[y]
                               \/ toP2p'[y] = Append(toP2p[y], m)
        BY <3>4 DEF TypeOK
      <3> QED BY <1>3, <3>5, <3>6
    <2>2. CASE EndUpdate(d)
      <3> DEFINE m == [type |-> "NEW"]
      <3>1. m \in NoteMessage /\ Carries(m, posted')
        BY DEF NoteMessage, NewMsg, Carries
      <3>2. toP2p' = [toP2p EXCEPT ![d] = Append(@, m)]
        BY <2>2 DEF EndUpdate
      <3> HIDE DEF m
      <3>3. \A y \in Daemons : toP2p'[y] = toP2p[y]
                               \/ toP2p'[y] = Append(toP2p[y], m)
        BY <3>2 DEF TypeOK
      <3> QED BY <1>3, <3>1, <3>3
    <2>3. CASE AnswerPut(d) \/ AnswerNew(d)
      <3>1. toP2p[d] # <<>> /\ toP2p' = [toP2p EXCEPT ![d] = Tail(@)]
        BY <2>3 DEF AnswerPut, AnswerNew
      <3>2. ASSUME NEW y \in Daemons
            PROVE  \/ toP2p'[y] = toP2p[y]
                   \/ toP2p[y] # <<>> /\ toP2p'[y] = Tail(toP2p[y])
        <4>1. CASE y = d
          BY <3>1, <4>1 DEF TypeOK
        <4>2. CASE y # d
          BY <3>1, <4>2 DEF TypeOK
        <4> QED BY <4>1, <4>2
      <3> QED BY <1>3, <3>2
    <2>4. CASE UNCHANGED toP2p
      BY <1>3, <2>4
    <2> QED
      BY <2>1, <2>2, <2>3, <2>4
         DEF P2pThread, DbThread, Client, P2pStart, BcastPeers, BcastHashes,
             SendDbRequests, RecvPeer, AnswerPeer, PassGate, AnswerHash,
             AnswerReq, AnswerDoc, PollDb, DbStart, PeerIns, BeginUpdate,
             ClientAdd, ClientRm
  <1> QED BY <1>4, <1>5

\* OnlyPostedAds is inductive relative to TypeOK.
LEMMA StepOnlyPosted ==
  TypeOK /\ OnlyPostedAds /\ [Next]_vars => OnlyPostedAds'
  <1> SUFFICES ASSUME TypeOK, OnlyPostedAds, [Next]_vars
               PROVE  OnlyPostedAds'
    OBVIOUS
  <1>1. CASE UNCHANGED vars
    BY <1>1 DEF vars, p2pVars, dbVars, OnlyPostedAds, posted, Carries
  <1>2. ASSUME NEW d \in Daemons, P2pThread(d) \/ DbThread(d) \/ Client(d)
        PROVE  OnlyPostedAds'
    <2>1. \A x, y \in Daemons : AllCarry(chan'[x][y], posted')
      BY <1>2, LinksCarry
    <2>2. \A y \in Daemons : hashes'[y] \subseteq posted'
                             /\ db'[y] \subseteq posted'
      BY <1>2, StoresPosted
    <2>3. \A y \in Daemons :
            /\ Carries(inMsg'[y], posted')
            /\ \A e \in Daemons : dbRequests'[y][e] \subseteq posted'
      BY <1>2, HeldPosted
    <2>4. \A y \in Daemons : /\ AllCarry(toDb'[y], posted')
                             /\ AllCarry(toP2p'[y], posted')
      BY <1>2, QueuesPosted
    <2> QED BY <2>1, <2>2, <2>3, <2>4 DEF OnlyPostedAds, AllCarry, Carries
  <1> QED BY <1>1, <1>2 DEF Next

\* HashesCurrent is inductive relative to TypeOK.
LEMMA StepHashesCurrent ==
  TypeOK /\ HashesCurrent /\ [Next]_vars => HashesCurrent'
  <1> SUFFICES ASSUME TypeOK, HashesCurrent, [Next]_vars,
                      NEW y \in Daemons, dbPc'[y] = "idle"
               PROVE  hashes'[y] = db'[y]
    BY DEF HashesCurrent
  <1>1. CASE UNCHANGED vars
    BY <1>1 DEF vars, dbVars, HashesCurrent
  <1>2. ASSUME NEW d \in Daemons, P2pThread(d) PROVE hashes'[y] = db'[y]
    BY <1>2 DEF HashesCurrent, P2pThread, P2pStart, BcastPeers, BcastHashes,
                SendDbRequests, RecvPeer, AnswerPeer, PassGate, AnswerHash,
                AnswerReq, AnswerDoc, PollDb, AnswerPut, AnswerNew, dbVars
  <1>3. ASSUME NEW d \in Daemons, DbStart(d) \/ EndUpdate(d)
        PROVE  hashes'[y] = db'[y]
    <2>1. CASE y = d
      BY <1>3, <2>1 DEF DbStart, EndUpdate, TypeOK
    <2>2. CASE y # d
      BY <1>3, <2>2 DEF HashesCurrent, DbStart, EndUpdate, TypeOK
    <2> QED BY <2>1, <2>2
  <1>4. ASSUME NEW d \in Daemons, PeerGet(d) PROVE hashes'[y] = db'[y]
    BY <1>4 DEF HashesCurrent, PeerGet, dbVars
  <1>5. ASSUME NEW d \in Daemons, PeerIns(d) PROVE hashes'[y] = db'[y]
    <2>1. CASE y = d
      BY <1>5, <2>1 DEF HashesCurrent, PeerIns, DbPutDocs, AddDocument, TypeOK
    <2>2. CASE y # d
      BY <1>5, <2>2 DEF HashesCurrent, PeerIns, TypeOK
    <2> QED BY <2>1, <2>2
  <1>6. ASSUME NEW d \in Daemons, BeginUpdate(d) PROVE hashes'[y] = db'[y]
    BY <1>6 DEF HashesCurrent, BeginUpdate, TypeOK
  <1>7. ASSUME NEW d \in Daemons, Client(d) PROVE hashes'[y] = db'[y]
    <2>1. /\ dbPc' = [dbPc EXCEPT ![d] = "update"] /\ UNCHANGED hashes
          /\ \E new : db' = [db EXCEPT ![d] = new]
      BY <1>7 DEF Client, ClientAdd, ClientRm
    <2> QED BY <2>1 DEF HashesCurrent, TypeOK
  <1> QED BY <1>1, <1>2, <1>3, <1>4, <1>5, <1>6, <1>7 DEF Next, DbThread

\* The abstract store and history start as the databases and added do.
LEMMA InitReplicates == Init => AdRepl!Init
  BY DEF Init, AdRepl!Init

\* Every step of the network is a step of AdReplication or changes neither the
\* databases nor the history.
LEMMA StepReplicates ==
  TypeOK /\ HashesCurrent /\ OnlyPostedAds /\ [Next]_vars =>
    [AdRepl!Next]_AdRepl!vars
  <1> SUFFICES ASSUME TypeOK, HashesCurrent, OnlyPostedAds, [Next]_vars
               PROVE  AdRepl!Next \/ UNCHANGED <<db, added>>
    BY DEF AdRepl!vars
  <1>1. CASE UNCHANGED vars
    BY <1>1 DEF vars, dbVars
  <1>2. ASSUME NEW d \in Daemons, NEW u \in Users, ClientAdd(d, u)
        PROVE  AdRepl!Next
    <2>1. PICK file \in SUBSET {a \in Ads : PosterOf[a] = u} :
            /\ db' = [db EXCEPT ![d] = @ \cup (file \ hashes[d])]
            /\ added' = [added EXCEPT ![d] = @ \cup file]
      BY <1>2 DEF ClientAdd, AddDocument, IndexDb
    <2>2. hashes[d] = db[d]
      BY <1>2 DEF ClientAdd, HashesCurrent
    <2>3. db[d] \cup (file \ hashes[d]) = db[d] \cup file
      BY <2>2
    <2>4. db' = [db EXCEPT ![d] = @ \cup file]
      BY <2>1, <2>3
    <2>5. AdRepl!Publish(d, u)
      BY <2>1, <2>4 DEF AdRepl!Publish
    <2> QED BY <1>2, <2>5 DEF AdRepl!Next
  <1>3. ASSUME NEW d \in Daemons, NEW u \in Users, ClientRm(d, u)
        PROVE  AdRepl!Next
    <2>1. PICK gone : /\ gone \subseteq {a \in db[d] : AuthorOf[a] = u}
                      /\ db' = [db EXCEPT ![d] = @ \ gone]
      BY <1>3 DEF ClientRm, DbRmDocs
    <2>2. gone \in SUBSET {a \in db[d] : AuthorOf[a] = u} /\ UNCHANGED added
      BY <1>3, <2>1 DEF ClientRm
    <2>3. AdRepl!Withdraw(d, u)
      BY <2>1, <2>2 DEF AdRepl!Withdraw
    <2> QED BY <1>3, <2>3 DEF AdRepl!Next
  <1>4. ASSUME NEW d \in Daemons, PeerIns(d)
        PROVE  AdRepl!Next
    <2> DEFINE docs == {a \in Head(toDb[d]).ads \ hashes[d] :
                          AuthorOf[a] # NoUser}
    <2>1. toDb[d] \in Seq(DbMessage) /\ toDb[d] # <<>>
          /\ AllCarry(toDb[d], posted) /\ Head(toDb[d]).type = "INS"
      BY <1>4 DEF PeerIns, TypeOK, OnlyPostedAds, AllCarry
    <2>2. Head(toDb[d]).ads \subseteq posted
      BY <2>1, QueueStillCarries DEF Carries
    <2>3. docs \in SUBSET {a \in posted : AuthorOf[a] # NoUser}
      BY <2>2
    <2>4. db' = [db EXCEPT ![d] = @ \cup docs] /\ UNCHANGED added
      BY <1>4 DEF PeerIns, DbPutDocs, AddDocument
    <2> HIDE DEF docs
    <2>5. AdRepl!Copy(d)
      BY <2>3, <2>4 DEF AdRepl!Copy, AdRepl!posted, posted
    <2> QED BY <1>4, <2>5 DEF AdRepl!Next
  <1>5. ASSUME NEW d \in Daemons, P2pThread(d) \/ DbThread(d), ~PeerIns(d)
        PROVE  UNCHANGED <<db, added>>
    BY <1>5 DEF P2pThread, DbThread, P2pStart, BcastPeers, BcastHashes,
                SendDbRequests, RecvPeer, AnswerPeer, PassGate, AnswerHash,
                AnswerReq, AnswerDoc, PollDb, AnswerPut, AnswerNew, DbStart,
                PeerGet, BeginUpdate, EndUpdate, dbVars
  <1> QED BY <1>1, <1>2, <1>3, <1>4, <1>5 DEF Next, Client, DbThread

\* The network implements AdReplication: an ad in a database was added there,
\* or is a signed copy of one that was added to another daemon; what leaves with
\* one step are ads of one author (db.cpp:254-256 and :304).
THEOREM Replicates == Spec => ReplicatesAds
  <1> DEFINE Inv == TypeOK /\ HashesCurrent /\ OnlyPostedAds
  <1>1. Inv /\ [Next]_vars => Inv'
    <2>1. TypeOK /\ UNCHANGED vars => TypeOK'
      BY DEF TypeOK, vars, p2pVars, dbVars
    <2>2. TypeOK /\ [Next]_vars => TypeOK'
      BY <2>1, P2pTypeOK, DbTypeOK DEF Next
    <2> QED BY <2>2, StepOnlyPosted, StepHashesCurrent
  <1>2. Init => Inv
    <2>1. Init => HashesCurrent
      BY DEF Init, HashesCurrent
    <2> QED BY <2>1, InitTypeOK, InitOnlyPosted
  <1>3. Inv /\ [Next]_vars => [AdRepl!Next]_AdRepl!vars
    BY StepReplicates
  <1> HIDE DEF Inv
  <1> QED BY <1>1, <1>2, <1>3, InitReplicates, PTL
             DEF Spec, ReplicatesAds, AdRepl!Spec

\* The ads a step takes out of a database are of one author, who removes them.
OneAuthor ==
  \A d \in Daemons : \A a, b \in db[d] \ db'[d] :
    /\ AuthorOf[a] = AuthorOf[b] /\ AuthorOf[a] \in Users
    /\ budget'.rm < budget.rm

\* Every step of the network takes the ads of at most one author.
LEMMA StepOneAuthor == TypeOK /\ Next => OneAuthor
  <1> USE DEF OneAuthor
  <1> SUFFICES ASSUME TypeOK, Next PROVE OneAuthor
    OBVIOUS
  <1>1. PICK e \in Daemons : P2pThread(e) \/ DbThread(e) \/ Client(e)
    BY DEF Next
  <1>2. ASSUME NEW u \in Users, ClientRm(e, u) PROVE OneAuthor
    <2>1. PICK gone : /\ gone \subseteq {a \in db[e] : AuthorOf[a] = u}
                      /\ db' = [db EXCEPT ![e] = @ \ gone]
      BY <1>2 DEF ClientRm, DbRmDocs
    <2>2. \A d \in Daemons : \A a \in db[d] \ db'[d] : AuthorOf[a] = u
      BY <2>1 DEF TypeOK
    <2>3. budget'.rm < budget.rm
      BY <1>2 DEF ClientRm, TypeOK
    <2> QED BY <2>2, <2>3
  <1>3. CASE \A d \in Daemons : db[d] \subseteq db'[d]
    BY <1>3
  <1>4. ASSUME NEW u \in Users, ClientAdd(e, u) PROVE OneAuthor
    BY <1>3, <1>4 DEF ClientAdd, AddDocument, TypeOK
  <1>5. CASE PeerIns(e)
    BY <1>3, <1>5 DEF PeerIns, DbPutDocs, AddDocument, TypeOK
  <1>6. CASE UNCHANGED db
    BY <1>3, <1>6
  <1> QED
    BY <1>1, <1>2, <1>4, <1>5, <1>6
       DEF P2pThread, DbThread, Client, P2pStart, BcastPeers, BcastHashes,
           SendDbRequests, RecvPeer, AnswerPeer, PassGate, AnswerHash,
           AnswerReq, AnswerDoc, PollDb, AnswerPut, AnswerNew, DbStart,
           PeerGet, BeginUpdate, EndUpdate, dbVars

\* Only a "db rm" takes ads out of a database, and only those of one author
\* (db.cpp:304).
THEOREM OneAuthorsAdsLeave == Spec => OnlyOneAuthorsAdsLeave
  <1>1. TypeOK /\ [Next]_vars => [OneAuthor]_vars
    BY StepOneAuthor
  <1>2. Spec => []TypeOK
    BY TypeCorrect
  <1> QED BY <1>1, <1>2, PTL DEF Spec, OnlyOneAuthorsAdsLeave, OneAuthor
=============================================================================
