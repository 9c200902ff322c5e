----------------------------- MODULE DaemonNet -----------------------------
(***************************************************************************)
(* A network of piac daemons.  A daemon is two threads that share two      *)
(* containers and talk through a pair of inproc sockets:                   *)
(*                                                                         *)
(*   p2p thread (src/daemon_p2p_thread.cpp)  owns my_peers, listens to     *)
(*     peers on a ROUTER socket and sends to each through a DEALER socket; *)
(*   db thread (src/daemon_db_thread.cpp)  owns the ad database and        *)
(*     my_hashes, serves the clients and looks ads up for the p2p thread.  *)
(*                                                                         *)
(* An ad stands for a document and for its hash: the hash of a document is *)
(* its key in the database (db.cpp), so one name serves for both.          *)
(* A link keeps the order of its messages and loses none while both        *)
(* daemons run (ZeroMQ over TCP); messages to a daemon that is not up yet  *)
(* wait in the sender's queue.                                             *)
(*                                                                         *)
(* Addresses.  A daemon calls itself "localhost:<port>", whatever host it  *)
(* is on, and addresses are compared as strings.  Here an address is the   *)
(* daemon it reaches, so the daemons are those of one host, and --peer     *)
(* arguments name each by the address it gives itself.                     *)
(***************************************************************************)
EXTENDS Naturals, Sequences, FiniteSets

CONSTANTS
  Daemons,      \* the daemons, each named by the address it gives itself
  Users,        \* the authors of ads
  NoUser,       \* the author of a document that carries none
  Ads,          \* the ads ever written, each standing for its hash too
  PosterOf,     \* the user who adds the ad
  AuthorOf,     \* the author the stored document names
  PeerArgs,     \* the --peer arguments of each daemon, in those names
  Port,         \* the peer-to-peer port each daemon is bound to
  DefaultPort,  \* the hard-coded peer-to-peer port
  InitDb,       \* what each daemon's database holds when it is started
  MaxAdd,       \* bound on the number of "db add" commands
  MaxRm         \* bound on the number of "db rm" commands

ASSUME UsersAssumption == NoUser \notin Users
ASSUME AdsAssumption ==
  /\ PosterOf \in [Ads -> Users]
  /\ AuthorOf \in [Ads -> Users \cup {NoUser}]
ASSUME NetAssumption ==
  /\ PeerArgs \in [Daemons -> SUBSET Daemons]
  /\ Port \in [Daemons -> Nat]
  /\ \A d, e \in Daemons : d # e => Port[d] # Port[e]
  /\ DefaultPort \in Nat
ASSUME InitDbAssumption == InitDb \in [Daemons -> SUBSET Ads]
ASSUME BoundsAssumption == MaxAdd \in Nat /\ MaxRm \in Nat

VARIABLES
  peers,             \* my_peers: the peers a daemon has a DEALER socket for
  toBcastPeers,      \* to_bcast_peers
  toBcastHashes,     \* to_bcast_hashes
  toSendDbRequests,  \* to_send_db_requests
  dbRequests,        \* db_requests: ads to ask for, by the peer that has them
  p2pPc,             \* where the p2p thread is in its loop
  inMsg,             \* the message the p2p thread has received from a peer
  dbInput,           \* poller.has_input( db_p2p ) at the p2p thread's last poll
  hashes,            \* my_hashes, as the db thread last published it
  db,                \* the ads in the database
  dbPc,              \* where the db thread is in its loop
  chan,              \* chan[d][e]: the messages on their way from d to e
  toDb,              \* inproc://db_p2p towards the db thread
  toP2p,             \* inproc://db_p2p towards the p2p thread
  added,             \* history: the ads users have added to each daemon
  budget             \* the client commands still allowed

p2pVars == <<peers, toBcastPeers, toBcastHashes, toSendDbRequests, dbRequests,
             p2pPc, inMsg, dbInput>>
dbVars  == <<hashes, db, dbPc, added, budget>>
vars    == <<p2pVars, dbVars, chan, toDb, toP2p>>

\* The ads that have been added, to any daemon.
posted == UNION {added[d] : d \in Daemons}

-----------------------------------------------------------------------------
(* Messages.                                                               *)

NoMsg == [type |-> "none"]

PeerMsg    == [type : {"PEER"}, peers : SUBSET Daemons]
HashMsg    == [type : {"HASH"}, from : Daemons, ads : SUBSET Ads]
ReqMsg     == [type : {"REQ"}, from : Daemons, ads : SUBSET Ads]
DocMsg     == [type : {"DOC"}, ads : SUBSET Ads]
P2pMessage == PeerMsg \cup HashMsg \cup ReqMsg \cup DocMsg

GetMsg     == [type : {"GET"}, from : Daemons, ads : SUBSET Ads]
InsMsg     == [type : {"INS"}, ads : SUBSET Ads]
DbMessage  == GetMsg \cup InsMsg

PutMsg     == [type : {"PUT"}, from : Daemons, ads : SUBSET Ads]
NewMsg     == [type : {"NEW"}]
NoteMessage == PutMsg \cup NewMsg

\* A daemon up to port p tries the ports from the default one upwards; every
\* port below the one it is bound to is taken for a peer's.
DefaultPeers(d) == {e \in Daemons : DefaultPort <= Port[e] /\ Port[e] < Port[d]}
InitialPeers(d) == (PeerArgs[d] \ {d}) \cup DefaultPeers(d)

-----------------------------------------------------------------------------
(* The gate: a reader of my_hashes takes g_hashes_mtx, waits until         *)
(* g_hashes_access holds and releases the mutex.  It then reads my_hashes  *)
(* without the mutex, so that the db thread may be refilling the set       *)
(* meanwhile: a reader may see any mixture of old and new elements.  A     *)
(* HASH whose count, written first, exceeds the elements then read makes   *)
(* its receiver throw: it takes no step any more, as a daemon always may   *)
(* in Spec, and never does under the fairness of FairSpec.                 *)

\* Mutant: the gate is open before the first hashes are there.
GateOpenEarly(d) == dbPc[d] # "swap"

\* Mutant: g_hashes_access is never set.
GateNeverOpen(d) == dbPc[d] \notin {"start", "idle", "update", "swap"}

GateOpen(d) == dbPc[d] \notin {"start", "swap"}

HashViews(d) ==
  IF dbPc[d] = "swap" THEN SUBSET (hashes[d] \cup db[d]) ELSE {hashes[d]}

-----------------------------------------------------------------------------
(* The p2p thread.                                                         *)

\* chan with msgs[e] added to the queue from d to e, for each e msgs names.
Sent(d, msgs) ==
  [chan EXCEPT ![d] = [e \in Daemons |->
     IF e \in DOMAIN msgs THEN Append(chan[d][e], msgs[e]) ELSE chan[d][e]]]

\* The loop is entered when the db thread has published the first hashes.
P2pStart(d) ==
  /\ p2pPc[d] = "start"
  /\ GateOpen(d)
  /\ p2pPc' = [p2pPc EXCEPT ![d] = "flush"]
  /\ UNCHANGED <<peers, toBcastPeers, toBcastHashes, toSendDbRequests,
                 dbRequests, inMsg, dbInput, dbVars, chan, toDb, toP2p>>

\* Mutant: the sender's own address is not in the list of peers.
BcastPeersNotSelf(d) ==
  /\ p2pPc[d] = "flush"
  /\ toBcastHashes[d] => GateOpen(d)
  /\ LET to == {e \in peers[d] : toBcastPeers[d]}
     IN  chan' = Sent(d, [e \in to |-> [type |-> "PEER", peers |-> peers[d]]])
  /\ toBcastPeers' = [toBcastPeers EXCEPT ![d] = FALSE]
  /\ p2pPc' = [p2pPc EXCEPT ![d] = IF toBcastHashes[d] THEN "hashes"
                                                       ELSE "requests"]
  /\ UNCHANGED <<peers, toBcastHashes, toSendDbRequests, dbRequests, inMsg,
                 dbInput, dbVars, toDb, toP2p>>

\* p2p_bcast_peers, and p2p_bcast_hashes up to the gate.
BcastPeers(d) ==
  /\ p2pPc[d] = "flush"
  /\ toBcastHashes[d] => GateOpen(d)
  /\ LET to == {e \in peers[d] : toBcastPeers[d]}
     IN  chan' = Sent(d, [e \in to |->
                   [type |-> "PEER", peers |-> {d} \cup peers[d]]])
  /\ toBcastPeers' = [toBcastPeers EXCEPT ![d] = FALSE]
  /\ p2pPc' = [p2pPc EXCEPT ![d] = IF toBcastHashes[d] THEN "hashes"
                                                       ELSE "requests"]
  /\ UNCHANGED <<peers, toBcastHashes, toSendDbRequests, dbRequests, inMsg,
                 dbInput, dbVars, toDb, toP2p>>

\* p2p_bcast_hashes past the gate: my_hashes is read once for every peer.
BcastHashes(d) ==
  /\ p2pPc[d] = "hashes"
  /\ \E view \in [peers[d] -> HashViews(d)] :
       chan' = Sent(d, [e \in peers[d] |->
                 [type |-> "HASH", from |-> d, ads |-> view[e]]])
  /\ toBcastHashes' = [toBcastHashes EXCEPT ![d] = FALSE]
  /\ p2pPc' = [p2pPc EXCEPT ![d] = "requests"]
  /\ UNCHANGED <<peers, toBcastPeers, toSendDbRequests, dbRequests, inMsg,
                 dbInput, dbVars, toDb, toP2p>>

\* p2p_send_db_requests.  my_peers.at throws, and the daemon dies, if one of
\* the addresses is no peer's: PeersKnown says that this guard always holds.
SendDbRequests(d) ==
  LET asked == {e \in Daemons : toSendDbRequests[d] /\ dbRequests[d][e] # {}}
  IN  /\ p2pPc[d] = "requests"
      /\ asked \subseteq peers[d]
      /\ chan' = Sent(d, [e \in asked |->
                   [type |-> "REQ", from |-> d, ads |-> dbRequests[d][e]]])
      /\ dbRequests' = [dbRequests EXCEPT ![d] = [e \in Daemons |->
           IF e \in asked THEN {} ELSE dbRequests[d][e]]]
      /\ toSendDbRequests' = [toSendDbRequests EXCEPT ![d] = FALSE]
      /\ p2pPc' = [p2pPc EXCEPT ![d] = "poll"]
      /\ UNCHANGED <<peers, toBcastPeers, toBcastHashes, inMsg, dbInput,
                     dbVars, toDb, toP2p>>

\* poller.poll reports a message from peer e; it is received.
RecvPeer(d, e) ==
  /\ p2pPc[d] = "poll"
  /\ chan[e][d] # <<>>
  /\ inMsg' = [inMsg EXCEPT ![d] = Head(chan[e][d])]
  /\ chan' = [chan EXCEPT ![e][d] = Tail(@)]
  /\ dbInput' = [dbInput EXCEPT ![d] = toP2p[d] # <<>>]
  /\ p2pPc' = [p2pPc EXCEPT ![d] = "answer"]
  /\ UNCHANGED <<peers, toBcastPeers, toBcastHashes, toSendDbRequests,
                 dbRequests, dbVars, toDb, toP2p>>

\* poller.poll reports a message from the db thread only: what peers have sent
\* has not arrived yet.
PollDb(d) ==
  /\ p2pPc[d] = "poll"
  /\ toP2p[d] # <<>>
  /\ p2pPc' = [p2pPc EXCEPT ![d] = "db"]
  /\ UNCHANGED <<peers, toBcastPeers, toBcastHashes, toSendDbRequests,
                 dbRequests, inMsg, dbInput, dbVars, chan, toDb, toP2p>>

\* What follows p2p_answer_p2p: the db thread's message if the poll saw one.
Answered(d) ==
  /\ inMsg' = [inMsg EXCEPT ![d] = NoMsg]
  /\ dbInput' = [dbInput EXCEPT ![d] = FALSE]
  /\ p2pPc' = [p2pPc EXCEPT ![d] = IF dbInput[d] THEN "db" ELSE "flush"]

\* Mutant: new peers are not told to the others.
AnswerPeerQuiet(d) ==
  /\ p2pPc[d] = "answer"
  /\ inMsg[d].type = "PEER"
  /\ LET found == inMsg[d].peers \ ({d} \cup peers[d])
     IN  /\ peers' = [peers EXCEPT ![d] = @ \cup found]
         /\ toBcastHashes' = [toBcastHashes EXCEPT ![d] = @ \/ found # {}]
  /\ Answered(d)
  /\ UNCHANGED <<toBcastPeers, toSendDbRequests, dbRequests, dbVars, chan,
                 toDb, toP2p>>

\* p2p_answer_p2p, PEER.
AnswerPeer(d) ==
  /\ p2pPc[d] = "answer"
  /\ inMsg[d].type = "PEER"
  /\ LET found == inMsg[d].peers \ ({d} \cup peers[d])
     IN  /\ peers' = [peers EXCEPT ![d] = @ \cup found]
         /\ toBcastPeers' = [toBcastPeers EXCEPT ![d] = @ \/ found # {}]
         /\ toBcastHashes' = [toBcastHashes EXCEPT ![d] = @ \/ found # {}]
  /\ Answered(d)
  /\ UNCHANGED <<toSendDbRequests, dbRequests, dbVars, chan, toDb, toP2p>>

\* p2p_answer_p2p, HASH and DOC up to the gate.
PassGate(d) ==
  /\ p2pPc[d] = "answer"
  /\ inMsg[d].type \in {"HASH", "DOC"}
  /\ GateOpen(d)
  /\ p2pPc' = [p2pPc EXCEPT ![d] = "read"]
  /\ UNCHANGED <<peers, toBcastPeers, toBcastHashes, toSendDbRequests,
                 dbRequests, inMsg, dbInput, dbVars, chan, toDb, toP2p>>

\* p2p_answer_p2p, HASH past the gate.
AnswerHash(d) ==
  /\ p2pPc[d] = "read"
  /\ inMsg[d].type = "HASH"
  /\ \E view \in HashViews(d) :
       LET missing == inMsg[d].ads \ view
       IN  /\ dbRequests' = [dbRequests EXCEPT
                               ![d][inMsg[d].from] = @ \cup missing]
           /\ toSendDbRequests' = [toSendDbRequests EXCEPT
                                     ![d] = @ \/ missing # {}]
  /\ Answered(d)
  /\ UNCHANGED <<peers, toBcastPeers, toBcastHashes, dbVars, chan, toDb, toP2p>>

\* p2p_answer_p2p, REQ.
AnswerReq(d) ==
  /\ p2pPc[d] = "answer"
  /\ inMsg[d].type = "REQ"
  /\ toDb' = [toDb EXCEPT ![d] =
       Append(@, [type |-> "GET", from |-> inMsg[d].from,
                  ads |-> inMsg[d].ads])]
  /\ Answered(d)
  /\ UNCHANGED <<peers, toBcastPeers, toBcastHashes, toSendDbRequests,
                 dbRequests, dbVars, chan, toP2p>>

\* p2p_answer_p2p, DOC past the gate: an INS is sent even when all is known.
AnswerDoc(d) ==
  /\ p2pPc[d] = "read"
  /\ inMsg[d].type = "DOC"
  /\ \E view \in HashViews(d) :
       toDb' = [toDb EXCEPT ![d] =
         Append(@, [type |-> "INS", ads |-> inMsg[d].ads \ view])]
  /\ Answered(d)
  /\ UNCHANGED <<peers, toBcastPeers, toBcastHashes, toSendDbRequests,
                 dbRequests, dbVars, chan, toP2p>>

\* p2p_answer_db, PUT; my_peers.at throws for an address that is no peer's.
AnswerPut(d) ==
  /\ p2pPc[d] = "db"
  /\ toP2p[d] # <<>>
  /\ Head(toP2p[d]).type = "PUT"
  /\ Head(toP2p[d]).from \in peers[d]
  /\ chan' = Sent(d, [e \in {Head(toP2p[d]).from} |->
                    [type |-> "DOC", ads |-> Head(toP2p[d]).ads]])
  /\ toP2p' = [toP2p EXCEPT ![d] = Tail(@)]
  /\ p2pPc' = [p2pPc EXCEPT ![d] = "flush"]
  /\ UNCHANGED <<peers, toBcastPeers, toBcastHashes, toSendDbRequests,
                 dbRequests, inMsg, dbInput, dbVars, toDb>>

\* p2p_answer_db, NEW.
AnswerNew(d) ==
  /\ p2pPc[d] = "db"
  /\ toP2p[d] # <<>>
  /\ Head(toP2p[d]).type = "NEW"
  /\ toBcastHashes' = [toBcastHashes EXCEPT ![d] = TRUE]
  /\ toP2p' = [toP2p EXCEPT ![d] = Tail(@)]
  /\ p2pPc' = [p2pPc EXCEPT ![d] = "flush"]
  /\ UNCHANGED <<peers, toBcastPeers, toSendDbRequests, dbRequests, inMsg,
                 dbInput, dbVars, chan, toDb>>

-----------------------------------------------------------------------------
(* The database (db.cpp).                                                  *)

\* add_document: a document is kept under its hash, and so only once.
AddDocument(store, docs) == store \cup docs

\* index_db: what a file adds are its documents that my_hashes lacks.
IndexDb(file, have) == file \ have

\* db_put_docs refuses the documents of peers that carry no author.
DbPutDocs(store, docs) ==
  AddDocument(store, {a \in docs : AuthorOf[a] # NoUser})

\* db_get_docs leaves out what has gone since it was announced.
DbGetDocs(store, wanted) == wanted \cap store

\* db_rm_docs: what may be left when u removes the named ads.  They are visited
\* in no particular order; the first one of another author ends the command,
\* and the ads of u visited before it are gone.
DbRmDocs(u, store, have, named) ==
  LET found == named \cap have \cap store
      own   == {a \in found : AuthorOf[a] = u}
  IN  {store \ gone : gone \in IF own = found THEN {own} ELSE SUBSET own}

-----------------------------------------------------------------------------
(* The db thread.                                                          *)

\* The first db_update_hashes: nobody is past the gate yet.
DbStart(d) ==
  /\ dbPc[d] = "start"
  /\ hashes' = [hashes EXCEPT ![d] = db[d]]
  /\ dbPc' = [dbPc EXCEPT ![d] = "idle"]
  /\ UNCHANGED <<p2pVars, db, added, budget, chan, toDb, toP2p>>

\* "db add json <file>" from user u: the ads of the file that my_hashes lacks
\* are stored.  None are if the file cannot be read, and db_thread goes on alike.
ClientAdd(d, u) ==
  /\ dbPc[d] = "idle"
  /\ budget.add > 0
  /\ \E file \in SUBSET {a \in Ads : PosterOf[a] = u} :
       /\ db' = [db EXCEPT ![d] = AddDocument(@, IndexDb(file, hashes[d]))]
       /\ added' = [added EXCEPT ![d] = @ \cup file]
  /\ budget' = [budget EXCEPT !.add = @ - 1]
  /\ dbPc' = [dbPc EXCEPT ![d] = "update"]
  /\ UNCHANGED <<p2pVars, hashes, chan, toDb, toP2p>>

\* Mutant: the author of an ad is not compared with the user.
ClientRmAny(d, u) ==
  /\ dbPc[d] = "idle"
  /\ budget.rm > 0
  /\ \E named \in SUBSET Ads : db' = [db EXCEPT ![d] = @ \ named]
  /\ budget' = [budget EXCEPT !.rm = @ - 1]
  /\ dbPc' = [dbPc EXCEPT ![d] = "update"]
  /\ UNCHANGED <<p2pVars, hashes, added, chan, toDb, toP2p>>

\* "db rm <hashes>" from user u.
ClientRm(d, u) ==
  /\ dbPc[d] = "idle"
  /\ budget.rm > 0
  /\ \E named \in SUBSET Ads :
       \E left \in DbRmDocs(u, db[d], hashes[d], named) :
         db' = [db EXCEPT ![d] = left]
  /\ budget' = [budget EXCEPT !.rm = @ - 1]
  /\ dbPc' = [dbPc EXCEPT ![d] = "update"]
  /\ UNCHANGED <<p2pVars, hashes, added, chan, toDb, toP2p>>

\* Mutant: the answer repeats the command it answers.
PeerGetEcho(d) ==
  /\ dbPc[d] = "idle"
  /\ toDb[d] # <<>>
  /\ Head(toDb[d]).type = "GET"
  /\ toP2p' = [toP2p EXCEPT ![d] = Append(@, Head(toDb[d]))]
  /\ toDb' = [toDb EXCEPT ![d] = Tail(@)]
  /\ UNCHANGED <<p2pVars, dbVars, chan>>

\* db_peer_op, GET: a PUT is sent even when nothing was found.
PeerGet(d) ==
  /\ dbPc[d] = "idle"
  /\ toDb[d] # <<>>
  /\ Head(toDb[d]).type = "GET"
  /\ toP2p' = [toP2p EXCEPT ![d] =
       Append(@, [type |-> "PUT", from |-> Head(toDb[d]).from,
                  ads |-> DbGetDocs(db[d], Head(toDb[d]).ads)])]
  /\ toDb' = [toDb EXCEPT ![d] = Tail(@)]
  /\ UNCHANGED <<p2pVars, dbVars, chan>>

\* Mutant: documents without an author are stored as well.
PeerInsAll(d) ==
  /\ dbPc[d] = "idle"
  /\ toDb[d] # <<>>
  /\ Head(toDb[d]).type = "INS"
  /\ LET docs == Head(toDb[d]).ads \ hashes[d]
     IN  /\ db' = [db EXCEPT ![d] = @ \cup docs]
         /\ dbPc' = [dbPc EXCEPT ![d] = IF docs = {} THEN "idle" ELSE "update"]
  /\ toDb' = [toDb EXCEPT ![d] = Tail(@)]
  /\ UNCHANGED <<p2pVars, hashes, added, budget, chan, toP2p>>

\* db_peer_op, INS: what is still unknown is stored; the hashes are listed anew
\* only if something was unknown.
PeerIns(d) ==
  /\ dbPc[d] = "idle"
  /\ toDb[d] # <<>>
  /\ Head(toDb[d]).type = "INS"
  /\ LET docs == Head(toDb[d]).ads \ hashes[d]
     IN  /\ db' = [db EXCEPT ![d] = DbPutDocs(@, docs)]
         /\ dbPc' = [dbPc EXCEPT ![d] = IF docs = {} THEN "idle" ELSE "update"]
  /\ toDb' = [toDb EXCEPT ![d] = Tail(@)]
  /\ UNCHANGED <<p2pVars, hashes, added, budget, chan, toP2p>>

\* db_update_hashes: the mutex is held and the set is being refilled.
BeginUpdate(d) ==
  /\ dbPc[d] = "update"
  /\ dbPc' = [dbPc EXCEPT ![d] = "swap"]
  /\ UNCHANGED <<p2pVars, hashes, db, added, budget, chan, toDb, toP2p>>

\* Mutant: the p2p thread is not told of new documents.
EndUpdateSilent(d) ==
  /\ dbPc[d] = "swap"
  /\ hashes' = [hashes EXCEPT ![d] = db[d]]
  /\ dbPc' = [dbPc EXCEPT ![d] = "idle"]
  /\ UNCHANGED <<p2pVars, db, added, budget, chan, toDb, toP2p>>

\* The set is complete, the mutex is released and the p2p thread is told, in one
\* step: in between it could but read the new set, as it may when it is told.
EndUpdate(d) ==
  /\ dbPc[d] = "swap"
  /\ hashes' = [hashes EXCEPT ![d] = db[d]]
  /\ toP2p' = [toP2p EXCEPT ![d] = Append(@, [type |-> "NEW"])]
  /\ dbPc' = [dbPc EXCEPT ![d] = "idle"]
  /\ UNCHANGED <<p2pVars, db, added, budget, chan, toDb>>

-----------------------------------------------------------------------------
(* The specification.                                                      *)

Init ==
  /\ peers = [d \in Daemons |-> InitialPeers(d)]
  /\ toBcastPeers = [d \in Daemons |-> TRUE]
  /\ toBcastHashes = [d \in Daemons |-> TRUE]
  /\ toSendDbRequests = [d \in Daemons |-> FALSE]
  /\ dbRequests = [d \in Daemons |-> [e \in Daemons |-> {}]]
  /\ p2pPc = [d \in Daemons |-> "start"]
  /\ inMsg = [d \in Daemons |-> NoMsg]
  /\ dbInput = [d \in Daemons |-> FALSE]
  /\ hashes = [d \in Daemons |-> {}]
  /\ db = InitDb
  /\ dbPc = [d \in Daemons |-> "start"]
  /\ chan = [d \in Daemons |-> [e \in Daemons |-> <<>>]]
  /\ toDb = [d \in Daemons |-> <<>>]
  /\ toP2p = [d \in Daemons |-> <<>>]
  /\ added = InitDb
  /\ budget = [add |-> MaxAdd, rm |-> MaxRm]

P2pThread(d) ==
  \/ P2pStart(d) \/ BcastPeers(d) \/ BcastHashes(d) \/ SendDbRequests(d)
  \/ \E e \in Daemons : RecvPeer(d, e)
  \/ AnswerPeer(d) \/ PassGate(d) \/ AnswerHash(d) \/ AnswerReq(d)
  \/ AnswerDoc(d)
  \/ PollDb(d) \/ AnswerPut(d) \/ AnswerNew(d)

DbThread(d) ==
  \/ DbStart(d) \/ PeerGet(d) \/ PeerIns(d) \/ BeginUpdate(d) \/ EndUpdate(d)

Client(d) == \E u \in Users : ClientAdd(d, u) \/ ClientRm(d, u)

Next == \E d \in Daemons : P2pThread(d) \/ DbThread(d) \/ Client(d)

Spec == Init /\ [][Next]_vars

\* Both threads are scheduled by the operating system and block only in a poll
\* or at the gate; clients need never come.
Fairness ==
  \A d \in Daemons : WF_vars(P2pThread(d)) /\ WF_vars(DbThread(d))

FairSpec == Spec /\ Fairness

-----------------------------------------------------------------------------
(* Properties.                                                             *)

\* Every variable keeps its type: the containers hold what daemon.cpp:516-521
\* declares, the queues only the messages the two threads and the peers know.
TypeOK ==
  /\ peers \in [Daemons -> SUBSET Daemons]
  /\ toBcastPeers \in [Daemons -> BOOLEAN]
  /\ toBcastHashes \in [Daemons -> BOOLEAN]
  /\ toSendDbRequests \in [Daemons -> BOOLEAN]
  /\ dbRequests \in [Daemons -> [Daemons -> SUBSET Ads]]
  /\ p2pPc \in [Daemons -> {"start", "flush", "hashes", "requests", "poll",
                            "answer", "read", "db"}]
  /\ inMsg \in [Daemons -> P2pMessage \cup {NoMsg}]
  /\ dbInput \in [Daemons -> BOOLEAN]
  /\ hashes \in [Daemons -> SUBSET Ads]
  /\ db \in [Daemons -> SUBSET Ads]
  /\ dbPc \in [Daemons -> {"start", "idle", "update", "swap"}]
  /\ chan \in [Daemons -> [Daemons -> Seq(P2pMessage)]]
  /\ toDb \in [Daemons -> Seq(DbMessage)]
  /\ toP2p \in [Daemons -> Seq(NoteMessage)]
  /\ added \in [Daemons -> SUBSET Ads]
  /\ budget \in [add : 0 .. MaxAdd, rm : 0 .. MaxRm]

\* my_peers.at( addr ) never throws (daemon_p2p_thread.cpp:126 and :281): a
\* daemon knows every peer it is about to ask and every peer it has to answer.
\* It rests on PEER being sent, and so received, before the first HASH and REQ,
\* and on every daemon being known by the address it gives itself.
PeersKnown ==
  \A d \in Daemons :
    /\ \A e \in Daemons : dbRequests[d][e] # {} => e \in peers[d]
    /\ \A i \in 1 .. Len(toDb[d]) :
         toDb[d][i].type = "GET" => toDb[d][i].from \in peers[d]
    /\ \A i \in 1 .. Len(toP2p[d]) :
         toP2p[d][i].type = "PUT" => toP2p[d][i].from \in peers[d]

\* The peers of d once it has answered the message it holds.
PeersSoon(d) ==
  peers[d] \cup (IF inMsg[d].type = "PEER" THEN inMsg[d].peers \ {d} ELSE {})

\* x is introduced to y: y knows x, or one of the first n messages on their
\* link is going to tell it.
Introduced(x, y, n) ==
  \/ x \in PeersSoon(y)
  \/ \E i \in 1 .. n : chan[x][y][i].type = "PEER"

Link(x, y) ==
  LET q == chan[x][y]
  IN  /\ q # <<>> => x # y
      /\ y \in peers[x] /\ ~toBcastPeers[x] => Introduced(x, y, Len(q))
      /\ \A i \in 1 .. Len(q) :
           /\ q[i].type = "PEER" => x \in q[i].peers
           /\ q[i].type \in {"HASH", "REQ"} =>
                q[i].from = x /\ Introduced(x, y, i - 1)

Held(d) ==
  /\ d \notin peers[d]
  /\ p2pPc[d] \in {"hashes", "requests", "poll", "answer", "read"} =>
       ~toBcastPeers[d]
  /\ p2pPc[d] \notin {"answer", "read"} => inMsg[d] = NoMsg
  /\ inMsg[d].type \in {"HASH", "REQ"} => inMsg[d].from \in peers[d]

\* A daemon introduces itself before it talks: on every link a HASH or a REQ
\* comes from a daemon the receiver knows, or follows a PEER that names it
\* (the order of daemon_p2p_thread.cpp:355-357, kept by ZeroMQ).
Introductions ==
  /\ \A d \in Daemons : Held(d)
  /\ \A x, y \in Daemons : Link(x, y)

Signed == {a \in Ads : AuthorOf[a] # NoUser}

\* Nothing is left to do but to wait for a client.
Quiescent ==
  \A d \in Daemons :
    /\ p2pPc[d] = "poll" /\ dbPc[d] = "idle"
    /\ toDb[d] = <<>> /\ toP2p[d] = <<>>
    /\ \A e \in Daemons : chan[d][e] = <<>>

\* "eventually all peers find each other" (doc/communication.md:44): a network
\* that has come to rest has lost no introduction.
RestKnowsAll == Quiescent => \A d \in Daemons : peers[d] = Daemons \ {d}

\* "the union of all ads every peer having the same ads in their database"
\* (doc/communication.md:50): at rest no announcement, request, answer or note
\* to the p2p thread has been lost, whatever torn set of hashes was announced.
\* Documents without an author are left out: peers refuse them (db.cpp:256); so
\* are networks in which ads are removed, which need not agree (RestSynced).
RestAgrees ==
  Quiescent /\ budget.rm = MaxRm => \A d \in Daemons :
    /\ db[d] \subseteq posted
    /\ Signed \cap posted \subseteq db[d]

\* Ads leave a database by a "db rm" only, and those of one command are of one
\* author (db.cpp:304); no message of a peer takes an ad away.
OnlyOneAuthorsAdsLeave ==
  [][\A d \in Daemons : \A a, b \in db[d] \ db'[d] :
       /\ AuthorOf[a] = AuthorOf[b] /\ AuthorOf[a] \in Users
       /\ budget'.rm < budget.rm]_vars

\* Whenever the db thread takes a command, my_hashes lists its database.
HashesCurrent == \A d \in Daemons : dbPc[d] = "idle" => hashes[d] = db[d]

\* The ads a message carries are among those in A.
Carries(m, A) ==
  m.type \in {"HASH", "REQ", "DOC", "GET", "INS", "PUT"} => m.ads \subseteq A

\* Every ad a daemon stores, knows of, asks for or is sent was added somewhere.
OnlyPostedAds ==
  \A d \in Daemons :
    /\ hashes[d] \subseteq posted /\ db[d] \subseteq posted
    /\ Carries(inMsg[d], posted)
    /\ \A e \in Daemons :
         /\ dbRequests[d][e] \subseteq posted
         /\ \A i \in 1 .. Len(chan[d][e]) : Carries(chan[d][e][i], posted)
    /\ \A i \in 1 .. Len(toDb[d]) : Carries(toDb[d][i], posted)
    /\ \A i \in 1 .. Len(toP2p[d]) : Carries(toP2p[d][i], posted)

\* The network implements AdReplication: an ad that enters a database was added
\* there or has come, unchanged and signed, from a daemon it was added to; so
\* no REQ, PUT, DOC or INS ever names an ad that nobody added.
AdRepl == INSTANCE AdReplication WITH store <- db
ReplicatesAds == AdRepl!Spec

\* Under fair scheduling, and once clients stay away, daemons stop talking:
\* no ad is asked for over and over, not even one that is always refused.
ComesToRest == <>[]Quiescent

\* "Synchronization between the threads are facilitated by
\* std::condition_variables" (doc/communication.md:127): the p2p thread does not
\* read my_hashes while the db thread refills it.
NoTornRead ==
  \A d \in Daemons : p2pPc[d] \in {"hashes", "read"} => dbPc[d] # "swap"

\* The assertion of daemon_db_thread.cpp:186: an INS carries a document.
InsNotEmpty ==
  \A d \in Daemons : \A i \in 1 .. Len(toDb[d]) :
    toDb[d][i].type = "INS" => toDb[d][i].ads # {}

\* The assertion of daemon_p2p_thread.cpp:273: a PUT carries a document.
PutNotEmpty ==
  \A d \in Daemons : \A i \in 1 .. Len(toP2p[d]) :
    toP2p[d][i].type = "PUT" => toP2p[d][i].ads # {}

\* "Changes to the database are automatically synced among peers"
\* (doc/communication.md:61), removals included: a network at rest agrees.
RestSynced == Quiescent => \A d, e \in Daemons : db[d] = db[e]

\* Under fair scheduling a signed ad that has got into one database gets into
\* all of them (doc/communication.md:47-51), if nobody removes ads.
EveryAdSpreads ==
  \A a \in Signed : a \in posted ~> \A d \in Daemons : a \in db[d]

\* Under fair scheduling all peers find each other (doc/communication.md:44).
AllFindEachOther == <>[](\A d \in Daemons : peers[d] = Daemons \ {d})
=============================================================================
