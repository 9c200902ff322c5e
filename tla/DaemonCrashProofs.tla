------------------------- MODULE DaemonCrashProofs -------------------------
(***************************************************************************)
(* Theorems about DaemonCrash: what restarts and lost messages leave of    *)
(* the invariants of DaemonNet, for any set of daemons, users and ads, and *)
(* any number of restarts.                                                 *)
(***************************************************************************)
EXTENDS DaemonCrash, DaemonRestProofs

-----------------------------------------------------------------------------
(* Queues that lose messages.                                              *)

\* What is left of a queue at either end has the type of the queue, and its
\* messages are messages of the queue.
LEMMA LeftOfQueue ==
  ASSUME NEW S, NEW q \in Seq(S), NEW p \in Prefixes(q) \cup Suffixes(q), NEW A
  PROVE  /\ p \in Seq(S)
         /\ AllCarry(q, A) => AllCarry(p, A)
  <1>1. Len(q) \in Nat
    OBVIOUS
  <1>2. CASE p = <<>>
    BY <1>2 DEF AllCarry
  <1>3. ASSUME NEW m \in 1 .. Len(q) + 1, NEW n \in 0 .. Len(q), p = SubSeq(q, m, n)
        PROVE  /\ p \in Seq(S)
               /\ AllCarry(q, A) => AllCarry(p, A)
    <2>1. p \in Seq(S)
      BY <1>1, <1>3
    <2>2. \A i \in 1 .. Len(p) : p[i] = q[m + i - 1] /\ m + i - 1 \in 1 .. Len(q)
      BY <1>1, <1>3
    <2> QED BY <2>1, <2>2 DEF AllCarry
  <1>4. p = <<>> \/ \E m \in 1 .. Len(q) + 1, n \in 0 .. Len(q) : p = SubSeq(q, m, n)
    <2>1. CASE p \in Prefixes(q)
      <3>1. PICK n \in 0 .. Len(q) : p = SubSeq(q, 1, n)
        BY <2>1 DEF Prefixes
      <3> QED BY <1>1, <3>1
    <2>2. CASE p \in Suffixes(q)
      <3>1. p = <<>> \/ \E m \in 1 .. Len(q) : p = SubSeq(q, m, Len(q))
        BY <2>2 DEF Suffixes
      <3> QED BY <1>1, <3>1
    <2> QED BY <2>1, <2>2
  <1> QED BY <1>2, <1>3, <1>4

\* The links after a restart have their type, and carry what they carried.
LEMMA BrokenLinks ==
  ASSUME TypeOK, NEW d \in Daemons, LinksBreak(d), NEW A,
         \A x, y \in Daemons : AllCarry(chan[x][y], A)
  PROVE  /\ chan' \in [Daemons -> [Daemons -> Seq(P2pMessage)]]
         /\ \A x, y \in Daemons : AllCarry(chan'[x][y], A)
  <1>1. PICK in \in [Daemons -> UNION {Suffixes(chan[e][d]) : e \in Daemons}],
             out \in [Daemons -> UNION {Prefixes(chan[d][e]) : e \in Daemons}] :
          /\ \A e \in Daemons :
               in[e] \in Suffixes(chan[e][d]) /\ out[e] \in Prefixes(chan[d][e])
          /\ chan' = [x \in Daemons |-> [y \in Daemons |->
               CASE y = d -> in[x]
                 [] x = d /\ y # d -> out[y]
                 [] OTHER -> chan[x][y]]]
    BY DEF LinksBreak
  <1>2. \A x, y \in Daemons : chan[x][y] \in Seq(P2pMessage)
    BY DEF TypeOK
  <1>3. ASSUME NEW x \in Daemons, NEW y \in Daemons
        PROVE  chan'[x][y] \in Seq(P2pMessage) /\ AllCarry(chan'[x][y], A)
    <2>1. CASE y = d
      <3>1. chan'[x][y] = in[x] /\ in[x] \in Suffixes(chan[x][y])
        BY <1>1, <2>1
      <3> QED BY <1>2, <3>1, LeftOfQueue
    <2>2. CASE x = d /\ y # d
      <3>1. chan'[x][y] = out[y] /\ out[y] \in Prefixes(chan[x][y])
        BY <1>1, <2>2
      <3> QED BY <1>2, <3>1, LeftOfQueue
    <2>3. CASE x # d /\ y # d
      BY <1>1, <1>2, <2>3
    <2> QED BY <2>1, <2>2, <2>3
  <1>4. chan' = [x \in Daemons |-> [y \in Daemons |-> chan'[x][y]]]
    BY <1>1
  <1> QED BY <1>3, <1>4

-----------------------------------------------------------------------------
(* A restart.                                                              *)

\* What a restart leaves as it was.
LEMMA RestartFrame ==
  ASSUME NEW d \in Daemons, Restart(d)
  PROVE  UNCHANGED <<db, added, budget>> /\ LinksBreak(d) /\ SetUp(d)
  BY DEF Restart

\* A restart keeps the types.
LEMMA RestartTypeOK ==
  ASSUME TypeOK, NEW d \in Daemons, Restart(d)
  PROVE  TypeOK'
  <1>1. UNCHANGED <<db, added, budget>> /\ LinksBreak(d) /\ SetUp(d)
    BY RestartFrame
  <1>2. chan' \in [Daemons -> [Daemons -> Seq(P2pMessage)]]
    <2>1. \A x, y \in Daemons : chan[x][y] \in Seq(P2pMessage)
      BY DEF TypeOK
    <2>2. CASE \A x, y \in Daemons : AllCarry(chan[x][y], Ads)
      BY <1>1, <2>2, BrokenLinks
    <2>3. \A x, y \in Daemons : AllCarry(chan[x][y], Ads)
      <3> SUFFICES ASSUME NEW x \in Daemons, NEW y \in Daemons,
                          NEW i \in 1 .. Len(chan[x][y])
                   PROVE  Carries(chan[x][y][i], Ads)
        BY DEF AllCarry
      <3>1. chan[x][y][i] \in P2pMessage
        BY <2>1
      <3>2. chan[x][y][i].type \notin {"GET", "INS", "PUT"}
        BY <3>1 DEF P2pMessage, PeerMsg, HashMsg, ReqMsg, DocMsg
      <3> QED BY <3>1, <3>2, P2pMessageFields DEF Carries
    <2> QED BY <2>2, <2>3
  <1>3. InitialPeers(d) \in SUBSET Daemons
    BY NetAssumption DEF InitialPeers, DefaultPeers
  <1>4. /\ peers' \in [Daemons -> SUBSET Daemons]
        /\ toBcastPeers' \in [Daemons -> BOOLEAN]
        /\ toBcastHashes' \in [Daemons -> BOOLEAN]
        /\ toSendDbRequests' \in [Daemons -> BOOLEAN]
        /\ dbRequests' \in [Daemons -> [Daemons -> SUBSET Ads]]
    BY <1>1, <1>3 DEF SetUp, TypeOK
  <1>5. /\ p2pPc' \in [Daemons -> {"start", "flush", "hashes", "requests", "poll",
                                  "answer", "read", "db"}]
        /\ inMsg' \in [Daemons -> P2pMessage \cup {NoMsg}]
        /\ dbInput' \in [Daemons -> BOOLEAN]
    BY <1>1 DEF SetUp, TypeOK
  <1>6. /\ hashes' \in [Daemons -> SUBSET Ads]
        /\ dbPc' \in [Daemons -> {"start", "idle", "update", "swap"}]
    BY <1>1 DEF SetUp, TypeOK
  <1>7. /\ toDb' \in [Daemons -> Seq(DbMessage)]
        /\ toP2p' \in [Daemons -> Seq(NoteMessage)]
    BY <1>1 DEF SetUp, TypeOK
  <1> QED BY <1>1, <1>2, <1>4, <1>5, <1>6, <1>7 DEF TypeOK

\* A restarted daemon does not list its hashes until its db thread has done so.
LEMMA RestartHashesCurrent ==
  ASSUME TypeOK, HashesCurrent, NEW d \in Daemons, Restart(d)
  PROVE  HashesCurrent'
  <1>1. UNCHANGED db /\ SetUp(d)
    BY RestartFrame
  <1> SUFFICES ASSUME NEW y \in Daemons, dbPc'[y] = "idle"
               PROVE  hashes'[y] = db'[y]
    BY DEF HashesCurrent
  <1>2. y # d
    BY <1>1 DEF SetUp, TypeOK
  <1>3. dbPc'[y] = dbPc[y] /\ hashes'[y] = hashes[y]
    BY <1>1, <1>2 DEF SetUp, TypeOK
  <1> QED BY <1>1, <1>3 DEF HashesCurrent

\* No ad comes from nowhere by a restart.
LEMMA RestartOnlyPosted ==
  ASSUME TypeOK, OnlyPostedAds, NEW d \in Daemons, Restart(d)
  PROVE  OnlyPostedAds'
  <1>1. UNCHANGED <<db, added, budget>> /\ LinksBreak(d) /\ SetUp(d)
    BY RestartFrame
  <1>2. posted' = posted
    BY <1>1 DEF posted
  <1>3. \A x, y \in Daemons : AllCarry(chan[x][y], posted)
    BY DEF OnlyPostedAds, AllCarry
  <1>4. \A x, y \in Daemons : AllCarry(chan'[x][y], posted)
    BY <1>1, <1>3, BrokenLinks
  <1>5. \A x, y \in Daemons : \A i \in 1 .. Len(chan'[x][y]) :
          Carries(chan'[x][y][i], posted)
    BY <1>4 DEF AllCarry
  <1>6. \A y \in Daemons :
          /\ hashes'[y] \subseteq posted /\ db'[y] \subseteq posted
          /\ Carries(inMsg'[y], posted)
          /\ \A e \in Daemons : dbRequests'[y][e] \subseteq posted
    BY <1>1 DEF SetUp, TypeOK, OnlyPostedAds, Carries, NoMsg
  <1>7. \A y \in Daemons :
          /\ \A i \in 1 .. Len(toDb'[y]) : Carries(toDb'[y][i], posted)
          /\ \A i \in 1 .. Len(toP2p'[y]) : Carries(toP2p'[y][i], posted)
    <2> SUFFICES ASSUME NEW y \in Daemons
                 PROVE  /\ \A i \in 1 .. Len(toDb'[y]) : Carries(toDb'[y][i], posted)
                        /\ \A i \in 1 .. Len(toP2p'[y]) : Carries(toP2p'[y][i], posted)
      OBVIOUS
    <2>1. CASE y = d
      <3>1. toDb'[y] = <<>> /\ toP2p'[y] = <<>>
        BY <1>1, <2>1 DEF SetUp, TypeOK
      <3> QED BY <3>1
    <2>2. CASE y # d
      BY <1>1, <2>2 DEF SetUp, TypeOK, OnlyPostedAds
    <2> QED BY <2>1, <2>2
  <1> QED BY <1>2, <1>5, <1>6, <1>7 DEF OnlyPostedAds, Carries

-----------------------------------------------------------------------------
(* The theorems.                                                           *)

CrashInv == TypeOK /\ HashesCurrent /\ OnlyPostedAds

\* The invariant holds initially.
LEMMA InitCrashInv == CrashInit => CrashInv
  <1>1. Init => HashesCurrent
    BY DEF Init, HashesCurrent
  <1> QED BY <1>1, InitTypeOK, InitOnlyPosted DEF CrashInit, CrashInv

\* Every step of the network keeps it, and so does a restart.
LEMMA StepCrashInv == CrashInv /\ [CrashNext]_crashVars => CrashInv'
  <1> SUFFICES ASSUME CrashInv, [CrashNext]_crashVars PROVE CrashInv'
    OBVIOUS
  <1>1. CASE [Next]_vars
    <2>1. CASE UNCHANGED vars
      BY <2>1, StepOnlyPosted, StepHashesCurrent
         DEF CrashInv, TypeOK, vars, p2pVars, dbVars
    <2>2. ASSUME Next PROVE TypeOK'
      BY <2>2, P2pTypeOK, DbTypeOK DEF Next, CrashInv
    <2> QED BY <1>1, <2>1, <2>2, StepOnlyPosted, StepHashesCurrent DEF CrashInv
  <1>2. ASSUME NEW d \in Daemons, Restart(d) PROVE CrashInv'
    BY <1>2, RestartTypeOK, RestartHashesCurrent, RestartOnlyPosted DEF CrashInv
  <1> QED BY <1>1, <1>2 DEF CrashNext, crashVars

\* The memory of every daemon keeps its types, over any number of restarts.
THEOREM CrashTypeCorrect == CrashSpec => []TypeOK
  <1>1. CrashInv => TypeOK
    BY DEF CrashInv
  <1> QED BY <1>1, InitCrashInv, StepCrashInv, PTL DEF CrashSpec

\* The network with restarts implements AdReplication: no restart, and nothing
\* that is said after it, makes up an ad that nobody added, or stores one without
\* author that was not added there, whatever messages are lost (db.cpp:254-256).
\* A peer may give a daemon an ad again that was removed there.
THEOREM CrashReplicates == CrashSpec => ReplicatesAds
  <1>1. CrashInv /\ [CrashNext]_crashVars => [AdRepl!Next]_AdRepl!vars
    <2> SUFFICES ASSUME CrashInv, [CrashNext]_crashVars
                 PROVE  [AdRepl!Next]_AdRepl!vars
      OBVIOUS
    <2>1. CASE [Next]_vars
      BY <2>1, StepReplicates DEF CrashInv
    <2>2. ASSUME NEW d \in Daemons, Restart(d) PROVE UNCHANGED AdRepl!vars
      BY <2>2, RestartFrame DEF AdRepl!vars
    <2> QED BY <2>1, <2>2 DEF CrashNext, crashVars
  <1>2. CrashInit => AdRepl!Init
    BY InitReplicates DEF CrashInit
  <1> QED BY <1>1, <1>2, InitCrashInv, StepCrashInv, PTL
             DEF CrashSpec, ReplicatesAds, AdRepl!Spec

\* Only a "db rm" takes ads out of a database, and only those of one author:
\* not a restart, and not what peers send to a restarted daemon (db.cpp:304).
THEOREM CrashOneAuthorsAdsLeave == CrashSpec => OnlyOneAuthorsAdsLeave
  <1>1. TypeOK /\ [CrashNext]_crashVars => [OneAuthor]_vars
    <2> SUFFICES ASSUME TypeOK, [CrashNext]_crashVars PROVE [OneAuthor]_vars
      OBVIOUS
    <2>1. CASE [Next]_vars
      BY <2>1, StepOneAuthor
    <2>2. ASSUME NEW d \in Daemons, Restart(d) PROVE OneAuthor
      BY <2>2, RestartFrame DEF OneAuthor
    <2> QED BY <2>1, <2>2 DEF CrashNext, crashVars
  <1> QED BY <1>1, CrashTypeCorrect, PTL
             DEF CrashSpec, OnlyOneAuthorsAdsLeave, OneAuthor

-----------------------------------------------------------------------------
(* What a restarted daemon brings back.                                    *)

\* What a restart keeps of the invariant NetInv of networks without restarts.
NodeInv == TypeOK /\ HashesCurrent /\ Phases /\ PeersKept

\* Ad a of the daemon that was restarted last is known to each of its peers, about
\* to be announced, or on its way.  The restart itself makes it true, whatever it
\* loses; of other daemons it need not be true any more.
LastSpreads(a) ==
  /\ Stored(a)
  /\ last # NoDaemon => \A y \in Daemons : Custody(a, last, y)

CopyInv ==
  /\ NodeInv
  /\ last \in Daemons \cup {NoDaemon}
  /\ budget.rm = MaxRm => \A a \in Signed : LastSpreads(a)

\* It holds initially: no daemon has been restarted.
LEMMA InitCopyInv == CrashInit => CopyInv
  <1>1. Init => NodeInv /\ \A a \in Signed : Stored(a)
    BY InitRestInv DEF NetInv, IInv, NodeInv, Spreading
  <1> QED BY <1>1 DEF CrashInit, CopyInv, LastSpreads

\* A restart makes it true of the daemon that is restarted: that one has all its
\* ads to announce (daemon_p2p_thread.cpp:336-337).
LEMMA RestartSpreads ==
  ASSUME NodeInv, NEW d \in Daemons, Restart(d)
  PROVE  NodeInv' /\ \A a : Stored(a) => LastSpreads(a)'
  <1>1. UNCHANGED <<db, added, budget>> /\ SetUp(d) /\ last' = d
    BY DEF Restart
  <1>2. TypeOK' /\ HashesCurrent'
    BY RestartTypeOK, RestartHashesCurrent DEF NodeInv
  <1>3. Phases'
    <2> SUFFICES ASSUME NEW y \in Daemons
                 PROVE  /\ p2pPc'[y] # "start" => dbPc'[y] # "start"
                        /\ p2pPc'[y] \in {"requests", "poll", "answer", "read"} =>
                             ~toBcastHashes'[y]
                        /\ p2pPc'[y] \in {"poll", "answer", "read"} =>
                             ~toSendDbRequests'[y]
                        /\ p2pPc'[y] \notin {"answer", "read"} => inMsg'[y] = NoMsg
                        /\ \A e \in Daemons : dbRequests'[y][e] # {} =>
                             toSendDbRequests'[y]
      BY DEF Phases
    <2>1. CASE y = d
      <3>1. p2pPc'[y] = "start" /\ inMsg'[y] = NoMsg
            /\ \A e \in Daemons : dbRequests'[y][e] = {}
        BY <1>1, <2>1 DEF SetUp, NodeInv, TypeOK
      <3> QED BY <3>1
    <2>2. CASE y # d
      <3>1. /\ p2pPc'[y] = p2pPc[y] /\ dbPc'[y] = dbPc[y] /\ inMsg'[y] = inMsg[y]
            /\ toBcastHashes'[y] = toBcastHashes[y]
            /\ toSendDbRequests'[y] = toSendDbRequests[y]
            /\ dbRequests'[y] = dbRequests[y]
        BY <1>1, <2>2 DEF SetUp, NodeInv, TypeOK
      <3> QED BY <3>1 DEF NodeInv, Phases
    <2> QED BY <2>1, <2>2
  <1>4. \A a : Stored(a) => Stored(a)'
    BY <1>1 DEF SetUp, NodeInv, TypeOK, Stored
  <1>5. PeersKept'
    <2>1. d \notin InitialPeers(d)
      BY NetAssumption DEF InitialPeers, DefaultPeers
    <2> QED BY <1>1, <2>1 DEF SetUp, NodeInv, TypeOK, PeersKept, InitialPeers, DefaultPeers
  <1>6. AnnounceDue(d)'
    BY <1>1 DEF SetUp, NodeInv, TypeOK, AnnounceDue
  <1> QED BY <1>1, <1>2, <1>3, <1>4, <1>5, <1>6 DEF NodeInv, LastSpreads, Custody

\* Every step of the network keeps it, and so does a restart.
LEMMA StepCopyInv == CopyInv /\ [CrashNext]_crashVars => CopyInv'
  <1> SUFFICES ASSUME CopyInv, [CrashNext]_crashVars PROVE CopyInv'
    OBVIOUS
  <1>1. ASSUME NEW d \in Daemons, Step(d), UNCHANGED last PROVE CopyInv'
    <2>1. NodeInv'
      <3>1. Next
        BY <1>1 DEF Step, Next
      <3>2. TypeOK' /\ HashesCurrent'
        BY <1>1, <3>1, P2pTypeOK, DbTypeOK, StepHashesCurrent
           DEF Step, CopyInv, NodeInv
      <3>3. Phases' /\ PeersKept'
        BY <1>1, PhasesStep, PeersKeptStep DEF CopyInv, NodeInv
      <3> QED BY <3>2, <3>3 DEF NodeInv
    <2>2. ASSUME budget'.rm = MaxRm, NEW a \in Signed PROVE LastSpreads(a)'
      <3>1. Stored(a) /\ Keeps(a) /\ LastSpreads(a)
        BY <1>1, <2>2, NoRmKeeps DEF CopyInv, NodeInv, LastSpreads
      <3>2. Stored(a)'
        BY <1>1, <3>1, StoredStep DEF CopyInv, NodeInv
      <3>3. ASSUME NEW x \in Daemons, last = x, NEW y \in Daemons
            PROVE  Custody(a, x, y)'
        <4>1. Custody(a, x, y)
          BY <3>1, <3>3, RestartsAssumption DEF LastSpreads
        <4> QED BY <1>1, <3>1, <4>1, CustodyStep DEF CopyInv, NodeInv
      <3>4. CASE last = NoDaemon
        BY <1>1, <3>2, <3>4 DEF LastSpreads
      <3>5. CASE last # NoDaemon
        <4>1. PICK x \in Daemons : last = x
          BY <3>5 DEF CopyInv
        <4>2. last' = x
          BY <1>1, <4>1
        <4>3. \A y \in Daemons : Custody(a, x, y)'
          BY <3>3, <4>1
        <4> QED BY <3>2, <4>2, <4>3 DEF LastSpreads, Custody, AnnounceDue, OnItsWay
      <3> QED BY <3>4, <3>5
    <2>3. last' \in Daemons \cup {NoDaemon}
      BY <1>1 DEF CopyInv
    <2> QED BY <2>1, <2>2, <2>3 DEF CopyInv
  <1>2. ASSUME NEW d \in Daemons, Restart(d) PROVE CopyInv'
    <2>1. budget' = budget /\ last' = d
      BY <1>2 DEF Restart
    <2> QED BY <1>2, <2>1, RestartSpreads DEF CopyInv, LastSpreads
  <1>3. CASE UNCHANGED crashVars
    <2>1. UNCHANGED vars /\ UNCHANGED last /\ UNCHANGED budget
      BY <1>3 DEF crashVars, vars, dbVars
    <2>2. NodeInv'
      BY <2>1 DEF vars, p2pVars, dbVars, CopyInv, NodeInv, TypeOK, HashesCurrent, Phases,
                  PeersKept, InitialPeers, DefaultPeers
    <2>3. ASSUME NEW a, LastSpreads(a) PROVE LastSpreads(a)'
      BY <2>1, <2>3 DEF vars, p2pVars, dbVars, LastSpreads, Stored, Custody,
                        AnnounceDue, OnItsWay, Queued
    <2> QED BY <2>1, <2>2, <2>3 DEF CopyInv
  <1> QED BY <1>1, <1>2, <1>3 DEF CrashNext, Next, Step

\* Daemons that are each given all the others as peers lose no ad for good by a
\* restart: at rest, what the restarted one has stored is everywhere
\* (daemon_p2p_thread.cpp:336-337).  A daemon that is told of fewer peers, and
\* forgets the others, may not hear of them again.
THEOREM RestartedAreCopied ==
  ASSUME \A d \in Daemons : InitialPeers(d) = Daemons \ {d}
  PROVE  CrashSpec => []RestartedIsCopied
  <1>1. CopyInv => RestartedIsCopied
    <2> SUFFICES ASSUME CopyInv, Quiescent, last # NoDaemon, budget.rm = MaxRm,
                        NEW e \in Daemons, NEW a \in Signed \cap db[last]
                 PROVE  a \in db[e]
      BY DEF RestartedIsCopied
    <2>1. CASE e # last
      <3>1. last \in Daemons /\ e \in peers[last]
        BY <2>1 DEF CopyInv, NodeInv, PeersKept
      <3>2. ~AnnounceDue(last) /\ ~OnItsWay(a, last, e)
        BY <3>1, RestDelivered DEF CopyInv, NodeInv, Signed
      <3> QED BY <3>1, <3>2 DEF CopyInv, LastSpreads, Custody
    <2> QED BY <2>1
  <1> QED BY <1>1, InitCopyInv, StepCopyInv, PTL DEF CrashSpec
=============================================================================
