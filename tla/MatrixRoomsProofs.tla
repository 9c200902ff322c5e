------------------------- MODULE MatrixRoomsProofs -------------------------
(***************************************************************************)
(* The matrix client keeps the promises of RoomSessions, for any number of *)
(* people, devices, rooms, messages, logins and restarts.                  *)
(***************************************************************************)
EXTENDS MatrixRooms, WellFoundedInduction, TLAPS

\* What load() takes from disk: nothing, when there is nothing that can be parsed.
Saved == IF disk \in {NoFile, Torn} THEN EmptyStorage ELSE disk

\* Requests for rooms are made by commands of the user, and every message that a
\* session has encrypted was one (cli_matrix_thread.cpp:818-838).
CommandsPay ==
  /\ \A q \in reqs : q.type = "create" => q.cmd \in 1 .. Len(asked)
  /\ \A r \in Rooms : /\ storage.groupOut[r] <= Len(asked)
                       /\ Saved.groupOut[r] <= Len(asked)

\* Devices are listed under their owners (save_device_keys,
\* cli_matrix_thread.cpp:552-580).
OwnersKnown ==
  \A p \in People :
    /\ \A d \in storage.devices[p] : OwnerOf[d] = p
    /\ \A d \in Saved.devices[p] : OwnerOf[d] = p

\* Without a session nothing is under way: matrix_thread ends when the last
\* request has been answered (cli_matrix_thread.cpp:1145-1146).  The file has been
\* emptied when the storage is being written to it (328).
IdleEmpty ==
  /\ status \in {"new", "off", "saving", "crashed"} => reqs = {}
  /\ status = "saving" => disk = NoFile

\* A room has people at the server before it has a session; the answer to the
\* request for a room finds none in it, and comes once (invite_room).
RoomsOnce ==
  /\ \A r \in Rooms :
       storage.groupOut[r] # 0 \/ Saved.groupOut[r] # 0 => srv[r] # {}
  /\ \A q \in reqs : q.type = "create" /\ q.room # 0 =>
       /\ srv[q.room] # {}
       /\ storage.groupOut[q.room] = 0 /\ Saved.groupOut[q.room] = 0
  /\ \A q1, q2 \in reqs :
       q1.type = "create" /\ q2.type = "create" /\ q1.room # 0
         /\ q1.room = q2.room => q1 = q2

\* Keys are under way to devices of the people of rooms that have a session
\* (create_outbound_megolm_session, cli_matrix_thread.cpp:689-700).
KeysToMembers ==
  \A q \in reqs : q.type \in {"claim", "key"} =>
    storage.groupOut[q.room] # 0 /\ OwnerOf[q.dev] \in storage.members[q.room]

\* The inductive invariant.
IInv ==
  /\ TypeOK /\ CommandsPay /\ OwnersKnown /\ IdleEmpty /\ RoomsOnce
  /\ KeysToMembers

-----------------------------------------------------------------------------
(* Lemmas about the model's operators.                                     *)

\* A set of natural numbers that is not empty has a least element.
LEMMA LeastOfRooms ==
  ASSUME NEW S, S \subseteq Rooms, S # {}
  PROVE  Min(S) \in S
  <1>1. S \subseteq Nat
    BY BoundsAssumption DEF Rooms
  <1> DEFINE R == {s \in Nat \X Nat : s[1] < s[2]}
  <1>2. IsWellFoundedOn(R, Nat)
    BY NatLessThanWellFounded DEF OpToRel
  <1>3. \A x, y \in Nat : x < y => <<x, y>> \in R
    OBVIOUS
  <1> HIDE DEF R
  <1>4. PICK x \in S : \A y \in S : ~(<<y, x>> \in R)
    BY <1>1, <1>2, WFMin
  <1>5. \A y \in S : x <= y
    <2> SUFFICES ASSUME NEW y \in S PROVE x <= y
      OBVIOUS
    <2>1. x \in Nat /\ y \in Nat /\ ~(y < x)
      BY <1>1, <1>3, <1>4
    <2> QED BY <2>1
  <1> QED BY <1>5 DEF Min

\* in_room finds a room that the user and the client's user have been seen in,
\* or none (cli_matrix_thread.cpp:196-201).
LEMMA InRoomSeen ==
  ASSUME NEW u
  PROVE  \/ InRoom(u) = 0
         \/ InRoom(u) \in Rooms /\ {Me, u} \subseteq storage.members[InRoom(u)]
  <1> DEFINE both == {r \in Rooms : {Me, u} \subseteq storage.members[r]}
  <1>1. CASE both = {}
    BY <1>1 DEF InRoom
  <1>2. CASE both # {}
    <2>1. Min(both) \in both
      BY <1>2, LeastOfRooms
    <2> QED BY <1>2, <2>1 DEF InRoom
  <1> QED BY <1>1, <1>2

\* Requests have the fields of their kind.
LEMMA RequestFields ==
  ASSUME NEW q \in Request
  PROVE  /\ q.type \in {"create", "invite", "join", "query", "claim", "key", "post"}
         /\ q.type = "create" => q.cmd \in 1 .. MaxMsgs /\ q.room \in {0} \cup Rooms
         /\ q.type = "invite" => q.room \in Rooms /\ q.user \in People
         /\ q.type = "join"   => q.room \in Rooms
         /\ q.type = "query"  => q.user \in People
         /\ q.type = "claim"  => q.room \in Rooms /\ q.dev \in Devices
         /\ q.type = "key"    => q.room \in Rooms /\ q.dev \in Devices
         /\ q.type = "post"   => q.room \in Rooms
  <1>1. CASE \E n \in 1 .. MaxMsgs, r \in {0} \cup Rooms : q = Create(n, r)
    BY <1>1 DEF Create
  <1>2. CASE \E r \in Rooms, p \in People : q = Invite(r, p)
    BY <1>2 DEF Invite
  <1>3. CASE \E r \in Rooms : q = JoinRoom(r)
    BY <1>3 DEF JoinRoom
  <1>4. CASE \E p \in People : q = Query(p)
    BY <1>4 DEF Query
  <1>5. CASE \E r \in Rooms, d \in Devices : q = Claim(r, d)
    BY <1>5 DEF Claim
  <1>6. CASE \E r \in Rooms, d \in Devices, ok \in BOOLEAN : q = ToDevice(r, d, ok)
    BY <1>6 DEF ToDevice
  <1>7. CASE \E r \in Rooms, i \in 1 .. MaxMsgs, n \in 0 .. MaxMsgs : q = Post(r, i, n)
    BY <1>7 DEF Post
  <1> QED BY <1>1, <1>2, <1>3, <1>4, <1>5, <1>6, <1>7 DEF Request

\* Requests are made of what they are about.
LEMMA RequestMade ==
  /\ \A n \in 1 .. MaxMsgs, r \in {0} \cup Rooms : Create(n, r) \in Request
  /\ \A r \in Rooms, p \in People : Invite(r, p) \in Request
  /\ \A r \in Rooms : JoinRoom(r) \in Request
  /\ \A p \in People : Query(p) \in Request
  /\ \A r \in Rooms, d \in Devices : Claim(r, d) \in Request
  /\ \A r \in Rooms, d \in Devices, ok \in BOOLEAN : ToDevice(r, d, ok) \in Request
  /\ \A r \in Rooms, i \in 1 .. MaxMsgs, n \in 0 .. MaxMsgs :
       Post(r, i, n) \in Request
  BY DEF Request

\* The kinds of the requests that are made.
LEMMA RequestTypes ==
  /\ \A n, r : Create(n, r).type = "create" /\ Create(n, r).cmd = n
                 /\ Create(n, r).room = r
  /\ \A r, p : Invite(r, p).type = "invite"
  /\ \A r : JoinRoom(r).type = "join"
  /\ \A p : Query(p).type = "query"
  /\ \A r, d : Claim(r, d).type = "claim" /\ Claim(r, d).room = r
                 /\ Claim(r, d).dev = d
  /\ \A r, d, ok : ToDevice(r, d, ok).type = "key" /\ ToDevice(r, d, ok).room = r
                     /\ ToDevice(r, d, ok).dev = d
  /\ \A r, i, n : Post(r, i, n).type = "post"
  BY DEF Create, Invite, JoinRoom, Query, Claim, ToDevice, Post

-----------------------------------------------------------------------------
(* Types.                                                                  *)

\* The parts of a storage.
LEMMA StorageParts ==
  ASSUME NEW s \in Storage
  PROVE  /\ s.devices \in [People -> SUBSET Devices]
         /\ s.members \in [Rooms -> SUBSET People]
         /\ s.olmOut \in SUBSET Devices
         /\ s.groupOut \in [Rooms -> 0 .. MaxMsgs]
         /\ s.groupIn \in SUBSET (Rooms \X People)
         /\ s = [devices |-> s.devices, members |-> s.members,
                 olmOut |-> s.olmOut, groupOut |-> s.groupOut,
                 groupIn |-> s.groupIn]
  BY DEF Storage

\* A storage is made of its parts.
LEMMA StorageMade ==
  ASSUME NEW v \in [People -> SUBSET Devices], NEW m \in [Rooms -> SUBSET People],
         NEW o \in SUBSET Devices, NEW g \in [Rooms -> 0 .. MaxMsgs],
         NEW i \in SUBSET (Rooms \X People)
  PROVE  [devices |-> v, members |-> m, olmOut |-> o, groupOut |-> g,
          groupIn |-> i] \in Storage
  BY DEF Storage

\* A client that starts without a file has an empty storage.
LEMMA EmptyType == EmptyStorage \in Storage
  <1>1. 0 \in 0 .. MaxMsgs
    BY BoundsAssumption
  <1> QED BY <1>1 DEF EmptyStorage, Storage

\* What load() leaves in memory is a storage.
LEMMA LoadedType ==
  ASSUME TypeOK
  PROVE  Loaded(storage) \in Storage
  <1>1. storage \in Storage
    BY DEF TypeOK
  <1>2. CASE disk \in {NoFile, Torn}
    BY <1>1, <1>2 DEF Loaded
  <1>3. CASE disk \notin {NoFile, Torn}
    <2> DEFINE g == [r \in Rooms |-> IF disk.groupOut[r] # 0
                       THEN disk.groupOut[r] ELSE storage.groupOut[r]]
    <2>1. disk \in Storage
      BY <1>3 DEF TypeOK
    <2>2. g \in [Rooms -> 0 .. MaxMsgs]
      BY <1>1, <2>1, StorageParts
    <2>3. storage.olmOut \cup disk.olmOut \in SUBSET Devices
      BY <1>1, <2>1, StorageParts
    <2>4. storage.groupIn \cup disk.groupIn \in SUBSET (Rooms \X People)
      BY <1>1, <2>1, StorageParts
    <2>5. Loaded(storage) =
            [devices |-> disk.devices, members |-> disk.members,
             olmOut |-> storage.olmOut \cup disk.olmOut, groupOut |-> g,
             groupIn |-> storage.groupIn \cup disk.groupIn]
      BY <1>3 DEF Loaded
    <2> HIDE DEF g
    <2>6. /\ disk.devices \in [People -> SUBSET Devices]
          /\ disk.members \in [Rooms -> SUBSET People]
      BY <2>1, StorageParts
    <2> QED BY <2>2, <2>3, <2>4, <2>5, <2>6, StorageMade
  <1> QED BY <1>2, <1>3

\* What the server has for the next sync.
News == [invites : SUBSET Rooms, members : SUBSET (Rooms \X People),
         keys : SUBSET (Rooms \X People), posts : SUBSET (Rooms \X People)]

\* The types of what is at the server.
LEMMA ServerTypes ==
  ASSUME IInv
  PROVE  /\ srv \in [Rooms -> SUBSET People] /\ mine \subseteq Rooms
         /\ posts \in SUBSET (Rooms \X People) /\ unseen \in News
         /\ asked \in Seq(Others) /\ Len(asked) <= MaxMsgs
  BY DEF IInv, TypeOK, News

\* The session of a room after i messages.
LEMMA RatchetType ==
  ASSUME storage \in Storage, NEW r \in Rooms, NEW i \in 0 .. MaxMsgs
  PROVE  /\ [storage EXCEPT !.groupOut[r] = i] \in Storage
         /\ [storage EXCEPT !.groupOut[r] = i].members = storage.members
         /\ [storage EXCEPT !.groupOut[r] = i].devices = storage.devices
         /\ [storage EXCEPT !.groupOut[r] = i].groupIn = storage.groupIn
         /\ [storage EXCEPT !.groupOut[r] = i].groupOut =
              [storage.groupOut EXCEPT ![r] = i]
  BY DEF Storage

-----------------------------------------------------------------------------
(* The steps.                                                              *)

\* The invariant holds initially: nothing is stored or under way.
LEMMA InitIInv == Init => IInv
  <1> SUFFICES ASSUME Init PROVE IInv
    OBVIOUS
  <1> USE BoundsAssumption
  <1>1. storage = EmptyStorage /\ disk = NoFile /\ Saved = EmptyStorage
    BY DEF Init, Saved
  <1>2. /\ unseen \in [invites : SUBSET Rooms, members : SUBSET (Rooms \X People),
                       keys : SUBSET (Rooms \X People),
                       posts : SUBSET (Rooms \X People)]
        /\ asked \in Seq(Others) /\ Len(asked) = 0
        /\ srv \in [Rooms -> SUBSET People]
        /\ holders \in [Rooms -> SUBSET Devices]
    BY DEF Init, NothingNew
  <1>3. TypeOK
    <2>1. spent \in [Rooms -> 0 .. MaxMsgs] /\ lost \in BOOLEAN
      <3>1. 0 \in 0 .. MaxMsgs
        OBVIOUS
      <3> QED BY <3>1 DEF Init
    <2>2. /\ storage \in Storage /\ disk \in Storage \cup {NoFile, Torn}
          /\ logins \in 0 .. MaxLogins /\ starts \in 0 .. MaxStarts
          /\ Len(asked) <= MaxMsgs
      BY <1>1, <1>2, EmptyType DEF Init
    <2> QED BY <1>2, <2>1, <2>2 DEF Init, TypeOK
  <1>4. CommandsPay /\ RoomsOnce
    BY <1>1, <1>2 DEF Init, CommandsPay, RoomsOnce, EmptyStorage
  <1>5. OwnersKnown /\ KeysToMembers /\ IdleEmpty
    BY <1>1 DEF Init, OwnersKnown, KeysToMembers, IdleEmpty, EmptyStorage
  <1> QED BY <1>3, <1>4, <1>5 DEF IInv

\* Most steps leave the sessions of rooms, and the file, as they are, forget
\* nobody and send no key.
LEMMA RestStays ==
  ASSUME IInv, TypeOK', OwnersKnown', IdleEmpty',
         UNCHANGED <<disk, asked>>,
         storage'.groupOut = storage.groupOut,
         \A r \in Rooms : /\ storage.members[r] \subseteq storage'.members[r]
                          /\ srv[r] # {} => srv'[r] # {},
         \A q \in reqs' \ reqs : q.type \notin {"create", "claim", "key"}
  PROVE  IInv'
  <1>1. Saved' = Saved
    BY DEF Saved
  <1>2. \A q \in reqs : q.type = "create" /\ q.room # 0 => q.room \in Rooms
    BY RequestFields DEF IInv, TypeOK
  <1>3. \A q \in reqs : q.type \in {"claim", "key"} => q.room \in Rooms
    BY RequestFields DEF IInv, TypeOK
  <1>4. CommandsPay'
    BY <1>1 DEF IInv, CommandsPay
  <1>5. RoomsOnce'
    BY <1>1, <1>2 DEF IInv, RoomsOnce
  <1>6. KeysToMembers'
    BY <1>3 DEF IInv, KeysToMembers
  <1> QED BY <1>4, <1>5, <1>6 DEF IInv

\* A session starts, with what is in memory and in the file.
LEMMA LoginIInv ==
  ASSUME IInv, Login
  PROVE  IInv'
  <1>1. /\ storage' = Loaded(storage) /\ reqs = {} /\ reqs' = {}
        /\ status' \in {"initial", "closing"} /\ logins' = logins + 1
        /\ logins < MaxLogins
        /\ UNCHANGED <<srv, mine, posts, holders, failed, keyed, missed,
                       spent, lost, disk, asked, starts>>
    BY DEF Login, IInv, IdleEmpty, historyVars
  <1>2. storage' \in Storage
    BY <1>1, LoadedType DEF IInv
  <1>3. unseen' \in [invites : SUBSET Rooms, members : SUBSET (Rooms \X People),
                     keys : SUBSET (Rooms \X People),
                     posts : SUBSET (Rooms \X People)]
    BY DEF Login, IInv, TypeOK
  <1>4. logins' \in 0 .. MaxLogins
    BY <1>1, BoundsAssumption DEF IInv, TypeOK
  <1>5. TypeOK'
    BY <1>1, <1>2, <1>3, <1>4 DEF IInv, TypeOK
  <1>6. Saved' = Saved
    BY <1>1 DEF Saved
  <1>7. \A r \in Rooms : \/ storage'.groupOut[r] = storage.groupOut[r]
                         \/ storage'.groupOut[r] = Saved.groupOut[r]
    BY <1>1 DEF Loaded, Saved
  <1>8. storage'.devices = storage.devices \/ storage'.devices = Saved.devices
    BY <1>1 DEF Loaded, Saved
  <1>9. CommandsPay'
    BY <1>1, <1>6, <1>7 DEF IInv, CommandsPay
  <1>10. OwnersKnown'
    BY <1>6, <1>8 DEF IInv, OwnersKnown
  <1>11. RoomsOnce'
    BY <1>1, <1>6, <1>7 DEF IInv, RoomsOnce
  <1> QED BY <1>1, <1>5, <1>9, <1>10, <1>11 DEF IInv, IdleEmpty, KeysToMembers

\* The session ends, and the file is emptied to be written, or cannot be opened.
LEMMA LogoutIInv ==
  ASSUME IInv, Logout
  PROVE  IInv'
  <1>1. /\ \/ disk' = disk /\ status' = "off"
           \/ disk' = NoFile /\ status' = "saving"
        /\ reqs = {} /\ lost' \in BOOLEAN
        /\ UNCHANGED <<storage, reqs, srv, mine, posts, unseen, holders,
                       failed, keyed, missed, spent, asked, logins, starts>>
    BY DEF Logout, clientVars, serverVars, IInv, TypeOK
  <1>2. TypeOK'
    BY <1>1 DEF IInv, TypeOK
  <1>3. Saved' = Saved \/ Saved' = EmptyStorage
    BY <1>1 DEF Saved
  <1>4. CommandsPay'
    <2>1. \A r \in Rooms : EmptyStorage.groupOut[r] = 0
      BY DEF EmptyStorage
    <2>2. Len(asked) \in Nat
      BY DEF IInv, TypeOK
    <2> QED BY <1>1, <1>3, <2>1, <2>2 DEF IInv, CommandsPay
  <1>5. OwnersKnown' /\ RoomsOnce'
    BY <1>1, <1>3 DEF IInv, OwnersKnown, RoomsOnce, EmptyStorage
  <1> QED BY <1>1, <1>2, <1>4, <1>5 DEF IInv, IdleEmpty, KeysToMembers

\* The file has been written.
LEMMA SaveIInv ==
  ASSUME IInv, Save
  PROVE  IInv'
  <1>1. /\ disk' = storage /\ status' = "off" /\ status = "saving" /\ reqs = {}
        /\ UNCHANGED <<storage, reqs, srv, mine, posts, unseen, holders,
                       failed, keyed, missed, spent, lost, asked, logins,
                       starts>>
    BY DEF Save, clientVars, serverVars, historyVars, IInv, IdleEmpty
  <1>2. TypeOK'
    BY <1>1 DEF IInv, TypeOK
  <1>3. Saved' = storage
    BY <1>1, FileAssumption DEF Saved, IInv, TypeOK
  <1> QED BY <1>1, <1>2, <1>3
             DEF IInv, CommandsPay, OwnersKnown, IdleEmpty, RoomsOnce,
                 KeysToMembers

\* The process ends or is started again: its memory is lost, and its requests.  It
\* may have been writing the file.
LEMMA MemoryLostIInv ==
  ASSUME IInv, storage' = EmptyStorage, reqs' = {}, TypeOK', status' # "saving",
         Saved' \in {Saved, EmptyStorage, storage}, UNCHANGED srv,
         Len(asked) <= Len(asked')
  PROVE  IInv'
  <1>1. /\ \A r \in Rooms : EmptyStorage.groupOut[r] = 0
        /\ \A p \in People : EmptyStorage.devices[p] = {}
    BY DEF EmptyStorage
  <1>2. CommandsPay'
    <2>1. Len(asked) \in Nat /\ Len(asked') \in Nat
      BY DEF IInv, TypeOK
    <2>2. \A r \in Rooms : Saved.groupOut[r] \in Nat /\ storage.groupOut[r] \in Nat
      <3>1. Saved \in Storage /\ storage \in Storage
        BY EmptyType DEF Saved, IInv, TypeOK
      <3> QED BY <3>1, StorageParts
    <2>3. \A r \in Rooms : Saved'.groupOut[r] <= Len(asked')
      BY <1>1, <2>1, <2>2 DEF IInv, CommandsPay
    <2> QED BY <1>1, <2>1, <2>3 DEF CommandsPay
  <1>3. OwnersKnown'
    BY <1>1 DEF IInv, OwnersKnown
  <1>4. RoomsOnce'
    BY <1>1 DEF IInv, RoomsOnce
  <1> QED BY <1>2, <1>3, <1>4 DEF IInv, IdleEmpty, KeysToMembers

\* "msg" asks for a room.
LEMMA MsgNewRoomIInv ==
  ASSUME IInv, NEW u \in Others, MsgNewRoom(u)
  PROVE  IInv'
  <1> DEFINE n == Len(asked) + 1
             q == Create(n, 0)
  <1>1. /\ asked' = Append(asked, u) /\ reqs' = reqs \cup {q}
        /\ Len(asked) < MaxMsgs /\ status \notin {"new", "off", "saving", "crashed"}
        /\ UNCHANGED <<storage, srv, mine, posts, unseen, holders, failed,
                       keyed, missed, spent, lost, disk, status, logins,
                       starts>>
    BY DEF MsgNewRoom, Syncing, serverVars, historyVars
  <1>2. /\ asked' \in Seq(Others) /\ Len(asked') = n /\ Len(asked) \in Nat
        /\ n \in 1 .. MaxMsgs
    BY <1>1, BoundsAssumption DEF IInv, TypeOK
  <1>3. /\ q \in Request
        /\ q.type = "create" /\ q.cmd = n /\ q.room = 0
    BY <1>2, RequestMade, RequestTypes
  <1> HIDE DEF q
  <1>4. TypeOK'
    BY <1>1, <1>2, <1>3 DEF IInv, TypeOK
  <1>5. Saved' = Saved
    BY <1>1 DEF Saved
  <1>6. CommandsPay'
    <2>1. \A r \in Rooms : storage.groupOut[r] \in Nat /\ Saved.groupOut[r] \in Nat
      <3>1. storage \in Storage /\ Saved \in Storage
        BY EmptyType DEF Saved, IInv, TypeOK
      <3> QED BY <3>1, StorageParts
    <2> QED BY <1>1, <1>2, <1>3, <1>5, <2>1 DEF IInv, CommandsPay
  <1>7. RoomsOnce'
    BY <1>1, <1>3, <1>5 DEF IInv, RoomsOnce
  <1>8. KeysToMembers'
    BY <1>1, <1>3 DEF IInv, KeysToMembers
  <1> QED BY <1>1, <1>4, <1>5, <1>6, <1>7, <1>8 DEF IInv, OwnersKnown, IdleEmpty

\* "msg" writes to a room with a session: its ratchet moves on.
LEMMA MsgKnownRoomIInv ==
  ASSUME IInv, NEW u \in Others, MsgKnownRoom(u)
  PROVE  IInv'
  <1> DEFINE r == InRoom(u)
             i == storage.groupOut[r] + 1
             n == Len(asked) + 1
             q == Post(r, i, n)
  <1>1. /\ asked' = Append(asked, u) /\ reqs' = reqs \cup {q}
        /\ storage' = [storage EXCEPT !.groupOut[r] = i]
        /\ spent' = [spent EXCEPT ![r] = i]
        /\ r # 0 /\ storage.groupOut[r] # 0
        /\ Len(asked) < MaxMsgs /\ status \notin {"new", "off", "saving", "crashed"}
        /\ UNCHANGED <<srv, mine, posts, unseen, holders, failed, keyed,
                       missed, lost, disk, status, logins, starts>>
    BY DEF MsgKnownRoom, Syncing, serverVars, historyVars
  <1>2. r \in Rooms
    BY <1>1, InRoomSeen
  <1>3. /\ asked' \in Seq(Others) /\ Len(asked') = n /\ Len(asked) \in Nat
        /\ n \in 1 .. MaxMsgs
    BY <1>1, BoundsAssumption DEF IInv, TypeOK
  <1>4. storage \in Storage /\ Saved \in Storage
    BY EmptyType DEF Saved, IInv, TypeOK
  <1>5. \A x \in Rooms : storage.groupOut[x] \in Nat /\ Saved.groupOut[x] \in Nat
    BY <1>4, StorageParts
  <1>6. i \in 1 .. MaxMsgs /\ i <= n
    <2>1. storage.groupOut[r] <= Len(asked)
      BY <1>2 DEF IInv, CommandsPay
    <2> QED BY <1>1, <1>2, <1>3, <1>5, <2>1, BoundsAssumption
  <1>7. q \in Request /\ q.type = "post"
    <2>1. i \in 1 .. MaxMsgs /\ n \in 0 .. MaxMsgs
      BY <1>3, <1>6
    <2> HIDE DEF i, n, r
    <2> QED BY <1>2, <2>1, RequestMade, RequestTypes
  <1>8. /\ storage' \in Storage /\ storage'.members = storage.members
        /\ storage'.devices = storage.devices
        /\ storage'.groupOut = [storage.groupOut EXCEPT ![r] = i]
    <2>1. i \in 0 .. MaxMsgs
      BY <1>6
    <2> HIDE DEF i, r
    <2> QED BY <1>1, <1>2, <1>4, <2>1, RatchetType
  <1>9. \A x \in Rooms : storage'.groupOut[x] =
                           IF x = r THEN i ELSE storage.groupOut[x]
    BY <1>4, <1>8, StorageParts
  <1>10. i # 0 /\ i \in 0 .. MaxMsgs
    BY <1>6
  <1> HIDE DEF q, r, i, n
  <1>11. TypeOK'
    <2>1. spent' \in [Rooms -> 0 .. MaxMsgs]
      BY <1>1, <1>10 DEF IInv, TypeOK
    <2> QED BY <1>1, <1>3, <1>7, <1>8, <2>1 DEF IInv, TypeOK
  <1>12. Saved' = Saved
    BY <1>1 DEF Saved
  <1>13. CommandsPay'
    <2>1. \A x \in Rooms : storage'.groupOut[x] <= n /\ Saved.groupOut[x] <= n
      BY <1>3, <1>5, <1>6, <1>9 DEF IInv, CommandsPay, n
    <2>2. \A y \in reqs' : y.type = "create" => y.cmd \in 1 .. n
      BY <1>1, <1>3, <1>7 DEF IInv, CommandsPay, n
    <2> QED BY <1>3, <1>12, <2>1, <2>2 DEF CommandsPay
  <1>14. RoomsOnce'
    <2>1. \A y \in reqs : y.type = "create" /\ y.room # 0 =>
            y.room \in Rooms /\ y.room # r
      BY <1>1, RequestFields DEF IInv, TypeOK, RoomsOnce
    <2> QED BY <1>1, <1>2, <1>7, <1>9, <1>12, <2>1 DEF IInv, RoomsOnce
  <1>15. KeysToMembers'
    <2>1. \A y \in reqs : y.type \in {"claim", "key"} => y.room \in Rooms
      BY RequestFields DEF IInv, TypeOK
    <2> QED BY <1>1, <1>7, <1>8, <1>9, <1>10, <2>1 DEF IInv, KeysToMembers
  <1> QED BY <1>1, <1>8, <1>11, <1>12, <1>13, <1>14, <1>15
             DEF IInv, OwnersKnown, IdleEmpty

\* The server makes a room nobody has been in.
LEMMA RoomMadeIInv ==
  ASSUME IInv, NEW q \in reqs, RoomMade(q)
  PROVE  IInv'
  <1>1. PICK r \in Rooms :
          /\ srv[r] = {}
          /\ srv' = [srv EXCEPT ![r] = {Me, asked[q.cmd]}]
          /\ mine' = mine \cup {r}
          /\ unseen' = [unseen EXCEPT
               !.members = @ \cup ({r} \X {Me, asked[q.cmd]})]
          /\ reqs' = (reqs \ {q}) \cup {Create(q.cmd, r)}
    BY DEF RoomMade
  <1> DEFINE n == Create(q.cmd, r)
  <1>2. /\ q.type = "create" /\ q.room = 0
        /\ UNCHANGED <<storage, posts, holders, failed, keyed, missed, spent,
                       lost, disk, status, asked, logins, starts>>
    BY DEF RoomMade, historyVars, userVars
  <1>3. q \in Request /\ q.cmd \in 1 .. MaxMsgs /\ q.cmd \in 1 .. Len(asked)
    BY <1>2, RequestFields DEF IInv, TypeOK, CommandsPay
  <1>4. {Me, asked[q.cmd]} \subseteq People
    BY <1>3 DEF IInv, TypeOK, People
  <1>5. n \in Request /\ n.type = "create" /\ n.cmd = q.cmd /\ n.room = r
    <2>1. q.cmd \in 1 .. MaxMsgs /\ r \in {0} \cup Rooms
      BY <1>3
    <2>2. n \in Request
      BY <2>1, RequestMade
    <2>3. n.type = "create" /\ n.cmd = q.cmd /\ n.room = r
      BY RequestTypes
    <2> QED BY <2>2, <2>3
  <1> HIDE DEF n
  <1>6. TypeOK'
    <2>1. srv' \in [Rooms -> SUBSET People]
      BY <1>1, <1>4 DEF IInv, TypeOK
    <2>2. unseen' \in [invites : SUBSET Rooms, members : SUBSET (Rooms \X People),
                       keys : SUBSET (Rooms \X People),
                       posts : SUBSET (Rooms \X People)]
      BY <1>1, <1>4 DEF IInv, TypeOK
    <2>3. reqs' \subseteq Request
      BY <1>1, <1>5 DEF IInv, TypeOK, n
    <2> QED BY <1>1, <1>2, <2>1, <2>2, <2>3 DEF IInv, TypeOK
  <1>7. Saved' = Saved
    BY <1>2 DEF Saved
  <1>8. CommandsPay'
    BY <1>1, <1>2, <1>3, <1>5, <1>7 DEF IInv, CommandsPay, n
  <1>9. RoomsOnce'
    <2>1. \A x \in Rooms : srv'[x] = IF x = r THEN {Me, asked[q.cmd]} ELSE srv[x]
      BY <1>1 DEF IInv, TypeOK
    <2>2. storage.groupOut[r] = 0 /\ Saved.groupOut[r] = 0
      BY <1>1 DEF IInv, RoomsOnce
    <2>3. \A y \in reqs : y.type = "create" /\ y.room # 0 =>
            y.room \in Rooms /\ y.room # r
      BY <1>1, RequestFields DEF IInv, TypeOK, RoomsOnce
    <2>4. reqs' = (reqs \ {q}) \cup {n}
      BY <1>1 DEF n
    <2>5. \A x \in Rooms : storage'.groupOut[x] # 0 \/ Saved'.groupOut[x] # 0 =>
            srv'[x] # {}
      BY <1>2, <1>7, <2>1, <2>2 DEF IInv, RoomsOnce
    <2>6. \A y \in reqs' : y.type = "create" /\ y.room # 0 =>
            /\ srv'[y.room] # {}
            /\ storage'.groupOut[y.room] = 0 /\ Saved'.groupOut[y.room] = 0
      BY <1>2, <1>5, <1>7, <2>1, <2>2, <2>3, <2>4 DEF IInv, RoomsOnce
    <2>7. \A x, y \in reqs' :
            x.type = "create" /\ y.type = "create" /\ x.room # 0
              /\ x.room = y.room => x = y
      BY <1>5, <2>3, <2>4 DEF IInv, RoomsOnce
    <2> QED BY <2>5, <2>6, <2>7 DEF RoomsOnce
  <1>10. KeysToMembers'
    BY <1>1, <1>2, <1>5 DEF IInv, KeysToMembers, n
  <1>11. status \notin {"new", "off", "saving", "crashed"}
    BY DEF IInv, IdleEmpty
  <1> QED BY <1>2, <1>6, <1>7, <1>8, <1>9, <1>10, <1>11
             DEF IInv, OwnersKnown, IdleEmpty

\* The keys of a new session, and the message, are sent to the room's people.
LEMMA OutboundRequests ==
  ASSUME IInv, NEW r \in Rooms, NEW text \in 0 .. MaxMsgs, 1 <= MaxMsgs
  PROVE  \A q \in OutboundSession(r, text) :
           /\ q \in Request
           /\ q.type \in {"claim", "key", "post"}
           /\ q.type \in {"claim", "key"} =>
                q.room = r /\ OwnerOf[q.dev] \in storage.members[r]
  <1>1. ListedDevices(r) \subseteq Devices
    BY StorageParts DEF ListedDevices, IInv, TypeOK
  <1>2. \A d \in ListedDevices(r) : OwnerOf[d] \in storage.members[r]
    <2>1. \A p \in storage.members[r] : p \in People
      BY StorageParts DEF IInv, TypeOK
    <2> QED BY <2>1 DEF ListedDevices, IInv, OwnersKnown
  <1> SUFFICES ASSUME NEW q \in OutboundSession(r, text)
               PROVE  /\ q \in Request
                      /\ q.type \in {"claim", "key", "post"}
                      /\ q.type \in {"claim", "key"} =>
                           q.room = r /\ OwnerOf[q.dev] \in storage.members[r]
    OBVIOUS
  <1>3. CASE \E d \in ListedDevices(r) : q = Claim(r, d)
    BY <1>1, <1>2, <1>3, RequestMade, RequestTypes
  <1>4. CASE \E d \in ListedDevices(r) : q = ToDevice(r, d, FALSE)
    <2>1. PICK d \in ListedDevices(r) : q = ToDevice(r, d, FALSE)
      BY <1>4
    <2>2. q \in Request
      <3>1. d \in Devices /\ FALSE \in BOOLEAN
        BY <1>1
      <3>2. ToDevice(r, d, FALSE) \in Request
        BY <3>1, RequestMade
      <3> QED BY <2>1, <3>2
    <2> QED BY <1>2, <2>1, <2>2 DEF ToDevice
  <1>5. CASE q = Post(r, 1, text)
    <2>1. 1 \in 1 .. MaxMsgs
      BY BoundsAssumption
    <2> QED BY <1>5, <2>1, RequestMade, RequestTypes
  <1> QED BY <1>3, <1>4, <1>5 DEF OutboundSession

\* The answer to the request for a room: the user is invited, and a session is
\* begun if people have been seen in the room.
LEMMA RoomAnsweredIInv ==
  ASSUME IInv, NEW q \in reqs, RoomAnswered(q)
  PROVE  IInv'
  <1> DEFINE r == q.room
  <1>1. /\ q.type = "create" /\ r # 0
        /\ UNCHANGED <<srv, mine, posts, unseen, holders, failed, keyed,
                       missed, lost, disk, status, asked, logins, starts>>
    BY DEF RoomAnswered, serverVars, historyVars, userVars
  <1>2. PICK n \in {q.cmd, Len(asked)}, text \in {q.cmd, Len(asked), Garbage} :
          reqs' = (reqs \ {q}) \cup {Invite(r, asked[n])}
                    \cup (IF storage.members[r] # {}
                          THEN OutboundSession(r, text) ELSE {})
    BY DEF RoomAnswered
  <1>3. storage' = IF storage.members[r] # {}
                   THEN [storage EXCEPT !.groupOut[r] = 1] ELSE storage
    BY DEF RoomAnswered
  <1>4. /\ q \in Request /\ r \in Rooms /\ q.cmd \in 1 .. Len(asked)
        /\ Len(asked) \in 1 .. MaxMsgs /\ 1 <= MaxMsgs
    <2>1. q \in Request /\ r \in Rooms /\ q.cmd \in 1 .. Len(asked)
      BY <1>1, RequestFields DEF IInv, TypeOK, CommandsPay
    <2>2. Len(asked) \in Nat /\ Len(asked) <= MaxMsgs /\ MaxMsgs \in Nat
      BY BoundsAssumption DEF IInv, TypeOK
    <2> QED BY <2>1, <2>2
  <1>5. text \in 0 .. MaxMsgs /\ n \in 1 .. Len(asked) /\ asked[n] \in People
    <2>1. text \in 0 .. MaxMsgs /\ n \in 1 .. Len(asked)
      BY <1>4, BoundsAssumption DEF Garbage
    <2> QED BY <2>1 DEF IInv, TypeOK, People
  <1>6. storage \in Storage
    BY DEF IInv, TypeOK
  <1>7. /\ storage' \in Storage /\ storage'.members = storage.members
        /\ storage'.devices = storage.devices
        /\ storage.members[r] # {} =>
             storage'.groupOut = [storage.groupOut EXCEPT ![r] = 1]
        /\ storage.members[r] = {} => storage'.groupOut = storage.groupOut
    <2>1. 1 \in 0 .. MaxMsgs
      BY <1>4
    <2> HIDE DEF r
    <2> QED BY <1>3, <1>4, <1>6, <2>1, RatchetType
  <1>8. \A x \in Rooms :
          storage'.groupOut[x] = IF x = r /\ storage.members[r] # {} THEN 1
                                 ELSE storage.groupOut[x]
    BY <1>6, <1>7, StorageParts
  <1>9. \A y \in reqs' :
          \/ y \in reqs /\ y # q
          \/ /\ y \in Request /\ y.type \in {"invite", "claim", "key", "post"}
             /\ y.type \in {"claim", "key"} =>
                  /\ y.room = r /\ storage.members[r] # {}
                  /\ OwnerOf[y.dev] \in storage.members[r]
    <2> HIDE DEF r
    <2>1. /\ Invite(r, asked[n]) \in Request
          /\ Invite(r, asked[n]).type = "invite"
      BY <1>4, <1>5, RequestMade, RequestTypes
    <2>2. \A y \in OutboundSession(r, text) :
           /\ y \in Request
           /\ y.type \in {"claim", "key", "post"}
           /\ y.type \in {"claim", "key"} =>
                y.room = r /\ OwnerOf[y.dev] \in storage.members[r]
      BY <1>4, <1>5, OutboundRequests
    <2> QED BY <1>2, <2>1, <2>2
  <1> HIDE DEF r
  <1>10. TypeOK'
    <2>1. spent' = spent \/ spent' = [spent EXCEPT ![r] = 1]
      BY DEF RoomAnswered, r
    <2>2. 1 \in 0 .. MaxMsgs /\ spent \in [Rooms -> 0 .. MaxMsgs]
      BY <1>4 DEF IInv, TypeOK
    <2>3. spent' \in [Rooms -> 0 .. MaxMsgs]
      BY <2>1, <2>2
    <2> QED BY <1>1, <1>7, <1>9, <2>3 DEF IInv, TypeOK
  <1>11. Saved' = Saved
    BY <1>1 DEF Saved
  <1>12. CommandsPay'
    BY <1>1, <1>4, <1>8, <1>9, <1>11 DEF IInv, CommandsPay
  <1>13. RoomsOnce'
    <2>1. /\ srv[r] # {}
          /\ \A y \in reqs : y.type = "create" /\ y.room = r => y = q
      BY <1>1 DEF IInv, RoomsOnce, r
    <2>2. \A y \in reqs : y.type = "create" /\ y.room # 0 => y.room \in Rooms
      BY RequestFields DEF IInv, TypeOK
    <2>3. \A x \in Rooms : storage'.groupOut[x] # 0 \/ Saved'.groupOut[x] # 0 =>
            srv'[x] # {}
      BY <1>1, <1>8, <1>11, <2>1 DEF IInv, RoomsOnce
    <2>4. \A y \in reqs' : y.type = "create" /\ y.room # 0 =>
            /\ srv'[y.room] # {}
            /\ storage'.groupOut[y.room] = 0 /\ Saved'.groupOut[y.room] = 0
      BY <1>1, <1>8, <1>9, <1>11, <2>1, <2>2 DEF IInv, RoomsOnce
    <2>5. \A x, y \in reqs' :
            x.type = "create" /\ y.type = "create" /\ x.room # 0
              /\ x.room = y.room => x = y
      BY <1>9 DEF IInv, RoomsOnce
    <2> QED BY <2>3, <2>4, <2>5 DEF RoomsOnce
  <1>14. KeysToMembers'
    <2>1. \A y \in reqs : y.type \in {"claim", "key"} => y.room \in Rooms
      BY RequestFields DEF IInv, TypeOK
    <2> QED BY <1>4, <1>7, <1>8, <1>9, <2>1 DEF IInv, KeysToMembers
  <1>15. status \notin {"new", "off", "saving", "crashed"}
    BY DEF IInv, IdleEmpty
  <1> QED BY <1>1, <1>7, <1>10, <1>11, <1>12, <1>13, <1>14, <1>15
             DEF IInv, OwnersKnown, IdleEmpty

\* A one-time key has come: the key of the room is sent on to the same device.
LEMMA ClaimDoneIInv ==
  ASSUME IInv, NEW q \in reqs, ClaimDone(q)
  PROVE  IInv'
  <1> DEFINE k == ToDevice(q.room, q.dev, TRUE)
  <1>1. /\ q.type = "claim"
        /\ storage' = [storage EXCEPT !.olmOut = @ \cup {q.dev}]
        /\ reqs' = (reqs \ {q}) \cup {k}
        /\ UNCHANGED <<srv, mine, posts, unseen, holders, failed, keyed,
                       missed, spent, lost, disk, status, asked, logins,
                       starts>>
    BY DEF ClaimDone, Answered, serverVars, historyVars, userVars
  <1>2. q \in Request /\ q.room \in Rooms /\ q.dev \in Devices
    BY <1>1, RequestFields DEF IInv, TypeOK
  <1>3. /\ k \in Request /\ k.type = "key" /\ k.room = q.room /\ k.dev = q.dev
    <2>1. k \in Request
      BY <1>2, RequestMade
    <2>2. k.type = "key" /\ k.room = q.room /\ k.dev = q.dev
      BY DEF ToDevice
    <2> QED BY <2>1, <2>2
  <1> HIDE DEF k
  <1>4. /\ storage' \in Storage
        /\ storage'.members = storage.members
        /\ storage'.devices = storage.devices
        /\ storage'.groupOut = storage.groupOut
    BY <1>1, <1>2 DEF IInv, TypeOK, Storage
  <1>5. TypeOK'
    BY <1>1, <1>3, <1>4 DEF IInv, TypeOK
  <1>6. Saved' = Saved
    BY <1>1 DEF Saved
  <1>7. CommandsPay' /\ RoomsOnce'
    BY <1>1, <1>3, <1>4, <1>6 DEF IInv, CommandsPay, RoomsOnce
  <1>8. KeysToMembers'
    BY <1>1, <1>3, <1>4 DEF IInv, KeysToMembers
  <1>9. status \notin {"new", "off", "saving", "crashed"}
    BY DEF IInv, IdleEmpty
  <1> QED BY <1>1, <1>4, <1>5, <1>6, <1>7, <1>8, <1>9
             DEF IInv, OwnersKnown, IdleEmpty

\* A user is invited, or is not for an error: the server knows.
LEMMA InviteDoneIInv ==
  ASSUME IInv, NEW q \in reqs, InviteDone(q)
  PROVE  IInv'
  <1>1. /\ q.type = "invite"
        /\ srv' = [srv EXCEPT ![q.room] = @ \cup {q.user}]
        /\ unseen' = [unseen EXCEPT !.members = @ \cup {<<q.room, q.user>>}]
        /\ reqs' = reqs \ {q}
        /\ UNCHANGED <<storage, mine, posts, holders, failed, keyed, missed,
                       spent, lost, disk, status, asked, logins, starts>>
    BY DEF InviteDone, Answered, historyVars, userVars
  <1>2. q.room \in Rooms /\ q.user \in People
    BY <1>1, RequestFields DEF IInv, TypeOK
  <1>3. TypeOK'
    <2>1. srv' \in [Rooms -> SUBSET People]
      BY <1>1, <1>2 DEF IInv, TypeOK
    <2>2. unseen' \in News
      BY <1>1, <1>2, ServerTypes DEF News
    <2> QED BY <1>1, <2>1, <2>2 DEF IInv, TypeOK, News
  <1>4. Saved' = Saved
    BY <1>1 DEF Saved
  <1>5. OwnersKnown' /\ IdleEmpty'
    BY <1>1, <1>4 DEF IInv, OwnersKnown, IdleEmpty
  <1>6. \A r \in Rooms : srv[r] # {} => srv'[r] # {}
    BY <1>1, <1>2 DEF IInv, TypeOK
  <1> QED BY <1>1, <1>3, <1>5, <1>6, RestStays

\* A room has been joined.
LEMMA JoinDoneIInv ==
  ASSUME IInv, NEW q \in reqs, JoinDone(q)
  PROVE  IInv'
  <1>1. /\ q.type = "join"
        /\ mine' = mine \cup {q.room}
        /\ unseen' = [unseen EXCEPT
             !.members = @ \cup ({q.room} \X srv[q.room]),
             !.posts   = @ \cup {e \in posts : e[1] = q.room}]
        /\ reqs' = reqs \ {q}
        /\ UNCHANGED <<storage, srv, posts, holders, failed, keyed, missed,
                       spent, lost, disk, status, asked, logins, starts>>
    BY DEF JoinDone, Answered, historyVars, userVars
  <1>2. q.room \in Rooms
    BY <1>1, RequestFields DEF IInv, TypeOK
  <1>3. TypeOK'
    <2>1. {q.room} \X srv[q.room] \in SUBSET (Rooms \X People)
      BY <1>2 DEF IInv, TypeOK
    <2>2. {e \in posts : e[1] = q.room} \in SUBSET (Rooms \X People)
      BY DEF IInv, TypeOK
    <2>3. unseen' \in News
      BY <1>1, <2>1, <2>2, ServerTypes DEF News
    <2> QED BY <1>1, <1>2, <2>3 DEF IInv, TypeOK, News
  <1>4. Saved' = Saved
    BY <1>1 DEF Saved
  <1>5. OwnersKnown' /\ IdleEmpty'
    BY <1>1, <1>4 DEF IInv, OwnersKnown, IdleEmpty
  <1> QED BY <1>1, <1>3, <1>5, RestStays

\* The devices of a user replace what was listed (save_device_keys).
LEMMA QueryDoneIInv ==
  ASSUME IInv, NEW q \in reqs, QueryDone(q)
  PROVE  IInv'
  <1>1. /\ q.type = "query" /\ reqs' = reqs \ {q}
        /\ UNCHANGED <<srv, mine, posts, unseen, holders, failed, keyed,
                       missed, spent, lost, disk, status, asked, logins,
                       starts>>
    BY DEF QueryDone, Answered, serverVars, historyVars, userVars
  <1>2. PICK found \in SUBSET {d \in Devices : OwnerOf[d] = q.user} :
          storage' = [storage EXCEPT !.devices[q.user] = found]
    BY DEF QueryDone
  <1>3. q.user \in People
    BY <1>1, RequestFields DEF IInv, TypeOK
  <1>4. storage \in Storage
    BY DEF IInv, TypeOK
  <1>5. /\ storage' \in Storage
        /\ storage'.groupOut = storage.groupOut
        /\ storage'.members = storage.members
        /\ storage'.devices = [storage.devices EXCEPT ![q.user] = found]
    BY <1>2, <1>3, <1>4 DEF Storage
  <1>6. TypeOK'
    BY <1>1, <1>5 DEF IInv, TypeOK
  <1>7. Saved' = Saved
    BY <1>1 DEF Saved
  <1>8. OwnersKnown'
    <2>1. \A p \in People :
            storage'.devices[p] = IF p = q.user THEN found ELSE storage.devices[p]
      BY <1>4, <1>5, StorageParts
    <2> QED BY <1>7, <2>1 DEF IInv, OwnersKnown
  <1>9. IdleEmpty'
    BY <1>1 DEF IInv, IdleEmpty
  <1> QED BY <1>1, <1>5, <1>6, <1>8, <1>9, RestStays

\* The key of a room has been taken to a device.
LEMMA KeySentIInv ==
  ASSUME IInv, NEW q \in reqs, KeySent(q)
  PROVE  IInv'
  <1>1. /\ q.type = "key"
        /\ holders' = [holders EXCEPT ![q.room] = @ \cup {q.dev}]
        /\ unseen' = IF OwnerOf[q.dev] = Me
                     THEN [unseen EXCEPT !.keys = @ \cup {<<q.room, Me>>}]
                     ELSE unseen
        /\ reqs' = reqs \ {q}
        /\ UNCHANGED <<storage, srv, mine, posts, failed, keyed, missed,
                       spent, lost, disk, status, asked, logins, starts>>
    BY DEF KeySent, Answered, userVars
  <1>2. q.room \in Rooms /\ q.dev \in Devices
    BY <1>1, RequestFields DEF IInv, TypeOK
  <1>3. TypeOK'
    <2>1. holders' \in [Rooms -> SUBSET Devices]
      BY <1>1, <1>2 DEF IInv, TypeOK
    <2>2. unseen' \in News
      BY <1>1, <1>2, ServerTypes DEF News, People
    <2> QED BY <1>1, <2>1, <2>2 DEF IInv, TypeOK, News
  <1>4. Saved' = Saved
    BY <1>1 DEF Saved
  <1>5. OwnersKnown' /\ IdleEmpty'
    BY <1>1, <1>4 DEF IInv, OwnersKnown, IdleEmpty
  <1> QED BY <1>1, <1>3, <1>5, RestStays

\* A message is at the server.
LEMMA PostDoneIInv ==
  ASSUME IInv, NEW q \in reqs, PostDone(q)
  PROVE  IInv'
  <1>1. /\ q.type = "post"
        /\ posts' = posts \cup {<<q.room, Me>>}
        /\ unseen' = [unseen EXCEPT !.posts = @ \cup {<<q.room, Me>>}]
        /\ reqs' = reqs \ {q}
        /\ UNCHANGED <<storage, srv, mine, holders, failed, keyed, missed,
                       spent, lost, disk, status, asked, logins, starts>>
    BY DEF PostDone, Answered, historyVars, userVars
  <1>2. q.room \in Rooms /\ Me \in People
    BY <1>1, RequestFields DEF IInv, TypeOK, People
  <1>3. TypeOK'
    <2>1. unseen' \in News
      BY <1>1, <1>2, ServerTypes DEF News
    <2> QED BY <1>1, <1>2, <2>1 DEF IInv, TypeOK, News
  <1>4. Saved' = Saved
    BY <1>1 DEF Saved
  <1>5. OwnersKnown' /\ IdleEmpty'
    BY <1>1, <1>4 DEF IInv, OwnersKnown, IdleEmpty
  <1> QED BY <1>1, <1>3, <1>5, RestStays

\* A request has failed, or its answer has no key: an error at most is printed.
LEMMA RequestFailsIInv ==
  ASSUME IInv, NEW q \in reqs, RequestFails(q) \/ ClaimNoKey(q)
  PROVE  IInv'
  <1>1. /\ reqs' = reqs \ {q}
        /\ failed' \subseteq failed \cup {q}
        /\ UNCHANGED <<storage, srv, mine, posts, unseen, holders, keyed,
                       missed, spent, lost, disk, status, asked, logins,
                       starts>>
    BY DEF RequestFails, ClaimNoKey, Answered, serverVars, userVars
  <1>2. TypeOK'
    BY <1>1 DEF IInv, TypeOK
  <1>3. Saved' = Saved
    BY <1>1 DEF Saved
  <1>4. OwnersKnown' /\ IdleEmpty'
    BY <1>1, <1>3 DEF IInv, OwnersKnown, IdleEmpty
  <1> QED BY <1>1, <1>2, <1>4, RestStays

\* A sync adds to the people seen in rooms and to the sessions that can be read,
\* and takes nothing from them (parse_messages).
LEMMA SyncGrows ==
  ASSUME IInv, NEW taken \in SUBSET unseen.keys
  PROVE  LET new == [storage EXCEPT
                       !.members = AddMembers(storage.members, unseen.members),
                       !.groupIn = @ \cup taken]
         IN  /\ new \in Storage
             /\ new.devices = storage.devices
             /\ new.groupOut = storage.groupOut
             /\ new.groupIn = storage.groupIn \cup taken
             /\ \A r \in Rooms : storage.members[r] \subseteq new.members[r]
  <1> DEFINE seen == AddMembers(storage.members, unseen.members)
             read == storage.groupIn \cup taken
             new  == [storage EXCEPT !.members = seen, !.groupIn = @ \cup taken]
  <1>1. storage \in Storage
    BY DEF IInv, TypeOK
  <1>2. seen \in [Rooms -> SUBSET People]
    BY <1>1, StorageParts DEF AddMembers
  <1>3. \A r \in Rooms : storage.members[r] \subseteq seen[r]
    BY DEF AddMembers
  <1>4. read \in SUBSET (Rooms \X People)
    BY <1>1, StorageParts DEF IInv, TypeOK
  <1>5. new = [storage EXCEPT !.members = seen, !.groupIn = read]
    OBVIOUS
  <1> HIDE DEF seen, read, new
  <1>6. new = [devices |-> storage.devices, members |-> seen,
               olmOut |-> storage.olmOut, groupOut |-> storage.groupOut,
               groupIn |-> read]
    BY <1>1, <1>5 DEF Storage
  <1>7. new \in Storage
    <2>1. /\ storage.devices \in [People -> SUBSET Devices]
          /\ storage.olmOut \in SUBSET Devices
          /\ storage.groupOut \in [Rooms -> 0 .. MaxMsgs]
      BY <1>1, StorageParts
    <2> QED BY <1>2, <1>4, <1>6, <2>1, StorageMade
  <1>8. /\ new.devices = storage.devices /\ new.members = seen
        /\ new.groupOut = storage.groupOut /\ new.groupIn = read
    BY <1>6
  <1>9. /\ new.groupIn = storage.groupIn \cup taken
        /\ \A r \in Rooms : storage.members[r] \subseteq new.members[r]
    BY <1>3, <1>8 DEF read
  <1> QED BY <1>7, <1>8, <1>9 DEF new, seen

\* A sync has come.
LEMMA SyncDoneIInv ==
  ASSUME IInv, SyncDone
  PROVE  IInv'
  <1>1. /\ status' = "sync" /\ Syncing
        /\ reqs' = reqs \cup AskedBySync
        /\ unseen' = NothingNew
        /\ UNCHANGED <<srv, mine, posts, holders, failed, spent, lost, disk,
                       asked, logins, starts>>
    BY DEF SyncDone
  <1>2. PICK taken \in SUBSET unseen.keys :
          /\ storage' = [storage EXCEPT
               !.members = AddMembers(storage.members, unseen.members),
               !.groupIn = @ \cup taken]
          /\ keyed' = keyed \cup taken
          /\ missed' = missed \cup Unreadable(storage.groupIn \cup taken)
    BY DEF SyncDone
  <1>3. /\ storage' \in Storage
        /\ storage'.devices = storage.devices
        /\ storage'.groupOut = storage.groupOut
        /\ \A r \in Rooms : storage.members[r] \subseteq storage'.members[r]
    BY <1>2, SyncGrows
  <1>4. \A q \in AskedBySync : q \in Request /\ q.type \in {"join", "query"}
    <2>1. \A r \in unseen.invites :
            JoinRoom(r) \in Request /\ JoinRoom(r).type = "join"
      BY RequestMade, RequestTypes DEF IInv, TypeOK
    <2>2. \A e \in unseen.members :
            Query(e[2]) \in Request /\ Query(e[2]).type = "query"
      BY RequestMade, RequestTypes DEF IInv, TypeOK
    <2> QED BY <2>1, <2>2 DEF AskedBySync
  <1>5. TypeOK'
    <2>1. keyed' \subseteq Rooms \X People /\ missed' \subseteq Rooms \X People
      BY <1>2 DEF IInv, TypeOK, Unreadable
    <2>2. unseen' \in News
      BY <1>1 DEF NothingNew, News
    <2>3. reqs' \subseteq Request
      BY <1>1, <1>4 DEF IInv, TypeOK
    <2> QED BY <1>1, <1>3, <2>1, <2>2, <2>3 DEF IInv, TypeOK, News
  <1>6. Saved' = Saved
    BY <1>1 DEF Saved
  <1>7. OwnersKnown' /\ IdleEmpty'
    BY <1>1, <1>3, <1>6 DEF IInv, OwnersKnown, IdleEmpty
  <1>8. \A q \in reqs' \ reqs : q.type \notin {"create", "claim", "key"}
    BY <1>1, <1>4
  <1> QED BY <1>1, <1>3, <1>5, <1>7, <1>8, RestStays

\* Other people invite, come into rooms, send keys and messages.
LEMMA TheyIInv ==
  ASSUME IInv, NEW r \in Rooms, NEW p \in Others, They(r, p)
  PROVE  IInv'
  <1>1. UNCHANGED <<storage, reqs, mine, holders, failed, keyed, missed,
                    spent, lost, disk, status, asked, logins, starts>>
    BY DEF They, TheyInvite, TheyCome, TheirKey, TheyPost, clientVars,
           historyVars, userVars
  <1>2. p \in People /\ Me \in People /\ <<r, p>> \in Rooms \X People
    BY DEF People
  <1>3. /\ srv' \in [Rooms -> SUBSET People]
        /\ \A x \in Rooms : srv[x] # {} => srv'[x] # {}
    BY <1>2, ServerTypes DEF They, TheyInvite, TheyCome, TheirKey, TheyPost
  <1>4. posts' \subseteq Rooms \X People
    BY <1>2 DEF They, TheyInvite, TheyCome, TheirKey, TheyPost, IInv, TypeOK
  <1>5. unseen' \in News
    <2>1. unseen \in News
      BY DEF IInv, TypeOK, News
    <2>2. CASE TheyInvite(r, p)
      BY <2>1, <2>2 DEF TheyInvite, News
    <2>3. CASE TheyCome(r, p)
      BY <1>2, <2>1, <2>3 DEF TheyCome, News
    <2>4. CASE TheirKey(r, p)
      BY <1>2, <2>1, <2>4 DEF TheirKey, News
    <2>5. CASE TheyPost(r, p)
      BY <1>2, <2>1, <2>5 DEF TheyPost, News
    <2> QED BY <2>2, <2>3, <2>4, <2>5 DEF They
  <1>6. TypeOK'
    BY <1>1, <1>3, <1>4, <1>5 DEF IInv, TypeOK, News
  <1>7. Saved' = Saved
    BY <1>1 DEF Saved
  <1>8. OwnersKnown' /\ IdleEmpty'
    BY <1>1, <1>7 DEF IInv, OwnersKnown, IdleEmpty
  <1> QED BY <1>1, <1>3, <1>6, <1>8, RestStays

\* The session is to be closed: by the user, or for an answer nobody can read.
LEMMA ClosingIInv ==
  ASSUME IInv, Disconnect \/ InitialUnparsed
  PROVE  IInv'
  <1>1. /\ status \notin {"new", "off", "saving", "crashed"}
        /\ status' \in {"leaving", "closing"}
        /\ UNCHANGED <<storage, reqs, srv, mine, posts, unseen, holders,
                       failed, keyed, missed, spent, lost, disk, asked,
                       logins, starts>>
    BY DEF Disconnect, InitialUnparsed, Syncing, clientVars, serverVars,
           historyVars
  <1>2. TypeOK'
    BY <1>1 DEF IInv, TypeOK
  <1>3. Saved' = Saved
    BY <1>1 DEF Saved
  <1>4. OwnersKnown' /\ IdleEmpty'
    BY <1>1, <1>3 DEF IInv, OwnersKnown, IdleEmpty
  <1> QED BY <1>1, <1>2, <1>4, RestStays

\* The process is started again.  Killed while it saved, it leaves a file that is
\* empty, torn or whole.
LEMMA RestartSaved ==
  ASSUME IInv, Restart
  PROVE  /\ disk' \in Storage \cup {NoFile, Torn}
         /\ \/ disk' = disk /\ Saved' = Saved
            \/ /\ status = "saving" /\ disk = NoFile
               /\ \/ disk' \in {NoFile, Torn} /\ Saved' = EmptyStorage
                  \/ disk' = storage /\ Saved' = storage
  <1>1. CASE status = "saving"
    <2>1. disk' \in {NoFile, Torn, storage} /\ disk = NoFile /\ storage \in Storage
      BY <1>1 DEF Restart, IInv, IdleEmpty, TypeOK
    <2> QED BY <1>1, <2>1, FileAssumption DEF Saved
  <1>2. CASE status # "saving"
    <2>1. disk' = disk
      BY <1>2 DEF Restart
    <2> QED BY <2>1 DEF Saved, IInv, TypeOK
  <1> QED BY <1>1, <1>2

\* Nothing that a process started again finds is new.
LEMMA RestartIInv ==
  ASSUME IInv, Restart
  PROVE  IInv'
  <1>1. /\ storage' = EmptyStorage /\ reqs' = {} /\ status' = "new"
        /\ starts < MaxStarts /\ starts' = starts + 1
        /\ lost' = (lost \/ status \notin {"new", "off"})
        /\ UNCHANGED <<srv, mine, posts, unseen, holders, failed, keyed,
                       missed, spent, asked, logins>>
    BY DEF Restart, serverVars
  <1>2. starts' \in 0 .. MaxStarts
    BY <1>1, BoundsAssumption DEF IInv, TypeOK
  <1>3. disk' \in Storage \cup {NoFile, Torn}
    BY RestartSaved
  <1>4. lost' \in BOOLEAN
    BY <1>1
  <1>5. TypeOK'
    BY <1>1, <1>2, <1>3, <1>4, EmptyType DEF IInv, TypeOK
  <1>6. Len(asked) <= Len(asked')
    BY <1>1 DEF IInv, TypeOK
  <1>7. Saved' \in {Saved, EmptyStorage, storage}
    BY RestartSaved
  <1> QED BY <1>1, <1>5, <1>6, <1>7, MemoryLostIInv

\* The steps the process dies of.
Death == \/ LoginDies \/ SyncDies
         \/ \E u \in Others : MsgDies(u)
         \/ \E q \in reqs : RoomAnswerDies(q) \/ ClaimEmpty(q)

\* The process dies.
LEMMA DiesIInv ==
  ASSUME IInv, Death
  PROVE  IInv'
  <1>1. /\ storage' = EmptyStorage /\ reqs' = {} /\ status' = "crashed"
        /\ lost' = TRUE
        /\ UNCHANGED <<srv, mine, posts, unseen, holders, failed, keyed,
                       missed, spent, disk, starts>>
    BY DEF Death, LoginDies, SyncDies, MsgDies, RoomAnswerDies, ClaimEmpty, Dies,
           serverVars
  <1>2. /\ asked' \in Seq(Others) /\ Len(asked') <= MaxMsgs
        /\ Len(asked) <= Len(asked')
    <2>1. asked' = asked \/ \E u \in Others :
            asked' = Append(asked, u) /\ Len(asked) < MaxMsgs
      BY DEF Death, LoginDies, SyncDies, MsgDies, RoomAnswerDies, ClaimEmpty
    <2> QED BY <2>1, BoundsAssumption, ServerTypes
  <1>3. logins' \in 0 .. MaxLogins
    <2>1. logins' = logins \/ (logins < MaxLogins /\ logins' = logins + 1)
      BY DEF Death, LoginDies, SyncDies, MsgDies, RoomAnswerDies, ClaimEmpty
    <2> QED BY <2>1, BoundsAssumption DEF IInv, TypeOK
  <1>4. TypeOK'
    BY <1>1, <1>2, <1>3, EmptyType DEF IInv, TypeOK
  <1>5. Saved' = Saved
    BY <1>1 DEF Saved
  <1> QED BY <1>1, <1>2, <1>4, <1>5, MemoryLostIInv

\* Every step keeps the invariant.
LEMMA StepIInv == IInv /\ [Next]_vars => IInv'
  <1> SUFFICES ASSUME IInv, [Next]_vars PROVE IInv'
    OBVIOUS
  <1>1. CASE Login \/ Logout \/ Save \/ Restart \/ Death
    BY <1>1, LoginIInv, LogoutIInv, SaveIInv, RestartIInv, DiesIInv
  <1>2. CASE Disconnect \/ InitialUnparsed
    BY <1>2, ClosingIInv
  <1>3. CASE SyncDone
    BY <1>3, SyncDoneIInv
  <1>4. CASE \E u \in Others : Msg(u)
    BY <1>4, MsgNewRoomIInv, MsgKnownRoomIInv, DiesIInv DEF Msg, Death
  <1>5. CASE \E q \in reqs : Callback(q)
    BY <1>5, RoomMadeIInv, RoomAnsweredIInv, InviteDoneIInv, JoinDoneIInv,
       QueryDoneIInv, ClaimDoneIInv, KeySentIInv, PostDoneIInv, RequestFailsIInv,
       DiesIInv DEF Callback, Death
  <1>6. CASE \E r \in Rooms, p \in Others : They(r, p)
    BY <1>6, TheyIInv
  <1>7. CASE UNCHANGED vars
    BY <1>7 DEF vars, clientVars, serverVars, historyVars, userVars, IInv, TypeOK,
                CommandsPay, OwnersKnown, IdleEmpty, RoomsOnce, KeysToMembers,
                Saved
  <1> QED BY <1>1, <1>2, <1>3, <1>4, <1>5, <1>6, <1>7 DEF Next, Death

\* Every state of a behaviour satisfies the invariant.
LEMMA AlwaysIInv == Spec => []IInv
  BY InitIInv, StepIInv, PTL DEF Spec

\* What the client keeps, asks for and the server knows is of its type, whatever
\* order answers come in (cli_matrix_thread.cpp).
THEOREM TypeCorrect == Spec => []TypeOK
  <1>1. IInv => TypeOK
    BY DEF IInv
  <1> QED BY <1>1, AlwaysIInv, PTL

-----------------------------------------------------------------------------
(* The client implements RoomSessions.                                     *)

\* The file as RoomSessions sees it.
File == IF disk \in {NoFile, Torn}
        THEN [people |-> EmptyStorage.members, ratchet |-> EmptyStorage.groupOut]
        ELSE [people |-> disk.members, ratchet |-> disk.groupOut]

\* A step that changes no session, no list of members, no file and no holders is
\* none for RoomSessions.
LEMMA StepStutters ==
  ASSUME UNCHANGED <<disk, holders>>,
         storage'.members = storage.members, storage'.groupOut = storage.groupOut
  PROVE  UNCHANGED Promised!vars
  BY DEF Promised!vars

\* load() takes sessions over from the file and keeps others.
LEMMA LoginLoads ==
  ASSUME IInv, Login
  PROVE  Promised!Load
  <1>1. storage' = Loaded(storage) /\ UNCHANGED <<disk, holders>>
    BY DEF Login, historyVars
  <1>2. storage \in Storage
    BY DEF IInv, TypeOK
  <1>3. File' = File
    BY <1>1 DEF File
  <1>4. CASE disk \in {NoFile, Torn}
    <2>1. storage' = storage
      BY <1>1, <1>4 DEF Loaded
    <2>2. \A r \in Rooms : File.ratchet[r] = 0
      BY <1>4 DEF File, EmptyStorage
    <2>3. storage'.groupOut = [r \in Rooms |->
            IF File.ratchet[r] # 0 THEN File.ratchet[r] ELSE storage.groupOut[r]]
      <3>1. storage.groupOut = [r \in Rooms |-> storage.groupOut[r]]
        BY <1>2, StorageParts
      <3> QED BY <2>1, <2>2, <3>1
    <2> QED BY <1>1, <1>3, <2>1, <2>3 DEF Promised!Load, File
  <1>5. CASE disk \notin {NoFile, Torn}
    <2>1. File.people = disk.members /\ File.ratchet = disk.groupOut
      BY <1>5 DEF File
    <2>2. /\ storage'.members = disk.members
          /\ storage'.groupOut = [r \in Rooms |->
               IF disk.groupOut[r] # 0 THEN disk.groupOut[r]
               ELSE storage.groupOut[r]]
      BY <1>1, <1>5 DEF Loaded
    <2> QED BY <1>1, <1>3, <2>1, <2>2 DEF Promised!Load, File
  <1> QED BY <1>4, <1>5

\* save() opens the file, which empties it, or cannot.
LEMMA LogoutTears ==
  ASSUME Logout
  PROVE  Promised!Tear \/ UNCHANGED Promised!vars
  <1>1. disk' \in {disk, NoFile} /\ UNCHANGED <<storage, holders>>
    BY DEF Logout, clientVars
  <1>2. CASE disk' = disk
    BY <1>1, <1>2, StepStutters
  <1>3. CASE disk' = NoFile
    BY <1>1, <1>3 DEF Promised!Tear, Promised!NoOne, Promised!NoSession, EmptyStorage
  <1> QED BY <1>1, <1>2, <1>3

\* save() writes the file.
LEMMA SaveSaves ==
  ASSUME IInv, Save
  PROVE  Promised!Save
  <1>1. disk' = storage /\ UNCHANGED <<storage, holders>>
    BY DEF Save, clientVars, historyVars
  <1>2. disk' \notin {NoFile, Torn}
    BY <1>1, FileAssumption DEF IInv, TypeOK
  <1> QED BY <1>1, <1>2 DEF Promised!Save

\* Memory that is lost was not saved, or just was.
LEMMA LostIsForgotten ==
  ASSUME storage' = EmptyStorage, UNCHANGED holders,
         File' \in {File, [people |-> storage.members, ratchet |-> storage.groupOut]}
  PROVE  Promised!Forget
  BY DEF Promised!Forget, Promised!NoOne, Promised!NoSession, EmptyStorage, File

\* A process that is killed has not been saving, or has emptied the file before.
LEMMA RestartForgets ==
  ASSUME IInv, Restart
  PROVE  Promised!Forget
  <1>1. storage' = EmptyStorage /\ UNCHANGED holders
    BY DEF Restart
  <1>2. CASE disk' = disk
    <2>1. File' = File
      BY <1>2 DEF File
    <2> QED BY <1>1, <2>1, LostIsForgotten
  <1>3. CASE disk = NoFile /\ disk' \in {NoFile, Torn}
    <2>1. File' = File
      BY <1>3 DEF File
    <2> QED BY <1>1, <2>1, LostIsForgotten
  <1>4. CASE disk' = storage
    <2>1. disk' \notin {NoFile, Torn}
      BY <1>4, FileAssumption DEF IInv, TypeOK
    <2>2. File' = [people |-> storage.members, ratchet |-> storage.groupOut]
      BY <1>4, <2>1 DEF File
    <2> QED BY <1>1, <2>2, LostIsForgotten
  <1> QED BY <1>2, <1>3, <1>4, RestartSaved

\* A message is a step of the room's ratchet (send_group_message).
LEMMA MsgEncrypts ==
  ASSUME IInv, NEW u \in Others, MsgKnownRoom(u)
  PROVE  \E r \in Rooms : Promised!Encrypt(r)
  <1> DEFINE r == InRoom(u)
  <1>1. /\ r # 0 /\ storage.groupOut[r] # 0
        /\ storage' = [storage EXCEPT !.groupOut[r] = storage.groupOut[r] + 1]
        /\ UNCHANGED <<disk, holders>>
    BY DEF MsgKnownRoom, historyVars
  <1>2. r \in Rooms
    BY <1>1, InRoomSeen
  <1> HIDE DEF r
  <1>3. /\ storage'.members = storage.members
        /\ storage'.groupOut =
             [storage.groupOut EXCEPT ![r] = storage.groupOut[r] + 1]
    BY <1>1, <1>2 DEF IInv, TypeOK, Storage
  <1> QED BY <1>1, <1>2, <1>3 DEF Promised!Encrypt

\* A session is begun in a room that has none and where people have been seen:
\* the answer to the request for the room comes once (invite_room).
LEMMA AnswerBegins ==
  ASSUME IInv, NEW q \in reqs, RoomAnswered(q)
  PROVE  (\E r \in Rooms : Promised!Begin(r)) \/ UNCHANGED Promised!vars
  <1> DEFINE r == q.room
  <1>1. /\ q.type = "create" /\ r # 0 /\ UNCHANGED <<disk, holders>>
        /\ storage' = IF storage.members[r] # {}
                      THEN [storage EXCEPT !.groupOut[r] = 1] ELSE storage
    BY DEF RoomAnswered, historyVars, userVars
  <1>2. r \in Rooms
    BY <1>1, RequestFields DEF IInv, TypeOK
  <1>3. CASE storage.members[r] # {}
    <2>1. storage.groupOut[r] = 0
      BY <1>1 DEF IInv, RoomsOnce
    <2>2. /\ storage'.members = storage.members
          /\ storage'.groupOut = [storage.groupOut EXCEPT ![r] = 1]
      BY <1>1, <1>2, <1>3 DEF IInv, TypeOK, Storage
    <2> HIDE DEF r
    <2>3. Promised!Begin(r)
      BY <1>1, <1>3, <2>1, <2>2 DEF Promised!Begin
    <2> QED BY <1>2, <2>3
  <1>4. CASE storage.members[r] = {}
    <2>1. storage' = storage
      BY <1>1, <1>4
    <2> QED BY <1>1, <2>1, StepStutters
  <1> QED BY <1>3, <1>4

\* The key of a session goes to a device of someone seen in the room.
LEMMA KeyIsShared ==
  ASSUME IInv, NEW q \in reqs, KeySent(q)
  PROVE  \E r \in Rooms, d \in Devices : Promised!Share(r, d)
  <1>1. /\ q.type = "key"
        /\ holders' = [holders EXCEPT ![q.room] = @ \cup {q.dev}]
        /\ UNCHANGED <<storage, disk>>
    BY DEF KeySent, userVars
  <1>2. q.room \in Rooms /\ q.dev \in Devices
    BY <1>1, RequestFields DEF IInv, TypeOK
  <1>3. /\ storage.groupOut[q.room] # 0
        /\ OwnerOf[q.dev] \in storage.members[q.room]
    BY <1>1 DEF IInv, KeysToMembers
  <1> QED BY <1>1, <1>2, <1>3 DEF Promised!Share

\* A sync only adds to the people that have been seen (add_member).
LEMMA SyncSees ==
  ASSUME IInv, SyncDone
  PROVE  Promised!See
  <1>1. /\ storage' \in Storage
        /\ storage'.groupOut = storage.groupOut
        /\ \A r \in Rooms : storage.members[r] \subseteq storage'.members[r]
    <2>1. PICK taken \in SUBSET unseen.keys :
            storage' = [storage EXCEPT
              !.members = AddMembers(storage.members, unseen.members),
              !.groupIn = @ \cup taken]
      BY DEF SyncDone
    <2> QED BY <2>1, SyncGrows
  <1>2. storage'.members \in [Rooms -> SUBSET People]
    BY <1>1, StorageParts
  <1>3. UNCHANGED <<disk, holders>>
    BY DEF SyncDone
  <1> QED BY <1>1, <1>2, <1>3 DEF Promised!See

\* Other steps are none for RoomSessions.
LEMMA OthersStutter ==
  ASSUME IInv,
         \/ Disconnect \/ InitialUnparsed \/ UNCHANGED vars
         \/ \E u \in Others : MsgNewRoom(u)
         \/ \E q \in reqs : \/ RoomMade(q) \/ InviteDone(q) \/ JoinDone(q)
                            \/ QueryDone(q) \/ ClaimDone(q) \/ PostDone(q)
                            \/ RequestFails(q) \/ ClaimNoKey(q)
         \/ \E r \in Rooms, p \in Others : They(r, p)
  PROVE  UNCHANGED Promised!vars
  <1>1. UNCHANGED <<disk, holders>>
    BY DEF Disconnect, InitialUnparsed, MsgNewRoom, RoomMade, InviteDone, JoinDone,
           QueryDone, ClaimDone, PostDone, RequestFails, ClaimNoKey, They,
           TheyInvite, TheyCome, TheirKey, TheyPost, vars, historyVars, userVars
  <1>2. /\ storage'.members = storage.members
        /\ storage'.groupOut = storage.groupOut
    <2>1. CASE \E q \in reqs : QueryDone(q) \/ ClaimDone(q)
      BY <2>1 DEF QueryDone, ClaimDone, IInv, TypeOK, Storage
    <2>2. CASE UNCHANGED storage
      BY <2>2
    <2> QED BY <2>1, <2>2
            DEF Disconnect, InitialUnparsed, MsgNewRoom, RoomMade, InviteDone,
                JoinDone, PostDone, RequestFails, ClaimNoKey, They, TheyInvite,
                TheyCome, TheirKey, TheyPost, vars, clientVars
  <1> QED BY <1>1, <1>2, StepStutters

\* Every step of the client is one of RoomSessions, or none.
LEMMA StepImplements ==
  ASSUME IInv, [Next]_vars
  PROVE  [Promised!Next]_Promised!vars
  <1>1. CASE Login
    BY <1>1, LoginLoads DEF Promised!Next
  <1>2. CASE Logout \/ Save
    BY <1>2, LogoutTears, SaveSaves DEF Promised!Next
  <1>3. CASE Restart
    BY <1>3, RestartForgets DEF Promised!Next
  <1>4. CASE Death
    <2>1. storage' = EmptyStorage /\ UNCHANGED <<disk, holders>>
      BY <1>4 DEF Death, LoginDies, SyncDies, MsgDies, RoomAnswerDies, ClaimEmpty,
             Dies
    <2>2. File' = File
      BY <2>1 DEF File
    <2> QED BY <2>1, <2>2, LostIsForgotten DEF Promised!Next
  <1>5. CASE \E u \in Others : MsgKnownRoom(u)
    BY <1>5, MsgEncrypts DEF Promised!Next
  <1>6. CASE \E q \in reqs : RoomAnswered(q)
    BY <1>6, AnswerBegins DEF Promised!Next
  <1>7. CASE \E q \in reqs : KeySent(q)
    BY <1>7, KeyIsShared DEF Promised!Next
  <1>8. CASE SyncDone
    BY <1>8, SyncSees DEF Promised!Next
  <1> QED BY <1>1, <1>2, <1>3, <1>4, <1>5, <1>6, <1>7, <1>8, OthersStutter
          DEF Next, Msg, Callback, Death

\* The client keeps the promises of RoomSessions: a room has one session, begun
\* when people have been seen in it; its key goes to devices of such people; its
\* ratchet moves on with each message, and back only to what was saved last, when
\* that is loaded, or to nothing, with the process or an emptied file
\* (create_outbound_megolm_session, send_group_message, save and load).
THEOREM Implements == Spec => KeepsPromises
  <1>1. Init => Promised!Init
    BY DEF Init, Promised!Init, Promised!NoOne, Promised!NoSession, EmptyStorage
  <1>2. IInv /\ [Next]_vars => [Promised!Next]_Promised!vars
    BY StepImplements
  <1> QED BY <1>1, <1>2, AlwaysIInv, PTL DEF Spec, KeepsPromises, Promised!Spec

-----------------------------------------------------------------------------
(* Messages that are missed.                                               *)

\* Until the client crashes or is started again, it can read what is encrypted
\* with the keys it has taken in: what is loaded is added to what is in memory
\* (load, handle_to_device_msgs).
KeyedReadable ==
  starts = 0 /\ status # "crashed" => keyed \subseteq storage.groupIn

\* Every step keeps what can be read.
LEMMA StepReadable ==
  ASSUME IInv, KeyedReadable, [Next]_vars
  PROVE  KeyedReadable'
  <1> SUFFICES ASSUME starts' = 0, status' # "crashed"
               PROVE  keyed' \subseteq storage'.groupIn
    BY DEF KeyedReadable
  <1>1. CASE Restart
    <2>1. starts' = starts + 1 /\ starts \in Nat
      BY <1>1, BoundsAssumption DEF Restart, IInv, TypeOK
    <2> QED BY <2>1
  <1>2. CASE Death
    BY <1>2 DEF Death, LoginDies, SyncDies, MsgDies, RoomAnswerDies, ClaimEmpty, Dies
  <1>3. CASE Login
    <2>1. /\ storage' = Loaded(storage) /\ starts = 0 /\ status # "crashed"
          /\ keyed' = keyed
      BY <1>3 DEF Login, historyVars
    <2>2. storage.groupIn \subseteq storage'.groupIn
      BY <2>1 DEF Loaded
    <2> QED BY <2>1, <2>2 DEF KeyedReadable
  <1>4. CASE SyncDone
    <2>1. starts = 0 /\ status # "crashed"
      BY <1>4 DEF SyncDone, Syncing
    <2>2. PICK taken \in SUBSET unseen.keys :
            /\ keyed' = keyed \cup taken
            /\ storage' = [storage EXCEPT
                 !.members = AddMembers(storage.members, unseen.members),
                 !.groupIn = @ \cup taken]
      BY <1>4 DEF SyncDone
    <2>3. storage'.groupIn = storage.groupIn \cup taken
      BY <2>2, SyncGrows
    <2> QED BY <2>1, <2>2, <2>3 DEF KeyedReadable
  <1>5. CASE \/ Disconnect \/ InitialUnparsed \/ Logout \/ Save
             \/ UNCHANGED vars
             \/ \E u \in Others : MsgNewRoom(u) \/ MsgKnownRoom(u)
             \/ \E q \in reqs : \/ RoomMade(q) \/ RoomAnswered(q) \/ InviteDone(q)
                                \/ JoinDone(q) \/ QueryDone(q) \/ ClaimDone(q)
                                \/ KeySent(q) \/ PostDone(q) \/ RequestFails(q)
                                \/ ClaimNoKey(q)
             \/ \E r \in Rooms, p \in Others : They(r, p)
    <2>1. keyed' = keyed /\ starts = 0
      BY <1>5 DEF Disconnect, InitialUnparsed, Logout, Save, MsgNewRoom,
             MsgKnownRoom, RoomMade, RoomAnswered, InviteDone, JoinDone, QueryDone,
             ClaimDone, ClaimNoKey, KeySent, PostDone, RequestFails, They,
             TheyInvite, TheyCome, TheirKey, TheyPost, vars, historyVars, userVars
    <2>2. status # "crashed"
      BY <1>5 DEF Disconnect, InitialUnparsed, Logout, Save, MsgNewRoom,
             MsgKnownRoom, Syncing, They, vars, userVars, IInv, IdleEmpty
    <2>3. storage'.groupIn = storage.groupIn
      <3>1. CASE \/ \E u \in Others : MsgKnownRoom(u)
                 \/ \E q \in reqs : \/ RoomAnswered(q) \/ QueryDone(q)
                                    \/ ClaimDone(q)
        BY <3>1 DEF MsgKnownRoom, RoomAnswered, QueryDone, ClaimDone, IInv, TypeOK,
               Storage
      <3>2. CASE UNCHANGED storage
        BY <3>2
      <3> QED BY <1>5, <3>1, <3>2
              DEF Disconnect, InitialUnparsed, Logout, Save, MsgNewRoom, RoomMade,
                  InviteDone, JoinDone, ClaimNoKey, KeySent, PostDone,
                  RequestFails, They,
                  TheyInvite, TheyCome, TheirKey, TheyPost, vars, clientVars
    <2> QED BY <2>1, <2>2, <2>3 DEF KeyedReadable
  <1> QED BY <1>1, <1>2, <1>3, <1>4, <1>5 DEF Next, Msg, Callback, Death

\* What can be read is kept from the first state on.
LEMMA AlwaysReadable == Spec => []KeyedReadable
  <1>1. Init => KeyedReadable
    BY DEF Init, KeyedReadable
  <1>2. IInv /\ KeyedReadable /\ [Next]_vars => KeyedReadable'
    BY StepReadable
  <1> QED BY <1>1, <1>2, AlwaysIInv, PTL DEF Spec

\* Only a sync misses messages, and none it has the key of.
LEMMA MissesLate ==
  ASSUME KeyedReadable, [Next]_vars
  PROVE  starts = 0 => \A s \in missed' \ missed : s \notin keyed'
  <1>1. CASE SyncDone
    <2>1. status # "crashed"
      BY <1>1 DEF SyncDone, Syncing
    <2>2. PICK taken \in SUBSET unseen.keys :
            /\ keyed' = keyed \cup taken
            /\ missed' = missed \cup (unseen.posts \ (storage.groupIn \cup taken))
      BY <1>1 DEF SyncDone, Unreadable
    <2> QED BY <2>1, <2>2 DEF KeyedReadable
  <1>2. CASE missed' = missed
    BY <1>2
  <1>3. SyncDone \/ missed' = missed
    BY DEF Next, Msg, Callback, Login, LoginDies, Disconnect, InitialUnparsed,
           Logout, Save, Restart, SyncDies, MsgNewRoom, MsgKnownRoom, MsgDies,
           RoomMade, RoomAnswered, RoomAnswerDies, InviteDone, JoinDone, QueryDone,
           ClaimDone, ClaimNoKey, ClaimEmpty, KeySent, PostDone, RequestFails,
           They, TheyInvite, TheyCome, TheirKey, TheyPost, vars, historyVars
  <1> QED BY <1>1, <1>2, <1>3

\* A sync misses no message whose key has been taken in, from the same sync or an
\* earlier one, of this session or of another since the client was started
\* (cli_matrix_thread.cpp:868-870, 466-472 and 286-321).
THEOREM MissedOnlyIfLate == Spec => MissedOnlyIfKeyLate
  <1>1. KeyedReadable /\ [Next]_vars =>
          [starts = 0 => \A s \in missed' \ missed : s \notin keyed']_vars
    BY MissesLate
  <1> QED BY <1>1, AlwaysReadable, PTL DEF Spec, MissedOnlyIfKeyLate

-----------------------------------------------------------------------------
(* Ratchets that are kept.                                                 *)

\* While every save has come to its end, what the sessions have encrypted with
\* last is in memory or, before a login, in the file: save() writes what the
\* session leaves, and load() takes over what a client started again has not.
RatchetsSaved ==
  ~lost => \A r \in Rooms :
    /\ Online \/ status \in {"saving", "off"} => storage.groupOut[r] = spent[r]
    /\ status \in {"new", "off"} => Saved.groupOut[r] = spent[r]
    /\ status = "new" => storage.groupOut[r] = 0

\* A login, a logout, a save and a restart keep the ratchets.
LEMMA SessionStepRatchets ==
  ASSUME IInv, RatchetsSaved, Login \/ Logout \/ Save \/ Restart, ~lost'
  PROVE  RatchetsSaved'
  <1>1. CASE Login
    <2>1. /\ storage' = Loaded(storage) /\ status' \in {"initial", "closing"}
          /\ status \in {"new", "off"} /\ spent' = spent /\ ~lost
          /\ disk # Torn
      BY <1>1 DEF Login, historyVars
    <2>2. \A r \in Rooms : /\ Saved.groupOut[r] = spent[r]
                           /\ storage.groupOut[r] \in {0, spent[r]}
      BY <2>1 DEF RatchetsSaved
    <2>3. \A r \in Rooms : storage'.groupOut[r] = spent[r]
      <3>1. CASE disk = NoFile
        <4>1. storage' = storage /\ \A r \in Rooms : Saved.groupOut[r] = 0
          BY <2>1, <3>1 DEF Loaded, Saved, EmptyStorage
        <4> QED BY <2>2, <4>1
      <3>2. CASE disk # NoFile
        <4>1. /\ Saved = disk
              /\ \A r \in Rooms : storage'.groupOut[r] =
                   IF disk.groupOut[r] # 0 THEN disk.groupOut[r]
                   ELSE storage.groupOut[r]
          BY <2>1, <3>2 DEF Loaded, Saved
        <4> QED BY <2>2, <4>1
      <3> QED BY <3>1, <3>2
    <2> QED BY <2>1, <2>3 DEF RatchetsSaved
  <1>2. CASE Logout
    <2>1. /\ status' = "saving" /\ Online /\ ~lost
          /\ UNCHANGED <<storage, spent>>
      BY <1>2 DEF Logout, Online, clientVars
    <2> QED BY <2>1 DEF RatchetsSaved, Online
  <1>3. CASE Save
    <2>1. /\ status = "saving" /\ status' = "off" /\ disk' = storage /\ ~lost
          /\ UNCHANGED <<storage, spent>>
      BY <1>3 DEF Save, clientVars, historyVars
    <2>2. Saved' = storage
      BY <2>1, FileAssumption DEF Saved, IInv, TypeOK
    <2> QED BY <2>1, <2>2 DEF RatchetsSaved, Online
  <1>4. CASE Restart
    <2>1. /\ storage' = EmptyStorage /\ status' = "new" /\ status = "off" /\ ~lost
          /\ spent' = spent
      BY <1>4 DEF Restart
    <2>2. Saved' = Saved
      BY <1>4, <2>1, RestartSaved
    <2>3. \A r \in Rooms : storage'.groupOut[r] = 0
      BY <2>1 DEF EmptyStorage
    <2> QED BY <2>1, <2>2, <2>3 DEF RatchetsSaved, Online
  <1> QED BY <1>1, <1>2, <1>3, <1>4

\* A message moves the ratchet of its room on, and a new session starts at 1.
LEMMA EncryptingRatchets ==
  ASSUME IInv, RatchetsSaved, ~lost',
         (\E u \in Others : MsgKnownRoom(u)) \/ \E q \in reqs : RoomAnswered(q)
  PROVE  RatchetsSaved'
  <1>1. Online /\ status' = status /\ disk' = disk /\ ~lost
    <2>1. CASE \E u \in Others : MsgKnownRoom(u)
      BY <2>1 DEF MsgKnownRoom, Online, Syncing
    <2>2. CASE \E q \in reqs : RoomAnswered(q)
      <3>1. Online
        BY <2>2 DEF IInv, IdleEmpty, TypeOK, Online
      <3> QED BY <2>2, <3>1 DEF RoomAnswered, userVars
    <2> QED BY <2>1, <2>2
  <1>2. \A r \in Rooms : storage.groupOut[r] = spent[r]
    BY <1>1 DEF RatchetsSaved
  <1>3. \/ \E r \in Rooms, i \in 0 .. MaxMsgs :
             /\ storage' = [storage EXCEPT !.groupOut[r] = i]
             /\ spent' = [spent EXCEPT ![r] = i]
        \/ UNCHANGED <<storage, spent>>
    <2>1. ASSUME NEW u \in Others, MsgKnownRoom(u)
          PROVE  \E r \in Rooms, i \in 0 .. MaxMsgs :
                   /\ storage' = [storage EXCEPT !.groupOut[r] = i]
                   /\ spent' = [spent EXCEPT ![r] = i]
      <3> DEFINE r == InRoom(u)
                 i == storage.groupOut[r] + 1
      <3>1. /\ r # 0 /\ Len(asked) < MaxMsgs
            /\ storage' = [storage EXCEPT !.groupOut[r] = i]
            /\ spent' = [spent EXCEPT ![r] = i]
        BY <2>1 DEF MsgKnownRoom
      <3>2. r \in Rooms
        BY <3>1, InRoomSeen
      <3> HIDE DEF r
      <3>3. storage.groupOut[r] \in 0 .. MaxMsgs /\ storage.groupOut[r] <= Len(asked)
        BY <3>2, StorageParts DEF IInv, TypeOK, CommandsPay
      <3>4. Len(asked) \in Nat
        BY DEF IInv, TypeOK
      <3>5. i \in 0 .. MaxMsgs
        BY <3>1, <3>3, <3>4, BoundsAssumption
      <3> HIDE DEF i
      <3> QED BY <3>1, <3>2, <3>5
    <2>2. ASSUME NEW q \in reqs, RoomAnswered(q)
          PROVE  \/ /\ storage' = [storage EXCEPT !.groupOut[q.room] = 1]
                    /\ spent' = [spent EXCEPT ![q.room] = 1]
                    /\ q.room \in Rooms /\ 1 \in 0 .. MaxMsgs
                 \/ UNCHANGED <<storage, spent>>
      <3>1. q.room \in Rooms /\ q.cmd \in 1 .. MaxMsgs
        BY <2>2, RequestFields DEF RoomAnswered, IInv, TypeOK
      <3>2. 1 \in 0 .. MaxMsgs
        BY <3>1, BoundsAssumption
      <3>3. CASE storage.members[q.room] # {}
        BY <2>2, <3>1, <3>2, <3>3 DEF RoomAnswered
      <3>4. CASE storage.members[q.room] = {}
        BY <2>2, <3>4 DEF RoomAnswered
      <3> QED BY <3>3, <3>4
    <2> QED BY <2>1, <2>2
  <1>4. \A r \in Rooms : storage'.groupOut[r] = spent'[r]
    <2>1. ASSUME NEW r \in Rooms, NEW i \in 0 .. MaxMsgs,
                 storage' = [storage EXCEPT !.groupOut[r] = i],
                 spent' = [spent EXCEPT ![r] = i]
          PROVE  \A x \in Rooms : storage'.groupOut[x] = spent'[x]
      <3>1. storage'.groupOut = [storage.groupOut EXCEPT ![r] = i]
        BY <2>1, RatchetType DEF IInv, TypeOK
      <3>2. /\ storage.groupOut \in [Rooms -> 0 .. MaxMsgs]
            /\ spent \in [Rooms -> 0 .. MaxMsgs]
        BY StorageParts DEF IInv, TypeOK
      <3> QED BY <1>2, <2>1, <3>1, <3>2
    <2> QED BY <1>2, <1>3, <2>1
  <1> QED BY <1>1, <1>4 DEF RatchetsSaved, Online

\* Other steps leave ratchets alone, or end the process.
LEMMA StepRatchets ==
  ASSUME IInv, RatchetsSaved, [Next]_vars
  PROVE  RatchetsSaved'
  <1> SUFFICES ASSUME ~lost' PROVE RatchetsSaved'
    BY DEF RatchetsSaved
  <1>1. CASE Login \/ Logout \/ Save \/ Restart
    BY <1>1, SessionStepRatchets
  <1>2. CASE (\E u \in Others : MsgKnownRoom(u)) \/ \E q \in reqs : RoomAnswered(q)
    BY <1>2, EncryptingRatchets
  <1>3. CASE Death
    <2>1. lost'
      BY <1>3 DEF Death, LoginDies, SyncDies, MsgDies, RoomAnswerDies, ClaimEmpty,
             Dies
    <2> QED BY <2>1
  <1>4. CASE Disconnect \/ InitialUnparsed \/ SyncDone
    <2>1. /\ Online /\ Online' /\ status' \notin {"new", "off", "saving"}
          /\ UNCHANGED <<spent, lost>>
      BY <1>4 DEF Disconnect, InitialUnparsed, SyncDone, Online, Syncing,
             historyVars
    <2>2. storage'.groupOut = storage.groupOut
      <3>1. CASE SyncDone
        <4>1. PICK taken \in SUBSET unseen.keys :
                storage' = [storage EXCEPT
                  !.members = AddMembers(storage.members, unseen.members),
                  !.groupIn = @ \cup taken]
          BY <3>1 DEF SyncDone
        <4> QED BY <4>1, SyncGrows
      <3>2. CASE Disconnect \/ InitialUnparsed
        BY <3>2 DEF Disconnect, InitialUnparsed, clientVars
      <3> QED BY <1>4, <3>1, <3>2
    <2> QED BY <2>1, <2>2 DEF RatchetsSaved
  <1>5. CASE \/ UNCHANGED vars
             \/ \E u \in Others : MsgNewRoom(u)
             \/ \E q \in reqs : \/ RoomMade(q) \/ InviteDone(q) \/ JoinDone(q)
                                \/ QueryDone(q) \/ ClaimDone(q) \/ ClaimNoKey(q)
                                \/ KeySent(q) \/ PostDone(q) \/ RequestFails(q)
             \/ \E r \in Rooms, p \in Others : They(r, p)
    <2>1. UNCHANGED <<status, disk, spent, lost>>
      BY <1>5 DEF MsgNewRoom, RoomMade, InviteDone, JoinDone, QueryDone, ClaimDone,
             ClaimNoKey, KeySent, PostDone, RequestFails, They, TheyInvite,
             TheyCome, TheirKey, TheyPost, vars, historyVars, userVars
    <2>2. storage'.groupOut = storage.groupOut
      <3>1. CASE \E q \in reqs : QueryDone(q) \/ ClaimDone(q)
        BY <3>1 DEF QueryDone, ClaimDone, IInv, TypeOK, Storage
      <3>2. CASE UNCHANGED storage
        BY <3>2
      <3> QED BY <1>5, <3>1, <3>2
              DEF MsgNewRoom, RoomMade, InviteDone, JoinDone, ClaimNoKey, KeySent,
                  PostDone, RequestFails, They, TheyInvite, TheyCome, TheirKey,
                  TheyPost, vars, clientVars
    <2> QED BY <2>1, <2>2 DEF RatchetsSaved, Online, Saved
  <1> QED BY <1>1, <1>2, <1>3, <1>4, <1>5 DEF Next, Msg, Callback, Death

\* As long as no save has failed or been cut short, and no session has ended
\* without one, every session goes on with each room's ratchet where the last
\* message has left it, through logouts, logins and restarts: no key of a message is
\* used twice (cli_matrix_thread.cpp:286-321 and 334-362).
THEOREM RatchetsStay == Spec => []RatchetsKept
  <1>1. Init => RatchetsSaved
    BY DEF Init, RatchetsSaved, Saved, EmptyStorage, Online
  <1>2. IInv /\ RatchetsSaved /\ [Next]_vars => RatchetsSaved'
    BY StepRatchets
  <1>3. RatchetsSaved => RatchetsKept
    BY DEF RatchetsSaved, RatchetsKept
  <1> QED BY <1>1, <1>2, <1>3, AlwaysIInv, PTL DEF Spec
=============================================================================
