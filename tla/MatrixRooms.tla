---------------------------- MODULE MatrixRooms ----------------------------
(***************************************************************************)
(* Rooms, keys and encrypted messages of the matrix client                 *)
(* (cli_matrix_thread.cpp): what the "msg" command and the answers of the  *)
(* server do to g_storage, and what of it survives.                        *)
(*                                                                         *)
(* Callbacks of requests run one after the other on the thread of the http *)
(* library, in the order in which answers come, which is any; the CLI's    *)
(* thread runs matrix_message between them.  The client has one session    *)
(* of its own for each room it has created, so that a room's name stands   *)
(* for the session, and <<r, p>> for the session p writes to room r with.  *)
(* The server and the other people act as the protocol lets them.          *)
(*                                                                         *)
(* The session file and the account file, which is written after it, count *)
(* as one: there is none if the account file is empty, for then nothing is *)
(* loaded (1125-1137), and it is torn if parsing either of them throws.    *)
(***************************************************************************)
EXTENDS Naturals, Sequences, FiniteSets, FiniteSetsExt

CONSTANTS
  Me,         \* g_matrix_user
  Others,     \* the other people
  Devices,    \* everyone's devices that publish keys
  OwnerOf,    \* whose device it is
  NoFile,     \* no file, or an empty one
  Torn,       \* a file that breaks off before the end of what was to be written
  MaxRooms,   \* bound on the rooms of the server
  MaxMsgs,    \* bound on the "msg" commands
  MaxLogins,  \* bound on the "matrix" commands
  MaxStarts   \* bound on the restarts of the client

People  == Others \cup {Me}
Rooms   == 1 .. MaxRooms
Garbage == 0

ASSUME PeopleAssumption == Me \notin Others /\ OwnerOf \in [Devices -> People]
ASSUME BoundsAssumption ==
  MaxRooms \in Nat /\ MaxMsgs \in Nat /\ MaxLogins \in Nat /\ MaxStarts \in Nat

VARIABLES
  storage,  \* g_storage
  disk,     \* the files of the account
  status,   \* how far the session of the client has got
  reqs,     \* the requests that have not been answered
  asked,    \* the users of the "msg" commands so far
  srv,      \* who the server has told of, or would, in each room
  mine,     \* the rooms the client's user has joined
  posts,    \* the sessions of which an encrypted message is at the server
  unseen,   \* what the server has for the next sync
  holders,  \* history: the devices the key of each room has been sent to
  failed,   \* history: requests about keys and rooms that came to nothing
  keyed,    \* history: the sessions whose key has been taken in
  missed,   \* history: the sessions of which a message could not be read
  spent,    \* history: the ratchet each room's session encrypted with last
  lost,     \* history: whether a session has ended without its save
  logins, starts

clientVars  == <<storage, reqs>>
serverVars  == <<srv, mine, posts, unseen>>
historyVars == <<holders, failed, keyed, missed, spent, lost>>
userVars    == <<disk, status, asked, logins, starts>>
vars == <<clientVars, serverVars, historyVars, userVars>>

-----------------------------------------------------------------------------
(* Storage and requests.                                                   *)

\* groupOut[r] is the number of messages encrypted in the room's session, or 0
\* when there is none; groupIn has the sessions whose messages can be read.
Storage == [devices  : [People -> SUBSET Devices],
            members  : [Rooms -> SUBSET People],
            olmOut   : SUBSET Devices,
            groupOut : [Rooms -> 0 .. MaxMsgs],
            groupIn  : SUBSET (Rooms \X People)]

EmptyStorage == [devices  |-> [p \in People |-> {}],
                 members  |-> [r \in Rooms |-> {}],
                 olmOut   |-> {},
                 groupOut |-> [r \in Rooms |-> 0],
                 groupIn  |-> {}]

\* A file that is not whole is not something a file holds.
ASSUME FileAssumption == NoFile \notin Storage /\ Torn \notin Storage

\* A create request has no room until the server has made one.
Create(n, r)        == [type |-> "create", cmd |-> n, room |-> r]
Invite(r, p)        == [type |-> "invite", room |-> r, user |-> p]
JoinRoom(r)         == [type |-> "join", room |-> r]
Query(p)            == [type |-> "query", user |-> p]
Claim(r, d)         == [type |-> "claim", room |-> r, dev |-> d]
ToDevice(r, d, ok)  == [type |-> "key", room |-> r, dev |-> d, ok |-> ok]
Post(r, i, n)       == [type |-> "post", room |-> r, index |-> i, text |-> n]

Request ==
  {Create(n, r) : n \in 1 .. MaxMsgs, r \in {0} \cup Rooms}
    \cup {Invite(r, p) : r \in Rooms, p \in People}
    \cup {JoinRoom(r) : r \in Rooms} \cup {Query(p) : p \in People}
    \cup {Claim(r, d) : r \in Rooms, d \in Devices}
    \cup {ToDevice(r, d, ok) : r \in Rooms, d \in Devices, ok \in BOOLEAN}
    \cup {Post(r, i, n) : r \in Rooms, i \in 1 .. MaxMsgs, n \in 0 .. MaxMsgs}

\* in_room: the first room both users have been seen in; 0 for none.
InRoom(u) ==
  LET both == {r \in Rooms : {Me, u} \subseteq storage.members[r]}
  IN  IF both = {} THEN 0 ELSE Min(both)

\* add_member, for every member event of a sync, whatever it says of the user.
AddMembers(members, events) ==
  [r \in Rooms |-> members[r] \cup {p \in People : <<r, p>> \in events}]

\* What load() makes of the memory m: it takes sessions over, and replaces lists.
Loaded(m) ==
  IF disk \in {NoFile, Torn} THEN m
  ELSE [devices  |-> disk.devices,
        members  |-> disk.members,
        olmOut   |-> m.olmOut \cup disk.olmOut,
        groupOut |-> [r \in Rooms |-> IF disk.groupOut[r] # 0
                        THEN disk.groupOut[r] ELSE m.groupOut[r]],
        groupIn  |-> m.groupIn \cup disk.groupIn]

-----------------------------------------------------------------------------
(* The session: matrix_thread, from its first to its last line.            *)

Online == status \in {"initial", "sync", "closing", "leaving"}
Syncing == status \in {"initial", "sync"}

\* The client is set up and the initial sync is requested, or the login fails.
\* The initial sync brings all there is to know of rooms and invitations.
Login ==
  /\ status \in {"new", "off"} /\ logins < MaxLogins
  /\ disk # Torn
  /\ storage' = Loaded(storage)
  /\ status' \in {"initial", "closing"}
  /\ logins' = logins + 1
  /\ unseen' = [unseen EXCEPT
       !.invites = {r \in Rooms \ mine : Me \in srv[r]},
       !.members = {e \in mine \X People : e[2] \in srv[e[1]]},
       !.posts   = {e \in posts : e[1] \in mine}]
  /\ UNCHANGED <<reqs, srv, mine, posts, historyVars, disk, asked, starts>>

\* "matrix disconnect": the CLI waits from now on.
Disconnect ==
  /\ Syncing
  /\ status' = "leaving"
  /\ UNCHANGED <<clientVars, serverVars, historyVars, disk, asked, logins,
                 starts>>

\* initial_sync_handler gives up; the CLI knows nothing of it.
InitialUnparsed ==
  /\ status = "initial"
  /\ status' = "closing"
  /\ UNCHANGED <<clientVars, serverVars, historyVars, disk, asked, logins,
                 starts>>

\* An exception nobody catches, or a null or dangling pointer: the process dies.
Dies ==
  /\ status' = "crashed" /\ storage' = EmptyStorage /\ reqs' = {}
  /\ lost' = TRUE

\* A file that is torn cannot be parsed, at this login or any other.
LoginDies ==
  /\ status \in {"new", "off"} /\ logins < MaxLogins
  /\ disk = Torn
  /\ Dies
  /\ logins' = logins + 1
  /\ UNCHANGED <<serverVars, holders, failed, keyed, missed, spent, disk, asked,
                 starts>>

\* login() and close() have returned, so all requests have been answered.  save()
\* opens the file, which empties it, or cannot and gives up.
Logout ==
  /\ status \in {"closing", "leaving"} /\ reqs = {}
  /\ \/ disk' = NoFile /\ status' = "saving" /\ UNCHANGED lost
     \/ status' = "off" /\ lost' = TRUE /\ UNCHANGED disk
  /\ UNCHANGED <<clientVars, serverVars, holders, failed, keyed, missed, spent,
                 asked, logins, starts>>

\* Mutant: nothing is written to the file that was opened.
SaveNothing ==
  /\ status = "saving"
  /\ status' = "off"
  /\ UNCHANGED <<clientVars, serverVars, historyVars, disk, asked, logins, starts>>

\* All of it is written in the end, and the account in the same way after it.
Save ==
  /\ status = "saving"
  /\ disk' = storage
  /\ status' = "off"
  /\ UNCHANGED <<clientVars, serverVars, historyVars, asked, logins, starts>>

\* The client has crashed, or is killed, and is started again.  Killed while it
\* saves, it leaves files that are empty, torn, or good to load.
Restart ==
  /\ status # "new" /\ starts < MaxStarts
  /\ storage' = EmptyStorage /\ reqs' = {}
  /\ disk' \in IF status = "saving" THEN {NoFile, Torn, storage} ELSE {disk}
  /\ status' = "new"
  /\ lost' = (lost \/ status \notin {"new", "off"})
  /\ starts' = starts + 1
  /\ UNCHANGED <<serverVars, holders, failed, keyed, missed, spent, asked, logins>>

-----------------------------------------------------------------------------
(* The "msg" command: matrix_message on the thread of the CLI.             *)

\* No room with the user is known: one is asked for (invite_room).
MsgNewRoom(u) ==
  /\ Syncing \/ status = "closing"
  /\ InRoom(u) = 0 /\ Len(asked) < MaxMsgs
  /\ asked' = Append(asked, u)
  /\ reqs' = reqs \cup {Create(Len(asked) + 1, 0)}
  /\ UNCHANGED <<storage, serverVars, historyVars, disk, status, logins, starts>>

\* Mutant: the message is encrypted twice.
MsgKnownRoomTwice(u) ==
  LET r == InRoom(u)
      i == storage.groupOut[r] + 1
  IN  /\ Syncing \/ status = "closing"
      /\ r # 0 /\ Len(asked) < MaxMsgs
      /\ storage.groupOut[r] # 0
      /\ asked' = Append(asked, u)
      /\ storage' = [storage EXCEPT !.groupOut[r] = i + 1]
      /\ spent' = [spent EXCEPT ![r] = i]
      /\ reqs' = reqs \cup {Post(r, i, Len(asked) + 1)}
      /\ UNCHANGED <<serverVars, holders, failed, keyed, missed, lost, disk,
                     status, logins, starts>>

\* The room's session encrypts the message (send_group_message).
MsgKnownRoom(u) ==
  LET r == InRoom(u)
      i == storage.groupOut[r] + 1
  IN  /\ Syncing \/ status = "closing"
      /\ r # 0 /\ Len(asked) < MaxMsgs
      /\ storage.groupOut[r] # 0
      /\ asked' = Append(asked, u)
      /\ storage' = [storage EXCEPT !.groupOut[r] = i]
      /\ spent' = [spent EXCEPT ![r] = i]
      /\ reqs' = reqs \cup {Post(r, i, Len(asked) + 1)}
      /\ UNCHANGED <<serverVars, holders, failed, keyed, missed, lost, disk,
                     status, logins, starts>>

\* get_outbound_group_session makes an entry with a null session for a room
\* that has none; before any login g_mtxclient is null.
MsgDies(u) ==
  /\ Len(asked) < MaxMsgs
  /\ \/ /\ Syncing \/ status = "closing"
        /\ InRoom(u) # 0 /\ storage.groupOut[InRoom(u)] = 0
     \/ status = "new"
  /\ asked' = Append(asked, u)
  /\ Dies
  /\ UNCHANGED <<serverVars, holders, failed, keyed, missed, spent, disk, logins,
                 starts>>

-----------------------------------------------------------------------------
(* Answers to a request for a room.                                        *)

\* The server makes the room; the answer is on its way.
RoomMade(q) ==
  /\ q.type = "create" /\ q.room = 0
  /\ \E r \in Rooms :
       LET there == {Me, asked[q.cmd]}
       IN  /\ srv[r] = {}
           /\ srv' = [srv EXCEPT ![r] = there]
           /\ mine' = mine \cup {r}
           /\ unseen' = [unseen EXCEPT !.members = @ \cup ({r} \X there)]
           /\ reqs' = (reqs \ {q}) \cup {Create(q.cmd, r)}
  /\ UNCHANGED <<storage, posts, historyVars, userVars>>

\* The devices the members of room r are known to have.
ListedDevices(r) == UNION {storage.devices[p] : p \in storage.members[r]}

\* create_outbound_megolm_session: the key goes to a device the client has an
\* olm session with in a body the server will refuse, for it names a pair; for
\* other devices a one-time key is claimed first.  The message does not wait.
OutboundSession(r, text) ==
  {Claim(r, d) : d \in ListedDevices(r) \ storage.olmOut}
    \cup {ToDevice(r, d, FALSE) : d \in ListedDevices(r) \cap storage.olmOut}
    \cup {Post(r, 1, text)}

\* Mutant: a session is begun in rooms nobody has been seen in.
RoomAnsweredEmpty(q) ==
  /\ q.type = "create" /\ q.room # 0
  /\ \E n \in {q.cmd, Len(asked)} : \E text \in {n, Garbage} :
       reqs' = (reqs \ {q}) \cup {Invite(q.room, asked[n])}
                 \cup OutboundSession(q.room, text)
  /\ storage' = [storage EXCEPT !.groupOut[q.room] = 1]
  /\ spent' = [spent EXCEPT ![q.room] = 1]
  /\ UNCHANGED <<serverVars, holders, failed, keyed, missed, lost, userVars>>

\* The callback of create_room.  Its user and message are references to strings
\* that are gone (invite_room, matrix_message): it finds what they were, those
\* of the latest "msg" command, whose stack frame is at the same place, or
\* garbage.  Without members nothing is sent, and no session is made.
RoomAnswered(q) ==
  /\ q.type = "create" /\ q.room # 0
  /\ LET r     == q.room
         known == storage.members[r] # {}
     IN  \E n \in {q.cmd, Len(asked)} : \E text \in {n, Garbage} :
           /\ reqs' = (reqs \ {q}) \cup {Invite(r, asked[n])}
                        \cup (IF known THEN OutboundSession(r, text) ELSE {})
           /\ storage' = IF known THEN [storage EXCEPT !.groupOut[r] = 1]
                                  ELSE storage
           /\ spent' = IF known THEN [spent EXCEPT ![r] = 1] ELSE spent
  /\ UNCHANGED <<serverVars, holders, failed, keyed, missed, lost, userVars>>

\* print_errors looks into an error that is not there, and room_id is written
\* to where a string was: the process may die of either.
RoomAnswerDies(q) ==
  /\ q.type = "create"
  /\ Dies
  /\ UNCHANGED <<serverVars, holders, failed, keyed, missed, spent, disk, asked,
                 logins, starts>>

-----------------------------------------------------------------------------
(* Answers to other requests.                                              *)

Answered(q, new) == reqs' = (reqs \ {q}) \cup new

\* invite_user: the callback does nothing.
InviteDone(q) ==
  /\ q.type = "invite"
  /\ srv' = [srv EXCEPT ![q.room] = @ \cup {q.user}]
  /\ unseen' = [unseen EXCEPT !.members = @ \cup {<<q.room, q.user>>}]
  /\ Answered(q, {})
  /\ UNCHANGED <<storage, mine, posts, historyVars, userVars>>

\* join_room: the next sync tells of all members and of earlier messages.
JoinDone(q) ==
  /\ q.type = "join"
  /\ mine' = mine \cup {q.room}
  /\ unseen' = [unseen EXCEPT
       !.members = @ \cup ({q.room} \X srv[q.room]),
       !.posts   = @ \cup {e \in posts : e[1] = q.room}]
  /\ Answered(q, {})
  /\ UNCHANGED <<storage, srv, posts, historyVars, userVars>>

\* save_device_keys: the devices that have a curve25519 key replace the list.
QueryDone(q) ==
  /\ q.type = "query"
  /\ \E found \in SUBSET {d \in Devices : OwnerOf[d] = q.user} :
       storage' = [storage EXCEPT !.devices[q.user] = found]
  /\ Answered(q, {})
  /\ UNCHANGED <<serverVars, historyVars, userVars>>

\* Mutant: the key is not sent on.
ClaimDoneSilent(q) ==
  /\ q.type = "claim"
  /\ storage' = [storage EXCEPT !.olmOut = @ \cup {q.dev}]
  /\ Answered(q, {})
  /\ UNCHANGED <<serverVars, historyVars, userVars>>

\* claim_keys: the olm session replaces any that another claim has made.
ClaimDone(q) ==
  /\ q.type = "claim"
  /\ storage' = [storage EXCEPT !.olmOut = @ \cup {q.dev}]
  /\ Answered(q, {ToDevice(q.room, q.dev, TRUE)})
  /\ UNCHANGED <<serverVars, historyVars, userVars>>

\* The answer has the user, and no key of the device: nothing is sent.
ClaimNoKey(q) ==
  /\ q.type = "claim"
  /\ Answered(q, {})
  /\ failed' = failed \cup {q}
  /\ UNCHANGED <<storage, serverVars, holders, keyed, missed, spent, lost, userVars>>

\* The answer does not have the user: one_time_keys.at( member ) throws.
ClaimEmpty(q) ==
  /\ q.type = "claim"
  /\ Dies
  /\ UNCHANGED <<serverVars, holders, failed, keyed, missed, spent, disk, asked,
                 logins, starts>>

\* Mutant: one key after the other is claimed.
KeySentAgain(q) ==
  /\ q.type = "key" /\ q.ok
  /\ holders' = [holders EXCEPT ![q.room] = @ \cup {q.dev}]
  /\ Answered(q, {Claim(q.room, q.dev)})
  /\ UNCHANGED <<storage, serverVars, failed, keyed, missed, spent, lost, userVars>>

\* send_to_device; a key for the client's own device comes back in a sync.
KeySent(q) ==
  /\ q.type = "key" /\ q.ok
  /\ holders' = [holders EXCEPT ![q.room] = @ \cup {q.dev}]
  /\ unseen' = IF OwnerOf[q.dev] = Me
               THEN [unseen EXCEPT !.keys = @ \cup {<<q.room, Me>>}]
               ELSE unseen
  /\ Answered(q, {})
  /\ UNCHANGED <<storage, srv, mine, posts, failed, keyed, missed, spent, lost,
                 userVars>>

\* send_room_message: the message comes back in a sync as well.
PostDone(q) ==
  /\ q.type = "post"
  /\ posts' = posts \cup {<<q.room, Me>>}
  /\ unseen' = [unseen EXCEPT !.posts = @ \cup {<<q.room, Me>>}]
  /\ Answered(q, {})
  /\ UNCHANGED <<storage, srv, mine, historyVars, userVars>>

\* An error is printed, and that is all.  The callback of create_room goes on
\* with an empty room id, for which there are no members.
RequestFails(q) ==
  /\ Answered(q, {})
  /\ failed' = failed \cup {r \in {q} : r.type \in {"join", "claim", "key"}}
  /\ UNCHANGED <<storage, serverVars, holders, keyed, missed, spent, lost, userVars>>

-----------------------------------------------------------------------------
(* Syncs: parse_messages.                                                  *)

NothingNew == [invites |-> {}, members |-> {}, keys |-> {}, posts |-> {}]

\* Encrypted events without a session are reported, and lost.
Unreadable(sessions) == unseen.posts \ sessions

\* Rooms to join; a query for the devices of everyone with a member event.
AskedBySync ==
  {JoinRoom(r) : r \in unseen.invites} \cup {Query(e[2]) : e \in unseen.members}

\* Mutant: room keys are looked at after the messages of the rooms.
SyncDoneKeysLast ==
  /\ Syncing
  /\ \E taken \in SUBSET unseen.keys :
       /\ storage' = [storage EXCEPT
            !.members = AddMembers(storage.members, unseen.members),
            !.groupIn = @ \cup taken]
       /\ keyed' = keyed \cup taken
       /\ missed' = missed \cup Unreadable(storage.groupIn)
  /\ reqs' = reqs \cup AskedBySync
  /\ unseen' = NothingNew
  /\ status' = "sync"
  /\ UNCHANGED <<srv, mine, posts, holders, failed, spent, lost, disk, asked,
                 logins, starts>>

\* Mutant: invitations are not taken.
SyncDoneAlone ==
  /\ Syncing
  /\ \E taken \in SUBSET unseen.keys :
       /\ storage' = [storage EXCEPT
            !.members = AddMembers(storage.members, unseen.members),
            !.groupIn = @ \cup taken]
       /\ keyed' = keyed \cup taken
       /\ missed' = missed \cup Unreadable(storage.groupIn \cup taken)
  /\ reqs' = reqs \cup {Query(e[2]) : e \in unseen.members}
  /\ unseen' = NothingNew
  /\ status' = "sync"
  /\ UNCHANGED <<srv, mine, posts, holders, failed, spent, lost, disk, asked,
                 logins, starts>>

\* initial_sync_handler and sync_handler on success: rooms are joined, then room
\* keys are taken in (handle_to_device_msgs), then the events of rooms read.  Keys
\* are passed over that come in an olm message of another type than 0, of a
\* session that does not match or in a form that cannot be parsed.  An answer that
\* comes when g_matrix_shutdown is raised is thrown away.
SyncDone ==
  /\ Syncing
  /\ \E taken \in SUBSET unseen.keys :
       /\ storage' = [storage EXCEPT
            !.members = AddMembers(storage.members, unseen.members),
            !.groupIn = @ \cup taken]
       /\ keyed' = keyed \cup taken
       /\ missed' = missed \cup Unreadable(storage.groupIn \cup taken)
  /\ reqs' = reqs \cup AskedBySync
  /\ unseen' = NothingNew
  /\ status' = "sync"
  /\ UNCHANGED <<srv, mine, posts, holders, failed, spent, lost, disk, asked,
                 logins, starts>>

\* The olm library throws what handle_to_device_msgs does not catch.
SyncDies ==
  /\ Syncing /\ unseen.keys # {}
  /\ Dies
  /\ UNCHANGED <<serverVars, holders, failed, keyed, missed, spent, disk, asked,
                 logins, starts>>

-----------------------------------------------------------------------------
(* Other people.                                                           *)

\* p makes a room and invites the client's user.
TheyInvite(r, p) ==
  /\ srv[r] = {}
  /\ srv' = [srv EXCEPT ![r] = {Me, p}]
  /\ unseen' = [unseen EXCEPT !.invites = @ \cup {r}]
  /\ UNCHANGED <<clientVars, mine, posts, historyVars, userVars>>

\* p comes into a room.  (Leaving is a member event like any other.)
TheyCome(r, p) ==
  /\ srv[r] # {} /\ p \notin srv[r]
  /\ srv' = [srv EXCEPT ![r] = @ \cup {p}]
  /\ unseen' = IF r \in mine
               THEN [unseen EXCEPT !.members = @ \cup {<<r, p>>}] ELSE unseen
  /\ UNCHANGED <<clientVars, mine, posts, historyVars, userVars>>

\* p sends the key of its session in room r to the client's device.
TheirKey(r, p) ==
  /\ {Me, p} \subseteq srv[r]
  /\ <<r, p>> \notin keyed \cup unseen.keys
  /\ unseen' = [unseen EXCEPT !.keys = @ \cup {<<r, p>>}]
  /\ UNCHANGED <<clientVars, srv, mine, posts, historyVars, userVars>>

\* p sends a message to room r, with its session there.
TheyPost(r, p) ==
  /\ p \in srv[r]
  /\ posts' = posts \cup {<<r, p>>}
  /\ unseen' = IF r \in mine
               THEN [unseen EXCEPT !.posts = @ \cup {<<r, p>>}] ELSE unseen
  /\ UNCHANGED <<clientVars, srv, mine, historyVars, userVars>>

-----------------------------------------------------------------------------
Init ==
  /\ storage = EmptyStorage /\ disk = NoFile /\ status = "new"
  /\ reqs = {} /\ asked = <<>>
  /\ srv = [r \in Rooms |-> {}] /\ mine = {} /\ posts = {}
  /\ unseen = NothingNew
  /\ holders = [r \in Rooms |-> {}] /\ failed = {}
  /\ keyed = {} /\ missed = {}
  /\ spent = [r \in Rooms |-> 0] /\ lost = FALSE
  /\ logins = 0 /\ starts = 0

Callback(q) ==
  \/ RoomMade(q) \/ RoomAnswered(q) \/ RoomAnswerDies(q) \/ InviteDone(q)
  \/ JoinDone(q) \/ QueryDone(q) \/ ClaimDone(q) \/ ClaimNoKey(q)
  \/ ClaimEmpty(q) \/ KeySent(q) \/ PostDone(q) \/ RequestFails(q)

Msg(u) == MsgNewRoom(u) \/ MsgKnownRoom(u) \/ MsgDies(u)

\* While the client is not running nothing of this makes a difference to it, and
\* might as well happen later.
They(r, p) ==
  /\ status # "crashed"
  /\ TheyInvite(r, p) \/ TheyCome(r, p) \/ TheirKey(r, p) \/ TheyPost(r, p)

Next ==
  \/ Login \/ LoginDies \/ Disconnect \/ InitialUnparsed \/ Logout \/ Save
  \/ Restart \/ SyncDone \/ SyncDies
  \/ \E u \in Others : Msg(u)
  \/ \E q \in reqs : Callback(q)
  \/ \E r \in Rooms, p \in Others : They(r, p)

Spec == Init /\ [][Next]_vars

\* Every request is answered or fails in the end (there are finitely many), and
\* so does a sync, again and again until it succeeds.
FairSpec ==
  /\ Spec
  /\ WF_vars(\E q \in reqs : Callback(q))
  /\ WF_vars(SyncDone) /\ WF_vars(Logout \/ Save)

-----------------------------------------------------------------------------
(* Properties.                                                             *)

\* What is stored, asked for and known by the server is of its type.
TypeOK ==
  /\ storage \in Storage /\ disk \in Storage \cup {NoFile, Torn}
  /\ status \in {"new", "off", "initial", "sync", "closing", "leaving", "saving",
                 "crashed"}
  /\ reqs \subseteq Request /\ failed \subseteq Request
  /\ asked \in Seq(Others) /\ Len(asked) <= MaxMsgs
  /\ srv \in [Rooms -> SUBSET People] /\ mine \subseteq Rooms
  /\ posts \subseteq Rooms \X People
  /\ unseen \in [invites : SUBSET Rooms, members : SUBSET (Rooms \X People),
                  keys : SUBSET (Rooms \X People),
                  posts : SUBSET (Rooms \X People)]
  /\ holders \in [Rooms -> SUBSET Devices]
  /\ keyed \subseteq Rooms \X People /\ missed \subseteq Rooms \X People
  /\ spent \in [Rooms -> 0 .. MaxMsgs] /\ lost \in BOOLEAN
  /\ logins \in 0 .. MaxLogins /\ starts \in 0 .. MaxStarts

\* The client keeps the promises of RoomSessions over all orders of answers,
\* failures, logouts and logins, and restarts (create_outbound_megolm_session,
\* send_group_message, save and load).
Promised == INSTANCE RoomSessions WITH
  people  <- storage.members,
  ratchet <- storage.groupOut,
  file    <- IF disk \in {NoFile, Torn}
             THEN [people |-> EmptyStorage.members,
                   ratchet |-> EmptyStorage.groupOut]
             ELSE [people |-> disk.members, ratchet |-> disk.groupOut],
  holders <- holders
KeepsPromises == Promised!Spec

\* A message is not missed if its session's key has been taken in, be it from the
\* same sync or in an earlier session of a client that has not been restarted
\* (cli_matrix_thread.cpp:868-870, "i.e starting a new megolm session").
MissedOnlyIfKeyLate ==
  [][starts = 0 => \A s \in missed' \ missed : s \notin keyed']_vars

\* As long as no save has failed or been cut short, and no session has ended
\* without one, every session goes on with each room's ratchet where the last
\* message has left it, through logouts, logins and restarts in any order: no key
\* of a message is used twice (cli_matrix_thread.cpp:286-321 and 334-362).
RatchetsKept ==
  Online /\ ~lost => \A r \in Rooms : storage.groupOut[r] = spent[r]

\* "Waiting for matrix thread to quit" (cli.cpp:547) ends, whatever requests and
\* answers to answers are still to come.
LeavingEnds == status = "leaving" ~> status \notin {"leaving", "saving"}

Down == status \in {"new", "crashed"}

\* A device whose one-time key is claimed gets the key of the room, unless a
\* request comes to nothing or the process ends (create_outbound_megolm_session).
ClaimedGetKey ==
  \A r \in Rooms, d \in Devices :
    Claim(r, d) \in reqs ~>
      d \in holders[r] \/ {Claim(r, d), ToDevice(r, d, TRUE)} \cap failed # {} \/ Down

\* "joining room" (cli_matrix_thread.cpp:857): a client that goes on syncing joins
\* the rooms its user is invited to, unless the request fails.  A session that
\* ends before is not bound to it.
InvitesTaken ==
  \A r \in Rooms :
    Syncing /\ r \in unseen.invites ~>
      r \in mine \/ JoinRoom(r) \in failed \/ ~Syncing

\* "create new room between users if it does not yet exist"
\* (cli_matrix_thread.cpp:826).
OneRoomPerUser ==
  \A q1, q2 \in reqs : q1.type = "create" /\ q2.type = "create" /\ q1 # q2 =>
    asked[q1.cmd] # asked[q2.cmd]

\* "Send a message to a user" (cli_matrix_thread.cpp:821): a message is posted to
\* a room that the user it is written to is in.
ReachesItsUser ==
  \A q \in reqs : q.type = "post" /\ q.text # Garbage =>
    asked[q.text] \in srv[q.room]

\* "room between ... already exists" (cli_matrix_thread.cpp:836): a message to a
\* user the client shares a room with does not end the process.
RoomHasSession ==
  Syncing => \A u \in Others :
    InRoom(u) # 0 => storage.groupOut[InRoom(u)] # 0
=============================================================================
