---------------------------- MODULE RoomSessions ----------------------------
(***************************************************************************)
(* What a matrix client promises of the group sessions of its rooms,       *)
(* whatever requests are under way, refused or answered late:              *)
(*   - a room has at most one session, begun once people are seen in it;   *)
(*   - its key goes to devices of people who have been seen in the room;   *)
(*   - its ratchet moves forward one step for each message; it moves back  *)
(*     to what was saved last, whenever that is loaded, which may be less  *)
(*     than what is in memory when a save has failed; and it is lost with  *)
(*     the process, or with a file that was emptied and not written again. *)
(* MatrixRooms implements it.                                              *)
(***************************************************************************)
EXTENDS Naturals

CONSTANTS Rooms, People, Devices, OwnerOf

VARIABLES
  people,   \* the people who have been seen in each room
  ratchet,  \* the messages encrypted in the session of each room, 0 for none
  file,     \* people and ratchets as saved last
  holders   \* the devices the key of the room's session has been sent to

vars == <<people, ratchet, file, holders>>

NoOne     == [r \in Rooms |-> {}]
NoSession == [r \in Rooms |-> 0]

Init ==
  /\ people = NoOne /\ ratchet = NoSession /\ holders = NoOne
  /\ file = [people |-> NoOne, ratchet |-> NoSession]

See ==
  /\ people' \in [Rooms -> SUBSET People]
  /\ \A r \in Rooms : people[r] \subseteq people'[r]
  /\ UNCHANGED <<ratchet, file, holders>>

Begin(r) ==
  /\ people[r] # {} /\ ratchet[r] = 0
  /\ ratchet' = [ratchet EXCEPT ![r] = 1]
  /\ UNCHANGED <<people, file, holders>>

Encrypt(r) ==
  /\ ratchet[r] # 0
  /\ ratchet' = [ratchet EXCEPT ![r] = @ + 1]
  /\ UNCHANGED <<people, file, holders>>

Share(r, d) ==
  /\ ratchet[r] # 0 /\ OwnerOf[d] \in people[r]
  /\ holders' = [holders EXCEPT ![r] = @ \cup {d}]
  /\ UNCHANGED <<people, ratchet, file>>

Save ==
  /\ file' = [people |-> people, ratchet |-> ratchet]
  /\ UNCHANGED <<people, ratchet, holders>>

\* The file is opened to be written, which empties it.
Tear ==
  /\ file' = [people |-> NoOne, ratchet |-> NoSession]
  /\ UNCHANGED <<people, ratchet, holders>>

\* What was saved last replaces what is in memory, also when that is newer.  A
\* session that is not in the file is kept.
Load ==
  /\ people' \in {people, file.people}
  /\ ratchet' = [r \in Rooms |->
       IF file.ratchet[r] # 0 THEN file.ratchet[r] ELSE ratchet[r]]
  /\ UNCHANGED <<file, holders>>

\* The process ends, and may have been saving.
Forget ==
  /\ people' = NoOne /\ ratchet' = NoSession
  /\ file' \in {file, [people |-> people, ratchet |-> ratchet]}
  /\ UNCHANGED holders

Next ==
  \/ See \/ Tear \/ Save \/ Load \/ Forget
  \/ \E r \in Rooms : Begin(r) \/ Encrypt(r)
  \/ \E r \in Rooms, d \in Devices : Share(r, d)

Spec == Init /\ [][Next]_vars
=============================================================================
