----------------------------- MODULE ChatRooms -----------------------------
(***************************************************************************)
(* The life of chat rooms and what of it is durable: creation, the direct   *)
(* and incognito rooms, archiving, sleep, the start and the end of a round, *)
(* and the snapshot every one of them writes (residents/src/chat/mod.rs     *)
(* with chat/storage.rs), together with the start of the web process that   *)
(* restores it (web/src/main.rs).  Every operation holds the lock on rooms  *)
(* from its first check to the end of its save, so it is one action; what   *)
(* runs between the actions of a round is ChatRounds.  A process may crash  *)
(* between any two actions.                                                 *)
(*                                                                          *)
(* A message is its id.  A save writes all ordinary rooms at once or fails  *)
(* and leaves the last snapshot: SnapshotFile shows that of the files.      *)
(***************************************************************************)
EXTENDS Naturals, FiniteSets

CONSTANTS
    Members,      \* the LLM Residents
    MaxRooms,     \* bound: ids of rooms
    MaxMessages,  \* bound: ids of messages
    SaveMayFail,  \* whether storage.save can return an error
    None

ASSUME BoundsAssumption == MaxRooms \in Nat /\ MaxMessages \in Nat
ASSUME SaveAssumption == SaveMayFail \in BOOLEAN

RoomIds == 1..MaxRooms
MessageIds == 1..MaxMessages

Room == [members : (SUBSET Members) \ {{}}, incognito : BOOLEAN, archived : BOOLEAN,
         busy : BOOLEAN, sleeping : BOOLEAN, messages : SUBSET MessageIds]

ASSUME NoneAssumption == None \notin Room

VARIABLES
    up,           \* the web process runs and has restored its rooms
    rooms,        \* ChatResident.rooms
    nextRoom,     \* next_room
    nextMessage,  \* next_message
    processing,   \* the rooms with a run_turn task
    disk,         \* the rooms in the durable snapshot
    threads,      \* rooms with a thread in a Codex conversation file (external here)
    acknowledged  \* history: ordinary user messages whose send returned Ok

vars == <<up, rooms, nextRoom, nextMessage, processing, disk, threads, acknowledged>>

NoRooms == [i \in RoomIds |-> None]

Existing(f) == {i \in RoomIds : f[i] # None}

Solo(room) == Cardinality(room.members) = 1

Init ==
    /\ up = TRUE
    /\ rooms = NoRooms
    /\ nextRoom = 1
    /\ nextMessage = 1
    /\ processing = {}
    /\ disk = NoRooms
    /\ threads = {}
    /\ acknowledged = {}

----------------------------------------------------------------------------
\* Slip: busy rooms are left out as well.
SnapshotOfIdle(f) ==
    [i \in RoomIds |-> IF f[i] # None /\ (f[i].incognito \/ f[i].busy) THEN None ELSE f[i]]

\* save_locked: every ordinary room, as it is, or an error.
Snapshot(f) ==
    [i \in RoomIds |-> IF f[i] # None /\ f[i].incognito THEN None ELSE f[i]]

Save(f, saved) ==
    /\ saved \in IF SaveMayFail THEN BOOLEAN ELSE {TRUE}
    /\ disk' = IF saved THEN Snapshot(f) ELSE disk

Saving(f) == \E saved \in BOOLEAN : Save(f, saved)

NewRoom(members, incognito) ==
    [members |-> members, incognito |-> incognito, archived |-> FALSE, busy |-> FALSE,
     sleeping |-> FALSE, messages |-> {}]

\* A room enters the map before the save; if that fails, it stays there although
\* the caller gets an error.
Insert(room) ==
    /\ nextRoom <= MaxRooms
    /\ rooms' = [rooms EXCEPT ![nextRoom] = room]
    /\ nextRoom' = nextRoom + 1

\* create_room_with_mode, as the web API calls it: at least two members.
CreateGroup ==
    /\ up
    /\ \E members \in SUBSET Members, incognito \in BOOLEAN :
         Cardinality(members) >= 2 /\ Insert(NewRoom(members, incognito))
    /\ Saving(rooms')
    /\ UNCHANGED <<up, nextMessage, processing, threads, acknowledged>>

\* ensure_solo_room when no direct room that is not archived is found.
EnsureSolo(m) ==
    /\ up
    /\ \A i \in Existing(rooms) :
         ~(rooms[i].members = {m} /\ ~rooms[i].incognito /\ ~rooms[i].archived)
    /\ Insert(NewRoom({m}, FALSE))
    /\ Saving(rooms')
    /\ UNCHANGED <<up, nextMessage, processing, threads, acknowledged>>

\* The member has an incognito room, asleep or not.
HasIncognito(m) ==
    \E i \in Existing(rooms) : rooms[i].members = {m} /\ rooms[i].incognito

\* ensure_incognito_solo_room; an incognito room is not saved.
EnsureIncognitoSolo(m) ==
    /\ up
    /\ ~HasIncognito(m)
    /\ Insert(NewRoom({m}, TRUE))
    /\ UNCHANGED <<up, nextMessage, processing, disk, threads, acknowledged>>

SetArchived(i, archived) ==
    /\ up
    /\ rooms[i] # None
    /\ ~rooms[i].busy /\ ~rooms[i].incognito
    /\ rooms' = [rooms EXCEPT ![i].archived = archived]
    /\ Saving(rooms')
    /\ UNCHANGED <<up, nextRoom, nextMessage, processing, threads, acknowledged>>

\* new_message: the next id, under the lock on rooms.
PushMessage(f, i) ==
    /\ nextMessage <= MaxMessages
    /\ rooms' = [f EXCEPT ![i].messages = @ \cup {nextMessage}]
    /\ nextMessage' = nextMessage + 1

\* send_user_message_with_media: the room is marked busy and woken, then saved;
\* run_turn is only spawned after a save that succeeded.
SendUserMessage(i) ==
    /\ up
    /\ rooms[i] # None
    /\ ~rooms[i].busy /\ ~rooms[i].archived
    /\ PushMessage([rooms EXCEPT ![i].busy = TRUE, ![i].sleeping = FALSE], i)
    /\ \E saved \in BOOLEAN :
         /\ Save(rooms', saved)
         /\ processing' = IF saved THEN processing \cup {i} ELSE processing
         /\ acknowledged' = IF saved /\ ~rooms[i].incognito
                              THEN acknowledged \cup {[room |-> i, message |-> nextMessage]}
                              ELSE acknowledged
    /\ UNCHANGED <<up, nextRoom, threads>>

\* run_turn stores an answer or an error message; a failed save is only logged.
\* The Codex worker may by then have saved the thread of an ordinary room.
PushAnswer(i) ==
    /\ i \in processing
    /\ PushMessage(rooms, i)
    /\ Saving(rooms')
    /\ threads' \in {threads, IF rooms[i].incognito THEN threads ELSE threads \cup {i}}
    /\ UNCHANGED <<up, nextRoom, processing, acknowledged>>

\* finish
FinishRound(i) ==
    /\ i \in processing
    /\ rooms' = [rooms EXCEPT ![i].busy = FALSE]
    /\ processing' = processing \ {i}
    /\ Saving(rooms')
    /\ UNCHANGED <<up, nextRoom, nextMessage, threads, acknowledged>>

MaySleep(room) == ~room.sleeping /\ ~room.busy

\* sleep_due: one sweep puts the rooms to sleep that are idle or left.
SleepDue ==
    /\ up
    /\ \E due \in (SUBSET {i \in Existing(rooms) : MaySleep(rooms[i])}) \ {{}} :
         rooms' = [i \in RoomIds |-> IF i \in due THEN [rooms[i] EXCEPT !.sleeping = TRUE]
                                     ELSE rooms[i]]
    /\ Saving(rooms')
    /\ UNCHANGED <<up, nextRoom, nextMessage, processing, threads, acknowledged>>

----------------------------------------------------------------------------
\* The process ends, in the middle of anything.
Crash ==
    /\ up
    /\ up' = FALSE
    /\ rooms' = NoRooms
    /\ processing' = {}
    /\ nextRoom' = 1
    /\ nextMessage' = 1
    /\ UNCHANGED <<disk, threads, acknowledged>>

\* The counter after a restart.  Slip: it is the largest id.
AfterLargest(ids) == IF ids = {} THEN 1 ELSE CHOOSE i \in ids : \A j \in ids : j <= i
After(ids) == IF ids = {} THEN 1 ELSE 1 + CHOOSE i \in ids : \A j \in ids : j <= i

Restored ==
    [i \in RoomIds |-> IF disk[i] = None THEN None
                       ELSE [disk[i] EXCEPT !.busy = FALSE, !.sleeping = TRUE]]

\* main: load the snapshot, restore_rooms_with_media, and enable_storage, whose
\* save must succeed or the process does not come up.
Restart ==
    /\ ~up
    /\ up' = TRUE
    /\ rooms' = Restored
    /\ nextRoom' = After(Existing(disk))
    /\ nextMessage' = After(UNION {disk[i].messages : i \in Existing(disk)})
    /\ disk' = Snapshot(Restored)
    /\ UNCHANGED <<processing, threads, acknowledged>>

Next ==
    \/ CreateGroup
    \/ \E m \in Members : EnsureSolo(m) \/ EnsureIncognitoSolo(m)
    \/ \E i \in RoomIds :
         \/ \E archived \in BOOLEAN : SetArchived(i, archived)
         \/ SendUserMessage(i) \/ PushAnswer(i) \/ FinishRound(i)
    \/ SleepDue
    \/ Crash
    \/ Restart

Spec == Init /\ [][Next]_vars

----------------------------------------------------------------------------
TypeOK ==
    /\ up \in BOOLEAN
    /\ rooms \in [RoomIds -> Room \cup {None}]
    /\ nextRoom \in 1..(MaxRooms + 1)
    /\ nextMessage \in 1..(MaxMessages + 1)
    /\ processing \in SUBSET RoomIds
    /\ disk \in [RoomIds -> Room \cup {None}]
    /\ threads \in SUBSET RoomIds
    /\ acknowledged \in SUBSET [room : RoomIds, message : MessageIds]

\* A user message whose send returned Ok is in its room on disk from then on:
\* no failed save, no crash, no later snapshot and no reuse of an id loses it.
AcknowledgedSurvives ==
    \A a \in acknowledged :
      /\ disk[a.room] # None /\ a.message \in disk[a.room].messages
      /\ up => rooms[a.room] # None /\ a.message \in rooms[a.room].messages

\* The id of a message on disk or in memory belongs to one room, also when ids
\* are handed out again after a restart from an older snapshot.
MessageIdsUnique ==
    \A i, j \in RoomIds : i # j =>
      /\ i \in Existing(rooms) /\ j \in Existing(rooms) =>
           rooms[i].messages \cap rooms[j].messages = {}
      /\ i \in Existing(disk) /\ j \in Existing(disk) =>
           disk[i].messages \cap disk[j].messages = {}
      /\ i \in Existing(rooms) /\ j \in Existing(disk) /\ up =>
           rooms[i].messages \cap disk[j].messages = {}

\* A thread in a Codex conversation file belongs to a room on disk, so the id is
\* never given to another room that would then continue a foreign conversation,
\* and no thread of an incognito room is kept.
ThreadsHaveRooms ==
    \A i \in threads : disk[i] # None /\ ~disk[i].incognito

\* "this room is already processing a message" (ChatError::Busy): a room that
\* refuses messages as busy has a task that processes one.
BusyMeansProcessing ==
    \A i \in Existing(rooms) : rooms[i].busy => i \in processing

\* "One direct room per LLM Resident" (ensure_solo_room).
OneDirectRoom ==
    \A i, j \in Existing(rooms) :
      /\ \A k \in {i, j} : Solo(rooms[k]) /\ ~rooms[k].incognito /\ ~rooms[k].archived
      /\ rooms[i].members = rooms[j].members
      => i = j
============================================================================
