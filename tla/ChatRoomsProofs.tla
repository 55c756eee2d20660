--------------------------- MODULE ChatRoomsProofs ---------------------------
(***************************************************************************)
(* What is durable of the rooms, for any members and any number of rooms    *)
(* and messages, whichever saves fail and wherever the process crashes.     *)
(* The argument: while the process runs, its rooms are the rooms on disk    *)
(* with possibly more messages, so every later snapshot includes the last.  *)
(***************************************************************************)
EXTENDS ChatRooms, FiniteSetTheorems, WellFoundedInduction, TLAPS

USE BoundsAssumption, SaveAssumption, NoneAssumption

Map == [RoomIds -> Room \cup {None}]

\* g has the rooms of f, in the same mode, with at least their messages.
Extends(g, f) ==
    \A i \in RoomIds : f[i] # None =>
      /\ g[i] # None /\ g[i].incognito = f[i].incognito
      /\ f[i].messages \subseteq g[i].messages

Ordinary(f) == \A i \in RoomIds : f[i] # None => ~f[i].incognito

\* No message is in two rooms.
Apart(f) ==
    \A i, j \in RoomIds : i # j /\ f[i] # None /\ f[j] # None =>
      f[i].messages \cap f[j].messages = {}

\* Rooms and messages have ids below these counters.
Below(f, room, message) ==
    \A i \in RoomIds : f[i] # None =>
      i < room /\ \A k \in f[i].messages : k < message

DiskInv ==
    /\ Ordinary(disk) /\ Apart(disk)
    /\ \A i \in threads : disk[i] # None
    /\ \A a \in acknowledged : disk[a.room] # None /\ a.message \in disk[a.room].messages

RoomsInv ==
    /\ up => Extends(rooms, disk) /\ Apart(rooms) /\ Below(rooms, nextRoom, nextMessage)
    /\ ~up => rooms = NoRooms
    /\ \A i \in processing : up /\ rooms[i] # None /\ (rooms[i].incognito \/ disk[i] # None)

Inv == TypeOK /\ DiskInv /\ RoomsInv

----------------------------------------------------------------------------
LEMMA LeastExists ==
    ASSUME NEW S \in SUBSET Nat, S # {}
    PROVE  \E i \in S : \A j \in S : i <= j
<1> DEFINE R == OpToRel(<, Nat)
<1>1. IsWellFoundedOn(R, Nat)
  BY NatLessThanWellFounded
<1>2. \A x, y \in Nat : x < y => <<x, y>> \in R
  BY DEF OpToRel
<1> HIDE DEF R
<1>3. \E x \in S : \A y \in S : ~ (<<y, x>> \in R)
  BY <1>1, WFMin
<1>4. PICK i \in S : \A y \in S : ~ (y < i)
  BY <1>2, <1>3, Zenon
<1> QED  BY <1>4

LEMMA LargestExists ==
    ASSUME NEW N \in Nat, NEW S \in SUBSET (1..N), S # {}
    PROVE  \E i \in S : \A j \in S : j <= i
<1> DEFINE T == {k \in Nat : \E i \in S : k = N - i}
<1>1. T # {}
  <2>1. PICK i \in S : TRUE
    OBVIOUS
  <2>2. N - i \in T
    BY <2>1
  <2> QED  BY <2>2
<1>2. PICK k \in T : \A l \in T : k <= l
  BY <1>1, LeastExists
<1>3. PICK i \in S : k = N - i
  BY <1>2
<1>4. ASSUME NEW j \in S PROVE j <= i
  <2>1. N - j \in T
    OBVIOUS
  <2> QED  BY <1>2, <1>3, <2>1
<1> QED  BY <1>4

\* The counter restore takes is past every id it found.
LEMMA AfterIsNew ==
    ASSUME NEW N \in Nat, NEW S \in SUBSET (1..N)
    PROVE  After(S) \in 1..(N + 1) /\ \A j \in S : j < After(S)
<1>1. CASE S = {}
  BY <1>1 DEF After
<1>2. CASE S # {}
  <2> DEFINE i == CHOOSE k \in S : \A j \in S : j <= k
  <2>1. i \in S /\ \A j \in S : j <= i
    BY <1>2, LargestExists
  <2>2. After(S) = 1 + i
    BY <1>2 DEF After
  <2> HIDE DEF i
  <2> QED  BY <2>1, <2>2
<1> QED  BY <1>1, <1>2

----------------------------------------------------------------------------
\* A save that may fail, of rooms that extend the rooms on disk.
LEMMA SaveExtends ==
    ASSUME NEW f \in Map, NEW g \in Map, NEW d \in Map, NEW e,
           Extends(f, d), Ordinary(d), Apart(d), Extends(g, f), Apart(g),
           e = d \/ e = Snapshot(g)
    PROVE  /\ e \in Map /\ Ordinary(e) /\ Apart(e)
           /\ Extends(g, e) /\ Extends(e, d)
<1>1. CASE e = d
  BY <1>1 DEF Extends
<1>2. CASE e = Snapshot(g)
  <2>1. \A i \in RoomIds : e[i] # None => e[i] = g[i] /\ ~g[i].incognito
    BY <1>2 DEF Snapshot
  <2>2. \A i \in RoomIds : g[i] # None /\ ~g[i].incognito => e[i] = g[i]
    BY <1>2 DEF Snapshot
  <2>3. e \in Map
    BY <1>2 DEF Snapshot, Map
  <2> QED  BY <2>1, <2>2, <2>3 DEF Extends, Ordinary, Apart
<1> QED  BY <1>1, <1>2

\* One operation of the running process.
LEMMA OperationKeeps ==
    ASSUME Inv, up, up', rooms' \in Map,
           Extends(rooms', rooms), Apart(rooms'), Below(rooms', nextRoom', nextMessage'),
           nextRoom' \in 1..(MaxRooms + 1), nextMessage' \in 1..(MaxMessages + 1),
           disk' = disk \/ disk' = Snapshot(rooms'),
           processing' \subseteq RoomIds,
           \A i \in processing' \ processing :
             rooms'[i] # None /\ (rooms'[i].incognito \/ disk'[i] # None),
           threads' \subseteq RoomIds,
           \A i \in threads' \ threads : disk[i] # None,
           acknowledged' \subseteq [room : RoomIds, message : MessageIds],
           \A a \in acknowledged' \ acknowledged :
             disk'[a.room] # None /\ a.message \in disk'[a.room].messages
    PROVE  Inv'
<1>1. /\ disk' \in Map /\ Ordinary(disk') /\ Apart(disk')
      /\ Extends(rooms', disk') /\ Extends(disk', disk)
  BY SaveExtends DEF Inv, TypeOK, DiskInv, RoomsInv, Map
<1>2. TypeOK'
  BY <1>1 DEF Inv, TypeOK, Map
<1>3. DiskInv'
  <2>1. \A i \in threads' : disk'[i] # None
    BY <1>1 DEF Inv, TypeOK, DiskInv, Extends
  <2>2. \A a \in acknowledged' : disk'[a.room] # None /\ a.message \in disk'[a.room].messages
    BY <1>1 DEF Inv, TypeOK, DiskInv, Extends
  <2>3. Ordinary(disk)' /\ Apart(disk)'
    BY <1>1 DEF Ordinary, Apart
  <2> QED  BY <2>1, <2>2, <2>3 DEF DiskInv
<1>4. RoomsInv'
  <2>1. \A i \in processing' :
          up' /\ rooms'[i] # None /\ (rooms'[i].incognito \/ disk'[i] # None)
    BY <1>1 DEF Inv, TypeOK, RoomsInv, Extends
  <2>2. Extends(rooms, disk)' /\ Apart(rooms)' /\ Below(rooms, nextRoom, nextMessage)'
    BY <1>1 DEF Extends, Apart, Below
  <2> QED  BY <2>1, <2>2 DEF RoomsInv
<1> QED  BY <1>2, <1>3, <1>4 DEF Inv
\* A save as the actions state it.
LEMMA SaveCases ==
    ASSUME NEW f, NEW saved \in BOOLEAN, Save(f, saved)
    PROVE  /\ disk' = disk \/ disk' = Snapshot(f)
           /\ saved => disk' = Snapshot(f)
BY DEF Save

\* A room with no messages enters the map under an id that no room has.
LEMMA InsertKeeps ==
    ASSUME Inv, up, up', NEW room \in Room, room.messages = {}, Insert(room),
           disk' = disk \/ disk' = Snapshot(rooms'),
           UNCHANGED <<nextMessage, processing, threads, acknowledged>>
    PROVE  Inv'
<1>1. nextRoom \in RoomIds /\ rooms' = [rooms EXCEPT ![nextRoom] = room]
  BY DEF Insert, Inv, TypeOK, RoomIds
<1>2. rooms[nextRoom] = None
  BY <1>1 DEF Inv, RoomsInv, Below, RoomIds
<1>3. rooms' \in Map /\ Extends(rooms', rooms)
  BY <1>1, <1>2 DEF Inv, TypeOK, Map, Extends
<1>4. Apart(rooms')
  BY <1>1 DEF Inv, TypeOK, RoomsInv, Apart
<1>5. nextRoom' = nextRoom + 1 /\ nextRoom' \in 1..(MaxRooms + 1)
  BY DEF Insert, Inv, TypeOK
<1>6. Below(rooms', nextRoom', nextMessage')
  BY <1>1, <1>5 DEF Inv, TypeOK, RoomsInv, Below, RoomIds
<1> QED  BY <1>3, <1>4, <1>5, <1>6, OperationKeeps DEF Inv, TypeOK

\* A room changes something else than its messages and its mode.
LEMMA ChangeKeeps ==
    ASSUME Inv, up, up', rooms' \in Map,
           \A i \in RoomIds : /\ rooms[i] = None <=> rooms'[i] = None
                              /\ rooms[i] # None => /\ rooms'[i].incognito = rooms[i].incognito
                                                    /\ rooms'[i].messages = rooms[i].messages,
           disk' = disk \/ disk' = Snapshot(rooms'),
           processing' \subseteq processing,
           UNCHANGED <<nextRoom, nextMessage, threads, acknowledged>>
    PROVE  Inv'
<1>1. Extends(rooms', rooms)
  BY DEF Extends
<1>2. Apart(rooms')
  BY DEF Inv, RoomsInv, Apart
<1>3. Below(rooms', nextRoom', nextMessage')
  BY DEF Inv, RoomsInv, Below
<1> QED  BY <1>1, <1>2, <1>3, OperationKeeps DEF Inv, TypeOK

\* A message is pushed to a room of f, which is rooms but for such a change.
LEMMA PushKeeps ==
    ASSUME Inv, up, up', NEW i \in RoomIds, rooms[i] # None,
           NEW f \in Map, PushMessage(f, i),
           \A j \in RoomIds : j # i => f[j] = rooms[j],
           f[i] # None, f[i].incognito = rooms[i].incognito, f[i].messages = rooms[i].messages
    PROVE  /\ rooms' \in Map /\ Extends(rooms', rooms) /\ Apart(rooms')
           /\ Below(rooms', nextRoom, nextMessage')
           /\ nextMessage \in MessageIds /\ nextMessage' \in 1..(MaxMessages + 1)
           /\ rooms'[i] # None /\ rooms'[i].incognito = rooms[i].incognito
           /\ nextMessage \in rooms'[i].messages
<1>1. /\ nextMessage \in MessageIds /\ nextMessage' = nextMessage + 1
      /\ nextMessage' \in 1..(MaxMessages + 1)
  BY DEF PushMessage, Inv, TypeOK, MessageIds
<1>2. f[i] \in Room /\ rooms[i] \in Room
  BY DEF Map, Inv, TypeOK
<1> DEFINE pushed == [f[i] EXCEPT !.messages = @ \cup {nextMessage}]
<1>3. rooms' = [f EXCEPT ![i] = pushed]
  BY DEF PushMessage
<1>4. /\ pushed \in Room /\ pushed.messages = rooms[i].messages \cup {nextMessage}
      /\ pushed.incognito = rooms[i].incognito
  BY <1>1, <1>2 DEF Room
<1> HIDE DEF pushed
<1>5. /\ rooms' \in Map /\ rooms'[i] = pushed
      /\ \A j \in RoomIds : j # i => rooms'[j] = rooms[j]
  BY <1>3, <1>4 DEF Map
<1>6. Extends(rooms', rooms)
  BY <1>4, <1>5 DEF Extends
<1>7. Apart(rooms')
  <2>1. \A j \in RoomIds : rooms[j] # None => nextMessage \notin rooms[j].messages
    BY <1>1 DEF Inv, RoomsInv, Below, MessageIds
  <2> QED  BY <1>4, <1>5, <2>1 DEF Inv, RoomsInv, Apart
<1>8. Below(rooms', nextRoom, nextMessage')
  <2>1. \A j \in RoomIds : rooms[j] # None => rooms[j].messages \subseteq Nat
    BY DEF Inv, TypeOK, Room, MessageIds
  <2> QED  BY <1>1, <1>4, <1>5, <2>1 DEF Inv, RoomsInv, Below, MessageIds
<1> QED  BY <1>1, <1>4, <1>5, <1>6, <1>7, <1>8

----------------------------------------------------------------------------
LEMMA InitInv == Init => Inv
BY DEF Init, Inv, TypeOK, DiskInv, RoomsInv, NoRooms, Extends, Ordinary, Apart, Below, RoomIds

LEMMA StepInv == Inv /\ [Next]_vars => Inv'
<1> SUFFICES ASSUME Inv, [Next]_vars PROVE Inv'
  OBVIOUS
<1>1. CASE CreateGroup
  <2>1. PICK members \in SUBSET Members, incognito \in BOOLEAN :
          Cardinality(members) >= 2 /\ Insert(NewRoom(members, incognito))
    BY <1>1 DEF CreateGroup
  <2>2. members # {}
    BY <2>1, FS_EmptySet
  <2>3. /\ NewRoom(members, incognito) \in Room
        /\ NewRoom(members, incognito).messages = {}
    BY <2>2 DEF NewRoom, Room
  <2> QED  BY <1>1, <2>1, <2>3, SaveCases, InsertKeeps DEF CreateGroup, Saving
<1>2. ASSUME NEW m \in Members, EnsureSolo(m) PROVE Inv'
  <2>1. NewRoom({m}, FALSE) \in Room /\ NewRoom({m}, FALSE).messages = {}
    BY DEF NewRoom, Room
  <2> QED  BY <1>2, <2>1, SaveCases, InsertKeeps DEF EnsureSolo, Saving
<1>3. ASSUME NEW m \in Members, EnsureIncognitoSolo(m) PROVE Inv'
  <2>1. NewRoom({m}, TRUE) \in Room /\ NewRoom({m}, TRUE).messages = {}
    BY DEF NewRoom, Room
  <2> QED  BY <1>3, <2>1, InsertKeeps DEF EnsureIncognitoSolo
<1>4. ASSUME NEW i \in RoomIds, NEW archived \in BOOLEAN, SetArchived(i, archived) PROVE Inv'
  <2>1. rooms' = [rooms EXCEPT ![i].archived = archived] /\ rooms[i] \in Room
    BY <1>4 DEF SetArchived, Inv, TypeOK
  <2>2. rooms' \in Map
    BY <2>1 DEF Inv, TypeOK, Map, Room
  <2>3. \A j \in RoomIds : /\ rooms[j] = None <=> rooms'[j] = None
                           /\ rooms[j] # None => /\ rooms'[j].incognito = rooms[j].incognito
                                                 /\ rooms'[j].messages = rooms[j].messages
    BY <2>1, <2>2 DEF Inv, TypeOK, Map, Room
  <2> QED  BY <1>4, <2>2, <2>3, SaveCases, ChangeKeeps DEF SetArchived, Saving
<1>5. ASSUME NEW i \in RoomIds, SendUserMessage(i) PROVE Inv'
  <2> DEFINE f == [rooms EXCEPT ![i].busy = TRUE, ![i].sleeping = FALSE]
  <2>1. rooms[i] \in Room /\ rooms[i] # None /\ PushMessage(f, i) /\ up /\ up'
    BY <1>5 DEF SendUserMessage, Inv, TypeOK
  <2>2. /\ f \in Map /\ f[i] \in Room
        /\ f[i].incognito = rooms[i].incognito /\ f[i].messages = rooms[i].messages
        /\ \A j \in RoomIds : j # i => f[j] = rooms[j]
    BY <2>1 DEF Inv, TypeOK, Map, Room
  <2> HIDE DEF f
  <2>3. /\ rooms' \in Map /\ Extends(rooms', rooms) /\ Apart(rooms')
        /\ Below(rooms', nextRoom, nextMessage')
        /\ nextMessage \in MessageIds /\ nextMessage' \in 1..(MaxMessages + 1)
        /\ rooms'[i] # None /\ rooms'[i].incognito = rooms[i].incognito
        /\ nextMessage \in rooms'[i].messages
    BY <2>1, <2>2, PushKeeps
  <2>4. PICK saved \in BOOLEAN :
          /\ Save(rooms', saved)
          /\ processing' = IF saved THEN processing \cup {i} ELSE processing
          /\ acknowledged' = IF saved /\ ~rooms[i].incognito
                               THEN acknowledged \cup {[room |-> i, message |-> nextMessage]}
                               ELSE acknowledged
    BY <1>5 DEF SendUserMessage
  <2>5. saved /\ ~rooms[i].incognito => disk'[i] = rooms'[i]
    BY <2>3, <2>4, SaveCases DEF Snapshot
  <2>6. /\ processing' \subseteq RoomIds
        /\ \A j \in processing' \ processing :
             rooms'[j] # None /\ (rooms'[j].incognito \/ disk'[j] # None)
    BY <2>3, <2>4, <2>5 DEF Inv, TypeOK
  <2>7. /\ acknowledged' \subseteq [room : RoomIds, message : MessageIds]
        /\ \A a \in acknowledged' \ acknowledged :
             disk'[a.room] # None /\ a.message \in disk'[a.room].messages
    BY <2>3, <2>4, <2>5 DEF Inv, TypeOK
  <2>8. UNCHANGED <<nextRoom, threads>>
    BY <1>5 DEF SendUserMessage
  <2> QED  BY <2>1, <2>3, <2>4, <2>6, <2>7, <2>8, SaveCases, OperationKeeps DEF Inv, TypeOK
<1>6. ASSUME NEW i \in RoomIds, PushAnswer(i) PROVE Inv'
  <2>1. /\ rooms[i] # None /\ up /\ up' /\ PushMessage(rooms, i) /\ rooms \in Map
        /\ rooms[i].incognito \/ disk[i] # None
    BY <1>6 DEF PushAnswer, Inv, TypeOK, RoomsInv, Map
  <2>2. /\ rooms' \in Map /\ Extends(rooms', rooms) /\ Apart(rooms')
        /\ Below(rooms', nextRoom, nextMessage')
        /\ nextMessage' \in 1..(MaxMessages + 1)
    BY <2>1, PushKeeps
  <2>3. /\ disk' = disk \/ disk' = Snapshot(rooms')
        /\ threads' \in {threads, IF rooms[i].incognito THEN threads ELSE threads \cup {i}}
        /\ UNCHANGED <<nextRoom, processing, acknowledged>>
    BY <1>6, SaveCases DEF PushAnswer, Saving
  <2> QED  BY <2>1, <2>2, <2>3, OperationKeeps DEF Inv, TypeOK
<1>7. ASSUME NEW i \in RoomIds, FinishRound(i) PROVE Inv'
  <2>1. rooms' = [rooms EXCEPT ![i].busy = FALSE] /\ rooms[i] \in Room /\ up /\ up'
    BY <1>7 DEF FinishRound, Inv, TypeOK, RoomsInv
  <2>2. rooms' \in Map
    BY <2>1 DEF Inv, TypeOK, Map, Room
  <2>3. \A j \in RoomIds : /\ rooms[j] = None <=> rooms'[j] = None
                           /\ rooms[j] # None => /\ rooms'[j].incognito = rooms[j].incognito
                                                 /\ rooms'[j].messages = rooms[j].messages
    BY <2>1, <2>2 DEF Inv, TypeOK, Map, Room
  <2> QED  BY <1>7, <2>1, <2>2, <2>3, SaveCases, ChangeKeeps DEF FinishRound, Saving
<1>8. CASE SleepDue
  <2>1. PICK due \in SUBSET Existing(rooms) :
          rooms' = [i \in RoomIds |-> IF i \in due THEN [rooms[i] EXCEPT !.sleeping = TRUE]
                                      ELSE rooms[i]]
    BY <1>8 DEF SleepDue
  <2>2. \A i \in due : rooms[i] \in Room
    BY <2>1 DEF Existing, Inv, TypeOK
  <2>3. \A i \in due : [rooms[i] EXCEPT !.sleeping = TRUE] \in Room
    BY <2>2 DEF Room
  <2>4. rooms' \in Map
    BY <2>1, <2>3 DEF Inv, TypeOK, Map
  <2>5. \A j \in RoomIds : /\ rooms[j] = None <=> rooms'[j] = None
                           /\ rooms[j] # None => /\ rooms'[j].incognito = rooms[j].incognito
                                                 /\ rooms'[j].messages = rooms[j].messages
    BY <2>1, <2>2, <2>3 DEF Room
  <2> QED  BY <1>8, <2>4, <2>5, SaveCases, ChangeKeeps DEF SleepDue, Saving
<1>9. CASE Crash
  <2>1. /\ rooms' = NoRooms /\ NoRooms \in [RoomIds -> Room \cup {None}]
        /\ up' = FALSE /\ nextRoom' = 1 /\ nextMessage' = 1 /\ processing' = {}
        /\ UNCHANGED <<disk, threads, acknowledged>>
    BY <1>9 DEF Crash, NoRooms
  <2>2. TypeOK'
    <3>1. 1 \in 1..(MaxRooms + 1) /\ 1 \in 1..(MaxMessages + 1)
      OBVIOUS
    <3>2. {} \in SUBSET RoomIds
      OBVIOUS
    <3> QED  BY <2>1, <3>1, <3>2 DEF Inv, TypeOK
  <2>3. DiskInv' /\ RoomsInv'
    BY <2>1 DEF Inv, DiskInv, RoomsInv, Ordinary, Apart, NoRooms
  <2> QED  BY <2>2, <2>3 DEF Inv
<1>10. CASE Restart
  <2>1. \A i \in RoomIds : /\ rooms'[i] = None <=> disk[i] = None
                           /\ disk[i] # None => /\ rooms'[i] \in Room
                                                /\ rooms'[i].incognito = disk[i].incognito
                                                /\ rooms'[i].messages = disk[i].messages
    <3> SUFFICES ASSUME NEW i \in RoomIds
                 PROVE  /\ rooms'[i] = None <=> disk[i] = None
                        /\ disk[i] # None => /\ rooms'[i] \in Room
                                             /\ rooms'[i].incognito = disk[i].incognito
                                             /\ rooms'[i].messages = disk[i].messages
      OBVIOUS
    <3>1. CASE disk[i] = None
      BY <1>10, <3>1 DEF Restart, Restored
    <3>2. CASE disk[i] # None
      <4>1. rooms'[i] = [disk[i] EXCEPT !.busy = FALSE, !.sleeping = TRUE]
        BY <1>10, <3>2 DEF Restart, Restored
      <4>2. disk[i] \in Room
        BY <3>2 DEF Inv, TypeOK
      <4>3. /\ rooms'[i] \in Room
            /\ rooms'[i].incognito = disk[i].incognito
            /\ rooms'[i].messages = disk[i].messages
        BY <4>1, <4>2 DEF Room
      <4> QED  BY <3>2, <4>3
    <3> QED  BY <3>1, <3>2
  <2>2. rooms' \in Map
    BY <1>10, <2>1 DEF Restart, Restored, Map
  <2>3. \A i \in RoomIds : disk'[i] = rooms'[i]
    BY <1>10, <2>1 DEF Restart, Snapshot, Inv, DiskInv, Ordinary
  <2>4. disk' \in Map
    BY <1>10, <2>2, <2>3 DEF Restart, Snapshot, Map
  <2>5. Existing(disk) \in SUBSET (1..MaxRooms)
    BY DEF Existing, RoomIds
  <2>6. UNION {disk[i].messages : i \in Existing(disk)} \in SUBSET (1..MaxMessages)
    BY DEF Existing, Inv, TypeOK, Room, MessageIds
  <2>7. /\ nextRoom' \in 1..(MaxRooms + 1)
        /\ \A i \in Existing(disk) : i < nextRoom'
    BY <1>10, <2>5, AfterIsNew DEF Restart
  <2>8. /\ nextMessage' \in 1..(MaxMessages + 1)
        /\ \A i \in Existing(disk) : \A k \in disk[i].messages : k < nextMessage'
    BY <1>10, <2>6, AfterIsNew DEF Restart
  <2>9. up' /\ UNCHANGED <<processing, threads, acknowledged>> /\ processing = {}
    BY <1>10 DEF Restart, Inv, RoomsInv
  <2>10. TypeOK'
    BY <2>2, <2>4, <2>7, <2>8, <2>9 DEF Inv, TypeOK, Map
  <2>11. DiskInv'
    BY <2>1, <2>3, <2>9 DEF Inv, TypeOK, DiskInv, Ordinary, Apart
  <2>12. RoomsInv'
    <3>1. Extends(rooms, disk)'
      BY <2>3 DEF Extends
    <3>2. Apart(rooms)'
      BY <2>1 DEF Inv, DiskInv, Apart
    <3>3. Below(rooms, nextRoom, nextMessage)'
      BY <2>1, <2>7, <2>8 DEF Below, Existing
    <3> QED  BY <2>9, <3>1, <3>2, <3>3 DEF RoomsInv
  <2> QED  BY <2>10, <2>11, <2>12 DEF Inv
<1>11. CASE UNCHANGED vars
  BY <1>11 DEF vars, Inv, TypeOK, DiskInv, RoomsInv, Ordinary, Apart, Extends, Below
<1> QED
  BY <1>1, <1>2, <1>3, <1>4, <1>5, <1>6, <1>7, <1>8, <1>9, <1>10, <1>11 DEF Next

LEMMA InvHolds == Spec => []Inv
BY InitInv, StepInv, PTL DEF Spec

----------------------------------------------------------------------------
\* The rooms and the snapshot stay in their domain, and so do both counters,
\* also those that a restart computes.
THEOREM RoomsTypeCorrect == Spec => []TypeOK
<1>1. Inv => TypeOK
  BY DEF Inv
<1> QED  BY <1>1, InvHolds, PTL

\* A user message whose send returned Ok stays in its room on disk, whichever
\* later saves fail and however often the process crashes and starts again.
THEOREM AcknowledgedSurvivesCorrect == Spec => []AcknowledgedSurvives
<1>1. Inv => AcknowledgedSurvives
  BY DEF Inv, TypeOK, DiskInv, RoomsInv, Extends, AcknowledgedSurvives
<1> QED  BY <1>1, InvHolds, PTL

\* No message id is in two rooms, of memory, of the disk, or one of each.
THEOREM MessageIdsUniqueCorrect == Spec => []MessageIdsUnique
<1>1. Inv => MessageIdsUnique
  <2> SUFFICES ASSUME Inv, NEW i \in RoomIds, NEW j \in RoomIds, i # j
               PROVE  /\ i \in Existing(rooms) /\ j \in Existing(rooms) =>
                           rooms[i].messages \cap rooms[j].messages = {}
                      /\ i \in Existing(disk) /\ j \in Existing(disk) =>
                           disk[i].messages \cap disk[j].messages = {}
                      /\ i \in Existing(rooms) /\ j \in Existing(disk) /\ up =>
                           rooms[i].messages \cap disk[j].messages = {}
    BY DEF MessageIdsUnique
  <2>1. i \in Existing(rooms) /\ j \in Existing(rooms) =>
          rooms[i].messages \cap rooms[j].messages = {}
    BY DEF Inv, RoomsInv, Apart, Existing, NoRooms
  <2>2. i \in Existing(disk) /\ j \in Existing(disk) =>
          disk[i].messages \cap disk[j].messages = {}
    BY DEF Inv, DiskInv, Apart, Existing
  <2>3. i \in Existing(rooms) /\ j \in Existing(disk) /\ up =>
          rooms[i].messages \cap disk[j].messages = {}
    BY DEF Inv, RoomsInv, Apart, Extends, Existing
  <2> QED  BY <2>1, <2>2, <2>3
<1> QED  BY <1>1, InvHolds, PTL

\* A room with a thread in a conversation file is an ordinary room on disk, so
\* its id is given to no other room.
THEOREM ThreadsHaveRoomsCorrect == Spec => []ThreadsHaveRooms
<1>1. Inv => ThreadsHaveRooms
  BY DEF Inv, TypeOK, DiskInv, Ordinary, ThreadsHaveRooms
<1> QED  BY <1>1, InvHolds, PTL
=============================================================================
