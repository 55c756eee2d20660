--------------------------- MODULE SnapshotProofs ---------------------------
(***************************************************************************)
(* Theorems about SnapshotFile, for any set of snapshots: a start always    *)
(* finds a snapshot it can load, none is lost between two file operations,  *)
(* and the three files together are one durable value that is replaced      *)
(* atomically.  Then about Media, whose messages are kept in such files:    *)
(* no message of an ordinary room loses its image.                          *)
(***************************************************************************)
EXTENDS Media, TLAPS, WellFoundedInduction

USE SnapshotsAssumption DEF Contents, Steps, Written

\* What each point of save knows of the three files.
Progress ==
    /\ step \in {"remove", "retire", "publish"} => pending = value
    /\ step \in {"remove", "retire"} => main # None
    /\ step = "remove" => backup # None
    /\ step = "retire" => backup = None
    /\ step \in {"publish", "revert"} => main = None
    /\ step = "revert" => backup # None
    /\ step = "return" => main = value
    /\ step # "idle" => reported = None

Inductive == TypeOK /\ main # Torn /\ backup # Torn /\ Progress

----------------------------------------------------------------------------
(* Every file operation, every error and a crash keep what save knows.      *)
LEMMA InductiveStep == Inductive /\ [Next]_vars => Inductive'
<1> SUFFICES ASSUME Inductive, [Next]_vars PROVE Inductive'
  OBVIOUS
<1> USE DEF Inductive, TypeOK, Progress
<1>1. ASSUME NEW v \in Snapshots, Save(v) PROVE Inductive'
  BY <1>1 DEF Save, At
<1>2. CASE Create
  BY <1>2 DEF Create, At
<1>3. CASE Write
  BY <1>3 DEF Write, At, AfterWrite
<1>4. CASE RemoveBackup
  BY <1>4 DEF RemoveBackup, At
<1>5. CASE Retire
  BY <1>5 DEF Retire, At
<1>6. CASE Publish
  BY <1>6 DEF Publish, At
<1>7. CASE Fails
  BY <1>7 DEF Fails, Err
<1>8. CASE PublishFails
  BY <1>8 DEF PublishFails, Err
<1>9. CASE Revert
  BY <1>9 DEF Revert, Err
<1>10. CASE Return
  BY <1>10 DEF Return, At
<1>11. CASE Crash
  BY <1>11 DEF Crash
<1>12. CASE UNCHANGED vars
  BY <1>12 DEF vars
<1> QED
  BY <1>1, <1>2, <1>3, <1>4, <1>5, <1>6, <1>7, <1>8, <1>9, <1>10, <1>11, <1>12 DEF Next

(* The inductive invariant holds in every reachable state.                  *)
LEMMA InductiveInvariant == Spec => []Inductive
<1>1. Init => Inductive
  BY DEF Init, Inductive, TypeOK, Progress
<1> QED
  BY <1>1, InductiveStep, PTL DEF Spec

(* Every variable of save and of the files stays in its type.               *)
THEOREM TypeCorrect == Spec => []TypeOK
<1>1. Inductive => TypeOK
  BY DEF Inductive
<1> QED
  BY <1>1, InductiveInvariant, PTL

(* load never fails on what a save, an error or a crash has left behind.    *)
THEOREM LoadableCorrect == Spec => []AlwaysLoadable
<1>1. Inductive => AlwaysLoadable
  BY DEF Inductive, AlwaysLoadable, Load, TypeOK
<1> QED
  BY <1>1, InductiveInvariant, PTL

----------------------------------------------------------------------------
(* A step of the file operations is a step of the durable value, or none:   *)
(* the rename of the temporary file is the moment the value changes.        *)
LEMMA StoreStep == Inductive /\ Inductive' /\ [Next]_vars =>
    [Store!StoreNext]_<<Load, value, step = "return", reported>>
<1> SUFFICES ASSUME Inductive, Inductive', [Next]_vars
             PROVE Store!StoreNext \/ UNCHANGED <<Load, value, step = "return", reported>>
  OBVIOUS
<1> USE DEF Inductive, TypeOK, Progress, Load
<1>1. ASSUME NEW v \in Snapshots, Save(v) PROVE Store!Begin(v)
  BY <1>1 DEF Save, At, Store!Begin
<1>2. CASE Create
  BY <1>2 DEF Create, At
<1>3. CASE Write
  BY <1>3 DEF Write, At, AfterWrite
<1>4. CASE RemoveBackup
  BY <1>4 DEF RemoveBackup, At
<1>5. CASE Retire
  BY <1>5 DEF Retire, At
<1>6. CASE Publish
  <2>1. Store!Apply
    BY <1>6 DEF Publish, At, Store!Apply
  <2> QED
    BY <2>1 DEF Store!StoreNext
<1>7. CASE Fails
  <2>1. Store!Fail
    BY <1>7 DEF Fails, Err, Store!Fail
  <2> QED
    BY <2>1 DEF Store!StoreNext
<1>8. CASE PublishFails
  <2>1. CASE backup = None
    BY <1>8, <2>1 DEF PublishFails, Err, Store!StoreNext, Store!Fail
  <2>2. CASE backup # None
    BY <1>8, <2>2 DEF PublishFails
  <2> QED
    BY <2>1, <2>2
<1>9. CASE Revert
  <2>1. Store!Fail
    BY <1>9 DEF Revert, Err, Store!Fail
  <2> QED
    BY <2>1 DEF Store!StoreNext
<1>10. CASE Return
  <2>1. Store!Acknowledge
    BY <1>10 DEF Return, At, Store!Acknowledge
  <2> QED
    BY <2>1 DEF Store!StoreNext
<1>11. CASE Crash
  <2>1. Store!Interrupt
    BY <1>11 DEF Crash, Store!Interrupt
  <2> QED
    BY <2>1 DEF Store!StoreNext
<1>12. CASE UNCHANGED vars
  BY <1>12 DEF vars
<1> QED
  BY <1>1, <1>2, <1>3, <1>4, <1>5, <1>6, <1>7, <1>8, <1>9, <1>10, <1>11, <1>12
  DEF Next, Store!StoreNext

(* The three files implement one durable value that a save replaces at once *)
(* or not at all, and whose outcome save reports truthfully.                *)
THEOREM StoreRefined == Spec => ImplementsStore
<1>1. Init => Store!StoreInit
  BY DEF Init, Store!StoreInit, Load
<1> QED
  BY <1>1, InductiveInvariant, StoreStep, PTL DEF Spec, ImplementsStore, Store!StoreSpec

(* Once a snapshot can be loaded there is one to load after every step,     *)
(* the two renames and every error between them included.                   *)
THEOREM NeverEmptyAgainCorrect == Spec => NeverEmptyAgain
<1>1. Inductive /\ Inductive' /\ [Next]_vars => [Load # None => Load' # None]_vars
  <2> SUFFICES ASSUME Inductive, Inductive', [Next]_vars, Load # None
               PROVE Load' # None
    OBVIOUS
  <2>1. Store!StoreNext \/ Load' = Load
    BY StoreStep
  <2>2. ASSUME NEW v \in Snapshots, Store!Begin(v) PROVE Load' = Load
    BY <2>2 DEF Store!Begin
  <2>3. CASE Store!Apply
    BY <2>3 DEF Store!Apply
  <2>4. CASE Store!Acknowledge \/ Store!Fail \/ Store!Interrupt
    BY <2>4 DEF Store!Acknowledge, Store!Fail, Store!Interrupt
  <2> QED
    BY <2>1, <2>2, <2>3, <2>4 DEF Store!StoreNext
<1> QED
  BY <1>1, InductiveInvariant, PTL DEF Spec, NeverEmptyAgain

----------------------------------------------------------------------------
(* Media: its saves are saves of SnapshotFile                               *)

Ordinary == Senders \ Incognito

LEMMA SnapshotTyped ==
    ASSUME NEW rooms \in SUBSET Senders
    PROVE  /\ Snapshot(rooms) \in Snapshots
           /\ Snapshot(rooms).messages = rooms \ Incognito
BY SnapshotsAreMessages DEF Snapshot

LEMMA StoredTyped == Stored \subseteq Ordinary
BY SnapshotsAreMessages DEF Stored, Ordinary

LEMMA FileStep ==
    ASSUME posted \in SUBSET Senders, [MediaNext]_mediaVars
    PROVE  [Next]_vars
<1> USE DEF rollingVars, vars
<1>1. ASSUME NEW s \in Senders, StoreImage(s) \/ Refuse(s) \/ Leave(s) \/ Remove(s)
      PROVE  UNCHANGED vars
  BY <1>1 DEF StoreImage, Refuse, Leave, Remove
<1>2. ASSUME NEW s \in Senders, Push(s) PROVE Next
  <2>1. Save(Snapshot(posted \cup {s})) /\ Snapshot(posted \cup {s}) \in Snapshots
    BY <1>2, SnapshotTyped DEF Push
  <2> QED  BY <2>1 DEF Next
<1>3. CASE SaveRooms
  <2>1. Save(Snapshot(posted)) /\ Snapshot(posted) \in Snapshots
    BY <1>3, SnapshotTyped DEF SaveRooms
  <2> QED  BY <2>1 DEF Next
<1>4. CASE SaveStep
  BY <1>4 DEF SaveStep, Next
<1>5. CASE End
  BY <1>5 DEF End, Next
<1>6. ASSUME NEW p \in Pids, Start(p) PROVE [Next]_vars
  <2>1. Snapshot(Stored) \in Snapshots
    BY StoredTyped, SnapshotTyped DEF Ordinary
  <2> QED  BY <1>6, <2>1 DEF Start, Next
<1>7. CASE UNCHANGED mediaVars
  BY <1>7 DEF mediaVars
<1> QED  BY <1>1, <1>2, <1>3, <1>4, <1>5, <1>6, <1>7 DEF MediaNext

\* What a start would load changes only to the value of the save under way.
LEMMA StoredMoves ==
    ASSUME Inductive, [Next]_vars
    PROVE  Stored' = Stored \/ (value # None /\ Stored' = value.messages)
<1>1. Inductive'
  BY InductiveStep
<1>2. Store!StoreNext \/ Load' = Load
  BY <1>1, StoreStep
<1>3. CASE Load' = Load
  BY <1>3 DEF Stored
<1>4. CASE Store!Apply
  <2>1. Load' = value /\ value # None
    BY <1>4 DEF Store!Apply
  <2>2. value \in Snapshots
    BY <2>1 DEF Inductive, TypeOK
  <2> QED  BY <2>1, <2>2 DEF Stored
<1>5. ASSUME NEW v \in Snapshots, Store!Begin(v) PROVE Load' = Load
  BY <1>5 DEF Store!Begin
<1>6. CASE Store!Acknowledge \/ Store!Fail \/ Store!Interrupt
  BY <1>3, <1>6 DEF Store!Acknowledge, Store!Fail, Store!Interrupt
<1> QED  BY <1>2, <1>3, <1>4, <1>5, <1>6 DEF Store!StoreNext

----------------------------------------------------------------------------
(* The ids of images                                                        *)

LEMMA LargestExists ==
    ASSUME NEW N \in Nat, NEW S \in SUBSET (1..N), S # {}
    PROVE  \E i \in S : \A j \in S : j <= i
<1> DEFINE R == OpToRel(<, Nat)
           T == {k \in Nat : \E i \in S : k = N - i}
<1>1. IsWellFoundedOn(R, Nat)
  BY NatLessThanWellFounded
<1>2. \A x, y \in Nat : x < y => <<x, y>> \in R
  BY DEF OpToRel
<1> HIDE DEF R
<1>3. T # {}
  <2>1. PICK i \in S : TRUE
    OBVIOUS
  <2>2. N - i \in T
    BY <2>1
  <2> QED  BY <2>2
<1>4. \E x \in T : \A y \in T : ~ (<<y, x>> \in R)
  BY <1>1, <1>3, WFMin
<1>5. PICK k \in T : \A l \in T : ~ (l < k)
  BY <1>2, <1>4, Zenon
<1>6. PICK i \in S : k = N - i
  BY <1>5
<1>7. ASSUME NEW j \in S PROVE j <= i
  <2>1. N - j \in T
    OBVIOUS
  <2> QED  BY <1>5, <1>6, <2>1
<1> QED  BY <1>7

\* The counter that restore sets is past every number of this process id.
LEMMA CounterIsPast ==
    ASSUME NEW p, NEW kept, \A s \in kept : asset[s] \in Ids
    PROVE  /\ CounterAfter(p, kept) \in 1..(MaxNumber + 1)
           /\ \A s \in kept : asset[s][1] = p => asset[s][2] < CounterAfter(p, kept)
<1> DEFINE S == {1} \cup {asset[s][2] + 1 : s \in {t \in kept : asset[t][1] = p}}
<1>1. MaxNumber \in Nat /\ \A s \in kept : asset[s][2] \in 1..MaxNumber
  BY SendersAssumption DEF Ids
<1>2. S \in SUBSET (1..(MaxNumber + 1)) /\ S # {}
  BY <1>1
<1>3. CounterAfter(p, kept) = CHOOSE x \in S : \A y \in S : x >= y
  BY DEF CounterAfter, Max
<1>4. \A s \in kept : asset[s][1] = p => asset[s][2] + 1 \in S
  OBVIOUS
<1> HIDE DEF S
<1>5. \E x \in S : \A y \in S : x >= y
  <2>1. MaxNumber + 1 \in Nat
    BY <1>1
  <2>2. PICK i \in S : \A j \in S : j <= i
    BY <1>2, <2>1, LargestExists
  <2> QED  BY <1>2, <2>2
<1>6. CounterAfter(p, kept) \in S /\ \A y \in S : CounterAfter(p, kept) >= y
  BY <1>3, <1>5
<1>7. PICK c : c = CounterAfter(p, kept)
  OBVIOUS
<1>8. c \in 1..(MaxNumber + 1)
  BY <1>2, <1>6, <1>7
<1>9. ASSUME NEW s \in kept, asset[s][1] = p PROVE asset[s][2] < c
  <2>1. c >= asset[s][2] + 1
    BY <1>4, <1>6, <1>7, <1>9
  <2> QED  BY <1>1, <1>8, <2>1
<1> QED  BY <1>7, <1>8, <1>9

----------------------------------------------------------------------------
(* The inductive invariant of Media                                         *)

InFlight(s) == stage[s] \in {"held", "saving", "failed"}
Running == status \in {"booting", "up"}

\* Ordinary senders whose image has a file that counts, and those whose id does.
Live == {s \in Ordinary : InFlight(s) \/ (s \in posted /\ ~Rejected(s))}
Given == {s \in Ordinary : InFlight(s) \/ s \in posted}

StageExact ==
    /\ \A s \in Senders : InFlight(s) => status = "up"
    /\ \A s \in Senders : stage[s] # "new" => asset[s] # None
    /\ \A s \in posted \cup Stored : stage[s] # "new"
    /\ \A s \in Senders : stage[s] = "failed" => s \in Uploads
    /\ saver # None => stage[saver] = "saving" /\ status = "up"

\* A save writes the messages of the process, and what is on disk is among them.
SnapshotsExact ==
    /\ value # None => value = Snapshot(posted) /\ Running
    /\ Running => Stored \subseteq posted
    /\ StoredFilesExist

\* While a process runs, no file of an image that counts has an id to come.
LiveExact ==
    Running =>
      /\ \A s \in Live : files[asset[s]] = s /\ asset[s] \in registered
      /\ \A s \in Given : asset[s][1] = pid => asset[s][2] < next

MediaInv == Inductive /\ MediaTypeOK /\ StageExact /\ SnapshotsExact /\ LiveExact

LEMMA MediaTypeStep == MediaInv /\ [MediaNext]_mediaVars => Inductive' /\ MediaTypeOK'
<1> SUFFICES ASSUME MediaInv, [MediaNext]_mediaVars PROVE Inductive' /\ MediaTypeOK'
  OBVIOUS
<1> USE DEF MediaInv, rollingVars, storeVars
<1>1. Inductive'
  <2>1. [Next]_vars
    BY FileStep DEF MediaTypeOK
  <2> QED  BY <2>1, InductiveStep
<1>2. TypeOK'
  BY <1>1 DEF Inductive
<1>3. ASSUME NEW s \in Senders, StoreImage(s) PROVE MediaTypeOK'
  <2>1. CASE s \in Incognito
    <3>1. nextPrivate \in 1..MaxNumber /\ <<pid, nextPrivate>> \in Ids
      BY <1>3, <2>1, SendersAssumption DEF StoreImage, MediaTypeOK, Ids
    <3>2. nextPrivate' \in 1..(MaxNumber + 1)
      BY <1>3, <2>1, <3>1, SendersAssumption DEF StoreImage
    <3> QED  BY <1>2, <1>3, <2>1, <3>1, <3>2 DEF StoreImage, To, MediaTypeOK
  <2>2. CASE s \notin Incognito
    <3>1. next \in 1..MaxNumber /\ <<pid, next>> \in Ids
      BY <1>3, <2>2, SendersAssumption DEF StoreImage, MediaTypeOK, Ids
    <3>2. next' \in 1..(MaxNumber + 1)
      BY <1>3, <2>2, <3>1, SendersAssumption DEF StoreImage
    <3> QED  BY <1>2, <1>3, <2>2, <3>1, <3>2 DEF StoreImage, To, MediaTypeOK
  <2> QED  BY <2>1, <2>2
<1>4. ASSUME NEW s \in Senders, Push(s) PROVE MediaTypeOK'
  BY <1>2, <1>4 DEF Push, To, MediaTypeOK
<1>5. ASSUME NEW s \in Senders, Refuse(s) \/ Leave(s) PROVE MediaTypeOK'
  BY <1>2, <1>5 DEF Refuse, Leave, To, MediaTypeOK
<1>6. ASSUME NEW s \in Senders, Remove(s) PROVE MediaTypeOK'
  <2>1. asset[s] \in Ids
    BY <1>6 DEF Remove, StageExact, MediaTypeOK
  <2> QED  BY <1>2, <1>6, <2>1 DEF Remove, To, MediaTypeOK
<1>7. CASE SaveRooms
  BY <1>1, <1>2, <1>7 DEF SaveRooms, MediaTypeOK
<1>8. CASE SaveStep
  <2>1. stage' \in [Senders -> {"new", "held", "saving", "failed", "removed", "left", "done"}]
    BY <1>8 DEF SaveStep, To, AfterError, MediaTypeOK
  <2>2. saver' \in Senders \cup {None} /\ status' \in {"down", "booting", "up", "refused"}
    BY <1>8 DEF SaveStep, MediaTypeOK
  <2> QED  BY <1>1, <1>2, <1>8, <2>1, <2>2 DEF SaveStep, MediaTypeOK
<1>9. CASE End
  BY <1>1, <1>2, <1>9 DEF End, MediaTypeOK
<1>10. ASSUME NEW p \in Pids, Start(p) PROVE MediaTypeOK'
  <2>1. \A s \in Stored : asset[s] \in Ids
    BY StoredTyped DEF StageExact, MediaTypeOK, Ordinary
  <2>2. next' \in 1..(MaxNumber + 1)
    BY <1>10, <2>1, CounterIsPast DEF Start
  <2>3. posted' \in SUBSET Senders /\ registered' \in SUBSET Ids
    BY <1>10, <2>1, StoredTyped DEF Start, Ordinary
  <2>4. status' \in {"down", "booting", "up", "refused"} /\ pid' \in Pids
    BY <1>10 DEF Start
  <2>5. private' \in [Ids -> Senders \cup {None}] /\ nextPrivate' \in 1..(MaxNumber + 1)
    BY <1>10, SendersAssumption DEF Start, NoFile
  <2> QED  BY <1>2, <1>10, <2>2, <2>3, <2>4, <2>5 DEF Start, MediaTypeOK
<1>11. CASE UNCHANGED mediaVars
  BY <1>1, <1>2, <1>11 DEF mediaVars, MediaTypeOK
<1> QED  BY <1>1, <1>3, <1>4, <1>5, <1>6, <1>7, <1>8, <1>9, <1>10, <1>11 DEF MediaNext

\* A step that gives no id and touches no file keeps what counts.
LEMMA LiveKept ==
    ASSUME LiveExact, UNCHANGED <<files, asset, registered, next, pid>>, Running' => Running,
           \A s \in Ordinary : InFlight(s)' => InFlight(s),
           \A s \in Ordinary : s \in posted' => s \in posted \/ InFlight(s),
           \A s \in Ordinary : stage[s] = "removed" => stage'[s] = "removed"
    PROVE  LiveExact'
<1>1. Live' \subseteq Live
  <2> SUFFICES ASSUME NEW s \in Live' PROVE s \in Live
    OBVIOUS
  <2>1. s \in Ordinary /\ (InFlight(s)' \/ (s \in posted' /\ ~Rejected(s)'))
    BY DEF Live
  <2>2. InFlight(s) => s \in Live
    BY <2>1 DEF Live
  <2>3. CASE s \in posted /\ ~Rejected(s)'
    BY <2>1, <2>3 DEF Live, Rejected
  <2> QED  BY <2>1, <2>2, <2>3
<1>2. Given' \subseteq Given
  BY DEF Given
<1> QED  BY <1>1, <1>2 DEF LiveExact

\* On disk are then only messages of the process, and their files.
LEMMA FilesKept ==
    ASSUME LiveExact, Running, Stored' \subseteq posted, UNCHANGED <<files, asset>>,
           \A s \in Ordinary : stage[s] = "removed" => stage'[s] = "removed"
    PROVE  StoredFilesExist'
<1> SUFFICES ASSUME NEW s \in Stored', ~Rejected(s)' PROVE files[asset[s]] = s
  BY DEF StoredFilesExist
<1>1. s \in Ordinary
  BY SnapshotsAreMessages DEF Stored, Ordinary
<1>2. ~Rejected(s)
  BY <1>1 DEF Rejected
<1> QED  BY <1>1, <1>2 DEF LiveExact, Live

\* Without a step of the files themselves a start would load the same.
LEMMA StoredKept == ASSUME UNCHANGED <<main, backup>> PROVE Stored' = Stored
BY DEF Stored, Load

\* While a process is up, its files are the ones a later start would look for.
LEMMA UpFiles ==
    ASSUME StageExact', LiveExact', Running', Stored' \subseteq posted', value' # None => value' = Snapshot(posted')
    PROVE  SnapshotsExact'
<1>1. StoredFilesExist'
  <2> SUFFICES ASSUME NEW s \in Stored', ~Rejected(s)' PROVE files'[asset'[s]] = s
    BY DEF StoredFilesExist
  <2>1. s \in Ordinary /\ s \in posted'
    BY SnapshotsAreMessages DEF Stored, Ordinary
  <2> QED  BY <2>1 DEF LiveExact, Live
<1> QED  BY <1>1 DEF SnapshotsExact

LEMMA MediaStep == MediaInv /\ [MediaNext]_mediaVars => StageExact' /\ SnapshotsExact' /\ LiveExact'
<1> SUFFICES ASSUME MediaInv, [MediaNext]_mediaVars
             PROVE  StageExact' /\ SnapshotsExact' /\ LiveExact'
  OBVIOUS
<1> USE DEF MediaInv, rollingVars, storeVars
<1>0. /\ Inductive' /\ MediaTypeOK'
      /\ stage \in [Senders -> {"new", "held", "saving", "failed", "removed", "left", "done"}]
      /\ asset \in [Senders -> Ids \cup {None}] /\ posted \in SUBSET Senders
      /\ Stored \subseteq Ordinary /\ Stored \subseteq Senders /\ Ordinary \subseteq Senders
  BY MediaTypeStep, StoredTyped DEF MediaTypeOK, Ordinary
<1>1. ASSUME NEW s \in Senders, StoreImage(s)
      PROVE  StageExact' /\ SnapshotsExact' /\ LiveExact'
  <2>1. /\ status = "up" /\ stage[s] = "new" /\ stage' = [stage EXCEPT ![s] = "held"]
        /\ UNCHANGED <<rollingVars, status, pid, posted, saver>>
    BY <1>1 DEF StoreImage, To
  <2>2. Stored' = Stored /\ s \notin posted \cup Stored
    BY <2>1, StoredKept DEF StageExact
  <2>3. PICK id : id \in Ids /\ asset' = [asset EXCEPT ![s] = id]
              /\ IF s \in Incognito THEN UNCHANGED <<next, files, registered>>
                 ELSE /\ id = <<pid, next>> /\ next' = next + 1 /\ next \in Nat
                      /\ files' = [files EXCEPT ![id] = s] /\ registered' = registered \cup {id}
    <3>1. CASE s \in Incognito
      <4>1. <<pid, nextPrivate>> \in Ids
        BY <1>1, <3>1, SendersAssumption DEF StoreImage, MediaTypeOK, Ids
      <4> QED  BY <1>1, <3>1, <4>1 DEF StoreImage
    <3>2. CASE s \notin Incognito
      <4>1. <<pid, next>> \in Ids /\ next \in Nat
        BY <1>1, <3>2, SendersAssumption DEF StoreImage, MediaTypeOK, Ids
      <4> QED  BY <1>1, <3>2, <4>1 DEF StoreImage
    <3> QED  BY <3>1, <3>2
  <2>4. StageExact'
    <3>1. asset'[s] # None
      BY <1>0, <2>3, NoneAssumption
    <3>2. saver # s
      BY <2>1, <1>0, NoneAssumption DEF StageExact
    <3> QED  BY <1>0, <2>1, <2>2, <2>3, <3>1, <3>2 DEF StageExact, InFlight
  <2>5. \A t \in Ordinary : t # s => (t \in Live' <=> t \in Live) /\ (t \in Given' <=> t \in Given)
    BY <1>0, <2>1 DEF Live, Given, InFlight, Rejected
  <2>6. Running /\ Running'
    BY <2>1 DEF Running
  <2>7. ASSUME NEW t \in Live' PROVE files'[asset'[t]] = t /\ asset'[t] \in registered'
    <3>1. t \in Ordinary
      BY <2>7 DEF Live
    <3>2. CASE t = s
      BY <1>0, <2>3, <3>1, <3>2 DEF MediaTypeOK, Ordinary
    <3>3. CASE t # s
      <4>1. t \in Live /\ t \in Given /\ asset'[t] = asset[t]
        BY <1>0, <2>3, <2>5, <2>7, <3>1, <3>3 DEF Live, Given
      <4>2. files[asset[t]] = t /\ asset[t] \in registered /\ (asset[t][1] = pid => asset[t][2] < next)
        BY <2>6, <4>1 DEF LiveExact
      <4>3. s \notin Incognito => asset[t] # id
        BY <2>3, <4>2
      <4> QED  BY <2>3, <4>1, <4>2, <4>3 DEF MediaTypeOK
    <3> QED  BY <3>2, <3>3
  <2>8. ASSUME NEW t \in Given', asset'[t][1] = pid' PROVE asset'[t][2] < next'
    <3>1. t \in Ordinary
      BY <2>8 DEF Given
    <3>2. CASE t = s
      BY <1>0, <2>3, <3>1, <3>2 DEF Ordinary
    <3>3. CASE t # s
      <4>1. t \in Given /\ asset'[t] = asset[t] /\ asset[t][1] = pid
        BY <1>0, <2>1, <2>3, <2>5, <2>8, <3>1, <3>3
      <4>2. asset[t] \in Ids
        BY <1>0, <3>1, <4>1 DEF Given, StageExact, InFlight
      <4>3. asset[t][2] < next /\ asset[t][2] \in Nat /\ next \in Nat
        BY <2>6, <4>1, <4>2, SendersAssumption DEF LiveExact, Ids, MediaTypeOK
      <4> QED  BY <2>3, <4>1, <4>3
    <3> QED  BY <3>2, <3>3
  <2>9. LiveExact'
    BY <2>7, <2>8 DEF LiveExact
  <2>10. Stored' \subseteq posted' /\ (value' # None => value' = Snapshot(posted'))
    BY <2>1, <2>2, <2>6 DEF SnapshotsExact, Snapshot
  <2> QED  BY <2>4, <2>6, <2>9, <2>10, UpFiles
<1>2. ASSUME NEW s \in Senders, Push(s)
      PROVE  StageExact' /\ SnapshotsExact' /\ LiveExact'
  <2>1. /\ status = "up" /\ stage[s] = "held" /\ stage' = [stage EXCEPT ![s] = "saving"]
        /\ posted' = posted \cup {s} /\ saver' = s /\ value' = Snapshot(posted')
        /\ UNCHANGED <<main, backup, next, files, registered, status, pid, asset>>
    BY <1>2 DEF Push, To, Save
  <2>2. Stored' = Stored /\ Running /\ Running'
    BY <2>1, StoredKept DEF Running
  <2>3. StageExact'
    BY <1>0, <2>1, <2>2 DEF StageExact, InFlight
  <2>4. LiveExact'
    BY <1>0, <2>1, <2>2, LiveKept DEF InFlight
  <2> QED  BY <2>1, <2>2, <2>3, <2>4, UpFiles DEF SnapshotsExact
<1>3. ASSUME NEW s \in Senders, Refuse(s) \/ Leave(s)
      PROVE  StageExact' /\ SnapshotsExact' /\ LiveExact'
  <2>1. /\ status = "up" /\ stage[s] = "held"
        /\ \/ s \in Uploads /\ stage' = [stage EXCEPT ![s] = "failed"]
           \/ stage' = [stage EXCEPT ![s] = "left"]
        /\ UNCHANGED <<rollingVars, storeVars, status, pid, asset, posted, saver>>
    BY <1>3 DEF Refuse, Leave, To
  <2>2. Stored' = Stored /\ Running /\ Running'
    BY <2>1, StoredKept DEF Running
  <2>3. StageExact'
    <3>1. saver # None => saver \in Senders /\ saver # s
      BY <2>1 DEF StageExact, MediaTypeOK
    <3> QED  BY <1>0, <2>1, <2>2, <3>1 DEF StageExact, InFlight
  <2>4. LiveExact'
    BY <1>0, <2>1, <2>2, LiveKept DEF InFlight
  <2>5. Stored' \subseteq posted' /\ (value' # None => value' = Snapshot(posted'))
    BY <2>1, <2>2 DEF SnapshotsExact, Snapshot
  <2> QED  BY <2>2, <2>3, <2>4, <2>5, UpFiles
<1>4. ASSUME NEW s \in Senders, Remove(s)
      PROVE  StageExact' /\ SnapshotsExact' /\ LiveExact'
  <2>1. /\ status = "up" /\ stage[s] = "failed" /\ stage' = [stage EXCEPT ![s] = "removed"]
        /\ UNCHANGED <<rollingVars, next, status, pid, asset, posted, saver>>
        /\ IF s \in Incognito THEN UNCHANGED <<files, registered>>
           ELSE /\ files' = [files EXCEPT ![asset[s]] = None]
                /\ registered' = registered \ {asset[s]}
    BY <1>4 DEF Remove, To
  <2>2. Stored' = Stored /\ Running /\ Running'
    BY <2>1, StoredKept DEF Running
  <2>3. StageExact'
    BY <1>0, <2>1, <2>2 DEF StageExact, InFlight
  <2>4. s \in Uploads
    BY <2>1 DEF StageExact
  <2>5. Live' \subseteq Live \ {s} /\ Given' \subseteq Given
    BY <1>0, <2>1, <2>4 DEF Live, Given, InFlight, Rejected
  <2>6. s \notin Incognito => s \in Live
    BY <2>1 DEF Live, InFlight, Ordinary
  <2>7. ASSUME NEW t \in Live' PROVE files'[asset[t]] = t /\ asset[t] \in registered'
    <3>1. t \in Live /\ t # s /\ files[asset[t]] = t /\ asset[t] \in registered
      BY <2>2, <2>5, <2>7 DEF LiveExact
    <3>2. s \notin Incognito => asset[t] # asset[s]
      BY <2>2, <2>6, <3>1 DEF LiveExact
    <3> QED  BY <2>1, <3>1, <3>2 DEF MediaTypeOK
  <2>8. LiveExact'
    BY <2>1, <2>2, <2>5, <2>7 DEF LiveExact
  <2>9. Stored' \subseteq posted' /\ (value' # None => value' = Snapshot(posted'))
    BY <2>1, <2>2 DEF SnapshotsExact, Snapshot
  <2> QED  BY <2>2, <2>3, <2>8, <2>9, UpFiles
<1>5. CASE SaveRooms
  <2>1. /\ status = "up" /\ saver' = None /\ value' = Snapshot(posted)
        /\ UNCHANGED <<main, backup, storeVars, status, pid, stage, asset, posted>>
    BY <1>5 DEF SaveRooms, Save
  <2>2. Stored' = Stored /\ Running /\ Running'
    BY <2>1, StoredKept DEF Running
  <2>3. StageExact'
    BY <2>1, <2>2 DEF StageExact, InFlight
  <2>4. LiveExact'
    BY <2>1, <2>2, LiveKept DEF InFlight
  <2>5. Stored' \subseteq posted' /\ (value' # None => value' = Snapshot(posted'))
    BY <2>1, <2>2 DEF SnapshotsExact, Snapshot
  <2> QED  BY <2>2, <2>3, <2>4, <2>5, UpFiles
<1>6. CASE SaveStep
  <2>1. /\ UNCHANGED <<storeVars, pid, asset, posted>> /\ value # None
        /\ value' \in {value, None} /\ (step' = "idle" <=> value' = None)
    <3>1. step # "idle" /\ value' \in {value, None}
      BY <1>6 DEF SaveStep, Create, Write, RemoveBackup, Retire, Publish, Fails, PublishFails,
        Revert, Return, At, Err
    <3> QED  BY <1>0, <1>6, <3>1 DEF SaveStep, Inductive, TypeOK
  <2>2. Running /\ value = Snapshot(posted) /\ value.messages = posted \ Incognito
    BY <1>0, <2>1, SnapshotTyped DEF SnapshotsExact
  <2>3. /\ status' = status \/ (status = "booting" /\ step' = "idle" /\ status' \in {"up", "down"})
        /\ saver' = IF step' = "idle" THEN None ELSE saver
    BY <1>6 DEF SaveStep
  <2>4. \/ UNCHANGED stage
        \/ /\ saver \in Senders /\ step' = "idle"
           /\ \/ stage' = [stage EXCEPT ![saver] = "done"]
              \/ saver \in Uploads /\ stage' = [stage EXCEPT ![saver] = "failed"]
    BY <1>6 DEF SaveStep, To, AfterError
  <2>5. Stored' \subseteq posted /\ Stored' \subseteq Stored \cup posted
    <3>1. [Next]_vars
      BY <1>0, FileStep
    <3> QED  BY <2>2, <3>1, StoredMoves DEF SnapshotsExact
  <2>6. \A s \in Senders : /\ InFlight(s)' => InFlight(s)
                           /\ stage[s] = "removed" <=> stage'[s] = "removed"
                           /\ stage[s] = "new" <=> stage'[s] = "new"
                           /\ stage'[s] = "failed" => stage[s] = "failed" \/ s \in Uploads
    <3>1. saver \in Senders => stage[saver] = "saving"
      BY NoneAssumption DEF StageExact
    <3> QED  BY <1>0, <2>4, <3>1 DEF InFlight
  <2>7. StageExact'
    <3>1. \A s \in Senders : InFlight(s)' => status' = "up"
      BY <2>3, <2>6 DEF StageExact
    <3>2. \A s \in posted' \cup Stored' : stage'[s] # "new"
      BY <1>0, <2>1, <2>5, <2>6 DEF StageExact
    <3>3. saver' # None => stage'[saver'] = "saving" /\ status' = "up"
      BY <2>3, <2>4 DEF StageExact
    <3> QED  BY <2>1, <2>6, <3>1, <3>2, <3>3 DEF StageExact
  <2>8. LiveExact'
    BY <1>0, <2>1, <2>2, <2>6, LiveKept
  <2>9. StoredFilesExist'
    BY <1>0, <2>1, <2>2, <2>5, <2>6, FilesKept
  <2>10. value' # None => value' = Snapshot(posted)' /\ Running'
    BY <2>1, <2>2, <2>3 DEF Snapshot, Running
  <2> QED  BY <2>1, <2>5, <2>7, <2>8, <2>9, <2>10 DEF SnapshotsExact
<1>7. CASE End
  <2>1. /\ Running /\ status' = "down" /\ saver' = None /\ value' = None
        /\ UNCHANGED <<main, backup, storeVars, pid, asset, posted>>
        /\ stage' = [s \in Senders |-> IF stage[s] \in {"held", "saving", "failed"} THEN "left"
                                       ELSE stage[s]]
    BY <1>7 DEF End, Crash, Running
  <2>2. Stored' = Stored /\ ~Running' /\ Stored \subseteq posted
    BY <2>1, StoredKept DEF Running, SnapshotsExact
  <2>3. StageExact'
    BY <1>0, <2>1, <2>2 DEF StageExact, InFlight
  <2>4. StoredFilesExist'
    BY <1>0, <2>1, <2>2, FilesKept
  <2> QED  BY <2>1, <2>2, <2>3, <2>4 DEF SnapshotsExact, LiveExact
<1>8. ASSUME NEW p \in Pids, Start(p)
      PROVE  StageExact' /\ SnapshotsExact' /\ LiveExact'
  <2>1. /\ status = "down" /\ pid' = p /\ posted' = Stored
        /\ registered' = {asset[s] : s \in Stored} /\ next' = CounterAfter(p, Stored)
        /\ UNCHANGED <<main, backup, files, stage, asset, saver>>
        /\ \/ status' = "booting" /\ value' = Snapshot(Stored)
           \/ status' = "refused" /\ value' = value
    BY <1>8 DEF Start, Save
  <2>2. value = None /\ saver = None /\ \A s \in Senders : ~InFlight(s)
    BY <2>1 DEF SnapshotsExact, StageExact, Running
  <2>3. Stored' = Stored
    BY <2>1, StoredKept
  <2>4. StageExact'
    BY <1>0, <2>1, <2>2, <2>3 DEF StageExact, InFlight
  <2>5. Live' \subseteq {s \in Stored : ~Rejected(s)} /\ Given' \subseteq Stored
    <3>1. \A s \in Ordinary : ~InFlight(s)'
      BY <1>0, <2>1, <2>2 DEF InFlight
    <3>2. \A s \in Ordinary : Rejected(s)' = Rejected(s)
      BY <2>1 DEF Rejected
    <3> QED  BY <2>1, <3>1, <3>2 DEF Live, Given
  <2>6. \A s \in Stored : asset[s] \in Ids
    BY <1>0 DEF StageExact
  <2>7. \A s \in Stored : asset[s][1] = p => asset[s][2] < next'
    BY <2>1, <2>6, CounterIsPast
  <2>8. LiveExact'
    BY <2>1, <2>5, <2>7 DEF LiveExact, SnapshotsExact, StoredFilesExist
  <2>9. StoredFilesExist'
    BY <2>1, <2>3 DEF SnapshotsExact, StoredFilesExist, Rejected
  <2> QED  BY <2>1, <2>2, <2>3, <2>4, <2>8, <2>9 DEF SnapshotsExact, Running
<1>9. CASE UNCHANGED mediaVars
  <2>1. Stored' = Stored /\ UNCHANGED <<value, stage, asset, status, saver, posted, files, registered, next, pid>>
    BY <1>9, StoredKept DEF mediaVars
  <2> QED  BY <2>1 DEF StageExact, SnapshotsExact, LiveExact, InFlight, Running, Live, Given, Rejected,
             StoredFilesExist, Snapshot
<1> QED  BY <1>1, <1>2, <1>3, <1>4, <1>5, <1>6, <1>7, <1>8, <1>9 DEF MediaNext

LEMMA MediaInvCorrect == MediaSpec => []MediaInv
<1>1. MediaInit => MediaInv
  <2> SUFFICES ASSUME MediaInit PROVE MediaInv
    OBVIOUS
  <2>1. Inductive
    BY DEF MediaInit, Init, Inductive, TypeOK, Progress
  <2>2. MediaTypeOK
    BY <2>1, SendersAssumption DEF MediaInit, MediaTypeOK, NoFile, Inductive
  <2>3. Stored = {} /\ value = None
    BY DEF MediaInit, Init, Stored, Load
  <2>4. StageExact /\ SnapshotsExact /\ LiveExact
    BY <2>3 DEF MediaInit, StageExact, SnapshotsExact, LiveExact, InFlight, Running, StoredFilesExist
  <2> QED  BY <2>1, <2>2, <2>4 DEF MediaInv
<1>2. MediaInv /\ [MediaNext]_mediaVars => MediaInv'
  BY MediaTypeStep, MediaStep DEF MediaInv
<1> QED  BY <1>1, <1>2, PTL DEF MediaSpec

\* Both stores, the senders and the messages stay in their domain, also the
\* counter that restore computes.
THEOREM MediaTypeCorrect == MediaSpec => []MediaTypeOK
<1>1. MediaInv => MediaTypeOK
  BY DEF MediaInv
<1> QED  BY <1>1, MediaInvCorrect, PTL

\* Uploads, answers, saves and restarts do nothing to the files of the snapshot
\* but what save of storage.rs does: every theorem about SnapshotFile holds of
\* the snapshot with the messages.
THEOREM MediaSavesCorrect == MediaSpec => Spec
<1>1. MediaInit => Init
  BY DEF MediaInit
<1>2. MediaInv /\ [MediaNext]_mediaVars => [Next]_vars
  BY FileStep DEF MediaInv, MediaTypeOK
<1> QED  BY <1>1, <1>2, MediaInvCorrect, PTL DEF MediaSpec, Spec

\* Whatever process ids come again, and however many images were never sent: a
\* start finds the files of all messages it loads, but for those whose upload
\* was reported to have failed (restore and save of media.rs).
THEOREM StoredFilesExistCorrect == MediaSpec => []StoredFilesExist
<1>1. MediaInv => StoredFilesExist
  BY DEF MediaInv, SnapshotsExact
<1> QED  BY <1>1, MediaInvCorrect, PTL

\* No later image takes the file or the name of one that a message of an
\* ordinary room shows, in this process or after any number of restarts.
THEOREM OrdinaryShownCorrect == MediaSpec => []OrdinaryShown
<1>1. MediaInv => OrdinaryShown
  BY DEF MediaInv, LiveExact, Live, Ordinary, Running, OrdinaryShown, Shown, MediaTypeOK
<1> QED  BY <1>1, MediaInvCorrect, PTL
============================================================================
