---------------------------- MODULE SnapshotFile ----------------------------
(***************************************************************************)
(* How a snapshot replaces the one before it on disk, file operation by     *)
(* file operation (residents/src/chat/storage.rs; the conversations of      *)
(* codex/mod.rs and the records of memory.rs use the same three names):     *)
(* write and sync x.json.tmp, move x.json to x.json.bak, move the temporary *)
(* file to x.json.  Any operation may return an error, and the process may  *)
(* end between any two.  File operations take effect in program order.      *)
(*                                                                          *)
(* Saves of one file do not overlap: the caller holds the lock on the state *)
(* it saves.                                                                *)
(***************************************************************************)
EXTENDS Naturals

CONSTANTS Snapshots, None, Torn

ASSUME SnapshotsAssumption == None \notin Snapshots /\ Torn \notin Snapshots /\ None # Torn

Contents == Snapshots \cup {None, Torn}

VARIABLES
    main, backup, pending,  \* contents of the three files; None: there is no such file
    step,                   \* the operation of save that comes next
    value,                  \* the snapshot being saved
    reported                \* what the last save returned

vars == <<main, backup, pending, step, value, reported>>

Steps == {"idle", "create", "write", "remove", "retire", "publish", "revert", "return"}

Init ==
    /\ main = None /\ backup = None /\ pending = None
    /\ step = "idle" /\ value = None /\ reported = None

At(s, next) == step = s /\ step' = next

\* save returns an error.  Slip: the error is dropped.
ErrDropped ==
    /\ step' = "idle" /\ value' = None /\ reported' = "ok"
Err ==
    /\ step' = "idle" /\ value' = None /\ reported' = "error"

Save(v) ==
    /\ At("idle", "create")
    /\ value' = v /\ reported' = None
    /\ UNCHANGED <<main, backup, pending>>

\* File::create truncates what an earlier save left.
Create ==
    /\ At("create", "write")
    /\ pending' = Torn
    /\ UNCHANGED <<main, backup, value, reported>>

\* Where save goes on: a first save, or one after a crash in "publish", finds no main file.
AfterWrite == IF main = None THEN "publish" ELSE IF backup # None THEN "remove" ELSE "retire"

\* What is on disk after write_all and sync_all.  Slip: no sync.
WrittenUnsynced == {value, Torn}
Written == {value}

Write ==
    /\ At("write", AfterWrite)
    /\ pending' \in Written
    /\ UNCHANGED <<main, backup, value, reported>>

RemoveBackup ==
    /\ At("remove", "retire")
    /\ backup' = None
    /\ UNCHANGED <<main, pending, value, reported>>

\* rename(path, backup)
Retire ==
    /\ At("retire", "publish")
    /\ backup' = main /\ main' = None
    /\ UNCHANGED <<pending, value, reported>>

\* rename(pending, path)
Publish ==
    /\ At("publish", "return")
    /\ main' = pending /\ pending' = None
    /\ UNCHANGED <<backup, value, reported>>

\* An operation before the last rename fails: save returns its error.
Fails ==
    /\ step \in {"create", "write", "remove", "retire"}
    /\ Err
    /\ UNCHANGED <<main, backup, pending>>

\* The last rename fails: the backup, if there is one, is moved back.
PublishFails ==
    /\ step = "publish"
    /\ IF backup = None THEN Err ELSE step' = "revert" /\ UNCHANGED <<value, reported>>
    /\ UNCHANGED <<main, backup, pending>>

\* The outcome of that rename is ignored.
Revert ==
    /\ step = "revert"
    /\ \/ main' = backup /\ backup' = None
       \/ UNCHANGED <<main, backup>>
    /\ Err
    /\ UNCHANGED pending

Return ==
    /\ At("return", "idle")
    /\ value' = None /\ reported' = "ok"
    /\ UNCHANGED <<main, backup, pending>>

\* The process ends; the next one starts with the files as they are.
Crash ==
    /\ step' = "idle" /\ value' = None /\ reported' = None
    /\ UNCHANGED <<main, backup, pending>>

Next ==
    \/ \E v \in Snapshots : Save(v)
    \/ Create \/ Write \/ RemoveBackup \/ Retire \/ Publish
    \/ Fails \/ PublishFails \/ Revert \/ Return \/ Crash

Spec == Init /\ [][Next]_vars

----------------------------------------------------------------------------
\* load: the main file; the backup if there is no main file or it is no
\* snapshot; nothing if there is neither.  Torn stands for its error.
Load ==
    IF main \in Snapshots THEN main
    ELSE IF main = Torn /\ backup = None THEN Torn ELSE backup

TypeOK ==
    /\ main \in Contents /\ backup \in Contents /\ pending \in Contents
    /\ step \in Steps
    /\ value \in Snapshots \cup {None}
    /\ step = "idle" <=> value = None
    /\ reported \in {"ok", "error", None}

\* Whatever the files look like, a start never meets a file that is not a
\* snapshot: load returns no error, so the process comes up.
AlwaysLoadable ==
    /\ main # Torn /\ backup # Torn
    /\ Load # Torn

\* Once there is a snapshot there always is one to load, also between the two renames.
NeverEmptyAgain == [][Load # None => Load' # None]_vars

\* What a start loads is the value of the save that last took effect; save
\* returns Ok exactly if its value is that one, and a failed or interrupted
\* save leaves the whole old value or the whole new one.
Store == INSTANCE AtomicStore WITH
    stored <- Load, saving <- value, applied <- (step = "return"), reported <- reported

ImplementsStore == Store!StoreSpec
============================================================================
