-------------------------------- MODULE Media --------------------------------
(***************************************************************************)
(* Images and the messages that name them: the two media stores of a        *)
(* process, uploads and answers with attachments, and what of them a later  *)
(* process finds (residents/src/media.rs; send_upload, media and main of    *)
(* web/src/main.rs; publish_media of tools/mod.rs; the saves of             *)
(* chat/mod.rs).  The ordinary store lies in the data directory, the        *)
(* private one in a directory of the process; both count from one.          *)
(*                                                                          *)
(* Every sender sends one message with one image, which bears the sender's  *)
(* name.  The chat snapshot is the set of the senders whose messages it     *)
(* holds; it is written as SnapshotFile describes, under the lock on the    *)
(* rooms, so that no message is pushed while a save is under way.           *)
(***************************************************************************)
EXTENDS SnapshotFile, FiniteSets, FiniteSetsExt

CONSTANTS
    Senders,
    Uploads,     \* senders that are users; the others are turns of a Resident
    Incognito,   \* senders in incognito rooms
    Pids,        \* process ids of the system
    MaxNumber    \* bound: images a store names in one process

ASSUME SendersAssumption ==
    Uploads \subseteq Senders /\ Incognito \subseteq Senders /\ MaxNumber \in Nat
ASSUME SnapshotsAreMessages == Snapshots = [messages : SUBSET (Senders \ Incognito)]

\* An id: the process and the counter of a store.
Ids == Pids \X (1..MaxNumber)

ASSUME NoneAssumption == None \notin Senders \cup Ids

VARIABLES
    status,      \* of the process: "down", "booting", "up", or "refused" by restore
    pid,
    next,        \* next_id of the ordinary store
    nextPrivate, \* next_id of the private store
    files,       \* the media directory: whose image each file holds
    registered,  \* assets of the ordinary store
    private,     \* assets and files of the private store
    stage,       \* where each sender is
    asset,       \* the id of its image
    posted,      \* messages in the rooms
    saver        \* the sender the save under way is for, if there is one

rollingVars == <<main, backup, pending, step, value, reported>>
storeVars == <<next, nextPrivate, files, registered, private>>
mediaVars == <<rollingVars, storeVars, status, pid, stage, asset, posted, saver>>

Snapshot(rooms) == [messages |-> rooms \ Incognito]

NoFile == [id \in Ids |-> None]

MediaInit ==
    /\ Init
    /\ status = "down" /\ pid \in Pids /\ next = 1 /\ nextPrivate = 1
    /\ files = NoFile /\ registered = {} /\ private = NoFile
    /\ stage = [s \in Senders |-> "new"] /\ asset = [s \in Senders |-> None]
    /\ posted = {} /\ saver = None

To(s, there) == stage' = [stage EXCEPT ![s] = there]

----------------------------------------------------------------------------
(* MediaStore *)

\* save: in the store of the sender's room.  The number is taken first.
StoreImage(s) ==
    /\ status = "up" /\ stage[s] = "new"
    /\ To(s, "held")
    /\ IF s \in Incognito
         THEN LET id == <<pid, nextPrivate>> IN
                /\ nextPrivate <= MaxNumber /\ nextPrivate' = nextPrivate + 1
                /\ private' = [private EXCEPT ![id] = s]
                /\ asset' = [asset EXCEPT ![s] = id]
                /\ UNCHANGED <<next, files, registered>>
         ELSE LET id == <<pid, next>> IN
                /\ next <= MaxNumber /\ next' = next + 1
                /\ files' = [files EXCEPT ![id] = s] /\ registered' = registered \cup {id}
                /\ asset' = [asset EXCEPT ![s] = id]
                /\ UNCHANGED <<nextPrivate, private>>
    /\ UNCHANGED <<rollingVars, status, pid, posted, saver>>

\* Slip: the private store comes first.
ShownPrivateFirst(id) == IF private[id] # None THEN private[id] ELSE files[id]

\* The image of a message, as its URL shows it: the ordinary store comes first.
Shown(id) == IF id \in registered THEN files[id] ELSE private[id]

----------------------------------------------------------------------------
(* send_upload and push_message_with_media *)

\* The message is pushed and the rooms are saved, under one lock.
Push(s) ==
    /\ status = "up" /\ stage[s] = "held"
    /\ posted' = posted \cup {s} /\ saver' = s
    /\ Save(Snapshot(posted'))
    /\ To(s, "saving")
    /\ UNCHANGED <<storeVars, status, pid, asset>>

\* The room is busy or archived, or the text is too long.
Refuse(s) ==
    /\ status = "up" /\ s \in Uploads /\ stage[s] = "held" /\ step = "idle"
    /\ To(s, "failed")
    /\ UNCHANGED <<rollingVars, storeVars, status, pid, asset, posted, saver>>

\* The client closes the connection, or the turn fails after it published: no
\* one removes the file.
Leave(s) ==
    /\ status = "up" /\ stage[s] = "held"
    /\ To(s, "left")
    /\ UNCHANGED <<rollingVars, storeVars, status, pid, asset, posted, saver>>

\* send_upload removes what it saved; the message, once pushed, stays.
Remove(s) ==
    /\ status = "up" /\ stage[s] = "failed"
    /\ To(s, "removed")
    /\ IF s \in Incognito
         THEN private' = [private EXCEPT ![asset[s]] = None] /\ UNCHANGED <<files, registered>>
         ELSE /\ files' = [files EXCEPT ![asset[s]] = None]
              /\ registered' = registered \ {asset[s]}
              /\ UNCHANGED private
    /\ UNCHANGED <<rollingVars, next, nextPrivate, status, pid, asset, posted, saver>>

\* finish, sleep_due and every other change of a room.
SaveRooms ==
    /\ status = "up" /\ Save(Snapshot(posted)) /\ saver' = None
    /\ UNCHANGED <<storeVars, status, pid, stage, asset, posted>>

\* Slip: whoever saved in vain removes its image.
AfterErrorAll(s) == "failed"
\* An upload is told of the error of its save; of an answer's it is only logged.
AfterError(s) == IF s \in Uploads THEN "failed" ELSE "done"

\* The file operations of the save under way; enable_storage ends the start.
SaveStep ==
    /\ \/ Create \/ Write \/ RemoveBackup \/ Retire \/ Publish
       \/ Fails \/ PublishFails \/ Revert \/ Return
    /\ IF step' = "idle" /\ saver \in Senders
         THEN To(saver, IF reported' = "ok" THEN "done" ELSE AfterError(saver))
         ELSE UNCHANGED stage
    /\ saver' = IF step' = "idle" THEN None ELSE saver
    /\ status' = IF step' # "idle" \/ status # "booting" THEN status
                 ELSE IF reported' = "ok" THEN "up" ELSE "down"
    /\ UNCHANGED <<storeVars, pid, asset, posted>>

----------------------------------------------------------------------------
(* main *)

\* The process ends, after ctrl-c or anywhere.
End ==
    /\ status \in {"booting", "up"}
    /\ Crash
    /\ status' = "down" /\ saver' = None
    /\ stage' = [s \in Senders |-> IF stage[s] \in {"held", "saving", "failed"} THEN "left"
                                   ELSE stage[s]]
    /\ UNCHANGED <<storeVars, pid, asset, posted>>

Stored == IF Load \in Snapshots THEN Load.messages ELSE {}

\* restore: the counter passes the ids of this process id.  Slip: it starts again.
CounterFromOne(p, kept) == 1
CounterAfter(p, kept) == Max({1} \cup {asset[s][2] + 1 : s \in {t \in kept : asset[t][1] = p}})

\* The system may give a process id again.  A snapshot that cannot be read ends
\* the start, and so does restore unless it finds every file.
Start(p) ==
    /\ status = "down" /\ pid' = p
    /\ private' = NoFile /\ nextPrivate' = 1
    /\ posted' = Stored /\ registered' = {asset[s] : s \in Stored}
    /\ next' = CounterAfter(p, Stored)
    /\ IF Load # Torn /\ \A s \in Stored : files[asset[s]] # None
         THEN status' = "booting" /\ Save(Snapshot(Stored))
         ELSE status' = "refused" /\ UNCHANGED rollingVars
    /\ UNCHANGED <<files, stage, asset, saver>>

MediaNext ==
    \/ \E s \in Senders : StoreImage(s) \/ Push(s) \/ Refuse(s) \/ Leave(s) \/ Remove(s)
    \/ SaveRooms \/ SaveStep \/ End
    \/ \E p \in Pids : Start(p)

MediaSpec == MediaInit /\ [][MediaNext]_mediaVars

----------------------------------------------------------------------------
MediaTypeOK ==
    /\ TypeOK
    /\ status \in {"down", "booting", "up", "refused"}
    /\ pid \in Pids /\ next \in 1..(MaxNumber + 1) /\ nextPrivate \in 1..(MaxNumber + 1)
    /\ files \in [Ids -> Senders \cup {None}] /\ private \in [Ids -> Senders \cup {None}]
    /\ registered \in SUBSET Ids
    /\ stage \in [Senders -> {"new", "held", "saving", "failed", "removed", "left", "done"}]
    /\ asset \in [Senders -> Ids \cup {None}]
    /\ posted \in SUBSET Senders /\ saver \in Senders \cup {None}

\* An upload whose client was told that it failed.
Rejected(s) == s \in Uploads /\ stage[s] = "removed"

\* Unless its upload was reported to have failed, a message of an ordinary room
\* shows the image it was sent with, in this process and after any number of
\* restarts: no later image takes its file, whatever process ids come again and
\* whichever numbers were given to images that were never sent.
OrdinaryShown ==
    status = "up" =>
      \A s \in posted \ Incognito : ~Rejected(s) => Shown(asset[s]) = s

\* What a start would load names files that hold the images of the messages,
\* unless the upload of the message was reported to have failed.
StoredFilesExist ==
    \A s \in Stored : ~Rejected(s) => files[asset[s]] = s

\* "Ordinary chats and attachments are stored locally and can resume after
\* closing the page or restarting the service."
StartsAgain == status # "refused"

\* The image of an incognito room's message is its own as well.
IncognitoShown ==
    status = "up" =>
      \A s \in posted \cap Incognito : ~Rejected(s) => Shown(asset[s]) = s
============================================================================
