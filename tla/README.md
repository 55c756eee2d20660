# NormaHarness in TLA+

This directory is the verification project of NormaHarness: TLA+ modules
written from the Rust sources, TLC configurations that check them on small
instances, and TLAPS proofs of what holds on every instance. `PROJECT.json` is
its index: the components, the runs, the line range that each definition
translates, the hazards and the findings.

## The system

NormaHarness is a process in which *Residents* (chat, tools, one or two Codex
agents) find each other by name and exchange messages.

| Component | State | Operations | Talks to |
| --- | --- | --- | --- |
| RDF, `src/rdf.rs`, `src/resident_store.rs` | directory by name, index by instance, store of objects, id counter, command channel | register, unregister, resolve_route, queries | mailboxes of Residents (notices), RTDF (routes) |
| RTDF, `src/rtdf.rs`, `src/application.rs` | command channel, one task per route, reference counts | send, drop of the harness | RDF's directory, gates, mailboxes |
| Chat, `residents/src/chat` | rooms, three counters, pending turns, one lock per member, presence, snapshot file | create, ensure_solo, incognito, archive, send, rounds, sleep, restore | Codex Residents through RTDF, tools, the web server |
| Codex, `residents/src/codex` | bounded mailbox, worker, app-server process, threads of rooms, pending tool results, conversation file | turn request, memory trigger, tool call, shutdown | chat and tools through RTDF, the app-server over pipes |
| Tools, `residents/src/tools` | counter of queries, two maps of relayed calls | catalog, publish media, list members, read context | Codex and chat through RTDF, media |
| Memory, `residents/src/memory.rs` | facts, cursors per room, switch, file | unprocessed, apply, hot, rebalance, set_enabled | both Codex Residents, which share it; triggers come from chat |
| Media, `residents/src/media.rs` | two stores of assets, an id counter each, files | save, get, restore, remove | tools, web server; chat's snapshot names its files |
| Web, `web/src/main.rs`, `web/static` | none of its own | one handler per chat operation, start and stop of everything | chat, media |

What makes each of them correct, and what is hard about it:

* **RDF** runs commands one at a time, but its broadcast runs outside the lock,
  callers can go away, and the whole may be dropped in the middle. The three
  maps must agree, no two registered Residents may miss each other, an id must
  never mean two things.
* **RTDF** copies both ends of a route and uses them after any number of awaits,
  in tasks that overtake each other. A message must not reach a successor, its
  result must be true, and dropping the harness must end both loops without
  cutting off a route.
* **Chat** runs one round per room at the same time, with members shared between
  rooms. Contexts must be neither stale nor too fresh, answers must find their
  question, rounds must end, incognito must hold, and what was acknowledged must
  survive a crash.
* **Snapshots** are replaced by several file operations that may fail or be cut
  off.
* **Codex** must answer whatever it accepted, in order, on the right thread,
  across failures of its process, and must be able to stop.
* **Tools** relays questions under numbers of its own, while callers use ids that
  others use too. An answer must find the call it is for, and what a turn reads by
  its calls must be what it was given, although the rooms have moved on.
* **Memory** is read under a lock, thought about by a model without it, and
  written under it again, by two Residents. No message may be passed over, and one
  message must not count twice.
* **Media** keeps the files that chat's snapshot names, in another step, another
  store and perhaps another process. A message must keep its own image.

## Modules

| Module | Models | Composed with |
| --- | --- | --- |
| `Directory` | abstract: a set of registrations and a counter | implemented by `Rdf` |
| `Rdf` | registration flow and resident store | extended by `Rtdf` |
| `Rtdf` | message flow, gates, harness | contains all of `Rdf` |
| `ChatRounds` | rounds in rooms whose members are fixed | members are its environment |
| `ChatRooms` | life and durability of rooms | rounds reduced to "a message comes", "it ends" |
| `AtomicStore` | abstract: one durable value | implemented by `SnapshotFile` |
| `SnapshotFile` | files of a snapshot | extended by `Media`; justifies that a save is one step in `ChatRooms`, `CodexWorker` and `Memory` |
| `CodexWorker` | one Codex Resident and its shutdown | RTDF, tools and provider are its environment |
| `Tools` | tool calls from turn to answer: Codex Residents, the tools Resident, chat | contains the part of each that a call goes through; RTDF may refuse any message |
| `Memory` | triggers of chat, extractions, the shared manager | contains the part of chat and of the Codex workers that memory sees |
| `Media` | both media stores, uploads and answers, start of the process | contains all of `SnapshotFile`, with chat's snapshot as the value |
| `RdfProofs`, `RtdfProofs`, `SnapshotProofs`, `ChatRoundsProofs`, `ChatRoomsProofs`, `CodexWorkerProofs`, `ToolsProofs`, `MemoryProofs` | theorems | extend the module they name; `RtdfProofs` also `RdfProofs` |
| `MCRdf`, `MCRtdf`, `MCChatRounds`, `MCCodexWorker`, `MCTools`, `MCMemory`, `MCMedia` | values for TLC | extend the module they name |

`ChatRooms` needs no definitions for TLC and is run directly; `SnapshotFile` is
run within `MCMedia`.

### How state and actions correspond to the code

*Atomic steps.* The code is asynchronous Rust on Tokio. What runs inside one
lock section, or between two awaits on state that nobody else touches, is one
action; every await at which others can change what is modelled separates two
actions. So the write-lock section of `register_resident` is `Admit`, each
`mailbox.deliver` of its broadcast is a `Notify`, and the receipt is
`FinishRegister`. A send of RTDF is `Send`, `Spawn`, `Resolve`, `PassOutbound`,
`PassInbound`, `Deliver`, `Respond` (the caller has its answer), and `EndTask`
(the task's reference to the core goes, and with the last one RDF). `ask` is `Prepare` (from the member's lock
to the pending entry), `Dispatch` or `DispatchFails`, and `Complete`; it ends in
one step with the release of the lock, because nobody who needs the member can
move between. In `ChatRooms` every operation holds the lock on rooms from its
first check to the end of its save. `ChatRounds` has of the saves what decides the
next step: `SendUserMessage` either spawns the round or, when `save_locked` fails,
leaves the room busy without one (finding 1); `push_message` and `finish` log the
error and go on. (`create_room_with_mode` takes its id just
before the lock; ids are only compared, so this order is not visible.) In
`CodexWorker`, `deliver` is two steps, the read of `accepting` and `try_send`.
`Memory` has one action per section under the manager's lock: `Take` is
`unprocessed` and begins an extraction, `Apply` ends it; in between the worker
waits for its model turn and everything else may happen. `Media` keeps the file
operations of `SnapshotFile` apart, each with what the caller of the save does
when it returns, since a crash may come between any two. In `Tools` the loop of the
tools Resident takes one message at a time (`Catalog`, `Relay`, `RelayFails`,
`Forward`), chat's worker another (`Answer`), and `Receive` is `deliver` of a
Codex mailbox, which hands a result to the call that waits under its id.

*Data.* A Resident is an object with a name; a mailbox belongs to its object. A
message is a model value in `Rtdf`, an id with role, author and the request it
answers in `ChatRounds`, an id in `ChatRooms`. Texts are model values with the
members they mention. A gate passes or refuses, a mailbox accepts or refuses,
without a reason. `IdLimit` is `u64::MAX`: the counter stops there
(`checked_add`) and a small limit shows it. In `Tools` and `Memory` a message is
its id, with the room it is in as a constant, and what is on its way between
Residents is a set, as deliveries overtake each other. A fact of `Memory` is a key with
its evidence, its mentions are a bag of times, and an extraction is any sequence of
keys with evidence, a key twice included; time is counted in the units of its limits. A sender of `Media` sends
one message with one image, and both go by its name.

*History.* Some variables are not in the code and only let a property speak
about the past: `receipts` (`Rdf`; the code returns them to the caller),
`before` and `heard` (`Rtdf`), `targetId` in a route, `answers` of a message
(`ChatRounds`), `acknowledged` (`ChatRooms`), `accepted` and `answered`
(`CodexWorker`), `processed` (`Memory`), `lost` and the question in an answer
(`Tools`). No guard reads them, except that programs only use ids which
a receipt or a `DuplicateResident` error has disclosed, and that the kind of an
answer, which the code has in the kind of the message, is read off its question.

*Slips.* Next to many operators stands a second one whose comment begins with
"Slip": the same operator with a mistake one could make in that place of the
code (a guard dropped, a lock not released, an entry not removed, one off). No
specification uses them. Each property is violated when the one named for it in
`PROJECT.json` ("mutants") takes the place of the original: that is how we know
that the bounds below let the interesting case happen.

## Runs

| Run | Instance | Shows |
| --- | --- | --- |
| `MCRdf` | 3 objects, 2 of one name, 2 callers, 3 ids | all safety of RDF, and that it implements `Directory` |
| `MCRtdf` | 3 objects, 2 of one name of which one has gates, 1 caller, 2 ids, 1 message | routes, gates and results when a name changes hands; notices precede messages; calls and sends return, dropping the harness ends both loops |
| `MCChatShared` | a group and a direct room with a shared member, 2 user messages, 1 stray result | contexts, correlation, the pending map |
| `MCChatLive` | a group and an incognito room of one of its members, texts that mention everyone, limit 1, saves of user messages that fail | rounds that were spawned end, contexts do not cross |
| `MCChatRooms` | 2 members, 2 room ids, 3 message ids | durability and identity of rooms |
| `MCCodexWorker` | 3 of 4 requests (of one room a chat request and a trigger, one private, one that names its thread), capacity 2, 2 threads, 1 tool call | order, threads and privacy; accepted requests are answered; shutdown returns unless it lost a tool's result |
| `MCTools` | 2 Residents in a group, one of them also in a room of its own and an incognito one, 4 messages, pages of one message, 3 relays | answers find their calls, pages are complete and inside the context, calls return unless an answer was refused |
| `MCMemory` | 2 Residents, an ordinary and an incognito room, 2 earlier messages and 3 new ones, 2 keys | nothing is skipped, mentions are distinct, the hot facts are the most recent |
| `MCMedia` | an upload, an answer and a private upload, 2 process ids, 2 numbers | messages keep their images through failures and restarts; the snapshot is one atomic value |
| `MCChatRoomsBusy`, `MCMediaStart`, `MCCodexHang` | as above, or 1 request | the findings below |

*Bounds.* In `Rdf` three ids suffice for a duplicate that burns one, a removal
and a re-registration of the name by the other object, and exhaustion; two
callers for every race of two commands, of which the loop runs one at a time. A
caller stands for any number of calls in sequence, and an abandoned one keeps
its place until its command is over, so `Callers` also bounds the channel. In
`Rtdf` one message suffices, since every property of a run is about one send and
the registrations around it (the order of two sends is proved, see below); one
name with two objects gives it a successor. In `ChatRounds`, `FollowUpLimit`
stands for the 16 of `MAX_MENTION_TURNS`; one follow-up is counted, answered by
mentions that would go on, and then cut off. `MaxUserMessages`, `MaxStrays` and
`MaxInbox` bound what users and members do, not what chat does. In `ChatRooms`,
two rooms and three messages allow a room to be lost in a failed save, a crash, and
its id and a message id to be given out again. `MaxThreads`, `MaxToolCalls` and
`MaxRequests` bound the provider and the senders of `CodexWorker`: any three of
the four requests, which leaves every pair that shares a room, a queue or a thread.

In `Memory` the limits of the code are small numbers of the same order: `Frequent`
2 stands for three mentions, `Window` 1 for 48 hours, `Dwell` 1 for 24 hours,
`Idle` 3 for seven days, `HotCapacity` 1 for 32. Five messages and two keys let two
facts be cached from messages of their own and compete for the one hot place,
`MaxTime` 3 lets one recede; `MaxFacts` 2 lets an extraction name two facts in either
order, or one twice. An initial state with an earlier process saves the
steps to the first extraction, and `MCRoomOf` puts a message of the incognito room
next. The two Residents belong to the same rooms and stand in no other constant:
their symmetry is used, and no liveness is checked with it. In `Media` each sender
stores one image, so two numbers are the most a store gives in one process; two
process ids let one come again with or without another process between. In `Tools`
four messages put one in each of the other rooms between two of the group, a limit
of one makes every message a page, and `MaxQueries` 3 is enough for two calls under
way and one whose relay stays behind.

`CHECK_DEADLOCK FALSE` stands where the system may stop: the bounds on messages
and on ids end a behaviour of the chat modules, of `Memory` and of `Tools`, shutdown
is final in `CodexWorker`, and a refused start in `Media`. In `Rdf` and `Rtdf`
deadlock is checked.

*Fairness.* Only what the runtime schedules is fair. `Loop` of `Rdf`, `Spawn`,
`EndRtdfLoop` and every route's steps in `Rtdf`, the tasks of chat and the
worker of Codex are polled by Tokio as long as they can move: weak fairness.
So are the loops of `Tools` that take a question, answer it, pass the answer on
and deliver it, fair to each Resident because each queue is served in its order.
Nobody is obliged to call, to abandon, to drop the harness or to begin a
shutdown. Three assumptions go beyond scheduling and are named where they are
made: a gate's future completes (`Rtdf`), a member answers a request that it
accepted (`ChatRounds`, strong only because the model bounds chat's mailbox),
and the provider ends or breaks each turn, tools answer each call
(`CodexWorker`). The second is needed because `ask` waits without a timeout;
`AcceptedIsAnswered` is the part of it that a Codex Resident fulfils, and
`MCCodexHang` where it does not.

## Findings

1. `send_user_message_with_media` (chat/mod.rs:640-655) marks the room busy,
   then returns the error of a failed save. No round is spawned and nothing ever
   resets `busy`: the room refuses messages and archiving until a restart.
   `MCChatRoomsBusy`: one room, one message, one failed save. `RoundsEnd` therefore
   speaks of rounds that were spawned, and shows with `PendingExact` that such a
   room has nothing of its members and holds up no other.
2. In the same place the message has been pushed. `send_upload` (main.rs:340)
   removes the image of an upload that failed, but the message that names it stays
   in the room, and the next save of any room writes it. `MediaStore::restore`
   (media.rs:79) then refuses to start, and every later start is refused as well,
   where README.md:17 says that chats and attachments resume after a restart.
   `MCMediaStart`.
3. `CodexResidentRuntime::shutdown` (codex/mod.rs:1005) closes the mailbox and then
   waits for the worker. The results of tools come through the same mailbox, so
   a chat turn that still needs its catalog or a tool waits forever, and with it
   shutdown, which residents/README.md says finishes queued work. `MCCodexHang`;
   `ShutdownWaitsForTools` shows that this is the only way in which shutdown does
   not return.

Also seen, and stated in the modules without a run of their own:

* `set_archived(id, false)` (chat/mod.rs:1046) can give a member a second direct
  room, where chat/mod.rs:492 promises one: archive it, open it again, which
  creates one, and unarchive the first (`OneDirectRoom`).
* `apply` (memory.rs:278) sets the cursor to the last event of its own extraction.
  A Resident that applies late moves it back, and messages that were processed are
  extracted again (`ProcessedStaysProcessed`). `CachedByDistinctMentions` shows that
  they are not counted again.
* Both media stores count from one under the same process id, and the handler of
  `/media` asks the ordinary store first (main.rs:352): an image of an incognito
  room is hidden by an ordinary one with the same id (`IncognitoShown`).
* `rebalance` (memory.rs:326) looks for candidates after facts have receded, without
  their age: a fact that was not mentioned for a week and is still cached becomes hot
  by the same reading that finds a place free.

## Proofs

`RdfProofs` proves for any number of Residents, names, callers and ids, from the
named assumptions of `Rdf` on its constants (each object has one name, `IdLimit`
is a natural number, `None` is no Resident, name or record of any kind) and
nothing more:

* `TypeCorrect` — by one lemma, `TypeStep`, with a step for each action;
* `DirectoryCorrect` — `DirectoryConsistent` is inductive with `TypeOK`. It is
  stated so that the three maps determine each other; that is what makes the
  entry overwritten by `Admit` provably absent;
* `StoredOnceCorrect` — one object has one name, one name one record, one record
  one id;
* `IdsNeverReusedCorrect` — an id in the store is at most `nextId`, and `Admit`
  takes the next one;
* `DirectoryRefined` — under the invariant every step of `Rdf` is a step of
  `Directory` or leaves it alone (`ImplementsDirectory`, refinement by
  `issued <- nextId`, `live <- Live`);
* `UnavailableMeansGoneCorrect` — from `GoneInv`: an ended loop, and a caller with
  no answer coming, mean that the framework's last owner is gone;
* `AnnouncementCorrect`, `MutualAwarenessCorrect`, `NoticeWhileRegisteredCorrect` —
  these need `AnnouncementConsistent`: mutual awareness speaks of completed
  registrations only and is not inductive; the invariant follows the broadcast
  in progress, says that it is about `nextId`, that the command loop serves
  nothing else meanwhile, and that each earlier Resident is still a target, or
  was told, or is among the failures. When the broadcast ends there are no
  targets left, and mutual awareness of the new id follows.

`RtdfProofs` proves about the two flows together, for any number of messages and
any choice of gated Residents, with the assumptions of `Rtdf` added (gates belong
to Residents, `None` is no route, post or result):

* `RegistrationUntouched` — `RtdfSafetySpec => SafetySpec`. `EndTask` and
  `DropHarness` change `owned` as `ReleaseOwner` does, because `owned` equals
  `CoreAlive` in every reachable state; every other step of RTDF leaves RDF alone.
  So each safety theorem of `RdfProofs` holds here, and the proofs below use them;
* `RtdfTypeCorrect` — inductive with `Shape` (which parts of a send exist at
  which stage) and `QueueExact` (who is queued is in the queue once), which say
  that the head of the queue is a message to spawn and never one under way;
* `ResultTruthfulCorrect` — `InboxExact` relates each mailbox to the results in
  both directions, from the moment of acceptance on, not only when the send
  returns;
* `RealTimeOrderCorrect` — what had returned before a send never enters a
  mailbox again, so it cannot come behind;
* `NoStaleRouteCorrect`, `GatesInOrderCorrect`, `NoticeBeforeMessageCorrect` — the
  invariant `RouteTrue` says of a route what `resolve_route` found, in terms of
  things that never change again: the receipt of the source, what was over before
  the send, the objects whose gates and mailbox were copied, and the notice of
  the source in the target's mailbox. `ResolvedTrue` derives it from
  `DirectoryConsistent` and `MutualAwareness`, at the moment of the read lock;
  `RouteKept` carries it through every later step of either flow. `Marks` adds
  the gates already passed, `HeardFirst` that the notice was there at acceptance.

`SnapshotProofs` proves, for any set of snapshots that does not hold the two
special values, type correctness, `AlwaysLoadable`, `NeverEmptyAgain` and the
refinement of `AtomicStore`. The inductive invariant relates `step` to the
contents of the three files: `pending` is the value from "retire" on, a main
file is missing only in "publish" and "revert" or after a crash there, and the
backup is removed only while the main file is whole.
Its second part is about `Media`, with any senders, process ids and numbers, and the
assumption that `None` is neither a sender nor an id. `MediaSavesCorrect` says that
what `Media` does to the three files `SnapshotFile` does, so the theorems above hold
there. Of the images it proves `StoredFilesExistCorrect` and `OrdinaryShownCorrect`
with `MediaInv`, whose parts say: at each stage of an upload which file it has and
whether its message is in the room (`StageExact`); the snapshot being saved and the
one on disk hold messages that the room has (`SnapshotsExact`); and while a process
runs, the file of every image that still counts is its own, and the counter is past
each id given under this pid (`LiveExact`). The last is what restore must establish:
it counts the ids of the messages only, and a number that it gives again may
overwrite a file of no message, never one that a loadable snapshot names (`CounterIsPast`).

`ChatRoundsProofs` proves all five safety properties of `ChatRounds`, and its types,
for any rooms, members, texts, limit of follow-ups and number of stray results, from
named assumptions on the constants: rooms have members, texts mention members, `None`
is none of the values. A room with a round is busy; the converse does not hold, as a
save may fail. The invariant `Inv` follows an ask through its life. `AskExact` says
in which phase of the room's task a member is asked; `LineupExact` that a room is in
the line for a member's lock once, exactly while it asks, and that only the first has a
request out, so a member answers one room at a time; `RequestsExact` that requests are
distinct and a result that was accepted is its member's (`PendingAsked`: the pending map
is what is waited for, with the right source). With them `MessagesExact` makes an answer
the only one to its request: once it is in the room its request is out no more, and the
next id is above it. `ContextsExact` is what makes contexts right, not only at
`Prepare` but as long as the request is out: what is said meanwhile by the same member
would need the lock, what others say has a new id, and a contribution cannot follow a
word of its own member in the round (`FirstWord`), so cutting the room off at the
user's message loses none. `AskMoves`, `RoundMoves` and `MessageMoves` list once what any
step can do to asks, tasks and messages; each part of `Inv` is then proved by those
cases.

`ChatRoomsProofs` proves `AcknowledgedSurvivesCorrect`, `MessageIdsUniqueCorrect` and
`ThreadsHaveRoomsCorrect` for any members and any number of rooms, messages, failed
saves and crashes. None of them is inductive. What carries them is that, while the
process is up, the rooms in memory extend those on disk (a failed save leaves them
ahead, never behind), that the counters are above every id in either, and that the
rooms in memory do not share messages. After a restart the counters begin above the
largest id on disk; `AfterIsNew` proves that such a largest id exists and that the
next one is new, which is where an id that was handed out but never saved may come
again.

`CodexWorkerProofs` proves `AnsweredInOrderCorrect`, `ThreadLoadedCorrect`,
`PrivateNotSavedCorrect`, `RoomsApartCorrect` and `ConversationKeptCorrect` for any
requests, rooms and threads; its assumptions are that requests and rooms are well-typed, that an
incognito room is not the direct one, and that `None` is none of the values. `WorkExact` says that the worker has a turn exactly while it runs one, and
that the thread of its room is still none or the one it continues, which makes the
end of a turn keep the thread. `PrivateMarked`: an incognito room is marked before
it can have a thread, so a later save of any other room leaves it out.
`ThreadsApart`: every thread of a room is older than the provider's next one or was
named by a caller, and the thread of the running turn is of no other room; without
it `RoomsApart` could break when the turn ends. For the order of replies `AnswerInv`
splits what was accepted at one index: before it is what the worker has taken, behind
it, in the same order, what the mailbox still holds (`QueueExact`); of what was taken
all are answered, in order, but triggers and the one at work (`AnswersExact`); and a
worker that has exited has left nothing behind, which is where the close of the
mailbox and the last `try_send` meet (`ShutdownExact`).

`ToolsProofs` proves `AnswersOwnQuestionCorrect`, `ReadsWithinContextCorrect` and
`PagesCompleteCorrect` for any Residents, rooms, contexts, page limits and call ids.
Its invariant has three parts. `OneToken`: of the question a Resident waits with
there is one token, in one of four places, as a request, a query, an answer or a
result; with `RelaysExact` (the relay under a number is for whoever asked the question
of that number) every result is an answer to the call it meets. `ContextsClosed`: a
context has of each of its rooms what was posted up to some message, so what chat
finds under `visible_through`, however late, is what the turn was given
(`FoundIsLeft`). `ReadExact`: a turn has read its scope from the message it reads
before, and a page is the end of what is left (`PageJoins`), so the page that has
nothing before it completes the scope, and no message comes twice.

`MemoryProofs` proves all three properties of `Memory`, and its types, for any
Residents, rooms, messages, keys, limits and length of an extraction; it assumes
that `RoomOf` and `MembersOf` are well-typed, that the limits are natural numbers,
`HotCapacity` and `MaxTime` positive ones, and that `None` is no time.

* `NothingSkippedCorrect` — `processed` and the extractions under way together contain
  everything up to their last event, because an extraction begins at the cursor.
* `CachedByDistinctMentionsCorrect` — the invariant `FactsInv` has `facts` in `Known`:
  sequences of facts that are `Honest` (sources posted in ordinary rooms, no more
  mentions than sources, cached for enough of them) and of which no more than the
  capacity are hot. `GrownByFresh` is the counting: new entries of
  `recent_mentions_ms` inject into the messages that were no source before.
  `Ordinary` carries what `emit_memory_trigger` guarantees, over any delay,
  to the moment at which the messages become evidence.
* `HotIsTheMostRecentCorrect` — `PromoteStep` gives the three outcomes of a candidate
  (`Added`, `Refused`, `Replaced`); `Settled` says, after n of them, that who was hot
  or tried and is not hot faces a full level of facts no older than itself. That
  needs a candidate not to be hot when its turn comes, and a worst fact to exist
  (`WorstExists`).

The two loops of `apply` and `rebalance` are recursive functions over the extracted
facts and the candidates. The induction theorems of the library cannot be used here;
`LeastExists` (natural numbers are well-founded) gives `StepByStep`, an induction over
0..N for a set instead of a predicate, and `Runs`, by which a loop whose every turn
stays in a set has a run. With it the definition by CHOOSE of such a function is shown
to satisfy its equation, and what holds along it follows step by step. `LeastExists`
also gives the largest and smallest elements that `Max`, `Min` and the counters after
a restart name.

Every safety property of the passing runs is a theorem. Only model-checked: all
liveness, since TLAPS has neither fairness nor ENABLED in its reach
(`CallsReturn` and `SendsReturn`, `DropEndsLoops`, `RoundsEnd`, `AcceptedIsAnswered`,
`ShutdownWaitsForTools`, and what the findings violate). Only proved: the type
correctness of `Rtdf`, `ChatRounds`, `ChatRooms`, `SnapshotFile`, `Media` and
`Memory` and the order of sends (`RealTimeOrder`), which TLC confirmed before
they were proved, as it did the inductive invariants.

## Not modelled

* Formatting of prompts, JSON, HTTP, event streams and the browser client.
* The app-server protocol beyond its outcomes. A turn here starts, calls tools,
  and completes, is interrupted, fails or breaks.
* Clocks and presence in chat: a sweep may put any room to sleep that is neither
  busy nor asleep. A clock that steps back is left out.
* The checks of an image and its decoding: a choice to refuse.
* The shutdown of the tools Resident, which follows that of the Codex Residents.
* The lease that allows one `CodexResident` per process, and launches that fail.
* Members that are unregistered in the middle of a round.
* In `Memory`, a message without a time of its own (`created_at_ms` 0, memory.rs:226
  and 261), which counts as mentioned now.
* Loss of what a file system had acknowledged (failure of the machine), and, in
  `Memory`, a chat snapshot that is older than the cursor after a crash: rooms are
  restored whole there.

## Plan

Done: `Rdf` and `Rtdf` (everything else rests on them), the chat modules, the
snapshot files and the Codex worker, then the memory, the media stores and the
tool calls, with proofs of the safety of all of them.

Left, in this order:

1. `Presence`: leases, the sleep monitor and the triggers it sends.
2. The message flow as an abstract channel that `Rtdf` implements.
3. Shutdown of the whole process: web server, Codex Residents, tools and chat in the
   order of main, with calls under way.
