----------------------------- MODULE CodexWorker -----------------------------
(***************************************************************************)
(* One Codex Resident at work: its bounded mailbox, the worker that takes   *)
(* one event at a time, its app-server process and provider threads, the    *)
(* tool calls a turn waits for, and the shutdown of its runtime             *)
(* (residents/src/codex/mod.rs and codex/app_server.rs).                    *)
(*                                                                          *)
(* Around it: RTDF delivers requests concurrently and takes replies (Rtdf   *)
(* shows how), the tools Resident answers every tool request it gets by a   *)
(* delivery to this mailbox, and the app-server decides how a turn goes.    *)
(* A tool call, the catalog included, is one call: the worker has at most   *)
(* one outstanding, so its id is not modelled.  Requests are well-formed.   *)
(***************************************************************************)
EXTENDS Naturals, Sequences, FiniteSets, Functions

CONSTANTS
    Requests,      \* messages for this Resident
    Chats,         \* those with a chat origin: they load the tool catalog
    Triggers,      \* memory triggers: a turn of its own without a reply
    Rooms,
    RoomOf,        \* origin.room_id, DirectRoom if there is none
    DirectRoom,    \* room 0
    Private,       \* incognito rooms
    Asked,         \* thread_id in the request, or None
    Capacity,      \* mailbox_capacity
    MaxThreads,    \* bound: threads of the provider
    MaxToolCalls,  \* bound: tool calls of one turn
    MaxRequests,   \* bound: how many of the requests are sent
    None

Threads == 1..MaxThreads

ASSUME RequestsAssumption ==
    /\ Chats \subseteq Requests /\ Triggers \subseteq Requests \ Chats
    /\ RoomOf \in [Requests -> Rooms] /\ Asked \in [Requests -> Threads \cup {None}]
    /\ Private \subseteq Rooms \ {DirectRoom} /\ DirectRoom \in Rooms
ASSUME NumbersAssumption ==
    Capacity \in Nat \ {0} /\ MaxThreads \in Nat \ {0} /\ MaxToolCalls \in Nat /\ MaxRequests \in Nat

\* A turn of the worker: the request, its tool calls so far, and how it ended.
Turns == [request : Requests, calls : 0..MaxToolCalls, thread : Threads \cup {None},
          status : {"completed", "interrupted", "failed", None}]

ASSUME NoneAssumption ==
    None \notin Threads \cup Rooms \cup Turns /\ \A S \in SUBSET Threads : S # None

VARIABLES
    accepting,      \* QueueMailbox.accepting
    open,           \* the receiver of the queue is not closed
    queue,          \* QueueMailbox.queue
    delivery,       \* per request: "new", "checked" (deliver has read accepting),
                    \* "accepted" or "refused" (what deliver returned)
    accepted,       \* history: requests in the order in which they were queued
    shutdown,       \* where shutdown() of the runtime is
    signalled,      \* the shutdown channel holds its message
    registered,     \* in the directory of RDF
    stage,          \* where the worker is
    turn,           \* the turn it runs, or None
    stopping,       \* run: it has seen the shutdown signal
    answered,       \* history: the replies it has sent
    call,           \* the outstanding tool call
    loaded,         \* loaded_threads of the app-server process, None without one
    conversations,  \* thread_id of each room
    privateRooms,   \* private_rooms
    saved,          \* the conversation file
    nextThread,     \* external: the provider's next thread
    gone            \* external: threads it refuses to resume

mailboxVars == <<accepting, open, queue, delivery, accepted>>
ownerVars == <<shutdown, signalled, registered>>
providerVars == <<nextThread, gone>>
memoryVars == <<conversations, privateRooms, saved>>
workVars == <<stage, turn, stopping, answered, call, loaded>>
vars == <<mailboxVars, ownerVars, workVars, memoryVars, providerVars>>

NoThreads == [r \in Rooms |-> None]

\* A start of the process: the file is what an earlier one left, if it can be read.
Init ==
    /\ accepting = TRUE /\ open = TRUE /\ queue = <<>> /\ accepted = <<>>
    /\ delivery = [r \in Requests |-> "new"]
    /\ shutdown = "running" /\ signalled = FALSE /\ registered = TRUE
    /\ stage = "launching" /\ turn = None /\ stopping = FALSE /\ answered = <<>>
    /\ call = "none" /\ loaded = {}
    /\ \E known \in {None} \cup (Rooms \ (Private \cup {DirectRoom})) :
         /\ saved = [r \in Rooms |-> IF r = known THEN 1 ELSE None]
         /\ nextThread = IF known = None THEN 1 ELSE 2
    /\ conversations \in {saved, NoThreads}
    /\ privateRooms = {} /\ gone = {}

----------------------------------------------------------------------------
\* The bounded channel takes one more event.
HasPlace == Len(queue) < Capacity

\* deliver: the check of accepting and try_send are two steps.
CheckAccepting(r) ==
    /\ delivery[r] = "new" /\ registered
    /\ Cardinality({q \in Requests : delivery[q] # "new"}) < MaxRequests
    /\ delivery' = [delivery EXCEPT ![r] = IF accepting THEN "checked" ELSE "refused"]
    /\ UNCHANGED <<accepting, open, queue, accepted>>

TrySend(r) ==
    /\ delivery[r] = "checked"
    /\ IF open /\ HasPlace
         THEN /\ queue' = Append(queue, r) /\ accepted' = Append(accepted, r)
              /\ delivery' = [delivery EXCEPT ![r] = "accepted"]
         ELSE /\ delivery' = [delivery EXCEPT ![r] = "refused"]
              /\ UNCHANGED <<queue, accepted>>
    /\ UNCHANGED <<accepting, open>>

Deliver(r) ==
    /\ CheckAccepting(r) \/ TrySend(r)
    /\ UNCHANGED <<ownerVars, workVars, memoryVars, providerVars>>

----------------------------------------------------------------------------
\* The worker.  run: the loop; the signal has priority over the queue.
To(s) == stage' = s

\* The task is spawned by launch, after the registration.
Launch == stage = "launching" /\ To("idle") /\ UNCHANGED <<mailboxVars, turn, stopping, answered, call, loaded, memoryVars, nextThread>>

\* Slip: the receiver stays open.
TakeSignalOnly ==
    /\ stage = "idle" /\ signalled /\ ~stopping
    /\ stopping' = TRUE
    /\ UNCHANGED <<mailboxVars, stage, turn, answered, call, loaded, memoryVars, nextThread>>

TakeSignal ==
    /\ stage = "idle" /\ signalled /\ ~stopping
    /\ stopping' = TRUE /\ open' = FALSE
    /\ UNCHANGED <<accepting, queue, delivery, accepted, stage, turn, answered, call, loaded, memoryVars, nextThread>>

IsTrigger == turn.request \in Triggers
RoomNow == RoomOf[turn.request]

\* The thread a turn continues.  Slip: the Resident has one conversation.
ThreadOfResident(request) ==
    LET known == {r \in Rooms : conversations[r] # None} IN
      IF request \in Triggers THEN None
      ELSE IF known # {} THEN conversations[CHOOSE r \in known : TRUE] ELSE Asked[request]
ThreadFor(request) ==
    IF request \in Triggers THEN None
    ELSE IF conversations[RoomOf[request]] # None THEN conversations[RoomOf[request]]
    ELSE Asked[request]

Receive ==
    /\ stage = "idle" /\ (signalled => stopping) /\ queue # <<>>
    /\ LET request == Head(queue) IN
         /\ turn' = [request |-> request, calls |-> 0, status |-> None,
                     thread |-> ThreadFor(request)]
         /\ privateRooms' = IF request \in Triggers THEN privateRooms
                            ELSE privateRooms \cup (Private \cap {RoomOf[request]})
    /\ queue' = Tail(queue)
    /\ To("starting")
    /\ UNCHANGED <<accepting, open, delivery, accepted, stopping, answered, call, loaded, conversations, saved, nextThread>>

\* Slip: a failed turn has no reply.
ConcludeSilently(status) ==
    IF IsTrigger \/ status = "failed" THEN To("idle") /\ turn' = None
    ELSE To("reply") /\ turn' = [turn EXCEPT !.status = status]

\* The turn is over; a memory trigger has no reply.
Conclude(status) ==
    IF IsTrigger THEN To("idle") /\ turn' = None
    ELSE To("reply") /\ turn' = [turn EXCEPT !.status = status]

Unaffected == UNCHANGED <<mailboxVars, stopping, answered, nextThread>>

\* handle: a caller names another thread than the room has.
Mismatch ==
    ~IsTrigger /\ Asked[turn.request] # None /\ turn.thread # Asked[turn.request]

Refuse ==
    /\ stage = "starting"
    /\ Mismatch \/ IsTrigger  \* the room has nothing unprocessed
    /\ Conclude("failed")
    /\ UNCHANGED <<call, loaded, memoryVars>> /\ Unaffected

\* run_turn begins with the catalog if there is an origin.
FirstStage == IF turn.request \in Chats THEN "catalog" ELSE "thread"

StartServer ==
    /\ stage = "starting" /\ ~Mismatch
    /\ \/ loaded' = (IF loaded = None THEN {} ELSE loaded) /\ To(FirstStage) /\ UNCHANGED turn
       \/ loaded = None /\ Conclude("failed") /\ UNCHANGED loaded
    /\ UNCHANGED <<call, memoryVars>> /\ Unaffected

LoadCatalog ==
    /\ stage = "catalog"
    /\ call' = "asked" /\ To("catalogWait")
    /\ UNCHANGED <<turn, loaded, memoryVars>> /\ Unaffected

\* A dynamic tool call of the provider; the send to the tools Resident may fail,
\* which is an answer too.
CallTool ==
    /\ stage = "turn" /\ turn.calls < MaxToolCalls
    /\ turn' = [turn EXCEPT !.calls = @ + 1]
    /\ \/ call' = "asked" /\ To("toolWait")
       \/ UNCHANGED <<call, stage>>
    /\ UNCHANGED <<loaded, memoryVars>> /\ Unaffected

TakeToolResult ==
    /\ stage \in {"catalogWait", "toolWait"} /\ call = "replied"
    /\ call' = "none" /\ To(IF stage = "catalogWait" THEN "thread" ELSE "turn")
    /\ UNCHANGED <<turn, loaded, memoryVars>> /\ Unaffected

\* Slip: a thread once resumed is taken as loaded.
IsLoadedOnce(t) == t # None
IsLoaded(t) == t \in loaded

UseLoaded ==
    /\ stage = "thread" /\ IsLoaded(turn.thread)
    /\ To("turn")
    /\ UNCHANGED <<turn, call, loaded, memoryVars>> /\ Unaffected

Resumable(t) == t < nextThread /\ t \notin gone

Resume ==
    /\ stage = "thread" /\ turn.thread # None /\ ~IsLoaded(turn.thread) /\ Resumable(turn.thread)
    /\ loaded' = loaded \cup {turn.thread} /\ To("turn")
    /\ UNCHANGED <<turn, call, memoryVars>> /\ Unaffected

\* "thread/resume:" error: handle forgets the thread and runs the turn once more.
Rebuild ==
    /\ stage = "thread" /\ turn.thread # None /\ ~IsLoaded(turn.thread) /\ ~Resumable(turn.thread)
    /\ conversations' = [conversations EXCEPT ![RoomNow] = None]
    /\ turn' = [turn EXCEPT !.thread = None] /\ To(FirstStage)
    /\ UNCHANGED <<call, loaded, privateRooms, saved>> /\ Unaffected

StartThread ==
    /\ stage = "thread" /\ turn.thread = None /\ nextThread <= MaxThreads
    /\ turn' = [turn EXCEPT !.thread = nextThread] /\ loaded' = loaded \cup {nextThread}
    /\ nextThread' = nextThread + 1 /\ To("turn")
    /\ UNCHANGED <<mailboxVars, stopping, answered, call, memoryVars>>

\* I/O error, unexpected answer, or no catalog: the process is dropped.
Break ==
    /\ stage \in {"catalog", "thread", "turn"}
    /\ loaded' = None /\ Conclude("failed")
    /\ UNCHANGED <<call, memoryVars>> /\ Unaffected

\* What save_conversations writes.  Slip: every room of a chat.
PersistedEveryRoom(c) == [r \in Rooms |-> IF r = DirectRoom THEN None ELSE c[r]]
Persisted(c) == [r \in Rooms |-> IF r = DirectRoom \/ r \in privateRooms THEN None ELSE c[r]]

\* Slip: a memory extraction leaves its thread to the room.
ContinuedAlways == [conversations EXCEPT ![RoomNow] = turn.thread]
Continued ==
    IF IsTrigger THEN conversations ELSE [conversations EXCEPT ![RoomNow] = turn.thread]

EndTurn ==
    /\ stage = "turn"
    /\ \E status \in {"completed", "interrupted", "failed"} :
         /\ Conclude(status)
         /\ conversations' = Continued
         /\ saved' \in IF status = "completed" /\ ~IsTrigger /\ RoomNow \notin Private
                         THEN {saved, Persisted(conversations')} ELSE {saved}
    /\ UNCHANGED <<call, loaded, privateRooms>> /\ Unaffected

Reply ==
    /\ stage = "reply"
    /\ answered' = Append(answered, turn.request) /\ turn' = None /\ To("idle")
    /\ UNCHANGED <<mailboxVars, stopping, call, loaded, memoryVars, nextThread>>

\* recv returns None: closed and empty.  Slip: closed.
ClosedAtAll == ~open
ClosedAndEmpty == ~open /\ queue = <<>>

Exit ==
    /\ stage = "idle" /\ ClosedAndEmpty
    /\ To("exited") /\ loaded' = None
    /\ UNCHANGED <<turn, call, memoryVars>> /\ Unaffected

Worker ==
    /\ \/ Launch \/ TakeSignal \/ Receive \/ Refuse \/ StartServer \/ LoadCatalog \/ CallTool
       \/ TakeToolResult \/ UseLoaded \/ Resume \/ Rebuild \/ StartThread \/ Break \/ EndTurn
       \/ Reply \/ Exit
    /\ UNCHANGED <<ownerVars, gone>>

----------------------------------------------------------------------------
\* Slip: the worker is not awaited.
WorkerNotAwaited == TRUE
WorkerDone == stage = "exited"

\* shutdown() of the runtime: close, signal, await the worker, unregister.
OwnerStep(s, next) == shutdown = s /\ shutdown' = next

Close == OwnerStep("running", "signal") /\ accepting' = FALSE /\ UNCHANGED <<signalled, registered>>
Signal == OwnerStep("signal", "join") /\ signalled' = TRUE /\ UNCHANGED <<accepting, registered>>
Join == WorkerDone /\ OwnerStep("join", "unregister") /\ UNCHANGED <<accepting, signalled, registered>>
Unregister == OwnerStep("unregister", "done") /\ registered' = FALSE /\ UNCHANGED <<accepting, signalled>>

Owner ==
    /\ Close \/ Signal \/ Join \/ Unregister
    /\ UNCHANGED <<open, queue, delivery, accepted, workVars, memoryVars, providerVars>>

\* The tools Resident answers; deliver takes the result only while accepting,
\* and the tools Resident drops what is refused.
ToolsAnswer ==
    /\ call = "asked"
    /\ call' = IF accepting THEN "replied" ELSE "lost"
    /\ UNCHANGED <<mailboxVars, ownerVars, stage, turn, stopping, answered, loaded, memoryVars, providerVars>>

\* External: the provider will not resume this thread any more.
Forget(t) ==
    /\ t < nextThread /\ t \notin gone
    /\ gone' = gone \cup {t}
    /\ UNCHANGED <<mailboxVars, ownerVars, workVars, memoryVars, nextThread>>

Next ==
    \/ \E r \in Requests : Deliver(r)
    \/ Worker \/ Owner \/ ToolsAnswer
    \/ \E t \in Threads : Forget(t)

SafetySpec == Init /\ [][Next]_vars

\* The runtime schedules the tasks, the tools Resident answers, and the provider
\* ends or breaks a turn.  Nothing obliges anyone to call shutdown.
Spec ==
    /\ SafetySpec
    /\ WF_vars(Worker) /\ WF_vars(ToolsAnswer)
    /\ WF_vars(Owner /\ shutdown # "running")
    /\ \A r \in Requests : WF_vars(Deliver(r))

----------------------------------------------------------------------------
TypeOK ==
    /\ accepting \in BOOLEAN /\ open \in BOOLEAN
    /\ queue \in Seq(Requests) /\ Len(queue) <= Capacity
    /\ delivery \in [Requests -> {"new", "checked", "accepted", "refused"}]
    /\ accepted \in Seq(Requests) /\ answered \in Seq(Requests)
    /\ shutdown \in {"running", "signal", "join", "unregister", "done"}
    /\ signalled \in BOOLEAN /\ registered \in BOOLEAN /\ stopping \in BOOLEAN
    /\ stage \in {"launching", "idle", "starting", "catalog", "catalogWait", "thread",
                  "turn", "toolWait", "reply", "exited"}
    /\ turn \in Turns \cup {None}
    /\ call \in {"none", "asked", "replied", "lost"}
    /\ loaded \in (SUBSET Threads) \cup {None}
    /\ conversations \in [Rooms -> Threads \cup {None}]
    /\ saved \in [Rooms -> Threads \cup {None}]
    /\ privateRooms \in SUBSET Rooms
    /\ nextThread \in 1..(MaxThreads + 1) /\ gone \in SUBSET Threads

\* The requests that get a reply, and the order in which they were queued.
Owed == Range(accepted) \ Triggers
Before(q, r) == \E i, j \in DOMAIN accepted : i < j /\ accepted[i] = q /\ accepted[j] = r

\* Replies come in the order in which deliver accepted the requests, none is
\* skipped, and a worker that has exited owes none: a delivery that races with
\* the close of the mailbox is either refused or still answered.  Until then its
\* instance is in the directory, so that RTDF refuses no reply because shutdown
\* was faster.
AnsweredInOrder ==
    /\ Range(answered) \subseteq Owed
    /\ \A i, j \in DOMAIN answered : i < j => Before(answered[i], answered[j])
    /\ \A r \in Range(answered), q \in Owed : Before(q, r) => q \in Range(answered)
    /\ IF stage = "exited" THEN Owed \subseteq Range(answered) ELSE registered

\* A turn only runs on a thread that the present app-server process has started
\* or resumed, also after the process was dropped and replaced between turns.
ThreadLoaded ==
    stage \in {"turn", "toolWait"} =>
      /\ loaded # None /\ turn.thread \in loaded
      /\ ~IsTrigger => conversations[RoomNow] \in {None, turn.thread}

\* No thread of an incognito room reaches the file, not even with the save of an
\* ordinary room's turn.
PrivateNotSaved == \A r \in Private : saved[r] = None

\* Two rooms never continue the same thread, unless a caller named the thread in
\* its request, and a memory extraction continues none.
RoomsApart ==
    \A r, s \in Rooms :
      r # s /\ conversations[r] # None /\ conversations[r] \notin {Asked[q] : q \in Requests}
        => conversations[r] # conversations[s]

\* A room changes its thread only when the provider refused to resume the old one.
ConversationKept ==
    [][\A r \in Rooms : conversations[r] # None /\ conversations'[r] # conversations[r]
                          => ~Resumable(conversations[r])]_vars

\* A request that deliver accepted is answered, unless shutdown begins before.
AcceptedIsAnswered ==
    \A r \in Requests \ Triggers :
      delivery[r] = "accepted" ~> r \in Range(answered) \/ shutdown # "running"

\* "Call runtime.shutdown().await to finish queued work, stop the process, and
\* unregister the precise Resident instance."
ShutdownCompletes == shutdown # "running" ~> shutdown = "done"

\* shutdown returns, unless the turn it waits for lost the result of a tool to the
\* mailbox that shutdown itself has closed.
ShutdownWaitsForTools == shutdown # "running" ~> shutdown = "done" \/ call = "lost"
============================================================================
