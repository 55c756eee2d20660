--------------------------- MODULE CodexWorkerProofs ---------------------------
(***************************************************************************)
(* Threads of a Codex Resident, for any requests, rooms, capacities and     *)
(* numbers of threads and tool calls: a turn runs on a thread that is       *)
(* loaded, rooms do not share threads, a room keeps its thread while the    *)
(* provider resumes it, and no thread of an incognito room is saved.        *)
(***************************************************************************)
EXTENDS CodexWorker, TLAPS

USE RequestsAssumption, NumbersAssumption, NoneAssumption

Running == {"starting", "catalog", "catalogWait", "thread", "turn", "toolWait", "reply"}
Serving == {"catalog", "catalogWait", "thread", "turn", "toolWait"}

\* The worker has a turn while it runs one, and continues the thread of its room.
WorkExact ==
    /\ stage \in Running <=> turn # None
    /\ stage \in Serving => loaded # None
    /\ stage \in {"turn", "toolWait"} => turn.thread \in loaded
    /\ turn # None /\ ~IsTrigger => conversations[RoomNow] \in {None, turn.thread}
    /\ turn # None /\ IsTrigger =>
         stage \notin {"starting", "catalog", "catalogWait", "thread"} \/ turn.thread = None

\* A thread of an incognito room is marked as such before it is known.
PrivateMarked ==
    /\ \A r \in Private : conversations[r] # None => r \in privateRooms
    /\ turn # None /\ ~IsTrigger /\ RoomNow \in Private => RoomNow \in privateRooms

AskedThreads == {Asked[q] : q \in Requests}
Known(t) == t < nextThread \/ t \in AskedThreads

\* The provider's next thread is no one's, and the thread of a turn is of no room
\* but its own.
ThreadsApart ==
    /\ \A r \in Rooms : conversations[r] # None => Known(conversations[r])
    /\ turn # None /\ ~IsTrigger /\ turn.thread # None =>
         /\ Known(turn.thread)
         /\ turn.thread \in AskedThreads \/ \A s \in Rooms : s # RoomNow => conversations[s] # turn.thread

Inv == TypeOK /\ WorkExact /\ PrivateNotSaved /\ PrivateMarked /\ RoomsApart /\ ThreadsApart

----------------------------------------------------------------------------
(* Types *)

LEMMA ThreadForTyped ==
    ASSUME TypeOK, NEW request \in Requests
    PROVE  ThreadFor(request) \in Threads \cup {None}
BY DEF ThreadFor, TypeOK

\* A turn that ends is over for good, or waits for its reply.
LEMMA Concluded ==
    ASSUME NEW status \in {"completed", "interrupted", "failed"}, turn \in Turns, Conclude(status)
    PROVE  \/ IsTrigger /\ stage' = "idle" /\ turn' = None
           \/ /\ ~IsTrigger /\ stage' = "reply" /\ turn' \in Turns
              /\ turn'.request = turn.request /\ turn'.thread = turn.thread
BY DEF Conclude, To, Turns

LEMMA TypeStep == TypeOK /\ WorkExact /\ [Next]_vars => TypeOK'
<1> SUFFICES ASSUME TypeOK, WorkExact, [Next]_vars PROVE TypeOK'
  OBVIOUS
<1> USE DEF mailboxVars, ownerVars, providerVars, memoryVars, workVars, Unaffected
<1>1. ASSUME NEW r \in Requests, Deliver(r) PROVE TypeOK'
  <2>1. UNCHANGED <<ownerVars, workVars, memoryVars, providerVars, accepting, open>>
    BY <1>1 DEF Deliver, CheckAccepting, TrySend
  <2>2. delivery' \in [Requests -> {"new", "checked", "accepted", "refused"}]
    BY <1>1 DEF Deliver, CheckAccepting, TrySend, TypeOK
  <2>3. /\ queue' \in Seq(Requests) /\ Len(queue') <= Capacity
        /\ accepted' \in Seq(Requests)
    <3>1. \/ queue' = queue /\ accepted' = accepted
          \/ /\ Len(queue) < Capacity
             /\ queue' = Append(queue, r) /\ accepted' = Append(accepted, r)
      BY <1>1 DEF Deliver, CheckAccepting, TrySend, HasPlace
    <3>2. queue \in Seq(Requests) /\ accepted \in Seq(Requests) /\ Len(queue) <= Capacity
      BY DEF TypeOK
    <3>3. CASE queue' = queue /\ accepted' = accepted
      BY <3>2, <3>3
    <3>4. CASE /\ Len(queue) < Capacity
               /\ queue' = Append(queue, r) /\ accepted' = Append(accepted, r)
      <4>1. Len(Append(queue, r)) = Len(queue) + 1 /\ Len(queue) \in Nat
        BY <3>2
      <4> QED  BY <3>2, <3>4, <4>1
    <3> QED  BY <3>1, <3>3, <3>4
  <2> QED  BY <2>1, <2>2, <2>3 DEF TypeOK
<1>2. CASE Worker
  <2>0. ASSUME stage \in Running PROVE turn \in Turns
    BY <2>0 DEF WorkExact, TypeOK
  <2> USE <1>2 DEF Worker
  <2>1. CASE Launch
    BY <2>1 DEF Launch, To, TypeOK
  <2>2. CASE TakeSignal
    BY <2>2 DEF TakeSignal, TypeOK
  <2>3. CASE Receive
    <3>1. Head(queue) \in Requests /\ Tail(queue) \in Seq(Requests) /\ Len(Tail(queue)) <= Capacity
      BY <2>3 DEF Receive, TypeOK
    <3>2. ThreadFor(Head(queue)) \in Threads \cup {None}
      BY <3>1, ThreadForTyped
    <3>3. turn' \in Turns
      BY <2>3, <3>1, <3>2 DEF Receive, Turns
    <3>4. privateRooms' \in SUBSET Rooms
      BY <2>3 DEF Receive, TypeOK
    <3> QED  BY <2>3, <3>1, <3>3, <3>4 DEF Receive, To, TypeOK
  <2>4. CASE Refuse
    <3>1. stage' \in {"idle", "reply"} /\ turn' \in Turns \cup {None}
      BY <2>4, <2>0, Concluded DEF Refuse, Running
    <3> QED  BY <2>4, <3>1 DEF Refuse, TypeOK
  <2>5. CASE StartServer
    <3>1. stage' \in {"idle", "reply", "catalog", "thread"} /\ turn' \in Turns \cup {None}
      BY <2>5, <2>0, Concluded DEF StartServer, Running, To, FirstStage
    <3>2. loaded' \in (SUBSET Threads) \cup {None}
      BY <2>5 DEF StartServer, TypeOK
    <3> QED  BY <2>5, <3>1, <3>2 DEF StartServer, TypeOK
  <2>6. CASE LoadCatalog
    BY <2>6 DEF LoadCatalog, To, TypeOK
  <2>7. CASE CallTool
    <3>1. turn \in Turns
      BY <2>7, <2>0 DEF CallTool, Running
    <3>2. turn' \in Turns
      BY <2>7, <3>1 DEF CallTool, Turns
    <3> QED  BY <2>7, <3>2 DEF CallTool, To, TypeOK
  <2>8. CASE TakeToolResult
    BY <2>8 DEF TakeToolResult, To, TypeOK
  <2>9. CASE UseLoaded
    BY <2>9 DEF UseLoaded, To, TypeOK
  <2>10. CASE Resume
    <3>1. turn.thread \in Threads
      BY <2>10, <2>0 DEF Resume, Running, Turns
    <3>2. loaded # None
      BY <2>10 DEF Resume, WorkExact, Serving
    <3>3. loaded' \in SUBSET Threads
      BY <2>10, <3>1, <3>2 DEF Resume, TypeOK
    <3> QED  BY <2>10, <3>3 DEF Resume, To, TypeOK
  <2>11. CASE Rebuild
    <3>1. turn' \in Turns
      BY <2>11, <2>0 DEF Rebuild, Running, Turns
    <3>2. conversations' \in [Rooms -> Threads \cup {None}]
      BY <2>11 DEF Rebuild, TypeOK
    <3>3. stage' \in {"catalog", "thread"}
      BY <2>11 DEF Rebuild, To, FirstStage
    <3> QED  BY <2>11, <3>1, <3>2, <3>3 DEF Rebuild, TypeOK
  <2>12. CASE StartThread
    <3>1. nextThread \in Threads /\ nextThread' \in 1..(MaxThreads + 1)
      BY <2>12 DEF StartThread, TypeOK, Threads
    <3>2. turn' \in Turns
      BY <2>12, <2>0, <3>1 DEF StartThread, Running, Turns
    <3>3. loaded # None
      BY <2>12 DEF StartThread, WorkExact, Serving
    <3>4. loaded' \in SUBSET Threads
      BY <2>12, <3>1, <3>3 DEF StartThread, TypeOK
    <3> QED  BY <2>12, <3>1, <3>2, <3>4 DEF StartThread, To, TypeOK
  <2>13. CASE Break
    <3>1. stage' \in {"idle", "reply"} /\ turn' \in Turns \cup {None}
      BY <2>13, <2>0, Concluded DEF Break, Running
    <3> QED  BY <2>13, <3>1 DEF Break, TypeOK
  <2>14. CASE EndTurn
    <3>1. stage' \in {"idle", "reply"} /\ turn' \in Turns \cup {None}
      BY <2>14, <2>0, Concluded DEF EndTurn, Running
    <3>2. turn.thread \in Threads \cup {None}
      BY <2>14, <2>0 DEF EndTurn, Running, Turns
    <3>3. conversations' \in [Rooms -> Threads \cup {None}]
      BY <2>14, <3>2 DEF EndTurn, Continued, TypeOK
    <3>4. saved' \in [Rooms -> Threads \cup {None}]
      BY <2>14, <3>3 DEF EndTurn, Persisted, TypeOK
    <3> QED  BY <2>14, <3>1, <3>3, <3>4 DEF EndTurn, TypeOK
  <2>15. CASE Reply
    <3>1. turn.request \in Requests
      BY <2>15, <2>0 DEF Reply, Running, Turns
    <3>2. answered' \in Seq(Requests)
      BY <2>15, <3>1 DEF Reply, TypeOK
    <3> QED  BY <2>15, <3>2 DEF Reply, To, TypeOK
  <2>16. CASE Exit
    BY <2>16 DEF Exit, To, TypeOK
  <2> QED  BY <2>1, <2>2, <2>3, <2>4, <2>5, <2>6, <2>7, <2>8, <2>9, <2>10, <2>11, <2>12, <2>13, <2>14, <2>15, <2>16
<1>3. CASE Owner
  <2>1. /\ accepting' \in BOOLEAN /\ signalled' \in BOOLEAN /\ registered' \in BOOLEAN
        /\ shutdown' \in {"running", "signal", "join", "unregister", "done"}
    BY <1>3 DEF Owner, OwnerStep, Close, Signal, Join, Unregister, TypeOK
  <2> QED  BY <1>3, <2>1 DEF Owner, TypeOK
<1>4. CASE ToolsAnswer
  BY <1>4 DEF ToolsAnswer, TypeOK
<1>5. ASSUME NEW t \in Threads, Forget(t) PROVE TypeOK'
  BY <1>5 DEF Forget, TypeOK
<1>6. CASE UNCHANGED vars
  BY <1>6 DEF vars, TypeOK
<1> QED  BY <1>1, <1>2, <1>3, <1>4, <1>5, <1>6 DEF Next

----------------------------------------------------------------------------
(* Threads *)

threadVars == <<stage, turn, loaded, conversations, privateRooms, saved, nextThread>>

\* Nobody but the worker touches the threads.
LEMMA Aside == ASSUME [Next]_vars, ~Worker PROVE UNCHANGED threadVars
BY DEF Next, Deliver, CheckAccepting, TrySend, Owner, Close, Signal, Join, Unregister, OwnerStep,
   ToolsAnswer, Forget, vars, threadVars, mailboxVars, ownerVars, workVars, memoryVars, providerVars

LEMMA WorkStep == Inv /\ [Next]_vars => WorkExact'
<1> SUFFICES ASSUME Inv, [Next]_vars PROVE WorkExact'
  OBVIOUS
<1> USE DEF Inv, Unaffected, memoryVars, mailboxVars
<1>0. ASSUME stage \in Running PROVE turn \in Turns
  BY <1>0 DEF WorkExact, TypeOK
<1>1. CASE Launch
  BY <1>1 DEF Launch, To, WorkExact, Running, Serving, IsTrigger, RoomNow
<1>2. CASE TakeSignal
  BY <1>2 DEF TakeSignal, To, WorkExact, Running, Serving, IsTrigger, RoomNow
<1>3. CASE Receive
  <2> DEFINE request == Head(queue)
  <2>1. request \in Requests
    BY <1>3 DEF Receive, TypeOK
  <2>2. ThreadFor(request) \in Threads \cup {None}
    BY <2>1, ThreadForTyped
  <2>3. /\ turn' \in Turns /\ turn'.request = request /\ turn'.thread = ThreadFor(request)
        /\ stage' = "starting" /\ UNCHANGED <<conversations, loaded>>
    BY <1>3, <2>1, <2>2 DEF Receive, To, Turns
  <2>4. turn' # None
    BY <2>3
  <2>5. request \notin Triggers => conversations[RoomOf[request]] \in {None, ThreadFor(request)}
    BY DEF ThreadFor
  <2>6. request \in Triggers => ThreadFor(request) = None
    BY DEF ThreadFor
  <2> HIDE DEF request
  <2> QED  BY <2>3, <2>4, <2>5, <2>6 DEF WorkExact, Running, Serving, IsTrigger, RoomNow
<1>4. CASE Refuse
  <2>1. turn \in Turns /\ turn # None
    BY <1>4, <1>0 DEF Refuse, Running
  <2>2. PICK status \in {"completed", "interrupted", "failed"} : Conclude(status)
    BY <1>4 DEF Refuse
  <2>3. \/ stage' = "idle" /\ turn' = None
        \/ /\ ~IsTrigger /\ stage' = "reply" /\ turn' \in Turns
           /\ turn'.request = turn.request /\ turn'.thread = turn.thread
    BY <2>1, <2>2, Concluded
  <2>4. UNCHANGED conversations
    BY <1>4 DEF Refuse
  <2>5. turn' # None => /\ turn'.request = turn.request /\ turn'.thread = turn.thread
                        /\ stage' = "reply" /\ turn' \in Turns /\ ~IsTrigger
    BY <2>3
  <2> QED  BY <2>1, <2>3, <2>4, <2>5 DEF WorkExact, Running, Serving, IsTrigger, RoomNow
<1>5. CASE StartServer
  <2>1. turn \in Turns /\ turn # None
    BY <1>5, <1>0 DEF StartServer, Running
  <2>2. UNCHANGED conversations
    BY <1>5 DEF StartServer
  <2>3. CASE stage' = FirstStage /\ UNCHANGED turn /\ loaded' = IF loaded = None THEN {} ELSE loaded
    <3>1. stage' \in {"catalog", "thread"} /\ loaded' # None
      BY <2>3 DEF FirstStage
    <3>2. stage = "starting"
      BY <1>5 DEF StartServer
    <3> QED  BY <2>1, <2>2, <2>3, <3>1, <3>2 DEF WorkExact, Running, Serving, IsTrigger, RoomNow
  <2>4. CASE Conclude("failed")
    <3>1. \/ stage' = "idle" /\ turn' = None
          \/ /\ ~IsTrigger /\ stage' = "reply" /\ turn' \in Turns
             /\ turn'.request = turn.request /\ turn'.thread = turn.thread
      BY <2>1, <2>4, Concluded
    <3>2. turn' # None => /\ turn'.request = turn.request /\ turn'.thread = turn.thread
                          /\ stage' = "reply" /\ turn' \in Turns /\ ~IsTrigger
      BY <3>1
    <3> QED  BY <2>1, <2>2, <3>1, <3>2 DEF WorkExact, Running, Serving, IsTrigger, RoomNow
  <2> QED  BY <1>5, <2>3, <2>4 DEF StartServer, To
<1>6. CASE LoadCatalog
  BY <1>6 DEF LoadCatalog, To, WorkExact, Running, Serving, IsTrigger, RoomNow
<1>7. CASE CallTool
  <2>1. turn \in Turns /\ turn # None
    BY <1>7, <1>0 DEF CallTool, Running
  <2>2. /\ turn' \in Turns /\ turn'.request = turn.request /\ turn'.thread = turn.thread
        /\ UNCHANGED <<conversations, loaded>>
    BY <1>7, <2>1 DEF CallTool, Turns
  <2>3. stage = "turn" /\ stage' \in {"turn", "toolWait"} /\ turn' # None
    BY <1>7, <2>2 DEF CallTool, To
  <2> QED  BY <2>1, <2>2, <2>3 DEF WorkExact, Running, Serving, IsTrigger, RoomNow
<1>8. CASE TakeToolResult
  BY <1>8 DEF TakeToolResult, To, WorkExact, Running, Serving, IsTrigger, RoomNow
<1>9. CASE UseLoaded
  BY <1>9 DEF UseLoaded, IsLoaded, To, WorkExact, Running, Serving, IsTrigger, RoomNow
<1>10. CASE Resume
  <2>1. /\ stage = "thread" /\ stage' = "turn" /\ loaded' = loaded \cup {turn.thread}
        /\ turn.thread # None /\ UNCHANGED <<turn, conversations>>
    BY <1>10 DEF Resume, To
  <2>2. loaded \in SUBSET Threads /\ turn.thread \in Threads
    BY <2>1, <1>0 DEF WorkExact, Serving, Running, Turns, TypeOK
  <2>3. loaded' \in SUBSET Threads
    BY <2>1, <2>2
  <2>4. loaded' # None
    BY <2>3
  <2> QED  BY <2>1, <2>4 DEF WorkExact, Running, Serving, IsTrigger, RoomNow
<1>11. CASE Rebuild
  <2>1. turn \in Turns /\ turn # None /\ stage = "thread"
    BY <1>11, <1>0 DEF Rebuild, Running
  <2>2. turn' \in Turns /\ turn'.request = turn.request /\ turn'.thread = None
    BY <1>11, <2>1 DEF Rebuild, Turns
  <2>3. conversations'[RoomNow] = None /\ RoomNow \in Rooms
    BY <1>11, <2>1 DEF Rebuild, RoomNow, Turns, TypeOK
  <2>4. stage' \in {"catalog", "thread"} /\ UNCHANGED loaded /\ turn' # None
    BY <1>11, <2>2 DEF Rebuild, To, FirstStage
  <2> QED  BY <2>1, <2>2, <2>3, <2>4 DEF WorkExact, Running, Serving, IsTrigger, RoomNow
<1>12. CASE StartThread
  <2>1. turn \in Turns /\ turn # None /\ stage = "thread" /\ turn.thread = None
    BY <1>12, <1>0 DEF StartThread, Running
  <2>2. nextThread \in Threads
    BY <1>12 DEF StartThread, TypeOK, Threads
  <2>3. turn' \in Turns /\ turn'.request = turn.request /\ turn'.thread = nextThread
    BY <1>12, <2>1, <2>2 DEF StartThread, Turns
  <2>4. loaded \in SUBSET Threads
    BY <2>1 DEF WorkExact, Serving, TypeOK
  <2>5. loaded' \in SUBSET Threads /\ nextThread \in loaded'
    BY <1>12, <2>2, <2>4 DEF StartThread
  <2>6. stage' = "turn" /\ UNCHANGED conversations /\ turn' # None /\ loaded' # None
    BY <1>12, <2>3, <2>5 DEF StartThread, To
  <2> QED  BY <2>1, <2>3, <2>5, <2>6 DEF WorkExact, Running, Serving, IsTrigger, RoomNow
<1>13. CASE Break
  <2>1. turn \in Turns /\ turn # None
    BY <1>13, <1>0 DEF Break, Running
  <2>2. PICK status \in {"completed", "interrupted", "failed"} : Conclude(status)
    BY <1>13 DEF Break
  <2>3. \/ stage' = "idle" /\ turn' = None
        \/ /\ ~IsTrigger /\ stage' = "reply" /\ turn' \in Turns
           /\ turn'.request = turn.request /\ turn'.thread = turn.thread
    BY <2>1, <2>2, Concluded
  <2>4. UNCHANGED conversations
    BY <1>13 DEF Break
  <2>5. turn' # None => /\ turn'.request = turn.request /\ turn'.thread = turn.thread
                        /\ stage' = "reply" /\ turn' \in Turns /\ ~IsTrigger
    BY <2>3
  <2> QED  BY <2>1, <2>3, <2>4, <2>5 DEF WorkExact, Running, Serving, IsTrigger, RoomNow
<1>14. CASE EndTurn
  <2>1. turn \in Turns /\ turn # None
    BY <1>14, <1>0 DEF EndTurn, Running
  <2>2. PICK status \in {"completed", "interrupted", "failed"} : Conclude(status)
    BY <1>14 DEF EndTurn
  <2>3. \/ stage' = "idle" /\ turn' = None
        \/ /\ ~IsTrigger /\ stage' = "reply" /\ turn' \in Turns
           /\ turn'.request = turn.request /\ turn'.thread = turn.thread
    BY <2>1, <2>2, Concluded
  <2>4. ~IsTrigger => conversations'[RoomNow] = turn.thread
    BY <1>14, <2>1 DEF EndTurn, Continued, RoomNow, Turns, TypeOK
  <2>5. turn' # None => /\ turn'.request = turn.request /\ turn'.thread = turn.thread
                        /\ stage' = "reply" /\ turn' \in Turns /\ ~IsTrigger
    BY <2>3
  <2> QED  BY <2>1, <2>3, <2>4, <2>5 DEF WorkExact, Running, Serving, IsTrigger, RoomNow
<1>15. CASE Reply
  BY <1>15 DEF Reply, To, WorkExact, Running, Serving, IsTrigger, RoomNow
<1>16. CASE Exit
  BY <1>16 DEF Exit, To, WorkExact, Running, Serving, IsTrigger, RoomNow
<1>17. CASE ~Worker
  <2>1. UNCHANGED threadVars
    BY <1>17, Aside
  <2> QED  BY <2>1 DEF threadVars, WorkExact, Running, Serving, IsTrigger, RoomNow
<1> QED  BY <1>1, <1>2, <1>3, <1>4, <1>5, <1>6, <1>7, <1>8, <1>9, <1>10, <1>11, <1>12, <1>13, <1>14, <1>15, <1>16, <1>17
   DEF Worker

\* What a step can do to rooms and threads: nothing, or one of four actions.
Kept ==
    /\ UNCHANGED <<conversations, saved, privateRooms, nextThread>>
    /\ turn' # None => turn \in Turns /\ turn'.request = turn.request /\ turn'.thread = turn.thread

LEMMA Moves ==
    ASSUME Inv, [Next]_vars
    PROVE  Kept \/ Receive \/ Rebuild \/ StartThread \/ EndTurn
<1> USE DEF Inv, Unaffected, memoryVars
<1>0. ASSUME stage \in Running PROVE turn \in Turns
  BY <1>0 DEF WorkExact, TypeOK
<1>1. ASSUME UNCHANGED <<turn, conversations, saved, privateRooms, nextThread>> PROVE Kept
  BY <1>1 DEF Kept, TypeOK
<1>2. ASSUME stage \in Running, NEW status \in {"completed", "interrupted", "failed"}, Conclude(status),
             UNCHANGED <<conversations, saved, privateRooms, nextThread>>
      PROVE  Kept
  BY <1>0, <1>2, Concluded DEF Kept
<1>3. CASE Launch \/ TakeSignal \/ LoadCatalog \/ TakeToolResult \/ UseLoaded \/ Resume \/ Exit
  BY <1>3, <1>1 DEF Launch, TakeSignal, LoadCatalog, TakeToolResult, UseLoaded, Resume, Exit
<1>4. CASE Refuse
  BY <1>4, <1>2 DEF Refuse, Running
<1>5. CASE StartServer
  BY <1>5, <1>1, <1>2 DEF StartServer, Running
<1>6. CASE CallTool
  BY <1>6, <1>0 DEF CallTool, Kept, Turns, Running
<1>7. CASE Break
  BY <1>7, <1>2 DEF Break, Running
<1>8. CASE Reply
  BY <1>8 DEF Reply, Kept
<1>9. CASE ~Worker
  BY <1>9, <1>1, Aside DEF threadVars
<1> QED  BY <1>3, <1>4, <1>5, <1>6, <1>7, <1>8, <1>9 DEF Worker

\* What the four actions do.
LEMMA Received ==
    ASSUME Inv, Receive
    PROVE  /\ UNCHANGED <<conversations, saved, nextThread>>
           /\ \E q \in Requests :
                /\ turn'.request = q /\ turn'.thread = ThreadFor(q)
                /\ privateRooms \subseteq privateRooms'
                /\ q \notin Triggers => Private \cap {RoomOf[q]} \subseteq privateRooms'
<1>1. Head(queue) \in Requests
  BY DEF Inv, Receive, TypeOK
<1> QED  BY <1>1 DEF Receive

LEMMA Rebuilt ==
    ASSUME Inv, Rebuild
    PROVE  /\ ~IsTrigger /\ RoomNow \in Rooms /\ turn # None /\ turn.thread # None
           /\ ~Resumable(turn.thread) /\ conversations[RoomNow] \in {None, turn.thread}
           /\ conversations' = [conversations EXCEPT ![RoomNow] = None]
           /\ turn'.request = turn.request /\ turn'.thread = None
           /\ UNCHANGED <<saved, privateRooms, nextThread>>
<1>1. turn \in Turns /\ turn # None
  BY DEF Inv, Rebuild, WorkExact, TypeOK, Running
<1>2. turn'.request = turn.request /\ turn'.thread = None
  BY <1>1 DEF Rebuild, Turns
<1>3. ~IsTrigger /\ RoomNow \in Rooms
  BY <1>1 DEF Inv, Rebuild, WorkExact, RoomNow, Turns
<1> QED  BY <1>1, <1>2, <1>3 DEF Inv, Rebuild, WorkExact, Unaffected

LEMMA ThreadStarted ==
    ASSUME Inv, StartThread
    PROVE  /\ turn # None /\ turn \in Turns /\ turn'.request = turn.request /\ turn'.thread = nextThread
           /\ nextThread' = nextThread + 1 /\ nextThread \in Threads
           /\ UNCHANGED <<conversations, saved, privateRooms>>
<1>1. turn \in Turns /\ turn # None
  BY DEF Inv, StartThread, WorkExact, TypeOK, Running
<1>2. nextThread \in Threads
  BY DEF Inv, StartThread, TypeOK, Threads
<1> QED  BY <1>1, <1>2 DEF StartThread, Turns, memoryVars

LEMMA TurnEnded ==
    ASSUME Inv, EndTurn
    PROVE  /\ turn # None /\ turn \in Turns /\ RoomNow \in Rooms /\ turn.thread # None
           /\ conversations' = Continued
           /\ ~IsTrigger => conversations[RoomNow] \in {None, turn.thread}
           /\ saved' = saved \/ (RoomNow \notin Private /\ saved' = Persisted(conversations'))
           /\ turn' # None => turn'.request = turn.request /\ turn'.thread = turn.thread
           /\ UNCHANGED <<privateRooms, nextThread>>
<1>1. turn \in Turns /\ turn # None
  BY DEF Inv, EndTurn, WorkExact, TypeOK, Running
<1>2. turn.thread # None
  <2>1. loaded \in SUBSET Threads /\ turn.thread \in loaded
    BY DEF Inv, EndTurn, WorkExact, TypeOK, Serving
  <2> QED  BY <2>1
<1>3. turn' # None => turn'.request = turn.request /\ turn'.thread = turn.thread
  BY <1>1, Concluded DEF EndTurn
<1>4. RoomNow \in Rooms
  BY <1>1 DEF RoomNow, Turns
<1>5. saved' = saved \/ (RoomNow \notin Private /\ saved' = Persisted(conversations'))
  BY DEF EndTurn
<1>6. ~IsTrigger => conversations[RoomNow] \in {None, turn.thread}
  BY <1>1 DEF Inv, WorkExact
<1> QED  BY <1>1, <1>2, <1>3, <1>4, <1>5, <1>6 DEF EndTurn, Unaffected

----------------------------------------------------------------------------
(* Incognito rooms *)

LEMMA PrivateStep == Inv /\ [Next]_vars => PrivateNotSaved' /\ PrivateMarked'
<1> SUFFICES ASSUME Inv, [Next]_vars PROVE PrivateNotSaved' /\ PrivateMarked'
  OBVIOUS
<1> USE DEF PrivateNotSaved, PrivateMarked, IsTrigger, RoomNow
<1>0. PrivateNotSaved /\ PrivateMarked /\ TypeOK
  BY DEF Inv
<1>1. CASE Kept
  BY <1>0, <1>1 DEF Kept, TypeOK
<1>2. CASE Receive
  BY <1>0, <1>2, Received
<1>3. CASE Rebuild
  <2>1. \A r \in Rooms : conversations'[r] # None => conversations[r] # None
    BY <1>0, <1>3, Rebuilt DEF TypeOK
  <2> QED  BY <1>0, <1>3, <2>1, Rebuilt
<1>4. CASE StartThread
  BY <1>0, <1>4, ThreadStarted
<1>5. CASE EndTurn
  <2>1. \A r \in Private : conversations'[r] # None => r \in privateRooms
    BY <1>0, <1>5, TurnEnded DEF Continued, TypeOK
  <2>2. \A r \in Private : Persisted(conversations')[r] = None
    BY <2>1 DEF Persisted
  <2>3. PrivateNotSaved'
    BY <1>0, <1>5, <2>2, TurnEnded
  <2> QED  BY <1>0, <1>5, <2>1, <2>3, TurnEnded
<1> QED  BY <1>1, <1>2, <1>3, <1>4, <1>5, Moves

----------------------------------------------------------------------------
(* Rooms apart *)

LEMMA ApartStep == Inv /\ [Next]_vars => RoomsApart' /\ ThreadsApart'
<1> SUFFICES ASSUME Inv, [Next]_vars PROVE RoomsApart' /\ ThreadsApart'
  OBVIOUS
<1> USE DEF RoomsApart, ThreadsApart, IsTrigger, RoomNow, Known, AskedThreads
<1>0. RoomsApart /\ ThreadsApart /\ TypeOK /\ nextThread \in Nat /\ \A r \in Rooms : conversations[r] \in Nat \cup {None}
  BY DEF Inv, TypeOK, Threads
<1>1. CASE Kept
  BY <1>0, <1>1 DEF Kept, TypeOK
<1>2. CASE Receive
  <2>1. PICK q \in Requests : turn'.request = q /\ turn'.thread = ThreadFor(q)
    BY <1>2, Received
  <2>2. UNCHANGED <<conversations, nextThread>>
    BY <1>2, Received
  <2>3. RoomOf[q] \in Rooms
    BY <2>1
  <2>4. q \notin Triggers /\ ThreadFor(q) # None =>
          /\ Known(ThreadFor(q))
          /\ \/ ThreadFor(q) \in AskedThreads
             \/ \A s \in Rooms : s # RoomOf[q] => conversations[s] # ThreadFor(q)
    BY <1>0, <2>3 DEF ThreadFor
  <2> QED  BY <1>0, <2>1, <2>2, <2>4
<1>3. CASE Rebuild
  <2>1. \A r \in Rooms : conversations'[r] \in {None, conversations[r]}
    BY <1>0, <1>3, Rebuilt DEF TypeOK
  <2> QED  BY <1>0, <1>3, <2>1, Rebuilt
<1>4. CASE StartThread
  <2>1. turn'.request = turn.request /\ turn'.thread = nextThread /\ turn # None
    BY <1>4, ThreadStarted
  <2>2. nextThread' = nextThread + 1 /\ UNCHANGED conversations
    BY <1>4, ThreadStarted
  <2>3. \A t \in Nat : Known(t) => Known(t)'
    BY <1>0, <2>2
  <2>4. \A s \in Rooms : conversations[s] = nextThread => nextThread \in AskedThreads
    <3>1. nextThread # None
      BY <1>4, ThreadStarted
    <3> QED  BY <1>0, <3>1
  <2> QED  BY <1>0, <2>1, <2>2, <2>3, <2>4
<1>5. CASE EndTurn
  <2>1. \A r \in Rooms : conversations'[r] = IF ~IsTrigger /\ r = RoomNow THEN turn.thread ELSE conversations[r]
    BY <1>0, <1>5, TurnEnded DEF Continued, TypeOK
  <2>2. ~IsTrigger => /\ Known(turn.thread)
                      /\ \/ turn.thread \in AskedThreads
                         \/ \A s \in Rooms : s # RoomNow => conversations[s] # turn.thread
    BY <1>0, <1>5, TurnEnded
  <2>3. RoomsApart'
    BY <1>0, <2>1, <2>2
  <2>4. UNCHANGED nextThread /\ (turn' # None => turn'.request = turn.request /\ turn'.thread = turn.thread)
    BY <1>5, TurnEnded
  <2> QED  BY <1>0, <2>1, <2>2, <2>3, <2>4
<1> QED  BY <1>1, <1>2, <1>3, <1>4, <1>5, Moves

----------------------------------------------------------------------------
(* A room keeps its thread *)

LEMMA KeptStep ==
    ASSUME Inv, [Next]_vars, NEW r \in Rooms, conversations[r] # None, conversations'[r] # conversations[r]
    PROVE  ~Resumable(conversations[r])
<1>0. conversations \in [Rooms -> Threads \cup {None}]
  BY DEF Inv, TypeOK
<1>1. CASE Rebuild
  BY <1>0, <1>1, Rebuilt
<1>2. CASE EndTurn
  BY <1>0, <1>2, TurnEnded DEF Continued
<1> QED  BY <1>1, <1>2, Moves, Received, ThreadStarted DEF Kept

----------------------------------------------------------------------------
(* Requests and replies *)

\* The position up to which the worker has taken the accepted requests, and the
\* one up to which it is done with them.
Taken == Len(accepted) - Len(queue)
Finished == IF turn = None THEN Taken ELSE Taken - 1

\* The queue is what was accepted last, each request once.
QueueExact ==
    /\ \A r \in Requests : delivery[r] = "accepted" <=> r \in Range(accepted)
    /\ \A i, j \in DOMAIN accepted : accepted[i] = accepted[j] => i = j
    /\ Taken \in Nat
    /\ \A i \in DOMAIN queue : queue[i] = accepted[Taken + i]

\* The turn is that of the request taken last; exactly the ones before it that
\* get a reply have it, and a memory trigger never comes as far as the reply.
AnswersExact ==
    /\ turn # None => Taken \in DOMAIN accepted /\ turn.request = accepted[Taken]
    /\ stage = "reply" => ~IsTrigger
    /\ Range(answered) \subseteq Owed
    /\ \A k \in DOMAIN accepted : accepted[k] \notin Triggers =>
         (accepted[k] \in Range(answered) <=> k <= Finished)
    /\ \A i, j \in DOMAIN answered : i < j => Before(answered[i], answered[j])

\* The directory loses the instance after the worker has exited, and the worker
\* exits after the mailbox was closed and drained.
ShutdownExact ==
    /\ ~registered => shutdown = "done"
    /\ shutdown \in {"unregister", "done"} => stage = "exited"
    /\ stage = "exited" => ~open /\ queue = <<>>

AnswerInv == Inv /\ QueueExact /\ AnswersExact /\ ShutdownExact

\* What a step can do to requests and replies.
Queued(r) ==
    /\ delivery[r] = "checked" /\ open
    /\ queue' = Append(queue, r) /\ accepted' = Append(accepted, r)
    /\ delivery' = [delivery EXCEPT ![r] = "accepted"]
    /\ UNCHANGED <<turn, stage, answered, open>>
TakenOne ==
    /\ queue # <<>> /\ turn = None /\ queue' = Tail(queue)
    /\ turn' # None /\ turn'.request = Head(queue)
    /\ stage' = "starting" /\ UNCHANGED <<accepted, delivery, answered>>
Replied ==
    /\ stage = "reply" /\ stage' = "idle" /\ turn # None /\ turn' = None
    /\ answered' = Append(answered, turn.request)
    /\ UNCHANGED <<queue, accepted, delivery>>
DoneSilently ==
    /\ turn # None /\ IsTrigger /\ turn' = None /\ stage' = "idle"
    /\ UNCHANGED <<queue, accepted, delivery, answered>>
AtWork ==
    /\ UNCHANGED <<queue, accepted, answered>>
    /\ \A r \in Requests : delivery'[r] = "accepted" <=> delivery[r] = "accepted"
    /\ \/ turn = None /\ turn' = None
       \/ turn # None /\ turn' # None /\ turn'.request = turn.request
    /\ stage' = "reply" => (~IsTrigger /\ turn # None) \/ stage = "reply"

LEMMA QueueMoves ==
    ASSUME Inv, [Next]_vars
    PROVE  (\E r \in Requests : Queued(r)) \/ TakenOne \/ Replied \/ DoneSilently \/ AtWork
<1> USE DEF Inv, Unaffected, mailboxVars
<1>0. ASSUME stage \in Running PROVE turn \in Turns /\ turn # None
  BY <1>0 DEF WorkExact, TypeOK
<1>1. ASSUME UNCHANGED <<queue, accepted, delivery, answered, turn>>, stage' # "reply" \/ stage' = stage
      PROVE  AtWork
  BY <1>1 DEF AtWork
<1>2. ASSUME stage \in Running, NEW status \in {"completed", "interrupted", "failed"}, Conclude(status),
             UNCHANGED <<mailboxVars, answered>>
      PROVE  DoneSilently \/ AtWork
  <2>1. \/ IsTrigger /\ stage' = "idle" /\ turn' = None
        \/ /\ ~IsTrigger /\ stage' = "reply" /\ turn' \in Turns
           /\ turn'.request = turn.request
    BY <1>0, <1>2, Concluded
  <2> QED  BY <1>0, <1>2, <2>1 DEF DoneSilently, AtWork
<1>3. CASE Launch \/ TakeSignal \/ LoadCatalog \/ TakeToolResult \/ UseLoaded \/ Resume \/ Exit
  BY <1>3, <1>1 DEF Launch, TakeSignal, LoadCatalog, TakeToolResult, UseLoaded, Resume, Exit, To
<1>4. CASE Refuse
  BY <1>4, <1>2 DEF Refuse, Running
<1>5. CASE StartServer
  <2>1. CASE To(FirstStage) /\ UNCHANGED turn
    BY <1>5, <1>1, <2>1 DEF StartServer, To, FirstStage
  <2> QED  BY <1>5, <1>2, <2>1 DEF StartServer, Running
<1>6. CASE Break
  BY <1>6, <1>2 DEF Break, Running
<1>7. CASE EndTurn
  BY <1>7, <1>2 DEF EndTurn, Running
<1>8. CASE CallTool
  <2>1. turn \in Turns /\ turn # None
    BY <1>8, <1>0 DEF CallTool, Running
  <2>2. turn' \in Turns /\ turn'.request = turn.request
    BY <1>8, <2>1 DEF CallTool, Turns
  <2> QED  BY <1>8, <2>1, <2>2 DEF CallTool, AtWork, To
<1>9. CASE Rebuild
  <2>1. turn \in Turns /\ turn # None
    BY <1>9, <1>0 DEF Rebuild, Running
  <2>2. turn' \in Turns /\ turn'.request = turn.request
    BY <1>9, <2>1 DEF Rebuild, Turns
  <2> QED  BY <1>9, <2>1, <2>2 DEF Rebuild, AtWork, To, FirstStage
<1>10. CASE StartThread
  <2>1. turn' \in Turns /\ turn'.request = turn.request /\ turn # None
    BY <1>10, ThreadStarted DEF Turns, StartThread
  <2> QED  BY <1>10, <2>1 DEF StartThread, AtWork, To
<1>11. CASE Receive
  <2>1. turn = None
    BY <1>11 DEF Receive, WorkExact, Running
  <2>2. Head(queue) \in Requests
    BY <1>11 DEF Receive, TypeOK
  <2>3. turn' \in Turns /\ turn'.request = Head(queue)
    BY <1>11, <2>2, ThreadForTyped DEF Receive, Turns
  <2> QED  BY <1>11, <2>1, <2>3 DEF Receive, TakenOne, To
<1>12. CASE Reply
  BY <1>12, <1>0 DEF Reply, Replied, Running, To
<1>13. ASSUME NEW r \in Requests, Deliver(r)
       PROVE  Queued(r) \/ AtWork
  <2>1. UNCHANGED <<turn, stage, answered>>
    BY <1>13 DEF Deliver, workVars
  <2>2. CASE CheckAccepting(r)
    BY <2>1, <2>2 DEF CheckAccepting, AtWork, TypeOK
  <2>3. CASE TrySend(r)
    BY <2>1, <2>3 DEF TrySend, AtWork, Queued, TypeOK
  <2> QED  BY <1>13, <2>2, <2>3 DEF Deliver
<1>14. CASE Owner
  BY <1>1, <1>14 DEF Owner, workVars
<1>15. CASE ToolsAnswer \/ (\E t \in Threads : Forget(t)) \/ UNCHANGED vars
  BY <1>1, <1>15 DEF ToolsAnswer, Forget, vars, workVars
<1> QED
  BY <1>3, <1>4, <1>5, <1>6, <1>7, <1>8, <1>9, <1>10, <1>11, <1>12, <1>13, <1>14, <1>15 DEF Next, Worker

LEMMA QueueStep == Inv /\ QueueExact /\ [Next]_vars => QueueExact'
<1> SUFFICES ASSUME Inv, QueueExact, [Next]_vars PROVE QueueExact'
  OBVIOUS
<1> USE DEF QueueExact, Taken, Range
<1>0. /\ queue \in Seq(Requests) /\ accepted \in Seq(Requests)
      /\ delivery \in [Requests -> {"new", "checked", "accepted", "refused"}]
  BY DEF Inv, TypeOK
<1>1. ASSUME NEW r \in Requests, Queued(r) PROVE QueueExact'
  <2>1. /\ delivery[r] = "checked" /\ delivery' = [delivery EXCEPT ![r] = "accepted"]
        /\ queue' = Append(queue, r) /\ accepted' = Append(accepted, r)
    BY <1>1 DEF Queued
  <2>2. r \notin Range(accepted)
    BY <2>1
  <2>3. /\ Len(accepted') = Len(accepted) + 1 /\ Len(queue') = Len(queue) + 1
        /\ DOMAIN accepted' = DOMAIN accepted \cup {Len(accepted) + 1}
        /\ accepted'[Len(accepted) + 1] = r
        /\ \A i \in DOMAIN accepted : accepted'[i] = accepted[i]
        /\ DOMAIN queue' = DOMAIN queue \cup {Len(queue) + 1}
        /\ queue'[Len(queue) + 1] = r
        /\ \A i \in DOMAIN queue : queue'[i] = queue[i]
    BY <1>0, <2>1
  <2>4. Range(accepted') = Range(accepted) \cup {r}
    BY <2>3
  <2>5. \A q \in Requests : delivery'[q] = "accepted" <=> q \in Range(accepted')
    BY <1>0, <2>1, <2>4
  <2>6. \A i, j \in DOMAIN accepted' : accepted'[i] = accepted'[j] => i = j
    BY <2>2, <2>3
  <2>7. Taken' = Taken
    BY <1>0, <2>3
  <2>8. \A i \in DOMAIN queue' : queue'[i] = accepted'[Taken + i]
    BY <1>0, <2>3
  <2> QED  BY <2>5, <2>6, <2>7, <2>8
<1>2. CASE TakenOne
  <2>1. queue # <<>> /\ queue' = Tail(queue) /\ UNCHANGED <<accepted, delivery>>
    BY <1>2 DEF TakenOne
  <2>2. /\ Len(queue') = Len(queue) - 1 /\ Len(queue) \in Nat \ {0}
        /\ DOMAIN queue' = 1..(Len(queue) - 1)
        /\ \A i \in DOMAIN queue' : queue'[i] = queue[i + 1]
    BY <1>0, <2>1
  <2>3. Taken' = Taken + 1
    BY <1>0, <2>1, <2>2
  <2>4. ASSUME NEW i \in DOMAIN queue' PROVE queue'[i] = accepted[Taken + 1 + i]
    <3>1. i \in Nat /\ i + 1 \in DOMAIN queue /\ queue'[i] = queue[i + 1]
      BY <1>0, <2>2, <2>4
    <3>2. queue[i + 1] = accepted[Taken + (i + 1)]
      BY <3>1
    <3>3. Taken + (i + 1) = Taken + 1 + i
      BY <1>0, <3>1
    <3> QED  BY <3>1, <3>2, <3>3
  <2> QED  BY <2>1, <2>3, <2>4
<1>3. CASE Replied \/ DoneSilently \/ AtWork
  <2>1. UNCHANGED <<queue, accepted>>
    BY <1>3 DEF Replied, DoneSilently, AtWork
  <2>2. \A r \in Requests : delivery'[r] = "accepted" <=> delivery[r] = "accepted"
    BY <1>3 DEF Replied, DoneSilently, AtWork
  <2> QED  BY <2>1, <2>2
<1> QED  BY <1>1, <1>2, <1>3, QueueMoves

LEMMA AnswersStep == Inv /\ QueueExact /\ AnswersExact /\ [Next]_vars => AnswersExact'
<1> SUFFICES ASSUME Inv, QueueExact, AnswersExact, [Next]_vars PROVE AnswersExact'
  OBVIOUS
<1>0. /\ queue \in Seq(Requests) /\ accepted \in Seq(Requests) /\ answered \in Seq(Requests)
      /\ Len(queue) \in Nat /\ Len(accepted) \in Nat /\ Taken \in Nat
      /\ Len(accepted) = Taken + Len(queue) /\ DOMAIN accepted = 1..Len(accepted)
      /\ Taken <= Len(accepted)
  BY DEF Inv, TypeOK, QueueExact, Taken
<1>1. ASSUME NEW r \in Requests, Queued(r) PROVE AnswersExact'
  <2>1. accepted' = Append(accepted, r) /\ UNCHANGED <<turn, stage, answered>>
    BY <1>1 DEF Queued
  <2>2. /\ Len(accepted') = Len(accepted) + 1
        /\ DOMAIN accepted' = DOMAIN accepted \cup {Len(accepted) + 1}
        /\ accepted'[Len(accepted) + 1] = r
        /\ \A i \in DOMAIN accepted : accepted'[i] = accepted[i]
    BY <1>0, <2>1
  <2>3. Taken' = Taken
    BY <1>0, <1>1, <2>2 DEF Queued, Taken
  <2>4. Finished' = Finished /\ Finished <= Taken /\ Finished \in Int
    BY <1>0, <2>1, <2>3 DEF Finished
  <2>5. r \notin Range(accepted)
    BY <1>1 DEF Queued, QueueExact
  <2>6. Range(answered) \subseteq Owed'
    BY <2>2 DEF AnswersExact, Owed, Range
  <2>7. r \notin Range(answered)
    BY <2>5 DEF AnswersExact, Owed
  <2>8. \A k \in DOMAIN accepted' : accepted'[k] \notin Triggers =>
          (accepted'[k] \in Range(answered) <=> k <= Finished)
    BY <1>0, <2>2, <2>4, <2>7 DEF AnswersExact
  <2>9. \A p, q : Before(p, q) => Before(p, q)'
    BY <2>2 DEF Before
  <2>10. \A i, j \in DOMAIN answered : i < j => Before(answered[i], answered[j])'
    BY <2>1, <2>9 DEF AnswersExact
  <2>11. turn # None => Taken \in DOMAIN accepted' /\ turn.request = accepted'[Taken]
    BY <2>2 DEF AnswersExact
  <2> QED  BY <2>1, <2>3, <2>4, <2>6, <2>8, <2>10, <2>11 DEF AnswersExact, IsTrigger
<1>2. CASE TakenOne
  <2>1. /\ queue # <<>> /\ turn = None /\ turn' # None /\ turn'.request = Head(queue)
        /\ queue' = Tail(queue) /\ stage' = "starting" /\ UNCHANGED <<accepted, answered>>
    BY <1>2 DEF TakenOne
  <2>2. Len(queue') = Len(queue) - 1 /\ Len(queue) \in Nat \ {0} /\ 1 \in DOMAIN queue
    BY <1>0, <2>1
  <2>3. Taken' = Taken + 1
    BY <1>0, <2>1, <2>2 DEF Taken
  <2>4. Head(queue) = accepted[Taken + 1] /\ Taken + 1 \in DOMAIN accepted
    BY <1>0, <2>2 DEF QueueExact
  <2>5. Finished' = Finished
    BY <1>0, <2>1, <2>3 DEF Finished
  <2> QED  BY <2>1, <2>3, <2>4, <2>5 DEF AnswersExact, Owed, Before
<1>3. CASE Replied
  <2> DEFINE r == turn.request
  <2>1. /\ stage = "reply" /\ stage' = "idle" /\ turn # None /\ turn' = None
        /\ answered' = Append(answered, r) /\ UNCHANGED <<queue, accepted>>
    BY <1>3 DEF Replied
  <2>2. r \notin Triggers /\ Taken \in DOMAIN accepted /\ r = accepted[Taken]
    BY <2>1 DEF AnswersExact, IsTrigger
  <2> HIDE DEF r
  <2>3. Taken' = Taken /\ Finished = Taken - 1 /\ Finished' = Taken
    BY <1>0, <2>1 DEF Taken, Finished
  <2>4. r \in Owed /\ Owed' = Owed /\ r \in Requests
    <3>1. r \in Range(accepted) /\ r \in Requests
      BY <1>0, <2>2 DEF Range
    <3>2. Owed' = Owed
      BY <2>1 DEF Owed
    <3> QED  BY <2>2, <3>1, <3>2 DEF Owed
  <2>5. /\ DOMAIN answered' = DOMAIN answered \cup {Len(answered) + 1}
        /\ answered'[Len(answered) + 1] = r
        /\ \A i \in DOMAIN answered : answered'[i] = answered[i] /\ i < Len(answered) + 1
        /\ Len(answered) \in Nat /\ DOMAIN answered = 1..Len(answered)
    BY <1>0, <2>1, <2>4
  <2>6. Range(answered') = Range(answered) \cup {r}
    BY <2>5 DEF Range
  <2>7. \A k \in DOMAIN accepted : accepted[k] = r <=> k = Taken
    BY <2>2 DEF QueueExact
  <2>8. \A k \in DOMAIN accepted : accepted[k] \notin Triggers =>
          (accepted[k] \in Range(answered') <=> k <= Taken)
    BY <1>0, <2>3, <2>6, <2>7 DEF AnswersExact
  <2>9. \A i \in DOMAIN answered : Before(answered[i], r)
    <3> SUFFICES ASSUME NEW i \in DOMAIN answered PROVE Before(answered[i], r)
      OBVIOUS
    <3>1. answered[i] \in Owed /\ answered[i] \in Range(answered)
      BY DEF AnswersExact, Range
    <3>2. PICK k \in DOMAIN accepted : accepted[k] = answered[i]
      BY <3>1 DEF Owed, Range
    <3>3. k <= Finished
      BY <3>1, <3>2 DEF AnswersExact, Owed
    <3>4. k \in Nat /\ k < Taken
      BY <1>0, <2>3, <3>3
    <3> QED  BY <2>2, <3>2, <3>4 DEF Before
  <2>10. \A p, q : Before(p, q)' = Before(p, q)
    BY <2>1 DEF Before
  <2>11. \A i, j \in DOMAIN answered' : i < j => Before(answered'[i], answered'[j])
    BY <2>5, <2>9 DEF AnswersExact
  <2>12. Range(answered') \subseteq Owed
    BY <2>4, <2>6 DEF AnswersExact
  <2> QED  BY <2>1, <2>3, <2>4, <2>8, <2>10, <2>11, <2>12 DEF AnswersExact
<1>4. CASE DoneSilently
  <2>1. /\ turn # None /\ turn.request \in Triggers /\ turn' = None /\ stage' = "idle"
        /\ UNCHANGED <<queue, accepted, answered>>
    BY <1>4 DEF DoneSilently, IsTrigger
  <2>2. Taken' = Taken /\ Finished = Taken - 1 /\ Finished' = Taken
    BY <1>0, <2>1 DEF Taken, Finished
  <2>3. accepted[Taken] \in Triggers
    BY <2>1 DEF AnswersExact
  <2>4. \A k \in DOMAIN accepted : accepted[k] \notin Triggers => (k <= Taken <=> k <= Taken - 1)
    BY <1>0, <2>3
  <2> QED  BY <2>1, <2>2, <2>4 DEF AnswersExact, Owed, Before
<1>5. CASE AtWork
  <2>1. Taken' = Taken /\ UNCHANGED <<accepted, answered>>
    BY <1>5 DEF AtWork, Taken
  <2>2. Finished' = Finished
    BY <1>5, <2>1 DEF AtWork, Finished
  <2>3. turn' # None => turn # None /\ turn'.request = turn.request
    BY <1>5 DEF AtWork
  <2>4. stage' = "reply" => turn'.request \notin Triggers
    <3>1. stage' = "reply" => turn' # None
      BY WorkStep DEF WorkExact, Running
    <3> QED  BY <1>5, <2>3, <3>1 DEF AtWork, AnswersExact, IsTrigger
  <2> QED  BY <2>1, <2>2, <2>3, <2>4 DEF AnswersExact, IsTrigger, Owed, Before
<1> QED  BY <1>1, <1>2, <1>3, <1>4, <1>5, QueueMoves

LEMMA ShutdownStep == Inv /\ ShutdownExact /\ [Next]_vars => ShutdownExact'
<1> SUFFICES ASSUME Inv, ShutdownExact, [Next]_vars PROVE ShutdownExact'
  OBVIOUS
<1> USE DEF ShutdownExact, ownerVars, workVars, mailboxVars
<1>1. CASE Owner
  BY <1>1 DEF Owner, OwnerStep, Close, Signal, Join, Unregister, WorkerDone
<1>2. CASE UNCHANGED <<shutdown, registered, stage>> /\ (stage = "exited" => UNCHANGED <<open, queue>>)
  BY <1>2
<1>3. CASE stage # "exited" /\ stage' # "exited" /\ UNCHANGED <<shutdown, registered>>
  BY <1>3
<1>4. CASE Worker
  <2>1. CASE Exit
    BY <1>4, <2>1 DEF Worker, Exit, ClosedAndEmpty, To, Unaffected
  <2>2. CASE ~Exit
    <3>1. stage # "exited"
      BY <1>4, <2>2 DEF Worker, Launch, TakeSignal, Receive, Refuse, StartServer, LoadCatalog, CallTool,
        TakeToolResult, UseLoaded, Resume, Rebuild, StartThread, Break, EndTurn, Reply
    <3>2. stage' # "exited"
      BY <1>4, <2>2 DEF Worker, Launch, TakeSignal, Receive, Refuse, StartServer, LoadCatalog, CallTool,
        TakeToolResult, UseLoaded, Resume, Rebuild, StartThread, Break, EndTurn, Reply, To, Conclude, FirstStage
    <3> QED  BY <1>3, <1>4, <3>1, <3>2 DEF Worker
  <2> QED  BY <2>1, <2>2
<1>5. ASSUME NEW r \in Requests, Deliver(r) PROVE ShutdownExact'
  <2>1. UNCHANGED <<shutdown, registered, stage>>
    BY <1>5 DEF Deliver
  <2>2. stage = "exited" => UNCHANGED <<open, queue>>
    BY <1>5 DEF Deliver, CheckAccepting, TrySend
  <2> QED  BY <1>2, <2>1, <2>2
<1>6. CASE ToolsAnswer \/ (\E t \in Threads : Forget(t)) \/ UNCHANGED vars
  BY <1>2, <1>6 DEF ToolsAnswer, Forget, vars
<1> QED  BY <1>1, <1>4, <1>5, <1>6 DEF Next

----------------------------------------------------------------------------
(* The theorems *)

LEMMA InvCorrect == SafetySpec => []Inv
<1>1. Init => Inv
  <2> SUFFICES ASSUME Init PROVE Inv
    OBVIOUS
  <2>1. PICK known \in {None} \cup (Rooms \ (Private \cup {DirectRoom})) :
          /\ saved = [r \in Rooms |-> IF r = known THEN 1 ELSE None]
          /\ nextThread = IF known = None THEN 1 ELSE 2
    BY DEF Init
  <2>2. 1 \in Threads
    BY DEF Threads
  <2>3. saved \in [Rooms -> Threads \cup {None}] /\ conversations \in [Rooms -> Threads \cup {None}]
    BY <2>1, <2>2 DEF Init, NoThreads
  <2>4. nextThread \in 1..(MaxThreads + 1)
    BY <2>1
  <2>5. TypeOK
    <3>1. <<>> \in Seq(Requests) /\ Len(<<>>) = 0 /\ 0 <= Capacity
      OBVIOUS
    <3>2. /\ queue \in Seq(Requests) /\ Len(queue) <= Capacity
          /\ accepted \in Seq(Requests) /\ answered \in Seq(Requests)
      BY <3>1 DEF Init
    <3>3. /\ delivery \in [Requests -> {"new", "checked", "accepted", "refused"}]
          /\ turn \in Turns \cup {None} /\ loaded \in (SUBSET Threads) \cup {None}
          /\ privateRooms \in SUBSET Rooms /\ gone \in SUBSET Threads
      BY DEF Init
    <3> QED  BY <2>3, <2>4, <3>2, <3>3 DEF Init, TypeOK
  <2>6. \A r \in Rooms : conversations[r] # None => r = known /\ conversations[r] = 1
    BY <2>1 DEF Init, NoThreads
  <2>7. known \notin Private /\ PrivateNotSaved
    BY <2>1 DEF PrivateNotSaved
  <2>8. PrivateMarked
    BY <2>6, <2>7 DEF Init, PrivateMarked
  <2>9. \A r \in Rooms : conversations[r] # None => conversations[r] < nextThread
    BY <2>1, <2>6
  <2>10. RoomsApart /\ ThreadsApart
    BY <2>6, <2>9 DEF Init, RoomsApart, ThreadsApart, Known
  <2>11. WorkExact
    BY DEF Init, WorkExact, Running, Serving
  <2> QED  BY <2>5, <2>7, <2>8, <2>10, <2>11 DEF Inv
<1>2. Inv /\ [Next]_vars => Inv'
  BY TypeStep, WorkStep, PrivateStep, ApartStep DEF Inv
<1> QED  BY <1>1, <1>2, PTL DEF SafetySpec

\* However many turns, refused threads and lost processes: a turn only runs on a
\* thread that the present app-server has started or resumed (run_turn).
THEOREM ThreadLoadedCorrect == SafetySpec => []ThreadLoaded
<1>1. Inv => ThreadLoaded
  BY DEF Inv, WorkExact, ThreadLoaded, Serving, Running
<1> QED  BY <1>1, InvCorrect, PTL

\* No thread of an incognito room is in what save_conversations writes.
THEOREM PrivateNotSavedCorrect == SafetySpec => []PrivateNotSaved
BY InvCorrect, PTL DEF Inv

\* Two rooms share a thread only if a caller has named it (handle).
THEOREM RoomsApartCorrect == SafetySpec => []RoomsApart
BY InvCorrect, PTL DEF Inv

\* handle replaces the thread of a room only when the provider refuses it.
THEOREM ConversationKeptCorrect == SafetySpec => ConversationKept
<1>1. Inv /\ [Next]_vars =>
        [\A r \in Rooms : conversations[r] # None /\ conversations'[r] # conversations[r]
                            => ~Resumable(conversations[r])]_vars
  BY KeptStep
<1> QED  BY <1>1, InvCorrect, PTL DEF SafetySpec, ConversationKept

\* Whatever races with whatever, a request that deliver accepted is answered in
\* its turn or still owed, and the instance stays in the directory of RDF until
\* the worker has answered all of them (deliver, run and shutdown).
THEOREM AnsweredInOrderCorrect == SafetySpec => []AnsweredInOrder
<1>1. Init => QueueExact /\ AnswersExact /\ ShutdownExact
  BY DEF Init, QueueExact, AnswersExact, ShutdownExact, Taken, Owed, Range
<1>2. AnswerInv => AnsweredInOrder
  <2> SUFFICES ASSUME AnswerInv PROVE AnsweredInOrder
    OBVIOUS
  <2> USE DEF AnswerInv
  <2>0. /\ accepted \in Seq(Requests) /\ queue \in Seq(Requests)
        /\ Len(accepted) \in Nat /\ DOMAIN accepted = 1..Len(accepted)
        /\ Taken \in Nat /\ Finished \in Int
    BY DEF Inv, TypeOK, QueueExact, Finished
  <2>1. ASSUME NEW r \in Range(answered), NEW q \in Owed, Before(q, r) PROVE q \in Range(answered)
    <3>1. PICK i, j \in DOMAIN accepted : i < j /\ accepted[i] = q /\ accepted[j] = r
      BY <2>1 DEF Before
    <3>2. j <= Finished
      BY <3>1 DEF AnswersExact, Owed
    <3> QED  BY <2>0, <3>1, <3>2 DEF AnswersExact, Owed
  <2>2. ASSUME stage = "exited" PROVE Owed \subseteq Range(answered)
    <3>1. turn = None /\ queue = <<>>
      BY <2>2 DEF Inv, WorkExact, Running, ShutdownExact
    <3>2. Finished = Len(accepted)
      BY <2>0, <3>1 DEF Finished, Taken
    <3> QED  BY <2>0, <3>2 DEF AnswersExact, Owed, Range
  <2>3. stage # "exited" => registered
    BY DEF ShutdownExact, Inv, TypeOK
  <2> QED  BY <2>1, <2>2, <2>3 DEF AnsweredInOrder, AnswersExact
<1>3. Inv /\ AnswerInv /\ [Next]_vars => QueueExact' /\ AnswersExact' /\ ShutdownExact'
  BY QueueStep, AnswersStep, ShutdownStep DEF AnswerInv
<1>4. SafetySpec => []AnswerInv
  BY <1>1, <1>3, InvCorrect, PTL DEF SafetySpec, AnswerInv
<1> QED  BY <1>2, <1>4, PTL
=============================================================================
