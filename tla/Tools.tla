-------------------------------- MODULE Tools --------------------------------
(***************************************************************************)
(* The tool calls of running turns: a Codex Resident asks the tools         *)
(* Resident, which answers itself (the catalog; Media has the images) or    *)
(* relays the question to chat under a number of its own, and chat answers  *)
(* from the rooms as they are by then (residents/src/tools/mod.rs, the      *)
(* invoke functions of codex/mod.rs, room_members_for and chat_context_for  *)
(* of chat/mod.rs).  Ids of calls are the provider's: two Residents may use *)
(* the same one.  A model reads a context page by page.                     *)
(*                                                                          *)
(* RTDF carries the messages; it may refuse any of them.  Each Resident     *)
(* runs one turn and, in it, one call at a time.                            *)
(***************************************************************************)
EXTENDS Naturals, FiniteSets, FiniteSetsExt

CONSTANTS
    Residents,
    Rooms,
    MembersOf,    \* the Residents of each room
    Incognito,    \* the incognito rooms
    MaxMessages,  \* bound: ids of messages
    RoomOf,       \* the room of each message
    CallIds,      \* ids a provider gives to tool calls
    Limits,       \* limits of a page that are asked for
    MaxQueries,   \* bound: relayed questions
    None

Messages == 1..MaxMessages

ASSUME RoomsAssumption ==
    /\ MembersOf \in [Rooms -> SUBSET Residents] /\ Incognito \subseteq Rooms
    /\ MaxMessages \in Nat /\ RoomOf \in [Messages -> Rooms]
ASSUME LimitsAssumption == Limits \subseteq Nat \ {0} /\ MaxQueries \in Nat

Kinds == {"catalog", "members", "context"}

\* A turn, and how far it has read its context.
Turn == [room : Rooms, context : SUBSET Messages, all : BOOLEAN, limit : Limits,
         before : Messages \cup {None}, read : SUBSET Messages, count : Nat, over : BOOLEAN]

Question == [kind : Kinds, id : CallIds, from : Residents, room : Rooms,
             through : [Rooms -> 0..MaxMessages], all : BOOLEAN,
             before : Messages \cup {None}, limit : Limits]

Response == [question : Question, ok : BOOLEAN, page : SUBSET Messages,
             next : Messages \cup {None}]

ASSUME NoneAssumption == None \notin Messages \cup Turn \cup Question

VARIABLES
    posted,      \* the last message id
    turn,        \* per Resident: its turn and how far it has read, or None
    call,        \* per Resident: the question it waits for, or None
    requests,    \* questions in the mailbox of the tools Resident
    next_query,
    relays,      \* its maps pending and pending_context
    queries,     \* questions in the mailbox of chat
    answers,     \* answers in the mailbox of the tools Resident
    results,     \* results on their way to the Residents
    lost         \* history: Residents to which an answer was refused

toolsVars == <<requests, next_query, relays, answers>>
vars == <<posted, turn, call, toolsVars, queries, results, lost>>

Init ==
    /\ posted = 0
    /\ turn = [w \in Residents |-> None] /\ call = [w \in Residents |-> None]
    /\ requests = {} /\ next_query = 1 /\ relays = {}
    /\ queries = {} /\ answers = {} /\ results = {} /\ lost = {}

----------------------------------------------------------------------------
(* chat: rooms and the context of a turn *)

Post ==
    /\ posted < MaxMessages /\ posted' = posted + 1
    /\ UNCHANGED <<turn, call, toolsVars, queries, results, lost>>

\* The rooms a turn of w in room r may know.
Readable(w, r) ==
    {s \in Rooms : w \in MembersOf[s] /\ IF r \in Incognito THEN s = r ELSE s \notin Incognito}

\* ask: of its own room a turn of a round sees what was there when it began.
ContextOf(w, r, start) ==
    {i \in 1..posted : RoomOf[i] \in Readable(w, r) /\ (RoomOf[i] = r => i <= start)}

\* w begins a turn, in which it will read the context with this scope and limit.
StartTurn(w, r, start, all, limit) ==
    /\ call[w] = None /\ w \in MembersOf[r]
    /\ start \in 1..posted /\ RoomOf[start] = r
    /\ turn' = [turn EXCEPT ![w] =
         [room |-> r, context |-> ContextOf(w, r, start), all |-> all, limit |-> limit,
          before |-> None, read |-> {}, count |-> 0, over |-> FALSE]]
    /\ UNCHANGED <<posted, call, toolsVars, queries, results, lost>>

----------------------------------------------------------------------------
(* invoke_..._tool of a Codex Resident *)

\* Slip: the last message there is.
LastPosted(context) ==
    [r \in Rooms |-> IF \E i \in context : RoomOf[i] = r THEN posted ELSE 0]
\* visible_through; 0: the room has no entry.
VisibleThrough(context) ==
    [r \in Rooms |-> Max({0} \cup {i \in context : RoomOf[i] = r})]

\* A send that is refused is an answer to the model, and nothing else happens.
Ask(w, kind, id) ==
    /\ turn[w] # None /\ call[w] = None
    /\ next_query + Cardinality(requests) <= MaxQueries
    /\ kind = "members" => Cardinality(MembersOf[turn[w].room]) > 1
    /\ kind = "context" => ~turn[w].over
    /\ LET question ==
             [kind |-> kind, id |-> id, from |-> w, room |-> turn[w].room,
              through |-> VisibleThrough(turn[w].context), all |-> turn[w].all,
              before |-> turn[w].before, limit |-> turn[w].limit]
       IN /\ call' = [call EXCEPT ![w] = question]
          /\ requests' = requests \cup {question}
    /\ UNCHANGED <<posted, turn, next_query, relays, answers, queries, results, lost>>

\* The model goes on before the page it got, if there is more (external).
AfterPage(t, answer) ==
    [t EXCEPT !.before = answer.next, !.read = @ \cup answer.page,
              !.count = @ + Cardinality(answer.page), !.over = (answer.next = None)]

\* QueueMailbox.deliver: the call that waits under this id, if any.
Receive(result) ==
    /\ result \in results /\ results' = results \ {result}
    /\ LET w == result.to  q == call[w] IN
         IF q # None /\ q.id = result.id /\ q.kind = result.kind
           THEN /\ call' = [call EXCEPT ![w] = None]
                /\ turn' = IF result.kind # "context" \/ ~result.answer.ok THEN turn
                           ELSE [turn EXCEPT ![w] = AfterPage(@, result.answer)]
           ELSE UNCHANGED <<call, turn>>
    /\ UNCHANGED <<posted, toolsVars, queries, lost>>

----------------------------------------------------------------------------
(* The tools Resident.  An answer bears the question it is for as a history. *)

Failed(question) == [question |-> question, ok |-> FALSE, page |-> {}, next |-> None]

\* send_result: the target may refuse it.
Reply(to, kind, id, answer) ==
    \/ /\ results' = results \cup {[to |-> to, kind |-> kind, id |-> id, answer |-> answer]}
       /\ UNCHANGED lost
    \/ lost' = lost \cup {to} /\ UNCHANGED results

Catalog(q) ==
    /\ q \in requests /\ q.kind = "catalog"
    /\ requests' = requests \ {q}
    /\ Reply(q.from, q.kind, q.id, [Failed(q) EXCEPT !.ok = TRUE])
    /\ UNCHANGED <<posted, turn, call, next_query, relays, queries, answers>>

IsValid(q) == q.kind = "context" => q.through[q.room] # 0

\* Slip: the relay bears the id of the call.
CallersId(q) == q.id
RelayId(q) == next_query

Relay(q) ==
    /\ q \in requests /\ q.kind # "catalog" /\ IsValid(q)
    /\ requests' = requests \ {q} /\ next_query' = next_query + 1
    /\ relays' = {e \in relays : e.relay # RelayId(q) \/ e.kind # q.kind} \cup
                   {[relay |-> RelayId(q), kind |-> q.kind, to |-> q.from, id |-> q.id]}
    /\ queries' = queries \cup {[relay |-> RelayId(q), question |-> q]}
    /\ UNCHANGED <<posted, turn, call, answers, results, lost>>

\* Slip: whoever asks in vain hears nothing.
NoReply(to, kind, id, answer) == UNCHANGED <<results, lost>>
ReplyFailed(to, kind, id, answer) == Reply(to, kind, id, answer)

\* The question is invalid, or chat refuses it and its entry is removed again.
RelayFails(q) ==
    /\ q \in requests /\ q.kind # "catalog"
    /\ requests' = requests \ {q} /\ next_query' = next_query + 1
    /\ ReplyFailed(q.from, q.kind, q.id, Failed(q))
    /\ UNCHANGED <<posted, turn, call, relays, queries, answers>>

Forward(a) ==
    /\ a \in answers /\ answers' = answers \ {a}
    /\ LET at == {e \in relays : e.relay = a.relay /\ e.kind = a.answer.question.kind} IN
         /\ relays' = relays \ at
         /\ IF at = {} THEN UNCHANGED <<results, lost>>
            ELSE \E e \in at : Reply(e.to, e.kind, e.id, a.answer)
    /\ UNCHANGED <<posted, turn, call, requests, next_query, queries>>

----------------------------------------------------------------------------
(* chat's answers *)

MayAsk(q) ==
    /\ q.from \in MembersOf[q.room]
    /\ q.kind = "members" => Cardinality(MembersOf[q.room]) > 1

Found(q) ==
    {i \in 1..posted :
       /\ RoomOf[i] \in Readable(q.from, q.room)
       /\ q.all \/ RoomOf[i] = q.room
       /\ i <= q.through[RoomOf[i]]
       /\ q.before = None \/ i < q.before}

\* drain: the last messages, as many as the limit.
LastOf(ids, limit) == {i \in ids : Cardinality({j \in ids : j >= i}) <= limit}

\* Slip: the page before begins before the last message that was left out.
NextSkipping(ids, limit) ==
    IF Cardinality(ids) > limit THEN Max(ids \ LastOf(ids, limit)) ELSE None
NextBefore(ids, limit) ==
    IF Cardinality(ids) > limit THEN Min(LastOf(ids, limit)) ELSE None

AnswerTo(q) ==
    IF ~MayAsk(q) THEN Failed(q)
    ELSE IF q.kind = "members" THEN [Failed(q) EXCEPT !.ok = TRUE]
    ELSE [question |-> q, ok |-> TRUE, page |-> LastOf(Found(q), q.limit),
          next |-> NextBefore(Found(q), q.limit)]

\* The tools Resident may refuse the answer; its entry then stays.
Answer(m) ==
    /\ m \in queries /\ queries' = queries \ {m}
    /\ \/ /\ answers' = answers \cup {[relay |-> m.relay, answer |-> AnswerTo(m.question)]}
          /\ UNCHANGED lost
       \/ lost' = lost \cup {m.question.from} /\ UNCHANGED answers
    /\ UNCHANGED <<posted, turn, call, requests, next_query, relays, results>>

----------------------------------------------------------------------------
TakeRequest(q) == Catalog(q) \/ Relay(q) \/ RelayFails(q)

Next ==
    \/ Post
    \/ \E w \in Residents :
         \/ \E r \in Rooms, start \in 1..posted, all \in BOOLEAN, limit \in Limits :
              StartTurn(w, r, start, all, limit)
         \/ \E kind \in {"members", "context", "catalog"}, id \in CallIds : Ask(w, kind, id)
    \/ \E q \in requests : TakeRequest(q)
    \/ \E m \in queries : Answer(m)
    \/ \E a \in answers : Forward(a)
    \/ \E result \in results : Receive(result)

SafetySpec == Init /\ [][Next]_vars

\* The workers of tools and chat, and RTDF, take what is in their queues in turn.
Spec ==
    /\ SafetySpec
    /\ \A w \in Residents :
         /\ WF_vars(\E q \in requests : q.from = w /\ TakeRequest(q))
         /\ WF_vars(\E m \in queries : m.question.from = w /\ Answer(m))
         /\ WF_vars(\E a \in answers : a.answer.question.from = w /\ Forward(a))
         /\ WF_vars(\E result \in results : result.to = w /\ Receive(result))

----------------------------------------------------------------------------
TypeOK ==
    /\ posted \in 0..MaxMessages /\ next_query \in Nat
    /\ turn \in [Residents -> Turn \cup {None}]
    /\ call \in [Residents -> Question \cup {None}]
    /\ requests \subseteq Question
    /\ relays \subseteq [relay : Nat, kind : Kinds, to : Residents, id : CallIds]
    /\ queries \subseteq [relay : Nat, question : Question]
    /\ answers \subseteq [relay : Nat, answer : Response]
    /\ results \subseteq [to : Residents, kind : Kinds, id : CallIds, answer : Response]
    /\ lost \subseteq Residents

\* A call gets the answer to its own question, although both Residents may wait
\* under the same id, in the same room, and answers overtake each other.
AnswersOwnQuestion ==
    \A result \in results :
      LET q == call[result.to] IN
        q # None /\ q.id = result.id /\ q.kind = result.kind => result.answer.question = q

\* What a turn reads by its tool calls is part of the context it was given: not
\* a message of another room, of an incognito one, or one that was posted since,
\* as the answers of the others in its round.
ReadsWithinContext ==
    \A w \in Residents : turn[w] # None => turn[w].read \subseteq turn[w].context

\* A turn that follows next_before_message_id to the end has read every message
\* of its context in that scope once, while others are being posted.
PagesComplete ==
    \A w \in Residents : turn[w] # None =>
      /\ turn[w].count = Cardinality(turn[w].read)
      /\ turn[w].over =>
           turn[w].read = {i \in turn[w].context : turn[w].all \/ RoomOf[i] = turn[w].room}

\* A call returns unless an answer to its Resident was refused.
CallsReturn == \A w \in Residents : call[w] # None ~> call[w] = None \/ w \in lost
============================================================================
