----------------------------- MODULE ChatRounds -----------------------------
(***************************************************************************)
(* How ChatResident turns a user message into a round of model turns:       *)
(* send_user_message, run_turn, ask and the mailbox worker of               *)
(* residents/src/chat/mod.rs.  Every room has at most one run_turn task;    *)
(* a group round asks all addressed members at the same time, then lets     *)
(* members that are mentioned follow up one after another.  A member is     *)
(* asked by one room at a time, in the order its lock was requested.        *)
(*                                                                          *)
(* The rooms, their members and their mode are fixed here.  Any save may    *)
(* fail: only that of a user message changes what happens next, the others  *)
(* log the error and go on; ChatRooms has what is on disk.  RTDF is a send  *)
(* that either reaches the member's mailbox or fails.  The members are      *)
(* external: they answer requests late, twice, or with the id of a request  *)
(* that was somebody else's.  A text is a model value with the keys it      *)
(* mentions.                                                                *)
(***************************************************************************)
EXTENDS Naturals, Sequences, FiniteSets, SequencesExt

CONSTANTS
    Rooms, Members,
    MembersOf,       \* room -> its members
    Incognito,       \* the incognito rooms
    Texts,           \* what a member can answer
    MentionsOf,      \* text -> the keys it mentions, in order
    MentionsUser,    \* the texts that address the user
    FollowUpLimit,   \* MAX_MENTION_TURNS
    MaxUserMessages, \* bound: user messages in a behaviour
    MaxStrays,       \* bound: results that nobody asked for in a behaviour
    MaxInbox,        \* bound: results waiting in chat's mailbox, unbounded in the code
    None

ASSUME RoomsAssumption == /\ MembersOf \in [Rooms -> (SUBSET Members) \ {{}}]
                          /\ Incognito \subseteq Rooms
ASSUME TextsAssumption == /\ MentionsOf \in [Texts -> Seq(Members)]
                          /\ MentionsUser \subseteq Texts
ASSUME LimitAssumption == FollowUpLimit \in Nat /\ MaxStrays \in Nat

Roles == {"user", "agent", "summary", "error"}

Outcomes == Texts \cup {"failed"}  \* failed: not Completed, or an empty response

\* A message; answers is history: the request that it answers, and who did.
Messages == [id : Nat, role : Roles, author : Members \cup {None},
             answers : [request : Nat, source : Members \cup {None}]]

\* The run_turn task of a room: where it is, whom it asks first, the id of the
\* user's message, who of them has not answered, and the mentions to follow up.
Turns == [phase : {"start", "asking", "follow-ups", "follow-up"},
          members : SUBSET Members, start : Nat, remaining : SUBSET Members,
          mentions : Seq(Members \cup {None}), followUps : Nat]

\* The ask of one member, the result it got and whom from.
Asks == [stage : {"queued", "prepared", "awaiting", "done"},
         kind : {"direct", "contribution", "mention"}, request : Nat,
         context : SUBSET Nat, outcome : Outcomes \cup {None}, by : Members \cup {None}]

ASSUME NoneAssumption == None \notin Members \cup Outcomes \cup Turns \cup Asks

VARIABLES
    messages,    \* per room: ChatRoom.messages
    busy,        \* per room: ChatRoom.busy
    active,      \* per room: the members named by active_member
    nextMessage, \* next_message, one counter for all rooms
    nextRequest, \* next_request
    turn,        \* per room: the run_turn task, or None
    ask,         \* per room and member: the ask of that member, or None
    lineup,      \* per member: the rooms at its member_turns lock; the first holds it
    pending,     \* the requests in the pending map, with the expected source
    delivered,   \* requests that reached the mailbox of their member
    inbox,       \* results in chat's mailbox, in order
    strays       \* how many results nobody asked for

vars == <<messages, busy, active, nextMessage, nextRequest, turn, ask, lineup,
          pending, delivered, inbox, strays>>

mail == <<inbox, strays>>

IsGroup(r) == Cardinality(MembersOf[r]) > 1

Init ==
    /\ messages = [r \in Rooms |-> <<>>]
    /\ busy = [r \in Rooms |-> FALSE]
    /\ active = [r \in Rooms |-> {}]
    /\ nextMessage = 1
    /\ nextRequest = 1
    /\ turn = [r \in Rooms |-> None]
    /\ ask = [r \in Rooms |-> [m \in Members |-> None]]
    /\ lineup = [m \in Members |-> <<>>]
    /\ pending = {}
    /\ delivered = {}
    /\ inbox = <<>>
    /\ strays = 0

----------------------------------------------------------------------------
\* new_message and push, under the lock on rooms.
Nothing == [request |-> 0, source |-> None]

Push(r, role, author, answers) ==
    /\ messages' = [messages EXCEPT ![r] =
         Append(@, [id |-> nextMessage, role |-> role, author |-> author, answers |-> answers])]
    /\ nextMessage' = nextMessage + 1

UserMessages ==
    FoldSet(LAMBDA r, n : n + Len(SelectSeq(messages[r], LAMBDA x : x.role = "user")),
            0, Rooms)

\* run_turn is spawned for the members mentioned, or for all of them.
Spawn(r) ==
    \E addressed \in IF IsGroup(r) THEN (SUBSET MembersOf[r]) \ {{}} ELSE {MembersOf[r]} :
      turn' = [turn EXCEPT ![r] = [phase |-> "start", members |-> addressed,
                                   start |-> nextMessage, remaining |-> addressed,
                                   mentions |-> <<>>, followUps |-> 0]]

\* send_user_message_with_media: Busy is refused; otherwise the room becomes busy
\* and the message is pushed.  Then save_locked succeeds and a round begins, or it
\* fails and the room stays busy without one.
SendUserMessage(r) ==
    /\ UserMessages < MaxUserMessages
    /\ ~busy[r]
    /\ busy' = [busy EXCEPT ![r] = TRUE]
    /\ Push(r, "user", None, Nothing)
    /\ Spawn(r) \/ UNCHANGED turn
    /\ UNCHANGED <<active, nextRequest, ask, lineup, pending, delivered, mail>>

----------------------------------------------------------------------------
\* ask: request the member's lock.  tokio's Mutex is first come, first served.
NewAsk(kind) == [stage |-> "queued", kind |-> kind, request |-> 0,
                 context |-> {}, outcome |-> None, by |-> None]

\* Slip: the mode of the rooms does not matter.
VisibleEverywhere(r, m) == {q \in Rooms : m \in MembersOf[q]}

\* A room's message is part of what the member may read in a turn of room r.
Visible(r, m) ==
    {q \in Rooms : /\ m \in MembersOf[q]
                   /\ IF r \in Incognito THEN q = r ELSE q \notin Incognito}

\* The context of a turn: every visible room, except that a contribution does
\* not see what its own room received after the user message of the round.
\* Slip: it does.
ContextOfNow(r, m, kind, start) ==
    {x.id : x \in UNION {ToSet(messages[q]) : q \in Visible(r, m)}}

Context(r, m, kind, start) ==
    {x.id : x \in UNION {{y \in ToSet(messages[q]) :
                            q = r /\ kind = "contribution" => y.id <= start}
                         : q \in Visible(r, m)}}

\* The member's lock is held.  Slip: it lets two rooms in.
AdmittedBeside(r, m) == r \in ToSet(lineup[m])
Admitted(r, m) == lineup[m] # <<>> /\ Head(lineup[m]) = r

\* The lock is held: take the snapshot, reserve a request id, note it as pending.
Prepare(r, m) ==
    /\ ask[r][m] # None /\ ask[r][m].stage = "queued"
    /\ Admitted(r, m)
    /\ ask' = [ask EXCEPT ![r][m] =
                 [@ EXCEPT !.stage = "prepared",
                           !.request = nextRequest,
                           !.context = Context(r, m, ask[r][m].kind, turn[r].start)]]
    /\ nextRequest' = nextRequest + 1
    /\ pending' = pending \cup {[request |-> nextRequest, source |-> m]}
    /\ UNCHANGED <<messages, busy, active, nextMessage, turn, lineup, delivered, mail>>

\* Slip: the lock is not released.
ReturnHolding(r, m, outcome) ==
    /\ ask' = [ask EXCEPT ![r][m].stage = "done", ![r][m].outcome = outcome]
    /\ UNCHANGED lineup

\* The end of ask: its result is kept for run_turn and the lock is released.
Return(r, m, outcome) ==
    /\ ask' = [ask EXCEPT ![r][m].stage = "done", ![r][m].outcome = outcome]
    /\ lineup' = [lineup EXCEPT ![m] = Tail(@)]

\* RTDF delivered the request to the member's mailbox.
Dispatch(r, m) ==
    /\ ask[r][m] # None /\ ask[r][m].stage = "prepared"
    /\ ask' = [ask EXCEPT ![r][m].stage = "awaiting"]
    /\ delivered' = delivered \cup {[request |-> ask[r][m].request, source |-> m]}
    /\ UNCHANGED <<messages, busy, active, nextMessage, nextRequest, turn, lineup,
                   pending, mail>>

\* The pending map without request n.  Slip: it is left to the answer.
NotWithdrawn(n) == pending
Withdrawn(n) == {p \in pending : p.request # n}

\* RTDF failed: withdraw the pending entry and report the error.
DispatchFails(r, m) ==
    /\ ask[r][m] # None /\ ask[r][m].stage = "prepared"
    /\ pending' = Withdrawn(ask[r][m].request)
    /\ Return(r, m, "failed")
    /\ UNCHANGED <<messages, busy, active, nextMessage, nextRequest, turn, delivered,
                   mail>>

\* The oneshot, which may even be filled before send returned, has the result:
\* store the answer as a message, then return.
RoleOf(kind, text) ==
    IF kind # "direct" /\ text \in MentionsUser THEN "summary" ELSE "agent"

Complete(r, m) ==
    /\ ask[r][m] # None /\ ask[r][m].stage = "awaiting"
    /\ ask[r][m].outcome # None
    /\ IF ask[r][m].outcome = "failed"
         THEN UNCHANGED <<messages, nextMessage>>
         ELSE Push(r, RoleOf(ask[r][m].kind, ask[r][m].outcome), m,
                   [request |-> ask[r][m].request, source |-> ask[r][m].by])
    /\ Return(r, m, ask[r][m].outcome)
    /\ UNCHANGED <<busy, active, nextRequest, turn, pending, delivered, mail>>

----------------------------------------------------------------------------
\* A member (external) sends a turn result to chat's mailbox.
Result(m, n, outcome) ==
    /\ Len(inbox) < MaxInbox
    /\ inbox' = Append(inbox, [request |-> n, source |-> m, outcome |-> outcome])
    /\ UNCHANGED <<messages, busy, active, nextMessage, nextRequest, turn, ask, lineup,
                   pending, delivered>>

\* It answers a request of its mailbox that chat waits for.
Expected(m, n) ==
    /\ [request |-> n, source |-> m] \in delivered \cap pending
    /\ \A k \in DOMAIN inbox : inbox[k].request # n \/ inbox[k].source # m

Answer(m) ==
    /\ \E d \in delivered, outcome \in Outcomes :
         d.source = m /\ Expected(m, d.request) /\ Result(m, d.request, outcome)
    /\ UNCHANGED strays

\* It answers a second time, after the round, or under the id of a request that
\* it has not received or that is another member's.
Stray(m) ==
    /\ strays < MaxStrays
    /\ strays' = strays + 1
    /\ \E n \in 1..(nextRequest - 1), text \in Texts :
         ~Expected(m, n) /\ Result(m, n, text)

\* Slip: only the id is compared.
ResolvesById(result) == \E p \in pending : p.request = result.request
Resolves(result) == [request |-> result.request, source |-> result.source] \in pending

\* chat's worker handles the next result: only the expected source resolves a
\* pending request, once.
Worker ==
    /\ inbox # <<>>
    /\ inbox' = Tail(inbox)
    /\ LET result == Head(inbox)
       IN IF Resolves(result)
            THEN /\ pending' = {p \in pending : p.request # result.request}
                 /\ ask' = [r \in Rooms |-> [m \in Members |->
                      IF ask[r][m] # None /\ ask[r][m].request = result.request
                        THEN [ask[r][m] EXCEPT !.outcome = result.outcome, !.by = result.source]
                        ELSE ask[r][m]]]
            ELSE UNCHANGED <<pending, ask>>
    /\ UNCHANGED <<messages, busy, active, nextMessage, nextRequest, turn, lineup,
                   delivered, strays>>

----------------------------------------------------------------------------
\* run_turn: show who is being asked and start their asks, all at once.  The
\* order in which the spawned asks of one round reach their different locks does
\* not matter.
Begin(r) ==
    /\ turn[r] # None /\ turn[r].phase = "start"
    /\ turn' = [turn EXCEPT ![r].phase = "asking"]
    /\ active' = [active EXCEPT ![r] = turn[r].members]
    /\ ask' = [ask EXCEPT ![r] = [m \in Members |->
                 IF m \in turn[r].members
                   THEN NewAsk(IF IsGroup(r) THEN "contribution" ELSE "direct")
                   ELSE @[m]]]
    /\ lineup' = [m \in Members |-> IF m \in turn[r].members THEN Append(lineup[m], r)
                                    ELSE lineup[m]]
    /\ UNCHANGED <<messages, busy, nextMessage, nextRequest, pending, delivered, mail>>

\* enqueue_mentions: nobody if the text addresses the user, else every other
\* member it mentions, once, in order.  A key that is not queued leaves a gap.
Enqueue(queue, source, text, members) ==
    IF text \in MentionsUser THEN queue
    ELSE queue \o [k \in DOMAIN MentionsOf[text] |->
                     LET key == MentionsOf[text][k] IN
                       IF /\ key # source /\ key \in members
                          /\ \A j \in 1..(k - 1) : MentionsOf[text][j] # key
                         THEN key ELSE None]

Mentioned(queue) == {k \in DOMAIN queue : queue[k] # None}

\* JoinSet is empty.
JoinedAll(remaining) == remaining = {}

\* The limit of follow-ups is not reached.
MayFollowUp(n) == n < FollowUpLimit

\* An ask of the first wave is joined: an answer may call for follow-ups, an
\* error becomes a message.
Join(r, m) ==
    /\ turn[r] # None /\ turn[r].phase = "asking"
    /\ ask[r][m] # None /\ ask[r][m].stage = "done"
    /\ LET outcome == ask[r][m].outcome
           remaining == turn[r].remaining \ {m}
       IN /\ active' = [active EXCEPT ![r] = IF IsGroup(r) THEN remaining ELSE @]
          /\ turn' = [turn EXCEPT
               ![r].remaining = remaining,
               ![r].mentions = IF outcome # "failed" /\ IsGroup(r)
                                 THEN Enqueue(@, m, outcome, MembersOf[r]) ELSE @,
               ![r].phase = IF JoinedAll(remaining) THEN "follow-ups" ELSE @]
          /\ IF outcome = "failed" THEN Push(r, "error", None, Nothing)
             ELSE UNCHANGED <<messages, nextMessage>>
    /\ ask' = [ask EXCEPT ![r][m] = None]
    /\ UNCHANGED <<busy, nextRequest, lineup, pending, delivered, mail>>

\* The next mention, if the round still may: ask the mentioned member.
FollowUp(r) ==
    /\ turn[r] # None /\ turn[r].phase = "follow-ups"
    /\ MayFollowUp(turn[r].followUps)
    /\ \E k \in Mentioned(turn[r].mentions) :
         LET queue == turn[r].mentions
             target == queue[k] IN
           /\ \A j \in Mentioned(queue) : k <= j
           /\ turn' = [turn EXCEPT ![r].mentions = SubSeq(queue, k + 1, Len(queue)),
                                   ![r].followUps = @ + 1, ![r].phase = "follow-up"]
           /\ active' = [active EXCEPT ![r] = {target}]
           /\ ask' = [ask EXCEPT ![r][target] = NewAsk("mention")]
           /\ lineup' = [lineup EXCEPT ![target] = Append(@, r)]
    /\ UNCHANGED <<messages, busy, nextMessage, nextRequest, pending, delivered, mail>>

JoinFollowUp(r, m) ==
    /\ turn[r] # None /\ turn[r].phase = "follow-up"
    /\ ask[r][m] # None /\ ask[r][m].stage = "done"
    /\ LET outcome == ask[r][m].outcome
       IN IF outcome = "failed"
            THEN /\ Push(r, "error", None, Nothing)
                 /\ turn' = [turn EXCEPT ![r].phase = "follow-ups"]
            ELSE /\ turn' = [turn EXCEPT ![r].phase = "follow-ups",
                               ![r].mentions = Enqueue(@, m, outcome, MembersOf[r])]
                 /\ UNCHANGED <<messages, nextMessage>>
    /\ ask' = [ask EXCEPT ![r][m] = None]
    /\ UNCHANGED <<busy, active, nextRequest, lineup, pending, delivered, mail>>

\* The limit is reached with mentions left: say so and drop them.
CutOff(r) ==
    /\ turn[r] # None /\ turn[r].phase = "follow-ups"
    /\ Mentioned(turn[r].mentions) # {}
    /\ ~MayFollowUp(turn[r].followUps)
    /\ turn' = [turn EXCEPT ![r].mentions = <<>>]
    /\ Push(r, "error", None, Nothing)
    /\ UNCHANGED <<busy, active, nextRequest, ask, lineup, pending, delivered, mail>>

\* finish: the room accepts the next user message.
Finish(r) ==
    /\ turn[r] # None /\ turn[r].phase = "follow-ups"
    /\ Mentioned(turn[r].mentions) = {}
    /\ busy' = [busy EXCEPT ![r] = FALSE]
    /\ active' = [active EXCEPT ![r] = {}]
    /\ turn' = [turn EXCEPT ![r] = None]
    /\ UNCHANGED <<messages, nextMessage, nextRequest, ask, lineup, pending, delivered,
                   mail>>

RunTurn(r) ==
    \/ Begin(r) \/ FollowUp(r) \/ CutOff(r) \/ Finish(r)
    \/ \E m \in Members : Join(r, m) \/ JoinFollowUp(r, m)

Ask(r, m) == Prepare(r, m) \/ Dispatch(r, m) \/ DispatchFails(r, m) \/ Complete(r, m)

Next ==
    \/ \E r \in Rooms : SendUserMessage(r) \/ RunTurn(r)
    \/ \E r \in Rooms, m \in Members : Ask(r, m)
    \/ \E m \in Members : Answer(m) \/ Stray(m)
    \/ Worker

SafetySpec == Init /\ [][Next]_vars

\* Tokio polls the tasks of chat.  That members answer is an assumption: ask has
\* no timeout.  It is strong only because of MaxInbox: chat's real mailbox never
\* refuses an answer.
Spec ==
    /\ SafetySpec
    /\ WF_vars(Worker)
    /\ \A r \in Rooms : WF_vars(RunTurn(r))
    /\ \A r \in Rooms, m \in Members : WF_vars(Ask(r, m))
    /\ \A m \in Members : SF_vars(Answer(m))

----------------------------------------------------------------------------
TypeOK ==
    /\ messages \in [Rooms -> Seq(Messages)]
    /\ busy \in [Rooms -> BOOLEAN]
    /\ active \in [Rooms -> SUBSET Members]
    /\ nextMessage \in Nat \ {0}
    /\ nextRequest \in Nat \ {0}
    /\ turn \in [Rooms -> Turns \cup {None}]
    /\ ask \in [Rooms -> [Members -> Asks \cup {None}]]
    /\ lineup \in [Members -> Seq(Rooms)]
    /\ pending \in SUBSET [request : Nat, source : Members]
    /\ delivered \in SUBSET [request : Nat, source : Members]
    /\ inbox \in Seq([request : Nat, source : Members, outcome : Outcomes])
    /\ strays \in 0..MaxStrays

Asking(r, m) == ask[r][m] # None

Out(r, m) == Asking(r, m) /\ ask[r][m].stage \in {"prepared", "awaiting"}

\* "One Resident processes its conversations in a single order": while a member
\* works on a turn, the context it was given holds everything it said before in
\* the rooms that turn may see, the answers of other rooms' rounds included.
ContextHasOwnAnswers ==
    \A r \in Rooms, m \in Members : Out(r, m) =>
      \A q \in Visible(r, m) : \A n \in DOMAIN messages[q] :
        messages[q][n].author = m => messages[q][n].id \in ask[r][m].context

\* The members of the first wave answer independently: no answer of the round,
\* and no error, is in the context of a contribution, however late its turn of
\* the member's lock comes.
ContributionsIndependent ==
    \A r \in Rooms, m \in Members :
      Out(r, m) /\ ask[r][m].kind = "contribution" =>
        \A n \in DOMAIN messages[r] :
          messages[r][n].id > turn[r].start => messages[r][n].id \notin ask[r][m].context

\* A turn never carries messages over the border of an incognito room.
IncognitoKept ==
    \A r, q \in Rooms, m \in Members :
      Out(r, m) /\ q # r /\ (r \in Incognito \/ q \in Incognito) =>
        \A n \in DOMAIN messages[q] : messages[q][n].id \notin ask[r][m].context

\* Every answer in a room was given by its author to a request of its own, and
\* no result is used twice: not when it is repeated, comes after the round, or
\* bears the id of another member's request.
AnswersCorrelated ==
    \A r \in Rooms : \A n \in DOMAIN messages[r] :
      LET x == messages[r][n]
      IN x.role \in {"agent", "summary"} =>
           /\ x.author \in MembersOf[r]
           /\ x.answers.source = x.author
           /\ x.answers \in delivered
           /\ \A q \in Rooms : \A k \in DOMAIN messages[q] :
                messages[q][k].answers = x.answers => q = r /\ k = n

\* The pending map holds the requests that wait for their result and nothing
\* else: a send that failed, or a round that ended, leaves no entry behind.  A
\* room that accepts the next message has no round, and a room without one, also
\* one that stays busy because its save failed, has no active member, no ask and
\* no place at a member's lock.
PendingExact ==
    /\ pending = UNION {{[request |-> ask[r][m].request, source |-> m] : r \in
                          {q \in Rooms : Out(q, m) /\ ask[q][m].outcome = None}}
                       : m \in Members}
    /\ \A r \in Rooms :
         /\ ~busy[r] => turn[r] = None
         /\ turn[r] = None =>
              active[r] = {} /\ \A m \in Members : ~Asking(r, m) /\ r \notin ToSet(lineup[m])

\* Every round that was spawned ends and its room accepts messages again, if
\* members answer: a room that stays busy because its own save failed, which has
\* no round, never holds up those that share its members.
RoundsEnd == \A r \in Rooms : turn[r] # None ~> ~busy[r]
============================================================================
