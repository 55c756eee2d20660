--------------------------- MODULE ChatRoundsProofs ---------------------------
(***************************************************************************)
(* Rounds of chat, for any rooms, members and texts and any number of       *)
(* messages, follow-ups and stray results: what a request may read, whose   *)
(* answer becomes a message, and what a round leaves behind.                *)
(***************************************************************************)
EXTENDS ChatRounds, SequenceTheorems, TLAPS

USE RoomsAssumption, TextsAssumption, LimitAssumption, NoneAssumption

\* A room is busy while it has a task, which only knows its members.  It may be busy
\* without one: the save of its user message failed.
TurnExact(r) ==
    /\ turn[r] # None => busy[r]
    /\ turn[r] = None => active[r] = {}
    /\ turn[r] # None =>
         /\ turn[r].members \subseteq MembersOf[r] /\ turn[r].remaining \subseteq MembersOf[r]
         /\ turn[r].mentions \in Seq(MembersOf[r] \cup {None})
         /\ turn[r].phase = "start" => turn[r].remaining = turn[r].members

\* Members are asked in the two phases in which the task waits for them.
AskExact(r, m) ==
    Asking(r, m) =>
      /\ m \in MembersOf[r] /\ turn[r] # None
      /\ \/ turn[r].phase = "asking" /\ m \in turn[r].remaining
         \/ turn[r].phase = "follow-up" /\ \A n \in Members : Asking(r, n) => n = m

TurnsExact == \A r \in Rooms : TurnExact(r)
AsksExact == \A r \in Rooms, m \in Members : AskExact(r, m)

In(r, m) == Asking(r, m) /\ ask[r][m].stage # "done"

\* A room is in the line for the lock of a member whom it asks, once, and a request
\* is only out for the first of the line.
LineupExact ==
    \A m \in Members :
      /\ \A r \in Rooms : In(r, m) <=> \E k \in DOMAIN lineup[m] : lineup[m][k] = r
      /\ \A i, j \in DOMAIN lineup[m] : lineup[m][i] = lineup[m][j] => i = j
      /\ \A r \in Rooms : Out(r, m) => lineup[m] # <<>> /\ lineup[m][1] = r

\* An ask has a request from Prepare on, its result is its member's, and two asks
\* never have the same request.
RequestExact(r, m) ==
    Asking(r, m) =>
      /\ ask[r][m].stage = "queued" => ask[r][m].request = 0 /\ ask[r][m].outcome = None
      /\ ask[r][m].stage # "queued" => ask[r][m].request \in 1..(nextRequest - 1)
      /\ ask[r][m].stage = "done" => ask[r][m].outcome \in Outcomes
      /\ ask[r][m].stage = "awaiting" => [request |-> ask[r][m].request, source |-> m] \in delivered
      /\ Out(r, m) /\ ask[r][m].outcome # None => ask[r][m].by = m

RequestsApart ==
    \A r, q \in Rooms, m, n \in Members :
      /\ Asking(r, m) /\ ask[r][m].stage # "queued"
      /\ Asking(q, n) /\ ask[q][n].stage # "queued"
      /\ ask[r][m].request = ask[q][n].request
      => r = q /\ m = n

RequestsExact == RequestsApart /\ \A r \in Rooms, m \in Members : RequestExact(r, m)

Waits(r, m, n) == Out(r, m) /\ ask[r][m].outcome = None /\ ask[r][m].request = n

PendingAsked ==
    \A p \in [request : Nat, source : Members] :
      p \in pending <=> \E r \in Rooms : Waits(r, p.source, p.request)

\* Ids of messages are new, and an answer is the only one to its request.
Answered(r, x) ==
    /\ x.author \in MembersOf[r] /\ x.answers.source = x.author
    /\ x.answers \in delivered /\ x.answers.request \in 1..(nextRequest - 1)
    /\ \A q \in Rooms, m \in Members : Out(q, m) => ask[q][m].request # x.answers.request

MessageExact(r, k) ==
    LET x == messages[r][k] IN
      /\ x.id < nextMessage
      /\ x.author = None => x.answers = Nothing /\ x.role \notin {"agent", "summary"}
      /\ x.author # None => Answered(r, x)
      /\ \A q \in Rooms : \A j \in DOMAIN messages[q] :
           \/ messages[q][j].id = x.id
           \/ x.author # None /\ messages[q][j].answers = x.answers
           => q = r /\ j = k

MessagesExact == \A r \in Rooms : \A k \in DOMAIN messages[r] : MessageExact(r, k)

\* The context of a request: of what is in the rooms now, nothing it must not see,
\* and all that its member said.
ContextExact(r, m) ==
    Out(r, m) =>
      /\ \A i \in ask[r][m].context : i < nextMessage
      /\ \A q \in Rooms : \A k \in DOMAIN messages[q] :
           LET x == messages[q][k] IN
             /\ x.id \in ask[r][m].context =>
                  q \in Visible(r, m) /\ (q = r /\ ask[r][m].kind = "contribution" => x.id <= turn[r].start)
             /\ x.author = m /\ q \in Visible(r, m) => x.id \in ask[r][m].context

\* A contribution is its member's first word in the round.
FirstWord(r, m) ==
    In(r, m) /\ ask[r][m].kind = "contribution" =>
      \A k \in DOMAIN messages[r] : messages[r][k].author = m => messages[r][k].id <= turn[r].start

StartLast(r) ==
    turn[r] # None /\ turn[r].phase = "start" =>
      \A k \in DOMAIN messages[r] : messages[r][k].id <= turn[r].start

ContextsExact == \A r \in Rooms :
    StartLast(r) /\ \A m \in Members : ContextExact(r, m) /\ FirstWord(r, m)

Inv == TypeOK /\ TurnsExact /\ AsksExact /\ LineupExact /\ RequestsExact /\ PendingAsked
       /\ MessagesExact /\ ContextsExact

----------------------------------------------------------------------------
(* Types *)

Requests == [request : Nat, source : Members]
Results == [request : Nat, source : Members, outcome : Outcomes]

\* Mentions are of members of the room.
LEMMA EnqueueTyped ==
    ASSUME NEW r \in Rooms, NEW text \in Texts, NEW source,
           NEW queue \in Seq(MembersOf[r] \cup {None})
    PROVE  Enqueue(queue, source, text, MembersOf[r]) \in Seq(MembersOf[r] \cup {None})
<1> DEFINE called == [k \in DOMAIN MentionsOf[text] |->
                     LET key == MentionsOf[text][k] IN
                       IF /\ key # source /\ key \in MembersOf[r]
                          /\ \A j \in 1..(k - 1) : MentionsOf[text][j] # key
                         THEN key ELSE None]
<1>1. Len(MentionsOf[text]) \in Nat /\ DOMAIN MentionsOf[text] = 1..Len(MentionsOf[text])
  <2>1. MentionsOf[text] \in Seq(Members)
    OBVIOUS
  <2> QED  BY <2>1
<1>2. called \in [1..Len(MentionsOf[text]) -> MembersOf[r] \cup {None}]
  BY <1>1
<1>3. called \in Seq(MembersOf[r] \cup {None})
  BY <1>1, <1>2, SeqDef
<1>4. Enqueue(queue, source, text, MembersOf[r]) \in {queue, queue \o called}
  BY DEF Enqueue
<1> HIDE DEF called
<1>5. queue \o called \in Seq(MembersOf[r] \cup {None})
  BY <1>3
<1> QED  BY <1>4, <1>5

LEMMA MentionsTyped == \A r \in Rooms : Seq(MembersOf[r] \cup {None}) \subseteq Seq(Members \cup {None})
<1> SUFFICES ASSUME NEW r \in Rooms, NEW s \in Seq(MembersOf[r] \cup {None}) PROVE s \in Seq(Members \cup {None})
  OBVIOUS
<1>1. MembersOf[r] \cup {None} \subseteq Members \cup {None}
  OBVIOUS
<1> QED  BY <1>1, SeqMonotonic

\* The message that Push adds.
LEMMA Pushed ==
    ASSUME TypeOK, NEW r \in Rooms, NEW role \in Roles, NEW author \in Members \cup {None},
           NEW answers \in [request : Nat, source : Members \cup {None}],
           Push(r, role, author, answers)
    PROVE  /\ messages' \in [Rooms -> Seq(Messages)] /\ nextMessage' \in Nat \ {0}
           /\ nextMessage' = nextMessage + 1
           /\ \A q \in Rooms : q # r => messages'[q] = messages[q]
           /\ \A k \in DOMAIN messages[r] : k \in DOMAIN messages'[r] /\ messages'[r][k] = messages[r][k]
           /\ \A k \in DOMAIN messages'[r] :
                \/ k \in DOMAIN messages[r]
                \/ /\ k \notin DOMAIN messages[r] /\ k = Len(messages[r]) + 1
                   /\ messages'[r][k] = [id |-> nextMessage, role |-> role, author |-> author, answers |-> answers]
<1>1. PICK x : x = [id |-> nextMessage, role |-> role, author |-> author, answers |-> answers]
  OBVIOUS
<1>2. x \in Messages
  BY <1>1 DEF TypeOK, Messages
<1>3. messages[r] \in Seq(Messages) /\ messages'[r] = Append(messages[r], x)
  BY <1>1 DEF TypeOK, Push
<1>4. messages' \in [Rooms -> Seq(Messages)]
  BY <1>1, <1>2 DEF TypeOK, Push
<1>5. /\ Len(Append(messages[r], x)) = Len(messages[r]) + 1 /\ Len(messages[r]) \in Nat
      /\ Append(messages[r], x)[Len(messages[r]) + 1] = x
      /\ \A k \in 1..Len(messages[r]) : Append(messages[r], x)[k] = messages[r][k]
      /\ DOMAIN messages[r] = 1..Len(messages[r])
      /\ DOMAIN Append(messages[r], x) = 1..(Len(messages[r]) + 1)
  BY <1>2, <1>3
<1>6. nextMessage' = nextMessage + 1 /\ \A q \in Rooms : q # r => messages'[q] = messages[q]
  BY DEF Push, TypeOK
<1>7. nextMessage' \in Nat \ {0}
  BY <1>6 DEF TypeOK
<1>8. \A k \in DOMAIN messages[r] : k \in DOMAIN messages'[r] /\ messages'[r][k] = messages[r][k]
  BY <1>3, <1>5
<1>9. \A k \in DOMAIN messages'[r] :
        \/ k \in DOMAIN messages[r]
        \/ k \notin DOMAIN messages[r] /\ k = Len(messages[r]) + 1 /\ messages'[r][k] = x
  BY <1>3, <1>5
<1> QED  BY <1>1, <1>4, <1>6, <1>7, <1>8, <1>9

LEMMA NothingTyped == Nothing \in [request : Nat, source : Members \cup {None}]
BY DEF Nothing

\* The rest of a line.
LEMMA TailTyped ==
    ASSUME NEW S, NEW s \in Seq(S)
    PROVE  Tail(s) \in Seq(S) \/ s = <<>>
BY HeadTailProperties

LEMMA NewAskTyped == \A kind \in {"direct", "contribution", "mention"} : NewAsk(kind) \in Asks
BY DEF NewAsk, Asks

LEMMA ContextTyped ==
    ASSUME TypeOK, NEW r \in Rooms, NEW m \in Members, NEW kind, NEW start
    PROVE  Context(r, m, kind, start) \in SUBSET Nat
<1>1. \A q \in Rooms : \A x \in ToSet(messages[q]) : x.id \in Nat
  <2> SUFFICES ASSUME NEW q \in Rooms, NEW x \in ToSet(messages[q]) PROVE x.id \in Nat
    OBVIOUS
  <2>1. messages[q] \in Seq(Messages)
    BY DEF TypeOK
  <2>2. x \in Messages
    BY <2>1 DEF ToSet
  <2> QED  BY <2>2 DEF Messages
<1>2. Visible(r, m) \subseteq Rooms
  BY DEF Visible
<1> QED  BY <1>1, <1>2 DEF Context

\* The result of an ask that is over, and its line.
LEMMA ReturnTyped ==
    ASSUME Inv, NEW r \in Rooms, NEW m \in Members, Out(r, m), NEW outcome \in Outcomes,
           Return(r, m, outcome)
    PROVE  /\ ask' \in [Rooms -> [Members -> Asks \cup {None}]]
           /\ lineup' \in [Members -> Seq(Rooms)]
<1>1. ask[r][m] \in Asks
  BY DEF Inv, TypeOK, Out, Asking
<1>2. PICK a : a = [ask[r][m] EXCEPT !.stage = "done", !.outcome = outcome]
  OBVIOUS
<1>3. a \in Asks
  BY <1>1, <1>2 DEF Asks
<1>4. ask' = [ask EXCEPT ![r][m] = a]
  BY <1>2 DEF Return
<1>5. ask' \in [Rooms -> [Members -> Asks \cup {None}]]
  BY <1>3, <1>4 DEF Inv, TypeOK
<1>6. lineup[m] \in Seq(Rooms) /\ lineup[m] # <<>>
  BY DEF Inv, TypeOK, LineupExact
<1>7. Tail(lineup[m]) \in Seq(Rooms)
  BY <1>6
<1> QED  BY <1>5, <1>7 DEF Return, Inv, TypeOK

LEMMA TypeStep == Inv /\ [Next]_vars => TypeOK'
<1> SUFFICES ASSUME Inv, [Next]_vars PROVE TypeOK'
  OBVIOUS
<1>0. TypeOK
  BY DEF Inv
<1> USE DEF mail
<1>1. ASSUME NEW r \in Rooms, SendUserMessage(r) PROVE TypeOK'
  <2>1. Push(r, "user", None, Nothing)
    BY <1>1 DEF SendUserMessage
  <2>2. messages' \in [Rooms -> Seq(Messages)] /\ nextMessage' \in Nat \ {0}
    BY <1>0, <2>1, Pushed, NothingTyped DEF Roles
  <2>3. ASSUME Spawn(r) PROVE turn' \in [Rooms -> Turns \cup {None}]
    <3>1. PICK addressed \in SUBSET MembersOf[r] :
            turn' = [turn EXCEPT ![r] = [phase |-> "start", members |-> addressed,
                                      start |-> nextMessage, remaining |-> addressed,
                                      mentions |-> <<>>, followUps |-> 0]]
      BY <2>3 DEF Spawn
    <3>2. <<>> \in Seq(Members \cup {None})
      OBVIOUS
    <3>3. [phase |-> "start", members |-> addressed, start |-> nextMessage, remaining |-> addressed,
           mentions |-> <<>>, followUps |-> 0] \in Turns
      BY <1>0, <3>2 DEF Turns, TypeOK
    <3> QED  BY <1>0, <3>1, <3>3 DEF TypeOK
  <2> QED  BY <1>0, <1>1, <2>2, <2>3 DEF SendUserMessage, TypeOK
<1>2. ASSUME NEW r \in Rooms, Begin(r) PROVE TypeOK'
  <2>1. turn[r] \in Turns /\ turn[r].members \subseteq Members
    BY <1>0, <1>2 DEF Begin, TypeOK, Turns
  <2>2. turn' \in [Rooms -> Turns \cup {None}]
    <3>1. [turn[r] EXCEPT !.phase = "asking"] \in Turns
      BY <2>1 DEF Turns
    <3> QED  BY <1>0, <1>2, <3>1 DEF Begin, TypeOK
  <2>3. active' \in [Rooms -> SUBSET Members]
    BY <1>0, <1>2, <2>1 DEF Begin, TypeOK
  <2>4. ask' \in [Rooms -> [Members -> Asks \cup {None}]]
    <3>1. PICK a : a = NewAsk(IF IsGroup(r) THEN "contribution" ELSE "direct")
      OBVIOUS
    <3>2. a \in Asks
      BY <3>1, NewAskTyped
    <3>3. ask' = [ask EXCEPT ![r] = [m \in Members |-> IF m \in turn[r].members THEN a ELSE ask[r][m]]]
      BY <1>2, <3>1 DEF Begin
    <3>4. [m \in Members |-> IF m \in turn[r].members THEN a ELSE ask[r][m]] \in [Members -> Asks \cup {None}]
      BY <1>0, <3>2 DEF TypeOK
    <3> QED  BY <1>0, <3>3, <3>4 DEF TypeOK
  <2>5. lineup' \in [Members -> Seq(Rooms)]
    <3>1. \A m \in Members : lineup[m] \in Seq(Rooms) /\ Append(lineup[m], r) \in Seq(Rooms)
      BY <1>0 DEF TypeOK
    <3> QED  BY <1>2, <3>1 DEF Begin
  <2> QED  BY <1>0, <1>2, <2>2, <2>3, <2>4, <2>5 DEF Begin, TypeOK
<1>3. ASSUME NEW r \in Rooms, FollowUp(r) PROVE TypeOK'
  <2>1. turn[r] \in Turns /\ turn[r].mentions \in Seq(MembersOf[r] \cup {None}) /\ turn[r].mentions \in Seq(Members \cup {None})
    <3>1. turn[r] # None
      BY <1>3 DEF FollowUp
    <3>2. turn[r] \in Turns
      BY <1>0, <3>1 DEF TypeOK
    <3>3. TurnExact(r)
      BY DEF Inv, TurnsExact
    <3>4. turn[r].mentions \in Seq(MembersOf[r] \cup {None})
      BY <3>1, <3>3 DEF TurnExact
    <3> QED  BY <3>2, <3>4, MentionsTyped
  <2>2. PICK queue : queue = turn[r].mentions
    OBVIOUS
  <2>3. PICK k \in DOMAIN queue :
          /\ queue[k] # None
          /\ turn' = [turn EXCEPT ![r].mentions = SubSeq(queue, k + 1, Len(queue)),
                                   ![r].followUps = @ + 1, ![r].phase = "follow-up"]
          /\ active' = [active EXCEPT ![r] = {queue[k]}]
          /\ ask' = [ask EXCEPT ![r][queue[k]] = NewAsk("mention")]
          /\ lineup' = [lineup EXCEPT ![queue[k]] = Append(@, r)]
    BY <1>3, <2>2 DEF FollowUp, Mentioned
  <2>4. queue[k] \in Members
    BY <2>1, <2>2, <2>3
  <2>5. turn' \in [Rooms -> Turns \cup {None}]
    <3>1. /\ DOMAIN queue = 1..Len(queue) /\ Len(queue) \in Nat
          /\ \A i \in 1..Len(queue) : queue[i] \in Members \cup {None}
      BY <2>1, <2>2
    <3>2. PICK rest : rest = SubSeq(queue, k + 1, Len(queue))
      OBVIOUS
    <3>3. \A i \in (k + 1)..Len(queue) : queue[i] \in Members \cup {None}
      BY <2>3, <3>1
    <3>4. rest \in Seq(Members \cup {None})
      <4>1. k + 1 \in Int /\ Len(queue) \in Int
        BY <2>3, <3>1
      <4>2. SubSeq(queue, k + 1, Len(queue)) \in Seq(Members \cup {None})
        BY <3>3, <4>1, SubSeqProperties
      <4> QED  BY <3>2, <4>2
    <3>5. [turn[r] EXCEPT !.mentions = rest, !.followUps = @ + 1, !.phase = "follow-up"] \in Turns
      <4>1. turn[r].followUps \in Nat
        BY <2>1 DEF Turns
      <4>2. PICK n \in Nat : n = turn[r].followUps + 1
        BY <4>1
      <4>3. [turn[r] EXCEPT !.mentions = rest, !.followUps = n, !.phase = "follow-up"] \in Turns
        BY <2>1, <3>4 DEF Turns
      <4> QED  BY <4>2, <4>3
    <3>6. turn' = [turn EXCEPT ![r] = [turn[r] EXCEPT !.mentions = rest, !.followUps = @ + 1, !.phase = "follow-up"]]
      BY <2>3, <3>2
    <3> QED  BY <1>0, <3>5, <3>6 DEF TypeOK
  <2>6. ask' \in [Rooms -> [Members -> Asks \cup {None}]]
    <3>1. NewAsk("mention") \in Asks
      BY NewAskTyped
    <3> QED  BY <1>0, <2>3, <2>4, <3>1 DEF TypeOK
  <2>7. lineup' \in [Members -> Seq(Rooms)] /\ active' \in [Rooms -> SUBSET Members]
    BY <1>0, <2>3, <2>4 DEF TypeOK
  <2> QED  BY <1>0, <1>3, <2>5, <2>6, <2>7 DEF FollowUp, TypeOK
<1>4. ASSUME NEW r \in Rooms, CutOff(r) PROVE TypeOK'
  <2>1. messages' \in [Rooms -> Seq(Messages)] /\ nextMessage' \in Nat \ {0}
    BY <1>0, <1>4, Pushed, NothingTyped DEF CutOff, Roles
  <2>2. turn[r] \in Turns
    BY <1>0, <1>4 DEF CutOff, TypeOK
  <2>3. <<>> \in Seq(Members \cup {None})
    OBVIOUS
  <2>4. turn' \in [Rooms -> Turns \cup {None}]
    <3>1. [turn[r] EXCEPT !.mentions = <<>>] \in Turns
      BY <2>2, <2>3 DEF Turns
    <3> QED  BY <1>0, <1>4, <3>1 DEF CutOff, TypeOK
  <2> QED  BY <1>0, <1>4, <2>1, <2>4 DEF CutOff, TypeOK
<1>5. ASSUME NEW r \in Rooms, Finish(r) PROVE TypeOK'
  BY <1>0, <1>5 DEF Finish, TypeOK
<1>6. ASSUME NEW r \in Rooms, NEW m \in Members, Join(r, m) PROVE TypeOK'
  <2>1. turn[r] \in Turns /\ turn[r].mentions \in Seq(MembersOf[r] \cup {None}) /\ ask[r][m] \in Asks
    <3>1. turn[r] # None /\ ask[r][m] # None
      BY <1>6 DEF Join
    <3>2. turn[r] \in Turns /\ ask[r][m] \in Asks
      BY <1>0, <3>1 DEF TypeOK
    <3> QED  BY <3>1, <3>2 DEF TurnsExact, TurnExact, Inv
  <2>2. PICK outcome, remaining, queue, phase :
          /\ outcome = ask[r][m].outcome /\ remaining = turn[r].remaining \ {m}
          /\ queue = IF outcome # "failed" /\ IsGroup(r)
                       THEN Enqueue(turn[r].mentions, m, outcome, MembersOf[r]) ELSE turn[r].mentions
          /\ phase = IF JoinedAll(remaining) THEN "follow-ups" ELSE turn[r].phase
    OBVIOUS
  <2>3. turn' = [turn EXCEPT ![r] = [turn[r] EXCEPT !.remaining = remaining, !.mentions = queue, !.phase = phase]]
    BY <1>6, <2>2 DEF Join
  <2>4. outcome \in Outcomes
    BY <1>6, <2>2 DEF Join, Inv, RequestsExact, RequestExact, RequestsApart, Asking
  <2>5. queue \in Seq(Members \cup {None})
    BY <2>1, <2>2, <2>4, EnqueueTyped, MentionsTyped DEF Outcomes
  <2>6. turn' \in [Rooms -> Turns \cup {None}]
    <3>1. [turn[r] EXCEPT !.remaining = remaining, !.mentions = queue, !.phase = phase] \in Turns
      BY <2>1, <2>2, <2>5 DEF Turns
    <3> QED  BY <1>0, <2>3, <3>1 DEF TypeOK
  <2>7. messages' \in [Rooms -> Seq(Messages)] /\ nextMessage' \in Nat \ {0}
    BY <1>0, <1>6, Pushed, NothingTyped DEF Join, Roles, TypeOK
  <2>8. active' \in [Rooms -> SUBSET Members] /\ ask' \in [Rooms -> [Members -> Asks \cup {None}]]
    BY <1>0, <1>6, <2>1 DEF Join, TypeOK, Turns
  <2> QED  BY <1>0, <1>6, <2>6, <2>7, <2>8 DEF Join, TypeOK
<1>7. ASSUME NEW r \in Rooms, NEW m \in Members, JoinFollowUp(r, m) PROVE TypeOK'
  <2>1. turn[r] \in Turns /\ turn[r].mentions \in Seq(MembersOf[r] \cup {None}) /\ ask[r][m] \in Asks
    <3>1. turn[r] # None /\ ask[r][m] # None
      BY <1>7 DEF JoinFollowUp
    <3>2. turn[r] \in Turns /\ ask[r][m] \in Asks
      BY <1>0, <3>1 DEF TypeOK
    <3> QED  BY <3>1, <3>2 DEF TurnsExact, TurnExact, Inv
  <2>2. PICK outcome, queue :
          /\ outcome = ask[r][m].outcome
          /\ queue = IF outcome # "failed" THEN Enqueue(turn[r].mentions, m, outcome, MembersOf[r]) ELSE turn[r].mentions
    OBVIOUS
  <2>3. \/ turn' = [turn EXCEPT ![r] = [turn[r] EXCEPT !.phase = "follow-ups"]]
        \/ turn' = [turn EXCEPT ![r] = [turn[r] EXCEPT !.phase = "follow-ups", !.mentions = queue]]
    BY <1>7, <2>2 DEF JoinFollowUp
  <2>4. outcome \in Outcomes
    BY <1>7, <2>2 DEF JoinFollowUp, Inv, RequestsExact, RequestExact, RequestsApart, Asking
  <2>5. queue \in Seq(Members \cup {None})
    BY <2>1, <2>2, <2>4, EnqueueTyped, MentionsTyped DEF Outcomes
  <2>6. turn' \in [Rooms -> Turns \cup {None}]
    <3>1. /\ [turn[r] EXCEPT !.phase = "follow-ups"] \in Turns
          /\ [turn[r] EXCEPT !.phase = "follow-ups", !.mentions = queue] \in Turns
      BY <2>1, <2>5 DEF Turns
    <3> QED  BY <1>0, <2>3, <3>1 DEF TypeOK
  <2>7. messages' \in [Rooms -> Seq(Messages)] /\ nextMessage' \in Nat \ {0}
    BY <1>0, <1>7, Pushed, NothingTyped DEF JoinFollowUp, Roles, TypeOK
  <2>8. ask' \in [Rooms -> [Members -> Asks \cup {None}]]
    BY <1>0, <1>7 DEF JoinFollowUp, TypeOK
  <2> QED  BY <1>0, <1>7, <2>6, <2>7, <2>8 DEF JoinFollowUp, TypeOK
<1>8. ASSUME NEW r \in Rooms, NEW m \in Members, Prepare(r, m) PROVE TypeOK'
  <2>1. ask[r][m] \in Asks
    BY <1>0, <1>8 DEF Prepare, TypeOK
  <2>2. PICK context : context = Context(r, m, ask[r][m].kind, turn[r].start)
    OBVIOUS
  <2>3. context \in SUBSET Nat
    BY <1>0, <2>2, ContextTyped
  <2>4. [ask[r][m] EXCEPT !.stage = "prepared", !.request = nextRequest, !.context = context] \in Asks
    BY <1>0, <2>1, <2>3 DEF Asks, TypeOK
  <2>5. ask' = [ask EXCEPT ![r][m] = [ask[r][m] EXCEPT !.stage = "prepared", !.request = nextRequest, !.context = context]]
    BY <1>8, <2>2 DEF Prepare
  <2>6. ask' \in [Rooms -> [Members -> Asks \cup {None}]]
    BY <1>0, <2>4, <2>5 DEF TypeOK
  <2> QED  BY <1>0, <1>8, <2>6 DEF Prepare, TypeOK
<1>9. ASSUME NEW r \in Rooms, NEW m \in Members, Dispatch(r, m) PROVE TypeOK'
  <2>1. ask[r][m] \in Asks
    BY <1>0, <1>9 DEF Dispatch, TypeOK
  <2>2. [ask[r][m] EXCEPT !.stage = "awaiting"] \in Asks /\ ask[r][m].request \in Nat
    BY <2>1 DEF Asks
  <2>3. ask' \in [Rooms -> [Members -> Asks \cup {None}]]
    BY <1>0, <1>9, <2>2 DEF Dispatch, TypeOK
  <2> QED  BY <1>0, <1>9, <2>2, <2>3 DEF Dispatch, TypeOK
<1>10. ASSUME NEW r \in Rooms, NEW m \in Members, DispatchFails(r, m) PROVE TypeOK'
  <2>1. /\ ask' \in [Rooms -> [Members -> Asks \cup {None}]]
        /\ lineup' \in [Members -> Seq(Rooms)]
    BY <1>10, ReturnTyped DEF DispatchFails, Out, Asking, Outcomes
  <2> QED  BY <1>0, <1>10, <2>1 DEF DispatchFails, TypeOK, Withdrawn
<1>11. ASSUME NEW r \in Rooms, NEW m \in Members, Complete(r, m) PROVE TypeOK'
  <2>1. ask[r][m] \in Asks
    BY <1>0, <1>11 DEF Complete, TypeOK
  <2>2. ask[r][m].outcome \in Outcomes /\ ask[r][m].request \in Nat /\ ask[r][m].by \in Members \cup {None}
    BY <1>11, <2>1 DEF Complete, Asks
  <2>3. /\ ask' \in [Rooms -> [Members -> Asks \cup {None}]]
        /\ lineup' \in [Members -> Seq(Rooms)]
    BY <1>11, <2>2, ReturnTyped DEF Complete, Out, Asking
  <2>4. messages' \in [Rooms -> Seq(Messages)] /\ nextMessage' \in Nat \ {0}
    <3>1. RoleOf(ask[r][m].kind, ask[r][m].outcome) \in Roles
      BY DEF RoleOf, Roles
    <3>2. [request |-> ask[r][m].request, source |-> ask[r][m].by] \in [request : Nat, source : Members \cup {None}]
      BY <2>2
    <3> QED  BY <1>0, <1>11, <3>1, <3>2, Pushed DEF Complete, TypeOK
  <2> QED  BY <1>0, <1>11, <2>3, <2>4 DEF Complete, TypeOK
<1>12. ASSUME NEW m \in Members, NEW n \in Nat, NEW outcome \in Outcomes, Result(m, n, outcome), strays' \in 0..MaxStrays
       PROVE  TypeOK'
  <2>1. [request |-> n, source |-> m, outcome |-> outcome] \in [request : Nat, source : Members, outcome : Outcomes]
    OBVIOUS
  <2>2. inbox' \in Seq([request : Nat, source : Members, outcome : Outcomes])
    BY <1>0, <1>12, <2>1 DEF Result, TypeOK
  <2> QED  BY <1>0, <1>12, <2>2 DEF Result, TypeOK
<1>13. ASSUME NEW m \in Members, Answer(m) PROVE TypeOK'
  BY <1>0, <1>12, <1>13 DEF Answer, TypeOK
<1>14. ASSUME NEW m \in Members, Stray(m) PROVE TypeOK'
  <2>1. PICK n \in 1..(nextRequest - 1), text \in Texts : Result(m, n, text)
    BY <1>14 DEF Stray
  <2>2. n \in Nat /\ text \in Outcomes /\ strays' \in 0..MaxStrays
    BY <1>0, <1>14 DEF Stray, TypeOK, Outcomes
  <2> QED  BY <1>12, <2>1, <2>2
<1>15. CASE Worker
  <2>1. inbox \in Seq(Results) /\ inbox # <<>>
    BY <1>0, <1>15 DEF Worker, TypeOK, Results
  <2>2. Head(inbox) \in Results /\ Tail(inbox) \in Seq(Results)
    BY <2>1
  <2>3. PICK result \in Results : result = Head(inbox)
    BY <2>2
  <2>4. \A r \in Rooms, m \in Members : ask[r][m] # None =>
          [ask[r][m] EXCEPT !.outcome = result.outcome, !.by = result.source] \in Asks
    <3> SUFFICES ASSUME NEW r \in Rooms, NEW m \in Members, ask[r][m] # None
                 PROVE  [ask[r][m] EXCEPT !.outcome = result.outcome, !.by = result.source] \in Asks
      OBVIOUS
    <3>1. ask[r][m] \in Asks
      BY <1>0 DEF TypeOK
    <3> QED  BY <2>3, <3>1 DEF Asks, Results
  <2>5. \/ UNCHANGED <<pending, ask>>
        \/ /\ pending' \subseteq pending
           /\ ask' = [r \in Rooms |-> [m \in Members |->
                        IF ask[r][m] # None /\ ask[r][m].request = result.request
                          THEN [ask[r][m] EXCEPT !.outcome = result.outcome, !.by = result.source]
                          ELSE ask[r][m]]]
    BY <1>15, <2>3 DEF Worker
  <2>6. \A r \in Rooms, m \in Members : ask[r][m] \in Asks \cup {None}
    BY <1>0 DEF TypeOK
  <2>7. ask' \in [Rooms -> [Members -> Asks \cup {None}]] /\ pending' \in SUBSET Requests
    <3>1. CASE UNCHANGED <<pending, ask>>
      BY <1>0, <3>1 DEF TypeOK, Requests
    <3>2. ASSUME ask' = [r \in Rooms |-> [m \in Members |->
                        IF ask[r][m] # None /\ ask[r][m].request = result.request
                          THEN [ask[r][m] EXCEPT !.outcome = result.outcome, !.by = result.source]
                          ELSE ask[r][m]]]
          PROVE  ask' \in [Rooms -> [Members -> Asks \cup {None}]]
      BY <2>4, <2>6, <3>2
    <3>3. pending' \in SUBSET Requests
      BY <1>0, <2>5 DEF TypeOK, Requests
    <3> QED  BY <2>5, <3>1, <3>2, <3>3
  <2> QED  BY <1>0, <1>15, <2>2, <2>7 DEF Worker, TypeOK, Results, Requests
<1>16. CASE UNCHANGED vars
  BY <1>0, <1>16 DEF vars, TypeOK
<1> QED  BY <1>1, <1>2, <1>3, <1>4, <1>5, <1>6, <1>7, <1>8, <1>9, <1>10, <1>11, <1>13, <1>14, <1>15, <1>16
   DEF Next, RunTurn, Ask

----------------------------------------------------------------------------
(* What a step does to the asks *)

Others(r, m) == \A q \in Rooms, n \in Members : q # r \/ n # m => ask'[q][n] = ask[q][n]

asks == <<ask, lineup, pending, delivered, nextRequest>>

\* Members are asked.
Asked(r, S) ==
    /\ S \subseteq MembersOf[r] /\ \A m \in S : ~Asking(r, m)
    /\ \A m \in S : \E kind \in {"direct", "contribution", "mention"} :
         /\ ask'[r][m] = NewAsk(kind)
         /\ kind = "contribution" => turn[r] # None /\ turn[r].phase = "start"
    /\ \A q \in Rooms, m \in Members : q # r \/ m \notin S => ask'[q][m] = ask[q][m]
    /\ \A m \in Members : lineup'[m] = IF m \in S THEN Append(lineup[m], r) ELSE lineup[m]
    /\ \A q \in Rooms : turn[q] # None => turn'[q].start = turn[q].start
    /\ UNCHANGED <<pending, delivered, nextRequest, messages, nextMessage>>

\* An ask that is over is joined.
Joined(r, m) ==
    /\ Asking(r, m) /\ ask[r][m].stage = "done"
    /\ ask'[r][m] = None /\ Others(r, m)
    /\ UNCHANGED <<lineup, pending, delivered, nextRequest>>

\* Two asks agree but for the fields of their stage.
SameAsk(a, b) == a.kind = b.kind /\ a.context = b.context /\ a.request = b.request

\* A result came for an ask.
Resolved(r, m) ==
    /\ Out(r, m) /\ ask[r][m].outcome = None
    /\ Out(r, m)' /\ ask'[r][m].stage = ask[r][m].stage /\ SameAsk(ask'[r][m], ask[r][m])
    /\ ask'[r][m].outcome \in Outcomes /\ ask'[r][m].by = m
    /\ Others(r, m)
    /\ pending' = {p \in pending : p.request # ask[r][m].request}
    /\ UNCHANGED <<lineup, delivered, nextRequest, messages, nextMessage, turn>>

\* An ask is over and its lock released.
Returned(r, m) ==
    /\ Out(r, m) /\ Asking(r, m)' /\ ask'[r][m].stage = "done"
    /\ SameAsk(ask'[r][m], ask[r][m]) /\ ask'[r][m].outcome \in Outcomes
    /\ Others(r, m)
    /\ \A n \in Members : lineup'[n] = IF n = m THEN Tail(lineup[m]) ELSE lineup[n]
    /\ UNCHANGED <<delivered, nextRequest, turn>>
    /\ \/ ask[r][m].outcome # None /\ UNCHANGED pending
       \/ pending' = {p \in pending : p.request # ask[r][m].request} /\ UNCHANGED messages

LEMMA OutFacts ==
    ASSUME Inv, NEW r \in Rooms, NEW m \in Members, Out(r, m)
    PROVE  /\ Asking(r, m) /\ ask[r][m] \in Asks /\ ask[r][m].stage \in {"prepared", "awaiting"}
           /\ ask[r][m].request \in 1..(nextRequest - 1)
<1>1. Asking(r, m) /\ ask[r][m] \in Asks /\ ask[r][m].stage \in {"prepared", "awaiting"}
  BY DEF Out, Asking, Inv, TypeOK
<1>2. Asking(r, m) /\ ask[r][m].stage # "queued" => ask[r][m].request \in 1..(nextRequest - 1)
  BY DEF Inv, RequestsExact, RequestExact, RequestsApart
<1> QED  BY <1>1, <1>2

\* An ask with the request of one that is out is that one.
LEMMA SameRequest ==
    ASSUME Inv, NEW r \in Rooms, NEW m \in Members, Out(r, m),
           NEW q \in Rooms, NEW n \in Members, Asking(q, n), ask[q][n].request = ask[r][m].request
    PROVE  q = r /\ n = m
<1>1. Asking(r, m) /\ ask[r][m].stage # "queued" /\ ask[r][m].request # 0 /\ nextRequest \in Nat
  <2>1. nextRequest \in Nat
    BY DEF Inv, TypeOK
  <2> QED  BY <2>1, OutFacts
<1>2. ask[q][n].stage # "queued"
  BY <1>1 DEF Inv, RequestsExact, RequestExact, RequestsApart
<1> QED  BY <1>1, <1>2 DEF Inv, RequestsExact, RequestExact, RequestsApart

LEMMA BeginAsks == ASSUME Inv, NEW r \in Rooms, Begin(r) PROVE \E S \in SUBSET MembersOf[r] : Asked(r, S)
<1>1. turn[r] # None /\ turn[r].phase = "start" /\ turn[r].members \subseteq MembersOf[r] /\ turn[r] \in Turns
  BY DEF Begin, Inv, TurnsExact, TurnExact, TypeOK
<1>2. \A m \in Members : ~Asking(r, m)
  BY <1>1 DEF Inv, AsksExact, AskExact
<1>3. PICK kind \in {"direct", "contribution"} : kind = IF IsGroup(r) THEN "contribution" ELSE "direct"
  OBVIOUS
<1>4. MembersOf[r] \subseteq Members
  OBVIOUS
<1>5. ask' = [ask EXCEPT ![r] = [m \in Members |-> IF m \in turn[r].members THEN NewAsk(kind) ELSE ask[r][m]]]
  BY <1>3 DEF Begin
<1>6. ask \in [Rooms -> [Members -> Asks \cup {None}]] /\ turn \in [Rooms -> Turns \cup {None}]
  BY DEF Inv, TypeOK
<1>7. /\ \A m \in turn[r].members : ask'[r][m] = NewAsk(kind)
      /\ \A q \in Rooms, m \in Members : q # r \/ m \notin turn[r].members => ask'[q][m] = ask[q][m]
  BY <1>1, <1>4, <1>5, <1>6
<1>8. \A q \in Rooms : turn[q] # None => turn'[q].start = turn[q].start
  <2>1. [turn[r] EXCEPT !.phase = "asking"].start = turn[r].start
    BY <1>1 DEF Turns
  <2> QED  BY <1>6, <2>1 DEF Begin
<1>9. \A m \in Members : lineup'[m] = IF m \in turn[r].members THEN Append(lineup[m], r) ELSE lineup[m]
  BY DEF Begin
<1>10. UNCHANGED <<pending, delivered, nextRequest, messages, nextMessage>>
  BY DEF Begin, mail
<1>11. Asked(r, turn[r].members)
  <2>1. \A m \in turn[r].members : \E l \in {"direct", "contribution", "mention"} :
          /\ ask'[r][m] = NewAsk(l)
          /\ l = "contribution" => turn[r] # None /\ turn[r].phase = "start"
    BY <1>1, <1>7
  <2> QED  BY <2>1, <1>1, <1>2, <1>4, <1>7, <1>8, <1>9, <1>10 DEF Asked
<1> QED  BY <1>1, <1>11

LEMMA FollowUpAsks == ASSUME Inv, NEW r \in Rooms, FollowUp(r) PROVE \E S \in SUBSET MembersOf[r] : Asked(r, S)
<1>1. turn[r] # None /\ turn[r].phase = "follow-ups" /\ turn[r].mentions \in Seq(MembersOf[r] \cup {None}) /\ turn[r] \in Turns
  BY DEF FollowUp, Inv, TurnsExact, TurnExact, TypeOK
<1>2. \A m \in Members : ~Asking(r, m)
  BY <1>1 DEF Inv, AsksExact, AskExact
<1>3. PICK k \in DOMAIN turn[r].mentions :
        /\ turn[r].mentions[k] # None
        /\ turn' = [turn EXCEPT ![r].mentions = SubSeq(turn[r].mentions, k + 1, Len(turn[r].mentions)),
                                ![r].followUps = @ + 1, ![r].phase = "follow-up"]
        /\ ask' = [ask EXCEPT ![r][turn[r].mentions[k]] = NewAsk("mention")]
        /\ lineup' = [lineup EXCEPT ![turn[r].mentions[k]] = Append(@, r)]
  BY DEF FollowUp, Mentioned
<1>4. PICK target \in MembersOf[r] : target = turn[r].mentions[k]
  BY <1>1, <1>3
<1>5. ask \in [Rooms -> [Members -> Asks \cup {None}]] /\ turn \in [Rooms -> Turns \cup {None}] /\ target \in Members
      /\ lineup \in [Members -> Seq(Rooms)]
  BY <1>4 DEF Inv, TypeOK
<1>6. /\ ask'[r][target] = NewAsk("mention")
      /\ \A q \in Rooms, m \in Members : q # r \/ m # target => ask'[q][m] = ask[q][m]
      /\ \A m \in Members : lineup'[m] = IF m = target THEN Append(lineup[m], r) ELSE lineup[m]
  BY <1>3, <1>4, <1>5
<1>7. \A q \in Rooms : turn[q] # None => turn'[q].start = turn[q].start
  <2>1. PICK rest, n : rest = SubSeq(turn[r].mentions, k + 1, Len(turn[r].mentions)) /\ n = turn[r].followUps + 1
    OBVIOUS
  <2>2. turn' = [turn EXCEPT ![r] = [turn[r] EXCEPT !.mentions = rest, !.followUps = n, !.phase = "follow-up"]]
    BY <1>3, <2>1
  <2>3. [turn[r] EXCEPT !.mentions = rest, !.followUps = n, !.phase = "follow-up"].start = turn[r].start
    BY <1>1 DEF Turns
  <2> QED  BY <1>5, <2>2, <2>3
<1>8. UNCHANGED <<pending, delivered, nextRequest, messages, nextMessage>>
  BY DEF FollowUp, mail
<1>9. {target} \subseteq MembersOf[r] /\ \A m \in {target} : ~Asking(r, m)
  BY <1>2, <1>5
<1>10. Asked(r, {target})
  <2>1. \A m \in {target} : \E l \in {"direct", "contribution", "mention"} :
          /\ ask'[r][m] = NewAsk(l)
          /\ l = "contribution" => turn[r] # None /\ turn[r].phase = "start"
    BY <1>6
  <2> QED  BY <2>1, <1>6, <1>7, <1>8, <1>9 DEF Asked
<1> QED  BY <1>9, <1>10

LEMMA JoinAsks ==
    ASSUME Inv, NEW r \in Rooms, NEW m \in Members, Join(r, m) \/ JoinFollowUp(r, m)
    PROVE  Joined(r, m)
<1>1. ask' = [ask EXCEPT ![r][m] = None] /\ Asking(r, m) /\ ask[r][m].stage = "done"
      /\ UNCHANGED <<lineup, pending, delivered, nextRequest>>
  BY DEF Join, JoinFollowUp, Asking, mail
<1>2. ask \in [Rooms -> [Members -> Asks \cup {None}]]
  BY DEF Inv, TypeOK
<1> QED  BY <1>1, <1>2 DEF Joined, Others

LEMMA PrepareAsks ==
    ASSUME Inv, NEW r \in Rooms, NEW m \in Members, Prepare(r, m)
    PROVE  /\ Asking(r, m) /\ ask[r][m].stage = "queued" /\ Admitted(r, m) /\ Out(r, m)'
           /\ ask'[r][m].stage = "prepared" /\ ask'[r][m].request = nextRequest
           /\ ask'[r][m].context = Context(r, m, ask[r][m].kind, turn[r].start)
           /\ ask'[r][m].kind = ask[r][m].kind /\ ask'[r][m].outcome = ask[r][m].outcome
           /\ Others(r, m)
<1>1. ask[r][m] \in Asks /\ Asking(r, m) /\ ask[r][m].stage = "queued" /\ Admitted(r, m)
  BY DEF Prepare, Inv, TypeOK, Asking
<1>2. PICK context : context = Context(r, m, ask[r][m].kind, turn[r].start)
  OBVIOUS
<1>3. context \in SUBSET Nat
  BY <1>2, ContextTyped DEF Inv
<1>4. PICK a : a = [ask[r][m] EXCEPT !.stage = "prepared", !.request = nextRequest, !.context = context]
  OBVIOUS
<1>5. /\ a.stage = "prepared" /\ a.request = nextRequest /\ a.context = context
      /\ a.kind = ask[r][m].kind /\ a.outcome = ask[r][m].outcome
      /\ a \in Asks
  BY <1>1, <1>3, <1>4 DEF Asks, Inv, TypeOK
<1>6. ask' = [ask EXCEPT ![r][m] = a]
  BY <1>2, <1>4 DEF Prepare
<1>7. ask'[r][m] = a /\ Others(r, m)
  BY <1>6 DEF Inv, TypeOK, Others
<1>8. a # None
  BY <1>5
<1> QED  BY <1>1, <1>2, <1>5, <1>7, <1>8 DEF Out, Asking

LEMMA DispatchAsks ==
    ASSUME Inv, NEW r \in Rooms, NEW m \in Members, Dispatch(r, m)
    PROVE  /\ Asking(r, m) /\ ask[r][m].stage = "prepared" /\ Out(r, m)' /\ ask'[r][m].stage = "awaiting"
           /\ SameAsk(ask'[r][m], ask[r][m])
           /\ ask'[r][m].outcome = ask[r][m].outcome /\ ask'[r][m].by = ask[r][m].by
           /\ Others(r, m)
<1>1. ask[r][m] \in Asks /\ Asking(r, m) /\ ask[r][m].stage = "prepared"
  BY DEF Dispatch, Inv, TypeOK, Asking
<1>2. PICK a : a = [ask[r][m] EXCEPT !.stage = "awaiting"]
  OBVIOUS
<1>3. /\ a.stage = "awaiting" /\ SameAsk(a, ask[r][m]) /\ a.outcome = ask[r][m].outcome /\ a.by = ask[r][m].by
      /\ a \in Asks
  BY <1>1, <1>2 DEF Asks, SameAsk
<1>4. ask'[r][m] = a /\ Others(r, m)
  BY <1>2 DEF Dispatch, Inv, TypeOK, Others
<1>5. a # None
  BY <1>3
<1> QED  BY <1>1, <1>3, <1>4, <1>5 DEF Out, Asking

LEMMA ReturnAsks ==
    ASSUME Inv, NEW r \in Rooms, NEW m \in Members, DispatchFails(r, m) \/ Complete(r, m)
    PROVE  Returned(r, m)
<1>1. ask[r][m] \in Asks /\ Out(r, m)
  BY DEF DispatchFails, Complete, Inv, TypeOK, Out, Asking
<1>2. PICK outcome \in Outcomes : Return(r, m, outcome)
  BY <1>1 DEF DispatchFails, Complete, Outcomes, Asks
<1>3. PICK a : a = [ask[r][m] EXCEPT !.stage = "done", !.outcome = outcome]
  OBVIOUS
<1>4. a.stage = "done" /\ SameAsk(a, ask[r][m]) /\ a.outcome = outcome /\ a \in Asks
  BY <1>1, <1>3 DEF Asks, SameAsk
<1>5. ask' = [ask EXCEPT ![r][m] = a]
  BY <1>2, <1>3 DEF Return
<1>6. ask'[r][m] = a /\ Others(r, m) /\ a # None
  BY <1>4, <1>5 DEF Inv, TypeOK, Others
<1>7. \A n \in Members : lineup'[n] = IF n = m THEN Tail(lineup[m]) ELSE lineup[n]
  BY <1>2 DEF Return, Inv, TypeOK
<1>8. UNCHANGED <<delivered, nextRequest, turn>>
  BY DEF DispatchFails, Complete, mail
<1>9. \/ ask[r][m].outcome # None /\ UNCHANGED pending
      \/ pending' = {p \in pending : p.request # ask[r][m].request} /\ UNCHANGED messages
  BY DEF DispatchFails, Complete, Withdrawn
<1> QED  BY <1>1, <1>2, <1>4, <1>6, <1>7, <1>8, <1>9 DEF Returned, Asking

\* A result changes nothing, or is that of one ask.
LEMMA WorkerAsks ==
    ASSUME Inv, Worker
    PROVE  UNCHANGED <<asks, messages, nextMessage, turn>> \/ \E r \in Rooms, m \in Members : Resolved(r, m)
<1>1. inbox \in Seq(Results) /\ inbox # <<>>
  BY DEF Inv, TypeOK, Worker, Results
<1>2. PICK result \in Results : result = Head(inbox)
  BY <1>1
<1>3. CASE ~Resolves(result)
  BY <1>2, <1>3 DEF Worker, asks
<1>4. CASE Resolves(result)
  <2>1. [request |-> result.request, source |-> result.source] \in [request : Nat, source : Members]
    BY <1>2 DEF Results
  <2>2. PICK r \in Rooms : Waits(r, result.source, result.request)
    BY <1>4, <2>1 DEF Resolves, Inv, PendingAsked
  <2>3. PICK m \in Members : m = result.source
    BY <1>2 DEF Results
  <2>4. Out(r, m) /\ ask[r][m].outcome = None /\ ask[r][m].request = result.request /\ ask[r][m] \in Asks
    BY <2>2, <2>3 DEF Waits, Out, Asking, Inv, TypeOK
  <2>5. ask' = [q \in Rooms |-> [n \in Members |->
                      IF ask[q][n] # None /\ ask[q][n].request = result.request
                        THEN [ask[q][n] EXCEPT !.outcome = result.outcome, !.by = result.source]
                        ELSE ask[q][n]]]
        /\ pending' = {p \in pending : p.request # result.request}
    BY <1>2, <1>4 DEF Worker
  <2>7. \A q \in Rooms, n \in Members : ask[q][n] # None /\ ask[q][n].request = result.request => q = r /\ n = m
    BY <2>4, SameRequest DEF Asking
  <2>8. Others(r, m)
    BY <2>5, <2>7 DEF Others
  <2>9. PICK a : a = [ask[r][m] EXCEPT !.outcome = result.outcome, !.by = result.source]
    OBVIOUS
  <2>10. /\ a \in Asks /\ a.stage = ask[r][m].stage /\ SameAsk(a, ask[r][m])
         /\ a.outcome \in Outcomes /\ a.by = m
    <3>1. result.outcome \in Outcomes /\ result.source \in Members
      BY <1>2 DEF Results
    <3>2. /\ a \in Asks /\ a.stage = ask[r][m].stage /\ a.kind = ask[r][m].kind
          /\ a.context = ask[r][m].context /\ a.request = ask[r][m].request
          /\ a.outcome = result.outcome /\ a.by = result.source
      BY <3>1, <2>4, <2>9 DEF Asks
    <3> QED  BY <2>3, <3>1, <3>2 DEF SameAsk
  <2>11. ask'[r][m] = a /\ a # None
    BY <2>4, <2>5, <2>9, <2>10 DEF Out, Asking
  <2>12. UNCHANGED <<lineup, delivered, nextRequest, messages, nextMessage, turn>>
    BY DEF Worker
  <2>13. Out(r, m)'
    BY <2>4, <2>10, <2>11 DEF Out, Asking
  <2>14. Resolved(r, m)
    BY <2>4, <2>5, <2>8, <2>10, <2>11, <2>12, <2>13 DEF Resolved
  <2> QED  BY <2>14
<1> QED  BY <1>3, <1>4

\* All the ways in which a step changes the asks.
LEMMA AskMoves ==
    ASSUME Inv, [Next]_vars
    PROVE  \/ UNCHANGED asks
           \/ \E r \in Rooms : \E S \in SUBSET MembersOf[r] : Asked(r, S)
           \/ \E r \in Rooms, m \in Members :
                Joined(r, m) \/ Prepare(r, m) \/ Dispatch(r, m) \/ Returned(r, m) \/ Resolved(r, m)
<1>1. ASSUME NEW r \in Rooms, SendUserMessage(r) \/ CutOff(r) \/ Finish(r) PROVE UNCHANGED asks
  BY <1>1 DEF SendUserMessage, CutOff, Finish, asks
<1>2. ASSUME NEW m \in Members, Answer(m) \/ Stray(m) PROVE UNCHANGED asks
  BY <1>2 DEF Answer, Stray, Result, asks
<1>3. CASE UNCHANGED vars
  BY <1>3 DEF vars, asks
<1> QED  BY <1>1, <1>2, <1>3, BeginAsks, FollowUpAsks, JoinAsks, ReturnAsks, WorkerAsks
   DEF Next, RunTurn, Ask

----------------------------------------------------------------------------
(* Lines *)

LEMMA NewAskFields ==
    \A kind \in {"direct", "contribution", "mention"} :
      /\ NewAsk(kind) # None /\ NewAsk(kind).stage = "queued" /\ NewAsk(kind).kind = kind
      /\ NewAsk(kind).request = 0 /\ NewAsk(kind).outcome = None
<1> SUFFICES ASSUME NEW kind \in {"direct", "contribution", "mention"}
             PROVE  /\ NewAsk(kind) # None /\ NewAsk(kind).stage = "queued" /\ NewAsk(kind).kind = kind
                    /\ NewAsk(kind).request = 0 /\ NewAsk(kind).outcome = None
  OBVIOUS
<1>1. NewAsk(kind) \in Asks
  BY NewAskTyped
<1>2. NewAsk(kind) # None
  BY <1>1
<1> QED  BY <1>2 DEF NewAsk

\* Who is in line, and whose request is out, after a step.
LEMMA AskedIn ==
    ASSUME NEW r \in Rooms, NEW S \in SUBSET MembersOf[r], Asked(r, S), NEW q \in Rooms, NEW n \in Members
    PROVE  /\ In(q, n)' <=> In(q, n) \/ (q = r /\ n \in S)
           /\ Out(q, n)' <=> Out(q, n)
<1>1. CASE q = r /\ n \in S
  <2>1. PICK kind \in {"direct", "contribution", "mention"} : ask'[r][n] = NewAsk(kind)
    BY <1>1 DEF Asked
  <2>2. ask'[q][n] # None /\ ask'[q][n].stage = "queued"
    BY <1>1, <2>1, NewAskFields
  <2>3. ~Asking(q, n)
    BY <1>1 DEF Asked
  <2> QED  BY <1>1, <2>2, <2>3 DEF In, Out, Asking
<1>2. CASE ~(q = r /\ n \in S)
  <2>1. ask'[q][n] = ask[q][n]
    BY <1>2 DEF Asked
  <2> QED  BY <1>2, <2>1 DEF In, Out, Asking
<1> QED  BY <1>1, <1>2

LEMMA JoinedIn ==
    ASSUME NEW r \in Rooms, NEW m \in Members, Joined(r, m), NEW q \in Rooms, NEW n \in Members
    PROVE  (In(q, n)' <=> In(q, n)) /\ (Out(q, n)' <=> Out(q, n))
BY DEF Joined, Others, In, Out, Asking

LEMMA PreparedIn ==
    ASSUME Inv, NEW r \in Rooms, NEW m \in Members, Prepare(r, m), NEW q \in Rooms, NEW n \in Members
    PROVE  /\ In(q, n)' <=> In(q, n)
           /\ Out(q, n)' <=> Out(q, n) \/ (q = r /\ n = m)
BY PrepareAsks DEF Others, In, Out, Asking

LEMMA DispatchedIn ==
    ASSUME Inv, NEW r \in Rooms, NEW m \in Members, Dispatch(r, m), NEW q \in Rooms, NEW n \in Members
    PROVE  (In(q, n)' <=> In(q, n)) /\ (Out(q, n)' <=> Out(q, n))
BY DispatchAsks DEF Others, In, Out, Asking

LEMMA ResolvedIn ==
    ASSUME NEW r \in Rooms, NEW m \in Members, Resolved(r, m), NEW q \in Rooms, NEW n \in Members
    PROVE  (In(q, n)' <=> In(q, n)) /\ (Out(q, n)' <=> Out(q, n))
BY DEF Resolved, Others, In, Out, Asking

LEMMA ReturnedIn ==
    ASSUME NEW r \in Rooms, NEW m \in Members, Returned(r, m), NEW q \in Rooms, NEW n \in Members
    PROVE  /\ In(q, n)' <=> In(q, n) /\ ~(q = r /\ n = m)
           /\ Out(q, n)' <=> Out(q, n) /\ ~(q = r /\ n = m)
BY DEF Returned, Others, In, Out, Asking

LEMMA LineupStep == Inv /\ [Next]_vars => LineupExact'
<1> SUFFICES ASSUME Inv, [Next]_vars, NEW m \in Members
             PROVE  /\ \A r \in Rooms : In(r, m)' <=> \E k \in DOMAIN lineup'[m] : lineup'[m][k] = r
                    /\ \A i, j \in DOMAIN lineup'[m] : lineup'[m][i] = lineup'[m][j] => i = j
                    /\ \A r \in Rooms : Out(r, m)' => lineup'[m] # <<>> /\ lineup'[m][1] = r
  BY DEF LineupExact
<1>0. /\ \A r \in Rooms : In(r, m) <=> \E k \in DOMAIN lineup[m] : lineup[m][k] = r
      /\ \A i, j \in DOMAIN lineup[m] : lineup[m][i] = lineup[m][j] => i = j
      /\ \A r \in Rooms : Out(r, m) => lineup[m] # <<>> /\ lineup[m][1] = r
  BY DEF Inv, LineupExact
<1>a. lineup[m] \in Seq(Rooms)
  BY DEF Inv, TypeOK
<1>b. DOMAIN lineup[m] = 1..Len(lineup[m]) /\ Len(lineup[m]) \in Nat
  BY <1>a
<1>1. ASSUME lineup'[m] = lineup[m], \A q \in Rooms : (In(q, m)' <=> In(q, m)) /\ (Out(q, m)' => Out(q, m))
      PROVE  /\ \A r \in Rooms : In(r, m)' <=> \E k \in DOMAIN lineup'[m] : lineup'[m][k] = r
             /\ \A i, j \in DOMAIN lineup'[m] : lineup'[m][i] = lineup'[m][j] => i = j
             /\ \A r \in Rooms : Out(r, m)' => lineup'[m] # <<>> /\ lineup'[m][1] = r
  BY <1>0, <1>1
<1>2. CASE UNCHANGED asks
  BY <1>1, <1>2 DEF asks, In, Out, Asking
<1>3. ASSUME NEW r \in Rooms, NEW S \in SUBSET MembersOf[r], Asked(r, S)
      PROVE  /\ \A q \in Rooms : In(q, m)' <=> \E k \in DOMAIN lineup'[m] : lineup'[m][k] = q
             /\ \A i, j \in DOMAIN lineup'[m] : lineup'[m][i] = lineup'[m][j] => i = j
             /\ \A q \in Rooms : Out(q, m)' => lineup'[m] # <<>> /\ lineup'[m][1] = q
  <2>1. \A q \in Rooms : (In(q, m)' <=> In(q, m) \/ (q = r /\ m \in S)) /\ (Out(q, m)' <=> Out(q, m))
    BY <1>3, AskedIn
  <2>2. CASE m \notin S
    <3>1. lineup'[m] = lineup[m]
      BY <1>3, <2>2 DEF Asked
    <3> QED  BY <1>1, <2>1, <2>2, <3>1
  <2>3. CASE m \in S
    <3>1. lineup'[m] = Append(lineup[m], r) /\ ~In(r, m)
      BY <1>3, <2>3 DEF Asked, In
    <3>2. /\ DOMAIN lineup'[m] = 1..(Len(lineup[m]) + 1)
          /\ lineup'[m][Len(lineup[m]) + 1] = r
          /\ \A k \in 1..Len(lineup[m]) : lineup'[m][k] = lineup[m][k]
      BY <1>a, <3>1
    <3>3. \A q \in Rooms : In(q, m)' <=> \E k \in DOMAIN lineup'[m] : lineup'[m][k] = q
      BY <1>0, <1>b, <2>1, <2>3, <3>2
    <3>4. \A i, j \in DOMAIN lineup'[m] : lineup'[m][i] = lineup'[m][j] => i = j
      BY <1>0, <1>b, <3>1, <3>2
    <3>5. \A q \in Rooms : Out(q, m)' => lineup'[m] # <<>> /\ lineup'[m][1] = q
      <4> SUFFICES ASSUME NEW q \in Rooms, Out(q, m)' PROVE lineup'[m] # <<>> /\ lineup'[m][1] = q
        OBVIOUS
      <4>1. lineup[m] # <<>> /\ lineup[m][1] = q
        BY <1>0, <2>1
      <4>2. 1 \in 1..Len(lineup[m])
        BY <1>a, <4>1
      <4>3. lineup'[m][1] = q
        BY <3>2, <4>1, <4>2
      <4>4. lineup'[m] # <<>>
        BY <1>b, <3>2
      <4> QED  BY <4>3, <4>4
    <3> QED  BY <3>3, <3>4, <3>5
  <2> QED  BY <2>2, <2>3
<1>4. ASSUME NEW r \in Rooms, NEW n \in Members, Joined(r, n) \/ Dispatch(r, n) \/ Resolved(r, n)
      PROVE  lineup'[m] = lineup[m] /\ \A q \in Rooms : (In(q, m)' <=> In(q, m)) /\ (Out(q, m)' => Out(q, m))
  <2>1. lineup'[m] = lineup[m]
    BY <1>4 DEF Joined, Dispatch, Resolved
  <2> QED  BY <1>4, <2>1, JoinedIn, DispatchedIn, ResolvedIn
<1>5. ASSUME NEW r \in Rooms, NEW n \in Members, Prepare(r, n)
      PROVE  /\ \A q \in Rooms : In(q, m)' <=> \E k \in DOMAIN lineup'[m] : lineup'[m][k] = q
             /\ \A i, j \in DOMAIN lineup'[m] : lineup'[m][i] = lineup'[m][j] => i = j
             /\ \A q \in Rooms : Out(q, m)' => lineup'[m] # <<>> /\ lineup'[m][1] = q
  <2>1. lineup' = lineup
    BY <1>5 DEF Prepare
  <2>2. \A q \in Rooms : (In(q, m)' <=> In(q, m)) /\ (Out(q, m)' <=> Out(q, m) \/ (q = r /\ m = n))
    BY <1>5, PreparedIn
  <2>3. lineup[n] # <<>> /\ Head(lineup[n]) = r
    BY <1>5 DEF Prepare, Admitted
  <2>4. m = n => lineup[m] # <<>> /\ lineup[m][1] = r
    BY <1>a, <2>3
  <2> QED  BY <1>0, <2>1, <2>2, <2>4
<1>6. ASSUME NEW r \in Rooms, NEW n \in Members, Returned(r, n)
      PROVE  /\ \A q \in Rooms : In(q, m)' <=> \E k \in DOMAIN lineup'[m] : lineup'[m][k] = q
             /\ \A i, j \in DOMAIN lineup'[m] : lineup'[m][i] = lineup'[m][j] => i = j
             /\ \A q \in Rooms : Out(q, m)' => lineup'[m] # <<>> /\ lineup'[m][1] = q
  <2>1. \A q \in Rooms : (In(q, m)' <=> In(q, m) /\ ~(q = r /\ m = n)) /\ (Out(q, m)' <=> Out(q, m) /\ ~(q = r /\ m = n))
    BY <1>6, ReturnedIn
  <2>2. CASE m # n
    <3>1. lineup'[m] = lineup[m]
      BY <1>6, <2>2 DEF Returned
    <3> QED  BY <1>1, <2>1, <2>2, <3>1
  <2>3. CASE m = n
    <3>1. lineup'[m] = Tail(lineup[m]) /\ Out(r, m)
      BY <1>6, <2>3 DEF Returned
    <3>2. lineup[m] # <<>> /\ lineup[m][1] = r
      BY <1>0, <3>1
    <3>3. /\ DOMAIN lineup'[m] = 1..(Len(lineup[m]) - 1) /\ Len(lineup[m]) >= 1
          /\ \A k \in 1..(Len(lineup[m]) - 1) : lineup'[m][k] = lineup[m][k + 1]
      BY <1>a, <3>1, <3>2
    <3>4. ASSUME NEW i \in DOMAIN lineup'[m], NEW j \in DOMAIN lineup'[m], lineup'[m][i] = lineup'[m][j]
          PROVE  i = j
      <4>1. i + 1 \in DOMAIN lineup[m] /\ j + 1 \in DOMAIN lineup[m] /\ lineup[m][i + 1] = lineup[m][j + 1]
        BY <1>b, <3>3, <3>4
      <4>2. i + 1 = j + 1
        BY <1>0, <4>1
      <4> QED  BY <3>3, <4>2
    <3>5. \A q \in Rooms : ~Out(q, m)'
      BY <1>0, <2>1, <2>3, <3>2
    <3>6. ASSUME NEW q \in Rooms, In(q, m), q # r PROVE \E k \in DOMAIN lineup'[m] : lineup'[m][k] = q
      <4>1. PICK k \in DOMAIN lineup[m] : lineup[m][k] = q
        BY <1>0, <3>6
      <4>2. k # 1
        BY <3>2, <3>6, <4>1
      <4>3. k - 1 \in DOMAIN lineup'[m] /\ lineup'[m][k - 1] = q
        BY <1>b, <3>3, <4>1, <4>2
      <4> QED  BY <4>3
    <3>7. ASSUME NEW k \in DOMAIN lineup'[m] PROVE In(lineup'[m][k], m) /\ lineup'[m][k] # r
      <4>1. k + 1 \in DOMAIN lineup[m] /\ lineup'[m][k] = lineup[m][k + 1] /\ k + 1 # 1 /\ 1 \in DOMAIN lineup[m]
        BY <1>b, <3>3
      <4>2. lineup[m][k + 1] \in Rooms
        BY <1>a, <4>1
      <4> QED  BY <1>0, <3>2, <4>1, <4>2
    <3>8. \A q \in Rooms : In(q, m)' <=> \E k \in DOMAIN lineup'[m] : lineup'[m][k] = q
      BY <2>1, <2>3, <3>6, <3>7
    <3> QED  BY <3>4, <3>5, <3>8
  <2> QED  BY <2>2, <2>3
<1> QED  BY <1>1, <1>2, <1>3, <1>4, <1>5, <1>6, AskMoves

----------------------------------------------------------------------------
(* Requests *)

\* The step of one ask, if all others stay.
LEMMA OthersApart ==
    ASSUME RequestsApart, NEW r \in Rooms, NEW m \in Members, Others(r, m),
           Asking(r, m)' => \/ ask'[r][m].stage = "queued"
                            \/ Asking(r, m) /\ ask[r][m].stage # "queued" /\ ask'[r][m].request = ask[r][m].request
    PROVE  RequestsApart'
BY DEF RequestsApart, Others, Asking

LEMMA RequestsStep == Inv /\ [Next]_vars => RequestsExact'
<1> SUFFICES ASSUME Inv, [Next]_vars PROVE RequestsApart' /\ \A q \in Rooms, n \in Members : RequestExact(q, n)'
  BY DEF RequestsExact
<1>0. RequestsApart /\ (\A q \in Rooms, n \in Members : RequestExact(q, n)) /\ nextRequest \in Nat /\ delivered \in SUBSET Requests
  BY DEF Inv, RequestsExact, TypeOK, Requests
<1>1. CASE UNCHANGED asks
  BY <1>0, <1>1 DEF asks, RequestsApart, RequestExact, Out, Asking
<1>2. ASSUME NEW r \in Rooms, NEW S \in SUBSET MembersOf[r], Asked(r, S)
      PROVE  RequestsApart' /\ \A q \in Rooms, n \in Members : RequestExact(q, n)'
  <2>1. \A q \in Rooms, n \in Members :
          \/ ask'[q][n] = ask[q][n]
          \/ /\ ask'[q][n] # None /\ ask'[q][n].stage = "queued"
             /\ ask'[q][n].request = 0 /\ ask'[q][n].outcome = None
    <3> SUFFICES ASSUME NEW q \in Rooms, NEW n \in Members, ask'[q][n] # ask[q][n]
                 PROVE  /\ ask'[q][n] # None /\ ask'[q][n].stage = "queued"
                        /\ ask'[q][n].request = 0 /\ ask'[q][n].outcome = None
      OBVIOUS
    <3>1. q = r /\ n \in S
      BY <1>2 DEF Asked
    <3>2. PICK kind \in {"direct", "contribution", "mention"} : ask'[r][n] = NewAsk(kind)
      BY <1>2, <3>1 DEF Asked
    <3> QED  BY <3>1, <3>2, NewAskFields
  <2>2. UNCHANGED <<nextRequest, delivered>>
    BY <1>2 DEF Asked
  <2>3. RequestsApart'
    BY <1>0, <2>1 DEF RequestsApart, Asking
  <2>4. \A q \in Rooms, n \in Members : RequestExact(q, n)'
    BY <1>0, <2>1, <2>2 DEF RequestExact, Out, Asking
  <2> QED  BY <2>3, <2>4
<1>3. ASSUME NEW r \in Rooms, NEW m \in Members, Joined(r, m)
      PROVE  RequestsApart' /\ \A q \in Rooms, n \in Members : RequestExact(q, n)'
  <2>1. RequestsApart'
    BY <1>0, <1>3, OthersApart DEF Joined, Asking
  <2>2. \A q \in Rooms, n \in Members : RequestExact(q, n)'
    BY <1>0, <1>3 DEF Joined, Others, RequestExact, Out, Asking
  <2> QED  BY <2>1, <2>2
<1>4. ASSUME NEW r \in Rooms, NEW m \in Members, Prepare(r, m)
      PROVE  RequestsApart' /\ \A q \in Rooms, n \in Members : RequestExact(q, n)'
  <2>1. nextRequest' = nextRequest + 1 /\ UNCHANGED delivered
    BY <1>4 DEF Prepare
  <2>2. /\ Asking(r, m) /\ ask[r][m].stage = "queued"
        /\ ask'[r][m].stage = "prepared" /\ ask'[r][m].request = nextRequest
        /\ ask'[r][m].outcome = ask[r][m].outcome /\ Others(r, m)
    BY <1>4, PrepareAsks
  <2>3. ask[r][m].outcome = None /\ nextRequest # 0
    BY <1>0, <2>2 DEF RequestExact, Inv, TypeOK
  <2>4. RequestExact(r, m)'
    BY <1>0, <2>1, <2>2, <2>3 DEF RequestExact, Out
  <2>5. \A q \in Rooms, n \in Members : q # r \/ n # m => RequestExact(q, n)'
    BY <1>0, <2>1, <2>2 DEF RequestExact, Others, Out, Asking
  <2>6. \A q \in Rooms, n \in Members : q # r \/ n # m =>
          (Asking(q, n) /\ ask[q][n].stage # "queued" => ask[q][n].request # nextRequest)
    <3> SUFFICES ASSUME NEW q \in Rooms, NEW n \in Members, Asking(q, n), ask[q][n].stage # "queued"
                 PROVE  ask[q][n].request # nextRequest
      OBVIOUS
    <3>1. ask[q][n].request \in 1..(nextRequest - 1)
      BY <1>0 DEF RequestExact
    <3> QED  BY <1>0, <3>1
  <2>7. RequestsApart'
    BY <1>0, <2>2, <2>6 DEF RequestsApart, Others, Asking
  <2> QED  BY <2>4, <2>5, <2>7
<1>5. ASSUME NEW r \in Rooms, NEW m \in Members, Dispatch(r, m)
      PROVE  RequestsApart' /\ \A q \in Rooms, n \in Members : RequestExact(q, n)'
  <2>1. delivered' = delivered \cup {[request |-> ask[r][m].request, source |-> m]} /\ UNCHANGED nextRequest
    BY <1>5 DEF Dispatch
  <2>2. /\ Asking(r, m) /\ ask[r][m].stage = "prepared" /\ ask'[r][m].stage = "awaiting"
        /\ ask'[r][m].request = ask[r][m].request
        /\ ask'[r][m].outcome = ask[r][m].outcome /\ ask'[r][m].by = ask[r][m].by /\ Others(r, m)
    BY <1>5, DispatchAsks DEF SameAsk
  <2>3. RequestExact(r, m)'
    BY <1>0, <2>1, <2>2 DEF RequestExact, Out
  <2>4. \A q \in Rooms, n \in Members : q # r \/ n # m => RequestExact(q, n)'
    BY <1>0, <2>1, <2>2 DEF RequestExact, Others, Out, Asking
  <2>5. RequestsApart'
    BY <1>0, <2>2, OthersApart
  <2> QED  BY <2>3, <2>4, <2>5
<1>6. ASSUME NEW r \in Rooms, NEW m \in Members, Returned(r, m) \/ Resolved(r, m)
      PROVE  RequestsApart' /\ \A q \in Rooms, n \in Members : RequestExact(q, n)'
  <2>1. UNCHANGED <<delivered, nextRequest>> /\ Others(r, m) /\ Out(r, m)
    BY <1>6 DEF Returned, Resolved
  <2>2. /\ ask'[r][m].request = ask[r][m].request /\ ask'[r][m].outcome \in Outcomes
        /\ \/ ask'[r][m].stage = "done"
           \/ ask'[r][m].stage = ask[r][m].stage /\ ask'[r][m].by = m
    BY <1>6 DEF Returned, Resolved, SameAsk
  <2>3. Asking(r, m) /\ ask[r][m].stage \in {"prepared", "awaiting"}
    BY <2>1 DEF Out
  <2>4. RequestExact(r, m)'
    BY <1>0, <2>1, <2>2, <2>3 DEF RequestExact, Out
  <2>5. \A q \in Rooms, n \in Members : q # r \/ n # m => RequestExact(q, n)'
    BY <1>0, <2>1 DEF RequestExact, Others, Out, Asking
  <2>6. RequestsApart'
    BY <1>0, <2>1, <2>2, <2>3, OthersApart
  <2> QED  BY <2>4, <2>5, <2>6
<1> QED  BY <1>1, <1>2, <1>3, <1>4, <1>5, <1>6, AskMoves

LEMMA PendingStep == Inv /\ [Next]_vars => PendingAsked'
<1> SUFFICES ASSUME Inv, [Next]_vars, NEW p \in [request : Nat, source : Members]
             PROVE  p \in pending' <=> \E q \in Rooms : Waits(q, p.source, p.request)'
  BY DEF PendingAsked
<1>0. p \in pending <=> \E q \in Rooms : Waits(q, p.source, p.request)
  BY DEF Inv, PendingAsked
<1>1. ASSUME UNCHANGED pending,
             \A q \in Rooms : Waits(q, p.source, p.request)' <=> Waits(q, p.source, p.request)
      PROVE  p \in pending' <=> \E q \in Rooms : Waits(q, p.source, p.request)'
  BY <1>0, <1>1
<1>2. CASE UNCHANGED asks
  BY <1>1, <1>2 DEF asks, Waits, Out, Asking
<1>3. ASSUME NEW r \in Rooms, NEW S \in SUBSET MembersOf[r], Asked(r, S)
      PROVE  p \in pending' <=> \E q \in Rooms : Waits(q, p.source, p.request)'
  <2>1. \A q \in Rooms : Out(q, p.source)' <=> Out(q, p.source)
    BY <1>3, AskedIn
  <2>2. \A q \in Rooms : Out(q, p.source) => ask'[q][p.source] = ask[q][p.source]
    BY <1>3 DEF Asked, Out
  <2> QED  BY <1>1, <1>3, <2>1, <2>2 DEF Asked, Waits
<1>4. ASSUME NEW r \in Rooms, NEW m \in Members, Joined(r, m)
      PROVE  p \in pending' <=> \E q \in Rooms : Waits(q, p.source, p.request)'
  BY <1>1, <1>4 DEF Joined, Others, Waits, Out, Asking
<1>5. ASSUME NEW r \in Rooms, NEW m \in Members, Prepare(r, m)
      PROVE  p \in pending' <=> \E q \in Rooms : Waits(q, p.source, p.request)'
  <2>1. pending' = pending \cup {[request |-> nextRequest, source |-> m]}
    BY <1>5 DEF Prepare
  <2>2. /\ ask[r][m].stage = "queued" /\ Out(r, m)' /\ ask'[r][m].request = nextRequest
        /\ ask'[r][m].outcome = ask[r][m].outcome /\ Others(r, m) /\ Asking(r, m)
    BY <1>5, PrepareAsks
  <2>3. ask'[r][m].outcome = None
    BY <2>2 DEF Inv, RequestsExact, RequestExact
  <2>4. \A q \in Rooms : Waits(q, p.source, p.request)' <=>
          Waits(q, p.source, p.request) \/ (q = r /\ p.source = m /\ p.request = nextRequest)
    BY <2>2, <2>3 DEF Waits, Out, Others, Asking
  <2>5. p \in pending' <=> p \in pending \/ (p.source = m /\ p.request = nextRequest)
    BY <2>1
  <2> QED  BY <1>0, <2>4, <2>5
<1>6. ASSUME NEW r \in Rooms, NEW m \in Members, Dispatch(r, m)
      PROVE  p \in pending' <=> \E q \in Rooms : Waits(q, p.source, p.request)'
  <2>1. UNCHANGED pending
    BY <1>6 DEF Dispatch
  <2>2. /\ Asking(r, m) /\ ask[r][m].stage = "prepared" /\ ask'[r][m].stage = "awaiting" /\ Asking(r, m)'
        /\ ask'[r][m].request = ask[r][m].request
        /\ ask'[r][m].outcome = ask[r][m].outcome /\ Others(r, m)
    BY <1>6, DispatchAsks DEF SameAsk, Out
  <2> QED  BY <1>1, <2>1, <2>2 DEF Waits, Out, Asking, Others
<1>7. ASSUME NEW r \in Rooms, NEW m \in Members, Returned(r, m), ask[r][m].outcome # None, UNCHANGED pending
      PROVE  p \in pending' <=> \E q \in Rooms : Waits(q, p.source, p.request)'
  BY <1>1, <1>7 DEF Returned, Waits, Out, Asking, Others
<1>8. ASSUME NEW r \in Rooms, NEW m \in Members, Out(r, m), Others(r, m),
             pending' = {x \in pending : x.request # ask[r][m].request},
             Out(r, m)' => ask'[r][m].outcome # None
      PROVE  p \in pending' <=> \E q \in Rooms : Waits(q, p.source, p.request)'
  <2>1. p \in pending' <=> p \in pending /\ p.request # ask[r][m].request
    BY <1>8
  <2>2. \A q \in Rooms : Waits(q, p.source, p.request)' <=>
          Waits(q, p.source, p.request) /\ p.request # ask[r][m].request
    <3> SUFFICES ASSUME NEW q \in Rooms
                 PROVE  Waits(q, p.source, p.request)' <=> Waits(q, p.source, p.request) /\ p.request # ask[r][m].request
      OBVIOUS
    <3>1. CASE q = r /\ p.source = m
      BY <1>8, <3>1 DEF Waits
    <3>2. CASE ~(q = r /\ p.source = m)
      <4>1. ask'[q][p.source] = ask[q][p.source]
        BY <1>8, <3>2 DEF Others
      <4>2. Waits(q, p.source, p.request) => p.request # ask[r][m].request
        BY <1>8, <3>2, SameRequest DEF Waits, Out
      <4> QED  BY <4>1, <4>2 DEF Waits, Out, Asking
    <3> QED  BY <3>1, <3>2
  <2> QED  BY <1>0, <2>1, <2>2
<1>9. ASSUME NEW r \in Rooms, NEW m \in Members, Returned(r, m)
      PROVE  p \in pending' <=> \E q \in Rooms : Waits(q, p.source, p.request)'
  <2>1. Out(r, m) /\ Others(r, m) /\ ~Out(r, m)'
    BY <1>9 DEF Returned, Out
  <2> QED  BY <1>7, <1>8, <1>9, <2>1 DEF Returned
<1>10. ASSUME NEW r \in Rooms, NEW m \in Members, Resolved(r, m)
       PROVE  p \in pending' <=> \E q \in Rooms : Waits(q, p.source, p.request)'
  <2>1. ask'[r][m].outcome # None
    BY <1>10 DEF Resolved
  <2> QED  BY <1>8, <1>10, <2>1 DEF Resolved
<1> QED  BY <1>2, <1>3, <1>4, <1>5, <1>6, <1>9, <1>10, AskMoves

----------------------------------------------------------------------------
(* Rounds *)

OtherRooms(r) == \A q \in Rooms : q # r => turn'[q] = turn[q] /\ busy'[q] = busy[q] /\ active'[q] = active[q]

\* The task of a room after each step that changes it.
LEMMA SpawnTurn ==
    ASSUME Inv, NEW r \in Rooms, SendUserMessage(r), Spawn(r)
    PROVE  /\ turn'[r] # None /\ turn'[r].phase = "start" /\ turn'[r].start = nextMessage
           /\ TurnExact(r)' /\ OtherRooms(r)
<1>1. PICK addressed \in SUBSET MembersOf[r] :
        turn' = [turn EXCEPT ![r] = [phase |-> "start", members |-> addressed,
                                  start |-> nextMessage, remaining |-> addressed,
                                  mentions |-> <<>>, followUps |-> 0]]
  BY DEF Spawn
<1>2. busy' = [busy EXCEPT ![r] = TRUE] /\ UNCHANGED active
  BY DEF SendUserMessage
<1>3. turn'[r] = [phase |-> "start", members |-> addressed, start |-> nextMessage, remaining |-> addressed,
                  mentions |-> <<>>, followUps |-> 0]
      /\ OtherRooms(r) /\ busy'[r]
  BY <1>1, <1>2 DEF Inv, TypeOK, OtherRooms
<1>4. <<>> \in Seq(MembersOf[r] \cup {None}) /\ <<>> \in Seq(Members \cup {None})
  OBVIOUS
<1>5. turn'[r] \in Turns
  BY <1>3, <1>4 DEF Inv, TypeOK, Turns
<1>6. turn'[r] # None
  BY <1>5
<1>7. turn'[r].members = addressed /\ turn'[r].remaining = addressed /\ turn'[r].mentions = <<>>
      /\ turn'[r].phase = "start" /\ turn'[r].start = nextMessage
  BY <1>3
<1>8. TurnExact(r)'
  BY <1>3, <1>4, <1>6, <1>7 DEF TurnExact
<1> QED  BY <1>3, <1>6, <1>7, <1>8

\* A room whose message was not saved gets no task.
LEMMA SendTurn ==
    ASSUME Inv, NEW r \in Rooms, SendUserMessage(r)
    PROVE  /\ turn[r] = None
           /\ turn'[r] # None => turn'[r].phase = "start" /\ turn'[r].start = nextMessage
           /\ TurnExact(r)' /\ OtherRooms(r)
<1>1. turn[r] = None /\ TurnExact(r)
  BY DEF SendUserMessage, Inv, TurnsExact, TurnExact
<1>2. CASE Spawn(r)
  BY <1>1, <1>2, SpawnTurn
<1>3. CASE UNCHANGED turn
  <2>1. busy' = [busy EXCEPT ![r] = TRUE] /\ UNCHANGED active
    BY DEF SendUserMessage
  <2>2. turn'[r] = None /\ active'[r] = {} /\ OtherRooms(r)
    BY <1>1, <1>3, <2>1 DEF Inv, TypeOK, OtherRooms, TurnExact
  <2> QED  BY <1>1, <2>2 DEF TurnExact
<1> QED  BY <1>2, <1>3 DEF SendUserMessage

LEMMA BeginTurn ==
    ASSUME Inv, NEW r \in Rooms, Begin(r)
    PROVE  /\ turn'[r] # None /\ turn'[r].phase = "asking" /\ turn[r] # None
           /\ turn'[r].remaining = turn[r].members /\ turn[r].members \subseteq MembersOf[r]
           /\ turn'[r].start = turn[r].start
           /\ TurnExact(r)' /\ OtherRooms(r)
<1>1. turn[r] # None /\ turn[r].phase = "start" /\ turn[r] \in Turns /\ TurnExact(r)
  BY DEF Begin, Inv, TypeOK, TurnsExact
<1>2. PICK t : t = [turn[r] EXCEPT !.phase = "asking"]
  OBVIOUS
<1>3. /\ t.phase = "asking" /\ t.members = turn[r].members /\ t.remaining = turn[r].remaining
      /\ t.mentions = turn[r].mentions /\ t.start = turn[r].start /\ t \in Turns
  BY <1>1, <1>2 DEF Turns
<1>4. turn'[r] = t /\ OtherRooms(r) /\ busy'[r] = busy[r]
  BY <1>2 DEF Begin, Inv, TypeOK, OtherRooms
<1>5. t # None
  BY <1>3
<1> QED  BY <1>1, <1>3, <1>4, <1>5 DEF TurnExact

LEMMA FollowUpTurn ==
    ASSUME Inv, NEW r \in Rooms, FollowUp(r)
    PROVE  /\ turn'[r] # None /\ turn'[r].phase = "follow-up" /\ turn[r] # None /\ turn[r].phase = "follow-ups"
           /\ turn'[r].start = turn[r].start
           /\ TurnExact(r)' /\ OtherRooms(r)
           /\ \E target \in MembersOf[r] : ask' = [ask EXCEPT ![r][target] = NewAsk("mention")]
<1>1. turn[r] # None /\ turn[r].phase = "follow-ups" /\ turn[r] \in Turns /\ TurnExact(r)
  BY DEF FollowUp, Inv, TypeOK, TurnsExact
<1>2. PICK queue : queue = turn[r].mentions
  OBVIOUS
<1>3. queue \in Seq(MembersOf[r] \cup {None})
  BY <1>1, <1>2 DEF TurnExact
<1>4. PICK k \in DOMAIN queue :
        /\ queue[k] # None
        /\ turn' = [turn EXCEPT ![r].mentions = SubSeq(queue, k + 1, Len(queue)),
                                ![r].followUps = @ + 1, ![r].phase = "follow-up"]
        /\ ask' = [ask EXCEPT ![r][queue[k]] = NewAsk("mention")]
        /\ active' = [active EXCEPT ![r] = {queue[k]}]
  BY <1>2 DEF FollowUp, Mentioned
<1>5. PICK rest, n : rest = SubSeq(queue, k + 1, Len(queue)) /\ n = turn[r].followUps + 1
  OBVIOUS
<1>6. rest \in Seq(MembersOf[r] \cup {None})
  <2>1. /\ DOMAIN queue = 1..Len(queue) /\ Len(queue) \in Nat
        /\ \A i \in 1..Len(queue) : queue[i] \in MembersOf[r] \cup {None}
    BY <1>3
  <2>2. k + 1 \in Int /\ Len(queue) \in Int /\ \A i \in (k + 1)..Len(queue) : queue[i] \in MembersOf[r] \cup {None}
    BY <1>4, <2>1
  <2>3. SubSeq(queue, k + 1, Len(queue)) \in Seq(MembersOf[r] \cup {None})
    BY <2>2, SubSeqProperties
  <2> QED  BY <1>5, <2>3
<1>7. turn[r].followUps \in Nat
  BY <1>1 DEF Turns
<1>8. n \in Nat
  BY <1>5, <1>7
<1>9. PICK t : t = [turn[r] EXCEPT !.mentions = rest, !.followUps = n, !.phase = "follow-up"]
  OBVIOUS
<1>10. /\ t.phase = "follow-up" /\ t.members = turn[r].members /\ t.remaining = turn[r].remaining
       /\ t.mentions = rest /\ t.start = turn[r].start
       /\ t = [phase |-> "follow-up", members |-> turn[r].members, start |-> turn[r].start,
               remaining |-> turn[r].remaining, mentions |-> rest, followUps |-> n]
  BY <1>1, <1>9 DEF Turns
<1>11. t \in Turns
  <2>1. rest \in Seq(Members \cup {None})
    BY <1>6, MentionsTyped
  <2> QED  BY <1>1, <1>8, <1>9, <2>1 DEF Turns
<1>12. turn' = [turn EXCEPT ![r] = t]
  BY <1>4, <1>5, <1>9
<1>13. turn'[r] = t /\ OtherRooms(r) /\ busy'[r] = busy[r]
  BY <1>4, <1>12 DEF FollowUp, Inv, TypeOK, OtherRooms
<1>14. t # None
  BY <1>11
<1>15. TurnExact(r)'
  BY <1>1, <1>6, <1>10, <1>13, <1>14 DEF TurnExact
<1>16. queue[k] \in MembersOf[r]
  BY <1>3, <1>4
<1> QED  BY <1>1, <1>4, <1>10, <1>13, <1>14, <1>15, <1>16

LEMMA CutOffTurn ==
    ASSUME Inv, NEW r \in Rooms, CutOff(r)
    PROVE  /\ turn'[r] # None /\ turn'[r].phase = "follow-ups" /\ turn[r] # None
           /\ turn[r].phase = "follow-ups" /\ turn'[r].start = turn[r].start
           /\ TurnExact(r)' /\ OtherRooms(r)
<1>1. turn[r] # None /\ turn[r].phase = "follow-ups" /\ turn[r] \in Turns /\ TurnExact(r)
  BY DEF CutOff, Inv, TypeOK, TurnsExact
<1>2. PICK t : t = [turn[r] EXCEPT !.mentions = <<>>]
  OBVIOUS
<1>3. <<>> \in Seq(MembersOf[r] \cup {None}) /\ <<>> \in Seq(Members \cup {None})
  OBVIOUS
<1>4. /\ t.phase = "follow-ups" /\ t.members = turn[r].members /\ t.remaining = turn[r].remaining
      /\ t.mentions = <<>> /\ t.start = turn[r].start /\ t \in Turns
  BY <1>1, <1>2, <1>3 DEF Turns
<1>5. turn'[r] = t /\ OtherRooms(r) /\ busy'[r] = busy[r]
  BY <1>2 DEF CutOff, Inv, TypeOK, OtherRooms
<1>6. t # None
  BY <1>4
<1> QED  BY <1>1, <1>3, <1>4, <1>5, <1>6 DEF TurnExact

LEMMA FinishTurn ==
    ASSUME Inv, NEW r \in Rooms, Finish(r)
    PROVE  /\ turn'[r] = None /\ turn[r] # None /\ turn[r].phase = "follow-ups"
           /\ TurnExact(r)' /\ OtherRooms(r)
BY DEF Finish, Inv, TypeOK, TurnExact, OtherRooms

LEMMA JoinTurn ==
    ASSUME Inv, NEW r \in Rooms, NEW m \in Members, Join(r, m)
    PROVE  /\ turn'[r] # None /\ turn[r] # None /\ turn[r].phase = "asking"
           /\ turn'[r].remaining = turn[r].remaining \ {m}
           /\ turn'[r].phase = IF turn[r].remaining \ {m} = {} THEN "follow-ups" ELSE "asking"
           /\ turn'[r].start = turn[r].start
           /\ TurnExact(r)' /\ OtherRooms(r)
<1>1. turn[r] # None /\ turn[r].phase = "asking" /\ turn[r] \in Turns /\ TurnExact(r) /\ ask[r][m] # None
      /\ ask[r][m].stage = "done"
  BY DEF Join, Inv, TypeOK, TurnsExact
<1>2. PICK outcome, remaining, queue, phase :
        /\ outcome = ask[r][m].outcome /\ remaining = turn[r].remaining \ {m}
        /\ queue = IF outcome # "failed" /\ IsGroup(r)
                     THEN Enqueue(turn[r].mentions, m, outcome, MembersOf[r]) ELSE turn[r].mentions
        /\ phase = IF JoinedAll(remaining) THEN "follow-ups" ELSE turn[r].phase
  OBVIOUS
<1>3. PICK t : t = [turn[r] EXCEPT !.remaining = remaining, !.mentions = queue, !.phase = phase]
  OBVIOUS
<1>4. turn' = [turn EXCEPT ![r] = t]
  BY <1>2, <1>3 DEF Join
<1>5. outcome \in Outcomes
  BY <1>1, <1>2 DEF Inv, RequestsExact, RequestExact, Asking
<1>6. turn[r].mentions \in Seq(MembersOf[r] \cup {None})
  BY <1>1 DEF TurnExact
<1>7. queue \in Seq(MembersOf[r] \cup {None})
  BY <1>2, <1>5, <1>6, EnqueueTyped DEF Outcomes
<1>8. queue \in Seq(Members \cup {None})
  BY <1>7, MentionsTyped
<1>9. phase = (IF turn[r].remaining \ {m} = {} THEN "follow-ups" ELSE "asking")
  BY <1>1, <1>2 DEF JoinedAll
<1>10. /\ t.phase = phase /\ t.members = turn[r].members /\ t.remaining = remaining
       /\ t.mentions = queue /\ t.start = turn[r].start
  BY <1>1, <1>3 DEF Turns
<1>11. t \in Turns
  BY <1>1, <1>2, <1>3, <1>8, <1>9 DEF Turns
<1>12. t # None
  BY <1>11
<1>13. turn'[r] = t /\ OtherRooms(r) /\ busy'[r] = busy[r]
  BY <1>4 DEF Join, Inv, TypeOK, OtherRooms
<1>14. TurnExact(r)'
  BY <1>1, <1>2, <1>7, <1>9, <1>10, <1>12, <1>13 DEF TurnExact
<1> QED  BY <1>1, <1>2, <1>9, <1>10, <1>12, <1>13, <1>14

LEMMA JoinFollowUpTurn ==
    ASSUME Inv, NEW r \in Rooms, NEW m \in Members, JoinFollowUp(r, m)
    PROVE  /\ turn'[r] # None /\ turn[r] # None /\ turn[r].phase = "follow-up"
           /\ turn'[r].phase = "follow-ups" /\ turn'[r].start = turn[r].start
           /\ TurnExact(r)' /\ OtherRooms(r)
<1>1. turn[r] # None /\ turn[r].phase = "follow-up" /\ turn[r] \in Turns /\ TurnExact(r) /\ ask[r][m] # None
      /\ ask[r][m].stage = "done"
  BY DEF JoinFollowUp, Inv, TypeOK, TurnsExact
<1>2. PICK queue : queue = IF ask[r][m].outcome # "failed"
                             THEN Enqueue(turn[r].mentions, m, ask[r][m].outcome, MembersOf[r]) ELSE turn[r].mentions
  OBVIOUS
<1>3. PICK t : t = [turn[r] EXCEPT !.phase = "follow-ups", !.mentions = queue]
  OBVIOUS
<1>4. ask[r][m].outcome \in Outcomes
  BY <1>1 DEF Inv, RequestsExact, RequestExact, Asking
<1>5. turn[r].mentions \in Seq(MembersOf[r] \cup {None})
  BY <1>1 DEF TurnExact
<1>6. queue \in Seq(MembersOf[r] \cup {None})
  BY <1>2, <1>4, <1>5, EnqueueTyped DEF Outcomes
<1>7. queue \in Seq(Members \cup {None})
  BY <1>6, MentionsTyped
<1>8. /\ t.phase = "follow-ups" /\ t.members = turn[r].members /\ t.remaining = turn[r].remaining
      /\ t.mentions = queue /\ t.start = turn[r].start /\ t \in Turns
  BY <1>1, <1>3, <1>7 DEF Turns
<1>9. t # None
  BY <1>8
<1>10. turn' = [turn EXCEPT ![r] = t]
  <2>1. CASE ask[r][m].outcome # "failed"
    BY <1>2, <1>3, <2>1 DEF JoinFollowUp
  <2>2. CASE ask[r][m].outcome = "failed"
    <3>1. turn' = [turn EXCEPT ![r] = [turn[r] EXCEPT !.phase = "follow-ups"]]
      BY <2>2 DEF JoinFollowUp
    <3>2. [turn[r] EXCEPT !.phase = "follow-ups", !.mentions = turn[r].mentions] = [turn[r] EXCEPT !.phase = "follow-ups"]
      BY <1>1 DEF Turns
    <3> QED  BY <1>2, <1>3, <2>2, <3>1, <3>2
  <2> QED  BY <2>1, <2>2
<1>11. turn'[r] = t /\ OtherRooms(r) /\ busy'[r] = busy[r]
  BY <1>10 DEF JoinFollowUp, Inv, TypeOK, OtherRooms
<1> QED  BY <1>1, <1>6, <1>8, <1>9, <1>11 DEF TurnExact

\* The rest of chat does not touch the tasks.
rounds == <<turn, busy, active>>

LEMMA RoundMoves ==
    ASSUME Inv, [Next]_vars
    PROVE  \/ /\ UNCHANGED rounds
              /\ \A q \in Rooms, n \in Members : Asking(q, n)' <=> Asking(q, n)
           \/ \E r \in Rooms :
                \/ SendUserMessage(r) \/ Begin(r) \/ FollowUp(r) \/ CutOff(r) \/ Finish(r)
                \/ \E m \in Members : Join(r, m) \/ JoinFollowUp(r, m)
<1>1. ASSUME UNCHANGED <<rounds, ask>>
      PROVE  UNCHANGED rounds /\ \A q \in Rooms, n \in Members : Asking(q, n)' <=> Asking(q, n)
  BY <1>1 DEF Asking
<1>2. ASSUME NEW m \in Members, Answer(m) \/ Stray(m) PROVE UNCHANGED <<rounds, ask>>
  BY <1>2 DEF Answer, Stray, Result, rounds
<1>3. CASE UNCHANGED vars
  BY <1>1, <1>3 DEF vars, rounds
<1>4. ASSUME NEW r \in Rooms, NEW m \in Members, Prepare(r, m) \/ Dispatch(r, m)
      PROVE  UNCHANGED rounds /\ \A q \in Rooms, n \in Members : Asking(q, n)' <=> Asking(q, n)
  <2>1. UNCHANGED rounds
    BY <1>4 DEF Prepare, Dispatch, rounds
  <2>2. Asking(r, m) /\ Asking(r, m)' /\ Others(r, m)
    BY <1>4, PrepareAsks, DispatchAsks DEF Out
  <2> QED  BY <2>1, <2>2 DEF Others, Asking
<1>5. ASSUME NEW r \in Rooms, NEW m \in Members, DispatchFails(r, m) \/ Complete(r, m)
      PROVE  UNCHANGED rounds /\ \A q \in Rooms, n \in Members : Asking(q, n)' <=> Asking(q, n)
  <2>1. UNCHANGED rounds
    BY <1>5 DEF DispatchFails, Complete, rounds
  <2>2. Asking(r, m) /\ Asking(r, m)' /\ Others(r, m)
    BY <1>5, ReturnAsks DEF Returned, Out
  <2> QED  BY <2>1, <2>2 DEF Others, Asking
<1>6. CASE Worker
  <2>1. UNCHANGED rounds
    BY <1>6 DEF Worker, rounds
  <2>2. ASSUME NEW r \in Rooms, NEW m \in Members, Resolved(r, m)
        PROVE  \A q \in Rooms, n \in Members : Asking(q, n)' <=> Asking(q, n)
    BY <2>2 DEF Resolved, Out, Others, Asking
  <2>3. UNCHANGED ask => \A q \in Rooms, n \in Members : Asking(q, n)' <=> Asking(q, n)
    BY DEF Asking
  <2> QED  BY <1>6, <2>1, <2>2, <2>3, WorkerAsks DEF asks
<1> QED  BY <1>1, <1>2, <1>3, <1>4, <1>5, <1>6 DEF Next, RunTurn, Ask

LEMMA TurnsStep == Inv /\ [Next]_vars => TurnsExact'
<1> SUFFICES ASSUME Inv, [Next]_vars PROVE \A q \in Rooms : TurnExact(q)'
  BY DEF TurnsExact
<1>0. \A q \in Rooms : TurnExact(q)
  BY DEF Inv, TurnsExact
<1>1. CASE UNCHANGED rounds
  BY <1>0, <1>1 DEF rounds, TurnExact
<1>2. ASSUME NEW r \in Rooms, TurnExact(r)', OtherRooms(r) PROVE \A q \in Rooms : TurnExact(q)'
  BY <1>0, <1>2 DEF OtherRooms, TurnExact
<1> QED  BY <1>1, <1>2, RoundMoves, SendTurn, BeginTurn, FollowUpTurn, CutOffTurn, FinishTurn, JoinTurn, JoinFollowUpTurn

LEMMA AsksStep == Inv /\ [Next]_vars => AsksExact'
<1> SUFFICES ASSUME Inv, [Next]_vars, NEW q \in Rooms, NEW n \in Members PROVE AskExact(q, n)'
  BY DEF AsksExact
<1>0. \A m \in Members : AskExact(q, m)
  BY DEF Inv, AsksExact
<1>1. ASSUME turn'[q] = turn[q], \A m \in Members : Asking(q, m)' <=> Asking(q, m)
      PROVE  AskExact(q, n)'
  BY <1>0, <1>1 DEF AskExact
<1>2. CASE UNCHANGED rounds /\ \A p \in Rooms, m \in Members : Asking(p, m)' <=> Asking(p, m)
  BY <1>1, <1>2 DEF rounds
<1>3. ASSUME NEW r \in Rooms, q # r, OtherRooms(r), \A m \in Members : ask'[q][m] = ask[q][m] PROVE AskExact(q, n)'
  BY <1>1, <1>3 DEF OtherRooms, Asking
<1>4. ASSUME NEW r \in Rooms, UNCHANGED ask, OtherRooms(r), \A m \in Members : ~Asking(r, m) PROVE AskExact(q, n)'
  <2>1. CASE q = r
    BY <1>4, <2>1 DEF AskExact, Asking
  <2> QED  BY <1>3, <1>4, <2>1
<1>5. ASSUME NEW r \in Rooms, SendUserMessage(r) \/ CutOff(r) \/ Finish(r) PROVE AskExact(q, n)'
  <2>1. UNCHANGED ask
    BY <1>5 DEF SendUserMessage, CutOff, Finish
  <2>2. OtherRooms(r) /\ (turn[r] = None \/ turn[r].phase = "follow-ups")
    BY <1>5, SendTurn, CutOffTurn, FinishTurn
  <2>3. \A m \in Members : ~Asking(r, m)
    BY <2>2 DEF Inv, AsksExact, AskExact
  <2> QED  BY <1>4, <2>1, <2>2, <2>3
<1>6. ASSUME NEW r \in Rooms, Begin(r) PROVE AskExact(q, n)'
  <2>1. OtherRooms(r) /\ turn'[r] # None /\ turn'[r].phase = "asking" /\ turn'[r].remaining = turn[r].members
        /\ turn[r].members \subseteq MembersOf[r] /\ turn[r] # None /\ turn[r].phase = "start"
    BY <1>6, BeginTurn DEF Begin
  <2>2. ask' = [ask EXCEPT ![r] = [m \in Members |-> IF m \in turn[r].members
                              THEN NewAsk(IF IsGroup(r) THEN "contribution" ELSE "direct") ELSE ask[r][m]]]
    BY <1>6 DEF Begin
  <2>3. CASE q # r
    BY <1>3, <2>1, <2>2, <2>3 DEF Inv, TypeOK
  <2>4. CASE q = r
    <3>1. ~Asking(r, n)
      BY <2>1 DEF Inv, AsksExact, AskExact
    <3>2. Asking(r, n)' => n \in turn[r].members
      BY <2>2, <3>1 DEF Inv, TypeOK, Asking
    <3> QED  BY <2>1, <2>4, <3>2 DEF AskExact
  <2> QED  BY <2>3, <2>4
<1>7. ASSUME NEW r \in Rooms, FollowUp(r) PROVE AskExact(q, n)'
  <2>1. OtherRooms(r) /\ turn'[r] # None /\ turn'[r].phase = "follow-up" /\ turn[r] # None /\ turn[r].phase = "follow-ups"
    BY <1>7, FollowUpTurn
  <2>2. PICK target \in MembersOf[r] : ask' = [ask EXCEPT ![r][target] = NewAsk("mention")]
    BY <1>7, FollowUpTurn
  <2>3. CASE q # r
    BY <1>3, <2>1, <2>2, <2>3 DEF Inv, TypeOK
  <2>4. CASE q = r
    <3>1. \A m \in Members : ~Asking(r, m)
      BY <2>1 DEF Inv, AsksExact, AskExact
    <3>2. \A m \in Members : Asking(r, m)' => m = target
      BY <2>2, <3>1 DEF Inv, TypeOK, Asking
    <3> QED  BY <2>1, <2>4, <3>2 DEF AskExact
  <2> QED  BY <2>3, <2>4
<1>8. ASSUME NEW r \in Rooms, NEW m \in Members, Join(r, m) \/ JoinFollowUp(r, m) PROVE AskExact(q, n)'
  <2>1. Joined(r, m) /\ OtherRooms(r) /\ turn'[r] # None /\ turn[r] # None
    BY <1>8, JoinAsks, JoinTurn, JoinFollowUpTurn
  <2>2. CASE q # r
    BY <1>3, <2>1, <2>2 DEF Joined, Others
  <2>3. CASE q = r
    <3>1. Asking(r, n)' => Asking(r, n) /\ n # m
      BY <2>1 DEF Joined, Others, Asking
    <3>2. CASE Join(r, m)
      <4>1. /\ turn[r].phase = "asking" /\ turn'[r].remaining = turn[r].remaining \ {m}
            /\ turn'[r].phase = IF turn[r].remaining \ {m} = {} THEN "follow-ups" ELSE "asking"
        BY <3>2, JoinTurn
      <4>2. Asking(r, n) => n \in MembersOf[r] /\ n \in turn[r].remaining
        BY <1>0, <2>3, <4>1 DEF AskExact
      <4> QED  BY <2>1, <2>3, <3>1, <4>1, <4>2 DEF AskExact
    <3>3. CASE JoinFollowUp(r, m)
      <4>1. turn[r].phase = "follow-up"
        BY <3>3, JoinFollowUpTurn
      <4>2. Asking(r, n) => m = n
        BY <1>0, <2>1, <2>3, <4>1 DEF AskExact, Joined
      <4> QED  BY <2>3, <3>1, <4>2 DEF AskExact
    <3> QED  BY <1>8, <3>2, <3>3
  <2> QED  BY <2>2, <2>3
<1> QED  BY <1>2, <1>5, <1>6, <1>7, <1>8, RoundMoves

----------------------------------------------------------------------------
(* Messages *)

\* How the messages of a step grow.
LEMMA MessageMoves ==
    ASSUME Inv, [Next]_vars
    PROVE  \/ UNCHANGED <<messages, nextMessage>>
           \/ \E r \in Rooms, role \in {"user", "error"} : /\ Push(r, role, None, Nothing) /\ ask' = ask
                                                           /\ UNCHANGED <<delivered, nextRequest>>
           \/ \E r \in Rooms, m \in Members, role \in {"error"} :
                /\ Push(r, role, None, Nothing) /\ Joined(r, m)
           \/ \E r \in Rooms, m \in Members : Complete(r, m) /\ ask[r][m].outcome # "failed"
<1>1. ASSUME NEW r \in Rooms, SendUserMessage(r) \/ CutOff(r)
      PROVE  \E role \in {"user", "error"} : /\ Push(r, role, None, Nothing) /\ ask' = ask
                                             /\ UNCHANGED <<delivered, nextRequest>>
  BY <1>1 DEF SendUserMessage, CutOff
<1>2. ASSUME NEW r \in Rooms, Begin(r) \/ FollowUp(r) \/ Finish(r) PROVE UNCHANGED <<messages, nextMessage>>
  BY <1>2 DEF Begin, FollowUp, Finish
<1>3. ASSUME NEW r \in Rooms, NEW m \in Members, Join(r, m) \/ JoinFollowUp(r, m)
      PROVE  \/ UNCHANGED <<messages, nextMessage>>
             \/ \E role \in {"error"} : Push(r, role, None, Nothing) /\ Joined(r, m)
  <2>1. UNCHANGED <<messages, nextMessage>> \/ Push(r, "error", None, Nothing)
    BY <1>3 DEF Join, JoinFollowUp
  <2> QED  BY <1>3, <2>1, JoinAsks
<1>4. ASSUME NEW r \in Rooms, NEW m \in Members, Prepare(r, m) \/ Dispatch(r, m) \/ DispatchFails(r, m)
      PROVE  UNCHANGED <<messages, nextMessage>>
  BY <1>4 DEF Prepare, Dispatch, DispatchFails
<1>5. ASSUME NEW r \in Rooms, NEW m \in Members, Complete(r, m)
      PROVE  UNCHANGED <<messages, nextMessage>> \/ ask[r][m].outcome # "failed"
  BY <1>5 DEF Complete
<1>6. ASSUME NEW m \in Members, Answer(m) \/ Stray(m) PROVE UNCHANGED <<messages, nextMessage>>
  BY <1>6 DEF Answer, Stray, Result
<1>7. Worker \/ UNCHANGED vars => UNCHANGED <<messages, nextMessage>>
  BY DEF Worker, vars
<1> QED  BY <1>1, <1>2, <1>3, <1>4, <1>5, <1>6, <1>7 DEF Next, RunTurn, Ask

\* A request is out after a step only if it was, or is new; what was delivered stays.
LEMMA RequestMoves ==
    ASSUME Inv, [Next]_vars
    PROVE  /\ \A d \in delivered : d \in delivered'
           /\ nextRequest' \in Nat /\ nextRequest <= nextRequest'
           /\ \A q \in Rooms, n \in Members : Out(q, n)' =>
                \/ Out(q, n) /\ ask'[q][n].request = ask[q][n].request
                \/ ask'[q][n].request = nextRequest
<1>0. nextRequest \in Nat
  BY DEF Inv, TypeOK
<1>1. CASE UNCHANGED asks
  BY <1>0, <1>1 DEF asks, Out, Asking
<1>2. ASSUME NEW r \in Rooms, NEW S \in SUBSET MembersOf[r], Asked(r, S)
      PROVE  /\ UNCHANGED <<delivered, nextRequest>>
             /\ \A q \in Rooms, n \in Members : Out(q, n)' => Out(q, n) /\ ask'[q][n].request = ask[q][n].request
  <2>1. ASSUME NEW q \in Rooms, NEW n \in Members, Out(q, n)' PROVE Out(q, n) /\ ask'[q][n].request = ask[q][n].request
    <3>1. Out(q, n)
      BY <1>2, <2>1, AskedIn
    <3>2. ask'[q][n] = ask[q][n]
      BY <1>2, <3>1 DEF Asked, Out
    <3> QED  BY <3>1, <3>2
  <2> QED  BY <1>2, <2>1 DEF Asked
<1>3. ASSUME NEW r \in Rooms, NEW m \in Members, Joined(r, m)
      PROVE  /\ UNCHANGED <<delivered, nextRequest>>
             /\ \A q \in Rooms, n \in Members : Out(q, n)' => Out(q, n) /\ ask'[q][n].request = ask[q][n].request
  BY <1>3 DEF Joined, Others, Out, Asking
<1>4. ASSUME NEW r \in Rooms, NEW m \in Members, Prepare(r, m)
      PROVE  /\ UNCHANGED delivered /\ nextRequest' = nextRequest + 1
             /\ \A q \in Rooms, n \in Members : Out(q, n)' =>
                  \/ Out(q, n) /\ ask'[q][n].request = ask[q][n].request
                  \/ ask'[q][n].request = nextRequest
  <2>1. UNCHANGED delivered /\ nextRequest' = nextRequest + 1
    BY <1>4 DEF Prepare
  <2>2. ask'[r][m].request = nextRequest /\ Others(r, m)
    BY <1>4, PrepareAsks
  <2> QED  BY <2>1, <2>2 DEF Others, Out, Asking
<1>5. ASSUME NEW r \in Rooms, NEW m \in Members, Dispatch(r, m)
      PROVE  /\ \A d \in delivered : d \in delivered'
             /\ UNCHANGED nextRequest
             /\ \A q \in Rooms, n \in Members : Out(q, n)' => Out(q, n) /\ ask'[q][n].request = ask[q][n].request
  <2>1. (\A d \in delivered : d \in delivered') /\ UNCHANGED nextRequest
    BY <1>5 DEF Dispatch
  <2>2. Out(r, m) /\ ask'[r][m].request = ask[r][m].request /\ Others(r, m)
    BY <1>5, DispatchAsks DEF SameAsk, Out
  <2> QED  BY <2>1, <2>2 DEF Others, Out, Asking
<1>6. ASSUME NEW r \in Rooms, NEW m \in Members, Returned(r, m) \/ Resolved(r, m)
      PROVE  /\ UNCHANGED <<delivered, nextRequest>>
             /\ \A q \in Rooms, n \in Members : Out(q, n)' => Out(q, n) /\ ask'[q][n].request = ask[q][n].request
  BY <1>6 DEF Returned, Resolved, Others, SameAsk, Out, Asking
<1>7. CASE \E r \in Rooms, m \in Members : Prepare(r, m)
  BY <1>0, <1>4, <1>7
<1>8. CASE \/ \E r \in Rooms, m \in Members : Joined(r, m) \/ Dispatch(r, m) \/ Returned(r, m) \/ Resolved(r, m)
           \/ \E r \in Rooms : \E S \in SUBSET MembersOf[r] : Asked(r, S)
  <2>1. UNCHANGED nextRequest => nextRequest' \in Nat /\ nextRequest <= nextRequest'
    BY <1>0
  <2> QED  BY <1>2, <1>3, <1>5, <1>6, <1>8, <2>1
<1> QED  BY <1>1, <1>7, <1>8, AskMoves

\* A new message keeps the rest exact, if it is itself.
LEMMA PushExact ==
    ASSUME Inv, [Next]_vars, NEW r \in Rooms, NEW role \in Roles, NEW author \in Members \cup {None},
           NEW answers \in [request : Nat, source : Members \cup {None}],
           Push(r, role, author, answers), nextRequest' = nextRequest,
           \A q \in Rooms, n \in Members : Out(q, n)' => Out(q, n) /\ ask'[q][n].request = ask[q][n].request,
           author = None => answers = Nothing /\ role \notin {"agent", "summary"},
           author # None =>
             /\ author \in MembersOf[r] /\ answers.source = author
             /\ answers \in delivered /\ answers.request \in 1..(nextRequest - 1)
             /\ \A q \in Rooms, n \in Members : Out(q, n)' => ask'[q][n].request # answers.request
             /\ \A q \in Rooms : \A j \in DOMAIN messages[q] : messages[q][j].answers # answers
    PROVE  MessagesExact'
<1>0. TypeOK /\ \A q \in Rooms : \A k \in DOMAIN messages[q] : MessageExact(q, k)
  BY DEF Inv, MessagesExact
<1>1. /\ nextMessage \in Nat /\ nextMessage' = nextMessage + 1
      /\ \A d \in delivered : d \in delivered'
  BY <1>0, RequestMoves DEF Push, TypeOK
<1>2. PICK x : x = [id |-> nextMessage, role |-> role, author |-> author, answers |-> answers]
  OBVIOUS
<1>3. x.id = nextMessage /\ x.role = role /\ x.author = author /\ x.answers = answers
  BY <1>2
<1>4. /\ \A q \in Rooms : q # r => messages'[q] = messages[q]
      /\ \A k \in DOMAIN messages[r] : k \in DOMAIN messages'[r] /\ messages'[r][k] = messages[r][k]
      /\ \A k \in DOMAIN messages'[r] :
           \/ k \in DOMAIN messages[r]
           \/ k \notin DOMAIN messages[r] /\ k = Len(messages[r]) + 1 /\ messages'[r][k] = x
  BY <1>0, <1>2, Pushed
<1>5. \A q \in Rooms : \A k \in DOMAIN messages'[q] :
        \/ k \in DOMAIN messages[q] /\ messages'[q][k] = messages[q][k]
        \/ q = r /\ k = Len(messages[r]) + 1 /\ messages'[q][k] = x
  BY <1>4
<1>6. \A q \in Rooms : \A k \in DOMAIN messages[q] :
        messages[q][k].id < nextMessage /\ messages[q][k].id \in Nat
  <2> SUFFICES ASSUME NEW q \in Rooms, NEW k \in DOMAIN messages[q]
               PROVE  messages[q][k].id < nextMessage /\ messages[q][k].id \in Nat
    OBVIOUS
  <2>1. messages[q] \in Seq(Messages)
    BY <1>0 DEF TypeOK
  <2>2. messages[q][k] \in Messages
    BY <2>1
  <2> QED  BY <1>0, <2>2 DEF MessageExact, Messages
<1>7. author # None => \A q \in Rooms : \A j \in DOMAIN messages[q] : messages[q][j].answers # answers
  OBVIOUS
<1>8. \A q \in Rooms : \A k \in DOMAIN messages[q] : messages[q][k].author # None => messages[q][k].answers # answers
  <2> SUFFICES ASSUME NEW q \in Rooms, NEW k \in DOMAIN messages[q], messages[q][k].author # None
               PROVE  messages[q][k].answers # answers
    OBVIOUS
  <2>1. CASE author # None
    BY <1>7, <2>1
  <2>2. CASE author = None
    <3>1. messages[q][k].answers.source # None
      BY <1>0 DEF MessageExact, Answered
    <3> QED  BY <2>2, <3>1 DEF Nothing
  <2> QED  BY <2>1, <2>2
<1> SUFFICES ASSUME NEW q \in Rooms, NEW k \in DOMAIN messages'[q] PROVE MessageExact(q, k)'
  BY DEF MessagesExact
<1>9. CASE k \in DOMAIN messages[q] /\ messages'[q][k] = messages[q][k]
  <2>0. PICK y : y = messages[q][k]
    OBVIOUS
  <2>a. y = messages'[q][k]
    BY <1>9, <2>0
  <2>b. /\ y.id < nextMessage /\ y.id \in Nat
        /\ y.author = None => y.answers = Nothing /\ y.role \notin {"agent", "summary"}
        /\ y.author # None => Answered(q, y)
        /\ \A p \in Rooms : \A j \in DOMAIN messages[p] :
             \/ messages[p][j].id = y.id
             \/ y.author # None /\ messages[p][j].answers = y.answers
             => p = q /\ j = k
    BY <1>0, <1>6, <1>9, <2>0 DEF MessageExact
  <2>1. y.id < nextMessage'
    BY <1>1, <2>b
  <2>2. y.author # None =>
          /\ y.author \in MembersOf[q] /\ y.answers.source = y.author
          /\ y.answers \in delivered' /\ y.answers.request \in 1..(nextRequest' - 1)
          /\ \A p \in Rooms, m \in Members : Out(p, m)' => ask'[p][m].request # y.answers.request
    BY <1>1, <2>b DEF Answered
  <2>3. ASSUME NEW p \in Rooms, NEW j \in DOMAIN messages'[p],
               messages'[p][j].id = y.id \/ (y.author # None /\ messages'[p][j].answers = y.answers)
        PROVE  p = q /\ j = k
    <3>1. CASE j \in DOMAIN messages[p] /\ messages'[p][j] = messages[p][j]
      BY <2>3, <2>b, <3>1
    <3>2. CASE messages'[p][j] = x
      BY <1>1, <1>3, <1>8, <1>9, <2>0, <2>3, <2>b, <3>2
    <3> QED  BY <1>5, <3>1, <3>2
  <2> QED  BY <2>1, <2>2, <2>3, <2>a, <2>b DEF MessageExact, Answered
<1>10. CASE q = r /\ k = Len(messages[r]) + 1 /\ messages'[q][k] = x
  <2>1. x.id < nextMessage'
    BY <1>1, <1>3
  <2>2. x.author # None =>
          /\ x.author \in MembersOf[q] /\ x.answers.source = x.author
          /\ x.answers \in delivered' /\ x.answers.request \in 1..(nextRequest' - 1)
          /\ \A p \in Rooms, m \in Members : Out(p, m)' => ask'[p][m].request # x.answers.request
    BY <1>1, <1>3, <1>10
  <2>3. ASSUME NEW p \in Rooms, NEW j \in DOMAIN messages'[p],
               messages'[p][j].id = x.id \/ (x.author # None /\ messages'[p][j].answers = x.answers)
        PROVE  p = q /\ j = k
    <3>1. CASE j \in DOMAIN messages[p] /\ messages'[p][j] = messages[p][j]
      BY <1>1, <1>3, <1>6, <1>7, <2>3, <3>1
    <3>2. CASE p = r /\ j = Len(messages[r]) + 1
      BY <1>10, <3>2
    <3> QED  BY <1>5, <3>1, <3>2
  <2> QED  BY <1>3, <1>10, <2>1, <2>2, <2>3 DEF MessageExact, Answered
<1> QED  BY <1>5, <1>9, <1>10

\* What Complete adds.
LEMMA Completed ==
    ASSUME Inv, NEW r \in Rooms, NEW m \in Members, Complete(r, m), ask[r][m].outcome # "failed"
    PROVE  /\ Out(r, m) /\ m \in MembersOf[r] /\ Returned(r, m) /\ UNCHANGED <<turn, delivered, nextRequest>>
           /\ [request |-> ask[r][m].request, source |-> m] \in delivered
           /\ Push(r, RoleOf(ask[r][m].kind, ask[r][m].outcome), m, [request |-> ask[r][m].request, source |-> m])
           /\ ask[r][m].request \in 1..(nextRequest - 1)
<1>1. Out(r, m) /\ ask[r][m].stage = "awaiting" /\ ask[r][m].outcome # None
  BY DEF Complete, Out, Asking
<1>2. ask[r][m].request \in 1..(nextRequest - 1) /\ Asking(r, m)
  BY <1>1, OutFacts
<1>3. RequestExact(r, m) /\ AskExact(r, m)
  BY DEF Inv, RequestsExact, AsksExact
<1>4. ask[r][m].by = m /\ [request |-> ask[r][m].request, source |-> m] \in delivered /\ m \in MembersOf[r]
  BY <1>1, <1>2, <1>3 DEF RequestExact, AskExact
<1>5. Push(r, RoleOf(ask[r][m].kind, ask[r][m].outcome), m, [request |-> ask[r][m].request, source |-> m])
  BY <1>4 DEF Complete
<1>6. UNCHANGED <<turn, delivered, nextRequest>>
  BY DEF Complete
<1> QED  BY <1>1, <1>2, <1>4, <1>5, <1>6, ReturnAsks

LEMMA MessagesStep == Inv /\ [Next]_vars => MessagesExact'
<1> SUFFICES ASSUME Inv, [Next]_vars PROVE MessagesExact'
  OBVIOUS
<1>0. \A q \in Rooms : \A k \in DOMAIN messages[q] : MessageExact(q, k)
  BY DEF Inv, MessagesExact
<1>a. nextRequest \in Nat
  BY DEF Inv, TypeOK
<1>1. CASE UNCHANGED <<messages, nextMessage>>
  <2> SUFFICES ASSUME NEW q \in Rooms, NEW k \in DOMAIN messages[q] PROVE MessageExact(q, k)'
    BY <1>1 DEF MessagesExact
  <2>1. MessageExact(q, k)
    BY <1>0
  <2>2. PICK x : x = messages[q][k]
    OBVIOUS
  <2>3. Answered(q, x) => Answered(q, x)'
    <3> SUFFICES ASSUME Answered(q, x) PROVE Answered(q, x)'
      OBVIOUS
    <3>1. x.answers.request \in 1..(nextRequest' - 1) /\ x.answers.request # nextRequest
      BY <1>a, RequestMoves DEF Answered
    <3>2. x.answers \in delivered'
      BY RequestMoves DEF Answered
    <3>3. \A p \in Rooms, m \in Members : Out(p, m)' => ask'[p][m].request # x.answers.request
      BY <3>1, RequestMoves DEF Answered
    <3> QED  BY <3>1, <3>2, <3>3 DEF Answered
  <2>4. x' = x
    OBVIOUS
  <2> QED  BY <1>1, <2>1, <2>2, <2>3 DEF MessageExact
<1>2. ASSUME NEW r \in Rooms, NEW role \in {"user", "error"}, Push(r, role, None, Nothing),
             ask' = ask, UNCHANGED nextRequest
      PROVE  MessagesExact'
  <2>1. \A q \in Rooms, n \in Members : Out(q, n)' => Out(q, n) /\ ask'[q][n].request = ask[q][n].request
    BY <1>2 DEF Out, Asking
  <2>2. role \in Roles /\ role \notin {"agent", "summary"}
    BY DEF Roles
  <2> QED  BY <1>2, <2>1, <2>2, PushExact, NothingTyped
<1>3. ASSUME NEW r \in Rooms, NEW m \in Members, NEW role \in {"error"}, Push(r, role, None, Nothing), Joined(r, m)
      PROVE  MessagesExact'
  <2>1. \A q \in Rooms, n \in Members : Out(q, n)' => Out(q, n) /\ ask'[q][n].request = ask[q][n].request
    BY <1>3 DEF Joined, Others, Out, Asking
  <2>2. role \in Roles /\ role \notin {"agent", "summary"} /\ nextRequest' = nextRequest
    BY <1>3 DEF Roles, Joined
  <2> QED  BY <1>3, <2>1, <2>2, PushExact, NothingTyped
<1>4. ASSUME NEW r \in Rooms, NEW m \in Members, Complete(r, m), ask[r][m].outcome # "failed"
      PROVE  MessagesExact'
  <2>1. /\ Out(r, m) /\ m \in MembersOf[r] /\ Returned(r, m) /\ nextRequest' = nextRequest
        /\ [request |-> ask[r][m].request, source |-> m] \in delivered
        /\ Push(r, RoleOf(ask[r][m].kind, ask[r][m].outcome), m, [request |-> ask[r][m].request, source |-> m])
        /\ ask[r][m].request \in 1..(nextRequest - 1)
    BY <1>4, Completed
  <2>2. PICK role, answers :
          role = RoleOf(ask[r][m].kind, ask[r][m].outcome) /\ answers = [request |-> ask[r][m].request, source |-> m]
    OBVIOUS
  <2>3. role \in Roles /\ answers \in [request : Nat, source : Members \cup {None}]
        /\ answers.source = m /\ answers.request = ask[r][m].request
    BY <1>a, <2>1, <2>2 DEF RoleOf, Roles
  <2>4. \A q \in Rooms, n \in Members : Out(q, n)' =>
          Out(q, n) /\ ask'[q][n].request = ask[q][n].request /\ ~(q = r /\ n = m)
    BY <2>1 DEF Returned, Others, Out, Asking
  <2>5. \A q \in Rooms, n \in Members : Out(q, n)' => ask'[q][n].request # answers.request
    BY <2>1, <2>3, <2>4, SameRequest DEF Out
  <2>6. ASSUME NEW q \in Rooms, NEW j \in DOMAIN messages[q] PROVE messages[q][j].answers # answers
    <3>1. messages[q][j].author = None => messages[q][j].answers = Nothing
      BY <1>0 DEF MessageExact
    <3>2. messages[q][j].author # None => messages[q][j].answers.request # ask[r][m].request
      BY <1>0, <2>1 DEF MessageExact, Answered
    <3> QED  BY <2>1, <2>3, <3>1, <3>2 DEF Nothing
  <2>7. Push(r, role, m, answers) /\ m \in Members \cup {None} /\ m # None /\ answers \in delivered
        /\ answers.request \in 1..(nextRequest - 1)
    BY <2>1, <2>2
  <2>8. \A q \in Rooms, n \in Members : Out(q, n)' => Out(q, n) /\ ask'[q][n].request = ask[q][n].request
    BY <2>4
  <2>9. \A q \in Rooms : \A j \in DOMAIN messages[q] : messages[q][j].answers # answers
    BY <2>6
  <2> QED  BY <2>1, <2>3, <2>5, <2>7, <2>8, <2>9, PushExact
<1> QED  BY <1>1, <1>2, <1>3, <1>4, MessageMoves

----------------------------------------------------------------------------
(* Contexts *)

LEMMA StartKept ==
    ASSUME Inv, [Next]_vars, NEW q \in Rooms, turn[q] # None, turn'[q] # None
    PROVE  turn'[q].start = turn[q].start
<1>1. CASE UNCHANGED rounds
  BY <1>1 DEF rounds
<1>2. ASSUME NEW r \in Rooms, OtherRooms(r), turn'[r].start = turn[r].start PROVE turn'[q].start = turn[q].start
  BY <1>2 DEF OtherRooms
<1>3. ASSUME NEW r \in Rooms, OtherRooms(r), turn[r] = None \/ turn'[r] = None PROVE turn'[q].start = turn[q].start
  BY <1>3 DEF OtherRooms
<1> QED  BY <1>1, <1>2, <1>3, RoundMoves, SendTurn, BeginTurn, FollowUpTurn, CutOffTurn, FinishTurn,
            JoinTurn, JoinFollowUpTurn

\* An ask that stays in line keeps what it is.
Steady(q, n) ==
    /\ In(q, n) /\ (Out(q, n)' => Out(q, n))
    /\ ask'[q][n].kind = ask[q][n].kind /\ ask'[q][n].context = ask[q][n].context

LEMMA Steadiness ==
    ASSUME Inv, [Next]_vars, NEW q \in Rooms, NEW n \in Members, In(q, n)'
    PROVE  \/ Steady(q, n)
           \/ Prepare(q, n)
           \/ /\ ~Out(q, n)' /\ UNCHANGED messages
              /\ ask'[q][n].kind = "contribution" => turn[q] # None /\ turn[q].phase = "start"
<1>1. ASSUME ask'[q][n] = ask[q][n] PROVE Steady(q, n)
  BY <1>1 DEF Steady, In, Out, Asking
<1>2. ASSUME NEW r \in Rooms, NEW S \in SUBSET MembersOf[r], Asked(r, S)
      PROVE  \/ Steady(q, n)
             \/ /\ ~Out(q, n)' /\ UNCHANGED messages
                /\ ask'[q][n].kind = "contribution" => turn[q] # None /\ turn[q].phase = "start"
  <2>1. CASE q # r \/ n \notin S
    BY <1>1, <1>2, <2>1 DEF Asked
  <2>2. CASE q = r /\ n \in S
    <3>1. PICK kind \in {"direct", "contribution", "mention"} :
            /\ ask'[r][n] = NewAsk(kind)
            /\ kind = "contribution" => turn[r] # None /\ turn[r].phase = "start"
      BY <1>2, <2>2 DEF Asked
    <3>2. ask'[q][n].kind = kind /\ ask'[q][n].stage = "queued"
      BY <2>2, <3>1, NewAskFields
    <3>3. ~Out(q, n)' /\ UNCHANGED messages
      BY <1>2, <3>2 DEF Asked, Out
    <3> QED  BY <2>2, <3>1, <3>2, <3>3
  <2> QED  BY <2>1, <2>2
<1>3. ASSUME NEW r \in Rooms, NEW m \in Members, Joined(r, m) PROVE Steady(q, n)
  <2>1. q # r \/ n # m
    BY <1>3 DEF Joined, In, Asking
  <2> QED  BY <1>1, <1>3, <2>1 DEF Joined, Others
<1>4. ASSUME NEW r \in Rooms, NEW m \in Members, Prepare(r, m) PROVE Steady(q, n) \/ Prepare(q, n)
  <2>1. Others(r, m)
    BY <1>4, PrepareAsks
  <2> QED  BY <1>1, <1>4, <2>1 DEF Others
<1>5. ASSUME NEW r \in Rooms, NEW m \in Members, Dispatch(r, m) PROVE Steady(q, n)
  <2>1. /\ Others(r, m) /\ Asking(r, m) /\ ask[r][m].stage = "prepared"
        /\ ask'[r][m].kind = ask[r][m].kind /\ ask'[r][m].context = ask[r][m].context
    BY <1>5, DispatchAsks DEF SameAsk
  <2>2. CASE q = r /\ n = m
    BY <2>1, <2>2 DEF Steady, In, Out
  <2> QED  BY <1>1, <2>1, <2>2 DEF Others
<1>6. ASSUME NEW r \in Rooms, NEW m \in Members, Returned(r, m) PROVE Steady(q, n)
  <2>1. q # r \/ n # m
    BY <1>6 DEF Returned, In
  <2> QED  BY <1>1, <1>6, <2>1 DEF Returned, Others
<1>7. ASSUME NEW r \in Rooms, NEW m \in Members, Resolved(r, m) PROVE Steady(q, n)
  <2>1. CASE q = r /\ n = m
    BY <1>7, <2>1 DEF Resolved, SameAsk, Steady, In, Out
  <2> QED  BY <1>1, <1>7, <2>1 DEF Resolved, Others
<1>8. CASE UNCHANGED asks
  BY <1>1, <1>8 DEF asks
<1> QED  BY <1>2, <1>3, <1>4, <1>5, <1>6, <1>7, <1>8, AskMoves

\* In which room the messages grow, and by whose.
Grown(r, author) ==
    /\ nextMessage' >= nextMessage
    /\ \A q \in Rooms : \A k \in DOMAIN messages'[q] :
         \/ k \in DOMAIN messages[q] /\ messages'[q][k] = messages[q][k]
         \/ q = r /\ messages'[q][k].id = nextMessage /\ messages'[q][k].author = author

LEMMA PushGrows ==
    ASSUME Inv, NEW r \in Rooms, NEW role \in Roles, NEW author \in Members \cup {None},
           NEW answers \in [request : Nat, source : Members \cup {None}],
           Push(r, role, author, answers)
    PROVE  Grown(r, author)
<1>1. TypeOK /\ nextMessage \in Nat
  BY DEF Inv, TypeOK
<1>2. /\ nextMessage' = nextMessage + 1
      /\ \A q \in Rooms : q # r => messages'[q] = messages[q]
      /\ \A k \in DOMAIN messages[r] : k \in DOMAIN messages'[r] /\ messages'[r][k] = messages[r][k]
      /\ \A k \in DOMAIN messages'[r] :
           \/ k \in DOMAIN messages[r]
           \/ /\ k \notin DOMAIN messages[r] /\ k = Len(messages[r]) + 1
              /\ messages'[r][k] = [id |-> nextMessage, role |-> role, author |-> author, answers |-> answers]
  BY <1>1, Pushed
<1>3. nextMessage' >= nextMessage
  BY <1>1, <1>2
<1> QED  BY <1>2, <1>3 DEF Grown

\* Messages that an ask which stays does not see are of others, or of after it.
LEMMA ContextKept ==
    ASSUME Inv, [Next]_vars, NEW q \in Rooms, NEW n \in Members, In(q, n)', Steady(q, n),
           NEW r \in Rooms, NEW author, Grown(r, author),
           author = n => ~Out(q, n)' /\ q # r
    PROVE  ContextExact(q, n)' /\ FirstWord(q, n)'
<1>1. ContextExact(q, n) /\ FirstWord(q, n) /\ AskExact(q, n) /\ AskExact(q, n)' /\ nextMessage \in Nat
  BY AsksStep DEF Inv, ContextsExact, AsksExact, TypeOK
<1>2. turn[q] # None /\ turn'[q] # None
  BY <1>1 DEF AskExact, Steady, In
<1>3. turn'[q].start = turn[q].start
  BY <1>2, StartKept
<1>4. ASSUME Out(q, n)' PROVE ContextExact(q, n)'
  <2>1. Out(q, n) /\ ask'[q][n].kind = ask[q][n].kind /\ ask'[q][n].context = ask[q][n].context
    BY <1>4 DEF Steady
  <2>2. ask[q][n] \in Asks
    BY <2>1, OutFacts
  <2>3. \A i \in ask[q][n].context : i < nextMessage /\ i \in Nat
    BY <1>1, <2>1, <2>2 DEF ContextExact, Asks
  <2>4. nextMessage' \in Nat /\ nextMessage' >= nextMessage
    BY TypeStep DEF TypeOK, Grown
  <2>5. \A i \in ask'[q][n].context : i < nextMessage'
    BY <1>1, <2>1, <2>3, <2>4
  <2>6. nextMessage \notin ask[q][n].context
    BY <1>1, <2>3
  <2>7. ASSUME NEW p \in Rooms, NEW k \in DOMAIN messages'[p]
        PROVE  /\ messages'[p][k].id \in ask'[q][n].context =>
                    p \in Visible(q, n) /\ (p = q /\ ask'[q][n].kind = "contribution" => messages'[p][k].id <= turn'[q].start)
               /\ messages'[p][k].author = n /\ p \in Visible(q, n) => messages'[p][k].id \in ask'[q][n].context
    <3>1. CASE k \in DOMAIN messages[p] /\ messages'[p][k] = messages[p][k]
      BY <1>1, <1>3, <2>1, <3>1 DEF ContextExact
    <3>2. CASE messages'[p][k].id = nextMessage /\ messages'[p][k].author = author
      BY <1>4, <2>1, <2>6, <3>2
    <3> QED  BY <3>1, <3>2 DEF Grown
  <2> QED  BY <2>5, <2>7 DEF ContextExact, Visible
<1>5. ~Out(q, n)' => ContextExact(q, n)'
  BY DEF ContextExact
<1>6. FirstWord(q, n)'
  <2> SUFFICES ASSUME ask'[q][n].kind = "contribution", NEW k \in DOMAIN messages'[q], messages'[q][k].author = n
               PROVE  messages'[q][k].id <= turn'[q].start
    BY DEF FirstWord
  <2>1. In(q, n) /\ ask[q][n].kind = "contribution"
    BY DEF Steady
  <2>2. k \in DOMAIN messages[q] /\ messages'[q][k] = messages[q][k]
    BY DEF Grown
  <2> QED  BY <1>1, <1>3, <2>1, <2>2 DEF FirstWord
<1> QED  BY <1>4, <1>5, <1>6

LEMMA ContextIs ==
    ASSUME NEW r \in Rooms, NEW m \in Members, NEW kind, NEW start, NEW i
    PROVE  i \in Context(r, m, kind, start) <=>
             \E q \in Visible(r, m) : \E k \in DOMAIN messages[q] :
               messages[q][k].id = i /\ (q = r /\ kind = "contribution" => messages[q][k].id <= start)
BY DEF Context, ToSet

LEMMA PreparedContext ==
    ASSUME Inv, NEW r \in Rooms, NEW m \in Members, Prepare(r, m)
    PROVE  ContextExact(r, m)' /\ FirstWord(r, m)'
<1>1. /\ Asking(r, m) /\ ask[r][m].stage = "queued" /\ ask'[r][m].kind = ask[r][m].kind
      /\ ask'[r][m].context = Context(r, m, ask[r][m].kind, turn[r].start)
  BY PrepareAsks
<1>2. UNCHANGED <<messages, nextMessage, turn>>
  BY DEF Prepare
<1>3. FirstWord(r, m) /\ In(r, m) /\ \A q \in Rooms : \A k \in DOMAIN messages[q] : MessageExact(q, k)
  BY <1>1 DEF Inv, ContextsExact, MessagesExact, In
<1>4. \A i : i \in ask'[r][m].context <=>
             \E q \in Visible(r, m) : \E k \in DOMAIN messages[q] :
               messages[q][k].id = i /\ (q = r /\ ask[r][m].kind = "contribution" => messages[q][k].id <= turn[r].start)
  BY <1>1, ContextIs
<1>5. Visible(r, m) \subseteq Rooms
  BY DEF Visible
<1>6. \A i \in ask'[r][m].context : i < nextMessage
  BY <1>3, <1>4, <1>5 DEF MessageExact
<1>7. ASSUME NEW q \in Rooms, NEW k \in DOMAIN messages[q], messages[q][k].id \in ask'[r][m].context
      PROVE  q \in Visible(r, m) /\ (q = r /\ ask[r][m].kind = "contribution" => messages[q][k].id <= turn[r].start)
  <2>1. PICK p \in Visible(r, m) : \E j \in DOMAIN messages[p] :
               messages[p][j].id = messages[q][k].id /\ (p = r /\ ask[r][m].kind = "contribution" => messages[p][j].id <= turn[r].start)
    BY <1>4, <1>7
  <2>2. PICK j \in DOMAIN messages[p] :
               messages[p][j].id = messages[q][k].id /\ (p = r /\ ask[r][m].kind = "contribution" => messages[p][j].id <= turn[r].start)
    BY <2>1
  <2>3. p = q
    BY <1>3, <1>5, <2>2 DEF MessageExact
  <2> QED  BY <2>2, <2>3
<1>8. ASSUME NEW q \in Visible(r, m), NEW k \in DOMAIN messages[q], messages[q][k].author = m
      PROVE  messages[q][k].id \in ask'[r][m].context
  <2>1. q = r /\ ask[r][m].kind = "contribution" => messages[q][k].id <= turn[r].start
    BY <1>3, <1>8 DEF FirstWord
  <2> QED  BY <1>4, <2>1
<1>9. ContextExact(r, m)'
  <2>1. \A q \in Rooms : \A k \in DOMAIN messages[q] :
          /\ messages[q][k].id \in ask'[r][m].context =>
               q \in Visible(r, m) /\ (q = r /\ ask[r][m].kind = "contribution" => messages[q][k].id <= turn[r].start)
          /\ messages[q][k].author = m /\ q \in Visible(r, m) => messages[q][k].id \in ask'[r][m].context
    BY <1>7, <1>8
  <2> QED  BY <1>1, <1>2, <1>6, <2>1 DEF ContextExact, Visible
<1>10. FirstWord(r, m)'
  BY <1>1, <1>2, <1>3 DEF FirstWord
<1> QED  BY <1>9, <1>10

\* Nothing is said in a round before its members are asked.
LEMMA StartLastStep == Inv /\ [Next]_vars => \A q \in Rooms : StartLast(q)'
<1> SUFFICES ASSUME Inv, [Next]_vars, NEW q \in Rooms, turn'[q] # None, turn'[q].phase = "start",
                    NEW k \in DOMAIN messages'[q]
             PROVE  messages'[q][k].id <= turn'[q].start
  BY DEF StartLast
<1>0. /\ StartLast(q) /\ nextMessage \in Nat
      /\ \A j \in DOMAIN messages[q] : messages[q][j].id < nextMessage
  BY DEF Inv, ContextsExact, MessagesExact, MessageExact, TypeOK
<1>a. messages'[q][k] \in Messages
  <2>1. messages'[q] \in Seq(Messages)
    BY TypeStep DEF TypeOK
  <2> QED  BY <2>1
<1>b. messages'[q][k].id \in Nat
  BY <1>a DEF Messages
<1>1. ASSUME SendUserMessage(q) PROVE messages'[q][k].id <= turn'[q].start
  <2>1. turn'[q].start = nextMessage
    BY <1>1, SendTurn
  <2>2. Grown(q, None)
    BY <1>1, PushGrows, NothingTyped DEF SendUserMessage, Roles
  <2>3. messages'[q][k].id <= nextMessage
    BY <1>0, <1>b, <2>2 DEF Grown
  <2> QED  BY <2>1, <2>3
<1>2. ASSUME turn'[q] = turn[q], messages'[q] = messages[q] PROVE messages'[q][k].id <= turn'[q].start
  BY <1>0, <1>2 DEF StartLast
<1>3. ASSUME NEW r \in Rooms, SendUserMessage(r) \/ RunTurn(r), r # q
      PROVE  turn'[q] = turn[q] /\ messages'[q] = messages[q]
  <2>1. OtherRooms(r)
    BY <1>3, SendTurn, BeginTurn, FollowUpTurn, CutOffTurn, FinishTurn, JoinTurn, JoinFollowUpTurn DEF RunTurn
  <2>2. UNCHANGED messages \/ \E role \in Roles : Push(r, role, None, Nothing)
    BY <1>3 DEF RunTurn, SendUserMessage, Begin, FollowUp, CutOff, Finish, Join, JoinFollowUp, Roles
  <2> QED  BY <1>3, <2>1, <2>2 DEF OtherRooms, Push, Inv, TypeOK
<1>4. ASSUME RunTurn(q) PROVE FALSE
  <2>1. turn'[q] = None \/ turn'[q].phase # "start"
    BY <1>4, BeginTurn, FollowUpTurn, CutOffTurn, FinishTurn, JoinTurn, JoinFollowUpTurn DEF RunTurn
  <2> QED  BY <2>1
<1>5. ASSUME NEW r \in Rooms, NEW m \in Members, Ask(r, m)
      PROVE  turn'[q] = turn[q] /\ messages'[q] = messages[q]
  <2>1. turn'[q] = turn[q]
    BY <1>5 DEF Ask, Prepare, Dispatch, DispatchFails, Complete
  <2>2. CASE UNCHANGED messages
    BY <2>1, <2>2
  <2>3. CASE Complete(r, m) /\ ask[r][m].outcome # "failed"
    <3>1. Out(r, m) /\ Push(r, RoleOf(ask[r][m].kind, ask[r][m].outcome), m, [request |-> ask[r][m].request, source |-> m])
      BY <2>3, Completed
    <3>2. AskExact(r, m)
      BY DEF Inv, AsksExact
    <3>3. turn[r].phase # "start"
      BY <3>1, <3>2 DEF Out, AskExact
    <3>4. q # r
      BY <2>1, <3>3
    <3> QED  BY <2>1, <3>1, <3>4 DEF Push, Inv, TypeOK
  <2> QED  BY <1>5, <2>2, <2>3 DEF Ask, Prepare, Dispatch, DispatchFails, Complete
<1>6. ASSUME NEW m \in Members, Answer(m) \/ Stray(m) PROVE turn'[q] = turn[q] /\ messages'[q] = messages[q]
  BY <1>6 DEF Answer, Stray, Result
<1>7. Worker \/ UNCHANGED vars => turn'[q] = turn[q] /\ messages'[q] = messages[q]
  BY DEF Worker, vars
<1> QED  BY <1>1, <1>2, <1>3, <1>4, <1>5, <1>6, <1>7 DEF Next

LEMMA ContextsStep == Inv /\ [Next]_vars => ContextsExact'
<1> SUFFICES ASSUME Inv, [Next]_vars, NEW q \in Rooms, NEW n \in Members
             PROVE  ContextExact(q, n)' /\ FirstWord(q, n)'
  BY StartLastStep DEF ContextsExact
<1>1. CASE ~In(q, n)'
  BY <1>1 DEF ContextExact, FirstWord, In, Out
<1>2. CASE Prepare(q, n)
  BY <1>2, PreparedContext
<1>3. ASSUME In(q, n)', ~Out(q, n)', UNCHANGED messages,
             ask'[q][n].kind = "contribution" => turn[q] # None /\ turn[q].phase = "start"
      PROVE  ContextExact(q, n)' /\ FirstWord(q, n)'
  <2>1. ContextExact(q, n)'
    BY <1>3 DEF ContextExact
  <2>2. ASSUME ask'[q][n].kind = "contribution" PROVE \A k \in DOMAIN messages[q] : messages[q][k].id <= turn'[q].start
    <3>1. turn[q] # None /\ turn[q].phase = "start" /\ StartLast(q)
      BY <1>3, <2>2 DEF Inv, ContextsExact
    <3>2. turn'[q] # None
      BY <1>3, AsksStep DEF AsksExact, AskExact, In
    <3>3. turn'[q].start = turn[q].start
      BY <3>1, <3>2, StartKept
    <3> QED  BY <3>1, <3>3 DEF StartLast
  <2> QED  BY <1>3, <2>1, <2>2 DEF FirstWord
<1>4. ASSUME In(q, n)', Steady(q, n) PROVE ContextExact(q, n)' /\ FirstWord(q, n)'
  <2>1. CASE UNCHANGED <<messages, nextMessage>>
    <3>1. nextMessage' >= nextMessage
      BY <2>1 DEF Inv, TypeOK
    <3>2. Grown(q, None) /\ None # n
      BY <2>1, <3>1 DEF Grown
    <3> QED  BY <1>4, <3>2, ContextKept
  <2>2. ASSUME NEW r \in Rooms, NEW role \in {"user", "error"}, Push(r, role, None, Nothing)
        PROVE  ContextExact(q, n)' /\ FirstWord(q, n)'
    <3>1. role \in Roles
      BY DEF Roles
    <3>2. Grown(r, None) /\ None # n
      BY <2>2, <3>1, PushGrows, NothingTyped
    <3> QED  BY <1>4, <3>2, ContextKept
  <2>3. ASSUME NEW r \in Rooms, NEW m \in Members, Complete(r, m), ask[r][m].outcome # "failed"
        PROVE  ContextExact(q, n)' /\ FirstWord(q, n)'
    <3>1. /\ Out(r, m) /\ Returned(r, m)
          /\ Push(r, RoleOf(ask[r][m].kind, ask[r][m].outcome), m, [request |-> ask[r][m].request, source |-> m])
          /\ ask[r][m].request \in 1..(nextRequest - 1)
      BY <2>3, Completed
    <3>2. /\ RoleOf(ask[r][m].kind, ask[r][m].outcome) \in Roles
          /\ [request |-> ask[r][m].request, source |-> m] \in [request : Nat, source : Members \cup {None}]
      BY <3>1 DEF RoleOf, Roles, Inv, TypeOK
    <3>3. Grown(r, m)
      BY <3>1, <3>2, PushGrows
    <3>4. ASSUME m = n PROVE ~Out(q, n)' /\ q # r
      <4>1. q # r
        BY <1>4, <3>1, <3>4 DEF Returned, In
      <4>2. ~Out(q, n)
        BY <3>1, <3>4, <4>1 DEF Inv, LineupExact
      <4> QED  BY <1>4, <4>1, <4>2 DEF Steady
    <3> QED  BY <1>4, <3>3, <3>4, ContextKept
  <2> QED  BY <2>1, <2>2, <2>3, MessageMoves
<1> QED  BY <1>1, <1>2, <1>3, <1>4, Steadiness

----------------------------------------------------------------------------
(* Theorems *)

LEMMA InvInit == Init => Inv
<1> SUFFICES ASSUME Init PROVE Inv
  OBVIOUS
<1>1. /\ \A r \in Rooms : messages[r] = <<>> /\ ~busy[r] /\ turn[r] = None /\ active[r] = {}
      /\ \A r \in Rooms, m \in Members : ~Asking(r, m)
      /\ \A m \in Members : lineup[m] = <<>>
      /\ pending = {} /\ delivered = {}
  BY DEF Init, Asking
<1>2. TypeOK
  <2>1. <<>> \in Seq(Messages) /\ <<>> \in Seq(Rooms)
        /\ <<>> \in Seq([request : Nat, source : Members, outcome : Outcomes])
    OBVIOUS
  <2>2. 0 \in 0..MaxStrays
    OBVIOUS
  <2> QED  BY <2>1, <2>2 DEF Init, TypeOK
<1>3. TurnsExact /\ AsksExact
  BY <1>1 DEF TurnsExact, TurnExact, AsksExact, AskExact
<1>4. LineupExact
  BY <1>1 DEF LineupExact, In, Out
<1>5. RequestsExact /\ PendingAsked
  BY <1>1 DEF RequestsExact, RequestsApart, RequestExact, PendingAsked, Waits, Out
<1>6. MessagesExact /\ ContextsExact
  BY <1>1 DEF MessagesExact, ContextsExact, StartLast, ContextExact, FirstWord, In, Out
<1> QED  BY <1>2, <1>3, <1>4, <1>5, <1>6 DEF Inv

LEMMA InvCorrect == SafetySpec => []Inv
<1>1. Inv /\ [Next]_vars => Inv'
  BY TypeStep, TurnsStep, AsksStep, LineupStep, RequestsStep, PendingStep, MessagesStep, ContextsStep DEF Inv
<1> QED  BY InvInit, <1>1, PTL DEF SafetySpec

\* The state of the rounds is what its fields say: chat.rs keeps no message, task,
\* ask or result of another shape, at any number of rooms and members.
THEOREM RoundsTypeCorrect == SafetySpec => []TypeOK
<1>1. Inv => TypeOK
  BY DEF Inv
<1> QED  BY InvCorrect, <1>1, PTL

\* A member at work on a request has everything it said before in the rooms that the
\* request may see, because ask takes its snapshot under the member's lock.
THEOREM ContextHasOwnAnswersCorrect == SafetySpec => []ContextHasOwnAnswers
<1>1. Inv => ContextHasOwnAnswers
  <2> SUFFICES ASSUME Inv, NEW r \in Rooms, NEW m \in Members, Out(r, m),
                      NEW q \in Visible(r, m), NEW n \in DOMAIN messages[q], messages[q][n].author = m
               PROVE  messages[q][n].id \in ask[r][m].context
    BY DEF ContextHasOwnAnswers
  <2>1. ContextExact(r, m) /\ q \in Rooms
    BY DEF Inv, ContextsExact, Visible
  <2> QED  BY <2>1 DEF ContextExact
<1> QED  BY InvCorrect, <1>1, PTL

\* No answer and no error of a round is in the context of one of its contributions:
\* build_messages cuts the room off at the user's message.
THEOREM ContributionsIndependentCorrect == SafetySpec => []ContributionsIndependent
<1>1. Inv => ContributionsIndependent
  <2> SUFFICES ASSUME Inv, NEW r \in Rooms, NEW m \in Members, Out(r, m), ask[r][m].kind = "contribution",
                      NEW n \in DOMAIN messages[r], messages[r][n].id > turn[r].start,
                      messages[r][n].id \in ask[r][m].context
               PROVE  FALSE
    BY DEF ContributionsIndependent
  <2>1. ContextExact(r, m) /\ AskExact(r, m)
    BY DEF Inv, ContextsExact, AsksExact
  <2>2. messages[r][n].id <= turn[r].start
    BY <2>1 DEF ContextExact
  <2>3. turn[r].start \in Nat
    <3>1. turn[r] # None
      BY <2>1 DEF AskExact, Out
    <3>2. turn[r] \in Turns
      BY <3>1 DEF Inv, TypeOK
    <3> QED  BY <3>2 DEF Turns
  <2>4. messages[r][n].id \in Nat
    <3>1. messages[r] \in Seq(Messages)
      BY DEF Inv, TypeOK
    <3>2. messages[r][n] \in Messages
      BY <3>1
    <3> QED  BY <3>2 DEF Messages
  <2> QED  BY <2>2, <2>3, <2>4
<1> QED  BY InvCorrect, <1>1, PTL

\* Nothing said in an incognito room is in a context of another room, nor the other
\* way round: the filter on the mode in build_messages.
THEOREM IncognitoKeptCorrect == SafetySpec => []IncognitoKept
<1>1. Inv => IncognitoKept
  <2> SUFFICES ASSUME Inv, NEW r \in Rooms, NEW q \in Rooms, NEW m \in Members, Out(r, m), q # r,
                      r \in Incognito \/ q \in Incognito,
                      NEW n \in DOMAIN messages[q], messages[q][n].id \in ask[r][m].context
               PROVE  FALSE
    BY DEF IncognitoKept
  <2>1. ContextExact(r, m)
    BY DEF Inv, ContextsExact
  <2>2. q \in Visible(r, m)
    BY <2>1 DEF ContextExact
  <2> QED  BY <2>2 DEF Visible
<1> QED  BY InvCorrect, <1>1, PTL

\* Whatever results arrive, late, twice or under another's id, an answer in a room is
\* its author's own to a request that author got, and the only one to it.
THEOREM AnswersCorrelatedCorrect == SafetySpec => []AnswersCorrelated
<1>1. Inv => AnswersCorrelated
  <2> SUFFICES ASSUME Inv, NEW r \in Rooms, NEW n \in DOMAIN messages[r],
                      messages[r][n].role \in {"agent", "summary"}
               PROVE  /\ messages[r][n].author \in MembersOf[r]
                      /\ messages[r][n].answers.source = messages[r][n].author
                      /\ messages[r][n].answers \in delivered
                      /\ \A q \in Rooms : \A k \in DOMAIN messages[q] :
                           messages[q][k].answers = messages[r][n].answers => q = r /\ k = n
    BY DEF AnswersCorrelated
  <2>1. MessageExact(r, n)
    BY DEF Inv, MessagesExact
  <2>2. messages[r][n].author # None
    BY <2>1 DEF MessageExact
  <2> QED  BY <2>1, <2>2 DEF MessageExact, Answered
<1> QED  BY InvCorrect, <1>1, PTL

\* The pending map is exactly what is waited for, and a room without a round, whether
\* it takes the next message or is stuck, has no member asked and no place at a lock.
THEOREM PendingExactCorrect == SafetySpec => []PendingExact
<1>1. Inv => PendingExact
  <2> SUFFICES ASSUME Inv PROVE PendingExact
    OBVIOUS
  <2>1. pending \subseteq Requests /\ \A p \in Requests : p \in pending <=> \E r \in Rooms : Waits(r, p.source, p.request)
    BY DEF Inv, TypeOK, PendingAsked, Requests
  <2>2. ASSUME NEW r \in Rooms, NEW m \in Members, Out(r, m)
        PROVE  [request |-> ask[r][m].request, source |-> m] \in Requests
    <3>1. ask[r][m].request \in 1..(nextRequest - 1) /\ nextRequest \in Nat
      BY <2>2, OutFacts DEF Inv, TypeOK
    <3> QED  BY <3>1 DEF Requests
  <2>3. PICK waited : waited = UNION {{[request |-> ask[r][m].request, source |-> m] : r \in
                                         {q \in Rooms : Out(q, m) /\ ask[q][m].outcome = None}}
                                     : m \in Members}
    OBVIOUS
  <2>4. \A p : p \in waited <=> \E m \in Members, r \in Rooms :
                 /\ Out(r, m) /\ ask[r][m].outcome = None
                 /\ p = [request |-> ask[r][m].request, source |-> m]
    BY <2>3
  <2>5. ASSUME NEW p \in pending PROVE p \in waited
    <3>1. p \in Requests
      BY <2>1
    <3>2. PICK r \in Rooms : Waits(r, p.source, p.request)
      BY <2>1, <3>1
    <3>3. p.source \in Members /\ p = [request |-> ask[r][p.source].request, source |-> p.source]
      BY <3>1, <3>2 DEF Waits, Requests
    <3> QED  BY <2>4, <3>2, <3>3 DEF Waits
  <2>6. ASSUME NEW p \in waited PROVE p \in pending
    <3>1. PICK m \in Members, r \in Rooms :
            /\ Out(r, m) /\ ask[r][m].outcome = None
            /\ p = [request |-> ask[r][m].request, source |-> m]
      BY <2>4
    <3>2. p \in Requests /\ Waits(r, p.source, p.request)
      BY <2>2, <3>1 DEF Waits
    <3> QED  BY <2>1, <3>2
  <2>7. pending = waited
    BY <2>5, <2>6
  <2>8. ASSUME NEW r \in Rooms PROVE ~busy[r] => turn[r] = None
    BY DEF Inv, TurnsExact, TurnExact
  <2>9. ASSUME NEW r \in Rooms, turn[r] = None
        PROVE  active[r] = {} /\ \A m \in Members : ~Asking(r, m) /\ r \notin ToSet(lineup[m])
    <3>1. turn[r] = None /\ active[r] = {}
      BY <2>9 DEF Inv, TurnsExact, TurnExact
    <3>2. \A m \in Members : ~Asking(r, m)
      BY <3>1 DEF Inv, AsksExact, AskExact
    <3>3. \A m \in Members : r \notin ToSet(lineup[m])
      BY <3>2 DEF Inv, LineupExact, In, ToSet
    <3> QED  BY <3>1, <3>2, <3>3
  <2> QED  BY <2>3, <2>7, <2>8, <2>9 DEF PendingExact
<1> QED  BY InvCorrect, <1>1, PTL
=============================================================================
