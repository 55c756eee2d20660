----------------------------- MODULE ToolsProofs -----------------------------
(***************************************************************************)
(* Tool calls, for any Residents, rooms, contexts, limits and call ids.     *)
(* Three arguments: of every question asked there is one token, wherever it *)
(* is; a context has its rooms up to some message, so what chat finds later *)
(* is what the turn was given; a page is the end of what is left to read.   *)
(***************************************************************************)
EXTENDS Tools, FiniteSetTheorems, WellFoundedInduction, TLAPS

USE RoomsAssumption, LimitsAssumption, NoneAssumption

\* A question on its way, or its answer: where it is, as which item.
RequestToken(q) == [at |-> "requests", item |-> q, question |-> q]
QueryToken(m) == [at |-> "queries", item |-> m, question |-> m.question]
AnswerToken(a) == [at |-> "answers", item |-> a, question |-> a.answer.question]
ResultToken(r) == [at |-> "results", item |-> r, question |-> r.answer.question]

TokensOf(Q, M, A, R) ==
    {RequestToken(q) : q \in Q} \cup {QueryToken(m) : m \in M}
    \cup {AnswerToken(a) : a \in A} \cup {ResultToken(r) : r \in R}

Tokens == TokensOf(requests, queries, answers, results)

\* What is on its way is the question its Resident waits with, and there is but
\* one token of it.
OneToken ==
    \A t \in Tokens :
      /\ call[t.question.from] = t.question
      /\ \A u \in Tokens : u.question.from = t.question.from => u = t

\* The relay under a number is for whoever asked the question of that number.
RelaysExact ==
    /\ \A e \in relays : e.relay < next_query
    /\ \A m \in queries : m.relay < next_query
    /\ \A a \in answers : a.relay < next_query
    /\ \A e \in relays :
         /\ \A m \in queries : e.relay = m.relay /\ e.kind = m.question.kind =>
              e.to = m.question.from /\ e.id = m.question.id
         /\ \A a \in answers : e.relay = a.relay /\ e.kind = a.answer.question.kind =>
              e.to = a.answer.question.from /\ e.id = a.answer.question.id

ResultsExact ==
    \A r \in results :
      LET q == r.answer.question IN r.to = q.from /\ r.kind = q.kind /\ r.id = q.id

----------------------------------------------------------------------------
\* The messages of a turn's context in the scope it reads.
Scope(t) == {i \in t.context : t.all \/ RoomOf[i] = t.room}

\* A context has of each of its rooms what was posted up to some message.
ContextsClosed ==
    \A w \in Residents : turn[w] # None =>
      LET t == turn[w] IN
        /\ t.context \subseteq 1..posted
        /\ t.room \in Rooms /\ w \in MembersOf[t.room]
        /\ \A k \in t.context : RoomOf[k] \in Readable(w, t.room)
        /\ \A k \in t.context, i \in Messages :
             i <= k /\ RoomOf[i] = RoomOf[k] => i \in t.context

\* A Resident waits with a question of its turn.
QuestionsExact ==
    \A w \in Residents : call[w] # None =>
      LET q == call[w]  t == turn[w] IN
        /\ t # None /\ q.from = w /\ q.room = t.room /\ q.all = t.all
        /\ q.through = VisibleThrough(t.context)
        /\ q.before = t.before /\ q.limit = t.limit
        /\ q.kind = "context" => ~t.over

\* What was asked for is left of the context, and this is a page of it.
Left(q) == {i \in Scope(turn[q.from]) : q.before = None \/ i < q.before}

IsPage(a) ==
    a.question.kind = "context" /\ a.ok =>
      /\ a.page = LastOf(Left(a.question), a.question.limit)
      /\ a.next = NextBefore(Left(a.question), a.question.limit)

PagesExact ==
    /\ \A a \in answers : IsPage(a.answer)
    /\ \A r \in results : IsPage(r.answer)

\* A turn has read the end of its scope, from the message it reads before.
EndRead(t) ==
    /\ t.count = Cardinality(t.read)
    /\ t.over => t.read = Scope(t)
    /\ ~t.over /\ t.before = None => t.read = {}
    /\ ~t.over /\ t.before # None => t.read = {i \in Scope(t) : i >= t.before}

ReadExact == \A w \in Residents : turn[w] # None => EndRead(turn[w])

Inv ==
    /\ TypeOK /\ OneToken /\ RelaysExact /\ ResultsExact
    /\ ContextsClosed /\ QuestionsExact /\ PagesExact /\ ReadExact

----------------------------------------------------------------------------
(* Sets of messages *)

LEMMA LeastExists ==
    ASSUME NEW S \in SUBSET Nat, S # {}
    PROVE  Min(S) \in S /\ \A j \in S : Min(S) <= j
<1> DEFINE R == OpToRel(<, Nat)
<1>1. IsWellFoundedOn(R, Nat)
  BY NatLessThanWellFounded
<1>2. \A x, y \in Nat : x < y => <<x, y>> \in R
  BY DEF OpToRel
<1> HIDE DEF R
<1>3. \E x \in S : \A y \in S : ~ (<<y, x>> \in R)
  BY <1>1, WFMin
<1>4. PICK i \in S : \A y \in S : ~ (y < i)
  BY <1>2, <1>3, Zenon
<1>5. \E x \in S : \A y \in S : x <= y
  BY <1>4
<1> QED  BY <1>5 DEF Min

LEMMA LargestExists ==
    ASSUME NEW N \in Nat, NEW S \in SUBSET (0..N), S # {}
    PROVE  Max(S) \in S /\ \A j \in S : Max(S) >= j
<1> DEFINE T == {k \in Nat : \E i \in S : k = N - i}
           k == Min(T)
<1>1. T # {}
  <2>1. PICK i \in S : TRUE
    OBVIOUS
  <2>2. N - i \in T
    BY <2>1
  <2> QED  BY <2>2
<1>2. k \in T /\ \A l \in T : k <= l
  BY <1>1, LeastExists
<1> HIDE DEF k
<1>3. PICK i \in S : k = N - i
  BY <1>2
<1>4. ASSUME NEW j \in S PROVE i >= j
  <2>1. N - j \in T
    OBVIOUS
  <2> QED  BY <1>2, <1>3, <2>1
<1>5. \E x \in S : \A y \in S : x >= y
  BY <1>4
<1> QED  BY <1>5 DEF Max

LEMMA MessagesFinite ==
    ASSUME NEW S \in SUBSET Messages
    PROVE  IsFiniteSet(S) /\ Cardinality(S) \in Nat
<1>1. IsFiniteSet(Messages)
  BY FS_Interval DEF Messages
<1> QED  BY <1>1, FS_Subset, FS_CardinalityType

\* A page is the upper end of what it is taken from, all of it if that fits,
\* and not empty.
LEMMA PageIsEnd ==
    ASSUME NEW S \in SUBSET Messages, NEW limit \in Nat \ {0}
    PROVE  /\ LastOf(S, limit) \subseteq S
           /\ \A i \in LastOf(S, limit), j \in S : j >= i => j \in LastOf(S, limit)
           /\ Cardinality(S) <= limit => LastOf(S, limit) = S
           /\ S # {} => LastOf(S, limit) # {}
<1> DEFINE From(i) == {j \in S : j >= i}
<1>0. \A i \in S : IsFiniteSet(From(i)) /\ Cardinality(From(i)) \in Nat
  BY MessagesFinite
<1>1. LastOf(S, limit) = {i \in S : Cardinality(From(i)) <= limit}
  BY DEF LastOf
<1>a. S \subseteq Nat
  BY DEF Messages
<1>2. ASSUME NEW i \in S, NEW j \in S, j >= i PROVE Cardinality(From(j)) <= Cardinality(From(i))
  <2>1. \A k \in S : k >= j => k >= i
    BY <1>a, <1>2
  <2>2. From(j) \in SUBSET From(i)
    BY <2>1
  <2> HIDE DEF From
  <2> QED  BY <1>0, <2>2, FS_Subset
<1>3. \A i \in S : Cardinality(From(i)) <= Cardinality(S)
  <2> TAKE i \in S
  <2>1. From(i) \in SUBSET S
    OBVIOUS
  <2>2. IsFiniteSet(S)
    BY MessagesFinite
  <2> HIDE DEF From
  <2> QED  BY <2>1, <2>2, FS_Subset
<1>4. S # {} => \E i \in S : From(i) = {i}
  <2> SUFFICES ASSUME S # {} PROVE \E i \in S : From(i) = {i}
    OBVIOUS
  <2>1. S \in SUBSET (0..MaxMessages)
    BY DEF Messages
  <2>2. Max(S) \in S /\ \A j \in S : Max(S) >= j
    BY <2>1, LargestExists
  <2> DEFINE m == Max(S)
  <2> HIDE DEF m
  <2>3. m \in S /\ \A j \in S : j >= m => j = m
    <3>1. m \in S /\ \A j \in S : m >= j
      BY <2>2 DEF m
    <3> QED  BY <1>a, <3>1
  <2>4. m >= m
    BY <1>a, <2>3
  <2>5. From(m) = {m}
    BY <2>3, <2>4
  <2> QED  BY <2>3, <2>5
<1>5. \A i : Cardinality({i}) = 1
  BY FS_Singleton
<1> HIDE DEF From
<1>6. LastOf(S, limit) \subseteq S
  BY <1>1
<1>7. \A i \in LastOf(S, limit), j \in S : j >= i => j \in LastOf(S, limit)
  BY <1>0, <1>1, <1>2
<1>8. Cardinality(S) <= limit => LastOf(S, limit) = S
  BY <1>0, <1>1, <1>3, MessagesFinite
<1>9. S # {} => LastOf(S, limit) # {}
  <2> SUFFICES ASSUME S # {} PROVE LastOf(S, limit) # {}
    OBVIOUS
  <2>1. PICK i \in S : From(i) = {i}
    BY <1>4
  <2>2. Cardinality(From(i)) = 1
    BY <1>5, <2>1
  <2>3. i \in LastOf(S, limit)
    BY <1>1, <2>2
  <2> QED  BY <2>3
<1> QED  BY <1>6, <1>7, <1>8, <1>9

\* Where the next page ends, if there is one.
LEMMA NextIsLeast ==
    ASSUME NEW S \in SUBSET Messages, NEW limit \in Nat \ {0}
    PROVE  \/ NextBefore(S, limit) = None /\ LastOf(S, limit) = S
           \/ /\ NextBefore(S, limit) \in Messages
              /\ LastOf(S, limit) = {i \in S : i >= NextBefore(S, limit)}
              /\ NextBefore(S, limit) \in S
<1>1. CASE Cardinality(S) <= limit
  BY <1>1, PageIsEnd, MessagesFinite DEF NextBefore
<1>2. CASE Cardinality(S) > limit
  <2> DEFINE page == LastOf(S, limit)
             k == Min(page)
  <2>1. S # {}
    BY <1>2, FS_EmptySet
  <2>2. page \in SUBSET S /\ page # {} /\ \A i \in page, j \in S : j >= i => j \in page
    BY <2>1, PageIsEnd
  <2>3. NextBefore(S, limit) = k
    BY <1>2 DEF NextBefore
  <2>4. k \in page /\ \A j \in page : k <= j
    <3> HIDE DEF page
    <3> QED  BY <2>2, LeastExists DEF Messages
  <2> HIDE DEF page, k
  <2>5. page = {i \in S : i >= k}
    BY <2>2, <2>4 DEF Messages
  <2> QED  BY <2>2, <2>3, <2>4, <2>5 DEF page
<1> QED  BY <1>1, <1>2, MessagesFinite

\* The last message of a room in a context.
LEMMA ThroughIsLast ==
    ASSUME NEW context \in SUBSET Messages
    PROVE  /\ VisibleThrough(context) \in [Rooms -> 0..MaxMessages]
           /\ \A i \in context : i <= VisibleThrough(context)[RoomOf[i]]
           /\ \A r \in Rooms : VisibleThrough(context)[r] # 0 =>
                \E k \in context : RoomOf[k] = r /\ k = VisibleThrough(context)[r]
<1> DEFINE Of(r) == {0} \cup {i \in context : RoomOf[i] = r}
<1>1. \A r \in Rooms : Of(r) \in SUBSET (0..MaxMessages) /\ Of(r) # {}
  <2>1. context \subseteq 0..MaxMessages /\ 0 \in 0..MaxMessages
    BY DEF Messages
  <2> QED  BY <2>1
<1>2. \A r \in Rooms : Max(Of(r)) \in Of(r) /\ \A j \in Of(r) : Max(Of(r)) >= j
  <2> HIDE DEF Of
  <2> QED  BY <1>1, LargestExists
<1>3. VisibleThrough(context) = [r \in Rooms |-> Max(Of(r))]
  BY DEF VisibleThrough
<1>4. \A i \in context : RoomOf[i] \in Rooms /\ i \in Of(RoomOf[i]) /\ i \in Nat
  BY DEF Messages
<1>5. \A r \in Rooms : Max(Of(r)) # 0 => \E k \in context : RoomOf[k] = r /\ k = Max(Of(r))
  <2> SUFFICES ASSUME NEW r \in Rooms, Max(Of(r)) # 0
               PROVE  \E k \in context : RoomOf[k] = r /\ k = Max(Of(r))
    OBVIOUS
  <2>1. Max(Of(r)) \in Of(r)
    BY <1>2
  <2> QED  BY <2>1
<1> HIDE DEF Of
<1>6. \A r \in Rooms : Max(Of(r)) \in 0..MaxMessages
  BY <1>1, <1>2
<1>7. \A i \in context : i <= VisibleThrough(context)[RoomOf[i]]
  BY <1>1, <1>2, <1>3, <1>4
<1> QED  BY <1>3, <1>5, <1>6, <1>7

----------------------------------------------------------------------------
(* Types *)

LEMMA FailedTyped ==
    ASSUME NEW q \in Question
    PROVE  /\ Failed(q) \in Response /\ Failed(q).question = q /\ ~Failed(q).ok
           /\ [Failed(q) EXCEPT !.ok = TRUE] \in Response
           /\ [Failed(q) EXCEPT !.ok = TRUE].question = q
BY DEF Failed, Response

LEMMA AnswerTyped ==
    ASSUME TypeOK, NEW q \in Question
    PROVE  AnswerTo(q) \in Response /\ AnswerTo(q).question = q
<1>1. Found(q) \in SUBSET Messages /\ q.limit \in Nat \ {0}
  <2>1. posted \in 0..MaxMessages
    BY DEF TypeOK
  <2>2. \A i \in 1..posted : i \in Messages
    BY <2>1 DEF Messages
  <2>3. Found(q) \in SUBSET Messages
    BY <2>2 DEF Found
  <2>4. q.limit \in Limits
    BY DEF Question
  <2> QED  BY <2>3, <2>4
<1>2. /\ LastOf(Found(q), q.limit) \in SUBSET Messages
      /\ NextBefore(Found(q), q.limit) \in Messages \cup {None}
  BY <1>1, PageIsEnd, NextIsLeast
<1>3. CASE ~MayAsk(q) \/ q.kind = "members"
  BY <1>3, FailedTyped DEF AnswerTo
<1>4. CASE MayAsk(q) /\ q.kind # "members"
  <2>1. AnswerTo(q) = [question |-> q, ok |-> TRUE, page |-> LastOf(Found(q), q.limit),
                       next |-> NextBefore(Found(q), q.limit)]
    BY <1>4 DEF AnswerTo
  <2> QED  BY <1>2, <2>1 DEF Response
<1> QED  BY <1>3, <1>4

LEMMA ReplyTyped ==
    ASSUME TypeOK, NEW to \in Residents, NEW kind \in Kinds, NEW id \in CallIds,
           NEW answer \in Response, Reply(to, kind, id, answer)
    PROVE  /\ results' \subseteq [to : Residents, kind : Kinds, id : CallIds, answer : Response]
           /\ lost' \subseteq Residents
<1> DEFINE r == [to |-> to, kind |-> kind, id |-> id, answer |-> answer]
<1>1. r \in [to : Residents, kind : Kinds, id : CallIds, answer : Response]
  OBVIOUS
<1> HIDE DEF r
<1>2. \/ results' = results \cup {r} /\ UNCHANGED lost
      \/ lost' = lost \cup {to} /\ UNCHANGED results
  BY DEF Reply, r
<1> QED  BY <1>1, <1>2 DEF TypeOK

LEMMA TypeStep == TypeOK /\ QuestionsExact /\ [Next]_vars => TypeOK'
<1> SUFFICES ASSUME TypeOK, QuestionsExact, [Next]_vars PROVE TypeOK'
  OBVIOUS
<1>1. CASE Post
  <2>1. posted' \in 0..MaxMessages /\ UNCHANGED <<turn, call, toolsVars, queries, results, lost>>
    BY <1>1 DEF Post, TypeOK
  <2> QED  BY <2>1 DEF TypeOK, toolsVars
<1>2. ASSUME NEW w \in Residents, NEW r \in Rooms, NEW start \in 1..posted,
             NEW all \in BOOLEAN, NEW limit \in Limits, StartTurn(w, r, start, all, limit)
      PROVE  TypeOK'
  <2> DEFINE t == [room |-> r, context |-> ContextOf(w, r, start), all |-> all,
                   limit |-> limit, before |-> None, read |-> {}, count |-> 0, over |-> FALSE]
  <2>1. ContextOf(w, r, start) \subseteq Messages
    BY DEF ContextOf, TypeOK, Messages
  <2>2. t \in Turn
    BY <2>1 DEF Turn
  <2> HIDE DEF t
  <2>3. turn' = [turn EXCEPT ![w] = t] /\ UNCHANGED <<posted, call, toolsVars, queries, results, lost>>
    BY <1>2 DEF StartTurn, t
  <2>4. turn' \in [Residents -> Turn \cup {None}]
    BY <2>2, <2>3 DEF TypeOK
  <2> QED  BY <2>3, <2>4 DEF TypeOK, toolsVars
<1>3. ASSUME NEW w \in Residents, NEW kind \in Kinds, NEW id \in CallIds, Ask(w, kind, id)
      PROVE  TypeOK'
  <2> DEFINE q == [kind |-> kind, id |-> id, from |-> w, room |-> turn[w].room,
                   through |-> VisibleThrough(turn[w].context), all |-> turn[w].all,
                   before |-> turn[w].before, limit |-> turn[w].limit]
  <2>1. turn[w] \in Turn
    BY <1>3 DEF Ask, TypeOK
  <2>2. q \in Question
    BY <2>1, ThroughIsLast DEF Turn, Question
  <2> HIDE DEF q
  <2>3. /\ call' = [call EXCEPT ![w] = q] /\ requests' = requests \cup {q}
        /\ UNCHANGED <<posted, turn, next_query, relays, answers, queries, results, lost>>
    BY <1>3 DEF Ask, q
  <2>4. call' \in [Residents -> Question \cup {None}] /\ requests' \subseteq Question
    BY <2>2, <2>3 DEF TypeOK
  <2> QED  BY <2>3, <2>4 DEF TypeOK
<1>4. ASSUME NEW result \in results, Receive(result) PROVE TypeOK'
  <2> DEFINE w == result.to
             q == call[w]
             t == turn[w]
             u == AfterPage(t, result.answer)
  <2>1. w \in Residents /\ result.answer \in Response /\ t \in Turn \cup {None}
    BY DEF TypeOK
  <2>2. Cardinality(result.answer.page) \in Nat
    BY <2>1, MessagesFinite DEF Response
  <2>3. t # None => u \in Turn
    <3> SUFFICES ASSUME t # None PROVE u \in Turn
      OBVIOUS
    <3>1. t \in Turn
      BY <2>1
    <3>2. /\ result.answer.next \in Messages \cup {None}
          /\ t.read \cup result.answer.page \in SUBSET Messages
          /\ t.count + Cardinality(result.answer.page) \in Nat
          /\ (result.answer.next = None) \in BOOLEAN
      BY <2>1, <2>2, <3>1 DEF Turn, Response
    <3> QED  BY <3>1, <3>2 DEF Turn, AfterPage
  <2>4. \/ call' = [call EXCEPT ![w] = None] /\ t # None /\ turn' = [turn EXCEPT ![w] = u]
        \/ call' = [call EXCEPT ![w] = None] /\ turn' = turn
        \/ call' = call /\ turn' = turn
    <3>1. w \in Residents
      BY <2>1
    <3>2. CASE /\ call' = [call EXCEPT ![w] = None] /\ q # None
               /\ turn' = turn \/ turn' = [turn EXCEPT ![w] = u]
      BY <3>1, <3>2 DEF QuestionsExact
    <3>3. CASE call' = call /\ turn' = turn
      BY <3>3
    <3>4. IF q # None /\ q.id = result.id /\ q.kind = result.kind
            THEN /\ call' = [call EXCEPT ![w] = None]
                 /\ turn' = turn \/ turn' = [turn EXCEPT ![w] = u]
            ELSE UNCHANGED <<call, turn>>
      BY <1>4 DEF Receive
    <3> HIDE DEF w, q, t, u
    <3> QED  BY <3>2, <3>3, <3>4
  <2>5. results' \subseteq results /\ UNCHANGED <<posted, toolsVars, queries, lost>>
    BY <1>4 DEF Receive
  <2> HIDE DEF w, q, t, u
  <2>6. turn' \in [Residents -> Turn \cup {None}] /\ call' \in [Residents -> Question \cup {None}]
    BY <2>1, <2>3, <2>4 DEF TypeOK
  <2> QED  BY <2>5, <2>6 DEF TypeOK, toolsVars
<1>5. ASSUME NEW q \in requests, Catalog(q) PROVE TypeOK'
  <2>1. q \in Question /\ q.from \in Residents /\ q.kind \in Kinds /\ q.id \in CallIds
    BY DEF TypeOK, Question
  <2>2. /\ Reply(q.from, q.kind, q.id, [Failed(q) EXCEPT !.ok = TRUE])
        /\ requests' \subseteq requests
        /\ UNCHANGED <<posted, turn, call, next_query, relays, queries, answers>>
    BY <1>5 DEF Catalog
  <2>3. [Failed(q) EXCEPT !.ok = TRUE] \in Response
    BY <2>1, FailedTyped
  <2>4. /\ results' \subseteq [to : Residents, kind : Kinds, id : CallIds, answer : Response]
        /\ lost' \subseteq Residents
    BY <2>1, <2>2, <2>3, ReplyTyped
  <2> QED  BY <2>2, <2>4 DEF TypeOK
<1>6. ASSUME NEW q \in requests, Relay(q) PROVE TypeOK'
  <2>1. q \in Question /\ q.from \in Residents /\ q.kind \in Kinds /\ q.id \in CallIds
    BY DEF TypeOK, Question
  <2> DEFINE e == [relay |-> next_query, kind |-> q.kind, to |-> q.from, id |-> q.id]
             m == [relay |-> next_query, question |-> q]
  <2>2. /\ relays' \subseteq relays \cup {e} /\ queries' = queries \cup {m}
        /\ next_query' = next_query + 1 /\ requests' \subseteq requests
        /\ UNCHANGED <<posted, turn, call, answers, results, lost>>
    BY <1>6 DEF Relay, RelayId
  <2>3. /\ e \in [relay : Nat, kind : Kinds, to : Residents, id : CallIds]
        /\ m \in [relay : Nat, question : Question]
    BY <2>1 DEF TypeOK
  <2> HIDE DEF e, m
  <2>4. /\ relays' \subseteq [relay : Nat, kind : Kinds, to : Residents, id : CallIds]
        /\ queries' \subseteq [relay : Nat, question : Question]
        /\ next_query' \in Nat
    BY <2>2, <2>3 DEF TypeOK
  <2> QED  BY <2>2, <2>4 DEF TypeOK
<1>7. ASSUME NEW q \in requests, RelayFails(q) PROVE TypeOK'
  <2>1. q \in Question /\ q.from \in Residents /\ q.kind \in Kinds /\ q.id \in CallIds
    BY DEF TypeOK, Question
  <2>2. /\ Reply(q.from, q.kind, q.id, Failed(q)) /\ requests' \subseteq requests
        /\ next_query' = next_query + 1
        /\ UNCHANGED <<posted, turn, call, relays, queries, answers>>
    BY <1>7 DEF RelayFails, ReplyFailed
  <2>3. /\ results' \subseteq [to : Residents, kind : Kinds, id : CallIds, answer : Response]
        /\ lost' \subseteq Residents
    BY <2>1, <2>2, FailedTyped, ReplyTyped
  <2>4. next_query' \in Nat
    BY <2>2 DEF TypeOK
  <2> QED  BY <2>2, <2>3, <2>4 DEF TypeOK
<1>8. ASSUME NEW a \in answers, Forward(a) PROVE TypeOK'
  <2>1. /\ answers' \subseteq answers /\ relays' \subseteq relays
        /\ UNCHANGED <<posted, turn, call, requests, next_query, queries>>
        /\ \/ UNCHANGED <<results, lost>>
           \/ \E e \in relays : Reply(e.to, e.kind, e.id, a.answer)
    BY <1>8 DEF Forward
  <2>2. /\ results' \subseteq [to : Residents, kind : Kinds, id : CallIds, answer : Response]
        /\ lost' \subseteq Residents
    <3>1. CASE UNCHANGED <<results, lost>>
      BY <3>1 DEF TypeOK
    <3>2. ASSUME NEW e \in relays, Reply(e.to, e.kind, e.id, a.answer)
          PROVE  /\ results' \subseteq
                       [to : Residents, kind : Kinds, id : CallIds, answer : Response]
                  /\ lost' \subseteq Residents
      <4>1. /\ e.to \in Residents /\ e.kind \in Kinds /\ e.id \in CallIds
            /\ a.answer \in Response
        BY DEF TypeOK
      <4> QED  BY <3>2, <4>1, ReplyTyped
    <3> QED  BY <2>1, <3>1, <3>2
  <2> QED  BY <2>1, <2>2 DEF TypeOK
<1>9. ASSUME NEW m \in queries, Answer(m) PROVE TypeOK'
  <2>1. m.relay \in Nat /\ AnswerTo(m.question) \in Response /\ m.question.from \in Residents
    BY AnswerTyped DEF TypeOK, Question
  <2> DEFINE a == [relay |-> m.relay, answer |-> AnswerTo(m.question)]
  <2>2. a \in [relay : Nat, answer : Response]
    BY <2>1
  <2>3. /\ queries' \subseteq queries
        /\ \/ answers' = answers \cup {a} /\ UNCHANGED lost
           \/ lost' = lost \cup {m.question.from} /\ UNCHANGED answers
        /\ UNCHANGED <<posted, turn, call, requests, next_query, relays, results>>
    BY <1>9 DEF Answer
  <2> HIDE DEF a
  <2>4. answers' \subseteq [relay : Nat, answer : Response] /\ lost' \subseteq Residents
    BY <2>1, <2>2, <2>3 DEF TypeOK
  <2> QED  BY <2>3, <2>4 DEF TypeOK
<1>10. CASE UNCHANGED vars
  BY <1>10 DEF vars, toolsVars, TypeOK
<1> QED
  BY <1>1, <1>2, <1>3, <1>4, <1>5, <1>6, <1>7, <1>8, <1>9, <1>10 DEF Next, TakeRequest, Kinds

----------------------------------------------------------------------------
(* Tokens *)

LEMMA TokensDiffer ==
    /\ \A x, y : RequestToken(x) = RequestToken(y) => x = y
    /\ \A x, y : QueryToken(x) = QueryToken(y) => x = y
    /\ \A x, y : AnswerToken(x) = AnswerToken(y) => x = y
    /\ \A x, y : ResultToken(x) = ResultToken(y) => x = y
    /\ \A x, y : RequestToken(x) # QueryToken(y) /\ RequestToken(x) # AnswerToken(y)
    /\ \A x, y : RequestToken(x) # ResultToken(y) /\ QueryToken(x) # AnswerToken(y)
    /\ \A x, y : QueryToken(x) # ResultToken(y) /\ AnswerToken(x) # ResultToken(y)
BY DEF RequestToken, QueryToken, AnswerToken, ResultToken

\* Whatever is on its way is a question of a Resident.
LEMMA TokenQuestions ==
    ASSUME TypeOK, NEW t \in Tokens
    PROVE  t.question \in Question /\ t.question.from \in Residents
<1>1. \A q \in requests : RequestToken(q).question \in Question
  BY DEF TypeOK, RequestToken
<1>2. \A m \in queries : QueryToken(m).question \in Question
  BY DEF TypeOK, QueryToken
<1>3. \A a \in answers : AnswerToken(a).question \in Question
  BY DEF TypeOK, AnswerToken, Response
<1>4. \A r \in results : ResultToken(r).question \in Question
  BY DEF TypeOK, ResultToken, Response
<1>5. t.question \in Question
  BY <1>1, <1>2, <1>3, <1>4 DEF Tokens, TokensOf
<1> QED  BY <1>5 DEF Question

\* A token goes elsewhere with its question, or is lost.
LEMMA TokenMoves ==
    ASSUME OneToken, UNCHANGED call, NEW t \in Tokens, NEW u, u.question = t.question,
           Tokens' \subseteq (Tokens \ {t}) \cup {u}
    PROVE  OneToken'
BY DEF OneToken

LEMMA TokenStep == TypeOK /\ OneToken /\ QuestionsExact /\ ResultsExact /\ [Next]_vars => OneToken'
<1> SUFFICES ASSUME TypeOK, OneToken, QuestionsExact, ResultsExact, [Next]_vars PROVE OneToken'
  OBVIOUS
<1>1. ASSUME UNCHANGED <<requests, queries, answers, results, call>> PROVE OneToken'
  BY <1>1 DEF OneToken, Tokens
<1>2. CASE Post
  BY <1>1, <1>2 DEF Post, toolsVars
<1>3. ASSUME NEW w \in Residents, NEW r \in Rooms, NEW start \in 1..posted,
             NEW all \in BOOLEAN, NEW limit \in Limits, StartTurn(w, r, start, all, limit)
      PROVE  OneToken'
  BY <1>1, <1>3 DEF StartTurn, toolsVars
<1>4. ASSUME NEW w \in Residents, NEW kind \in Kinds, NEW id \in CallIds, Ask(w, kind, id)
      PROVE  OneToken'
  <2>1. PICK q : /\ q.from = w /\ call[w] = None
                 /\ call' = [call EXCEPT ![w] = q] /\ requests' = requests \cup {q}
                 /\ UNCHANGED <<queries, answers, results>>
    BY <1>4 DEF Ask
  <2>2. Tokens' = Tokens \cup {RequestToken(q)}
    BY <2>1, TokensDiffer DEF Tokens, TokensOf
  <2>3. \A t \in Tokens : t.question.from \in Residents /\ t.question.from # w
    BY <2>1, TokenQuestions DEF OneToken
  <2>4. call'[w] = q /\ \A v \in Residents : v # w => call'[v] = call[v]
    BY <2>1 DEF TypeOK
  <2>5. RequestToken(q).question = q
    BY DEF RequestToken
  <2> QED  BY <2>1, <2>2, <2>3, <2>4, <2>5 DEF OneToken
<1>5. ASSUME NEW result \in results, Receive(result) PROVE OneToken'
  <2> DEFINE w == result.to
             q == result.answer.question
  <2>1. ResultToken(result) \in Tokens /\ ResultToken(result).question = q
    BY DEF Tokens, TokensOf, ResultToken
  <2>2. q \in Question /\ w = q.from /\ result.kind = q.kind /\ result.id = q.id
    BY <2>1, TokenQuestions DEF ResultsExact
  <2>3. call[w] = q /\ q # None
    BY <2>1, <2>2 DEF OneToken
  <2>4. /\ call' = [call EXCEPT ![w] = None]
        /\ results' = results \ {result} /\ UNCHANGED <<requests, queries, answers>>
    BY <1>5, <2>2, <2>3 DEF Receive, toolsVars
  <2>5. Tokens' = Tokens \ {ResultToken(result)}
    BY <2>4, TokensDiffer DEF Tokens, TokensOf
  <2>6. \A t \in Tokens' : t.question.from \in Residents /\ t.question.from # w
    BY <2>1, <2>2, <2>5, TokenQuestions DEF OneToken
  <2>7. \A v \in Residents : v # w => call'[v] = call[v]
    BY <2>4 DEF TypeOK
  <2> QED  BY <2>5, <2>6, <2>7 DEF OneToken
<1>6. ASSUME NEW q \in requests, Catalog(q) \/ RelayFails(q) PROVE OneToken'
  <2>1. PICK answer : /\ answer.question = q /\ Reply(q.from, q.kind, q.id, answer)
                      /\ requests' = requests \ {q} /\ UNCHANGED <<queries, answers, call>>
    BY <1>6, FailedTyped DEF Catalog, RelayFails, ReplyFailed, TypeOK
  <2> DEFINE r == [to |-> q.from, kind |-> q.kind, id |-> q.id, answer |-> answer]
  <2>2. results' = results \cup {r} \/ UNCHANGED results
    BY <2>1 DEF Reply
  <2>3. r.answer.question = q
    BY <2>1
  <2> HIDE DEF r
  <2>4. RequestToken(q) \in Tokens /\ RequestToken(q).question = ResultToken(r).question
    BY <2>3 DEF Tokens, TokensOf, RequestToken, ResultToken
  <2>5. Tokens' \subseteq (Tokens \ {RequestToken(q)}) \cup {ResultToken(r)}
    BY <2>1, <2>2, TokensDiffer DEF Tokens, TokensOf
  <2> QED  BY <2>1, <2>4, <2>5, TokenMoves
<1>7. ASSUME NEW q \in requests, Relay(q) PROVE OneToken'
  <2> DEFINE m == [relay |-> next_query, question |-> q]
  <2>1. /\ requests' = requests \ {q} /\ queries' = queries \cup {m}
        /\ UNCHANGED <<answers, results, call>>
    BY <1>7 DEF Relay, RelayId
  <2>2. RequestToken(q) \in Tokens /\ RequestToken(q).question = QueryToken(m).question
    BY DEF Tokens, TokensOf, RequestToken, QueryToken
  <2> HIDE DEF m
  <2>3. Tokens' = (Tokens \ {RequestToken(q)}) \cup {QueryToken(m)}
    BY <2>1, TokensDiffer DEF Tokens, TokensOf
  <2> QED  BY <2>1, <2>2, <2>3, TokenMoves
<1>8. ASSUME NEW a \in answers, Forward(a) PROVE OneToken'
  <2>1. /\ answers' = answers \ {a} /\ UNCHANGED <<requests, queries, call>>
        /\ \/ UNCHANGED results
           \/ \E r : r.answer = a.answer /\ results' = results \cup {r}
    BY <1>8 DEF Forward, Reply
  <2>2. AnswerToken(a) \in Tokens
    BY DEF Tokens, TokensOf
  <2>3. CASE UNCHANGED results
    <3>1. Tokens' = Tokens \ {AnswerToken(a)}
      BY <2>1, <2>3, TokensDiffer DEF Tokens, TokensOf
    <3> QED  BY <2>1, <2>2, <3>1, TokenMoves
  <2>4. CASE \E r : r.answer = a.answer /\ results' = results \cup {r}
    <3>1. PICK r : r.answer = a.answer /\ results' = results \cup {r}
      BY <2>4
    <3>2. Tokens' = (Tokens \ {AnswerToken(a)}) \cup {ResultToken(r)}
      BY <2>1, <3>1, TokensDiffer DEF Tokens, TokensOf
    <3>3. AnswerToken(a).question = ResultToken(r).question
      BY <3>1 DEF AnswerToken, ResultToken
    <3> QED  BY <2>1, <2>2, <3>2, <3>3, TokenMoves
  <2> QED  BY <2>1, <2>3, <2>4
<1>9. ASSUME NEW m \in queries, Answer(m) PROVE OneToken'
  <2> DEFINE a == [relay |-> m.relay, answer |-> AnswerTo(m.question)]
  <2>1. /\ queries' = queries \ {m}
        /\ \/ answers' = answers \cup {a}
           \/ UNCHANGED answers
        /\ UNCHANGED <<requests, results, call>>
    BY <1>9 DEF Answer
  <2>2. AnswerTo(m.question).question = m.question
    BY AnswerTyped DEF TypeOK
  <2>3. QueryToken(m) \in Tokens /\ QueryToken(m).question = AnswerToken(a).question
    BY <2>2 DEF Tokens, TokensOf, QueryToken, AnswerToken
  <2> HIDE DEF a
  <2>4. Tokens' \subseteq (Tokens \ {QueryToken(m)}) \cup {AnswerToken(a)}
    BY <2>1, TokensDiffer DEF Tokens, TokensOf
  <2> QED  BY <2>1, <2>3, <2>4, TokenMoves
<1>10. CASE UNCHANGED vars
  BY <1>1, <1>10 DEF vars, toolsVars
<1> QED
  BY <1>2, <1>3, <1>4, <1>5, <1>6, <1>7, <1>8, <1>9, <1>10 DEF Next, TakeRequest, Kinds

----------------------------------------------------------------------------
(* Relays *)

LEMMA RelaysStep == TypeOK /\ RelaysExact /\ ResultsExact /\ [Next]_vars => RelaysExact' /\ ResultsExact'
<1> SUFFICES ASSUME TypeOK, RelaysExact, ResultsExact, [Next]_vars
             PROVE  RelaysExact' /\ ResultsExact'
  OBVIOUS
\* An answer sent to whoever asked its question keeps the results exact.
<1>0. ASSUME NEW q, NEW answer, answer.question = q, Reply(q.from, q.kind, q.id, answer)
      PROVE  ResultsExact'
  <2> DEFINE r == [to |-> q.from, kind |-> q.kind, id |-> q.id, answer |-> answer]
  <2>1. results' = results \cup {r} \/ UNCHANGED results
    BY <1>0 DEF Reply
  <2>2. r.to = r.answer.question.from /\ r.kind = r.answer.question.kind
        /\ r.id = r.answer.question.id
    BY <1>0
  <2> HIDE DEF r
  <2> QED  BY <2>1, <2>2 DEF ResultsExact
<1>1. ASSUME UNCHANGED <<next_query, relays, queries, answers>>, results' \subseteq results
      PROVE  RelaysExact' /\ ResultsExact'
  BY <1>1 DEF RelaysExact, ResultsExact
<1>2. CASE Post
  BY <1>1, <1>2 DEF Post, toolsVars
<1>3. ASSUME NEW w \in Residents, NEW r \in Rooms, NEW start \in 1..posted,
             NEW all \in BOOLEAN, NEW limit \in Limits, StartTurn(w, r, start, all, limit)
      PROVE  RelaysExact' /\ ResultsExact'
  BY <1>1, <1>3 DEF StartTurn, toolsVars
<1>4. ASSUME NEW w \in Residents, NEW kind \in Kinds, NEW id \in CallIds, Ask(w, kind, id)
      PROVE  RelaysExact' /\ ResultsExact'
  BY <1>1, <1>4 DEF Ask
<1>5. ASSUME NEW result \in results, Receive(result) PROVE RelaysExact' /\ ResultsExact'
  BY <1>1, <1>5 DEF Receive, toolsVars
<1>6. ASSUME NEW q \in requests, Catalog(q) PROVE RelaysExact' /\ ResultsExact'
  <2>1. [Failed(q) EXCEPT !.ok = TRUE].question = q
    BY FailedTyped DEF TypeOK
  <2>2. ResultsExact'
    BY <1>0, <1>6, <2>1 DEF Catalog
  <2> QED  BY <1>6, <2>2 DEF Catalog, RelaysExact
<1>7. ASSUME NEW q \in requests, Relay(q) PROVE RelaysExact' /\ ResultsExact'
  <2> DEFINE e == [relay |-> next_query, kind |-> q.kind, to |-> q.from, id |-> q.id]
             m == [relay |-> next_query, question |-> q]
  <2>1. /\ relays' \subseteq relays \cup {e} /\ queries' = queries \cup {m}
        /\ next_query' = next_query + 1 /\ UNCHANGED <<answers, results>>
    BY <1>7 DEF Relay, RelayId
  <2>2. /\ e.relay = next_query /\ e.kind = q.kind /\ e.to = q.from /\ e.id = q.id
        /\ m.relay = next_query /\ m.question = q
    OBVIOUS
  <2> HIDE DEF e, m
  <2>3. next_query \in Nat /\ \A f \in relays : f.relay \in Nat
    BY DEF TypeOK
  <2>4. \A n \in queries : n.relay \in Nat
    BY DEF TypeOK
  <2>5. \A a \in answers : a.relay \in Nat
    BY DEF TypeOK
  <2>6. \A f \in relays' : f.relay < next_query'
    BY <2>1, <2>2, <2>3 DEF RelaysExact
  <2>7. \A n \in queries' : n.relay < next_query'
    BY <2>1, <2>2, <2>3, <2>4 DEF RelaysExact
  <2>8. \A a \in answers' : a.relay < next_query'
    BY <2>1, <2>3, <2>5 DEF RelaysExact
  <2>9. \A f \in relays : f.relay # next_query
    BY <2>3 DEF RelaysExact
  <2>10. \A n \in queries : n.relay # next_query
    BY <2>3, <2>4 DEF RelaysExact
  <2>11. \A a \in answers : a.relay # next_query
    BY <2>3, <2>5 DEF RelaysExact
  <2>12. \A f \in relays', n \in queries' : f.relay = n.relay /\ f.kind = n.question.kind =>
           f.to = n.question.from /\ f.id = n.question.id
    BY <2>1, <2>2, <2>9, <2>10 DEF RelaysExact
  <2>13. \A f \in relays', a \in answers' : f.relay = a.relay /\ f.kind = a.answer.question.kind =>
           f.to = a.answer.question.from /\ f.id = a.answer.question.id
    BY <2>1, <2>2, <2>11 DEF RelaysExact
  <2>14. ResultsExact'
    BY <2>1 DEF ResultsExact
  <2> QED  BY <2>6, <2>7, <2>8, <2>12, <2>13, <2>14 DEF RelaysExact
<1>8. ASSUME NEW q \in requests, RelayFails(q) PROVE RelaysExact' /\ ResultsExact'
  <2>1. Failed(q).question = q
    BY FailedTyped DEF TypeOK
  <2>2. ResultsExact'
    BY <1>0, <1>8, <2>1 DEF RelayFails, ReplyFailed
  <2>3. next_query' = next_query + 1 /\ UNCHANGED <<relays, queries, answers>>
    BY <1>8 DEF RelayFails
  <2>4. next_query \in Nat /\ \A f \in relays : f.relay \in Nat
    BY DEF TypeOK
  <2>5. /\ \A n \in queries : n.relay \in Nat
        /\ \A a \in answers : a.relay \in Nat
    BY DEF TypeOK
  <2> QED  BY <2>2, <2>3, <2>4, <2>5 DEF RelaysExact
<1>9. ASSUME NEW a \in answers, Forward(a) PROVE RelaysExact' /\ ResultsExact'
  <2>1. /\ answers' \subseteq answers /\ relays' \subseteq relays
        /\ UNCHANGED <<next_query, queries>>
        /\ \/ UNCHANGED results
           \/ \E e \in relays : /\ e.relay = a.relay /\ e.kind = a.answer.question.kind
                                /\ Reply(e.to, e.kind, e.id, a.answer)
    BY <1>9 DEF Forward
  <2>2. ResultsExact'
    <3>1. CASE UNCHANGED results
      BY <3>1 DEF ResultsExact
    <3>2. ASSUME NEW e \in relays, e.relay = a.relay, e.kind = a.answer.question.kind,
                 Reply(e.to, e.kind, e.id, a.answer)
          PROVE  ResultsExact'
      <4> DEFINE q == a.answer.question
      <4>1. e.to = q.from /\ e.id = q.id /\ e.kind = q.kind
        BY <3>2 DEF RelaysExact
      <4> QED  BY <1>0, <3>2, <4>1
    <3> QED  BY <2>1, <3>1, <3>2
  <2> QED  BY <2>1, <2>2 DEF RelaysExact
<1>10. ASSUME NEW m \in queries, Answer(m) PROVE RelaysExact' /\ ResultsExact'
  <2> DEFINE a == [relay |-> m.relay, answer |-> AnswerTo(m.question)]
  <2>1. /\ queries' \subseteq queries
        /\ answers' = answers \cup {a} \/ UNCHANGED answers
        /\ UNCHANGED <<next_query, relays, results>>
    BY <1>10 DEF Answer
  <2>2. AnswerTo(m.question).question = m.question
    BY AnswerTyped DEF TypeOK
  <2>3. a.relay = m.relay /\ a.answer.question = m.question
    BY <2>2
  <2> HIDE DEF a
  <2> QED  BY <2>1, <2>3 DEF RelaysExact, ResultsExact
<1>11. CASE UNCHANGED vars
  BY <1>1, <1>11 DEF vars, toolsVars
<1> QED
  BY <1>2, <1>3, <1>4, <1>5, <1>6, <1>7, <1>8, <1>9, <1>10, <1>11 DEF Next, TakeRequest, Kinds

----------------------------------------------------------------------------
(* Turns and their questions *)

\* A page moves a turn on in its context and changes nothing else of it.
LEMMA PageAfter ==
    ASSUME NEW t \in Turn, NEW a \in Response, NEW u, u = AfterPage(t, a)
    PROVE  /\ u.room = t.room /\ u.context = t.context /\ u.all = t.all /\ u.limit = t.limit
           /\ u.before = a.next /\ u.read = t.read \cup a.page
           /\ u.count = t.count + Cardinality(a.page) /\ (u.over <=> a.next = None)
           /\ u # None
<1>1. u.room = t.room /\ u.context = t.context /\ u.all = t.all /\ u.limit = t.limit
  BY DEF AfterPage, Turn
<1>2. u.before = a.next /\ u.read = t.read \cup a.page
  BY DEF AfterPage, Turn
<1>3. u.count = t.count + Cardinality(a.page) /\ (u.over <=> a.next = None)
  BY DEF AfterPage, Turn
<1>4. u \in Turn
  <2>1. a.page \in SUBSET Messages /\ a.next \in Messages \cup {None}
    BY DEF Response
  <2>2. t.read \cup a.page \in SUBSET Messages
    BY <2>1 DEF Turn
  <2>3. t.count + Cardinality(a.page) \in Nat
    BY <2>1, MessagesFinite DEF Turn
  <2>4. (a.next = None) \in BOOLEAN
    OBVIOUS
  <2> QED  BY <2>1, <2>2, <2>3, <2>4 DEF Turn, AfterPage
<1> QED  BY <1>1, <1>2, <1>3, <1>4

\* A delivery ends the call it answers, and moves its turn on if it is a page.
LEMMA Delivered ==
    ASSUME TypeOK, OneToken, ResultsExact, QuestionsExact,
           NEW result \in results, Receive(result)
    PROVE  LET q == result.answer.question IN
             /\ q \in Question /\ call[q.from] = q
             /\ turn[q.from] \in Turn
             /\ call' = [call EXCEPT ![q.from] = None]
             /\ turn' = IF q.kind # "context" \/ ~result.answer.ok THEN turn
                        ELSE [turn EXCEPT ![q.from] = AfterPage(turn[q.from], result.answer)]
<1> DEFINE w == result.to
           q == result.answer.question
<1>1. ResultToken(result) \in Tokens /\ ResultToken(result).question = q
  BY DEF Tokens, TokensOf, ResultToken
<1>2. q \in Question /\ w \in Residents /\ w = q.from /\ result.kind = q.kind /\ result.id = q.id
  BY <1>1, TokenQuestions DEF ResultsExact
<1>3. call[w] = q /\ q # None
  BY <1>1, <1>2 DEF OneToken
<1>4. turn[w] \in Turn
  BY <1>2, <1>3 DEF QuestionsExact, TypeOK
<1>5. /\ call' = [call EXCEPT ![w] = None]
      /\ turn' = IF result.kind # "context" \/ ~result.answer.ok THEN turn
                 ELSE [turn EXCEPT ![w] = AfterPage(@, result.answer)]
  BY <1>2, <1>3 DEF Receive
<1> QED  BY <1>2, <1>3, <1>4, <1>5

LEMMA ContextsStep ==
    Inv /\ [Next]_vars => ContextsClosed'
<1> SUFFICES ASSUME Inv, [Next]_vars PROVE ContextsClosed'
  OBVIOUS
<1> USE DEF Inv
<1>1. ASSUME UNCHANGED <<posted, turn>> PROVE ContextsClosed'
  BY <1>1 DEF ContextsClosed
<1>2. CASE Post
  <2>1. posted \in Nat /\ posted' = posted + 1 /\ UNCHANGED turn
    BY <1>2 DEF Post, TypeOK
  <2>2. 1..posted \subseteq 1..posted'
    BY <2>1
  <2> QED  BY <2>1, <2>2 DEF ContextsClosed
<1>3. ASSUME NEW w \in Residents, NEW r \in Rooms, NEW start \in 1..posted,
             NEW all \in BOOLEAN, NEW limit \in Limits, StartTurn(w, r, start, all, limit)
      PROVE  ContextsClosed'
  <2> DEFINE t == [room |-> r, context |-> ContextOf(w, r, start), all |-> all,
                   limit |-> limit, before |-> None, read |-> {}, count |-> 0, over |-> FALSE]
  <2>1. /\ turn' = [turn EXCEPT ![w] = t] /\ UNCHANGED posted /\ w \in MembersOf[r]
    BY <1>3 DEF StartTurn
  <2>2. t.room = r /\ t.context = ContextOf(w, r, start)
    OBVIOUS
  <2> HIDE DEF t
  <2>3. turn'[w] = t /\ \A v \in Residents : v # w => turn'[v] = turn[v]
    BY <2>1 DEF TypeOK
  <2>4. posted \in 0..MaxMessages /\ start \in Nat
    BY DEF TypeOK
  <2>5. \A k \in t.context, i \in Messages : i <= k /\ RoomOf[i] = RoomOf[k] => i \in t.context
    BY <2>2, <2>4 DEF ContextOf, Messages
  <2>6. t.context \subseteq 1..posted /\ \A k \in t.context : RoomOf[k] \in Readable(w, r)
    BY <2>2 DEF ContextOf
  <2> QED  BY <2>1, <2>2, <2>3, <2>5, <2>6 DEF ContextsClosed
<1>4. ASSUME NEW result \in results, Receive(result) PROVE ContextsClosed'
  <2> DEFINE q == result.answer.question
             w == q.from
             u == AfterPage(turn[w], result.answer)
  <2>1. /\ w \in Residents /\ turn[w] \in Turn /\ UNCHANGED posted
        /\ turn' = turn \/ turn' = [turn EXCEPT ![w] = u]
    BY <1>4, Delivered DEF Receive, Question
  <2>2. u.room = turn[w].room /\ u.context = turn[w].context
    BY <2>1, PageAfter DEF TypeOK
  <2>3. \A v \in Residents : v # w => turn'[v] = turn[v]
    BY <2>1 DEF TypeOK
  <2>4. turn'[w] = turn[w] \/ turn'[w] = u
    BY <2>1 DEF TypeOK
  <2>5. turn[w] # None
    BY <2>1
  <2> HIDE DEF w, u, q
  <2> QED  BY <2>1, <2>2, <2>3, <2>4, <2>5 DEF ContextsClosed
<1>5. ASSUME NEW w \in Residents, NEW kind \in Kinds, NEW id \in CallIds, Ask(w, kind, id)
      PROVE  ContextsClosed'
  BY <1>1, <1>5 DEF Ask
<1>6. ASSUME NEW q \in requests, TakeRequest(q) PROVE ContextsClosed'
  BY <1>1, <1>6 DEF TakeRequest, Catalog, Relay, RelayFails
<1>7. ASSUME NEW a \in answers, Forward(a) PROVE ContextsClosed'
  BY <1>1, <1>7 DEF Forward
<1>8. ASSUME NEW m \in queries, Answer(m) PROVE ContextsClosed'
  BY <1>1, <1>8 DEF Answer
<1>9. CASE UNCHANGED vars
  BY <1>1, <1>9 DEF vars
<1> QED
  BY <1>2, <1>3, <1>4, <1>5, <1>6, <1>7, <1>8, <1>9 DEF Next, Kinds

LEMMA QuestionsStep ==
    Inv /\ [Next]_vars => QuestionsExact'
<1> SUFFICES ASSUME Inv, [Next]_vars PROVE QuestionsExact'
  OBVIOUS
<1> USE DEF Inv
<1>1. ASSUME UNCHANGED <<call, turn>> PROVE QuestionsExact'
  BY <1>1 DEF QuestionsExact
<1>2. CASE Post
  BY <1>1, <1>2 DEF Post
<1>3. ASSUME NEW w \in Residents, NEW r \in Rooms, NEW start \in 1..posted,
             NEW all \in BOOLEAN, NEW limit \in Limits, StartTurn(w, r, start, all, limit)
      PROVE  QuestionsExact'
  <2>1. UNCHANGED call /\ call[w] = None
    BY <1>3 DEF StartTurn
  <2>2. \A v \in Residents : v # w => turn'[v] = turn[v]
    BY <1>3 DEF StartTurn, TypeOK
  <2> QED  BY <2>1, <2>2 DEF QuestionsExact
<1>4. ASSUME NEW result \in results, Receive(result) PROVE QuestionsExact'
  <2> DEFINE w == result.answer.question.from
  <2>1. /\ call' = [call EXCEPT ![w] = None]
        /\ \/ UNCHANGED turn
           \/ turn' = [turn EXCEPT ![w] = AfterPage(turn[w], result.answer)]
    BY <1>4, Delivered
  <2> HIDE DEF w
  <2>2. \A v \in Residents : v # w => turn'[v] = turn[v] /\ call'[v] = call[v]
    BY <2>1 DEF TypeOK
  <2>3. w \in Residents => call'[w] = None
    BY <2>1 DEF TypeOK
  <2> QED  BY <2>2, <2>3 DEF QuestionsExact
<1>5. ASSUME NEW w \in Residents, NEW kind \in Kinds, NEW id \in CallIds, Ask(w, kind, id)
      PROVE  QuestionsExact'
  <2> DEFINE q == [kind |-> kind, id |-> id, from |-> w, room |-> turn[w].room,
                   through |-> VisibleThrough(turn[w].context), all |-> turn[w].all,
                   before |-> turn[w].before, limit |-> turn[w].limit]
  <2>1. /\ call' = [call EXCEPT ![w] = q] /\ UNCHANGED turn /\ turn[w] # None
        /\ kind = "context" => ~turn[w].over
    BY <1>5 DEF Ask
  <2>2. /\ q.from = w /\ q.room = turn[w].room /\ q.all = turn[w].all /\ q.kind = kind
        /\ q.through = VisibleThrough(turn[w].context)
        /\ q.before = turn[w].before /\ q.limit = turn[w].limit
    OBVIOUS
  <2> HIDE DEF q
  <2>3. call'[w] = q /\ \A v \in Residents : v # w => call'[v] = call[v]
    BY <2>1 DEF TypeOK
  <2> QED  BY <1>5, <2>1, <2>2, <2>3 DEF QuestionsExact, Ask
<1>6. ASSUME NEW q \in requests, TakeRequest(q) PROVE QuestionsExact'
  BY <1>1, <1>6 DEF TakeRequest, Catalog, Relay, RelayFails
<1>7. ASSUME NEW a \in answers, Forward(a) PROVE QuestionsExact'
  BY <1>1, <1>7 DEF Forward
<1>8. ASSUME NEW m \in queries, Answer(m) PROVE QuestionsExact'
  BY <1>1, <1>8 DEF Answer
<1>9. CASE UNCHANGED vars
  BY <1>1, <1>9 DEF vars
<1> QED
  BY <1>2, <1>3, <1>4, <1>5, <1>6, <1>7, <1>8, <1>9 DEF Next, Kinds

----------------------------------------------------------------------------
(* Pages *)

\* What is left of a question does not change while its turn keeps its context.
LEMMA SamePage ==
    ASSUME NEW a, IsPage(a),
           turn[a.question.from]'.context = turn[a.question.from].context,
           turn[a.question.from]'.all = turn[a.question.from].all,
           turn[a.question.from]'.room = turn[a.question.from].room
    PROVE  IsPage(a)'
<1> DEFINE q == a.question
<1>1. Left(q)' = Left(q)
  BY DEF Left, Scope
<1> QED  BY <1>1 DEF IsPage

\* chat finds later what is left of the context the turn was given: its rooms
\* are in it up to some message, which the question names.
LEMMA FoundIsLeft ==
    ASSUME TypeOK, ContextsClosed, QuestionsExact,
           NEW w \in Residents, NEW q \in Question, call[w] = q
    PROVE  Found(q) = Left(q) /\ Left(q) \in SUBSET Messages
<1> DEFINE t == turn[w]
<1>1. call[w] # None
  OBVIOUS
<1>2. /\ t # None /\ q.from = w /\ q.room = t.room /\ q.all = t.all
      /\ q.through = VisibleThrough(t.context)
  BY <1>1 DEF QuestionsExact
<1>3. t.context \in SUBSET Messages
  BY <1>2 DEF TypeOK, Turn
<1>4. /\ t.context \subseteq 1..posted
      /\ \A k \in t.context : RoomOf[k] \in Readable(w, t.room)
      /\ \A k \in t.context, i \in Messages :
           i <= k /\ RoomOf[i] = RoomOf[k] => i \in t.context
  BY <1>2 DEF ContextsClosed
<1>5. posted \in 0..MaxMessages /\ 1..posted \subseteq Messages
  BY DEF TypeOK, Messages
<1>6. ASSUME NEW i \in 1..posted, i <= q.through[RoomOf[i]] PROVE i \in t.context
  <2>1. i \in Messages /\ RoomOf[i] \in Rooms /\ q.through[RoomOf[i]] # 0
    BY <1>2, <1>3, <1>5, <1>6, ThroughIsLast
  <2>2. PICK k \in t.context : RoomOf[k] = RoomOf[i] /\ k = q.through[RoomOf[i]]
    BY <1>2, <1>3, <2>1, ThroughIsLast
  <2> QED  BY <1>4, <1>6, <2>1, <2>2
<1>7. \A i \in t.context : i <= q.through[RoomOf[i]]
  BY <1>2, <1>3, ThroughIsLast
<1>8. Left(q) = {i \in t.context : (q.all \/ RoomOf[i] = q.room) /\ (q.before = None \/ i < q.before)}
  BY <1>2 DEF Left, Scope
<1>9. ASSUME NEW i PROVE i \in Found(q) <=> i \in Left(q)
  BY <1>2, <1>4, <1>6, <1>7, <1>8 DEF Found
<1> QED  BY <1>3, <1>8, <1>9

LEMMA PagesStep ==
    Inv /\ [Next]_vars => PagesExact'
<1> SUFFICES ASSUME Inv, [Next]_vars PROVE PagesExact'
  OBVIOUS
<1> USE DEF Inv
<1>1. ASSUME UNCHANGED turn, NEW a, IsPage(a) PROVE IsPage(a)'
  BY <1>1, SamePage
<1>2. ASSUME UNCHANGED turn, answers' \subseteq answers, results' \subseteq results
      PROVE  PagesExact'
  BY <1>1, <1>2 DEF PagesExact
\* An answer that is a page, or none, goes to the results.
<1>3. ASSUME UNCHANGED turn, answers' \subseteq answers,
             NEW to, NEW kind, NEW id, NEW answer, IsPage(answer), Reply(to, kind, id, answer)
      PROVE  PagesExact'
  <2> DEFINE r == [to |-> to, kind |-> kind, id |-> id, answer |-> answer]
  <2>1. results' = results \cup {r} \/ UNCHANGED results
    BY <1>3 DEF Reply
  <2>2. r.answer = answer
    OBVIOUS
  <2> HIDE DEF r
  <2> QED  BY <1>1, <1>3, <2>1, <2>2 DEF PagesExact
<1>4. CASE Post
  BY <1>2, <1>4 DEF Post, toolsVars
<1>5. ASSUME NEW w \in Residents, NEW r \in Rooms, NEW start \in 1..posted,
             NEW all \in BOOLEAN, NEW limit \in Limits, StartTurn(w, r, start, all, limit)
      PROVE  PagesExact'
  <2>1. /\ call[w] = None /\ UNCHANGED <<answers, results>>
        /\ \A v \in Residents : v # w => turn'[v] = turn[v]
    BY <1>5 DEF StartTurn, TypeOK, toolsVars
  <2>2. ASSUME NEW t \in Tokens PROVE t.question.from \in Residents /\ t.question.from # w
    <3>1. t.question \in Question /\ t.question.from \in Residents
      BY TokenQuestions
    <3>2. t.question # None
      BY <3>1
    <3>3. call[t.question.from] = t.question
      BY DEF OneToken
    <3> QED  BY <2>1, <3>1, <3>2, <3>3
  <2>3. ASSUME NEW a \in answers PROVE IsPage(a.answer)'
    <3>1. AnswerToken(a) \in Tokens /\ AnswerToken(a).question = a.answer.question
      BY DEF Tokens, TokensOf, AnswerToken
    <3>2. a.answer.question.from \in Residents /\ a.answer.question.from # w
      BY <2>2, <3>1
    <3> QED  BY <2>1, <3>2, SamePage DEF PagesExact
  <2>4. ASSUME NEW r1 \in results PROVE IsPage(r1.answer)'
    <3>1. ResultToken(r1) \in Tokens /\ ResultToken(r1).question = r1.answer.question
      BY DEF Tokens, TokensOf, ResultToken
    <3>2. r1.answer.question.from \in Residents /\ r1.answer.question.from # w
      BY <2>2, <3>1
    <3> QED  BY <2>1, <3>2, SamePage DEF PagesExact
  <2> QED  BY <2>1, <2>3, <2>4 DEF PagesExact
<1>6. ASSUME NEW result \in results, Receive(result) PROVE PagesExact'
  <2> DEFINE q == result.answer.question
             w == q.from
             u == AfterPage(turn[w], result.answer)
  <2>1. /\ w \in Residents /\ turn[w] \in Turn
        /\ turn' = turn \/ turn' = [turn EXCEPT ![w] = u]
    BY <1>6, Delivered DEF Question
  <2>2. u.room = turn[w].room /\ u.context = turn[w].context /\ u.all = turn[w].all
    BY <2>1, PageAfter DEF TypeOK
  <2>3. results' \subseteq results /\ UNCHANGED answers
    BY <1>6 DEF Receive, toolsVars
  <2> HIDE DEF w, u, q
  <2>4. \A v \in Residents : /\ turn'[v].room = turn[v].room /\ turn'[v].all = turn[v].all
                             /\ turn'[v].context = turn[v].context
    BY <2>1, <2>2 DEF TypeOK
  <2>5. ASSUME NEW a \in answers PROVE IsPage(a.answer)'
    <3>1. a.answer.question.from \in Residents
      BY DEF TypeOK, Response, Question
    <3> QED  BY <2>4, <3>1, SamePage DEF PagesExact
  <2>6. ASSUME NEW r \in results PROVE IsPage(r.answer)'
    <3>1. r.answer.question.from \in Residents
      BY DEF TypeOK, Response, Question
    <3> QED  BY <2>4, <3>1, SamePage DEF PagesExact
  <2> QED  BY <2>3, <2>5, <2>6 DEF PagesExact
<1>7. ASSUME NEW w \in Residents, NEW kind \in Kinds, NEW id \in CallIds, Ask(w, kind, id)
      PROVE  PagesExact'
  BY <1>2, <1>7 DEF Ask
<1>8. ASSUME NEW q \in requests, Catalog(q) PROVE PagesExact'
  <2>1. [Failed(q) EXCEPT !.ok = TRUE].question = q /\ q.kind # "context"
    BY <1>8, FailedTyped DEF TypeOK, Catalog
  <2>2. IsPage([Failed(q) EXCEPT !.ok = TRUE])
    BY <2>1 DEF IsPage
  <2> QED  BY <1>3, <1>8, <2>2 DEF Catalog
<1>9. ASSUME NEW q \in requests, Relay(q) PROVE PagesExact'
  BY <1>2, <1>9 DEF Relay
<1>10. ASSUME NEW q \in requests, RelayFails(q) PROVE PagesExact'
  <2>1. IsPage(Failed(q))
    BY FailedTyped DEF TypeOK, IsPage
  <2> QED  BY <1>3, <1>10, <2>1 DEF RelayFails, ReplyFailed
<1>11. ASSUME NEW a \in answers, Forward(a) PROVE PagesExact'
  <2>1. /\ answers' \subseteq answers /\ UNCHANGED turn
        /\ \/ UNCHANGED results
           \/ \E e \in relays : Reply(e.to, e.kind, e.id, a.answer)
    BY <1>11 DEF Forward
  <2>2. IsPage(a.answer)
    BY DEF PagesExact
  <2> QED  BY <1>2, <1>3, <2>1, <2>2
<1>12. ASSUME NEW m \in queries, Answer(m) PROVE PagesExact'
  <2> DEFINE q == m.question
  <2>0. PICK a : a = [relay |-> m.relay, answer |-> AnswerTo(q)]
    OBVIOUS
  <2>1. answers' = answers \cup {a} \/ UNCHANGED answers
    BY <1>12, <2>0 DEF Answer
  <2>2. UNCHANGED <<turn, results>>
    BY <1>12 DEF Answer
  <2>3. q \in Question /\ q.from \in Residents /\ call[q.from] = q
    <3>1. QueryToken(m) \in Tokens /\ QueryToken(m).question = q
      BY DEF Tokens, TokensOf, QueryToken
    <3> QED  BY <3>1, TokenQuestions DEF OneToken
  <2>4. Found(q) = Left(q)
    BY <2>3, FoundIsLeft
  <2>5. IsPage(AnswerTo(q))
    <3>1. AnswerTo(q).question = q
      BY <2>3, AnswerTyped
    <3>2. CASE ~MayAsk(q) \/ q.kind = "members"
      BY <2>3, <3>1, <3>2, FailedTyped DEF AnswerTo, IsPage
    <3>3. CASE MayAsk(q) /\ q.kind # "members"
      <4>1. AnswerTo(q) = [question |-> q, ok |-> TRUE, page |-> LastOf(Found(q), q.limit),
                           next |-> NextBefore(Found(q), q.limit)]
        BY <3>3 DEF AnswerTo
      <4> QED  BY <2>4, <3>1, <4>1 DEF IsPage
    <3> QED  BY <3>2, <3>3
  <2>6. a.answer = AnswerTo(q)
    BY <2>0
  <2> HIDE DEF q
  <2>7. IsPage(a.answer)'
    BY <1>1, <2>2, <2>5, <2>6
  <2> QED  BY <1>1, <2>1, <2>2, <2>7 DEF PagesExact
<1>13. CASE UNCHANGED vars
  BY <1>2, <1>13 DEF vars, toolsVars
<1> QED
  BY <1>4, <1>5, <1>6, <1>7, <1>8, <1>9, <1>10, <1>11, <1>12, <1>13
     DEF Next, TakeRequest, Kinds

----------------------------------------------------------------------------
(* What a turn has read *)

\* What is read of a scope, and what is not.
From(S, before) == {i \in S : before # None /\ i >= before}
Below(S, before) == {i \in S : before = None \/ i < before}

\* With the next page, all of the scope is read from where that page begins.
LEMMA PageJoins ==
    ASSUME NEW S \in SUBSET Messages, NEW limit \in Nat \ {0},
           NEW before \in Messages \cup {None}
    PROVE  LET L == Below(S, before)  page == LastOf(L, limit)  next == NextBefore(L, limit) IN
             /\ Cardinality(From(S, before) \cup page) =
                  Cardinality(From(S, before)) + Cardinality(page)
             /\ next = None => From(S, before) \cup page = S
             /\ next # None => From(S, before) \cup page = From(S, next)
<1>a. PICK read, L : read = From(S, before) /\ L = Below(S, before)
  OBVIOUS
<1>b. PICK page, next : page = LastOf(L, limit) /\ next = NextBefore(L, limit)
  OBVIOUS
<1>c. /\ L = {i \in S : before = None \/ i < before}
      /\ before = None => read = {}
      /\ before # None => read = {i \in S : i >= before}
  BY <1>a DEF From, Below
<1>0. None \notin Messages /\ S \subseteq Nat /\ Messages \subseteq Nat
  BY DEF Messages
<1>1. L \in SUBSET Messages /\ read \in SUBSET S
  BY <1>c
<1>2. read \cap L = {} /\ read \cup L = S
  <2>1. CASE before = None
    BY <1>c, <2>1
  <2>2. CASE before # None
    <3>1. before \in Nat /\ \A i \in S : i < before <=> ~(i >= before)
      BY <1>0, <2>2
    <3>2. L = {i \in S : ~(i >= before)} /\ read = {i \in S : i >= before}
      BY <1>c, <2>2, <3>1
    <3> QED  BY <3>2
  <2> QED  BY <2>1, <2>2
<1>3. page \in SUBSET L
  <2>1. LastOf(L, limit) \subseteq L
    BY DEF LastOf
  <2> QED  BY <1>b, <2>1
<1>4. \/ next = None /\ page = L
      \/ next \in L /\ next # None /\ page = {i \in L : i >= next}
  <2>1. \/ NextBefore(L, limit) = None /\ LastOf(L, limit) = L
        \/ /\ NextBefore(L, limit) \in Messages
           /\ LastOf(L, limit) = {i \in L : i >= NextBefore(L, limit)}
           /\ NextBefore(L, limit) \in L
    BY <1>1, NextIsLeast
  <2> QED  BY <1>0, <1>b, <2>1
<1>5. Cardinality(read \cup page) = Cardinality(read) + Cardinality(page)
  <2>1. read \in SUBSET Messages /\ page \in SUBSET Messages
    BY <1>1, <1>3
  <2>2. /\ IsFiniteSet(read) /\ IsFiniteSet(page)
        /\ Cardinality(read) \in Nat /\ Cardinality(page) \in Nat
    BY <2>1, MessagesFinite
  <2>3. read \cap page = {}
    BY <1>2, <1>3
  <2>4. Cardinality(read \cup page) =
          Cardinality(read) + Cardinality(page) - Cardinality(read \cap page)
    BY <2>2, FS_Union
  <2>5. Cardinality(read \cap page) = 0
    BY <2>3, FS_EmptySet
  <2> QED  BY <2>2, <2>4, <2>5
<1>6. next = None => read \cup page = S
  BY <1>0, <1>1, <1>2, <1>4
<1>7. ASSUME next # None PROVE read \cup page = {i \in S : i >= next}
  <2>1. next \in L /\ page = {i \in L : i >= next}
    BY <1>4, <1>7
  <2>2. /\ next \in S /\ next \in Nat
        /\ before # None => next < before
    BY <1>0, <1>1, <1>c, <2>1
  <2>3. ASSUME NEW i \in read PROVE i >= next
    <3>1. before # None /\ before \in Nat /\ i \in Nat /\ i >= before
      BY <1>0, <1>c
    <3> QED  BY <2>2, <3>1
  <2> QED  BY <1>2, <2>1, <2>2, <2>3
<1>8. next # None => From(S, next) = {i \in S : i >= next}
  BY DEF From
<1> QED  BY <1>5, <1>6, <1>7, <1>8, <1>a, <1>b

LEMMA ReadOn ==
    ASSUME NEW t \in Turn, EndRead(t), ~t.over, NEW a \in Response,
           a.page = LastOf(Below(Scope(t), t.before), t.limit),
           a.next = NextBefore(Below(Scope(t), t.before), t.limit)
    PROVE  EndRead(AfterPage(t, a))
<1>1. PICK S, limit, before : S = Scope(t) /\ limit = t.limit /\ before = t.before
  OBVIOUS
<1>2. PICK next, page : next = a.next /\ page = a.page
  OBVIOUS
<1>3. S \in SUBSET Messages
  BY <1>1 DEF Scope, Turn
<1>4. limit \in Nat \ {0} /\ before \in Messages \cup {None}
  BY <1>1 DEF Turn
<1>5. t.count = Cardinality(From(S, before)) /\ t.read = From(S, before)
  BY <1>1 DEF EndRead, From
<1>6. next = NextBefore(Below(S, before), limit) /\ page = LastOf(Below(S, before), limit)
  BY <1>1, <1>2
<1>7. /\ Cardinality(From(S, before) \cup page) =
           Cardinality(From(S, before)) + Cardinality(page)
      /\ next = None => From(S, before) \cup page = S
      /\ next # None => From(S, before) \cup page = From(S, next)
  BY <1>3, <1>4, <1>6, PageJoins
<1>8. PICK u : u = AfterPage(t, a)
  OBVIOUS
<1>9. /\ u.room = t.room /\ u.context = t.context /\ u.all = t.all /\ u.before = next
      /\ u.read = t.read \cup page /\ u.count = t.count + Cardinality(page)
      /\ u.over <=> next = None
  BY <1>2, <1>8, PageAfter
<1>10. Scope(u) = S
  BY <1>1, <1>9 DEF Scope
<1>11. next # None => From(S, next) = {i \in S : i >= next}
  BY DEF From
<1> QED  BY <1>5, <1>7, <1>8, <1>9, <1>10, <1>11 DEF EndRead

LEMMA ReadStep ==
    Inv /\ [Next]_vars => ReadExact'
<1> SUFFICES ASSUME Inv, [Next]_vars PROVE ReadExact'
  OBVIOUS
<1> USE DEF Inv
<1>1. ASSUME UNCHANGED turn PROVE ReadExact'
  BY <1>1 DEF ReadExact
<1>2. ASSUME NEW w \in Residents, NEW r \in Rooms, NEW start \in 1..posted,
             NEW all \in BOOLEAN, NEW limit \in Limits, StartTurn(w, r, start, all, limit)
      PROVE  ReadExact'
  <2>0. PICK t : t = [room |-> r, context |-> ContextOf(w, r, start), all |-> all,
                   limit |-> limit, before |-> None, read |-> {}, count |-> 0, over |-> FALSE]
    OBVIOUS
  <2>1. turn' = [turn EXCEPT ![w] = t]
    BY <1>2, <2>0 DEF StartTurn
  <2>2. EndRead(t)
    BY <2>0, FS_EmptySet DEF EndRead
  <2>3. turn'[w] = t /\ \A v \in Residents : v # w => turn'[v] = turn[v]
    BY <2>1 DEF TypeOK
  <2> QED  BY <2>2, <2>3 DEF ReadExact
<1>3. ASSUME NEW result \in results, Receive(result) PROVE ReadExact'
  <2> DEFINE q == result.answer.question
             w == q.from
             t == turn[w]
  <2>0. PICK u : u = AfterPage(t, result.answer)
    OBVIOUS
  <2>1. /\ q \in Question /\ w \in Residents /\ call[w] = q /\ t \in Turn
        /\ turn' = IF q.kind # "context" \/ ~result.answer.ok THEN turn
                   ELSE [turn EXCEPT ![w] = u]
    BY <1>3, <2>0, Delivered DEF Question
  <2>2. CASE q.kind # "context" \/ ~result.answer.ok
    BY <1>1, <2>1, <2>2
  <2>3. CASE q.kind = "context" /\ result.answer.ok
    <3>1. /\ t # None /\ q.from = w /\ q.before = t.before /\ q.limit = t.limit /\ ~t.over
          /\ call[w] # None
      BY <2>1, <2>3 DEF QuestionsExact
    <3>2. EndRead(t)
      BY <2>1, <3>1 DEF ReadExact
    <3>3. Left(q) = Below(Scope(t), t.before)
      BY <3>1 DEF Left, Below
    <3>4. /\ result.answer.page = LastOf(Left(q), t.limit)
          /\ result.answer.next = NextBefore(Left(q), t.limit)
          /\ result.answer \in Response
      BY <2>3, <3>1 DEF PagesExact, IsPage, TypeOK
    <3>5. EndRead(u)
      BY <2>0, <2>1, <3>1, <3>2, <3>3, <3>4, ReadOn
    <3>6. turn'[w] = u /\ \A v \in Residents : v # w => turn'[v] = turn[v]
      BY <2>1, <2>3 DEF TypeOK
    <3> HIDE DEF t, w
    <3> QED  BY <2>1, <3>5, <3>6 DEF ReadExact
  <2> QED  BY <2>2, <2>3
<1>4. CASE Post
  BY <1>1, <1>4 DEF Post
<1>5. ASSUME NEW w \in Residents, NEW kind \in Kinds, NEW id \in CallIds, Ask(w, kind, id)
      PROVE  ReadExact'
  BY <1>1, <1>5 DEF Ask
<1>6. ASSUME NEW q \in requests, TakeRequest(q) PROVE ReadExact'
  BY <1>1, <1>6 DEF TakeRequest, Catalog, Relay, RelayFails
<1>7. ASSUME NEW a \in answers, Forward(a) PROVE ReadExact'
  BY <1>1, <1>7 DEF Forward
<1>8. ASSUME NEW m \in queries, Answer(m) PROVE ReadExact'
  BY <1>1, <1>8 DEF Answer
<1>9. CASE UNCHANGED vars
  BY <1>1, <1>9 DEF vars
<1> QED
  BY <1>2, <1>3, <1>4, <1>5, <1>6, <1>7, <1>8, <1>9 DEF Next, Kinds

----------------------------------------------------------------------------
(* The invariant, and what it is for *)

LEMMA InvInit == Init => Inv
<1> SUFFICES ASSUME Init PROVE Inv
  OBVIOUS
<1>1. TypeOK
  BY DEF Init, TypeOK
<1>2. Tokens = {}
  BY DEF Init, Tokens, TokensOf
<1>3. OneToken
  BY <1>2 DEF OneToken
<1> QED
  BY <1>1, <1>3 DEF Init, Inv, RelaysExact, ResultsExact, ContextsClosed, QuestionsExact,
     PagesExact, ReadExact

LEMMA InvCorrect == SafetySpec => []Inv
<1>1. Inv /\ [Next]_vars => Inv'
  BY TypeStep, TokenStep, RelaysStep, ContextsStep, QuestionsStep, PagesStep, ReadStep DEF Inv
<1> QED  BY InvInit, <1>1, PTL DEF SafetySpec

\* A call gets the answer to its own question: there is one token of it, and the
\* relay under its number leads back to whoever asked.
THEOREM AnswersOwnQuestionCorrect == SafetySpec => []AnswersOwnQuestion
<1>1. Inv => AnswersOwnQuestion
  <2> SUFFICES ASSUME Inv, NEW r \in results PROVE call[r.to] = r.answer.question
    BY DEF AnswersOwnQuestion
  <2>1. ResultToken(r) \in Tokens /\ ResultToken(r).question = r.answer.question
    BY DEF Tokens, TokensOf, ResultToken
  <2>2. r.to = r.answer.question.from
    BY DEF Inv, ResultsExact
  <2> QED  BY <2>1, <2>2 DEF Inv, OneToken
<1> QED  BY <1>1, InvCorrect, PTL

\* A turn that reads to the end has read its scope of its context, once.
THEOREM PagesCompleteCorrect == SafetySpec => []PagesComplete
<1>1. Inv => PagesComplete
  BY DEF Inv, ReadExact, EndRead, Scope, PagesComplete
<1> QED  BY <1>1, InvCorrect, PTL

\* What a turn reads by its tool calls is part of the context it was given.
THEOREM ReadsWithinContextCorrect == SafetySpec => []ReadsWithinContext
<1>1. Inv => ReadsWithinContext
  <2> SUFFICES ASSUME Inv, NEW w \in Residents, turn[w] # None
               PROVE  turn[w].read \subseteq turn[w].context
    BY DEF ReadsWithinContext
  <2>1. EndRead(turn[w]) /\ turn[w] \in Turn
    BY DEF Inv, ReadExact, TypeOK
  <2> QED  BY <2>1 DEF EndRead, Scope, Turn
<1> QED  BY <1>1, InvCorrect, PTL
=============================================================================
