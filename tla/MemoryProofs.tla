---------------------------- MODULE MemoryProofs ----------------------------
(***************************************************************************)
(* The memory cursor never passes a message that no applied extraction had; *)
(* what is cached was mentioned in as many messages as it takes; and what   *)
(* is hot is no older than what is ripe and is not.                         *)
(***************************************************************************)
EXTENDS Memory, FiniteSetTheorems, WellFoundedInduction, TLAPS

\* What the argument needs of the types.
Shape ==
    /\ posted \in 0..MaxMessages
    /\ cursor \in [Rooms -> Nat]
    /\ work \in [Residents -> [room : Rooms, upTo : Nat, events : SUBSET Messages] \cup {None}]
    /\ triggers \subseteq [to : Residents, room : Rooms, upTo : Nat]

\* An extraction under way holds every message of its room, up to the last one
\* it will set the cursor to, that no applied one had.
WorkCovers ==
    \A w \in Residents : work[w] # None =>
      \A i \in Messages :
        i <= work[w].upTo /\ RoomOf[i] = work[w].room => i \in processed \cup work[w].events

CursorInv == Shape /\ WorkCovers /\ NothingSkipped

\* What chat sends names a room and one of its messages.
LEMMA EmittedShape ==
    ASSUME posted \in 0..MaxMessages, NEW r \in Rooms, NEW members \in SUBSET Residents
    PROVE  Emitted(r, members) \subseteq [to : Residents, room : Rooms, upTo : Nat]
<1>1. Latest(PostedIn(r)) \subseteq Nat
  BY MessagesAssumption DEF Latest, PostedIn
<1> QED  BY <1>1 DEF Emitted

\* The first start and one with an earlier process's memory.
LEMMA CursorInit == Init => CursorInv
<1> SUFFICES ASSUME Init PROVE CursorInv
  OBVIOUS
<1>1. Shape
  BY MessagesAssumption DEF Init, Shape
<1>2. WorkCovers
  BY DEF Init, WorkCovers
<1>3. NothingSkipped
  <2>1. CASE cursor = [r \in Rooms |-> 0]
    BY <2>1, MessagesAssumption DEF NothingSkipped, Messages
  <2>2. CASE /\ processed = {i \in 1..Earlier : RoomOf[i] \notin Incognito}
             /\ cursor \in [Rooms -> 0..Earlier]
             /\ \A r \in Rooms :
                  cursor[r] \in Latest({0} \cup {i \in processed : RoomOf[i] = r})
    <3> SUFFICES ASSUME NEW i \in Messages, i <= cursor[RoomOf[i]] PROVE i \in processed
      BY DEF NothingSkipped
    <3>1. RoomOf[i] \in Rooms /\ i \in 1..Earlier
      BY <2>2, MessagesAssumption DEF Messages
    <3>2. PICK k \in processed : k = cursor[RoomOf[i]] /\ RoomOf[k] = RoomOf[i]
      BY <2>2, <3>1 DEF Latest
    <3> QED  BY <2>2, <3>1, <3>2
  <2> QED  BY <2>1, <2>2 DEF Init
<1> QED  BY <1>1, <1>2, <1>3 DEF CursorInv

\* No step of chat, of a Resident or of the manager breaks it.
LEMMA CursorNext == CursorInv /\ [Next]_vars => CursorInv'
<1> SUFFICES ASSUME CursorInv, [Next]_vars PROVE CursorInv'
  OBVIOUS
<1> USE DEF CursorInv
<1>1. CASE UNCHANGED <<posted, cursor, work, triggers, processed>>
  BY <1>1 DEF Shape, WorkCovers, NothingSkipped
<1>2. CASE Post
  <2>1. UNCHANGED <<cursor, work, triggers, processed>> /\ posted' \in 0..MaxMessages
    BY <1>2, MessagesAssumption DEF Post, managerVars, Shape
  <2> QED  BY <2>1 DEF Shape, WorkCovers, NothingSkipped
<1>3. ASSUME NEW sent, sent \subseteq [to : Residents, room : Rooms, upTo : Nat],
             triggers' \subseteq triggers \cup sent,
             UNCHANGED <<posted, cursor, processed>>,
             UNCHANGED work \/ work' = [w \in Residents |-> None]
      PROVE  CursorInv'
  BY <1>3 DEF Shape, WorkCovers, NothingSkipped
<1>4. ASSUME NEW r \in Rooms, Sleep(r) PROVE CursorInv'
  BY <1>3, <1>4, EmittedShape, RoomsAssumption DEF Sleep, Send, chatVars, managerVars, Shape
<1>5. ASSUME NEW r \in Rooms, NEW m \in Residents, Compacted(r, m) PROVE CursorInv'
  BY <1>3, <1>5, EmittedShape DEF Compacted, Send, chatVars, managerVars, Shape
<1>6. ASSUME NEW t \in triggers, Lose(t) PROVE CursorInv'
  BY <1>3, <1>6 DEF Lose, chatVars, managerVars
<1>7. CASE Restart
  <2>1. triggers' \subseteq [to : Residents, room : Rooms, upTo : Nat]
    BY <1>7, EmittedShape, RoomsAssumption DEF Restart, Shape
  <2> QED  BY <1>3, <1>7, <2>1 DEF Restart, chatVars, managerVars
<1>8. CASE Tick
  BY <1>1, <1>8 DEF Tick, managerVars
<1>9. ASSUME NEW w \in Residents, NEW t \in triggers, Take(w, t) PROVE CursorInv'
  <2> DEFINE events == IF enabled THEN Unprocessed(t.room, t.upTo) ELSE {}
  <2>1. CASE events = {}
    BY <1>3, <1>9, <2>1 DEF Take, chatVars, managerVars
  <2>2. CASE events # {}
    <3>1. /\ work' = [work EXCEPT ![w] = [room |-> t.room, upTo |-> t.upTo, events |-> events]]
          /\ triggers' \subseteq triggers
          /\ UNCHANGED <<posted, cursor, processed>>
      BY <1>9, <2>2 DEF Take, chatVars, managerVars
    <3>2. t.room \in Rooms /\ t.upTo \in Nat /\ events = Unprocessed(t.room, t.upTo)
      BY <2>2 DEF Shape
    <3>3. Shape'
      BY <3>1, <3>2 DEF Shape, Unprocessed
    <3>4. \A i \in Messages :
            i <= t.upTo /\ RoomOf[i] = t.room => i \in processed \cup events
      BY <3>2, MessagesAssumption DEF Unprocessed, Shape, NothingSkipped, Messages
    <3>5. WorkCovers'
      <4> SUFFICES ASSUME NEW v \in Residents, work'[v] # None, NEW i \in Messages,
                          i <= work'[v].upTo, RoomOf[i] = work'[v].room
                   PROVE  i \in processed \cup work'[v].events
        BY <3>1 DEF WorkCovers
      <4>1. CASE v = w
        BY <3>1, <3>4, <4>1 DEF Shape
      <4>2. CASE v # w
        BY <3>1, <4>2 DEF Shape, WorkCovers
      <4> QED  BY <4>1, <4>2
    <3> QED  BY <3>1, <3>3, <3>5 DEF NothingSkipped
  <2> QED  BY <2>1, <2>2
<1>10. ASSUME NEW w \in Residents, ExtractionFails(w) PROVE CursorInv'
  BY <1>10 DEF ExtractionFails, chatVars, managerVars, Shape, WorkCovers, NothingSkipped
<1>11. ASSUME NEW w \in Residents, NEW found, Apply(w, found) PROVE CursorInv'
  <2>1. /\ work[w] # None /\ work' = [work EXCEPT ![w] = None]
        /\ UNCHANGED <<posted, triggers>>
    BY <1>11 DEF Apply, chatVars
  <2>2. CASE UNCHANGED <<cursor, processed>>
    BY <2>1, <2>2 DEF Shape, WorkCovers, NothingSkipped
  <2>3. CASE /\ cursor' = [cursor EXCEPT ![work[w].room] = work[w].upTo]
             /\ processed' = processed \cup work[w].events
    <3>1. work[w].room \in Rooms /\ work[w].upTo \in Nat
      BY <2>1 DEF Shape
    <3>2. Shape'
      BY <2>1, <2>3, <3>1 DEF Shape
    <3>3. WorkCovers'
      BY <2>1, <2>3 DEF Shape, WorkCovers
    <3>4. NothingSkipped'
      BY <2>1, <2>3, <3>1 DEF Shape, WorkCovers, NothingSkipped
    <3> QED  BY <3>2, <3>3, <3>4
  <2> QED  BY <1>11, <2>2, <2>3 DEF Apply
<1>12. CASE ReadHot
  BY <1>1, <1>12 DEF ReadHot, chatVars
<1>13. CASE SetEnabled
  BY <1>1, <1>13 DEF SetEnabled, chatVars
<1>14. CASE UNCHANGED vars
  BY <1>1, <1>14 DEF vars, chatVars, managerVars
<1> QED
  BY <1>2, <1>4, <1>5, <1>6, <1>7, <1>8, <1>9, <1>10, <1>11, <1>12, <1>13, <1>14 DEF Next

\* A message the memory cursor has passed was in an extraction that was applied,
\* for any Residents, rooms, messages and limits: whatever fails, is lost or
\* switched off, and however two Residents' extractions of a room overlap, apply
\* and unprocessed of memory.rs make no message disappear unseen.
THEOREM NothingSkippedCorrect == Spec => []NothingSkipped
<1>1. CursorInv => NothingSkipped
  BY DEF CursorInv
<1> QED  BY <1>1, CursorInit, CursorNext, PTL DEF Spec

----------------------------------------------------------------------------
(* Loops: the least counterexample instead of an induction, and what a      *)
(* recursive function of a loop computes while it stays in a set.           *)

LEMMA LeastExists ==
    ASSUME NEW S \in SUBSET Nat, S # {}
    PROVE  \E i \in S : \A j \in S : i <= j
<1> DEFINE R == OpToRel(<, Nat)
<1>1. IsWellFoundedOn(R, Nat)
  BY NatLessThanWellFounded
<1>2. \A k, n \in Nat : k < n => <<k, n>> \in R
  BY DEF OpToRel
<1> HIDE DEF R
<1>3. \E k \in S : \A n \in S : ~ (<<n, k>> \in R)
  BY <1>1, WFMin
<1>4. PICK i \in S : \A n \in S : ~ (n < i)
  BY <1>2, <1>3, Zenon
<1> QED  BY <1>4

LEMMA LargestTime ==
    ASSUME NEW S \in SUBSET Times, S # {}
    PROVE  Max(S) \in S /\ \A t \in S : t <= Max(S)
<1> DEFINE T == {k \in Nat : \E t \in S : k = MaxTime - t}
<1>1. T # {}
  <2>1. PICK t \in S : TRUE
    OBVIOUS
  <2>2. MaxTime - t \in T
    BY <2>1, LimitsAssumption DEF Times
  <2> QED  BY <2>2
<1>2. PICK k \in T : \A l \in T : k <= l
  BY <1>1, LeastExists
<1>3. PICK t \in S : k = MaxTime - t
  BY <1>2
<1>4. ASSUME NEW u \in S PROVE t >= u
  <2>1. MaxTime - u \in T
    BY LimitsAssumption DEF Times
  <2>2. k <= MaxTime - u
    BY <1>2, <2>1
  <2>3. t \in Nat /\ u \in Nat /\ MaxTime \in Nat
    BY LimitsAssumption DEF Times
  <2> HIDE DEF T
  <2> QED  BY <1>3, <2>2, <2>3
<1>5. Max(S) \in S /\ \A u \in S : Max(S) >= u
  BY <1>4 DEF Max
<1>6. PICK m : m = Max(S)
  OBVIOUS
<1> QED  BY <1>5, <1>6, LimitsAssumption DEF Times

LEMMA StepByStep ==
    ASSUME NEW N \in Nat, NEW B, 0 \in B, \A n \in 1..N : n - 1 \in B => n \in B
    PROVE  0..N \subseteq B
<1> DEFINE Bad == {n \in 0..N : n \notin B}
<1> SUFFICES ASSUME Bad # {} PROVE FALSE
  OBVIOUS
<1>1. PICK n \in Bad : \A k \in Bad : n <= k
  <2>1. Bad \in SUBSET Nat
    OBVIOUS
  <2> HIDE DEF Bad
  <2> QED  BY <2>1, LeastExists
<1>2. n \in 1..N /\ n - 1 \in 0..N
  BY <1>1
<1>3. n - 1 \notin Bad
  BY <1>1, <1>2
<1> QED  BY <1>1, <1>2, <1>3

\* A loop of N turns, each of which stays in S, has a run h.
Run(h, S, start, N, turn) ==
    /\ h \in [0..N -> S]
    /\ h[0] = start
    /\ \A n \in 1..N : h[n] = turn[n][h[n - 1]]

LEMMA Runs ==
    ASSUME NEW S, NEW start \in S, NEW N \in Nat, NEW turn \in [1..N -> [S -> S]]
    PROVE  \E h : Run(h, S, start, N, turn)
<1> DEFINE To(m, h) == h[0] = start /\ \A n \in 1..m : h[n] = turn[n][h[n - 1]]
           B == {m \in 0..N : \E h \in [0..m -> S] : To(m, h)}
<1>1. 0 \in B
  <2> DEFINE g == [n \in 0..0 |-> start]
  <2>1. g \in [0..0 -> S]
    OBVIOUS
  <2>2. g[0] = start /\ 1..0 = {} /\ 0 \in 0..N
    OBVIOUS
  <2> HIDE DEF g
  <2> QED  BY <2>1, <2>2
<1>2. ASSUME NEW m \in 1..N, m - 1 \in B PROVE m \in B
  <2>1. PICK h \in [0..(m - 1) -> S] : To(m - 1, h)
    BY <1>2
  <2> DEFINE g == [n \in 0..m |-> IF n = m THEN turn[m][h[m - 1]] ELSE h[n]]
  <2>2. m - 1 \in 0..(m - 1) /\ h[m - 1] \in S
    OBVIOUS
  <2>3. g \in [0..m -> S]
    <3>1. turn[m][h[m - 1]] \in S
      BY <2>2
    <3>2. \A n \in 0..m : n # m => h[n] \in S
      OBVIOUS
    <3> QED  BY <3>1, <3>2
  <2>4. ASSUME NEW n \in 1..m PROVE g[n] = turn[n][g[n - 1]]
    <3>1. n \in 0..m /\ n - 1 \in 0..m /\ n - 1 # m /\ g[n - 1] = h[n - 1]
      OBVIOUS
    <3>2. CASE n = m
      BY <3>1, <3>2
    <3>3. CASE n # m
      <4>1. n \in 1..(m - 1)
        BY <3>3
      <4>2. g[n] = h[n] /\ h[n] = turn[n][h[n - 1]]
        BY <2>1, <3>1, <3>3, <4>1
      <4> QED  BY <3>1, <4>2
    <3> QED  BY <3>2, <3>3
  <2>5. g[0] = start
    BY <2>1
  <2> HIDE DEF g
  <2>6. To(m, g)
    BY <2>4, <2>5
  <2> QED  BY <2>3, <2>6
<1>3. N \in B
  <2> HIDE DEF B
  <2>1. 0..N \subseteq B
    BY <1>1, <1>2, StepByStep
  <2> QED  BY <2>1
<1> QED  BY <1>3 DEF Run

----------------------------------------------------------------------------
(* Counting the mentions of a fact                                          *)

Clock == now \in Times /\ createdAt \in [Messages -> Times]

LEMMA FiniteIds == \A S \in SUBSET Messages : IsFiniteSet(S) /\ Cardinality(S) \in Nat
<1>1. IsFiniteSet(Messages)
  BY FS_Interval, MessagesAssumption DEF Messages
<1> QED  BY <1>1, FS_Subset, FS_CardinalityType

LEMMA MentionsFinite ==
    ASSUME NEW recent \in [Times -> Nat]
    PROVE  IsFiniteSet(Entries(recent)) /\ Mentions(recent) \in Nat
<1> DEFINE At(t) == {t} \X (1..recent[t])
           All == {At(t) : t \in Times}
           f == [t \in Times |-> At(t)]
<1>1. IsFiniteSet(Times)
  BY FS_Interval, LimitsAssumption DEF Times
<1>2. f \in Surjection(Times, All)
  BY DEF Surjection
<1>3. IsFiniteSet(All)
  BY <1>1, <1>2, FS_Surjection
<1>4. ASSUME NEW t \in Times PROVE IsFiniteSet(At(t))
  <2>1. IsFiniteSet({t})
    BY FS_Singleton
  <2>2. recent[t] \in Int
    OBVIOUS
  <2>3. IsFiniteSet(1..recent[t])
    BY <2>2, FS_Interval
  <2> QED  BY <2>1, <2>3, FS_Product
<1>5. \A T \in All : IsFiniteSet(T)
  BY <1>4
<1>6. Entries(recent) = UNION All
  BY DEF Entries
<1> HIDE DEF All
<1>7. IsFiniteSet(Entries(recent))
  BY <1>3, <1>5, <1>6, FS_UNION
<1> QED  BY <1>7, FS_CardinalityType DEF Mentions

LEMMA MentionsMonotone ==
    ASSUME NEW fewer \in [Times -> Nat], NEW more \in [Times -> Nat],
           \A t \in Times : fewer[t] <= more[t]
    PROVE  Mentions(fewer) <= Mentions(more)
<1>1. Entries(fewer) \subseteq Entries(more)
  BY DEF Entries
<1> QED  BY <1>1, MentionsFinite, FS_Subset DEF Mentions

LEMMA RetainedFewer ==
    ASSUME NEW recent \in [Times -> Nat]
    PROVE  Retained(recent) \in [Times -> Nat] /\ Mentions(Retained(recent)) <= Mentions(recent)
<1>1. Retained(recent) \in [Times -> Nat]
  BY DEF Retained
<1>2. \A t \in Times : Retained(recent)[t] <= recent[t]
  BY DEF Retained
<1> QED  BY <1>1, <1>2, MentionsMonotone

\* Every fresh message is one entry more.
Grown(recent, fresh) ==
    [t \in Times |-> recent[t] + Cardinality({i \in fresh : createdAt[i] = t})]

LEMMA GrownByFresh ==
    ASSUME Clock, NEW recent \in [Times -> Nat], NEW fresh \in SUBSET Messages
    PROVE  /\ Grown(recent, fresh) \in [Times -> Nat]
           /\ Mentions(Grown(recent, fresh)) <= Mentions(recent) + Cardinality(fresh)
<1> DEFINE At(t) == {i \in fresh : createdAt[i] = t}
           Extra == Entries(Grown(recent, fresh)) \ Entries(recent)
<1>1. ASSUME NEW t \in Times
      PROVE  IsFiniteSet(At(t)) /\ Cardinality(At(t)) \in Nat
  BY FiniteIds
<1>2. Grown(recent, fresh) \in [Times -> Nat]
  BY <1>1 DEF Grown
<1>3. \A e \in Extra : /\ e[1] \in Times
                       /\ e[2] \in Nat
                       /\ e[2] - recent[e[1]] \in 1..Cardinality(At(e[1]))
                       /\ e = <<e[1], e[2]>>
  <2> SUFFICES ASSUME NEW e \in Extra
               PROVE  /\ e[1] \in Times /\ e[2] \in Nat
                      /\ e[2] - recent[e[1]] \in 1..Cardinality(At(e[1]))
                      /\ e = <<e[1], e[2]>>
    OBVIOUS
  <2>1. PICK t \in Times : e \in {t} \X (1..Grown(recent, fresh)[t])
    BY DEF Entries
  <2>2. PICK n \in 1..Grown(recent, fresh)[t] : e = <<t, n>>
    BY <2>1
  <2>3. n \notin 1..recent[t]
    <3>1. n \in 1..recent[t] => <<t, n>> \in Entries(recent)
      BY DEF Entries
    <3> QED  BY <2>2, <3>1
  <2>4. Grown(recent, fresh)[t] = recent[t] + Cardinality(At(t))
    BY DEF Grown
  <2>5. recent[t] \in Nat /\ Cardinality(At(t)) \in Nat
    BY <1>1
  <2>6. n - recent[t] \in 1..Cardinality(At(t))
    <3> HIDE DEF At
    <3> QED  BY <2>3, <2>4, <2>5
  <2> QED  BY <2>2, <2>6
<1>4. ASSUME NEW t \in Times PROVE \E b : b \in Bijection(1..Cardinality(At(t)), At(t))
  BY <1>1, FS_CardinalityType DEF ExistsBijection
<1> DEFINE g == [t \in Times |-> CHOOSE b : b \in Bijection(1..Cardinality(At(t)), At(t))]
           f == [e \in Extra |-> g[e[1]][e[2] - recent[e[1]]]]
<1>5. ASSUME NEW t \in Times
      PROVE  /\ \A n \in 1..Cardinality(At(t)) : g[t][n] \in At(t)
             /\ \A m, n \in 1..Cardinality(At(t)) : g[t][m] = g[t][n] => m = n
  <2>1. g[t] \in Bijection(1..Cardinality(At(t)), At(t))
    BY <1>4
  <2> HIDE DEF g, At
  <2> QED  BY <2>1 DEF Bijection, Injection, IsInjective
<1>6. f \in Injection(Extra, fresh)
  <2>1. ASSUME NEW e \in Extra PROVE f[e] \in At(e[1])
    <3>1. e[1] \in Times /\ e[2] - recent[e[1]] \in 1..Cardinality(At(e[1]))
      BY <1>3
    <3>2. g[e[1]][e[2] - recent[e[1]]] \in At(e[1])
      <4> HIDE DEF Extra, At, g
      <4> QED  BY <1>5, <3>1
    <3> QED  BY <3>2
  <2>2. ASSUME NEW d \in Extra, NEW e \in Extra, f[d] = f[e] PROVE d = e
    <3>1. d[1] = e[1]
      <4>1. f[d] \in At(d[1]) /\ f[e] \in At(e[1])
        BY <2>1
      <4>2. createdAt[f[d]] = d[1] /\ createdAt[f[e]] = e[1]
        <5> HIDE DEF f, Extra
        <5> QED  BY <4>1
      <4> QED  BY <2>2, <4>2
    <3>2. f[d] = g[d[1]][d[2] - recent[d[1]]] /\ f[e] = g[e[1]][e[2] - recent[e[1]]]
      OBVIOUS
    <3>3. d[2] - recent[d[1]] = e[2] - recent[e[1]]
      <4> DEFINE m == d[2] - recent[d[1]]
                 n == e[2] - recent[e[1]]
      <4>1. /\ d[1] \in Times
            /\ m \in 1..Cardinality(At(d[1]))
            /\ n \in 1..Cardinality(At(d[1]))
        BY <1>3, <3>1
      <4>2. g[d[1]][m] = g[d[1]][n]
        BY <2>2, <3>1, <3>2
      <4> HIDE DEF Extra, At, g, f, m, n
      <4>3. m = n
        BY <1>5, <4>1, <4>2
      <4> QED  BY <4>3 DEF m, n
    <3>4. d[2] = e[2]
      <4>1. d[1] \in Times /\ recent[d[1]] \in Nat /\ d[2] \in Nat /\ e[2] \in Nat
        BY <1>3
      <4> QED  BY <3>1, <3>3, <4>1
    <3>5. d = <<d[1], d[2]>> /\ e = <<e[1], e[2]>>
      BY <1>3
    <3> QED  BY <3>1, <3>4, <3>5
  <2>3. f \in [Extra -> fresh]
    BY <2>1
  <2> HIDE DEF f, Extra
  <2> QED  BY <2>2, <2>3 DEF Injection, IsInjective
<1>7. IsFiniteSet(Extra) /\ Cardinality(Extra) <= Cardinality(fresh)
  <2> HIDE DEF f, Extra
  <2> QED  BY <1>6, FS_Injection, FiniteIds
<1>8. Entries(Grown(recent, fresh)) \subseteq Entries(recent) \cup Extra
  OBVIOUS
<1>9. Cardinality(Entries(recent) \cup Extra) <= Mentions(recent) + Cardinality(fresh)
  <2>1. IsFiniteSet(Entries(recent)) /\ Mentions(recent) \in Nat
    BY MentionsFinite
  <2>2. IsFiniteSet(Entries(recent) \cap Extra)
    BY <2>1, FS_Intersection
  <2> HIDE DEF Extra
  <2>3. Cardinality(Entries(recent) \cup Extra)
          = Mentions(recent) + Cardinality(Extra) - Cardinality(Entries(recent) \cap Extra)
    BY <1>7, <2>1, FS_Union DEF Mentions
  <2>4. /\ Cardinality(Extra) \in Nat /\ Cardinality(Entries(recent) \cap Extra) \in Nat
        /\ Cardinality(fresh) \in Nat
    BY <1>7, <2>2, FS_CardinalityType, FiniteIds
  <2> QED  BY <1>7, <2>1, <2>3, <2>4
<1>10. Mentions(Grown(recent, fresh)) <= Mentions(recent) + Cardinality(fresh)
  <2>1. IsFiniteSet(Entries(recent) \cup Extra)
    <3> HIDE DEF Extra
    <3> QED  BY <1>7, MentionsFinite, FS_Union
  <2>2. Mentions(Grown(recent, fresh)) <= Cardinality(Entries(recent) \cup Extra)
    <3> HIDE DEF Extra
    <3> QED  BY <1>8, <2>1, FS_Subset DEF Mentions
  <2>3. /\ Cardinality(Entries(recent) \cup Extra) \in Nat
        /\ Mentions(Grown(recent, fresh)) \in Nat /\ Mentions(recent) \in Nat
        /\ Cardinality(fresh) \in Nat
    <3> HIDE DEF Extra
    <3> QED  BY <1>2, <2>1, MentionsFinite, FS_CardinalityType, FiniteIds
  <2> QED  BY <1>9, <2>2, <2>3
<1> QED  BY <1>2, <1>10

----------------------------------------------------------------------------
(* What the manager knows: facts of as many messages as it takes, of which  *)
(* no more are hot than there is room for.                                  *)

\* The messages of users that may be a source.
Open(upTo) == {i \in Users : i <= upTo /\ RoomOf[i] \notin Incognito}

Honest(upTo) ==
    {fact \in Fact :
       /\ fact.sources \subseteq Open(upTo)
       /\ Mentions(fact.recent) <= Cardinality(fact.sources)
       /\ fact.cached # None => Cardinality(fact.sources) >= Frequent}

Known(upTo) ==
    {known \in Seq(Honest(upTo)) : Cardinality(HotIn(known)) <= HotCapacity}

LEMMA HotFinite ==
    ASSUME NEW T, NEW known \in Seq(T)
    PROVE  IsFiniteSet(HotIn(known)) /\ Cardinality(HotIn(known)) \in Nat
<1>1. IsFiniteSet(DOMAIN known)
  BY FS_Interval
<1>2. HotIn(known) \subseteq DOMAIN known
  BY DEF HotIn
<1> QED  BY <1>1, <1>2, FS_Subset, FS_CardinalityType

LEMMA NewFactHonest ==
    ASSUME NEW key \in Keys, NEW upTo
    PROVE  NewFact(key) \in Honest(upTo)
<1> DEFINE none == [t \in Times |-> 0]
<1>1. NewFact(key) \in Fact
  BY LimitsAssumption DEF NewFact, Fact, Times
<1>2. Mentions(none) = 0
  <2>1. Entries(none) = {}
    BY DEF Entries
  <2> QED  BY <2>1, FS_EmptySet DEF Mentions
<1>3. /\ NewFact(key).sources = {} /\ NewFact(key).recent = none
      /\ NewFact(key).cached = None
  BY DEF NewFact
<1>4. Cardinality({}) = 0
  BY FS_EmptySet
<1> HIDE DEF none
<1>5. Mentions(NewFact(key).recent) <= Cardinality(NewFact(key).sources)
  BY <1>2, <1>3, <1>4
<1> QED  BY <1>1, <1>3, <1>5 DEF Honest

\* One more extracted fact that mentions it.
LEMMA MentionedHonest ==
    ASSUME Clock, NEW upTo, NEW fact \in Honest(upTo),
           NEW evidence \in SUBSET Open(upTo)
    PROVE  Mentioned(fact, evidence) \in Honest(upTo) /\ Mentioned(fact, evidence).hot = fact.hot
<1> DEFINE fresh == NewOf(evidence, fact.sources)
           grown == Grown(fact.recent, fresh)
           recent == Retained(grown)
           sources == fact.sources \cup evidence
           seen == Max({fact.seen} \cup {createdAt[i] : i \in evidence})
           cached == IF fact.cached = None /\ Mentions(recent) >= Frequent THEN now ELSE fact.cached
<1>1. /\ fact \in Fact /\ fact.sources \subseteq Open(upTo)
      /\ Mentions(fact.recent) <= Cardinality(fact.sources)
      /\ fact.cached # None => Cardinality(fact.sources) >= Frequent
  BY DEF Honest
<1>2. /\ fact.sources \in SUBSET Messages /\ evidence \in SUBSET Messages
      /\ fact.sources \in SUBSET Users /\ evidence \in SUBSET Users
      /\ fact.recent \in [Times -> Nat] /\ fact.seen \in Times
      /\ fact.cached \in Times \cup {None}
  BY <1>1, MessagesAssumption DEF Fact, Open
<1>3. Mentioned(fact, evidence)
        = [fact EXCEPT !.sources = sources, !.seen = seen, !.recent = recent, !.cached = cached]
  BY DEF Mentioned, Grown
<1>4. fresh \in SUBSET Messages /\ fresh \cap fact.sources = {} /\ sources = fact.sources \cup fresh
  BY <1>2 DEF NewOf
<1>5. grown \in [Times -> Nat] /\ Mentions(grown) <= Mentions(fact.recent) + Cardinality(fresh)
  <2> HIDE DEF fresh
  <2> QED  BY <1>2, <1>4, GrownByFresh
<1>6. recent \in [Times -> Nat] /\ Mentions(recent) <= Mentions(grown)
  <2> HIDE DEF grown
  <2> QED  BY <1>5, RetainedFewer
<1>7. seen \in Times
  <2>1. {fact.seen} \cup {createdAt[i] : i \in evidence} \in SUBSET Times
    BY <1>2 DEF Clock
  <2> QED  BY <2>1, LargestTime
<1>8. /\ Cardinality(sources) = Cardinality(fact.sources) + Cardinality(fresh)
      /\ Cardinality(fact.sources) \in Nat /\ Cardinality(fresh) \in Nat
  <2>1. /\ IsFiniteSet(fact.sources) /\ IsFiniteSet(fresh)
        /\ Cardinality(fact.sources) \in Nat /\ Cardinality(fresh) \in Nat
    <3> HIDE DEF fresh
    <3> QED  BY <1>2, <1>4, FiniteIds
  <2>2. Cardinality(fact.sources \cap fresh) = 0
    BY <1>4, FS_EmptySet
  <2>3. Cardinality(fact.sources \cup fresh)
          = Cardinality(fact.sources) + Cardinality(fresh) - Cardinality(fact.sources \cap fresh)
    <3> HIDE DEF fresh
    <3> QED  BY <2>1, FS_Union
  <2>4. Cardinality(sources) = Cardinality(fact.sources \cup fresh)
    BY <1>4
  <2> HIDE DEF fresh, sources
  <2> QED  BY <2>1, <2>2, <2>3, <2>4
<1>9. Mentions(recent) <= Cardinality(sources)
  <2>1. Mentions(recent) \in Nat /\ Mentions(grown) \in Nat /\ Mentions(fact.recent) \in Nat
    <3> HIDE DEF grown, recent
    <3> QED  BY <1>2, <1>5, <1>6, MentionsFinite
  <2> HIDE DEF grown, recent, fresh, sources
  <2> QED  BY <1>1, <1>5, <1>6, <1>8, <2>1
<1>10. cached \in Times \cup {None} /\ (cached # None => Cardinality(sources) >= Frequent)
  <2>1. Mentions(recent) \in Nat
    <3> HIDE DEF recent
    <3> QED  BY <1>6, MentionsFinite
  <2> HIDE DEF recent, sources, fresh
  <2> QED  BY <1>1, <1>2, <1>8, <1>9, <2>1, LimitsAssumption DEF Clock
<1>11. sources \in SUBSET Users /\ sources \subseteq Open(upTo)
  BY <1>1, <1>2
<1> HIDE DEF fresh, grown, recent, sources, seen, cached
<1>12. PICK f : f = Mentioned(fact, evidence)
  OBVIOUS
<1>13. f \in Fact /\ f.hot = fact.hot
  BY <1>1, <1>3, <1>6, <1>7, <1>10, <1>11, <1>12 DEF Fact
<1>14. f.sources = sources /\ f.recent = recent /\ f.cached = cached
  BY <1>1, <1>3, <1>12 DEF Fact
<1>15. f \in Honest(upTo)
  BY <1>9, <1>10, <1>11, <1>13, <1>14 DEF Honest
<1> QED  BY <1>12, <1>13, <1>15


Mentioning(upTo) == [key : Keys, evidence : SUBSET Open(upTo)]

\* One extracted fact leaves what is known honest and makes nothing hot.
LEMMA LearnKeeps ==
    ASSUME Clock, NEW upTo, NEW known \in Known(upTo),
           NEW item \in Mentioning(upTo)
    PROVE  Learn(known, item) \in Known(upTo)
<1> DEFINE at == {j \in DOMAIN known : known[j].key = item.key}
<1>1. known \in Seq(Honest(upTo)) /\ Cardinality(HotIn(known)) <= HotCapacity
  BY DEF Known
<1>2. item.key \in Keys /\ item.evidence \in SUBSET Open(upTo)
  BY DEF Mentioning
<1>3. CASE item.evidence = {}
  BY <1>3 DEF Learn
<1>4. CASE item.evidence # {} /\ at = {}
  <2> DEFINE new == Mentioned(NewFact(item.key), item.evidence)
  <2>1. new \in Honest(upTo) /\ new.hot = NewFact(item.key).hot
    BY <1>2, NewFactHonest, MentionedHonest
  <2>2. new.hot = FALSE
    BY <2>1 DEF NewFact
  <2>3. Learn(known, item) = Append(known, new)
    BY <1>4 DEF Learn
  <2> HIDE DEF new
  <2>4. Append(known, new) \in Seq(Honest(upTo))
    BY <1>1, <2>1
  <2>5. HotIn(Append(known, new)) = HotIn(known)
    <3>1. DOMAIN known = 1..Len(known) /\ DOMAIN Append(known, new) = 1..(Len(known) + 1)
      BY <1>1, <2>1
    <3>2. \A j \in 1..Len(known) : Append(known, new)[j] = known[j]
      BY <1>1, <2>1
    <3>3. Append(known, new)[Len(known) + 1] = new
      BY <1>1, <2>1
    <3>4. \A j \in DOMAIN Append(known, new) :
            j \in DOMAIN known \/ (j = Len(known) + 1 /\ j \notin DOMAIN known)
      BY <1>1, <3>1
    <3> QED  BY <2>2, <3>1, <3>2, <3>3, <3>4 DEF HotIn
  <2> QED  BY <1>1, <2>3, <2>4, <2>5 DEF Known
<1>5. CASE item.evidence # {} /\ at # {}
  <2>1. Min(at) \in at
    <3>1. at \in SUBSET Nat
      BY <1>1
    <3> HIDE DEF at
    <3> QED  BY <1>5, <3>1, LeastExists DEF Min
  <2>2. PICK j \in DOMAIN known : j = Min(at)
    BY <2>1
  <2>3. known[j] \in Honest(upTo)
    BY <1>1
  <2> DEFINE new == Mentioned(known[j], item.evidence)
  <2>4. new \in Honest(upTo) /\ new.hot = known[j].hot
    BY <1>2, <2>3, MentionedHonest
  <2>5. Learn(known, item) = [known EXCEPT ![j] = new]
    BY <1>5, <2>2 DEF Learn
  <2> HIDE DEF new
  <2>6. [known EXCEPT ![j] = new] \in Seq(Honest(upTo))
    BY <1>1, <2>4
  <2>7. HotIn([known EXCEPT ![j] = new]) = HotIn(known)
    BY <1>1, <2>4 DEF HotIn
  <2> QED  BY <1>1, <2>5, <2>6, <2>7 DEF Known
<1> QED  BY <1>3, <1>4, <1>5

LEMMA LearnAllKeeps ==
    ASSUME Clock, NEW upTo, NEW known \in Known(upTo),
           NEW items \in Seq(Mentioning(upTo))
    PROVE  LearnAll(known, items) \in Known(upTo)
<1> DEFINE N == Len(items)
           S == Known(upTo)
           turn == [n \in 1..N |-> [s \in S |-> Learn(s, items[n])]]
<1>1. N \in Nat /\ \A n \in 1..N : items[n] \in Mentioning(upTo)
  OBVIOUS
<1>2. turn \in [1..N -> [S -> S]]
  <2>1. ASSUME NEW n \in 1..N, NEW s \in S PROVE Learn(s, items[n]) \in S
    <3>1. items[n] \in Mentioning(upTo)
      BY <1>1
    <3> QED  BY <3>1, LearnKeeps
  <2> HIDE DEF S
  <2> QED  BY <2>1
<1>3. PICK h : Run(h, S, known, N, turn)
  <2>1. known \in S
    OBVIOUS
  <2> HIDE DEF S, N, turn
  <2> QED  BY <1>1, <1>2, <2>1, Runs
<1>4. h \in [0..N -> S] /\ h[0] = known /\ \A n \in 1..N : h[n] = turn[n][h[n - 1]]
  <2> HIDE DEF S, N, turn
  <2> QED  BY <1>3 DEF Run
<1> DEFINE Loop(after) ==
             after = [n \in 0..N |-> IF n = 0 THEN known ELSE Learn(after[n - 1], items[n])]
<1>5. Loop(h)
  <2>1. ASSUME NEW n \in 1..N PROVE h[n] = Learn(h[n - 1], items[n])
    <3>1. n - 1 \in 0..N
      OBVIOUS
    <3>2. h[n - 1] \in S
      BY <1>4, <3>1
    <3>3. turn[n][h[n - 1]] = Learn(h[n - 1], items[n])
      <4> HIDE DEF S
      <4> QED  BY <3>2
    <3> QED  BY <1>4, <3>3
  <2>2. \A n \in 0..N : n = 0 \/ n \in 1..N
    OBVIOUS
  <2> HIDE DEF turn, S, N
  <2> QED  BY <1>4, <2>1, <2>2
<1>6. PICK g : g = CHOOSE after : Loop(after)
  OBVIOUS
<1>7. Loop(g) /\ LearnAll(known, items) = g[N]
  <2>1. Loop(g)
    <3> HIDE DEF Loop
    <3> QED  BY <1>5, <1>6
  <2> QED  BY <1>6, <2>1 DEF LearnAll
<1>8. ASSUME NEW n \in 0..N PROVE g[n] = IF n = 0 THEN known ELSE Learn(g[n - 1], items[n])
  BY <1>7
<1> DEFINE B == {n \in 0..N : g[n] \in S}
<1>9. 0 \in B
  BY <1>8
<1>10. ASSUME NEW n \in 1..N, n - 1 \in B PROVE n \in B
  <2>1. g[n] = Learn(g[n - 1], items[n]) /\ g[n - 1] \in S /\ n \in 0..N
    BY <1>8, <1>10
  <2> QED  BY <1>1, <2>1, LearnKeeps
<1>11. N \in B
  <2> HIDE DEF B
  <2>1. 0..N \subseteq B
    BY <1>1, <1>9, <1>10, StepByStep
  <2> QED  BY <1>1, <2>1
<1> QED  BY <1>7, <1>11

----------------------------------------------------------------------------
(* rebalance                                                                *)

LEMMA RecedeKeeps ==
    ASSUME Clock, NEW upTo, NEW fact \in Honest(upTo)
    PROVE  /\ Recede(fact) \in Honest(upTo)
           /\ Recede(fact).hot => fact.hot
<1> DEFINE recent == Retained(fact.recent)
<1>1. /\ fact \in Fact /\ fact.sources \subseteq Open(upTo)
      /\ Mentions(fact.recent) <= Cardinality(fact.sources)
      /\ fact.cached # None => Cardinality(fact.sources) >= Frequent
  BY DEF Honest
<1>2. fact.recent \in [Times -> Nat] /\ fact.sources \in SUBSET Messages
  BY <1>1, MessagesAssumption DEF Fact
<1>3. recent \in [Times -> Nat] /\ Mentions(recent) <= Mentions(fact.recent)
  BY <1>2, RetainedFewer
<1>4. Mentions(recent) <= Cardinality(fact.sources)
  <2> HIDE DEF recent
  <2>1. /\ Mentions(recent) \in Nat /\ Mentions(fact.recent) \in Nat
        /\ Cardinality(fact.sources) \in Nat
    BY <1>2, <1>3, MentionsFinite, FiniteIds
  <2> QED  BY <1>1, <1>3, <2>1
<1>5. PICK hot \in BOOLEAN : hot <=> fact.hot /\ ~IsIdle(fact)
  OBVIOUS
<1>6. PICK cached : cached = IF fact.hot /\ IsIdle(fact) THEN None ELSE fact.cached
  OBVIOUS
<1>7. cached \in {None, fact.cached}
  BY <1>6
<1>8. Recede(fact) = [fact EXCEPT !.recent = recent, !.hot = hot, !.cached = cached]
  <2>1. hot = (fact.hot /\ ~IsIdle(fact))
    BY <1>5
  <2> QED  BY <1>6, <2>1 DEF Recede
<1> HIDE DEF recent
<1>9. PICK f : f = [fact EXCEPT !.recent = recent, !.hot = hot, !.cached = cached]
  OBVIOUS
<1>10. f \in Fact
  BY <1>1, <1>3, <1>7, <1>9 DEF Fact
<1>11. /\ f.sources = fact.sources /\ f.recent = recent /\ f.cached = cached
       /\ f.hot => fact.hot
  BY <1>1, <1>5, <1>9 DEF Fact
<1>12. f \in Honest(upTo)
  BY <1>1, <1>4, <1>7, <1>10, <1>11 DEF Honest
<1> QED  BY <1>8, <1>9, <1>11, <1>12

LEMMA RecededKeeps ==
    ASSUME Clock, NEW upTo, NEW known \in Known(upTo)
    PROVE  Receded(known) \in Known(upTo) /\ Len(Receded(known)) = Len(known)
<1>1. known \in Seq(Honest(upTo)) /\ Cardinality(HotIn(known)) <= HotCapacity
  BY DEF Known
<1>2. PICK r : r = Receded(known)
  OBVIOUS
<1>3. r = [j \in 1..Len(known) |-> Recede(known[j])]
  BY <1>1, <1>2 DEF Receded
<1>4. \A j \in 1..Len(known) :
        known[j] \in Honest(upTo) /\ r[j] \in Honest(upTo) /\ (r[j].hot => known[j].hot)
  BY <1>1, <1>3, RecedeKeeps
<1>5. r \in Seq(Honest(upTo)) /\ Len(r) = Len(known)
  BY <1>1, <1>3, <1>4
<1>6. HotIn(r) \subseteq HotIn(known)
  BY <1>1, <1>3, <1>4 DEF HotIn
<1>7. Cardinality(HotIn(r)) <= Cardinality(HotIn(known))
  BY <1>1, <1>6, HotFinite, FS_Subset
<1>8. Cardinality(HotIn(r)) \in Nat /\ Cardinality(HotIn(known)) \in Nat
  BY <1>1, <1>5, HotFinite
<1> QED  BY <1>1, <1>2, <1>5, <1>7, <1>8, LimitsAssumption DEF Known

\* The worst of the hot facts is one of them, and the longest unmentioned.
LEMMA WorstExists ==
    ASSUME NEW upTo, NEW known \in Seq(Honest(upTo)), HotIn(known) # {}
    PROVE  /\ Worst(known) \in HotIn(known)
           /\ \A k \in HotIn(known) : known[k].seen >= known[Worst(known)].seen
<1> DEFINE hot == HotIn(known)
           size(k) == Cardinality(known[k].sources)
           worst == {j \in hot : \A k \in hot : ~Worse(known[k], known[j])}
<1>1. \A k \in hot : k \in Nat /\ known[k].seen \in Nat /\ size(k) \in Nat
  <2> SUFFICES ASSUME NEW k \in hot
               PROVE  k \in Nat /\ known[k].seen \in Nat /\ size(k) \in Nat
    OBVIOUS
  <2>1. k \in DOMAIN known /\ k \in Nat
    BY DEF HotIn
  <2>2. known[k] \in Honest(upTo)
    BY <2>1
  <2>3. known[k] \in Fact
    BY <2>2 DEF Honest
  <2>4. known[k].seen \in Nat /\ known[k].sources \in SUBSET Messages
    BY <2>3, MessagesAssumption, LimitsAssumption DEF Fact, Times
  <2> QED  BY <2>1, <2>4, FiniteIds
<1> HIDE DEF hot, size
<1>2. hot # {}
  BY DEF hot
<1>3. PICK i \in hot : \A k \in hot : known[i].seen <= known[k].seen
  <2> DEFINE T == {known[k].seen : k \in hot}
  <2>1. T \in SUBSET Nat /\ T # {}
    BY <1>1, <1>2
  <2>2. \E s \in T : \A u \in T : s <= u
    <3> HIDE DEF T
    <3> QED  BY <2>1, LeastExists
  <2> QED  BY <2>2
<1> DEFINE oldest == {k \in hot : known[k].seen = known[i].seen}
<1>4. PICK j \in oldest : \A k \in oldest : size(j) <= size(k)
  <2> DEFINE T == {size(k) : k \in oldest}
  <2>1. T \in SUBSET Nat /\ T # {}
    BY <1>1
  <2>2. \E s \in T : \A u \in T : s <= u
    <3> HIDE DEF T
    <3> QED  BY <2>1, LeastExists
  <2> QED  BY <2>2
<1>5. j \in worst
  <2> SUFFICES ASSUME NEW k \in hot PROVE ~Worse(known[k], known[j])
    OBVIOUS
  <2>1. known[j].seen = known[i].seen /\ known[j].seen <= known[k].seen
    BY <1>3
  <2>2. known[k].seen = known[j].seen => size(j) <= size(k)
    BY <1>4, <2>1
  <2>3. /\ known[k].seen \in Nat /\ known[j].seen \in Nat
        /\ size(j) \in Nat /\ size(k) \in Nat
    BY <1>1
  <2>4. ~(known[k].seen < known[j].seen)
    BY <2>1, <2>3
  <2>5. known[k].seen = known[j].seen => ~(size(k) < size(j))
    BY <2>2, <2>3
  <2> QED  BY <2>4, <2>5 DEF Worse, size
<1>6. Min(worst) \in worst
  <2>1. worst \in SUBSET Nat /\ worst # {}
    BY <1>1, <1>5
  <2> HIDE DEF worst
  <2> QED  BY <2>1, LeastExists DEF Min
<1>7. Worst(known) = Min(worst)
  BY DEF Worst, hot
<1>8. PICK w : w = Worst(known)
  OBVIOUS
<1>9. w \in hot /\ \A k \in hot : ~Worse(known[k], known[w])
  BY <1>6, <1>7, <1>8
<1>10. \A k \in hot : known[k].seen >= known[w].seen
  BY <1>1, <1>9 DEF Worse
<1> QED  BY <1>8, <1>9, <1>10 DEF hot


\* What promoting leaves alone.
SameFact(f, g) == f.seen = g.seen /\ f.sources = g.sources /\ f.cached = g.cached

Derived(r, upTo) ==
    {s \in Known(upTo) : Len(s) = Len(r) /\ \A j \in 1..Len(r) : SameFact(s[j], r[j])}

Changed(s, j, hot) == [s EXCEPT ![j].hot = hot]

LEMMA ChangedOne ==
    ASSUME NEW upTo, NEW s \in Seq(Honest(upTo)), NEW j \in 1..Len(s),
           NEW f \in Fact, SameFact(f, s[j]), f.recent = s[j].recent,
           NEW t, t = [s EXCEPT ![j] = f]
    PROVE  /\ t \in Seq(Honest(upTo)) /\ Len(t) = Len(s) /\ t[j] = f
           /\ \A k \in 1..Len(s) : SameFact(t[k], s[k]) /\ (k # j => t[k] = s[k])
<1>1. s[j] \in Honest(upTo)
  OBVIOUS
<1>2. f \in Honest(upTo)
  BY <1>1 DEF SameFact, Honest
<1>3. t \in Seq(Honest(upTo)) /\ Len(t) = Len(s)
  BY <1>2
<1>4. \A k \in 1..Len(s) : t[k] = IF k = j THEN f ELSE s[k]
  OBVIOUS
<1> QED  BY <1>3, <1>4 DEF SameFact

LEMMA MadeHot ==
    ASSUME NEW upTo, NEW s \in Seq(Honest(upTo)), NEW j \in 1..Len(s)
    PROVE  /\ Changed(s, j, TRUE) \in Seq(Honest(upTo)) /\ Len(Changed(s, j, TRUE)) = Len(s)
           /\ \A k \in 1..Len(s) : SameFact(Changed(s, j, TRUE)[k], s[k])
           /\ HotIn(Changed(s, j, TRUE)) = HotIn(s) \cup {j}
<1>1. PICK f : f = [s[j] EXCEPT !.hot = TRUE]
  OBVIOUS
<1>2. s[j] \in Fact
  BY DEF Honest
<1>3. f \in Fact /\ SameFact(f, s[j]) /\ f.recent = s[j].recent /\ f.hot = TRUE
  BY <1>1, <1>2 DEF SameFact, Fact
<1>4. PICK t : t = [s EXCEPT ![j] = f]
  OBVIOUS
<1>5. t = Changed(s, j, TRUE)
  BY <1>1, <1>4 DEF Changed
<1>6. /\ t \in Seq(Honest(upTo)) /\ Len(t) = Len(s) /\ t[j] = f
      /\ \A k \in 1..Len(s) : SameFact(t[k], s[k]) /\ (k # j => t[k] = s[k])
  BY <1>3, <1>4, ChangedOne
<1>7. HotIn(t) = HotIn(s) \cup {j}
  <2>1. DOMAIN t = 1..Len(s) /\ DOMAIN s = 1..Len(s)
    BY <1>6
  <2> QED  BY <1>3, <1>6, <2>1 DEF HotIn
<1> QED  BY <1>5, <1>6, <1>7

LEMMA MadeCold ==
    ASSUME NEW upTo, NEW s \in Seq(Honest(upTo)), NEW j \in 1..Len(s)
    PROVE  /\ Changed(s, j, FALSE) \in Seq(Honest(upTo)) /\ Len(Changed(s, j, FALSE)) = Len(s)
           /\ \A k \in 1..Len(s) : SameFact(Changed(s, j, FALSE)[k], s[k])
           /\ HotIn(Changed(s, j, FALSE)) = HotIn(s) \ {j}
<1>1. PICK f : f = [s[j] EXCEPT !.hot = FALSE]
  OBVIOUS
<1>2. s[j] \in Fact
  BY DEF Honest
<1>3. f \in Fact /\ SameFact(f, s[j]) /\ f.recent = s[j].recent /\ f.hot = FALSE
  BY <1>1, <1>2 DEF SameFact, Fact
<1>4. PICK t : t = [s EXCEPT ![j] = f]
  OBVIOUS
<1>5. t = Changed(s, j, FALSE)
  BY <1>1, <1>4 DEF Changed
<1>6. /\ t \in Seq(Honest(upTo)) /\ Len(t) = Len(s) /\ t[j] = f
      /\ \A k \in 1..Len(s) : SameFact(t[k], s[k]) /\ (k # j => t[k] = s[k])
  BY <1>3, <1>4, ChangedOne
<1>7. HotIn(t) = HotIn(s) \ {j}
  <2>1. DOMAIN t = 1..Len(s) /\ DOMAIN s = 1..Len(s)
    BY <1>6
  <2> QED  BY <1>3, <1>6, <2>1 DEF HotIn
<1> QED  BY <1>5, <1>6, <1>7

LEMMA OneMore ==
    ASSUME NEW S, IsFiniteSet(S), NEW x
    PROVE  /\ Cardinality(S \cup {x}) \in Nat
           /\ Cardinality(S \cup {x}) <= Cardinality(S) + 1
<1>1. Cardinality(S) \in Nat
  BY FS_CardinalityType
<1>2. Cardinality(S \cup {x}) = IF x \in S THEN Cardinality(S) ELSE Cardinality(S) + 1
  BY FS_AddElement
<1> QED  BY <1>1, <1>2

\* There is room, or the fact is no more recent than any that is hot, or it takes
\* the place of one that no hot fact is older than.
Added(s, p, j) ==
    Cardinality(HotIn(s)) < HotCapacity /\ HotIn(p) = HotIn(s) \cup {j}
Refused(s, p, j) ==
    /\ Cardinality(HotIn(s)) = HotCapacity /\ HotIn(p) = HotIn(s)
    /\ \A k \in HotIn(s) : s[k].seen >= s[j].seen
Replaced(s, p, j) ==
    /\ Cardinality(HotIn(s)) = HotCapacity
    /\ \E w \in HotIn(s) :
         /\ HotIn(p) = (HotIn(s) \ {w}) \cup {j}
         /\ s[w].seen < s[j].seen
         /\ \A k \in HotIn(s) : s[k].seen >= s[w].seen

LEMMA PromoteStep ==
    ASSUME NEW upTo, NEW r \in Known(upTo), NEW s \in Derived(r, upTo), NEW j \in 1..Len(r)
    PROVE  /\ Promote(s, j) \in Derived(r, upTo)
           /\ \/ Added(s, Promote(s, j), j)
              \/ Refused(s, Promote(s, j), j)
              \/ Replaced(s, Promote(s, j), j)
<1>1. /\ s \in Seq(Honest(upTo)) /\ Len(s) = Len(r) /\ j \in 1..Len(s)
      /\ Cardinality(HotIn(s)) <= HotCapacity
      /\ \A k \in 1..Len(r) : SameFact(s[k], r[k])
  BY DEF Derived, Known
<1>2. IsFiniteSet(HotIn(s)) /\ Cardinality(HotIn(s)) \in Nat
  BY <1>1, HotFinite
<1>3. ASSUME NEW p \in Seq(Honest(upTo)), Len(p) = Len(s),
             \A k \in 1..Len(s) : SameFact(p[k], s[k]),
             Cardinality(HotIn(p)) <= HotCapacity
      PROVE  p \in Derived(r, upTo)
  BY <1>1, <1>3 DEF Derived, Known, SameFact
<1>4. CASE Cardinality(HotIn(s)) < HotCapacity
  <2>1. PICK p : p = Changed(s, j, TRUE)
    OBVIOUS
  <2>2. Promote(s, j) = p
    BY <1>4, <2>1 DEF Promote, Changed
  <2>3. /\ p \in Seq(Honest(upTo)) /\ Len(p) = Len(s)
        /\ \A k \in 1..Len(s) : SameFact(p[k], s[k])
        /\ HotIn(p) = HotIn(s) \cup {j}
    BY <1>1, <2>1, MadeHot
  <2>4. Cardinality(HotIn(p)) <= HotCapacity
    <3>1. /\ Cardinality(HotIn(p)) \in Nat
          /\ Cardinality(HotIn(p)) <= Cardinality(HotIn(s)) + 1
      BY <1>2, <2>3, OneMore
    <3> QED  BY <1>2, <1>4, <3>1, LimitsAssumption
  <2> QED  BY <1>3, <1>4, <2>2, <2>3, <2>4 DEF Added
<1>5. CASE Cardinality(HotIn(s)) = HotCapacity
  <2>1. HotIn(s) # {}
    BY <1>5, FS_EmptySet, LimitsAssumption
  <2>2. PICK w : w = Worst(s)
    OBVIOUS
  <2>3. w \in HotIn(s) /\ \A k \in HotIn(s) : s[k].seen >= s[w].seen
    BY <1>1, <2>1, <2>2, WorstExists
  <2>4. \A k \in 1..Len(s) : s[k].seen \in Nat
    <3> SUFFICES ASSUME NEW k \in 1..Len(s) PROVE s[k].seen \in Nat
      OBVIOUS
    <3>1. s[k] \in Honest(upTo)
      BY <1>1
    <3> QED  BY <3>1, LimitsAssumption DEF Honest, Fact, Times
  <2>5. w \in 1..Len(s)
    BY <1>1, <2>3 DEF HotIn
  <2>6. HotIn(s) \subseteq 1..Len(s)
    BY <1>1 DEF HotIn
  <2>7. ~(Cardinality(HotIn(s)) < HotCapacity)
    BY <1>2, <1>5, LimitsAssumption
  <2>8. CASE s[w].seen >= s[j].seen
    <3>1. Promote(s, j) = s
      BY <2>2, <2>7, <2>8 DEF Promote
    <3>2. \A k \in HotIn(s) : s[k].seen >= s[j].seen
      BY <1>1, <2>3, <2>4, <2>5, <2>6, <2>8
    <3> QED  BY <1>5, <3>1, <3>2 DEF Refused
  <2>9. CASE s[w].seen < s[j].seen
    <3>1. PICK q : q = Changed(s, w, FALSE)
      OBVIOUS
    <3>2. /\ q \in Seq(Honest(upTo)) /\ Len(q) = Len(s)
          /\ \A k \in 1..Len(s) : SameFact(q[k], s[k])
          /\ HotIn(q) = HotIn(s) \ {w}
      BY <1>1, <2>5, <3>1, MadeCold
    <3>3. PICK p : p = Changed(q, j, TRUE)
      OBVIOUS
    <3>4. /\ p \in Seq(Honest(upTo)) /\ Len(p) = Len(q)
          /\ \A k \in 1..Len(q) : SameFact(p[k], q[k])
          /\ HotIn(p) = HotIn(q) \cup {j}
      BY <1>1, <3>2, <3>3, MadeHot
    <3>5. Promote(s, j) = p
      <4>1. ~(s[w].seen >= s[j].seen)
        BY <1>1, <2>4, <2>5, <2>9
      <4> QED  BY <2>2, <2>7, <3>1, <3>3, <4>1 DEF Promote, Changed
    <3>6. Cardinality(HotIn(p)) <= HotCapacity
      <4>1. IsFiniteSet(HotIn(q)) /\ Cardinality(HotIn(q)) = Cardinality(HotIn(s)) - 1
        BY <1>2, <2>3, <3>2, FS_RemoveElement
      <4>2. Cardinality(HotIn(p)) <= Cardinality(HotIn(q)) + 1
        BY <3>4, <4>1, OneMore
      <4>3. Cardinality(HotIn(p)) \in Nat
        BY <3>4, HotFinite
      <4> QED  BY <1>2, <1>5, <4>1, <4>2, <4>3
    <3>7. \A k \in 1..Len(s) : SameFact(p[k], s[k])
      BY <3>2, <3>4 DEF SameFact
    <3>8. p \in Derived(r, upTo)
      BY <1>3, <3>2, <3>4, <3>6, <3>7
    <3>9. Replaced(s, p, j)
      BY <1>5, <2>3, <2>9, <3>2, <3>4 DEF Replaced
    <3> QED  BY <3>5, <3>8, <3>9
  <2> QED  BY <1>1, <2>4, <2>5, <2>8, <2>9
<1> QED  BY <1>1, <1>2, <1>4, <1>5, LimitsAssumption


\* After n candidates, no fact that was hot or among those candidates is left out
\* while there is room or a hot fact is older than it.
Settled(r, s, n) ==
    /\ HotIn(s) \subseteq HotIn(r) \cup 1..n
    /\ \A j \in 1..Len(r) :
         (j \notin HotIn(s) /\ (j \in HotIn(r) \/ (j <= n /\ Ripe(r[j]))))
           => /\ Cardinality(HotIn(s)) = HotCapacity
              /\ \A k \in HotIn(s) : r[k].seen >= r[j].seen

LEMMA Settles ==
    ASSUME NEW upTo, NEW r \in Known(upTo), NEW s \in Derived(r, upTo), NEW n \in 1..Len(r),
           Settled(r, s, n - 1)
    PROVE  Settled(r, IF Ripe(r[n]) THEN Promote(s, n) ELSE s, n)
<1>1. /\ r \in Seq(Honest(upTo)) /\ s \in Seq(Honest(upTo)) /\ Len(s) = Len(r)
      /\ \A k \in 1..Len(r) : SameFact(s[k], r[k])
      /\ Len(r) \in Nat /\ n \in Nat /\ n - 1 \in Nat
      /\ DOMAIN r = 1..Len(r) /\ DOMAIN s = 1..Len(r)
  BY DEF Derived, Known
<1>2. /\ HotIn(s) \subseteq 1..Len(r) /\ HotIn(r) \subseteq 1..Len(r)
      /\ \A k \in HotIn(s) : s[k].seen = r[k].seen
      /\ s[n].seen = r[n].seen
  BY <1>1 DEF HotIn, SameFact
<1>3. \A k \in 1..Len(r) : r[k].seen \in Nat
  <2> SUFFICES ASSUME NEW k \in 1..Len(r) PROVE r[k].seen \in Nat
    OBVIOUS
  <2>1. r[k] \in Honest(upTo)
    BY <1>1
  <2> QED  BY <2>1, LimitsAssumption DEF Honest, Fact, Times
<1>4. IsFiniteSet(HotIn(s)) /\ Cardinality(HotIn(s)) \in Nat
  BY <1>1, HotFinite
<1>5. /\ HotIn(s) \subseteq HotIn(r) \cup 1..(n - 1)
      /\ \A j \in 1..Len(r) :
           (j \notin HotIn(s) /\ (j \in HotIn(r) \/ (j <= n - 1 /\ Ripe(r[j]))))
             => /\ Cardinality(HotIn(s)) = HotCapacity
                /\ \A k \in HotIn(s) : r[k].seen >= r[j].seen
  BY DEF Settled
<1>6. \A j \in 1..Len(r) : j <= n => j = n \/ j <= n - 1
  BY <1>1
<1>7. 1..(n - 1) \subseteq 1..n /\ n \in 1..n /\ n \notin 1..(n - 1)
  BY <1>1
<1>8. CASE ~Ripe(r[n])
  <2>1. HotIn(s) \subseteq HotIn(r) \cup 1..n
    BY <1>5, <1>7
  <2>2. Settled(r, s, n)
    BY <1>5, <1>6, <1>8, <2>1 DEF Settled
  <2> QED  BY <1>8, <2>2
<1>9. CASE Ripe(r[n])
  <2>1. PICK p : p = Promote(s, n)
    OBVIOUS
  <2>2. n \notin HotIn(r)
    BY <1>9 DEF Ripe, HotIn
  <2>3. n \notin HotIn(s)
    BY <1>5, <1>7, <2>2
  <2>4. Added(s, p, n) \/ Refused(s, p, n) \/ Replaced(s, p, n)
    BY <2>1, PromoteStep
  <2>5. CASE Added(s, p, n)
    <3>1. Cardinality(HotIn(s)) < HotCapacity /\ HotIn(p) = HotIn(s) \cup {n}
      BY <2>5 DEF Added
    <3>2. HotIn(p) \subseteq HotIn(r) \cup 1..n
      BY <1>5, <1>7, <3>1
    <3>3. Cardinality(HotIn(s)) # HotCapacity
      BY <1>4, <3>1, LimitsAssumption
    <3>4. Settled(r, p, n)
      BY <1>5, <1>6, <3>1, <3>2, <3>3 DEF Settled
    <3> QED  BY <1>9, <2>1, <3>4
  <2>6. CASE Refused(s, p, n)
    <3>1. /\ Cardinality(HotIn(s)) = HotCapacity /\ HotIn(p) = HotIn(s)
          /\ \A k \in HotIn(s) : r[k].seen >= r[n].seen
      BY <1>2, <2>6 DEF Refused
    <3>2. HotIn(p) \subseteq HotIn(r) \cup 1..n
      BY <1>5, <1>7, <3>1
    <3>3. Settled(r, p, n)
      BY <1>5, <1>6, <3>1, <3>2 DEF Settled
    <3> QED  BY <1>9, <2>1, <3>3
  <2>7. CASE Replaced(s, p, n)
    <3>1. PICK w \in HotIn(s) :
            /\ HotIn(p) = (HotIn(s) \ {w}) \cup {n}
            /\ r[w].seen < r[n].seen
            /\ \A k \in HotIn(s) : r[k].seen >= r[w].seen
      BY <1>2, <2>7 DEF Replaced
    <3>2. Cardinality(HotIn(s)) = HotCapacity
      BY <2>7 DEF Replaced
    <3>3. HotIn(p) \subseteq HotIn(r) \cup 1..n
      BY <1>5, <1>7, <3>1
    <3>4. Cardinality(HotIn(p)) = HotCapacity
      <4>1. /\ IsFiniteSet(HotIn(s) \ {w})
            /\ Cardinality(HotIn(s) \ {w}) = HotCapacity - 1
        BY <1>4, <3>2, FS_RemoveElement
      <4>2. n \notin HotIn(s) \ {w}
        BY <2>3
      <4>3. Cardinality((HotIn(s) \ {w}) \cup {n}) = Cardinality(HotIn(s) \ {w}) + 1
        BY <4>1, <4>2, FS_AddElement
      <4> QED  BY <3>1, <4>1, <4>3, LimitsAssumption
    <3>5. ASSUME NEW j \in 1..Len(r), j \notin HotIn(p),
                 j \in HotIn(r) \/ (j <= n /\ Ripe(r[j])),
                 NEW k \in HotIn(p)
          PROVE  r[k].seen >= r[j].seen
      <4>1. w \in 1..Len(r) /\ k \in 1..Len(r)
        BY <1>2, <3>1
      <4>2. r[k].seen >= r[w].seen
        BY <1>3, <3>1, <4>1
      <4>3. r[w].seen >= r[j].seen
        <5>1. CASE j = w
          BY <1>3, <5>1
        <5>2. CASE j # w
          <6>1. j \notin HotIn(s) /\ j # n
            BY <3>1, <3>5, <5>2
          <6> QED  BY <1>5, <1>6, <3>1, <3>5, <6>1
        <5> QED  BY <5>1, <5>2
      <4> QED  BY <1>3, <4>1, <4>2, <4>3
    <3>6. Settled(r, p, n)
      BY <3>3, <3>4, <3>5 DEF Settled
    <3> QED  BY <1>9, <2>1, <3>6
  <2> QED  BY <2>4, <2>5, <2>6, <2>7
<1> QED  BY <1>8, <1>9

LEMMA PromoteAllSettles ==
    ASSUME NEW upTo, NEW r \in Known(upTo)
    PROVE  PromoteAll(r) \in Derived(r, upTo) /\ Settled(r, PromoteAll(r), Len(r))
<1> DEFINE N == Len(r)
           S == Derived(r, upTo)
           Turn(s, n) == IF Ripe(r[n]) THEN Promote(s, n) ELSE s
           turn == [n \in 1..N |-> [s \in S |-> Turn(s, n)]]
           Loop(after) ==
             after = [n \in 0..N |->
                        IF n = 0 THEN r
                        ELSE IF Ripe(r[n]) THEN Promote(after[n - 1], n) ELSE after[n - 1]]
<1>1. N \in Nat /\ r \in Seq(Honest(upTo))
  BY DEF Known
<1>2. r \in S
  BY <1>1 DEF Derived, SameFact
<1>3. ASSUME NEW n \in 1..N, NEW s \in S PROVE Turn(s, n) \in S
  BY PromoteStep
<1>4. turn \in [1..N -> [S -> S]]
  <2> HIDE DEF S, Turn
  <2> QED  BY <1>3
<1>5. PICK h : Run(h, S, r, N, turn)
  <2> HIDE DEF S, N, turn
  <2> QED  BY <1>1, <1>2, <1>4, Runs
<1>6. h \in [0..N -> S] /\ h[0] = r /\ \A n \in 1..N : h[n] = turn[n][h[n - 1]]
  <2> HIDE DEF S, N, turn
  <2> QED  BY <1>5 DEF Run
<1>7. Loop(h)
  <2>1. ASSUME NEW n \in 1..N PROVE h[n] = Turn(h[n - 1], n)
    <3>1. n - 1 \in 0..N
      OBVIOUS
    <3>2. h[n - 1] \in S
      BY <1>6, <3>1
    <3>3. turn[n][h[n - 1]] = Turn(h[n - 1], n)
      <4> HIDE DEF S, Turn
      <4> QED  BY <3>2
    <3> QED  BY <1>6, <3>3
  <2>2. \A n \in 0..N : n = 0 \/ n \in 1..N
    OBVIOUS
  <2> HIDE DEF turn, S, N
  <2> QED  BY <1>6, <2>1, <2>2
<1>8. PICK g : g = CHOOSE after : Loop(after)
  OBVIOUS
<1>9. Loop(g) /\ PromoteAll(r) = g[N]
  <2>1. Loop(g)
    <3> HIDE DEF Loop
    <3> QED  BY <1>7, <1>8
  <2> QED  BY <1>8, <2>1 DEF PromoteAll
<1>10. ASSUME NEW n \in 0..N PROVE g[n] = IF n = 0 THEN r ELSE Turn(g[n - 1], n)
  BY <1>9
<1> DEFINE B == {n \in 0..N : g[n] \in S /\ Settled(r, g[n], n)}
<1>11. 0 \in B
  <2>1. g[0] = r /\ 0 \in 0..N
    BY <1>10
  <2>2. Settled(r, r, 0)
    BY <1>1 DEF Settled, HotIn
  <2> QED  BY <1>2, <2>1, <2>2
<1>12. ASSUME NEW n \in 1..N, n - 1 \in B PROVE n \in B
  <2>1. g[n] = Turn(g[n - 1], n) /\ g[n - 1] \in S /\ Settled(r, g[n - 1], n - 1) /\ n \in 0..N
    BY <1>10, <1>12
  <2>2. Turn(g[n - 1], n) \in S
    <3> HIDE DEF S, Turn
    <3> QED  BY <1>3, <2>1
  <2>3. Settled(r, Turn(g[n - 1], n), n)
    BY <2>1, Settles
  <2> HIDE DEF S, Turn
  <2> QED  BY <2>1, <2>2, <2>3
<1>13. N \in B
  <2> HIDE DEF B
  <2>1. 0..N \subseteq B
    BY <1>1, <1>11, <1>12, StepByStep
  <2> QED  BY <1>1, <2>1
<1> QED  BY <1>9, <1>13


\* What rebalance makes of the facts of the manager.
LEMMA RebalanceKeeps ==
    ASSUME Clock, NEW upTo, NEW known \in Known(upTo)
    PROVE  Rebalance(known) \in Known(upTo)
<1>1. PICK r : r = Receded(known)
  OBVIOUS
<1>2. r \in Known(upTo)
  BY <1>1, RecededKeeps
<1>3. PromoteAll(r) \in Derived(r, upTo)
  BY <1>2, PromoteAllSettles
<1> QED  BY <1>1, <1>3 DEF Rebalance, Derived

LEMMA RebalanceBest ==
    ASSUME Clock, NEW upTo, facts \in Known(upTo)
    PROVE  HotIsTheMostRecent
<1>1. PICK r : r = Receded(facts)
  OBVIOUS
<1>2. r \in Known(upTo)
  BY <1>1, RecededKeeps
<1>3. PICK s : s = PromoteAll(r)
  OBVIOUS
<1>4. s \in Derived(r, upTo) /\ Settled(r, s, Len(r))
  BY <1>2, <1>3, PromoteAllSettles
<1>5. /\ r \in Seq(Honest(upTo)) /\ s \in Seq(Honest(upTo)) /\ Len(s) = Len(r)
      /\ \A k \in 1..Len(r) : SameFact(s[k], r[k])
      /\ DOMAIN r = 1..Len(r) /\ DOMAIN s = 1..Len(r)
      /\ Cardinality(HotIn(s)) <= HotCapacity
  BY <1>2, <1>4 DEF Derived, Known
<1>6. ASSUME NEW j \in DOMAIN s, Ripe(s[j])
      PROVE  /\ Cardinality(HotIn(s)) = HotCapacity
             /\ \A k \in HotIn(s) : s[k].seen >= s[j].seen
  <2>1. j \in 1..Len(r) /\ j <= Len(r)
    BY <1>5
  <2>2. j \notin HotIn(s)
    BY <1>6 DEF Ripe, HotIn
  <2>3. SameFact(s[j], r[j])
    BY <1>5, <2>1
  <2>4. j \in HotIn(r) \/ Ripe(r[j])
    BY <1>5, <1>6, <2>1, <2>3 DEF Ripe, HotIn, SameFact
  <2>5. /\ Cardinality(HotIn(s)) = HotCapacity
        /\ \A k \in HotIn(s) : r[k].seen >= r[j].seen
    BY <1>4, <2>1, <2>2, <2>4 DEF Settled
  <2>6. \A k \in HotIn(s) : s[k].seen = r[k].seen
    BY <1>5 DEF HotIn, SameFact
  <2> QED  BY <2>3, <2>5, <2>6 DEF SameFact
<1>7. s = Rebalance(facts)
  BY <1>1, <1>3 DEF Rebalance
<1> QED  BY <1>5, <1>6, <1>7 DEF HotIsTheMostRecent

----------------------------------------------------------------------------
(* The inductive invariant of the facts                                     *)

\* What is on its way to the memory is of ordinary rooms, and posted.
Ordinary ==
    /\ \A t \in triggers : t.room \notin Incognito /\ t.upTo <= posted
    /\ \A w \in Residents : work[w] # None =>
         /\ work[w].room \notin Incognito
         /\ work[w].events \subseteq PostedIn(work[w].room)

FactsInv == TypeOK /\ Ordinary /\ facts \in Known(posted)

LEMMA KnownGrows ==
    ASSUME NEW m \in Nat, NEW n \in Nat, m <= n
    PROVE  Known(m) \subseteq Known(n)
<1>1. Open(m) \subseteq Open(n)
  <2> SUFFICES ASSUME NEW i \in Open(m) PROVE i \in Open(n)
    OBVIOUS
  <2>1. i \in Nat /\ i <= m
    BY MessagesAssumption DEF Open, Messages
  <2>2. i <= n
    BY <2>1
  <2> QED  BY <2>2 DEF Open
<1>2. \A fact \in Honest(m) : fact \in Honest(n)
  <2> SUFFICES ASSUME NEW fact \in Honest(m) PROVE fact \in Honest(n)
    OBVIOUS
  <2> HIDE DEF Open
  <2> QED  BY <1>1 DEF Honest
<1>3. Seq(Honest(m)) \subseteq Seq(Honest(n))
  <2> SUFFICES ASSUME NEW s \in Seq(Honest(m)) PROVE s \in Seq(Honest(n))
    OBVIOUS
  <2>1. \A k \in 1..Len(s) : s[k] \in Honest(n)
    BY <1>2
  <2> QED  BY <2>1
<1> QED  BY <1>3 DEF Known

LEMMA KnownTyped ==
    ASSUME NEW upTo, NEW known \in Known(upTo)
    PROVE  known \in Seq(Fact)
<1>1. Honest(upTo) \subseteq Fact
  BY DEF Honest
<1> QED  BY <1>1 DEF Known

LEMMA NothingKnown == \A upTo : <<>> \in Known(upTo)
<1> SUFFICES ASSUME NEW upTo PROVE <<>> \in Known(upTo)
  OBVIOUS
<1>1. HotIn(<<>>) = {}
  BY DEF HotIn
<1>2. Cardinality(HotIn(<<>>)) = 0
  BY <1>1, FS_EmptySet
<1>3. Cardinality(HotIn(<<>>)) <= HotCapacity
  BY <1>2, LimitsAssumption
<1> QED  BY <1>3 DEF Known

\* What chat sends.
LEMMA EmittedOrdinary ==
    ASSUME posted \in 0..MaxMessages, NEW r \in Rooms, NEW members \in SUBSET Residents
    PROVE  Emitted(r, members) \subseteq
             {t \in Trigger : t.room \notin Incognito /\ t.upTo <= posted}
<1>1. Latest(PostedIn(r)) \subseteq {i \in Messages : i <= posted}
  BY MessagesAssumption DEF Latest, PostedIn, Messages
<1>2. CASE r \in Incognito
  BY <1>2 DEF Emitted
<1>3. CASE r \notin Incognito
  <2>1. Emitted(r, members) = [to : members, room : {r}, upTo : Latest(PostedIn(r))]
    BY <1>3 DEF Emitted
  <2> SUFFICES ASSUME NEW t \in Emitted(r, members)
               PROVE  t \in Trigger /\ t.room \notin Incognito /\ t.upTo <= posted
    OBVIOUS
  <2>2. /\ t \in [to : members, room : {r}, upTo : Latest(PostedIn(r))]
        /\ t.room = r /\ t.upTo \in Latest(PostedIn(r))
    BY <2>1
  <2> QED  BY <1>1, <1>3, <2>2 DEF Trigger
<1> QED  BY <1>2, <1>3

\* The memory as an earlier process left it.
LEMMA EarlierFacts ==
    ASSUME Clock, NEW key \in Keys, NEW evidence \in SUBSET Open(Earlier), NEW since \in {0, None},
           since # None => Cardinality(evidence) >= Frequent
    PROVE  [Learn(<<>>, [key |-> key, evidence |-> evidence]) EXCEPT ![1].cached = since]
             \in Known(Earlier)
<1>1. PICK known : known = Learn(<<>>, [key |-> key, evidence |-> evidence])
  OBVIOUS
<1>2. Cardinality({}) = 0
  BY FS_EmptySet
<1>3. <<>> \in Known(Earlier)
  BY NothingKnown
<1>4. CASE evidence = {}
  <2>1. known = <<>>
    BY <1>1, <1>4 DEF Learn
  <2>2. [known EXCEPT ![1].cached = since] = <<>>
    BY <2>1
  <2> QED  BY <1>1, <1>3, <2>2
<1>5. CASE evidence # {}
  <2>1. PICK new : new = Mentioned(NewFact(key), evidence)
    OBVIOUS
  <2>2. new \in Honest(Earlier) /\ new.hot = FALSE
    <3>1. NewFact(key) \in Honest(Earlier) /\ NewFact(key).hot = FALSE
      BY NewFactHonest DEF NewFact
    <3> QED  BY <2>1, <3>1, MentionedHonest
  <2>3. new.sources = evidence
    BY <2>1 DEF Mentioned, NewFact
  <2>4. known = <<new>>
    <3>1. known = Append(<<>>, new)
      BY <1>1, <1>5, <2>1 DEF Learn
    <3> QED  BY <3>1
  <2>5. PICK f : f = [new EXCEPT !.cached = since]
    OBVIOUS
  <2>6. new \in Fact /\ since \in Times \cup {None}
    BY <2>2, LimitsAssumption DEF Honest, Times
  <2>7. /\ f \in Fact /\ f.sources = new.sources /\ f.recent = new.recent
        /\ f.cached = since /\ f.hot = new.hot
    BY <2>5, <2>6 DEF Fact
  <2>8. f \in Honest(Earlier)
    BY <2>2, <2>3, <2>7 DEF Honest
  <2>9. [known EXCEPT ![1].cached = since] = <<f>>
    BY <2>4, <2>5
  <2>10. <<f>> \in Seq(Honest(Earlier)) /\ HotIn(<<f>>) = {}
    BY <2>2, <2>7, <2>8 DEF HotIn
  <2>11. Cardinality(HotIn(<<f>>)) <= HotCapacity
    <3>1. Cardinality(HotIn(<<f>>)) = 0
      BY <1>2, <2>10
    <3> QED  BY <3>1, LimitsAssumption
  <2>12. <<f>> \in Known(Earlier)
    BY <2>10, <2>11 DEF Known
  <2> QED  BY <1>1, <2>9, <2>12
<1> QED  BY <1>4, <1>5

LEMMA FactsInit == Init => FactsInv
<1> SUFFICES ASSUME Init PROVE FactsInv
  OBVIOUS
<1>1. /\ now = 1 /\ left = MaxNew /\ createdAt = [i \in Messages |-> 0]
      /\ triggers = {} /\ work = [w \in Residents |-> None]
  BY DEF Init
<1>2. Ordinary
  BY <1>1 DEF Ordinary
<1>3. Clock
  BY <1>1, LimitsAssumption DEF Clock, Times
<1>4. CASE /\ posted = 0 /\ enabled = FALSE /\ cursor = [r \in Rooms |-> 0]
           /\ facts = <<>> /\ processed = {}
  <2>2. facts \in Known(posted)
    BY <1>4, NothingKnown
  <2>3. facts \in Seq(Fact)
    BY <2>2, KnownTyped
  <2>4. TypeOK
    <3>1. posted \in 0..MaxMessages /\ left \in 0..MaxNew
      BY <1>1, <1>4, MessagesAssumption
    <3>2. cursor \in [Rooms -> 0..MaxMessages]
      BY <1>4, MessagesAssumption
    <3>3. /\ triggers \in SUBSET Trigger /\ enabled \in BOOLEAN /\ processed \in SUBSET Messages
          /\ work \in [Residents -> [room : Rooms, upTo : Messages, events : SUBSET Messages] \cup {None}]
      BY <1>1, <1>4
    <3> QED  BY <1>3, <2>3, <3>1, <3>2, <3>3 DEF TypeOK, Clock
  <2> QED  BY <1>2, <2>2, <2>4 DEF FactsInv
<1>5. CASE /\ posted = Earlier /\ enabled \in BOOLEAN
           /\ processed = {i \in 1..Earlier : RoomOf[i] \notin Incognito}
           /\ cursor \in [Rooms -> 0..Earlier]
           /\ \E key \in Keys, since \in {0, None} :
                /\ since # None => Cardinality(processed \cap Users) >= Frequent
                /\ facts = [Learn(<<>>, [key |-> key, evidence |-> processed \cap Users])
                              EXCEPT ![1].cached = since]
  <2>1. PICK evidence : evidence = processed \cap Users
    OBVIOUS
  <2>2. evidence \in SUBSET Open(Earlier)
    BY <1>5, <2>1, MessagesAssumption DEF Open
  <2>3. PICK key \in Keys, since \in {0, None} :
          /\ since # None => Cardinality(evidence) >= Frequent
          /\ facts = [Learn(<<>>, [key |-> key, evidence |-> evidence]) EXCEPT ![1].cached = since]
    BY <1>5, <2>1
  <2>4. facts \in Known(Earlier)
    BY <1>3, <2>2, <2>3, EarlierFacts
  <2>5. facts \in Seq(Fact)
    BY <2>4, KnownTyped
  <2>6. TypeOK
    <3>1. posted \in 0..MaxMessages /\ left \in 0..MaxNew
      BY <1>1, <1>5, MessagesAssumption
    <3>2. cursor \in [Rooms -> 0..MaxMessages]
      BY <1>5, MessagesAssumption
    <3>3. /\ triggers \in SUBSET Trigger /\ enabled \in BOOLEAN /\ processed \in SUBSET Messages
          /\ work \in [Residents -> [room : Rooms, upTo : Messages, events : SUBSET Messages] \cup {None}]
      BY <1>1, <1>5, MessagesAssumption DEF Messages
    <3> QED  BY <1>3, <2>5, <3>1, <3>2, <3>3 DEF TypeOK, Clock
  <2> QED  BY <1>2, <1>5, <2>4, <2>6 DEF FactsInv
<1> QED  BY <1>4, <1>5 DEF Init

\* What a step may do to the parts of the state.
Sendable == {t \in Trigger : t.room \notin Incognito /\ t.upTo <= posted}

Extractions ==
    {e \in [room : Rooms, upTo : Messages, events : SUBSET Messages] :
       e.room \notin Incognito /\ e.events \subseteq PostedIn(e.room)}

LEMMA FactsStep ==
    ASSUME FactsInv,
           now' \in Times /\ createdAt' \in [Messages -> Times],
           posted' \in 0..MaxMessages /\ posted <= posted' /\ left' \in 0..MaxNew,
           triggers' \subseteq triggers \cup Sendable,
           work' \in [Residents -> Extractions \cup {None}],
           enabled' \in BOOLEAN /\ cursor' \in [Rooms -> 0..MaxMessages],
           facts' \in Known(posted) /\ processed' \subseteq Messages
    PROVE  FactsInv'
<1>1. posted \in Nat /\ posted' \in Nat /\ posted <= posted'
  BY MessagesAssumption DEF FactsInv, TypeOK
<1>2. PICK known : known = facts'
  OBVIOUS
<1>3. PICK upTo : upTo = posted'
  OBVIOUS
<1>4. known \in Known(upTo)
  BY <1>1, <1>2, <1>3, KnownGrows
<1>5. known \in Seq(Fact)
  BY <1>4, KnownTyped
<1>6. \A t \in triggers' : t \in Trigger /\ t.room \notin Incognito /\ t.upTo <= posted
  BY DEF FactsInv, TypeOK, Ordinary, Sendable
<1>7. \A t \in triggers' : t.upTo \in Nat
  BY <1>6 DEF Trigger, Messages
<1>8. \A w \in Residents : work'[w] # None =>
        /\ work'[w].room \notin Incognito
        /\ work'[w].events \subseteq {i \in 1..posted : RoomOf[i] = work'[w].room}
  BY DEF Extractions, PostedIn
<1>9. 1..posted \subseteq 1..posted'
  BY <1>1
<1>10. Ordinary'
  BY <1>1, <1>6, <1>7, <1>8, <1>9 DEF Ordinary, PostedIn
<1>11. work' \in [Residents -> [room : Rooms, upTo : Messages, events : SUBSET Messages] \cup {None}]
  BY DEF Extractions
<1>12. TypeOK'
  BY <1>2, <1>5, <1>6, <1>11 DEF TypeOK
<1>13. (facts \in Known(posted))'
  BY <1>2, <1>3, <1>4 DEF Known, Honest, Open, HotIn
<1> QED  BY <1>10, <1>12, <1>13 DEF FactsInv

\* No step of chat, of a Resident or of the manager breaks it.
LEMMA FactsNext == FactsInv /\ [Next]_vars => FactsInv'
<1> SUFFICES ASSUME FactsInv, [Next]_vars PROVE FactsInv'
  OBVIOUS
<1>1. /\ now \in Times /\ createdAt \in [Messages -> Times]
      /\ posted \in 0..MaxMessages /\ posted <= posted /\ left \in 0..MaxNew
      /\ posted \in Nat /\ now \in Nat /\ left \in Nat
      /\ triggers \subseteq triggers \cup Sendable
      /\ enabled \in BOOLEAN /\ cursor \in [Rooms -> 0..MaxMessages]
      /\ facts \in Known(posted) /\ processed \subseteq Messages
  BY MessagesAssumption, LimitsAssumption DEF FactsInv, TypeOK, Times
<1>2. work \in [Residents -> Extractions \cup {None}]
  <2> SUFFICES ASSUME NEW w \in Residents, work[w] # None PROVE work[w] \in Extractions
    BY DEF FactsInv, TypeOK
  <2> QED  BY DEF FactsInv, TypeOK, Ordinary, Extractions
<1>3. [w \in Residents |-> None] \in [Residents -> Extractions \cup {None}]
  OBVIOUS
<1>4. \A w \in Residents : [work EXCEPT ![w] = None] \in [Residents -> Extractions \cup {None}]
  BY <1>2
<1>5. Clock
  BY <1>1 DEF Clock
<1>6. \A r \in Rooms : \A members \in SUBSET Residents : Emitted(r, members) \subseteq Sendable
  BY <1>1, EmittedOrdinary DEF Sendable
<1>7. CASE Post
  <2>1. /\ posted' = posted + 1 /\ posted < MaxMessages
        /\ left' = left - 1 /\ left > 0
        /\ createdAt' = [createdAt EXCEPT ![posted + 1] = now]
        /\ UNCHANGED <<now, triggers, work, enabled, cursor, facts, processed>>
    BY <1>7 DEF Post, managerVars
  <2>2. posted' \in 0..MaxMessages /\ posted <= posted' /\ left' \in 0..MaxNew
    BY <1>1, <2>1, MessagesAssumption
  <2>3. createdAt' \in [Messages -> Times]
    BY <1>1, <2>1
  <2> QED  BY <1>1, <1>2, <2>1, <2>2, <2>3, FactsStep
<1>8. CASE Tick
  <2>1. /\ now < MaxTime /\ now' = now + 1
        /\ UNCHANGED <<posted, left, createdAt, triggers, work, enabled, cursor, facts, processed>>
    BY <1>8 DEF Tick, managerVars
  <2>2. now' \in Times
    BY <1>1, <2>1, LimitsAssumption DEF Times
  <2> QED  BY <1>1, <1>2, <2>1, <2>2, FactsStep
<1>9. ASSUME triggers' \subseteq triggers \cup Sendable,
             UNCHANGED <<chatVars, managerVars, processed>>,
             work' \in [Residents -> Extractions \cup {None}]
      PROVE  FactsInv'
  <2>1. UNCHANGED <<now, posted, left, createdAt, enabled, cursor, facts, processed>>
    BY <1>9 DEF chatVars, managerVars
  <2> QED  BY <1>1, <1>9, <2>1, FactsStep
<1>10. ASSUME NEW r \in Rooms, Sleep(r) PROVE FactsInv'
  <2>1. triggers' \subseteq triggers \cup Emitted(r, MembersOf[r])
    BY <1>10 DEF Sleep, Send
  <2>2. Emitted(r, MembersOf[r]) \subseteq Sendable
    BY <1>6, RoomsAssumption
  <2> QED  BY <1>2, <1>9, <1>10, <2>1, <2>2 DEF Sleep
<1>11. ASSUME NEW r \in Rooms, NEW m \in Residents, Compacted(r, m) PROVE FactsInv'
  <2>1. triggers' \subseteq triggers \cup Emitted(r, {m})
    BY <1>11 DEF Compacted, Send
  <2>2. Emitted(r, {m}) \subseteq Sendable
    BY <1>6
  <2> QED  BY <1>2, <1>9, <1>11, <2>1, <2>2 DEF Compacted
<1>12. ASSUME NEW t \in triggers, Lose(t) PROVE FactsInv'
  BY <1>2, <1>9, <1>12 DEF Lose
<1>13. CASE Restart
  <2>1. triggers' \subseteq Sendable
    BY <1>6, <1>13, RoomsAssumption DEF Restart
  <2> QED  BY <1>3, <1>9, <1>13, <2>1 DEF Restart
<1>14. ASSUME NEW w \in Residents, NEW t \in triggers, Take(w, t) PROVE FactsInv'
  <2> DEFINE events == IF enabled THEN Unprocessed(t.room, t.upTo) ELSE {}
             e == [room |-> t.room, upTo |-> t.upTo, events |-> events]
  <2>1. /\ t.room \in Rooms /\ t.upTo \in Messages
        /\ t.room \notin Incognito /\ t.upTo <= posted
    BY DEF FactsInv, TypeOK, Ordinary, Trigger
  <2>2. events \subseteq Messages /\ events \subseteq PostedIn(t.room)
    BY <1>1, <2>1, MessagesAssumption DEF Unprocessed, PostedIn, Messages
  <2>3. e \in Extractions
    <3> HIDE DEF events
    <3> QED  BY <2>1, <2>2 DEF Extractions
  <2>4. work' = work \/ work' = [work EXCEPT ![w] = e]
    BY <1>14 DEF Take
  <2>5. work' \in [Residents -> Extractions \cup {None}]
    <3> HIDE DEF e
    <3> QED  BY <1>2, <2>3, <2>4
  <2>6. triggers' \subseteq triggers /\ UNCHANGED <<chatVars, managerVars, processed>>
    BY <1>14 DEF Take
  <2> QED  BY <1>9, <2>5, <2>6
<1>15. ASSUME NEW w \in Residents, ExtractionFails(w) PROVE FactsInv'
  BY <1>4, <1>9, <1>15 DEF ExtractionFails
<1>16. ASSUME NEW w \in Residents, NEW items \in Extracted(w), Apply(w, items) PROVE FactsInv'
  <2>1. /\ work[w] # None /\ work' = [work EXCEPT ![w] = None]
        /\ UNCHANGED <<now, posted, left, createdAt, triggers, enabled>>
    BY <1>16 DEF Apply, chatVars
  <2>2. work' \in [Residents -> Extractions \cup {None}]
    BY <1>4, <2>1
  <2>3. CASE UNCHANGED <<cursor, facts, processed>>
    BY <1>1, <2>1, <2>2, <2>3, FactsStep
  <2>4. CASE /\ cursor' = [cursor EXCEPT ![work[w].room] = work[w].upTo]
             /\ facts' = Rebalance(LearnAll(facts, items))
             /\ processed' = processed \cup work[w].events
    <3>1. /\ work[w].room \in Rooms /\ work[w].upTo \in Messages
          /\ work[w].events \subseteq Messages
          /\ work[w].room \notin Incognito /\ work[w].events \subseteq PostedIn(work[w].room)
      BY <2>1 DEF FactsInv, TypeOK, Ordinary
    <3>2. cursor' \in [Rooms -> 0..MaxMessages] /\ processed' \subseteq Messages
      <4>1. work[w].upTo \in 0..MaxMessages
        BY <3>1, MessagesAssumption DEF Messages
      <4> QED  BY <1>1, <2>4, <3>1, <4>1
    <3>3. Allowed(w) \subseteq Open(posted)
      BY <1>1, <3>1 DEF Allowed, Open, PostedIn
    <3>4. items \in Seq(Mentioning(posted))
      <4>1. Item(w) \subseteq Mentioning(posted)
        BY <3>3 DEF Item, Mentioning
      <4>2. PICK n \in 0..MaxFacts : items \in [1..n -> Item(w)]
        BY DEF Extracted
      <4>3. items \in [1..n -> Mentioning(posted)] /\ n \in Nat
        BY <4>1, <4>2, MessagesAssumption
      <4> QED  BY <4>3
    <3>5. LearnAll(facts, items) \in Known(posted)
      BY <1>1, <1>5, <3>4, LearnAllKeeps
    <3>6. facts' \in Known(posted)
      BY <1>5, <2>4, <3>5, RebalanceKeeps
    <3> QED  BY <1>1, <2>1, <2>2, <3>2, <3>6, FactsStep
  <2> QED  BY <1>16, <2>3, <2>4 DEF Apply
<1>17. CASE ReadHot
  <2>1. /\ facts' = Rebalance(facts)
        /\ UNCHANGED <<now, posted, left, createdAt, triggers, work, enabled, cursor, processed>>
    BY <1>17 DEF ReadHot, chatVars
  <2>2. facts' \in Known(posted)
    BY <1>1, <1>5, <2>1, RebalanceKeeps
  <2> QED  BY <1>1, <1>2, <2>1, <2>2, FactsStep
<1>18. CASE SetEnabled
  <2>1. /\ enabled' \in BOOLEAN
        /\ UNCHANGED <<now, posted, left, createdAt, triggers, work, cursor, facts, processed>>
    BY <1>18 DEF SetEnabled, chatVars
  <2> QED  BY <1>1, <1>2, <2>1, FactsStep
<1>19. CASE UNCHANGED vars
  BY <1>2, <1>9, <1>19 DEF vars
<1> QED
  BY <1>7, <1>8, <1>10, <1>11, <1>12, <1>13, <1>14, <1>15, <1>16, <1>17, <1>18, <1>19 DEF Next

\* The clock, messages, triggers, extractions and facts are what they should be.
THEOREM MemoryTypeCorrect == Spec => []TypeOK
<1>1. FactsInv => TypeOK
  BY DEF FactsInv
<1> QED  BY <1>1, FactsInit, FactsNext, PTL DEF Spec

\* A fact is cached for as many different messages of users as it takes, all posted
\* in ordinary rooms, for any Residents, rooms, messages and limits: apply counts a
\* message once however often, and in however many extractions, it is evidence.
THEOREM CachedByDistinctMentionsCorrect == Spec => []CachedByDistinctMentions
<1>1. FactsInv => CachedByDistinctMentions
  <2> SUFFICES ASSUME facts \in Known(posted), NEW j \in DOMAIN facts
               PROVE  /\ facts[j].sources \subseteq {i \in Users : i <= posted /\ RoomOf[i] \notin Incognito}
                      /\ Mentions(facts[j].recent) <= Cardinality(facts[j].sources)
                      /\ facts[j].cached # None => Cardinality(facts[j].sources) >= Frequent
    BY DEF FactsInv, CachedByDistinctMentions
  <2>1. facts[j] \in Honest(posted)
    BY DEF Known
  <2> QED  BY <2>1 DEF Honest, Open
<1> QED  BY <1>1, FactsInit, FactsNext, PTL DEF Spec

\* Of any reachable facts rebalance makes as many hot as there is room for, and none
\* that is left out was mentioned later than one that is hot, in whatever order the
\* candidates are tried.
THEOREM HotIsTheMostRecentCorrect == Spec => []HotIsTheMostRecent
<1>1. FactsInv => HotIsTheMostRecent
  <2> SUFFICES ASSUME FactsInv PROVE HotIsTheMostRecent
    OBVIOUS
  <2>1. Clock /\ facts \in Known(posted)
    BY DEF FactsInv, TypeOK, Clock
  <2> QED  BY <2>1, RebalanceBest
<1> QED  BY <1>1, FactsInit, FactsNext, PTL DEF Spec
=============================================================================
