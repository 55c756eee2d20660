------------------------------- MODULE Memory -------------------------------
(***************************************************************************)
(* The long-term memory: the triggers chat sends when a room falls asleep   *)
(* or a turn was compacted, the extraction each Codex Resident makes of     *)
(* one, and the MemoryManager they share (residents/src/memory.rs, its      *)
(* callers in codex/mod.rs and chat/mod.rs, and web/src/main.rs, which      *)
(* gives both Residents the same manager).  Between the lock in which the   *)
(* unprocessed messages are read and the one in which the facts are applied *)
(* a model turn runs, and the other Resident may do both.                   *)
(*                                                                          *)
(* A message is its id; the ids of all rooms come from one counter.  Every  *)
(* change of the manager is saved before it is installed (SnapshotFile has  *)
(* the file), so a process that ends takes nothing of it along, and a save  *)
(* that fails is an operation that did nothing.  Rooms are restored whole   *)
(* (ChatRooms has the rest).  Time passes in units of the limits below.     *)
(***************************************************************************)
EXTENDS Naturals, Sequences, FiniteSets, FiniteSetsExt

CONSTANTS
    Residents,     \* the Codex Residents
    Rooms,
    MembersOf,     \* the Residents of each room
    Incognito,     \* the incognito rooms
    MaxMessages,   \* bound: ids of messages
    Earlier,       \* messages of an earlier process, if there was one
    MaxNew,        \* bound: messages posted after the start
    Places,        \* places in a mailbox for triggers (mailbox_capacity)
    RoomOf,        \* the room of each message
    Users,         \* the messages whose role is "user"
    Keys,          \* normalised keys of facts
    MaxFacts,      \* bound: facts of one extraction
    Frequent,      \* mentions that cache a fact (3)
    Window,        \* FREQUENT_WINDOW_MS
    Dwell,         \* CACHE_DWELL_MS
    Idle,          \* HOT_IDLE_MS
    HotCapacity,
    MaxTime,       \* bound: the clock
    None

Messages == 1..MaxMessages
Times == 0..MaxTime

ASSUME MessagesAssumption ==
    /\ MaxMessages \in Nat /\ RoomOf \in [Messages -> Rooms] /\ Users \subseteq Messages
    /\ Earlier \in 0..MaxMessages
    /\ MaxNew \in Nat /\ Places \in Nat /\ MaxFacts \in Nat
ASSUME RoomsAssumption == MembersOf \in [Rooms -> SUBSET Residents] /\ Incognito \subseteq Rooms
ASSUME LimitsAssumption ==
    /\ Frequent \in Nat /\ Window \in Nat /\ Dwell \in Nat /\ Idle \in Nat
    /\ HotCapacity \in Nat \ {0} /\ MaxTime \in Nat \ {0}
ASSUME NoneAssumption == None \notin Times

VARIABLES
    now,        \* the clock
    posted,     \* the last message id
    left,       \* bound: messages to come
    createdAt,  \* created_at_ms of each message
    triggers,   \* memory triggers between chat and the Residents
    work,       \* per Resident: the extraction under way, or None
    enabled,    \* MemoryState.enabled
    cursor,     \* MemoryState.cursors
    facts,      \* MemoryState.facts, in the order of their insertion
    processed   \* history: the messages of the extractions that were applied

chatVars == <<now, posted, left, createdAt>>
managerVars == <<enabled, cursor, facts>>
vars == <<chatVars, triggers, work, managerVars, processed>>

\* The last id of a set, if there is one.
Latest(ids) == {i \in ids : \A k \in ids : k <= i}

PostedIn(r) == {i \in 1..posted : RoomOf[i] = r}

Fact == [key : Keys, sources : SUBSET Users, seen : Times, recent : [Times -> Nat],
         cached : Times \cup {None}, hot : BOOLEAN]

Trigger == [to : Residents, room : Rooms, upTo : Messages]

----------------------------------------------------------------------------
(* chat *)

Post ==
    /\ left > 0 /\ posted < MaxMessages
    /\ posted' = posted + 1 /\ left' = left - 1
    /\ createdAt' = [createdAt EXCEPT ![posted + 1] = now]
    /\ UNCHANGED <<now, triggers, work, managerVars, processed>>

\* Slip: a room in incognito mode is like any other.
EmittedAlways(r, members) ==
    [to : members, room : {r}, upTo : Latest(PostedIn(r))]

\* emit_memory_trigger: the trigger carries the whole room as it is, that is,
\* its messages up to the last; an empty room has none.
Emitted(r, members) ==
    IF r \in Incognito THEN {}
    ELSE [to : members, room : {r}, upTo : Latest(PostedIn(r))]

\* A mailbox that is full refuses a trigger; chat only logs that.
Send(sent) ==
    triggers' = triggers \cup
        {t \in sent : Cardinality({u \in triggers : u.to = t.to}) < Places}

\* sleep_due and after_sleep: the room may wake, and messages be posted, before
\* the trigger arrives.
Sleep(r) ==
    /\ Send(Emitted(r, MembersOf[r]))
    /\ UNCHANGED <<chatVars, work, managerVars, processed>>

\* ask: the answer of a member was compacted.
Compacted(r, m) ==
    /\ m \in MembersOf[r]
    /\ Send(Emitted(r, {m}))
    /\ UNCHANGED <<chatVars, work, managerVars, processed>>

\* A Resident that stops, or an instance that is gone.
Lose(t) ==
    /\ t \in triggers
    /\ triggers' = triggers \ {t}
    /\ UNCHANGED <<chatVars, work, managerVars, processed>>

\* The process ends and starts again: retry_sleep_memory, for every room is
\* asleep after a restart.
Restart ==
    /\ triggers' = UNION {Emitted(r, MembersOf[r]) : r \in Rooms}
    /\ work' = [w \in Residents |-> None]
    /\ UNCHANGED <<chatVars, managerVars, processed>>

Tick ==
    /\ now < MaxTime
    /\ now' = now + 1
    /\ UNCHANGED <<posted, left, createdAt, triggers, work, managerVars, processed>>

----------------------------------------------------------------------------
(* process_memory_trigger *)

Unprocessed(r, upTo) == {i \in Messages : i <= upTo /\ RoomOf[i] = r /\ i > cursor[r]}

\* Slip: the cursor moves when the messages are read.
TakeAtOnce(w, t) ==
    /\ work[w] = None /\ t \in triggers /\ t.to = w
    /\ triggers' = triggers \ {t}
    /\ LET events == IF enabled THEN Unprocessed(t.room, t.upTo) ELSE {} IN
         IF events = {} THEN UNCHANGED <<work, cursor>>
         ELSE /\ work' = [work EXCEPT ![w] = [room |-> t.room, upTo |-> t.upTo, events |-> events]]
              /\ cursor' = [cursor EXCEPT ![t.room] = t.upTo]
    /\ UNCHANGED <<chatVars, enabled, facts, processed>>

\* unprocessed: nothing while the memory is disabled.  Triggers reach a
\* Resident in any order, and it works on one at a time.
Take(w, t) ==
    /\ work[w] = None /\ t \in triggers /\ t.to = w
    /\ triggers' = triggers \ {t}
    /\ LET events == IF enabled THEN Unprocessed(t.room, t.upTo) ELSE {} IN
         IF events = {} THEN UNCHANGED work
         ELSE work' = [work EXCEPT ![w] = [room |-> t.room, upTo |-> t.upTo, events |-> events]]
    /\ UNCHANGED <<chatVars, managerVars, processed>>

\* No process, a failed turn, an answer that is no JSON, or a save that fails.
ExtractionFails(w) ==
    /\ work[w] # None
    /\ work' = [work EXCEPT ![w] = None]
    /\ UNCHANGED <<chatVars, triggers, managerVars, processed>>

----------------------------------------------------------------------------
(* MemoryManager *)

\* recent_mentions_ms as a bag of times, and its length.
Retained(recent) == [t \in Times |-> IF now - t <= Window THEN recent[t] ELSE 0]
Entries(recent) == UNION {{t} \X (1..recent[t]) : t \in Times}
Mentions(recent) == Cardinality(Entries(recent))

NewFact(key) ==
    [key |-> key, sources |-> {}, seen |-> 0, recent |-> [t \in Times |-> 0],
     cached |-> None, hot |-> FALSE]

\* Slip: the evidence that the fact does not have yet is all of it.
AllOf(evidence, sources) == evidence
NewOf(evidence, sources) == evidence \ sources

\* One extracted fact that has evidence.
Mentioned(fact, evidence) ==
    LET fresh == NewOf(evidence, fact.sources)
        recent == Retained([t \in Times |->
                      fact.recent[t] + Cardinality({i \in fresh : createdAt[i] = t})])
    IN [fact EXCEPT !.sources = @ \cup evidence,
                    !.seen = Max({@} \cup {createdAt[i] : i \in evidence}),
                    !.recent = recent,
                    !.cached = IF @ = None /\ Mentions(recent) >= Frequent THEN now ELSE @]

Learn(known, item) ==
    LET at == {j \in DOMAIN known : known[j].key = item.key} IN
      IF item.evidence = {} THEN known
      ELSE IF at = {} THEN Append(known, Mentioned(NewFact(item.key), item.evidence))
      ELSE [known EXCEPT ![Min(at)] = Mentioned(@, item.evidence)]

\* The loop over the extracted facts; after[n]: what is known after n of them.
LearnAll(known, items) ==
    LET after[n \in 0..Len(items)] ==
          IF n = 0 THEN known ELSE Learn(after[n - 1], items[n])
    IN after[Len(items)]

IsIdle(fact) == now - fact.seen >= Idle

Recede(fact) ==
    [fact EXCEPT !.recent = Retained(@),
                 !.hot = @ /\ ~IsIdle(fact),
                 !.cached = IF fact.hot /\ IsIdle(fact) THEN None ELSE @]

Ripe(fact) == ~fact.hot /\ fact.cached # None /\ now - fact.cached >= Dwell

HotIn(known) == {j \in DOMAIN known : known[j].hot}

\* min_by_key of last_seen_ms and the number of sources
Worse(a, b) ==
    \/ a.seen < b.seen
    \/ /\ a.seen = b.seen
       /\ Cardinality(a.sources) < Cardinality(b.sources)

\* The first of the worst.
Worst(known) ==
    Min({j \in HotIn(known) : \A k \in HotIn(known) : ~Worse(known[k], known[j])})

\* Slip: whoever comes last is hot.
PromoteLatest(known, j) ==
    IF Cardinality(HotIn(known)) < HotCapacity THEN [known EXCEPT ![j].hot = TRUE]
    ELSE [known EXCEPT ![Worst(known)].hot = FALSE, ![j].hot = TRUE]

Promote(known, j) ==
    IF Cardinality(HotIn(known)) < HotCapacity THEN [known EXCEPT ![j].hot = TRUE]
    ELSE IF known[Worst(known)].seen >= known[j].seen THEN known
    ELSE [known EXCEPT ![Worst(known)].hot = FALSE, ![j].hot = TRUE]

Receded(known) == [j \in DOMAIN known |-> Recede(known[j])]

\* The loop over the candidates, which are those that are ripe before any is
\* promoted; after[n]: the facts after the first n of them were tried.
PromoteAll(receded) ==
    LET after[n \in 0..Len(receded)] ==
          IF n = 0 THEN receded
          ELSE IF Ripe(receded[n]) THEN Promote(after[n - 1], n) ELSE after[n - 1]
    IN after[Len(receded)]

\* rebalance
Rebalance(known) == PromoteAll(Receded(known))

\* Evidence that counts: the user messages of this extraction that are past the
\* cursor as it is now.
Allowed(w) == {i \in work[w].events \cap Users : i > cursor[work[w].room]}

\* What a model may extract, in any order, a key twice included; of the evidence
\* it gives, what is allowed.
Item(w) == [key : Keys, evidence : SUBSET Allowed(w)]
Extracted(w) == UNION {[1..n -> Item(w)] : n \in 0..MaxFacts}

\* apply.  upTo is the largest id of the events.
Apply(w, items) ==
    /\ work[w] # None
    /\ work' = [work EXCEPT ![w] = None]
    /\ IF enabled
         THEN /\ cursor' = [cursor EXCEPT ![work[w].room] = work[w].upTo]
              /\ facts' = Rebalance(LearnAll(facts, items))
              /\ processed' = processed \cup work[w].events
         ELSE UNCHANGED <<cursor, facts, processed>>
    /\ UNCHANGED <<chatVars, triggers, enabled>>

\* hot, called by read_resident_memory in a room that is not incognito.
ReadHot ==
    /\ enabled
    /\ facts' = Rebalance(facts)
    /\ UNCHANGED <<chatVars, triggers, work, enabled, cursor, processed>>

\* set_enabled
SetEnabled ==
    /\ enabled' = ~enabled
    /\ UNCHANGED <<chatVars, triggers, work, cursor, facts, processed>>

\* The first start, or one after a process that has extracted a fact from the
\* ordinary rooms.  main opens the memory before the rooms are restored.
Init ==
    /\ now = 1 /\ left = MaxNew /\ createdAt = [i \in Messages |-> 0]
    /\ triggers = {} /\ work = [w \in Residents |-> None]
    /\ \/ /\ posted = 0 /\ enabled = FALSE /\ cursor = [r \in Rooms |-> 0]
          /\ facts = <<>> /\ processed = {}
       \/ /\ posted = Earlier /\ enabled \in BOOLEAN
          /\ processed = {i \in 1..Earlier : RoomOf[i] \notin Incognito}
          /\ cursor \in [Rooms -> 0..Earlier]
          /\ \A r \in Rooms :
               cursor[r] \in Latest({0} \cup {i \in processed : RoomOf[i] = r})
          /\ \E key \in Keys, since \in {0, None} :
               /\ since # None => Cardinality(processed \cap Users) >= Frequent
               /\ facts = [Learn(<<>>, [key |-> key, evidence |-> processed \cap Users])
                             EXCEPT ![1].cached = since]

Next ==
    \/ Post \/ Tick \/ Restart \/ ReadHot \/ SetEnabled
    \/ \E r \in Rooms : Sleep(r) \/ \E m \in Residents : Compacted(r, m)
    \/ \E t \in triggers : Lose(t)
    \/ \E w \in Residents :
         \/ \E t \in triggers : Take(w, t)
         \/ ExtractionFails(w)
         \/ /\ work[w] # None
            /\ \E items \in Extracted(w) : Apply(w, items)

Spec == Init /\ [][Next]_vars

----------------------------------------------------------------------------
TypeOK ==
    /\ now \in Times /\ posted \in 0..MaxMessages /\ left \in 0..MaxNew
    /\ createdAt \in [Messages -> Times]
    /\ triggers \in SUBSET Trigger
    /\ work \in [Residents -> [room : Rooms, upTo : Messages, events : SUBSET Messages] \cup {None}]
    /\ enabled \in BOOLEAN
    /\ cursor \in [Rooms -> 0..MaxMessages]
    /\ facts \in Seq(Fact)
    /\ processed \in SUBSET Messages

\* A message the cursor has passed was part of an extraction that was applied:
\* no failed extraction, lost trigger, restart or switch of the memory, and no
\* Resident that applies late, makes one disappear unseen.
NothingSkipped ==
    \A i \in Messages : i <= cursor[RoomOf[i]] => i \in processed

\* A fact is cached for as many different messages of users as it takes, all in
\* ordinary rooms, even if two Residents extract the same messages or the cursor
\* moves back and they are extracted again.
CachedByDistinctMentions ==
    \A j \in DOMAIN facts :
      /\ facts[j].sources \subseteq {i \in Users : i <= posted /\ RoomOf[i] \notin Incognito}
      /\ Mentions(facts[j].recent) <= Cardinality(facts[j].sources)
      /\ facts[j].cached # None => Cardinality(facts[j].sources) >= Frequent

\* What rebalance makes of any reachable state: at most the capacity is hot, and
\* a fact that is ripe and not hot was last mentioned no later than every hot
\* one, so that the order in which the candidates are tried does not show.
HotIsTheMostRecent ==
    LET after == Rebalance(facts) IN
      /\ Cardinality(HotIn(after)) <= HotCapacity
      /\ \A j \in DOMAIN after : Ripe(after[j]) =>
           /\ Cardinality(HotIn(after)) = HotCapacity
           /\ \A k \in HotIn(after) : after[k].seen >= after[j].seen

\* "deduplicates_processed_messages": once an extraction with a message was
\* applied, unprocessed does not return that message again.
ProcessedStaysProcessed ==
    \A i \in processed : i <= cursor[RoomOf[i]]
============================================================================
