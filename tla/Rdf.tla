-------------------------------- MODULE Rdf --------------------------------
(***************************************************************************)
(* The registration data flow: src/rdf.rs, with the ResidentStore it owns  *)
(* (src/resident_store.rs).  Callers hold a RegistrationSender and put one  *)
(* command at a time on its unbounded channel; one background task takes    *)
(* the commands in order.  Admission and removal change the directory and   *)
(* the store inside one write-lock section; the broadcast that follows an   *)
(* admission runs outside the lock, one mailbox at a time.                  *)
(*                                                                          *)
(* Data abstraction.  A Resident is a model value; KeyOf gives the name in  *)
(* its descriptor.  Its mailbox is identified with the Resident, and a      *)
(* ResidentRegistered notice is identified with the instance id it          *)
(* announces (the code sends the descriptor).  u64::MAX is IdLimit.         *)
(***************************************************************************)
EXTENDS Naturals, Sequences, FiniteSets

CONSTANTS
    Residents,    \* Arc<dyn Resident> objects
    Keys,         \* Resident names
    KeyOf,        \* the name in each object's descriptor
    Callers,      \* tasks that call register / unregister
    IdLimit,      \* the largest instance id (u64::MAX in the code)
    None

ASSUME KeyOfAssumption == KeyOf \in [Residents -> Keys]
ASSUME IdLimitAssumption == IdLimit \in Nat
Ids == 1..IdLimit

\* The directory's record of a name: the instance and its mailbox.
RegistrationRecord == [id : Ids, mailbox : Residents]

ASSUME NoneAssumption == None \notin Residents \cup Keys \cup RegistrationRecord

Registering(c, r) == [op |-> "register", caller |-> c, resident |-> r]
Unregistering(c, i) == [op |-> "unregister", caller |-> c, id |-> i]

Commands == [op : {"register"}, caller : Callers, resident : Residents]
            \cup [op : {"unregister"}, caller : Callers, id : Ids]

\* The announcement still to be delivered after an admission.
Broadcasts == [caller : Callers, id : Ids, resident : Residents,
               existing : SUBSET Keys, targets : SUBSET RegistrationRecord,
               failures : SUBSET Keys]

Receipts == [resident : Residents, existing : SUBSET Keys, failures : SUBSET Keys]

ASSUME NoRecordAssumption == None \notin Commands \cup Broadcasts \cup Receipts

VARIABLES
    nextId,      \* ResidentStoreState.next_instance_id
    instances,   \* ResidentStoreState.instances
    byInstance,  \* RdfState.by_instance
    residents,   \* RdfState.residents
    commands,    \* the registration channel
    serving,     \* the command the loop took off the channel and not yet ran
    broadcast,   \* the admission whose notices are being delivered
    loop,        \* "running", or "ended" once the loop broke
    owned,       \* someone other than the loop holds a strong Arc<Rdf>
    call,        \* per caller: "waiting" for an answer; else "idle", or
                 \* "PipelineUnavailable" if that was the last answer
    mailbox,     \* per Resident: the notices its mailbox accepted, in order
    receipts     \* history: the receipt of every completed registration

vars == <<nextId, instances, byInstance, residents, commands, serving,
          broadcast, loop, owned, call, mailbox, receipts>>

directory == <<nextId, instances, byInstance, residents>>

Init ==
    /\ nextId = 0
    /\ instances = [i \in Ids |-> None]
    /\ byInstance = [i \in Ids |-> None]
    /\ residents = [k \in Keys |-> None]
    /\ commands = <<>>
    /\ serving = None
    /\ broadcast = None
    /\ loop = "running"
    /\ owned = TRUE
    /\ call = [c \in Callers |-> "idle"]
    /\ mailbox = [r \in Residents |-> <<>>]
    /\ receipts = [i \in Ids |-> None]

----------------------------------------------------------------------------
\* While the loop handles a command it holds an upgraded Arc itself.
RdfAlive == owned \/ serving # None \/ broadcast # None

\* Weak::upgrade in the loop fails.  Slip: it ignores the command in hand.
UpgradeFailsEarly == ~owned
UpgradeFails == ~RdfAlive

\* Arc::ptr_eq over the store.
IsStored(r) == \E i \in Ids : instances[i] = r

Registered(i) == instances[i] # None

\* A completed registration that was removed since.
Retired(i) == receipts[i] # None /\ ~Registered(i)

\* Ids a program outside can hold: they are only exposed by a receipt or by a
\* DuplicateResident error, both of which come after the command.
\* Slip: they are known before the broadcast is over.
DisclosedEarly == 1..nextId
Disclosed == {i \in Ids : i <= nextId /\ (broadcast # None => broadcast.id # i)}

\* The command of a caller that is queued or being run.
Outstanding(c) ==
    \/ \E n \in DOMAIN commands : commands[n].caller = c
    \/ serving # None /\ serving.caller = c
    \/ broadcast # None /\ broadcast.caller = c

\* The oneshot response: a receipt, a descriptor, or the error the action is
\* named for.  Nobody may be waiting for it any more.
Answer(c) == call' = [call EXCEPT ![c] = "idle"]

\* ResidentStore::reserve: the next id, unless the counter would overflow.
\* Slips: one id too many; an id that was removed is given out again.
CanReserveOneMore == nextId <= IdLimit
CanReserve == nextId < IdLimit

ReservedFree == 1 + Cardinality({i \in Ids : Registered(i)})
Reserved == nextId + 1

\* Slip: the name is not looked up.
NameUnchecked(k) == TRUE
NameFree(k) == residents[k] = None

\* The broadcast after the delivery to t, and after its failure.  Slip: the
\* failure is not noted.
Remaining(t) == broadcast.targets \ {t}

FailuresUnnoted(t) == broadcast.failures
FailuresWith(t) == broadcast.failures \cup {KeyOf[t.mailbox]}

\* The receiver of the channel drops the queued oneshot senders.  Slip: it keeps them.
LeftWaiting == call
Unavailable ==
    [c \in Callers |-> IF call[c] = "waiting" THEN "PipelineUnavailable" ELSE call[c]]

----------------------------------------------------------------------------
\* RegistrationSender: queue the command, then await the oneshot.  A member of
\* Callers stands for one call at a time, abandoned ones included, so Callers
\* also bounds the unbounded channel.
Submit(c, command) ==
    /\ ~Outstanding(c)
    /\ IF loop = "running"
         THEN /\ commands' = Append(commands, command)
              /\ call' = [call EXCEPT ![c] = "waiting"]
         ELSE /\ call' = [call EXCEPT ![c] = "PipelineUnavailable"]
              /\ UNCHANGED commands
    /\ UNCHANGED <<directory, serving, broadcast, loop, owned, mailbox, receipts>>

Register(c) == \E r \in Residents : Submit(c, Registering(c, r))

Unregister(c) == \E i \in Disclosed : Submit(c, Unregistering(c, i))

\* The caller's future is dropped: its command stays queued or keeps running,
\* and the answer will find nobody.
Abandon(c) ==
    /\ call[c] = "waiting"
    /\ call' = [call EXCEPT ![c] = "idle"]
    /\ UNCHANGED <<directory, commands, serving, broadcast, loop, owned, mailbox,
                   receipts>>

----------------------------------------------------------------------------
\* The loop receives the next command and upgrades its Weak<Rdf>.
\* Slip: the broadcast runs in a task of its own, and the loop goes on.
ReceiveBesideBroadcast ==
    /\ loop = "running"
    /\ RdfAlive
    /\ serving = None
    /\ commands # <<>>
    /\ serving' = Head(commands)
    /\ commands' = Tail(commands)
    /\ UNCHANGED <<directory, broadcast, loop, owned, call, mailbox, receipts>>

Receive ==
    /\ loop = "running"
    /\ RdfAlive
    /\ serving = None /\ broadcast = None
    /\ commands # <<>>
    /\ serving' = Head(commands)
    /\ commands' = Tail(commands)
    /\ UNCHANGED <<directory, broadcast, loop, owned, call, mailbox, receipts>>

\* A command that ends without changing a name: answer it and go back to recv.
Refuse ==
    /\ Answer(serving.caller)
    /\ serving' = None
    /\ UNCHANGED <<instances, byInstance, residents, commands, broadcast, loop,
                   owned, mailbox, receipts>>

RefuseStored ==
    /\ serving # None /\ serving.op = "register"
    /\ IsStored(serving.resident)
    /\ Refuse
    /\ UNCHANGED nextId

RefuseExhausted ==
    /\ serving # None /\ serving.op = "register"
    /\ ~IsStored(serving.resident)
    /\ ~CanReserve
    /\ Refuse
    /\ UNCHANGED nextId

\* The id was reserved before the name was looked up: it is burnt.
RefuseDuplicate ==
    /\ serving # None /\ serving.op = "register"
    /\ ~IsStored(serving.resident)
    /\ CanReserve
    /\ ~NameFree(KeyOf[serving.resident])
    /\ nextId' = Reserved
    /\ Refuse

\* The write-lock section of a registration that succeeds.
Admit ==
    /\ serving # None /\ serving.op = "register"
    /\ LET r == serving.resident
           k == KeyOf[r]
           i == Reserved
           present == {n \in Keys : residents[n] # None}
       IN /\ ~IsStored(r)
          /\ CanReserve
          /\ NameFree(k)
          /\ nextId' = i
          /\ instances' = [instances EXCEPT ![i] = r]
          /\ byInstance' = [byInstance EXCEPT ![i] = k]
          /\ residents' = [residents EXCEPT ![k] = [id |-> i, mailbox |-> r]]
          /\ broadcast' = [caller |-> serving.caller, id |-> i, resident |-> r,
                           existing |-> present,
                           targets |-> {residents[n] : n \in present},
                           failures |-> {}]
    /\ serving' = None
    /\ UNCHANGED <<commands, loop, owned, call, mailbox, receipts>>

\* One mailbox.deliver of the broadcast; a full or closed mailbox refuses.
Notify ==
    /\ broadcast # None
    /\ \E t \in broadcast.targets :
         \/ /\ mailbox' = [mailbox EXCEPT ![t.mailbox] = Append(@, broadcast.id)]
            /\ broadcast' = [broadcast EXCEPT !.targets = Remaining(t)]
         \/ /\ broadcast' = [broadcast EXCEPT !.targets = Remaining(t),
                                              !.failures = FailuresWith(t)]
            /\ UNCHANGED mailbox
    /\ UNCHANGED <<directory, commands, serving, loop, owned, call, receipts>>

\* Every mailbox was tried: send the receipt.
FinishRegister ==
    /\ broadcast # None
    /\ broadcast.targets = {}
    /\ receipts' = [receipts EXCEPT ![broadcast.id] =
                      [resident |-> broadcast.resident,
                       existing |-> broadcast.existing,
                       failures |-> broadcast.failures]]
    /\ Answer(broadcast.caller)
    /\ broadcast' = None
    /\ UNCHANGED <<directory, commands, serving, loop, owned, mailbox>>

RefuseUnknown ==
    /\ serving # None /\ serving.op = "unregister"
    /\ byInstance[serving.id] = None
    /\ Refuse
    /\ UNCHANGED nextId

\* The write-lock section of a removal.
Remove ==
    /\ serving # None /\ serving.op = "unregister"
    /\ LET i == serving.id
           k == byInstance[i]
       IN /\ k # None
          /\ byInstance' = [byInstance EXCEPT ![i] = None]
          /\ residents' = [residents EXCEPT ![k] = None]
          /\ instances' = [instances EXCEPT ![i] = None]
    /\ Answer(serving.caller)
    /\ serving' = None
    /\ UNCHANGED <<nextId, commands, broadcast, loop, owned, mailbox, receipts>>

Handle == \/ RefuseStored \/ RefuseExhausted \/ RefuseDuplicate \/ Admit
          \/ Notify \/ FinishRegister \/ RefuseUnknown \/ Remove

----------------------------------------------------------------------------
\* The last strong Arc<Rdf> outside the loop is dropped.
ReleaseOwner ==
    /\ owned
    /\ owned' = FALSE
    /\ UNCHANGED <<directory, commands, serving, broadcast, loop, call, mailbox,
                   receipts>>

\* Rdf is gone: the loop breaks, and its receiver drops the queued commands
\* with their oneshot senders.
EndLoop ==
    /\ loop = "running"
    /\ UpgradeFails
    /\ loop' = "ended"
    /\ commands' = <<>>
    /\ call' = Unavailable
    /\ UNCHANGED <<directory, serving, broadcast, owned, mailbox, receipts>>

Loop == Receive \/ Handle \/ EndLoop

Next ==
    \/ \E c \in Callers : Register(c) \/ Unregister(c) \/ Abandon(c)
    \/ Loop
    \/ ReleaseOwner

SafetySpec == Init /\ [][Next]_vars

\* The loop is a task of a running Tokio runtime: it is polled while it can
\* make progress.  Nobody is obliged to call, and the harness may live forever.
Spec == SafetySpec /\ WF_vars(Loop)

----------------------------------------------------------------------------
\* The directory seen from outside: which object holds which id.
Live == {[id |-> i, resident |-> instances[i]] : i \in {j \in Ids : Registered(j)}}

Abstract == INSTANCE Directory WITH issued <- nextId, live <- Live

\* Whatever the channel, the loop and the broadcast do, the directory changes
\* only by entering a free name under a fresh id, burning an id on a taken
\* name, or removing one registration.
ImplementsDirectory == Abstract!DirectorySpec

Waiting(c) == call[c] = "waiting"

\* Every variable stays in its domain, and the ids in use are issued ids.
TypeOK ==
    /\ nextId \in 0..IdLimit
    /\ instances \in [Ids -> Residents \cup {None}]
    /\ byInstance \in [Ids -> Keys \cup {None}]
    /\ residents \in [Keys -> RegistrationRecord \cup {None}]
    /\ commands \in Seq(Commands)
    /\ serving \in Commands \cup {None}
    /\ broadcast \in Broadcasts \cup {None}
    /\ loop \in {"running", "ended"}
    /\ owned \in BOOLEAN
    /\ call \in [Callers -> {"idle", "waiting", "PipelineUnavailable"}]
    /\ mailbox \in [Residents -> Seq(Ids)]
    /\ receipts \in [Ids -> Receipts \cup {None}]

\* "A RegistrationRecord(instance_id) exists iff the store holds that instance"
\* (ARCHITECTURE 5): the store, the by_instance index and the name directory
\* never disagree, whatever order commands of different callers run in, so the
\* two .expect(...) of unregister_resident and resolve_route cannot panic.
DirectoryConsistent ==
    /\ \A i \in Ids : instances[i] = None <=> byInstance[i] = None
    /\ \A i \in Ids : instances[i] # None =>
          /\ i <= nextId
          /\ byInstance[i] = KeyOf[instances[i]]
          /\ residents[byInstance[i]] = [id |-> i, mailbox |-> instances[i]]
    /\ \A k \in Keys : residents[k] # None => byInstance[residents[k].id] = k

\* One object is never registered twice at the same time, although the check
\* (ptr_eq over the store) and the insertion are separate store calls.
StoredOnce ==
    \A i, j \in Ids : Registered(i) /\ instances[i] = instances[j] => i = j

\* The announced id is in r's mailbox.
Heard(r, i) == \E n \in DOMAIN mailbox[r] : mailbox[r][n] = i

\* The broadcast in progress is about the newest registration and nobody else's
\* command runs beside it; every earlier Resident is in the receipt to be, and
\* either still to be told, or told, or noted as a failure.  The targets, copied
\* under the lock, are still the directory's own records.
AnnouncementConsistent ==
    /\ \A i \in Ids : receipts[i] # None => i <= nextId
    /\ broadcast # None =>
         /\ serving = None
         /\ broadcast.id = nextId
         /\ instances[nextId] = broadcast.resident
         /\ receipts[nextId] = None
         /\ \A t \in broadcast.targets : residents[KeyOf[t.mailbox]] = t
         /\ \A i \in Ids : Registered(i) /\ i < nextId =>
              /\ byInstance[i] \in broadcast.existing
              /\ \/ residents[byInstance[i]] \in broadcast.targets
                 \/ byInstance[i] \in broadcast.failures
                 \/ Heard(instances[i], nextId)

\* Register's promise to both sides: of two Residents that are registered, the
\* later one found the earlier in its receipt, and the earlier one either has
\* the later one's notice or is in the receipt's failures.  No pair misses
\* each other however registrations, removals and re-registrations interleave.
MutualAwareness ==
    \A i, j \in Ids :
      Registered(i) /\ Registered(j) /\ i < j /\ receipts[j] # None =>
        /\ byInstance[i] \in receipts[j].existing
        /\ byInstance[i] \in receipts[j].failures \/ Heard(instances[i], j)

\* An instance id is registered at most once in the life of the process: an id
\* that enters the store was never issued before, burnt or removed ids included.
IdsNeverReused ==
    [][\A i \in Ids : ~Registered(i) /\ Registered(i)' => nextId < i]_vars

\* The broadcast copied its mailboxes under the lock and delivers after it; all
\* the same a notice only reaches a Resident that is still registered, and only
\* while the announced Resident is.
NoticeWhileRegistered ==
    [][\A r \in Residents : mailbox'[r] # mailbox[r] =>
          /\ residents[KeyOf[r]] # None /\ residents[KeyOf[r]].mailbox = r
          /\ Registered(mailbox'[r][Len(mailbox'[r])])]_vars

\* PipelineUnavailable is only answered once RDF is gone, so a registration that
\* RDF carried out is never reported as if the pipeline had been down.
UnavailableMeansGone ==
    [][\A c \in Callers :
          call[c] # call'[c] /\ call'[c] = "PipelineUnavailable" =>
            ~RdfAlive /\ ~RdfAlive']_vars

\* Every register or unregister call returns, also when the harness is dropped
\* before, while or after its command is taken off the channel.
CallsReturn == \A c \in Callers : Waiting(c) ~> ~Waiting(c)
============================================================================
