----------------------------- MODULE RdfProofs -----------------------------
(***************************************************************************)
(* Proofs about Rdf, for every set of Residents, names and callers and      *)
(* every largest id.  The inductive invariant is TypeOK together with       *)
(* DirectoryConsistent; the rest follows from it.                           *)
(***************************************************************************)
EXTENDS Rdf, TLAPS

USE KeyOfAssumption, IdLimitAssumption, NoneAssumption
USE DEF CanReserve, Reserved, NameFree, Remaining, FailuresWith, Unavailable, UpgradeFails

----------------------------------------------------------------------------
\* Queueing a command, or failing to, keeps the types.
LEMMA SubmitStep ==
  ASSUME TypeOK, NEW c \in Callers, NEW command \in Commands, Submit(c, command)
  PROVE  TypeOK'
<1> USE DEF Submit, directory
<1>1. call' \in [Callers -> {"idle", "waiting", "PipelineUnavailable"}]
  BY DEF TypeOK
<1>2. commands' \in Seq(Commands)
  <2>1. commands' = Append(commands, command) \/ commands' = commands
    OBVIOUS
  <2>2. commands \in Seq(Commands)
    BY DEF TypeOK
  <2>3. QED
    BY <2>1, <2>2
<1>3. QED
  BY <1>1, <1>2 DEF TypeOK

\* Every step of RDF keeps every variable in its domain.
LEMMA TypeStep == TypeOK /\ [Next]_vars => TypeOK'
<1> SUFFICES ASSUME TypeOK, [Next]_vars PROVE TypeOK'
  OBVIOUS
<1> USE DEF TypeOK, Ids, directory
<1>1. ASSUME NEW c \in Callers, Register(c) PROVE TypeOK'
  <2>1. PICK r \in Residents : Submit(c, Registering(c, r))
    BY <1>1 DEF Register
  <2>2. Registering(c, r) \in Commands
    BY DEF Registering, Commands
  <2>3. QED
    BY <2>1, <2>2, SubmitStep
<1>2. ASSUME NEW c \in Callers, Unregister(c) PROVE TypeOK'
  <2>1. PICK i \in Ids : Submit(c, Unregistering(c, i))
    BY <1>2 DEF Unregister, Disclosed
  <2>2. Unregistering(c, i) \in Commands
    BY DEF Unregistering, Commands
  <2>3. QED
    BY <2>1, <2>2, SubmitStep
<1>3. ASSUME NEW c \in Callers, Abandon(c) PROVE TypeOK'
  BY <1>3 DEF Abandon
<1>4. CASE Receive
  <2>1. commands \in Seq(Commands) /\ commands # <<>>
    BY <1>4 DEF Receive
  <2>2. serving' \in Commands /\ commands' \in Seq(Commands)
    BY <1>4, <2>1 DEF Receive
  <2>3. QED
    BY <1>4, <2>2 DEF Receive
<1>5. CASE RefuseStored \/ RefuseExhausted \/ RefuseUnknown
  BY <1>5 DEF RefuseStored, RefuseExhausted, RefuseUnknown, Refuse, Answer
<1>6. CASE RefuseDuplicate
  <2>1. nextId' \in 0..IdLimit
    BY <1>6 DEF RefuseDuplicate
  <2>2. QED
    BY <1>6, <2>1 DEF RefuseDuplicate, Refuse, Answer
<1>7. CASE Admit
  <2> DEFINE r == serving.resident
             k == KeyOf[r]
             i == nextId + 1
             present == {n \in Keys : residents[n] # None}
  <2>1. r \in Residents /\ k \in Keys /\ i \in Ids /\ serving.caller \in Callers
    BY <1>7 DEF Admit, Commands
  <2>2. {residents[n] : n \in present} \in SUBSET RegistrationRecord
    OBVIOUS
  <2>3. broadcast' \in Broadcasts
    BY <1>7, <2>1, <2>2 DEF Admit, Broadcasts
  <2>4. [id |-> i, mailbox |-> r] \in RegistrationRecord
    BY <2>1 DEF RegistrationRecord
  <2>5. nextId' \in 0..IdLimit
    BY <1>7 DEF Admit
  <2>6. /\ instances' \in [Ids -> Residents \cup {None}]
        /\ byInstance' \in [Ids -> Keys \cup {None}]
        /\ residents' \in [Keys -> RegistrationRecord \cup {None}]
    BY <1>7, <2>1, <2>4 DEF Admit
  <2>7. QED
    BY <1>7, <2>3, <2>5, <2>6 DEF Admit
<1>8. CASE Notify
  <2>1. PICK t \in broadcast.targets :
         \/ /\ mailbox' = [mailbox EXCEPT ![t.mailbox] = Append(@, broadcast.id)]
            /\ broadcast' = [broadcast EXCEPT !.targets = @ \ {t}]
         \/ /\ broadcast' = [broadcast EXCEPT !.targets = @ \ {t},
                                              !.failures = @ \cup {KeyOf[t.mailbox]}]
            /\ UNCHANGED mailbox
    BY <1>8 DEF Notify
  <2>2. broadcast \in Broadcasts
    BY <1>8 DEF Notify
  <2>3. /\ broadcast.id \in Ids
        /\ t.mailbox \in Residents
        /\ KeyOf[t.mailbox] \in Keys
    BY <2>1, <2>2 DEF Broadcasts, RegistrationRecord
  <2>4. broadcast' \in Broadcasts
    <3>1. CASE broadcast' = [broadcast EXCEPT !.targets = @ \ {t}]
      BY <2>2, <3>1 DEF Broadcasts
    <3>2. CASE broadcast' = [broadcast EXCEPT !.targets = @ \ {t},
                                              !.failures = @ \cup {KeyOf[t.mailbox]}]
      BY <2>2, <2>3, <3>2 DEF Broadcasts
    <3>3. QED
      BY <2>1, <3>1, <3>2
  <2>5. mailbox' \in [Residents -> Seq(Ids)]
    <3>1. mailbox[t.mailbox] \in Seq(Ids)
      BY <2>3
    <3>2. Append(mailbox[t.mailbox], broadcast.id) \in Seq(Ids)
      BY <2>3, <3>1
    <3>3. QED
      BY <2>1, <2>3, <3>2
  <2>6. QED
    BY <1>8, <2>4, <2>5 DEF Notify
<1>9. CASE FinishRegister
  <2>1. /\ broadcast.id \in Ids
        /\ broadcast.resident \in Residents
        /\ broadcast.existing \in SUBSET Keys
        /\ broadcast.failures \in SUBSET Keys
    BY <1>9 DEF FinishRegister, Broadcasts
  <2>2. QED
    BY <1>9, <2>1 DEF FinishRegister, Answer, Receipts
<1>10. CASE Remove
  BY <1>10 DEF Remove, Answer, Commands
<1>11. CASE EndLoop
  BY <1>11 DEF EndLoop
<1>12. CASE ReleaseOwner
  BY <1>12 DEF ReleaseOwner
<1>13. CASE UNCHANGED vars
  BY <1>13 DEF vars
<1> QED
  BY <1>1, <1>2, <1>3, <1>4, <1>5, <1>6, <1>7, <1>8, <1>9, <1>10, <1>11, <1>12, <1>13
     DEF Next, Loop, Handle

\* RDF's state is well typed in every behaviour.
THEOREM TypeCorrect == SafetySpec => []TypeOK
<1>1. Init => TypeOK
  BY DEF Init, TypeOK, Ids
<1>2. QED
  BY <1>1, TypeStep, PTL DEF SafetySpec

----------------------------------------------------------------------------
\* The steps of RDF that touch no index and no id.
Elsewhere ==
    \/ \E c \in Callers : Register(c) \/ Unregister(c) \/ Abandon(c)
    \/ Receive \/ RefuseStored \/ RefuseExhausted \/ RefuseUnknown
    \/ Notify \/ FinishRegister \/ EndLoop \/ ReleaseOwner
    \/ UNCHANGED vars

\* Only three actions change the directory or burn an id.
LEMMA StepCases ==
  ASSUME [Next]_vars
  PROVE  Admit \/ Remove \/ RefuseDuplicate \/ Elsewhere
BY DEF Next, Loop, Handle, Elsewhere

\* A step that is none of the three leaves the three indexes and the counter alone.
LEMMA ElsewhereKeeps ==
  ASSUME Elsewhere
  PROVE  UNCHANGED <<nextId, instances, byInstance, residents>>
BY DEF Elsewhere, Register, Unregister, Submit, Abandon, Receive, RefuseStored,
       RefuseExhausted, RefuseUnknown, Refuse, Notify, FinishRegister, EndLoop,
       ReleaseOwner, directory, vars

\* The three indexes change together: the invariant of ARCHITECTURE 5.
LEMMA ConsistentStep ==
  TypeOK /\ DirectoryConsistent /\ [Next]_vars => DirectoryConsistent'
<1> SUFFICES ASSUME TypeOK, DirectoryConsistent, [Next]_vars
             PROVE  DirectoryConsistent'
  OBVIOUS
<1> USE DEF Ids
<1>1. CASE Admit
  <2> DEFINE r == serving.resident
             k == KeyOf[r]
             new == nextId + 1
  <2>1. r \in Residents /\ k \in Keys /\ new \in Ids
    BY <1>1 DEF TypeOK, Admit, Commands
  <2>2. /\ residents[k] = None
        /\ nextId' = new
        /\ instances' = [instances EXCEPT ![new] = r]
        /\ byInstance' = [byInstance EXCEPT ![new] = k]
        /\ residents' = [residents EXCEPT ![k] = [id |-> new, mailbox |-> r]]
    BY <1>1 DEF Admit
  <2>3. /\ instances \in [Ids -> Residents \cup {None}]
        /\ byInstance \in [Ids -> Keys \cup {None}]
        /\ residents \in [Keys -> RegistrationRecord \cup {None}]
        /\ nextId \in Nat
    BY DEF TypeOK
  <2>4. \A i \in Ids : instances'[i] = None <=> byInstance'[i] = None
    BY <2>1, <2>2, <2>3 DEF DirectoryConsistent
  <2>5. ASSUME NEW i \in Ids, instances'[i] # None
        PROVE  /\ i <= nextId'
               /\ byInstance'[i] = KeyOf[instances'[i]]
               /\ residents'[byInstance'[i]] = [id |-> i, mailbox |-> instances'[i]]
    <3>1. CASE i = new
      BY <2>1, <2>2, <2>3, <3>1
    <3>2. CASE i # new
      <4>1. /\ instances'[i] = instances[i]
            /\ byInstance'[i] = byInstance[i]
        BY <2>2, <2>3, <3>2
      <4>2. /\ i <= nextId
            /\ byInstance[i] = KeyOf[instances[i]]
            /\ residents[byInstance[i]] = [id |-> i, mailbox |-> instances[i]]
            /\ instances[i] \in Residents
        BY <2>3, <2>5, <4>1 DEF DirectoryConsistent
      <4>3. residents[byInstance[i]] # None /\ byInstance[i] \in Keys
        BY <2>3, <2>5, <4>1, <4>2 DEF DirectoryConsistent, RegistrationRecord
      <4>4. byInstance[i] # k
        BY <2>2, <4>3
      <4>5. residents'[byInstance[i]] = residents[byInstance[i]]
        BY <2>2, <2>3, <4>3, <4>4
      <4>6. QED
        BY <2>1, <2>2, <2>3, <4>1, <4>2, <4>5
    <3>3. QED
      BY <3>1, <3>2
  <2>6. ASSUME NEW n \in Keys, residents'[n] # None
        PROVE  byInstance'[residents'[n].id] = n
    <3>1. CASE n = k
      BY <2>1, <2>2, <2>3, <3>1
    <3>2. CASE n # k
      <4>1. residents'[n] = residents[n]
        BY <2>2, <2>3, <3>2
      <4>2. residents[n].id \in Ids /\ byInstance[residents[n].id] = n
        BY <2>3, <2>6, <4>1 DEF DirectoryConsistent, RegistrationRecord
      <4>3. residents[n].id # new
        <5>1. instances[residents[n].id] # None
          BY <4>2 DEF DirectoryConsistent
        <5>2. residents[n].id <= nextId
          BY <4>2, <5>1 DEF DirectoryConsistent
        <5>3. nextId \in Nat /\ residents[n].id \in Nat
          BY <2>3, <4>2
        <5>4. QED
          BY <5>2, <5>3
      <4>4. QED
        BY <2>2, <2>3, <4>1, <4>2, <4>3
    <3>3. QED
      BY <3>1, <3>2
  <2>7. QED
    BY <2>4, <2>5, <2>6 DEF DirectoryConsistent
<1>2. CASE Remove
  <2> DEFINE old == serving.id
             k == byInstance[old]
  <2>1. old \in Ids
    BY <1>2 DEF TypeOK, Remove, Commands
  <2>2. /\ k # None
        /\ byInstance' = [byInstance EXCEPT ![old] = None]
        /\ residents' = [residents EXCEPT ![k] = None]
        /\ instances' = [instances EXCEPT ![old] = None]
        /\ nextId' = nextId
    BY <1>2 DEF Remove
  <2>3. /\ instances \in [Ids -> Residents \cup {None}]
        /\ byInstance \in [Ids -> Keys \cup {None}]
        /\ residents \in [Keys -> RegistrationRecord \cup {None}]
        /\ k \in Keys
    BY <2>1, <2>2 DEF TypeOK
  <2>4. \A i \in Ids : instances'[i] = None <=> byInstance'[i] = None
    BY <2>1, <2>2, <2>3 DEF DirectoryConsistent
  <2>5. ASSUME NEW i \in Ids, instances'[i] # None
        PROVE  /\ i <= nextId'
               /\ byInstance'[i] = KeyOf[instances'[i]]
               /\ residents'[byInstance'[i]] = [id |-> i, mailbox |-> instances'[i]]
    <3>1. i # old
      BY <2>1, <2>2, <2>3, <2>5
    <3>2. instances'[i] = instances[i] /\ byInstance'[i] = byInstance[i]
      BY <2>2, <2>3, <3>1
    <3>3. /\ i <= nextId
          /\ byInstance[i] = KeyOf[instances[i]]
          /\ residents[byInstance[i]] = [id |-> i, mailbox |-> instances[i]]
          /\ byInstance[i] \in Keys
      BY <2>3, <2>5, <3>2 DEF DirectoryConsistent
    <3>4. residents[k].id = old
      <4>1. instances[old] # None
        BY <2>1, <2>2 DEF DirectoryConsistent
      <4>2. residents[k] = [id |-> old, mailbox |-> instances[old]]
        BY <2>1, <4>1 DEF DirectoryConsistent
      <4>3. QED
        BY <4>2
    <3>5. byInstance[i] # k
      BY <3>1, <3>3, <3>4
    <3>6. QED
      BY <2>2, <2>3, <3>2, <3>3, <3>5
  <2>6. ASSUME NEW n \in Keys, residents'[n] # None
        PROVE  byInstance'[residents'[n].id] = n
    <3>1. n # k /\ residents'[n] = residents[n]
      BY <2>2, <2>3, <2>6
    <3>2. residents[n].id \in Ids /\ byInstance[residents[n].id] = n
      BY <2>3, <2>6, <3>1 DEF DirectoryConsistent, RegistrationRecord
    <3>3. QED
      BY <2>2, <2>3, <3>1, <3>2
  <2>7. QED
    BY <2>4, <2>5, <2>6 DEF DirectoryConsistent
<1>3. CASE RefuseDuplicate
  <2>1. nextId' = nextId + 1 /\ UNCHANGED <<instances, byInstance, residents>>
    BY <1>3 DEF RefuseDuplicate, Refuse
  <2>2. nextId \in Nat
    BY DEF TypeOK
  <2>3. \A i \in Ids : i <= nextId => i <= nextId'
    BY <2>1, <2>2
  <2>4. QED
    BY <2>1, <2>3 DEF DirectoryConsistent
<1>4. CASE Elsewhere
  BY <1>4, ElsewhereKeeps DEF DirectoryConsistent
<1>5. QED
  BY <1>1, <1>2, <1>3, <1>4, StepCases

\* The store and the two indexes of the directory agree in every behaviour.
THEOREM DirectoryCorrect == SafetySpec => []DirectoryConsistent
<1>1. Init => DirectoryConsistent
  BY DEF Init, DirectoryConsistent, Ids
<1>2. QED
  BY <1>1, ConsistentStep, TypeCorrect, PTL DEF SafetySpec

\* No object is in the store twice: two ids of one object would share a name,
\* and the directory has one record per name.
THEOREM StoredOnceCorrect == SafetySpec => []StoredOnce
<1>1. TypeOK /\ DirectoryConsistent => StoredOnce
  <2> SUFFICES ASSUME TypeOK, DirectoryConsistent,
                      NEW i \in Ids, NEW j \in Ids,
                      Registered(i), instances[i] = instances[j]
               PROVE  i = j
    BY DEF StoredOnce
  <2>1. /\ residents[byInstance[i]] = [id |-> i, mailbox |-> instances[i]]
        /\ residents[byInstance[j]] = [id |-> j, mailbox |-> instances[j]]
        /\ byInstance[i] = byInstance[j]
    BY DEF DirectoryConsistent, Registered
  <2>2. QED
    BY <2>1
<1>2. QED
  BY <1>1, TypeCorrect, DirectoryCorrect, PTL

----------------------------------------------------------------------------
\* An id enters the store in Admit only, as the successor of the last one.
THEOREM IdsNeverReusedCorrect == SafetySpec => IdsNeverReused
<1>1. TypeOK /\ [Next]_vars =>
        \A i \in Ids : ~Registered(i) /\ Registered(i)' => nextId < i
  <2> SUFFICES ASSUME TypeOK, [Next]_vars, NEW i \in Ids, ~Registered(i), Registered(i)'
               PROVE  nextId < i
    OBVIOUS
  <2>1. CASE Admit
    <3>1. instances' = [instances EXCEPT ![nextId + 1] = serving.resident]
      BY <2>1 DEF Admit
    <3>2. i = nextId + 1 /\ nextId \in Nat
      BY <3>1 DEF TypeOK, Registered
    <3>3. QED
      BY <3>2
  <2>2. CASE Remove
    BY <2>2 DEF Remove, TypeOK, Registered
  <2>3. CASE RefuseDuplicate \/ Elsewhere
    BY <2>3, ElsewhereKeeps DEF RefuseDuplicate, Refuse, Registered
  <2>4. QED
    BY <2>1, <2>2, <2>3, StepCases
<1>2. QED
  BY <1>1, TypeCorrect, PTL DEF SafetySpec, IdsNeverReused

\* RDF implements the abstract directory: each of the three actions that change
\* the indexes is a step of it, every other action stutters.
THEOREM DirectoryRefined == SafetySpec => ImplementsDirectory
<1>1. Init => Abstract!DirectoryInit
  BY DEF Init, Abstract!DirectoryInit, Live, Registered, Ids
<1>2. TypeOK /\ DirectoryConsistent /\ [Next]_vars => [Abstract!DirectoryNext]_(Abstract!dvars)
  <2> SUFFICES ASSUME TypeOK, DirectoryConsistent, [Next]_vars
               PROVE  Abstract!DirectoryNext \/ UNCHANGED <<nextId, Live>>
    BY DEF Abstract!dvars
  <2> USE DEF Ids
  <2>1. CASE Admit
    <3> DEFINE r == serving.resident
               new == nextId + 1
    <3>1. r \in Residents /\ new \in Ids /\ nextId < IdLimit
      BY <2>1 DEF TypeOK, Admit, Commands
    <3>2. residents[KeyOf[r]] = None /\ nextId' = new
      BY <2>1 DEF Admit
    <3>3. instances' = [instances EXCEPT ![new] = r]
      BY <2>1 DEF Admit
    <3>4. ~Abstract!NameTaken(r)
      <4> SUFFICES ASSUME NEW i \in Ids, Registered(i), KeyOf[instances[i]] = KeyOf[r]
                   PROVE  FALSE
        BY DEF Abstract!NameTaken, Live
      <4>1. residents[KeyOf[instances[i]]] = [id |-> i, mailbox |-> instances[i]]
        BY DEF DirectoryConsistent, Registered
      <4>2. instances[i] \in Residents
        BY DEF TypeOK, Registered
      <4>3. [id |-> i, mailbox |-> instances[i]] \in RegistrationRecord
        BY <4>2 DEF RegistrationRecord
      <4>4. QED
        BY <3>2, <4>1, <4>3
    <3>5. Live' = Live \cup {[id |-> new, resident |-> r]}
      <4>1. instances \in [Ids -> Residents \cup {None}]
        BY DEF TypeOK
      <4>2. \A i \in Ids : instances'[i] = IF i = new THEN r ELSE instances[i]
        BY <3>3, <4>1
      <4>3. \A i \in Ids : Registered(i)' <=> i = new \/ Registered(i)
        BY <3>1, <4>2 DEF Registered
      <4>4. instances[new] = None
        <5>1. nextId \in Nat /\ ~(nextId + 1 <= nextId)
          BY DEF TypeOK
        <5>2. instances[new] # None => new <= nextId
          BY <3>1 DEF DirectoryConsistent
        <5>3. QED
          BY <5>1, <5>2
      <4>5. ~Registered(new)
        BY <4>4 DEF Registered
      <4>6. ASSUME NEW e \in Live' PROVE e \in Live \cup {[id |-> new, resident |-> r]}
        BY <4>2, <4>3, <4>6 DEF Live
      <4>7. ASSUME NEW e \in Live \cup {[id |-> new, resident |-> r]} PROVE e \in Live'
        BY <3>1, <4>2, <4>3, <4>5, <4>7 DEF Live
      <4>8. QED
        BY <4>6, <4>7
    <3>6. Abstract!Enter(r)
      BY <3>1, <3>2, <3>4, <3>5 DEF Abstract!Enter
    <3>7. QED
      BY <3>1, <3>6 DEF Abstract!DirectoryNext
  <2>2. CASE Remove
    <3> DEFINE old == serving.id
               gone == [id |-> old, resident |-> instances[old]]
    <3>1. old \in Ids /\ byInstance[old] # None /\ nextId' = nextId
      BY <2>2 DEF TypeOK, Remove, Commands
    <3>2. Registered(old) /\ gone \in Live
      BY <3>1 DEF DirectoryConsistent, Registered, Live
    <3>3. instances' = [instances EXCEPT ![old] = None]
      BY <2>2 DEF Remove
    <3>4. \A i \in Ids : instances'[i] = IF i = old THEN None ELSE instances[i]
      BY <3>3 DEF TypeOK
    <3>5. \A i \in Ids : Registered(i)' <=> i # old /\ Registered(i)
      BY <3>4 DEF Registered
    <3>6. Live' = Live \ {gone}
      <4>1. ASSUME NEW e \in Live' PROVE e \in Live \ {gone}
        BY <3>4, <3>5, <4>1 DEF Live
      <4>2. ASSUME NEW e \in Live \ {gone} PROVE e \in Live'
        BY <3>4, <3>5, <4>2 DEF Live
      <4>3. QED
        BY <4>1, <4>2
    <3>7. Abstract!Leave(gone)
      BY <3>1, <3>6 DEF Abstract!Leave
    <3>8. QED
      BY <3>2, <3>7 DEF Abstract!DirectoryNext
  <2>3. CASE RefuseDuplicate
    <3> DEFINE r == serving.resident
               k == KeyOf[r]
               i == residents[k].id
    <3>1. /\ r \in Residents /\ k \in Keys /\ residents[k] # None
          /\ nextId < IdLimit /\ nextId' = nextId + 1 /\ instances' = instances
      BY <2>3 DEF TypeOK, RefuseDuplicate, Refuse, Commands
    <3>2. i \in Ids /\ byInstance[i] = k
      BY <3>1 DEF TypeOK, DirectoryConsistent, RegistrationRecord
    <3>3. Registered(i) /\ KeyOf[instances[i]] = k
      BY <3>1, <3>2 DEF DirectoryConsistent, Registered
    <3>4. [id |-> i, resident |-> instances[i]] \in Live
      BY <3>2, <3>3 DEF Live
    <3>5. Abstract!NameTaken(r)
      BY <3>3, <3>4 DEF Abstract!NameTaken
    <3>6. Live' = Live
      BY <3>1 DEF Live, Registered
    <3>7. QED
      BY <3>1, <3>5, <3>6 DEF Abstract!DirectoryNext, Abstract!Burn
  <2>4. CASE Elsewhere
    BY <2>4, ElsewhereKeeps DEF Live, Registered
  <2>5. QED
    BY <2>1, <2>2, <2>3, <2>4, StepCases
<1>3. QED
  BY <1>1, <1>2, TypeCorrect, DirectoryCorrect, PTL
     DEF SafetySpec, ImplementsDirectory, Abstract!DirectorySpec

----------------------------------------------------------------------------
Has(s, i) == \E n \in DOMAIN s : s[n] = i

\* A mailbox that grows holds what it held, and the new entry.
LEMMA AppendHas ==
  ASSUME NEW s \in Seq(Ids), NEW x \in Ids
  PROVE  /\ Has(Append(s, x), x)
         /\ \A i : Has(s, i) => Has(Append(s, x), i)
<1>1. Len(s) + 1 \in DOMAIN Append(s, x) /\ Append(s, x)[Len(s) + 1] = x
  OBVIOUS
<1>2. ASSUME NEW i, NEW n \in DOMAIN s, s[n] = i
      PROVE  n \in DOMAIN Append(s, x) /\ Append(s, x)[n] = i
  BY <1>2
<1>3. QED
  BY <1>1, <1>2 DEF Has

IndInv == TypeOK /\ DirectoryConsistent /\ AnnouncementConsistent

\* The broadcast loses nobody: each kind of step keeps AnnouncementConsistent.
LEMMA AnnouncementStep == IndInv /\ [Next]_vars => AnnouncementConsistent'
<1> SUFFICES ASSUME TypeOK, DirectoryConsistent, AnnouncementConsistent, [Next]_vars
             PROVE  AnnouncementConsistent'
  BY DEF IndInv
<1>0. nextId \in Nat
  BY DEF TypeOK
<1>1. CASE Admit
  <2> DEFINE r == serving.resident
             k == KeyOf[r]
             new == nextId + 1
             present == {n \in Keys : residents[n] # None}
  <2>1. r \in Residents /\ k \in Keys /\ new \in Ids
    BY <1>1 DEF TypeOK, Admit, Commands, Ids
  <2>2. /\ residents[k] = None
        /\ nextId' = new
        /\ instances' = [instances EXCEPT ![new] = r]
        /\ byInstance' = [byInstance EXCEPT ![new] = k]
        /\ residents' = [residents EXCEPT ![k] = [id |-> new, mailbox |-> r]]
        /\ broadcast' = [caller |-> serving.caller, id |-> new, resident |-> r,
                         existing |-> present,
                         targets |-> {residents[n] : n \in present},
                         failures |-> {}]
        /\ serving' = None
        /\ UNCHANGED <<mailbox, receipts>>
    BY <1>1 DEF Admit
  <2>3. /\ instances \in [Ids -> Residents \cup {None}]
        /\ byInstance \in [Ids -> Keys \cup {None}]
        /\ residents \in [Keys -> RegistrationRecord \cup {None}]
    BY DEF TypeOK
  <2>4. \A i \in Ids : receipts'[i] # None => i <= nextId'
    BY <1>0, <2>2 DEF AnnouncementConsistent, Ids
  <2>5. receipts'[new] = None
    BY <1>0, <2>1, <2>2 DEF AnnouncementConsistent
  <2>6. /\ broadcast'.id = nextId'
        /\ instances'[nextId'] = broadcast'.resident
    BY <2>1, <2>2, <2>3
  <2>7. ASSUME NEW t \in broadcast'.targets
        PROVE  residents'[KeyOf[t.mailbox]] = t
    <3>1. PICK n \in present : t = residents[n]
      BY <2>2
    <3>2. t \in RegistrationRecord /\ byInstance[t.id] = n
      BY <2>3, <3>1 DEF DirectoryConsistent
    <3>3. t.id \in Ids /\ byInstance[t.id] # None
      BY <3>1, <3>2 DEF RegistrationRecord
    <3>4. instances[t.id] # None
      BY <3>3 DEF DirectoryConsistent
    <3>5. residents[n] = [id |-> t.id, mailbox |-> instances[t.id]] /\ KeyOf[instances[t.id]] = n
      BY <3>2, <3>3, <3>4 DEF DirectoryConsistent
    <3>6. KeyOf[t.mailbox] = n
      BY <3>1, <3>5
    <3>7. n # k
      BY <2>2, <3>1
    <3>8. QED
      BY <2>1, <2>2, <2>3, <3>1, <3>6, <3>7
  <2>8. ASSUME NEW i \in Ids, Registered(i)', i < nextId'
        PROVE  /\ byInstance'[i] \in broadcast'.existing
               /\ residents'[byInstance'[i]] \in broadcast'.targets
    <3>1. i # new
      BY <1>0, <2>2, <2>8 DEF Ids
    <3>2. instances'[i] = instances[i] /\ byInstance'[i] = byInstance[i]
      BY <2>2, <2>3, <3>1
    <3>3. instances[i] # None /\ byInstance[i] # None
      BY <2>8, <3>2 DEF Registered, DirectoryConsistent
    <3>4. residents[byInstance[i]] = [id |-> i, mailbox |-> instances[i]]
          /\ byInstance[i] \in Keys /\ instances[i] \in Residents
      BY <2>3, <3>3 DEF DirectoryConsistent
    <3>5. residents[byInstance[i]] # None
      BY <3>4 DEF RegistrationRecord
    <3>6. byInstance[i] \in present /\ byInstance[i] # k
      BY <2>2, <3>4, <3>5
    <3>7. residents'[byInstance[i]] = residents[byInstance[i]]
      BY <2>2, <2>3, <3>6
    <3>8. QED
      BY <2>2, <3>2, <3>6, <3>7
  <2>9. QED
    BY <2>2, <2>4, <2>5, <2>6, <2>7, <2>8 DEF AnnouncementConsistent
<1>2. CASE Remove
  <2>1. serving # None /\ UNCHANGED <<nextId, broadcast, receipts>>
    BY <1>2 DEF Remove
  <2>2. broadcast' = None
    BY <2>1 DEF AnnouncementConsistent
  <2>3. QED
    BY <2>1, <2>2 DEF AnnouncementConsistent
<1>3. CASE RefuseDuplicate
  <2>1. serving # None /\ nextId' = nextId + 1 /\ UNCHANGED <<broadcast, receipts>>
    BY <1>3 DEF RefuseDuplicate, Refuse
  <2>2. broadcast' = None
    BY <2>1 DEF AnnouncementConsistent
  <2>3. \A i \in Ids : receipts'[i] # None => i <= nextId'
    BY <1>0, <2>1 DEF AnnouncementConsistent, Ids
  <2>4. QED
    BY <2>2, <2>3 DEF AnnouncementConsistent
<1>4. CASE Notify
  <2>1. PICK t \in broadcast.targets :
         \/ /\ mailbox' = [mailbox EXCEPT ![t.mailbox] = Append(@, broadcast.id)]
            /\ broadcast' = [broadcast EXCEPT !.targets = @ \ {t}]
         \/ /\ broadcast' = [broadcast EXCEPT !.targets = @ \ {t},
                                              !.failures = @ \cup {KeyOf[t.mailbox]}]
            /\ UNCHANGED mailbox
    BY <1>4 DEF Notify
  <2>2. /\ broadcast # None /\ broadcast \in Broadcasts
        /\ UNCHANGED <<nextId, instances, byInstance, residents, serving, receipts>>
    BY <1>4 DEF Notify, TypeOK, directory
  <2>3. /\ broadcast'.id = broadcast.id
        /\ broadcast'.resident = broadcast.resident
        /\ broadcast'.existing = broadcast.existing
        /\ broadcast'.targets = broadcast.targets \ {t}
        /\ broadcast.failures \subseteq broadcast'.failures
    BY <2>1, <2>2 DEF Broadcasts
  <2>4. /\ t.mailbox \in Residents /\ broadcast.id \in Ids /\ broadcast.id = nextId
        /\ mailbox \in [Residents -> Seq(Ids)]
    BY <2>1, <2>2 DEF Broadcasts, RegistrationRecord, TypeOK, AnnouncementConsistent
  <2>5. ASSUME NEW i \in Ids, Registered(i), i < nextId
        PROVE  \/ residents[byInstance[i]] \in broadcast'.targets
               \/ byInstance[i] \in broadcast'.failures
               \/ Heard(instances[i], nextId)'
    <3>1. /\ byInstance[i] = KeyOf[instances[i]]
          /\ residents[byInstance[i]] = [id |-> i, mailbox |-> instances[i]]
          /\ instances[i] \in Residents
      BY <2>5 DEF DirectoryConsistent, Registered, TypeOK
    <3>2. \/ residents[byInstance[i]] \in broadcast.targets
          \/ byInstance[i] \in broadcast.failures
          \/ Heard(instances[i], nextId)
      BY <2>2, <2>5 DEF AnnouncementConsistent
    <3>3. CASE residents[byInstance[i]] = t
      <4>1. t.mailbox = instances[i]
        BY <3>1, <3>3
      <4>2. CASE mailbox' = [mailbox EXCEPT ![t.mailbox] = Append(@, broadcast.id)]
        <5>1. mailbox'[t.mailbox] = Append(mailbox[t.mailbox], broadcast.id)
          BY <2>4, <4>2
        <5>2. Has(mailbox'[t.mailbox], broadcast.id)
          BY <2>4, <5>1, AppendHas
        <5>3. QED
          BY <2>2, <2>4, <4>1, <5>2 DEF Has, Heard
      <4>3. CASE broadcast' = [broadcast EXCEPT !.targets = @ \ {t},
                                                !.failures = @ \cup {KeyOf[t.mailbox]}]
        <5>1. broadcast'.failures = broadcast.failures \cup {KeyOf[t.mailbox]}
          BY <2>2, <4>3 DEF Broadcasts
        <5>2. QED
          BY <3>1, <4>1, <5>1
      <4>4. QED
        BY <2>1, <4>2, <4>3
    <3>4. CASE Heard(instances[i], nextId)
      <4>1. CASE mailbox' = [mailbox EXCEPT ![t.mailbox] = Append(@, broadcast.id)]
        <5>1. \/ mailbox'[instances[i]] = mailbox[instances[i]]
              \/ mailbox'[instances[i]] = Append(mailbox[instances[i]], broadcast.id)
          BY <2>4, <3>1, <4>1
        <5>2. Has(mailbox[instances[i]], nextId) /\ mailbox[instances[i]] \in Seq(Ids)
          BY <2>4, <3>1, <3>4 DEF Has, Heard
        <5>3. Has(mailbox'[instances[i]], nextId)
          BY <2>4, <5>1, <5>2, AppendHas
        <5>4. QED
          BY <2>2, <5>3 DEF Has, Heard
      <4>2. CASE UNCHANGED mailbox
        BY <2>2, <3>4, <4>2 DEF Heard
      <4>3. QED
        BY <2>1, <4>1, <4>2
    <3>5. QED
      BY <2>3, <3>2, <3>3, <3>4
  <2>6. QED
    BY <2>2, <2>3, <2>5 DEF AnnouncementConsistent, Registered
<1>5. CASE FinishRegister
  <2>1. /\ broadcast # None /\ broadcast' = None
        /\ UNCHANGED <<nextId, instances, byInstance, residents, serving>>
        /\ \E x : receipts' = [receipts EXCEPT ![broadcast.id] = x]
    BY <1>5 DEF FinishRegister, directory
  <2>2. broadcast.id = nextId
    BY <2>1 DEF AnnouncementConsistent
  <2>3. \A i \in Ids : receipts'[i] # None => i <= nextId
    BY <1>0, <2>1, <2>2 DEF AnnouncementConsistent, TypeOK, Ids
  <2>4. QED
    BY <2>1, <2>3 DEF AnnouncementConsistent
<1>6. CASE Receive
  <2>1. broadcast' = None /\ UNCHANGED <<nextId, receipts>>
    BY <1>6 DEF Receive, directory
  <2>2. QED
    BY <2>1 DEF AnnouncementConsistent
<1>7. CASE \/ \E c \in Callers : Register(c) \/ Unregister(c) \/ Abandon(c)
           \/ RefuseStored \/ RefuseExhausted \/ RefuseUnknown
           \/ EndLoop \/ ReleaseOwner \/ UNCHANGED vars
  <2>1. /\ UNCHANGED <<nextId, instances, byInstance, residents, broadcast, mailbox, receipts>>
        /\ serving' = serving \/ serving' = None
    BY <1>7 DEF Register, Unregister, Submit, Abandon, RefuseStored, RefuseExhausted,
                RefuseUnknown, Refuse, EndLoop, ReleaseOwner, directory, vars
  <2>2. QED
    BY <2>1 DEF AnnouncementConsistent, Registered, Heard
<1>8. QED
  BY <1>1, <1>2, <1>3, <1>4, <1>5, <1>6, <1>7, StepCases DEF Elsewhere

\* The inductive invariant of the broadcast holds in every behaviour.
LEMMA IndInvCorrect == SafetySpec => []IndInv
<1>1. Init => IndInv
  BY DEF Init, IndInv, TypeOK, DirectoryConsistent, AnnouncementConsistent, Ids
<1>2. IndInv /\ [Next]_vars => IndInv'
  BY TypeStep, ConsistentStep, AnnouncementStep DEF IndInv
<1>3. QED
  BY <1>1, <1>2, PTL DEF SafetySpec

----------------------------------------------------------------------------
\* Mutual awareness, unfolded for one pair of ids.
Aware(i, j) ==
  Registered(i) /\ Registered(j) /\ i < j /\ receipts[j] # None =>
    /\ byInstance[i] \in receipts[j].existing
    /\ byInstance[i] \in receipts[j].failures \/ Heard(instances[i], j)

\* A broadcast in progress belongs to the newest registration, and every earlier
\* Resident is still to be told, told, or a noted failure, in every behaviour.
THEOREM AnnouncementCorrect == SafetySpec => []AnnouncementConsistent
<1>1. IndInv => AnnouncementConsistent
  BY DEF IndInv
<1> QED
  BY <1>1, IndInvCorrect, PTL

\* What a pair of registrations knows of each other is never lost: a step that
\* keeps the pair's records and only lets mailboxes grow keeps it.
LEMMA AwareKept ==
  ASSUME IndInv, NEW i \in Ids, NEW j \in Ids, Aware(i, j),
         Registered(i)' /\ Registered(j)' => /\ instances'[i] = instances[i]
                                             /\ instances'[j] = instances[j]
                                             /\ byInstance'[i] = byInstance[i],
         receipts'[j] = receipts[j],
         \A r \in Residents : Has(mailbox[r], j) => Has(mailbox'[r], j)
  PROVE  Aware(i, j)'
<1> SUFFICES ASSUME Registered(i)', Registered(j)', i < j, receipts'[j] # None
             PROVE  /\ byInstance'[i] \in receipts'[j].existing
                    /\ \/ byInstance'[i] \in receipts'[j].failures
                       \/ Heard(instances[i], j)'
  BY DEF Aware, Registered, Heard
<1>1. Registered(i) /\ Registered(j) /\ instances[i] \in Residents
  BY DEF Registered, IndInv, TypeOK
<1>2. /\ byInstance[i] \in receipts[j].existing
      /\ byInstance[i] \in receipts[j].failures \/ Heard(instances[i], j)
  BY <1>1 DEF Aware
<1>3. Heard(instances[i], j) => Has(mailbox'[instances[i]], j)
  BY <1>1 DEF Heard, Has
<1>4. Has(mailbox'[instances[i]], j) => Has(mailbox'[instances'[i]], j)
  BY DEF Registered
<1>5. QED
  BY <1>2, <1>3, <1>4 DEF Heard, Has

\* No step makes a pair of registered Residents miss each other.
LEMMA MutualStep == IndInv /\ MutualAwareness /\ [Next]_vars => MutualAwareness'
<1> SUFFICES ASSUME IndInv, MutualAwareness, [Next]_vars, NEW i \in Ids, NEW j \in Ids
             PROVE  Aware(i, j)'
  BY DEF MutualAwareness, Aware
<1>0. Aware(i, j) /\ nextId \in Nat /\ i \in Nat /\ j \in Nat
  BY DEF MutualAwareness, Aware, IndInv, TypeOK, Ids
<1>1. CASE Admit
  <2>1. /\ instances' = [instances EXCEPT ![nextId + 1] = serving.resident]
        /\ byInstance' = [byInstance EXCEPT ![nextId + 1] = KeyOf[serving.resident]]
        /\ UNCHANGED <<mailbox, receipts>>
        /\ nextId' = nextId + 1
    BY <1>1 DEF Admit
  <2>2. CASE j = nextId + 1
    <3>1. receipts'[j] = None
      BY <1>0, <2>1, <2>2 DEF IndInv, AnnouncementConsistent
    <3>2. QED
      BY <3>1 DEF Aware
  <2>3. CASE i = nextId + 1
    <3>1. Registered(j)' => j <= nextId'
      <4>1. DirectoryConsistent'
        BY ConsistentStep DEF IndInv
      <4>2. QED
        BY <4>1 DEF DirectoryConsistent, Registered
    <3>2. QED
      BY <1>0, <2>1, <2>3, <3>1 DEF Aware
  <2>4. CASE i # nextId + 1 /\ j # nextId + 1
    <3>1. /\ instances'[i] = instances[i]
          /\ instances'[j] = instances[j]
          /\ byInstance'[i] = byInstance[i]
      BY <2>1, <2>4 DEF IndInv, TypeOK
    <3>2. QED
      BY <1>0, <2>1, <3>1, AwareKept
  <2>5. QED
    BY <2>2, <2>3, <2>4
<1>2. CASE Remove
  <2>1. /\ instances' = [instances EXCEPT ![serving.id] = None]
        /\ byInstance' = [byInstance EXCEPT ![serving.id] = None]
        /\ UNCHANGED <<mailbox, receipts>>
    BY <1>2 DEF Remove
  <2>2. Registered(i)' /\ Registered(j)' => /\ instances'[i] = instances[i]
                                            /\ instances'[j] = instances[j]
                                            /\ byInstance'[i] = byInstance[i]
    BY <2>1 DEF IndInv, TypeOK, Registered
  <2>3. QED
    BY <1>0, <2>1, <2>2, AwareKept
<1>3. CASE Notify
  <2>1. PICK t \in broadcast.targets :
          \/ mailbox' = [mailbox EXCEPT ![t.mailbox] = Append(@, broadcast.id)]
          \/ UNCHANGED mailbox
    BY <1>3 DEF Notify
  <2>2. UNCHANGED <<nextId, instances, byInstance, residents, receipts>>
    BY <1>3 DEF Notify, directory
  <2>3. broadcast.id \in Ids /\ mailbox \in [Residents -> Seq(Ids)]
    BY <1>3 DEF Notify, IndInv, TypeOK, Broadcasts
  <2>4. ASSUME NEW r \in Residents, Has(mailbox[r], j) PROVE Has(mailbox'[r], j)
    <3>1. \/ mailbox'[r] = mailbox[r]
          \/ mailbox'[r] = Append(mailbox[r], broadcast.id)
      BY <2>1, <2>3
    <3>2. mailbox[r] \in Seq(Ids)
      BY <2>3
    <3>3. Has(Append(mailbox[r], broadcast.id), j)
      BY <2>3, <2>4, <3>2, AppendHas
    <3>4. QED
      BY <2>4, <3>1, <3>3
  <2>5. QED
    BY <1>0, <2>2, <2>4, AwareKept
<1>4. CASE FinishRegister
  <2>1. /\ broadcast # None /\ broadcast.targets = {}
        /\ receipts' = [receipts EXCEPT ![broadcast.id] =
                          [resident |-> broadcast.resident,
                           existing |-> broadcast.existing,
                           failures |-> broadcast.failures]]
        /\ UNCHANGED <<nextId, instances, byInstance, residents, mailbox>>
    BY <1>4 DEF FinishRegister, directory
  <2>2. CASE j = broadcast.id
    <3>1. j = nextId
      BY <2>1, <2>2 DEF IndInv, AnnouncementConsistent
    <3>2. /\ receipts'[j].existing = broadcast.existing
          /\ receipts'[j].failures = broadcast.failures
      BY <2>1, <2>2 DEF IndInv, TypeOK
    <3>3. Registered(i) /\ i < nextId =>
            /\ byInstance[i] \in broadcast.existing
            /\ byInstance[i] \in broadcast.failures \/ Heard(instances[i], nextId)
      BY <2>1 DEF IndInv, AnnouncementConsistent
    <3>4. QED
      BY <2>1, <3>1, <3>2, <3>3 DEF Aware, Registered, Heard
  <2>3. CASE j # broadcast.id
    <3>1. receipts'[j] = receipts[j]
      BY <2>1, <2>3 DEF IndInv, TypeOK
    <3>2. QED
      BY <1>0, <2>1, <3>1, AwareKept
  <2>4. QED
    BY <2>2, <2>3
<1>5. CASE \/ \E c \in Callers : Register(c) \/ Unregister(c) \/ Abandon(c)
           \/ Receive \/ RefuseStored \/ RefuseExhausted \/ RefuseUnknown
           \/ RefuseDuplicate \/ EndLoop \/ ReleaseOwner \/ UNCHANGED vars
  <2>1. UNCHANGED <<instances, byInstance, mailbox, receipts>>
    BY <1>5 DEF Register, Unregister, Submit, Abandon, Receive, RefuseStored,
                RefuseExhausted, RefuseUnknown, RefuseDuplicate, Refuse, EndLoop,
                ReleaseOwner, directory, vars
  <2>2. QED
    BY <1>0, <2>1, AwareKept
<1>6. QED
  BY <1>1, <1>2, <1>3, <1>4, <1>5, StepCases DEF Elsewhere

\* No two registered Residents ever miss each other.
THEOREM MutualAwarenessCorrect == SafetySpec => []MutualAwareness
<1>1. Init => MutualAwareness
  BY DEF Init, MutualAwareness, Registered
<1>2. QED
  BY <1>1, MutualStep, IndInvCorrect, PTL DEF SafetySpec

\* The mailboxes copied under the lock are still those of registered Residents
\* when the broadcast reaches them.
THEOREM NoticeWhileRegisteredCorrect == SafetySpec => NoticeWhileRegistered
<1>1. IndInv /\ [Next]_vars =>
        \A r \in Residents : mailbox'[r] # mailbox[r] =>
          /\ residents[KeyOf[r]] # None /\ residents[KeyOf[r]].mailbox = r
          /\ Registered(mailbox'[r][Len(mailbox'[r])])
  <2> SUFFICES ASSUME IndInv, [Next]_vars, NEW r \in Residents, mailbox'[r] # mailbox[r]
               PROVE  /\ residents[KeyOf[r]] # None /\ residents[KeyOf[r]].mailbox = r
                      /\ Registered(mailbox'[r][Len(mailbox'[r])])
    OBVIOUS
  <2>1. CASE Notify
    <3>1. PICK t \in broadcast.targets :
            \/ mailbox' = [mailbox EXCEPT ![t.mailbox] = Append(@, broadcast.id)]
            \/ UNCHANGED mailbox
      BY <2>1 DEF Notify
    <3>2. /\ broadcast # None /\ broadcast.id \in Ids /\ t \in RegistrationRecord
          /\ mailbox \in [Residents -> Seq(Ids)]
      BY <2>1, <3>1 DEF Notify, IndInv, TypeOK, Broadcasts
    <3>3. r = t.mailbox /\ mailbox'[r] = Append(mailbox[r], broadcast.id)
      BY <3>1, <3>2 DEF RegistrationRecord
    <3>4. mailbox'[r][Len(mailbox'[r])] = broadcast.id
      BY <3>2, <3>3
    <3>5. residents[KeyOf[r]] = t
      BY <3>2, <3>3 DEF IndInv, AnnouncementConsistent
    <3>6. Registered(broadcast.id)
      <4>1. /\ instances[broadcast.id] = broadcast.resident
            /\ broadcast.resident \in Residents
        BY <3>2 DEF IndInv, AnnouncementConsistent, TypeOK, Broadcasts
      <4>2. QED
        BY <4>1 DEF Registered
    <3>7. QED
      BY <3>2, <3>3, <3>4, <3>5, <3>6
  <2>2. CASE Admit \/ Remove \/ RefuseDuplicate
    BY <2>2 DEF Admit, Remove, RefuseDuplicate, Refuse
  <2>3. CASE Elsewhere /\ ~Notify
    BY <2>3 DEF Elsewhere, Register, Unregister, Submit, Abandon, Receive,
                RefuseStored, RefuseExhausted, RefuseUnknown, Refuse, FinishRegister,
                EndLoop, ReleaseOwner, directory, vars
  <2>4. QED
    BY <2>1, <2>2, <2>3, StepCases
<1>2. QED
  BY <1>1, IndInvCorrect, PTL DEF SafetySpec, NoticeWhileRegistered
\* Once the loop has ended there is nobody left who could run a command.
EndedMeansGone == loop = "ended" => ~RdfAlive

GoneInv == TypeOK /\ EndedMeansGone

\* Only Receive brings a command, and only while the loop runs.
LEMMA GoneStep == GoneInv /\ [Next]_vars => GoneInv'
<1> SUFFICES ASSUME GoneInv, [Next]_vars PROVE EndedMeansGone'
  BY TypeStep DEF GoneInv
<1> USE DEF GoneInv, EndedMeansGone, RdfAlive
<1>1. CASE EndLoop
  BY <1>1 DEF EndLoop
<1>2. CASE Receive
  BY <1>2 DEF Receive
<1>3. CASE Admit
  BY <1>3 DEF Admit
<1>4. CASE Notify
  BY <1>4 DEF Notify
<1>5. CASE \/ RefuseStored \/ RefuseExhausted \/ RefuseDuplicate \/ RefuseUnknown
           \/ Remove \/ FinishRegister
  BY <1>5 DEF RefuseStored, RefuseExhausted, RefuseDuplicate, RefuseUnknown, Refuse,
              Remove, FinishRegister, directory
<1>6. CASE \/ \E c \in Callers : Register(c) \/ Unregister(c) \/ Abandon(c)
           \/ ReleaseOwner \/ UNCHANGED vars
  BY <1>6 DEF Register, Unregister, Submit, Abandon, ReleaseOwner, vars
<1> QED
  BY <1>1, <1>2, <1>3, <1>4, <1>5, <1>6 DEF Next, Loop, Handle

\* A caller hears that the pipeline is unavailable from a send to an ended loop,
\* or from the loop that ends: in both cases Rdf is gone, and with it whatever
\* could have carried its command out.
THEOREM UnavailableMeansGoneCorrect == SafetySpec => UnavailableMeansGone
<1>1. Init => GoneInv
  BY DEF Init, GoneInv, EndedMeansGone, TypeOK, Ids
<1>2. GoneInv /\ [Next]_vars =>
        \A c \in Callers :
          call[c] # call'[c] /\ call'[c] = "PipelineUnavailable" => ~RdfAlive /\ ~RdfAlive'
  <2> SUFFICES ASSUME GoneInv, [Next]_vars, NEW c \in Callers,
                      call[c] # call'[c], call'[c] = "PipelineUnavailable"
               PROVE  ~RdfAlive /\ ~RdfAlive'
    OBVIOUS
  <2> USE DEF GoneInv, TypeOK
  <2>1. CASE EndLoop
    BY <2>1 DEF EndLoop, RdfAlive
  <2>2. ASSUME NEW d \in Callers, NEW command, Submit(d, command)
        PROVE  ~RdfAlive /\ ~RdfAlive'
    BY <2>2 DEF Submit, EndedMeansGone, RdfAlive
  <2>3. ASSUME NEW d \in Callers, Register(d) \/ Unregister(d) PROVE ~RdfAlive /\ ~RdfAlive'
    BY <2>2, <2>3 DEF Register, Unregister
  <2>4. ASSUME NEW d, call' = [call EXCEPT ![d] = "idle"] PROVE FALSE
    BY <2>4
  <2>5. CASE \/ RefuseStored \/ RefuseExhausted \/ RefuseDuplicate \/ RefuseUnknown
             \/ Remove \/ FinishRegister \/ \E d \in Callers : Abandon(d)
    BY <2>4, <2>5 DEF RefuseStored, RefuseExhausted, RefuseDuplicate, RefuseUnknown, Refuse,
                      Remove, FinishRegister, Abandon, Answer
  <2>6. CASE Receive \/ Admit \/ Notify \/ ReleaseOwner \/ UNCHANGED vars
    BY <2>6 DEF Receive, Admit, Notify, ReleaseOwner, vars
  <2> QED
    BY <2>1, <2>3, <2>5, <2>6 DEF Next, Loop, Handle
<1>3. QED
  BY <1>1, <1>2, GoneStep, PTL DEF SafetySpec, UnavailableMeansGone
============================================================================
