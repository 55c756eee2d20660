----------------------------- MODULE RtdfProofs -----------------------------
(***************************************************************************)
(* Proofs about Rtdf, for every set of Residents, messages and callers.     *)
(* First: RTDF does to RDF only what Rdf allows, so every theorem of        *)
(* RdfProofs holds with messages flowing.  Then the safety of routes: an    *)
(* invariant follows each message from its send to the mailbox.             *)
(***************************************************************************)
EXTENDS Rtdf, RdfProofs, SequenceTheorems

USE GatedAssumption, NoRecordAssumption, NoRouteAssumption

----------------------------------------------------------------------------
\* The Arc<Rdf> of RDF's model is the one that RTDF's core holds.
OwnedByCore == owned = CoreAlive

\* A step of RTDF is a step of Rdf, or leaves it alone.
LEMMA RdfStepOfRtdf ==
  ASSUME OwnedByCore, [RtdfNext]_rtdfVars
  PROVE  [Next]_vars
<1>1. CASE RdfStep
  BY <1>1 DEF RdfStep, Next
<1>2. ASSUME NEW m \in Messages, EndTask(m) PROVE [Next]_vars
  <2>1. owned
    BY <1>2 DEF EndTask, OwnedByCore, CoreAlive, InFlight, Working
  <2>2. CASE owned' = TRUE
    BY <1>2, <2>1, <2>2 DEF EndTask, rdfVars, vars, directory, OwnedByCore
  <2>3. CASE owned' = FALSE
    BY <1>2, <2>1, <2>3 DEF EndTask, rdfVars, Next, ReleaseOwner, directory
  <2>4. QED
    BY <1>2, <2>2, <2>3 DEF EndTask, StillOwned
<1>3. CASE DropHarness
  BY <1>3 DEF DropHarness, StillOwned, OwnedByCore, CoreAlive, rdfVars, vars, directory,
              Next, ReleaseOwner
<1>4. QED
  BY <1>1, <1>2, <1>3 DEF RtdfNext, Step, Send, Spawn, EndRtdfLoop, Resolve, PassOutbound,
     PassInbound, Deliver, Respond, rtdfVars

----------------------------------------------------------------------------
\* How far a send has come says which of its parts exist.
Shape(m) ==
  /\ stage[m] # "unsent" => post[m] # None
  /\ stage[m] \in {"unsent", "queued", "spawned"} =>
       route[m] = None /\ passed[m] = <<>> /\ result[m] = None
  /\ stage[m] \in {"outbound", "inbound", "deliver"} => route[m] # None /\ result[m] = None
  /\ stage[m] \in {"respond"} \cup Returned => result[m] # None
  /\ stage[m] = "outbound" => route[m].outbound # None
  /\ stage[m] = "inbound" => route[m].inbound # None

\* A message is queued at most once, and only while its send waits in the queue.
QueueExact ==
  /\ \A n \in DOMAIN routes : stage[routes[n]] = "queued"
  /\ \A j, n \in DOMAIN routes : routes[j] = routes[n] => j = n

FlowType == RtdfTypeOK /\ QueueExact /\ \A m \in Messages : Shape(m)

\* What RtdfTypeOK says of the variables of RTDF alone.
FlowDomains ==
  /\ harness \in BOOLEAN
  /\ routes \in Seq(Messages)
  /\ rtdfLoop \in {"running", "ended"}
  /\ stage \in [Messages -> Stages]
  /\ post \in [Messages -> Posts \cup {None}]
  /\ route \in [Messages -> Resolutions \cup {None}]
  /\ passed \in [Messages -> Seq({"outbound", "inbound"} \X Residents)]
  /\ result \in [Messages -> Results \cup {None}]
  /\ inbox \in [Residents -> Seq(Messages)]
  /\ heard \in [Messages -> Nat]
  /\ before \in [Messages -> [returned : SUBSET Messages, retired : SUBSET Ids]]

LEMMA TypeSplit == RtdfTypeOK <=> TypeOK /\ OwnedByCore /\ FlowDomains
BY DEF RtdfTypeOK, FlowDomains, OwnedByCore

Kept == FlowDomains' /\ OwnedByCore' /\ QueueExact' /\ \A x \in Messages : Shape(x)'

\* While a task goes from one stage to another, the core and the queue stay.
LEMMA WorkingMove ==
  ASSUME FlowType, NEW m \in Messages, NEW w \in Working, stage[m] \in Working,
         stage' = [stage EXCEPT ![m] = w], UNCHANGED <<harness, owned, routes>>
  PROVE  OwnedByCore' /\ QueueExact' /\ stage' \in [Messages -> Stages]
<1>0. stage \in [Messages -> Stages] /\ w \in Stages
  BY DEF FlowType, RtdfTypeOK, Stages
<1>1. stage'[m] = w /\ \A x \in Messages : x # m => stage'[x] = stage[x]
  BY <1>0
<1>2. InFlight' = InFlight
  BY <1>0, <1>1 DEF InFlight
<1>3. OwnedByCore'
  BY <1>2 DEF FlowType, RtdfTypeOK, OwnedByCore, CoreAlive
<1>4. QueueExact'
  <2>1. \A n \in DOMAIN routes : routes[n] \in Messages /\ routes[n] # m
    BY DEF FlowType, QueueExact, RtdfTypeOK, Working
  <2>2. QED
    BY <1>1, <2>1 DEF FlowType, QueueExact
<1>5. QED
  BY <1>0, <1>3, <1>4

\* A task that has its result, whatever it is, leaves a well-formed state.
LEMMA ConcludeStep ==
  ASSUME FlowType, NEW m \in Messages, NEW o \in Results, stage[m] \in Working,
         Conclude(m, o),
         UNCHANGED <<harness, owned, routes, rtdfLoop, post, route, passed, before>>,
         inbox' \in [Residents -> Seq(Messages)], heard' \in [Messages -> Nat]
  PROVE  Kept
<1>0. FlowDomains
  BY TypeSplit DEF FlowType
<1>1. stage' = [stage EXCEPT ![m] = "respond"] /\ result' = [result EXCEPT ![m] = o]
  BY DEF Conclude
<1>2. OwnedByCore' /\ QueueExact' /\ stage' \in [Messages -> Stages]
  BY <1>1, WorkingMove DEF Working
<1>3. FlowDomains'
  BY <1>0, <1>1, <1>2 DEF FlowDomains
<1>4. ASSUME NEW x \in Messages PROVE Shape(x)'
  <2>1. CASE x = m
    BY <1>0, <1>1, <2>1 DEF Shape, Returned, FlowDomains, FlowType, Working
  <2>2. CASE x # m
    BY <1>0, <1>1, <2>2 DEF Shape, Returned, FlowDomains, FlowType
  <2>3. QED
    BY <2>1, <2>2
<1>5. QED
  BY <1>2, <1>3, <1>4 DEF Kept

\* What resolve_route copies is well formed, and is what the next stage needs.
LEMMA ResolveStep ==
  ASSUME TypeOK, DirectoryConsistent, FlowType, NEW m \in Messages, Resolve(m)
  PROVE  Kept
<1>0. FlowDomains /\ Shape(m) /\ stage[m] = "spawned" /\ post[m] \in Posts
  BY TypeSplit DEF FlowType, Resolve, Shape, FlowDomains
<1> DEFINE i == post[m].source
           k == post[m].target
<1>1. i \in Ids /\ k \in Keys
  BY <1>0 DEF Posts
<1>2. CASE route' = route /\ \E o \in Results : Conclude(m, o)
  BY <1>0, <1>2, ConcludeStep DEF Resolve, Working, vars, FlowDomains
<1>3. CASE SourceKey(i) # None /\ residents[k] # None /\ result' = result
  <2> DEFINE s == byInstance[i]
             found == [sourceKey |-> s,
                       outbound |-> GateOf(residents[s].mailbox, OutboundGated),
                       inbound |-> GateOf(residents[k].mailbox, InboundGated),
                       mailbox |-> residents[k].mailbox,
                       targetId |-> residents[k].id]
  <2>1. /\ route' = [route EXCEPT ![m] = found]
        /\ stage' = [stage EXCEPT ![m] = AfterResolve(found)]
    BY <1>0, <1>3 DEF Resolve, SourceKey, Conclude, FlowDomains
  <2>2. s \in Keys /\ residents[s] \in RegistrationRecord /\ residents[k] \in RegistrationRecord
    <3>1. s # None /\ s \in Keys
      BY <1>1, <1>3 DEF TypeOK, SourceKey
    <3>2. instances[i] # None
      BY <1>1, <3>1 DEF DirectoryConsistent
    <3>3. residents[s] = [id |-> i, mailbox |-> instances[i]]
      BY <1>1, <3>2 DEF DirectoryConsistent
    <3>4. [id |-> i, mailbox |-> instances[i]] \in RegistrationRecord
      BY <1>1, <3>2 DEF TypeOK, RegistrationRecord
    <3>5. residents[k] \in RegistrationRecord
      BY <1>1, <1>3 DEF TypeOK
    <3>6. QED
      BY <3>1, <3>3, <3>4, <3>5
  <2>3. found \in Resolutions
    BY <1>1, <2>2 DEF Resolutions, RegistrationRecord, GateOf
  <2>4. /\ AfterResolve(found) \in {"outbound", "inbound", "deliver"}
        /\ AfterResolve(found) = "outbound" => found.outbound # None
        /\ AfterResolve(found) = "inbound" => found.inbound # None
    BY DEF AfterResolve, AfterOutbound
  <2> HIDE DEF found
  <2>5. OwnedByCore' /\ QueueExact' /\ stage' \in [Messages -> Stages]
    BY <1>0, <2>1, <2>4, WorkingMove DEF Resolve, Working, vars
  <2>6. FlowDomains'
    BY <1>0, <1>3, <2>1, <2>3, <2>5 DEF FlowDomains, Resolve
  <2>7. ASSUME NEW x \in Messages PROVE Shape(x)'
    <3>1. CASE x = m
      BY <1>0, <1>3, <2>1, <2>3, <2>4, <3>1 DEF Shape, Resolve, Returned, FlowDomains
    <3>2. CASE x # m
      BY <1>0, <1>3, <2>1, <3>2 DEF Shape, Resolve, Returned, FlowDomains, FlowType
    <3>3. QED
      BY <3>1, <3>2
  <2>8. QED
    BY <2>5, <2>6, <2>7 DEF Kept
<1>4. "UnknownSource" \in Results /\ "UnknownTarget" \in Results
  BY DEF Results
<1>5. \/ route' = route /\ (Conclude(m, "UnknownSource") \/ Conclude(m, "UnknownTarget"))
      \/ SourceKey(i) # None /\ residents[k] # None /\ result' = result
  BY DEF Resolve
<1>6. QED
  BY <1>2, <1>3, <1>4, <1>5

\* A gate passes a message on with its mark, or refuses it.
LEMMA GateStep ==
  ASSUME FlowType, NEW m \in Messages, PassOutbound(m) \/ PassInbound(m)
  PROVE  Kept
<1>0. FlowDomains /\ Shape(m) /\ stage[m] \in {"outbound", "inbound"}
  BY TypeSplit DEF FlowType, PassOutbound, PassInbound
<1>1. CASE passed' = passed /\ \E o \in Results : Conclude(m, o)
  BY <1>0, <1>1, ConcludeStep DEF PassOutbound, PassInbound, Working, vars, FlowDomains
<1>2. ASSUME NEW w \in {"inbound", "deliver"}, stage' = [stage EXCEPT ![m] = w],
             NEW g \in {"outbound", "inbound"} \X Residents,
             passed' = [passed EXCEPT ![m] = Append(@, g)], result' = result,
             w = "inbound" => route[m].inbound # None
      PROVE  Kept
  <2>1. OwnedByCore' /\ QueueExact' /\ stage' \in [Messages -> Stages]
    BY <1>0, <1>2, WorkingMove DEF PassOutbound, PassInbound, Working, vars
  <2>2. Append(passed[m], g) \in Seq({"outbound", "inbound"} \X Residents)
    BY <1>0 DEF FlowDomains
  <2>3. FlowDomains'
    BY <1>0, <1>2, <2>1, <2>2 DEF FlowDomains, PassOutbound, PassInbound
  <2>4. ASSUME NEW x \in Messages PROVE Shape(x)'
    <3>1. CASE x = m
      BY <1>0, <1>2, <3>1 DEF Shape, PassOutbound, PassInbound, Returned, FlowDomains
    <3>2. CASE x # m
      BY <1>0, <1>2, <3>2 DEF Shape, PassOutbound, PassInbound, Returned, FlowDomains, FlowType
    <3>3. QED
      BY <3>1, <3>2
  <2>5. QED
    BY <2>1, <2>3, <2>4 DEF Kept
<1>3. route[m] \in Resolutions
  BY <1>0 DEF Shape, FlowDomains
<1>4. CASE PassOutbound(m)
  <2>1. <<"outbound", route[m].outbound>> \in {"outbound", "inbound"} \X Residents
    BY <1>0, <1>3, <1>4 DEF PassOutbound, Shape, Resolutions
  <2>2. /\ AfterOutbound(route[m]) \in {"inbound", "deliver"}
        /\ AfterOutbound(route[m]) = "inbound" => route[m].inbound # None
    BY DEF AfterOutbound
  <2>3. "OutboundGate" \in Results
    BY DEF Results
  <2>4. QED
    BY <1>1, <1>2, <1>4, <2>1, <2>2, <2>3 DEF PassOutbound
<1>5. CASE PassInbound(m)
  <2>1. <<"inbound", route[m].inbound>> \in {"outbound", "inbound"} \X Residents
    BY <1>0, <1>3, <1>5 DEF PassInbound, Shape, Resolutions
  <2>2. "InboundGate" \in Results
    BY DEF Results
  <2>3. QED
    BY <1>1, <1>2, <1>5, <2>1, <2>2 DEF PassInbound
<1>6. QED
  BY <1>4, <1>5

\* The mailbox accepts the message or refuses it.
LEMMA DeliverStep ==
  ASSUME TypeOK, FlowType, NEW m \in Messages, Deliver(m)
  PROVE  Kept
<1>0. FlowDomains /\ Shape(m) /\ stage[m] = "deliver"
  BY TypeSplit DEF FlowType, Deliver
<1>1. route[m].mailbox \in Residents
  BY <1>0 DEF Shape, FlowDomains, Resolutions
<1>2. inbox' \in [Residents -> Seq(Messages)] /\ heard' \in [Messages -> Nat]
  <2> DEFINE r == route[m].mailbox
             longer == Append(inbox[r], m)
             notices == Len(mailbox[r])
  <2>1. longer \in Seq(Messages)
    BY <1>0, <1>1 DEF FlowDomains
  <2>2. notices \in Nat
    BY <1>1 DEF TypeOK
  <2>3. \/ UNCHANGED <<inbox, heard>>
        \/ /\ inbox' = [inbox EXCEPT ![r] = longer]
           /\ heard' = [heard EXCEPT ![m] = notices]
    BY DEF Deliver, Accept
  <2> HIDE DEF longer, notices
  <2>4. inbox \in [Residents -> Seq(Messages)] /\ heard \in [Messages -> Nat]
    BY <1>0 DEF FlowDomains
  <2>5. inbox' \in [Residents -> Seq(Messages)]
    BY <1>1, <2>1, <2>3, <2>4
  <2>6. heard' \in [Messages -> Nat]
    BY <2>2, <2>3, <2>4
  <2>7. QED
    BY <2>5, <2>6
<1>3. "Ok" \in Results /\ "TargetMailbox" \in Results
  BY DEF Results
<1>4. Conclude(m, "Ok") \/ Conclude(m, "TargetMailbox")
  BY DEF Deliver
<1>5. UNCHANGED <<harness, owned, routes, rtdfLoop, post, route, passed, before>>
  BY DEF Deliver, vars
<1>6. stage[m] \in Working
  BY <1>0 DEF Working
<1>7. QED
  BY <1>2, <1>3, <1>4, <1>5, <1>6, ConcludeStep

\* Answering the sender leaves the task where it is.
LEMMA RespondStep ==
  ASSUME FlowType, NEW m \in Messages, Respond(m)
  PROVE  Kept
<1>0. FlowDomains
  BY TypeSplit DEF FlowType
<1>1. OwnedByCore' /\ QueueExact' /\ stage' \in [Messages -> Stages]
  BY WorkingMove DEF Respond, Working, vars
<1>2. FlowDomains'
  BY <1>0, <1>1 DEF FlowDomains, Respond
<1>3. \A x \in Messages : Shape(x)'
  BY <1>0 DEF Shape, Respond, Returned, FlowDomains, FlowType
<1>4. QED
  BY <1>1, <1>2, <1>3 DEF Kept

\* The end of a task releases the core if it was the last to hold it.
LEMMA EndTaskStep ==
  ASSUME FlowType, NEW m \in Messages, EndTask(m)
  PROVE  Kept
<1>0. FlowDomains /\ stage[m] = "answered"
  BY TypeSplit DEF FlowType, EndTask
<1>1. stage'[m] = "returned" /\ \A x \in Messages : x # m => stage'[x] = stage[x]
  BY <1>0 DEF EndTask, FlowDomains
<1>2. OwnedByCore'
  <2>1. InFlight' = InFlight \ {m}
    BY <1>1 DEF InFlight, Working
  <2>2. QED
    BY <2>1 DEF EndTask, OwnedByCore, CoreAlive, StillOwned
<1>3. FlowDomains'
  BY <1>0 DEF FlowDomains, EndTask, Stages
<1>4. QueueExact'
  <2>1. \A n \in DOMAIN routes : routes[n] \in Messages /\ routes[n] # m
    BY <1>0 DEF FlowType, QueueExact, FlowDomains
  <2>2. QED
    BY <1>1, <2>1 DEF FlowType, QueueExact, EndTask
<1>5. \A x \in Messages : Shape(x)'
  BY <1>0, <1>1 DEF Shape, EndTask, Returned, FlowType
<1>6. QED
  BY <1>2, <1>3, <1>4, <1>5 DEF Kept

\* A send is queued behind the others, or refused because the loop has ended.
LEMMA SendStep ==
  ASSUME FlowType, NEW m \in Messages, Send(m)
  PROVE  Kept
<1>0. FlowDomains /\ Shape(m) /\ stage[m] = "unsent"
  BY TypeSplit DEF FlowType, Send
<1>1. PICK i \in Ids, k \in Keys : post' = [post EXCEPT ![m] = [source |-> i, target |-> k]]
  BY DEF Send, Disclosed
<1>2. [source |-> i, target |-> k] \in Posts
  BY DEF Posts
<1>3. post' \in [Messages -> Posts \cup {None}] /\ post'[m] # None
  BY <1>0, <1>1, <1>2 DEF FlowDomains
<1>4. before' \in [Messages -> [returned : SUBSET Messages, retired : SUBSET Ids]]
  <2> DEFINE past == [returned |-> {n \in Messages : stage[n] \in Returned},
                      retired |-> {j \in Ids : Retired(j)}]
  <2>1. past \in [returned : SUBSET Messages, retired : SUBSET Ids]
    OBVIOUS
  <2>2. before' = [before EXCEPT ![m] = past]
    BY DEF Send
  <2> HIDE DEF past
  <2>3. QED
    BY <1>0, <2>1, <2>2 DEF FlowDomains
<1>5. \A n \in DOMAIN routes : routes[n] \in Messages /\ routes[n] # m
  BY <1>0 DEF FlowType, QueueExact, FlowDomains
<1>6. \A x \in Messages : x # m => post'[x] = post[x]
  BY <1>0, <1>1 DEF FlowDomains
<1>7. CASE rtdfLoop = "running"
  <2>1. /\ routes' = Append(routes, m)
        /\ stage' = [stage EXCEPT ![m] = "queued"]
        /\ result' = result
    BY <1>7 DEF Send
  <2>2. stage'[m] = "queued" /\ \A x \in Messages : x # m => stage'[x] = stage[x]
    BY <1>0, <2>1 DEF FlowDomains
  <2>3. OwnedByCore'
    <3>1. InFlight' = InFlight
      BY <1>0, <2>2 DEF InFlight, Working
    <3>2. QED
      BY <1>7, <3>1 DEF Send, vars, FlowType, RtdfTypeOK, OwnedByCore, CoreAlive
  <2>4. routes \in Seq(Messages) /\ routes' \in Seq(Messages)
    BY <1>0, <2>1 DEF FlowDomains
  <2>5. FlowDomains'
    BY <1>0, <1>3, <1>4, <2>1, <2>4 DEF FlowDomains, Send, Stages
  <2>6. QueueExact'
    <3>1. \A n \in DOMAIN routes' : \/ n \in DOMAIN routes /\ routes'[n] = routes[n]
                                    \/ n = Len(routes) + 1 /\ routes'[n] = m
      BY <2>1, <2>4
    <3>2. \A n \in DOMAIN routes' : stage'[routes'[n]] = "queued"
      BY <1>5, <2>2, <3>1 DEF FlowType, QueueExact
    <3>3. \A j, n \in DOMAIN routes' : routes'[j] = routes'[n] => j = n
      BY <1>5, <3>1 DEF FlowType, QueueExact
    <3>4. QED
      BY <3>2, <3>3 DEF QueueExact
  <2>7. \A x \in Messages : Shape(x)'
    BY <1>0, <1>3, <1>6, <2>1, <2>2 DEF Shape, Send, Returned, FlowType
  <2>8. QED
    BY <2>3, <2>5, <2>6, <2>7 DEF Kept
<1>8. CASE rtdfLoop # "running"
  <2>1. /\ routes' = routes
        /\ stage' = [stage EXCEPT ![m] = "returned"]
        /\ result' = [result EXCEPT ![m] = "PipelineUnavailable"]
    BY <1>8 DEF Send
  <2>2. /\ stage'[m] = "returned" /\ \A x \in Messages : x # m => stage'[x] = stage[x]
        /\ result'[m] = "PipelineUnavailable" /\ \A x \in Messages : x # m => result'[x] = result[x]
    BY <1>0, <2>1 DEF FlowDomains
  <2>3. OwnedByCore'
    <3>1. InFlight' = InFlight
      BY <1>0, <2>2 DEF InFlight, Working
    <3>2. QED
      BY <3>1 DEF Send, vars, FlowType, RtdfTypeOK, OwnedByCore, CoreAlive
  <2>4. FlowDomains'
    BY <1>0, <1>3, <1>4, <2>1 DEF FlowDomains, Send, Stages, Results
  <2>5. QueueExact'
    BY <1>5, <2>1, <2>2 DEF FlowType, QueueExact
  <2>6. \A x \in Messages : Shape(x)'
    BY <1>0, <1>3, <1>6, <2>2 DEF Shape, Send, Returned, FlowType, Results
  <2>7. QED
    BY <2>3, <2>4, <2>5, <2>6 DEF Kept
<1>9. QED
  BY <1>7, <1>8

\* The head of the queue becomes a task of its own.
LEMMA SpawnStep ==
  ASSUME FlowType, Spawn
  PROVE  Kept
<1>0. FlowDomains
  BY TypeSplit DEF FlowType
<1> DEFINE m == Head(routes)
<1>1. routes \in Seq(Messages) /\ routes # <<>> /\ routes' = Tail(routes)
  BY <1>0 DEF FlowDomains, Spawn
<1>2. /\ 1 \in DOMAIN routes /\ m = routes[1] /\ m \in Messages
      /\ routes' \in Seq(Messages)
      /\ \A n \in DOMAIN routes' : n + 1 \in DOMAIN routes /\ routes'[n] = routes[n + 1]
      /\ \A n \in DOMAIN routes' : n \in Nat \ {0}
  BY <1>1
<1>3. stage[m] = "queued" /\ \A n \in DOMAIN routes' : routes'[n] # m
  BY <1>2 DEF FlowType, QueueExact
<1> HIDE DEF m
<1>4. stage' = [stage EXCEPT ![m] = "spawned"]
  BY DEF Spawn, m
<1>5. stage'[m] = "spawned" /\ \A x \in Messages : x # m => stage'[x] = stage[x]
  BY <1>0, <1>2, <1>4 DEF FlowDomains
<1>6. OwnedByCore'
  <2>1. m \in InFlight'
    BY <1>2, <1>5 DEF InFlight, Working
  <2>2. QED
    BY <2>1 DEF Spawn, vars, FlowType, RtdfTypeOK, OwnedByCore, CoreAlive
<1>7. FlowDomains'
  BY <1>0, <1>2, <1>4 DEF FlowDomains, Spawn, Stages, Working
<1>8. QueueExact'
  <2>1. \A n \in DOMAIN routes' : routes'[n] \in Messages /\ stage'[routes'[n]] = "queued"
    BY <1>2, <1>3, <1>5 DEF FlowType, QueueExact
  <2>2. \A j, n \in DOMAIN routes' : routes'[j] = routes'[n] => j = n
    BY <1>2 DEF FlowType, QueueExact
  <2>3. QED
    BY <2>1, <2>2 DEF QueueExact
<1>9. \A x \in Messages : Shape(x)'
  BY <1>2, <1>3, <1>5 DEF Shape, Spawn, Returned, FlowType
<1>10. QED
  BY <1>6, <1>7, <1>8, <1>9 DEF Kept

\* The loop ends: every queued send is answered, and no task is touched.
LEMMA EndRtdfLoopStep ==
  ASSUME FlowType, EndRtdfLoop
  PROVE  Kept
<1>0. FlowDomains
  BY TypeSplit DEF FlowType
<1>1. \A x \in Messages : \/ stage[x] = "queued" /\ stage'[x] = "returned"
                             /\ result'[x] = "PipelineUnavailable"
                          \/ stage[x] # "queued" /\ stage'[x] = stage[x] /\ result'[x] = result[x]
  BY DEF EndRtdfLoop
<1>2. OwnedByCore'
  <2>1. InFlight' = InFlight
    BY <1>1 DEF InFlight, Working
  <2>2. QED
    BY <2>1 DEF EndRtdfLoop, vars, FlowType, RtdfTypeOK, OwnedByCore, CoreAlive
<1>3. FlowDomains'
  <2>1. stage' \in [Messages -> Stages] /\ result' \in [Messages -> Results \cup {None}]
    BY <1>0 DEF FlowDomains, EndRtdfLoop, Stages, Results
  <2>2. QED
    BY <1>0, <2>1 DEF FlowDomains, EndRtdfLoop
<1>4. QueueExact'
  BY DEF QueueExact, EndRtdfLoop
<1>5. \A x \in Messages : Shape(x)'
  BY <1>1 DEF Shape, EndRtdfLoop, Returned, FlowType, Results
<1>6. QED
  BY <1>2, <1>3, <1>4, <1>5 DEF Kept

\* Dropping the harness, and steps of RDF's own, leave every message where it is.
LEMMA OtherFlowStep ==
  ASSUME FlowType, RdfStep \/ DropHarness \/ UNCHANGED rtdfVars
  PROVE  Kept
<1>1. UNCHANGED flowVars
  BY DEF RdfStep, DropHarness, rtdfVars
<1>2. OwnedByCore' /\ harness' \in BOOLEAN
  <2>1. InFlight' = InFlight
    BY <1>1 DEF flowVars, InFlight
  <2>2. CASE RdfStep
    <3>1. owned' = owned /\ harness' = harness
      BY <2>2 DEF RdfStep, Register, Unregister, Abandon, Submit, Loop, Receive, Handle,
         RefuseStored, RefuseExhausted, RefuseDuplicate, RefuseUnknown, Refuse, Admit, Notify,
         FinishRegister, Remove, EndLoop
    <3>2. QED
      BY <2>1, <3>1 DEF FlowType, RtdfTypeOK, OwnedByCore, CoreAlive
  <2>3. CASE DropHarness
    BY <2>1, <2>3 DEF DropHarness, OwnedByCore, CoreAlive, StillOwned
  <2>4. CASE UNCHANGED rtdfVars
    BY <2>1, <2>4 DEF rtdfVars, vars, FlowType, RtdfTypeOK, OwnedByCore, CoreAlive
  <2>5. QED
    BY <2>2, <2>3, <2>4
<1>3. FlowDomains'
  BY <1>1, <1>2, TypeSplit DEF FlowType, flowVars, FlowDomains
<1>4. QueueExact' /\ \A x \in Messages : Shape(x)'
  BY <1>1 DEF FlowType, flowVars, QueueExact, Shape
<1>5. QED
  BY <1>2, <1>3, <1>4 DEF Kept

\* Every step of the composition keeps types, the shape of sends and the queue.
LEMMA FlowStep ==
  TypeOK /\ DirectoryConsistent /\ FlowType /\ [RtdfNext]_rtdfVars => FlowType'
<1> SUFFICES ASSUME TypeOK, DirectoryConsistent, FlowType, [RtdfNext]_rtdfVars
             PROVE  FlowType'
  OBVIOUS
<1>1. TypeOK'
  BY RdfStepOfRtdf, TypeStep, TypeSplit DEF FlowType
<1>2. Kept
  BY SendStep, SpawnStep, EndRtdfLoopStep, ResolveStep, GateStep, DeliverStep, RespondStep,
     EndTaskStep, OtherFlowStep DEF RtdfNext, Step
<1>3. RtdfTypeOK'
  BY <1>1, <1>2 DEF Kept, RtdfTypeOK, FlowDomains, OwnedByCore
<1>4. QED
  BY <1>2, <1>3 DEF Kept, FlowType

\* The invariant of the composition: RDF's own, and the shape of RTDF.
BaseInv == IndInv /\ MutualAwareness /\ FlowType

LEMMA BaseStep == BaseInv /\ [RtdfNext]_rtdfVars => BaseInv'
<1> SUFFICES ASSUME BaseInv, [RtdfNext]_rtdfVars PROVE BaseInv'
  OBVIOUS
<1>1. [Next]_vars
  BY RdfStepOfRtdf, TypeSplit DEF BaseInv, FlowType
<1>2. IndInv' /\ MutualAwareness'
  BY <1>1, TypeStep, ConsistentStep, AnnouncementStep, MutualStep DEF BaseInv, IndInv
<1>3. FlowType'
  BY FlowStep DEF BaseInv, IndInv
<1>4. QED
  BY <1>2, <1>3 DEF BaseInv

LEMMA BaseInvCorrect == RtdfSafetySpec => []BaseInv
<1>1. RtdfInit => BaseInv
  <2> SUFFICES ASSUME RtdfInit PROVE BaseInv
    OBVIOUS
  <2>1. IndInv
    BY KeyOfAssumption, IdLimitAssumption
       DEF RtdfInit, Init, IndInv, TypeOK, DirectoryConsistent, AnnouncementConsistent, Ids
  <2>2. MutualAwareness
    BY DEF RtdfInit, Init, MutualAwareness, Registered
  <2>3. OwnedByCore
    BY DEF RtdfInit, Init, OwnedByCore, CoreAlive
  <2>4. FlowDomains
    <3>1. [returned |-> {}, retired |-> {}] \in [returned : SUBSET Messages, retired : SUBSET Ids]
      OBVIOUS
    <3>2. before \in [Messages -> [returned : SUBSET Messages, retired : SUBSET Ids]]
      BY <3>1 DEF RtdfInit
    <3>3. routes \in Seq(Messages) /\ inbox \in [Residents -> Seq(Messages)]
      BY DEF RtdfInit
    <3>4. passed \in [Messages -> Seq({"outbound", "inbound"} \X Residents)]
      BY DEF RtdfInit
    <3>5. /\ stage \in [Messages -> Stages] /\ heard \in [Messages -> Nat]
          /\ post \in [Messages -> Posts \cup {None}]
          /\ route \in [Messages -> Resolutions \cup {None}]
          /\ result \in [Messages -> Results \cup {None}]
      BY DEF RtdfInit, Stages
    <3>6. QED
      BY <3>2, <3>3, <3>4, <3>5 DEF RtdfInit, FlowDomains
  <2>5. QueueExact /\ \A m \in Messages : Shape(m)
    BY DEF RtdfInit, QueueExact, Shape, Returned
  <2>6. QED
    BY <2>1, <2>2, <2>3, <2>4, <2>5, TypeSplit DEF BaseInv, IndInv, FlowType
<1>2. QED
  BY <1>1, BaseStep, PTL DEF RtdfSafetySpec

\* The variables of the composition stay in their domains, and the Arc<Rdf> that
\* keeps the registration loop alive is held exactly as long as the harness or a
\* route task exists.
THEOREM RtdfTypeCorrect == RtdfSafetySpec => []RtdfTypeOK
<1>1. BaseInv => RtdfTypeOK
  BY DEF BaseInv, FlowType
<1>2. QED
  BY <1>1, BaseInvCorrect, PTL

\* Routing, its failures included, never touches registration (ARCHITECTURE 6):
\* seen from RDF, the composition is a behaviour of Rdf, in which RTDF only ever
\* releases the Arc it holds.  So every theorem of RdfProofs holds with messages
\* flowing.
THEOREM RegistrationUntouched == RtdfSafetySpec => SafetySpec
<1>1. RtdfInit => Init
  BY DEF RtdfInit
<1>2. BaseInv /\ [RtdfNext]_rtdfVars => [Next]_vars
  BY RdfStepOfRtdf, TypeSplit DEF BaseInv, FlowType
<1>3. QED
  BY <1>1, <1>2, BaseInvCorrect, PTL DEF RtdfSafetySpec, SafetySpec

----------------------------------------------------------------------------
\* The route is done: its result is known.
Late == {"respond"} \cup Returned

\* What a send has behind it stays as it is.
Steady(m) ==
  /\ stage[m] # "unsent" =>
       stage'[m] # "unsent" /\ post'[m] = post[m] /\ before'[m] = before[m]
  /\ route[m] # None => route'[m] = route[m]
  /\ stage[m] \in Late => /\ stage'[m] \in Late
                          /\ result'[m] = result[m] /\ passed'[m] = passed[m]
                          /\ heard'[m] = heard[m]
  /\ stage[m] \in Returned => stage'[m] \in Returned

LEMMA SteadyStep ==
  ASSUME BaseInv, [RtdfNext]_rtdfVars, NEW x \in Messages
  PROVE  Steady(x)
<1>0. FlowDomains /\ Shape(x) /\ QueueExact
  BY TypeSplit DEF BaseInv, FlowType
<1>1. CASE RdfStep \/ DropHarness \/ UNCHANGED rtdfVars
  BY <1>1 DEF RdfStep, DropHarness, rtdfVars, flowVars, Steady
<1>2. CASE Spawn
  <2> DEFINE m == Head(routes)
  <2>1. stage[m] = "queued"
    BY <1>0, <1>2 DEF Spawn, QueueExact, FlowDomains
  <2>2. stage'[x] = IF x = m THEN "spawned" ELSE stage[x]
    BY <1>0, <1>2 DEF Spawn, FlowDomains
  <2>3. QED
    BY <1>2, <2>1, <2>2 DEF Spawn, Steady, Late, Returned
<1>3. CASE EndRtdfLoop
  BY <1>0, <1>3 DEF EndRtdfLoop, Steady, Late, Returned, FlowDomains
<1>4. ASSUME NEW m \in Messages, Send(m) PROVE Steady(x)
  <2>1. /\ post'[x] = post[x] \/ x = m
        /\ before'[x] = before[x] \/ x = m
        /\ result'[x] = result[x] \/ x = m
        /\ IF x = m THEN stage'[x] \in {"queued", "returned"} ELSE stage'[x] = stage[x]
    BY <1>0, <1>4 DEF Send, FlowDomains
  <2>2. QED
    BY <1>0, <1>4, <2>1 DEF Send, Steady, Late, Returned, Shape
<1>5. ASSUME NEW m \in Messages, Resolve(m) PROVE Steady(x)
  <2>1. stage[m] = "spawned" /\ UNCHANGED <<post, passed, heard, before>>
    BY <1>5 DEF Resolve
  <2>2. CASE x # m
    <3>1. stage'[x] = stage[x] /\ route'[x] = route[x] /\ result'[x] = result[x]
      BY <1>0, <1>5, <2>2 DEF Resolve, Conclude, FlowDomains
    <3>2. QED
      BY <2>1, <3>1 DEF Steady
  <2>3. CASE x = m
    <3>1. stage'[m] # "unsent"
      BY <1>0, <1>5 DEF Resolve, Conclude, FlowDomains, AfterResolve, AfterOutbound
    <3>2. QED
      BY <1>0, <2>1, <2>3, <3>1 DEF Steady, Late, Returned, Shape
  <2>4. QED
    BY <2>2, <2>3
<1>6. ASSUME NEW m \in Messages, PassOutbound(m) \/ PassInbound(m) PROVE Steady(x)
  <2>1. /\ stage[m] \in {"outbound", "inbound"} /\ UNCHANGED <<post, route, heard, before>>
        /\ x # m => stage'[x] = stage[x] /\ passed'[x] = passed[x] /\ result'[x] = result[x]
        /\ stage'[m] # "unsent"
    BY <1>0, <1>6 DEF PassOutbound, PassInbound, Conclude, AfterOutbound, FlowDomains
  <2>2. QED
    BY <2>1 DEF Steady, Late, Returned
<1>7. ASSUME NEW m \in Messages, Deliver(m) PROVE Steady(x)
  <2>1. /\ stage[m] = "deliver" /\ UNCHANGED <<post, route, passed, before>>
        /\ x # m => stage'[x] = stage[x] /\ result'[x] = result[x] /\ heard'[x] = heard[x]
        /\ stage'[m] # "unsent"
    BY <1>0, <1>7 DEF Deliver, Conclude, FlowDomains
  <2>2. QED
    BY <2>1 DEF Steady, Late, Returned
<1>8. ASSUME NEW m \in Messages, Respond(m) \/ EndTask(m) PROVE Steady(x)
  BY <1>0, <1>8 DEF Respond, EndTask, Steady, Late, Returned, FlowDomains
<1>9. QED
  BY <1>1, <1>2, <1>3, <1>4, <1>5, <1>6, <1>7, <1>8 DEF RtdfNext, Step

\* A mailbox accepted m.
Taken(m) ==
  /\ stage[m] = "deliver" /\ stage'[m] = "respond"
  /\ result' = [result EXCEPT ![m] = "Ok"]
  /\ inbox' = [inbox EXCEPT ![route[m].mailbox] = Append(@, m)]
  /\ heard' = [heard EXCEPT ![m] = Len(mailbox[route[m].mailbox])]
  /\ UNCHANGED <<vars, post, route, passed, before>>

\* Only the acceptance of a message puts one into a mailbox or reports success.
LEMMA InboxCases ==
  ASSUME BaseInv, [RtdfNext]_rtdfVars
  PROVE  \/ inbox' = inbox /\ \A x \in Messages : result'[x] = "Ok" => result[x] = "Ok"
         \/ \E m \in Messages : Taken(m)
<1>0. FlowDomains
  BY TypeSplit DEF BaseInv, FlowType
<1>1. CASE RdfStep \/ DropHarness \/ UNCHANGED rtdfVars \/ Spawn
  BY <1>1 DEF RdfStep, DropHarness, rtdfVars, flowVars, Spawn
<1>2. CASE EndRtdfLoop
  BY <1>0, <1>2 DEF EndRtdfLoop, FlowDomains
<1>3. ASSUME NEW m \in Messages, Deliver(m) PROVE Taken(m) \/ (inbox' = inbox /\ Conclude(m, "TargetMailbox"))
  BY <1>0, <1>3 DEF Deliver, Accept, Conclude, Taken, FlowDomains
<1>4. ASSUME NEW m \in Messages, \/ Send(m) \/ Resolve(m) \/ PassOutbound(m) \/ PassInbound(m)
                                 \/ Respond(m) \/ EndTask(m)
      PROVE inbox' = inbox /\ \A x \in Messages : result'[x] = "Ok" => result[x] = "Ok"
  BY <1>0, <1>4 DEF Send, Resolve, PassOutbound, PassInbound, Respond, EndTask, Conclude, FlowDomains
<1>5. ASSUME NEW m \in Messages, Conclude(m, "TargetMailbox")
      PROVE \A x \in Messages : result'[x] = "Ok" => result[x] = "Ok"
  BY <1>0, <1>5 DEF Conclude, FlowDomains
<1>6. QED
  BY <1>1, <1>2, <1>3, <1>4, <1>5 DEF RtdfNext, Step

\* The mailbox of the route grows by m at its end, and no other changes.
LEMMA TakenInbox ==
  ASSUME BaseInv, NEW m \in Messages, Taken(m)
  PROVE  LET o == route[m].mailbox IN
         /\ o \in Residents /\ route[m] # None
         /\ Len(inbox[o]) + 1 \in DOMAIN inbox'[o] /\ inbox'[o][Len(inbox[o]) + 1] = m
         /\ \A r \in Residents :
              /\ \A n \in DOMAIN inbox[r] : n \in DOMAIN inbox'[r] /\ inbox'[r][n] = inbox[r][n]
              /\ \A n \in DOMAIN inbox'[r] :
                   \/ n \in DOMAIN inbox[r]
                   \/ r = o /\ n = Len(inbox[r]) + 1 /\ inbox'[r][n] = m
<1> DEFINE o == route[m].mailbox
<1>0. FlowDomains /\ Shape(m)
  BY TypeSplit DEF BaseInv, FlowType
<1>1. o \in Residents /\ route[m] # None
  BY <1>0 DEF Shape, Taken, FlowDomains, Resolutions
<1>2. inbox[o] \in Seq(Messages) /\ inbox'[o] = Append(inbox[o], m)
  BY <1>0, <1>1 DEF Taken, FlowDomains
<1>3. \A r \in Residents : r # o => inbox'[r] = inbox[r]
  BY <1>0, <1>1 DEF Taken, FlowDomains
<1> HIDE DEF o
<1>4. /\ Len(inbox[o]) + 1 \in DOMAIN inbox'[o] /\ inbox'[o][Len(inbox[o]) + 1] = m
      /\ \A n \in DOMAIN inbox[o] : n \in DOMAIN inbox'[o] /\ inbox'[o][n] = inbox[o][n]
      /\ \A n \in DOMAIN inbox'[o] :
           n \in DOMAIN inbox[o] \/ (n = Len(inbox[o]) + 1 /\ inbox'[o][n] = m)
  BY <1>2
<1>5. QED
  BY <1>1, <1>3, <1>4 DEF o

\* A mailbox holds messages whose sends succeeded and were routed to it, each
\* once, and every send that succeeded left its message there.
Held(r, m) == stage[m] \in Late /\ result[m] = "Ok" /\ route[m] # None /\ route[m].mailbox = r

Found(m) ==
  result[m] = "Ok" => /\ route[m] # None
                      /\ \E n \in DOMAIN inbox[route[m].mailbox] :
                           inbox[route[m].mailbox][n] = m

InboxExact ==
  /\ \A r \in Residents, m \in Messages : \A n \in DOMAIN inbox[r] :
       inbox[r][n] = m => Held(r, m)
  /\ \A r \in Residents : \A j, n \in DOMAIN inbox[r] : inbox[r][j] = inbox[r][n] => j = n
  /\ \A m \in Messages : Found(m)

LEMMA InboxStep == BaseInv /\ InboxExact /\ [RtdfNext]_rtdfVars => InboxExact'
<1> SUFFICES ASSUME BaseInv, InboxExact, [RtdfNext]_rtdfVars PROVE InboxExact'
  OBVIOUS
<1>0. FlowDomains
  BY TypeSplit DEF BaseInv, FlowType
<1>1. \A r \in Residents, x \in Messages : Held(r, x) => Held(r, x)'
  BY SteadyStep DEF Held, Steady
<1>2. CASE inbox' = inbox /\ \A x \in Messages : result'[x] = "Ok" => result[x] = "Ok"
  <2>1. ASSUME NEW m \in Messages PROVE Found(m)'
    BY <1>2, SteadyStep DEF InboxExact, Found, Steady
  <2>2. QED
    BY <1>1, <1>2, <2>1 DEF InboxExact
<1>3. ASSUME NEW m \in Messages, Taken(m) PROVE InboxExact'
  <2> DEFINE o == route[m].mailbox
  <2>1. /\ o \in Residents /\ route[m] # None
        /\ Len(inbox[o]) + 1 \in DOMAIN inbox'[o] /\ inbox'[o][Len(inbox[o]) + 1] = m
        /\ \A r \in Residents :
             /\ \A n \in DOMAIN inbox[r] : n \in DOMAIN inbox'[r] /\ inbox'[r][n] = inbox[r][n]
             /\ \A n \in DOMAIN inbox'[r] :
                  \/ n \in DOMAIN inbox[r]
                  \/ r = o /\ n = Len(inbox[r]) + 1 /\ inbox'[r][n] = m
    BY <1>3, TakenInbox
  <2>2. \A r \in Residents : \A n \in DOMAIN inbox[r] : inbox[r][n] # m
    BY <1>3 DEF Taken, InboxExact, Held, Late, Returned
  <2>3. \A r \in Residents : r = o => Held(r, m)'
    BY <1>0, <1>3, <2>1 DEF Taken, Held, Late, FlowDomains
  <2>4. ASSUME NEW r \in Residents, NEW x \in Messages, NEW n \in DOMAIN inbox'[r],
               inbox'[r][n] = x
        PROVE  Held(r, x)'
    <3>1. CASE n \in DOMAIN inbox[r]
      BY <1>1, <2>1, <2>4, <3>1 DEF InboxExact
    <3>2. CASE r = o /\ x = m
      BY <2>3, <3>2
    <3>3. QED
      BY <2>1, <2>4, <3>1, <3>2
  <2>5. ASSUME NEW r \in Residents, NEW j \in DOMAIN inbox'[r], NEW n \in DOMAIN inbox'[r],
               inbox'[r][j] = inbox'[r][n]
        PROVE  j = n
    BY <2>1, <2>2, <2>5 DEF InboxExact
  <2>6. ASSUME NEW x \in Messages PROVE Found(x)'
    <3>1. CASE x = m
      BY <1>3, <2>1, <3>1 DEF Found, Taken
    <3>2. CASE x # m /\ result'[x] = "Ok"
      <4>1. result[x] = "Ok"
        BY <1>0, <1>3, <3>2 DEF Taken, FlowDomains
      <4>2. route[x] # None /\ route'[x] = route[x] /\ route[x].mailbox \in Residents
        BY <1>0, <1>3, <4>1 DEF InboxExact, Found, Taken, FlowDomains, Resolutions
      <4>3. PICK n \in DOMAIN inbox[route[x].mailbox] : inbox[route[x].mailbox][n] = x
        BY <4>1 DEF InboxExact, Found
      <4>4. QED
        BY <2>1, <4>2, <4>3 DEF Found
    <3>3. QED
      BY <3>1, <3>2 DEF Found
  <2>7. QED
    BY <2>4, <2>5, <2>6 DEF InboxExact
<1>4. QED
  BY <1>2, <1>3, InboxCases

\* Ok means that exactly one mailbox has the message, once; an error, whatever
\* stage it comes from, that nobody has it.
THEOREM ResultTruthfulCorrect == RtdfSafetySpec => []ResultTruthful
<1>1. RtdfInit => InboxExact
  BY NoRouteAssumption DEF RtdfInit, InboxExact, Found, Results
<1>2. BaseInv /\ InboxExact => ResultTruthful
  <2> SUFFICES ASSUME BaseInv, InboxExact, NEW m \in Messages
               PROVE  /\ result[m] = "Ok" <=> m \in Delivered
                      /\ \A r, q \in Residents :
                           \A j \in DOMAIN inbox[r], n \in DOMAIN inbox[q] :
                             inbox[r][j] = m /\ inbox[q][n] = m => r = q /\ j = n
    BY DEF ResultTruthful
  <2>1. result[m] = "Ok" => m \in Delivered
    <3>1. route[m] # None => route[m].mailbox \in Residents
      BY TypeSplit DEF BaseInv, FlowType, FlowDomains, Resolutions
    <3>2. QED
      BY <3>1 DEF InboxExact, Found, Delivered, Accepted
  <2>2. m \in Delivered => result[m] = "Ok"
    BY DEF InboxExact, Held, Delivered, Accepted
  <2>3. QED
    BY <2>1, <2>2 DEF InboxExact, Held
<1>3. QED
  BY <1>1, <1>2, InboxStep, BaseInvCorrect, PTL DEF RtdfSafetySpec

----------------------------------------------------------------------------
\* before is written by the send alone.
LEMMA BeforeCases ==
  ASSUME BaseInv, [RtdfNext]_rtdfVars, NEW m \in Messages
  PROVE  \/ before'[m] = before[m]
         \/ /\ stage[m] = "unsent" /\ Send(m)
            /\ before'[m] = [returned |-> {n \in Messages : stage[n] \in Returned},
                             retired |-> {i \in Ids : Retired(i)}]
<1>0. FlowDomains
  BY TypeSplit DEF BaseInv, FlowType
<1>1. ASSUME NEW x \in Messages, Send(x)
      PROVE  \/ before'[m] = before[m]
             \/ /\ stage[m] = "unsent" /\ Send(m)
                /\ before'[m] = [returned |-> {n \in Messages : stage[n] \in Returned},
                                 retired |-> {i \in Ids : Retired(i)}]
  <2> DEFINE past == [returned |-> {n \in Messages : stage[n] \in Returned},
                      retired |-> {i \in Ids : Retired(i)}]
  <2>1. before' = [before EXCEPT ![x] = past] /\ stage[x] = "unsent"
    BY <1>1 DEF Send
  <2> HIDE DEF past
  <2>2. (x = m /\ before'[m] = past) \/ before'[m] = before[m]
    BY <1>0, <2>1 DEF FlowDomains
  <2>3. QED
    BY <1>1, <2>1, <2>2 DEF past
<1>2. CASE ~\E x \in Messages : Send(x)
  BY <1>2 DEF RtdfNext, Step, RdfStep, Spawn, EndRtdfLoop, Resolve, PassOutbound, PassInbound,
     Deliver, Respond, EndTask, DropHarness, rtdfVars, flowVars
<1>3. QED
  BY <1>1, <1>2

\* What a send noted as returned has returned for good.
PastReturned ==
  \A m, x \in Messages : x \in before[m].returned => stage[x] \in Returned

LEMMA RealTimeStep ==
  BaseInv /\ InboxExact /\ PastReturned /\ RealTimeOrder /\ [RtdfNext]_rtdfVars
    => PastReturned' /\ RealTimeOrder'
<1> SUFFICES ASSUME BaseInv, InboxExact, PastReturned, RealTimeOrder, [RtdfNext]_rtdfVars
             PROVE  PastReturned' /\ RealTimeOrder'
  OBVIOUS
<1>0. FlowDomains
  BY TypeSplit DEF BaseInv, FlowType
<1>1. PastReturned'
  <2> SUFFICES ASSUME NEW m \in Messages, NEW x \in Messages, x \in before'[m].returned
               PROVE  stage'[x] \in Returned
    BY DEF PastReturned
  <2>1. stage[x] \in Returned
    <3>1. CASE before'[m] = before[m]
      BY <3>1 DEF PastReturned
    <3>2. CASE before'[m] = [returned |-> {n \in Messages : stage[n] \in Returned},
                             retired |-> {i \in Ids : Retired(i)}]
      <4>1. before'[m].returned = {n \in Messages : stage[n] \in Returned}
        BY <3>2
      <4>2. QED
        BY <4>1
    <3>3. QED
      BY <3>1, <3>2, BeforeCases
  <2>2. QED
    BY <2>1, SteadyStep DEF Steady
<1>2. RealTimeOrder'
  <2> SUFFICES ASSUME NEW r \in Residents, NEW j \in DOMAIN inbox'[r], NEW n \in DOMAIN inbox'[r],
                      j < n
               PROVE  inbox'[r][n] \notin before'[inbox'[r][j]].returned
    BY DEF RealTimeOrder
  <2>1. ASSUME NEW i \in DOMAIN inbox[r]
        PROVE  inbox[r][i] \in Messages /\ before'[inbox[r][i]] = before[inbox[r][i]]
    <3>1. inbox[r][i] \in Messages
      BY <1>0 DEF FlowDomains
    <3>2. stage[inbox[r][i]] # "unsent"
      BY <3>1 DEF InboxExact, Held, Late, Returned
    <3>3. QED
      BY <3>1, <3>2, BeforeCases
  <2>2. CASE inbox' = inbox
    BY <2>1, <2>2 DEF RealTimeOrder
  <2>3. ASSUME NEW m \in Messages, Taken(m)
        PROVE  inbox'[r][n] \notin before'[inbox'[r][j]].returned
    <3>1. /\ \A i \in DOMAIN inbox[r] : inbox'[r][i] = inbox[r][i]
          /\ \A i \in DOMAIN inbox'[r] :
               i \in DOMAIN inbox[r] \/ (i = Len(inbox[r]) + 1 /\ inbox'[r][i] = m)
      BY <2>3, TakenInbox
    <3>2. DOMAIN inbox[r] = 1..Len(inbox[r]) /\ Len(inbox[r]) \in Nat
      BY <1>0 DEF FlowDomains
    <3>3. j \in DOMAIN inbox[r]
      <4>1. n \in 1..(Len(inbox[r]) + 1) /\ j \in 1..(Len(inbox[r]) + 1)
        BY <3>1, <3>2
      <4>2. QED
        BY <3>2, <4>1
    <3>4. CASE n \in DOMAIN inbox[r]
      BY <2>1, <3>1, <3>3, <3>4 DEF RealTimeOrder
    <3>5. CASE inbox'[r][n] = m
      <4>1. stage[m] \notin Returned
        BY <2>3 DEF Taken, Returned
      <4>2. QED
        BY <2>1, <3>1, <3>3, <3>5, <4>1 DEF PastReturned
    <3>6. QED
      BY <3>1, <3>4, <3>5
  <2>4. QED
    BY <2>2, <2>3, InboxCases
<1>3. QED
  BY <1>1, <1>2

\* Sends that do not overlap arrive in the order they were made.
THEOREM RealTimeOrderCorrect == RtdfSafetySpec => []RealTimeOrder
<1> DEFINE Inv == InboxExact /\ PastReturned /\ RealTimeOrder
<1>1. RtdfInit => Inv
  BY NoRouteAssumption DEF RtdfInit, InboxExact, Found, Results, PastReturned, RealTimeOrder
<1>2. BaseInv /\ Inv /\ [RtdfNext]_rtdfVars => Inv'
  BY InboxStep, RealTimeStep
<1>3. QED
  BY <1>1, <1>2, BaseInvCorrect, PTL DEF RtdfSafetySpec

----------------------------------------------------------------------------
\* The steps of Rdf that neither touch the broadcast, the counter and the store,
\* nor a mailbox or a receipt.
Quiet == UNCHANGED <<nextId, instances, broadcast, mailbox, receipts>>

LEMMA QuietCases ==
  ASSUME [Next]_vars
  PROVE  Admit \/ Remove \/ RefuseDuplicate \/ Notify \/ FinishRegister \/ Quiet
BY DEF Next, Loop, Handle, Quiet, Register, Unregister, Submit, Abandon, Receive, RefuseStored,
       RefuseExhausted, RefuseUnknown, Refuse, EndLoop, ReleaseOwner, directory, vars

\* One delivery of a broadcast: it stays about the same id, and a mailbox at most
\* grows at its end.
LEMMA NotifyKeeps ==
  ASSUME TypeOK, Notify
  PROVE  /\ broadcast # None /\ broadcast' \in Broadcasts /\ broadcast'.id = broadcast.id
         /\ UNCHANGED <<nextId, instances, receipts>>
         /\ \A r \in Residents : \A n \in DOMAIN mailbox[r] :
              n \in DOMAIN mailbox'[r] /\ mailbox'[r][n] = mailbox[r][n]
<1>0. broadcast \in Broadcasts /\ broadcast # None
  BY DEF Notify, TypeOK
<1>1. PICK t \in broadcast.targets :
        /\ \/ broadcast' = [broadcast EXCEPT !.targets = Remaining(t)]
           \/ broadcast' = [broadcast EXCEPT !.targets = Remaining(t), !.failures = FailuresWith(t)]
        /\ \/ mailbox' = mailbox
           \/ mailbox' = [mailbox EXCEPT ![t.mailbox] = Append(mailbox[t.mailbox], broadcast.id)]
  BY DEF Notify
<1>2. broadcast' \in Broadcasts /\ broadcast'.id = broadcast.id
  <2>1. t \in RegistrationRecord
    BY <1>0 DEF Broadcasts
  <2>2. KeyOf[t.mailbox] \in Keys
    BY <2>1, KeyOfAssumption DEF RegistrationRecord
  <2>3. Remaining(t) \in SUBSET RegistrationRecord /\ FailuresWith(t) \in SUBSET Keys
    BY <1>0, <2>2 DEF Broadcasts, Remaining, FailuresWith
  <2>4. QED
    BY <1>0, <1>1, <2>3 DEF Broadcasts
<1>3. ASSUME NEW r \in Residents, NEW n \in DOMAIN mailbox[r]
      PROVE  n \in DOMAIN mailbox'[r] /\ mailbox'[r][n] = mailbox[r][n]
  <2>1. mailbox \in [Residents -> Seq(Ids)] /\ mailbox[r] \in Seq(Ids)
    BY DEF TypeOK
  <2>2. mailbox'[r] = mailbox[r] \/ mailbox'[r] = Append(mailbox[r], broadcast.id)
    BY <1>1, <2>1
  <2>3. n \in DOMAIN Append(mailbox[r], broadcast.id)
        /\ Append(mailbox[r], broadcast.id)[n] = mailbox[r][n]
    BY <2>1
  <2>4. QED
    BY <2>2, <2>3
<1>4. QED
  BY <1>0, <1>2, <1>3 DEF Notify, directory

\* What RDF never takes back: an id that was disclosed, its receipt, a removal,
\* and a notice in a mailbox.
LEMMA RdfSteady ==
  ASSUME IndInv, [Next]_vars
  PROVE  /\ \A i \in Disclosed : i \in Disclosed' /\ receipts'[i] = receipts[i]
         /\ \A i \in Ids : i <= nextId /\ ~Registered(i) => i <= nextId' /\ ~Registered(i)'
         /\ \A r \in Residents : \A n \in DOMAIN mailbox[r] :
              n \in DOMAIN mailbox'[r] /\ mailbox'[r][n] = mailbox[r][n]
<1>0. /\ nextId \in Nat
      /\ broadcast # None => serving = None /\ broadcast.id = nextId
      /\ instances \in [Ids -> Residents \cup {None}]
  BY DEF IndInv, TypeOK, AnnouncementConsistent
<1>1. CASE Admit
  <2>1. /\ nextId' = nextId + 1 /\ broadcast'.id = nextId + 1 /\ broadcast = None
        /\ \E x : instances' = [instances EXCEPT ![nextId + 1] = x]
        /\ UNCHANGED <<mailbox, receipts>>
    BY <1>0, <1>1 DEF Admit, Reserved
  <2>2. QED
    BY <1>0, <2>1 DEF Disclosed, Registered, Ids
<1>2. CASE Remove
  <2>1. /\ UNCHANGED <<nextId, broadcast, mailbox, receipts>>
        /\ instances' = [instances EXCEPT ![serving.id] = None]
    BY <1>2 DEF Remove
  <2>2. QED
    BY <1>0, <2>1 DEF Disclosed, Registered
<1>3. CASE RefuseDuplicate
  <2>1. nextId' = nextId + 1 /\ UNCHANGED <<instances, broadcast, mailbox, receipts>>
    BY <1>3 DEF RefuseDuplicate, Refuse, Reserved
  <2>2. QED
    BY <1>0, <2>1 DEF Disclosed, Registered, Ids
<1>4. CASE Notify
  BY <1>0, <1>4, NotifyKeeps DEF IndInv, Disclosed, Registered
<1>5. CASE FinishRegister
  <2>1. /\ broadcast # None /\ broadcast' = None
        /\ UNCHANGED <<nextId, instances, mailbox>>
        /\ \E x : receipts' = [receipts EXCEPT ![broadcast.id] = x]
    BY <1>5 DEF FinishRegister, directory
  <2>2. receipts \in [Ids -> Receipts \cup {None}]
    BY DEF IndInv, TypeOK
  <2>3. QED
    BY <1>0, <2>1, <2>2 DEF Disclosed, Registered
<1>6. CASE Quiet
  BY <1>6 DEF Quiet, Disclosed, Registered
<1>7. QED
  BY <1>1, <1>2, <1>3, <1>4, <1>5, <1>6, QuietCases

\* A Resident whose id is known outside has a receipt, and the receipt is its own.
ReceiptsKept ==
  \A i \in Disclosed : Registered(i) => receipts[i] # None /\ receipts[i].resident = instances[i]

LEMMA ReceiptsStep == IndInv /\ ReceiptsKept /\ [Next]_vars => ReceiptsKept'
<1> SUFFICES ASSUME IndInv, ReceiptsKept, [Next]_vars, NEW i \in Disclosed', Registered(i)'
             PROVE  receipts'[i] # None /\ receipts'[i].resident = instances'[i]
  BY DEF ReceiptsKept
<1>0. /\ nextId \in Nat /\ i \in Ids /\ i \in Nat
      /\ broadcast # None => /\ serving = None /\ broadcast.id = nextId
                             /\ instances[nextId] = broadcast.resident
      /\ instances \in [Ids -> Residents \cup {None}]
      /\ receipts \in [Ids -> Receipts \cup {None}]
      /\ \A j \in Ids : Registered(j) => j <= nextId
  <2>1. nextId \in Nat /\ i \in Ids /\ i \in Nat
    BY DEF IndInv, TypeOK, Disclosed, Ids
  <2>2. broadcast # None => /\ serving = None /\ broadcast.id = nextId
                            /\ instances[nextId] = broadcast.resident
    BY DEF IndInv, AnnouncementConsistent
  <2>3. \A j \in Ids : Registered(j) => j <= nextId
    BY DEF IndInv, DirectoryConsistent, Registered
  <2>4. QED
    BY <2>1, <2>2, <2>3 DEF IndInv, TypeOK
<1>1. CASE Admit
  <2>1. /\ nextId' = nextId + 1 /\ broadcast'.id = nextId + 1 /\ broadcast = None
        /\ \E x : instances' = [instances EXCEPT ![nextId + 1] = x]
        /\ receipts' = receipts
    BY <1>0, <1>1 DEF Admit, Reserved
  <2>2. broadcast' # None
    <3>1. broadcast' \in Broadcasts \cup {None}
      BY TypeStep DEF IndInv, TypeOK
    <3>2. serving \in Commands /\ serving.op = "register"
      BY <1>1 DEF Admit, IndInv, TypeOK
    <3>3. serving.resident \in Residents /\ serving.caller \in Callers /\ KeyOf[serving.resident] \in Keys
      BY <3>2, KeyOfAssumption DEF Commands
    <3>4. nextId + 1 \in Ids
      BY <1>0, <1>1, IdLimitAssumption DEF Admit, CanReserve, Ids
    <3>5. {residents[n] : n \in {k \in Keys : residents[k] # None}} \in SUBSET RegistrationRecord
      BY DEF IndInv, TypeOK
    <3>6. broadcast' \in Broadcasts
      BY <1>1, <3>3, <3>4, <3>5 DEF Admit, Broadcasts, Reserved
    <3>7. QED
      BY <3>6
  <2>3. i # nextId + 1
    BY <2>1, <2>2 DEF Disclosed
  <2>4. i \in Disclosed /\ Registered(i) /\ instances'[i] = instances[i]
    BY <1>0, <2>1, <2>3 DEF Disclosed, Registered
  <2>5. QED
    BY <2>1, <2>4 DEF ReceiptsKept
<1>2. CASE Remove
  <2>1. /\ UNCHANGED <<nextId, broadcast, receipts>>
        /\ instances' = [instances EXCEPT ![serving.id] = None]
    BY <1>2 DEF Remove
  <2>2. i \in Disclosed /\ Registered(i) /\ instances'[i] = instances[i]
    BY <1>0, <2>1 DEF Disclosed, Registered
  <2>3. QED
    BY <2>1, <2>2 DEF ReceiptsKept
<1>3. CASE RefuseDuplicate
  <2>1. nextId' = nextId + 1 /\ UNCHANGED <<instances, broadcast, receipts>>
    BY <1>3 DEF RefuseDuplicate, Refuse, Reserved
  <2>2. i \in Disclosed /\ Registered(i)
    BY <1>0, <2>1 DEF Disclosed, Registered
  <2>3. QED
    BY <2>1, <2>2 DEF ReceiptsKept
<1>4. CASE Notify
  <2>1. /\ broadcast # None /\ broadcast' # None /\ broadcast'.id = broadcast.id
        /\ UNCHANGED <<nextId, instances, receipts>>
    BY <1>4, NotifyKeeps DEF IndInv
  <2>2. i \in Disclosed /\ Registered(i)
    BY <2>1 DEF Disclosed, Registered
  <2>3. QED
    BY <2>1, <2>2 DEF ReceiptsKept
<1>5. CASE FinishRegister
  <2> DEFINE receipt == [resident |-> broadcast.resident, existing |-> broadcast.existing,
                         failures |-> broadcast.failures]
  <2>1. /\ broadcast # None /\ UNCHANGED <<nextId, instances>>
        /\ receipts' = [receipts EXCEPT ![broadcast.id] = receipt]
    BY <1>5 DEF FinishRegister, directory
  <2>2. receipt \in Receipts
    BY <2>1 DEF IndInv, TypeOK, Broadcasts, Receipts
  <2>3. CASE i = broadcast.id
    BY <1>0, <2>1, <2>2, <2>3
  <2>4. CASE i # broadcast.id
    <3>1. i \in Disclosed /\ Registered(i)
      BY <2>1, <2>4 DEF Disclosed, Registered
    <3>2. QED
      BY <1>0, <2>1, <2>4, <3>1 DEF ReceiptsKept
  <2>5. QED
    BY <2>3, <2>4
<1>6. CASE Quiet
  <2>1. i \in Disclosed /\ Registered(i)
    BY <1>6 DEF Quiet, Disclosed, Registered
  <2>2. QED
    BY <1>6, <2>1 DEF Quiet, ReceiptsKept
<1>7. QED
  BY <1>1, <1>2, <1>3, <1>4, <1>5, <1>6, QuietCases

----------------------------------------------------------------------------
\* The object that was registered under the source id of a send.
Sender(m) == receipts[post[m].source].resident

\* What a send knew as retired stays so, and its source is an id that was disclosed.
RetiredGone ==
  \A m \in Messages : \A i \in before[m].retired : i <= nextId /\ ~Registered(i)

Posted == \A m \in Messages : stage[m] # "unsent" => post[m].source \in Disclosed

\* The target was told of a younger source before the route was resolved, or its
\* mailbox had refused the notice.
Told(m) ==
  post[m].source > route[m].targetId =>
    \/ KeyOf[route[m].mailbox] \in receipts[post[m].source].failures
    \/ \E n \in DOMAIN mailbox[route[m].mailbox] :
         mailbox[route[m].mailbox][n] = post[m].source

\* A route names the two registrations it was resolved for, by what belongs to
\* their objects, and neither was over when the send was called.
RouteTrue(m) ==
  route[m] # None =>
    /\ post[m].source \notin before[m].retired
    /\ route[m].targetId \notin before[m].retired
    /\ receipts[post[m].source] # None
    /\ Sender(m) \in Residents
    /\ KeyOf[Sender(m)] = route[m].sourceKey
    /\ KeyOf[route[m].mailbox] = post[m].target
    /\ route[m].outbound = GateOf(Sender(m), OutboundGated)
    /\ route[m].inbound = GateOf(route[m].mailbox, InboundGated)
    /\ Told(m)

RouteInv == ReceiptsKept /\ RetiredGone /\ Posted /\ \A m \in Messages : RouteTrue(m)

\* What resolve_route finds is true at that moment.
LEMMA ResolvedTrue ==
  ASSUME BaseInv, RouteInv, NEW m \in Messages, Resolve(m), route'[m] # None
  PROVE  RouteTrue(m)'
<1> DEFINE i == post[m].source
           k == post[m].target
           s == byInstance[i]
           j == residents[k].id
<1>0. /\ FlowDomains /\ TypeOK /\ DirectoryConsistent /\ MutualAwareness /\ ReceiptsKept
      /\ stage[m] = "spawned" /\ post[m] \in Posts /\ route[m] = None
  BY TypeSplit DEF BaseInv, IndInv, FlowType, RouteInv, Shape, Resolve, FlowDomains
<1>1. i \in Ids /\ k \in Keys /\ i \in Disclosed
  BY <1>0 DEF Posts, RouteInv, Posted
<1>2. /\ s # None /\ residents[k] # None
      /\ route'[m] = [sourceKey |-> s,
                      outbound |-> GateOf(residents[s].mailbox, OutboundGated),
                      inbound |-> GateOf(residents[k].mailbox, InboundGated),
                      mailbox |-> residents[k].mailbox,
                      targetId |-> residents[k].id]
  BY <1>0 DEF Resolve, SourceKey, FlowDomains
<1>3. UNCHANGED <<vars, post, before>>
  BY DEF Resolve
<1>4. /\ instances[i] \in Residents /\ Registered(i) /\ KeyOf[instances[i]] = s
      /\ residents[s] = [id |-> i, mailbox |-> instances[i]]
  <2>1. instances[i] # None
    BY <1>0, <1>1, <1>2 DEF DirectoryConsistent
  <2>2. QED
    BY <1>0, <1>1, <2>1 DEF TypeOK, DirectoryConsistent, Registered
<1>5. /\ j \in Ids /\ instances[j] \in Residents /\ Registered(j) /\ KeyOf[instances[j]] = k
      /\ byInstance[j] = k /\ residents[k].mailbox = instances[j]
  <2>1. j \in Ids
    BY <1>0, <1>1, <1>2 DEF TypeOK, RegistrationRecord
  <2>2. byInstance[j] = k
    BY <1>0, <1>1, <1>2 DEF DirectoryConsistent
  <2>3. k # None
    BY <1>1, NoneAssumption
  <2>4. instances[j] # None
    BY <1>0, <2>1, <2>2, <2>3 DEF DirectoryConsistent
  <2>5. residents[k] = [id |-> j, mailbox |-> instances[j]] /\ KeyOf[instances[j]] = k
    BY <1>0, <2>1, <2>2, <2>4 DEF DirectoryConsistent
  <2>6. instances[j] \in Residents
    BY <1>0, <2>1, <2>4 DEF TypeOK
  <2>7. QED
    BY <2>1, <2>2, <2>4, <2>5, <2>6 DEF Registered
<1>6. receipts[i] # None /\ receipts[i].resident = instances[i]
  BY <1>0, <1>1, <1>4 DEF ReceiptsKept
<1>7. i \notin before[m].retired /\ j \notin before[m].retired
  BY <1>4, <1>5 DEF RouteInv, RetiredGone
<1>8. j < i => \/ k \in receipts[i].failures
               \/ \E n \in DOMAIN mailbox[instances[j]] : mailbox[instances[j]][n] = i
  BY <1>0, <1>1, <1>4, <1>5, <1>6 DEF MutualAwareness, Heard
<1>9. i > j => j < i
  BY <1>1, <1>5 DEF Ids
<1>10. /\ route'[m].sourceKey = s /\ route'[m].targetId = j
       /\ route'[m].mailbox = instances[j]
       /\ route'[m].outbound = GateOf(instances[i], OutboundGated)
       /\ route'[m].inbound = GateOf(instances[j], InboundGated)
  BY <1>2, <1>4, <1>5
<1>11. /\ post'[m] = post[m] /\ before'[m] = before[m] /\ receipts' = receipts
       /\ mailbox' = mailbox
  BY <1>3 DEF vars
<1> HIDE DEF s, j
<1>12. Told(m)'
  BY <1>5, <1>8, <1>9, <1>10, <1>11 DEF Told
<1>13. QED
  BY <1>4, <1>5, <1>6, <1>7, <1>10, <1>11, <1>12 DEF RouteTrue, Sender

\* A route changes when its task resolves it, and a send begins with Send.
LEMMA RouteCases ==
  ASSUME BaseInv, [RtdfNext]_rtdfVars, NEW m \in Messages
  PROVE  /\ route'[m] = route[m] \/ Resolve(m)
         /\ stage[m] # "unsent" \/ stage'[m] = "unsent" \/ Send(m)
<1>0. FlowDomains /\ QueueExact
  BY TypeSplit DEF BaseInv, FlowType
<1>1. CASE RdfStep \/ DropHarness \/ UNCHANGED rtdfVars \/ EndRtdfLoop
  BY <1>0, <1>1 DEF RdfStep, DropHarness, rtdfVars, flowVars, EndRtdfLoop, FlowDomains
<1>2. CASE Spawn
  <2>1. Head(routes) \in Messages /\ stage[Head(routes)] = "queued"
    BY <1>0, <1>2 DEF Spawn, QueueExact, FlowDomains
  <2>2. QED
    BY <1>0, <1>2, <2>1 DEF Spawn, FlowDomains
<1>3. ASSUME NEW x \in Messages, Send(x)
      PROVE  route' = route /\ (stage[m] # "unsent" \/ stage'[m] = "unsent" \/ Send(m))
  BY <1>0, <1>3 DEF Send, FlowDomains
<1>4. ASSUME NEW x \in Messages, Resolve(x)
      PROVE  (route'[m] = route[m] \/ Resolve(m)) /\ (stage[m] # "unsent" \/ stage'[m] = "unsent")
  <2>1. stage[x] = "spawned" /\ (x # m => route'[m] = route[m] /\ stage'[m] = stage[m])
    BY <1>0, <1>4 DEF Resolve, Conclude, FlowDomains
  <2>2. QED
    BY <1>4, <2>1
<1>5. ASSUME NEW x \in Messages, \/ PassOutbound(x) \/ PassInbound(x) \/ Deliver(x)
                                 \/ Respond(x) \/ EndTask(x)
      PROVE  route' = route /\ (stage[m] # "unsent" \/ stage'[m] = "unsent")
  BY <1>0, <1>5 DEF PassOutbound, PassInbound, Deliver, Respond, EndTask, Conclude, FlowDomains
<1>6. QED
  BY <1>1, <1>2, <1>3, <1>4, <1>5 DEF RtdfNext, Step

\* A route that is true stays true: what it names is never taken back.
LEMMA RouteKept ==
  ASSUME BaseInv, RouteInv, [RtdfNext]_rtdfVars, NEW m \in Messages,
         route[m] # None, route'[m] = route[m]
  PROVE  RouteTrue(m)'
<1>0. FlowDomains /\ Shape(m) /\ RouteTrue(m) /\ IndInv /\ [Next]_vars
  BY TypeSplit, RdfStepOfRtdf DEF BaseInv, FlowType, RouteInv
<1>1. stage[m] # "unsent" /\ post'[m] = post[m] /\ before'[m] = before[m]
  BY <1>0, SteadyStep DEF Shape, Steady
<1>2. receipts'[post[m].source] = receipts[post[m].source]
  BY <1>0, <1>1, RdfSteady DEF RouteInv, Posted
<1>3. Told(m)'
  <2>1. route[m].mailbox \in Residents
    BY <1>0 DEF FlowDomains, Resolutions
  <2>2. \A n \in DOMAIN mailbox[route[m].mailbox] :
          /\ n \in DOMAIN mailbox'[route[m].mailbox]
          /\ mailbox'[route[m].mailbox][n] = mailbox[route[m].mailbox][n]
    BY <1>0, <2>1, RdfSteady
  <2>3. Told(m)
    BY <1>0 DEF RouteTrue
  <2>4. QED
    BY <1>1, <1>2, <2>2, <2>3 DEF Told
<1>4. QED
  BY <1>0, <1>1, <1>2, <1>3 DEF RouteTrue, Sender

LEMMA RouteStep == BaseInv /\ RouteInv /\ [RtdfNext]_rtdfVars => RouteInv'
<1> SUFFICES ASSUME BaseInv, RouteInv, [RtdfNext]_rtdfVars PROVE RouteInv'
  OBVIOUS
<1>0. IndInv /\ [Next]_vars
  BY TypeSplit, RdfStepOfRtdf DEF BaseInv, FlowType
<1>1. ReceiptsKept'
  BY <1>0, ReceiptsStep DEF RouteInv
<1>2. RetiredGone'
  <2> SUFFICES ASSUME NEW m \in Messages, NEW i \in before'[m].retired
               PROVE  i <= nextId' /\ ~Registered(i)'
    BY DEF RetiredGone
  <2>1. CASE before'[m] = before[m]
    <3>1. i \in Ids /\ i <= nextId /\ ~Registered(i)
      BY <2>1, TypeSplit DEF BaseInv, FlowType, FlowDomains, RouteInv, RetiredGone
    <3>2. QED
      BY <1>0, <3>1, RdfSteady
  <2>2. CASE Send(m) /\ before'[m] = [returned |-> {n \in Messages : stage[n] \in Returned},
                                      retired |-> {j \in Ids : Retired(j)}]
    <3>1. i \in Ids /\ Retired(i)
      BY <2>2
    <3>2. i <= nextId
      BY <1>0, <3>1 DEF Retired, IndInv, AnnouncementConsistent
    <3>3. UNCHANGED <<nextId, instances>>
      BY <2>2 DEF Send, vars
    <3>4. QED
      BY <3>1, <3>2, <3>3 DEF Retired, Registered
  <2>3. QED
    BY <2>1, <2>2, BeforeCases
<1>3. Posted'
  <2> SUFFICES ASSUME NEW m \in Messages, stage'[m] # "unsent"
               PROVE  post'[m].source \in Disclosed'
    BY DEF Posted
  <2>1. CASE stage[m] # "unsent"
    BY <1>0, <2>1, SteadyStep, RdfSteady DEF Steady, RouteInv, Posted
  <2>2. CASE Send(m)
    <3>1. PICK i \in Disclosed, k \in Keys :
            post' = [post EXCEPT ![m] = [source |-> i, target |-> k]]
      BY <2>2 DEF Send
    <3>2. post'[m].source = i
      BY <3>1, TypeSplit DEF BaseInv, FlowType, FlowDomains
    <3>3. QED
      BY <1>0, <3>2, RdfSteady
  <2>3. QED
    BY <2>1, <2>2, RouteCases
<1>4. ASSUME NEW m \in Messages PROVE RouteTrue(m)'
  <2>1. CASE route'[m] = None
    BY <2>1 DEF RouteTrue
  <2>2. CASE route'[m] # None /\ Resolve(m)
    BY <2>2, ResolvedTrue
  <2>3. CASE route'[m] # None /\ route'[m] = route[m]
    BY <2>3, RouteKept
  <2>4. QED
    BY <2>1, <2>2, <2>3, RouteCases
<1>5. QED
  BY <1>1, <1>2, <1>3, <1>4 DEF RouteInv

LEMMA RouteInvCorrect == RtdfSafetySpec => [](RouteInv /\ InboxExact)
<1>1. RtdfInit => RouteInv /\ InboxExact
  <2> SUFFICES ASSUME RtdfInit PROVE RouteInv /\ InboxExact
    OBVIOUS
  <2>1. InboxExact
    BY NoRouteAssumption DEF RtdfInit, InboxExact, Found, Results
  <2>2. ReceiptsKept /\ RetiredGone /\ Posted
    BY DEF RtdfInit, Init, ReceiptsKept, Registered, Disclosed, RetiredGone, Posted
  <2>3. \A m \in Messages : RouteTrue(m)
    BY DEF RtdfInit, RouteTrue
  <2>4. QED
    BY <2>1, <2>2, <2>3 DEF RouteInv
<1>2. QED
  BY <1>1, RouteStep, InboxStep, BaseInvCorrect, PTL DEF RtdfSafetySpec

\* A delivered message is the one its route led to that mailbox.
LEMMA AcceptedHeld ==
  ASSUME BaseInv, InboxExact, NEW r \in Residents, NEW m \in Accepted(r)
  PROVE  m \in Messages /\ Held(r, m)
<1>1. PICK n \in DOMAIN inbox[r] : inbox[r][n] = m
  BY DEF Accepted
<1>2. inbox[r] \in Seq(Messages)
  BY TypeSplit DEF BaseInv, FlowType, FlowDomains
<1>3. m \in Messages
  BY <1>1, <1>2
<1>4. QED
  BY <1>1, <1>3 DEF InboxExact

\* A message never travels from, or to, a registration that was over before its
\* send was called, although names change hands while routes are under way.
THEOREM NoStaleRouteCorrect == RtdfSafetySpec => []NoStaleRoute
<1>1. BaseInv /\ RouteInv /\ InboxExact => NoStaleRoute
  <2> SUFFICES ASSUME BaseInv, RouteInv, InboxExact, NEW r \in Residents, NEW m \in Accepted(r)
               PROVE  /\ post[m].source \notin before[m].retired
                      /\ route[m].targetId \notin before[m].retired
    BY DEF NoStaleRoute, Delivered
  <2>1. m \in Messages /\ route[m] # None
    BY AcceptedHeld DEF Held
  <2>2. QED
    BY <2>1 DEF RouteInv, RouteTrue
<1>2. QED
  BY <1>1, BaseInvCorrect, RouteInvCorrect, PTL

----------------------------------------------------------------------------
\* What went to the mailbox before the message, seen from its own side: heard
\* fixes how many notices were there, and the notice of its source is among them.
HeardFirst(m) ==
  result[m] = "Ok" /\ post[m].source > route[m].targetId =>
    \/ KeyOf[route[m].mailbox] \in receipts[post[m].source].failures
    \/ \E n \in DOMAIN mailbox[route[m].mailbox] :
         /\ n <= heard[m]
         /\ mailbox[route[m].mailbox][n] = post[m].source

HeardInv == \A m \in Messages : HeardFirst(m)

\* A result that says Ok belongs to a message that is in the mailbox of its route.
LEMMA OkHeld ==
  ASSUME BaseInv, InboxExact, NEW m \in Messages, result[m] = "Ok"
  PROVE  stage[m] \in Late /\ route[m] # None /\ route[m].mailbox \in Residents
<1>1. route[m] # None /\ \E n \in DOMAIN inbox[route[m].mailbox] :
                           inbox[route[m].mailbox][n] = m
  BY DEF InboxExact, Found
<1>2. route[m].mailbox \in Residents
  BY <1>1, TypeSplit DEF BaseInv, FlowType, FlowDomains, Resolutions
<1>3. QED
  BY <1>1, <1>2 DEF InboxExact, Held

\* What was heard before a message stays heard before it.
LEMMA HeardKept ==
  ASSUME BaseInv, RouteInv, InboxExact, [RtdfNext]_rtdfVars, NEW m \in Messages,
         HeardFirst(m), result[m] = "Ok"
  PROVE  HeardFirst(m)'
<1>1. stage[m] \in Late /\ route[m] # None /\ route[m].mailbox \in Residents
  BY OkHeld
<1>2. /\ stage[m] # "unsent" /\ post'[m] = post[m] /\ route'[m] = route[m]
      /\ heard'[m] = heard[m]
  BY <1>1, SteadyStep DEF Steady, Late, Returned
<1>3. IndInv /\ [Next]_vars
  BY TypeSplit, RdfStepOfRtdf DEF BaseInv, FlowType
<1>4. receipts'[post[m].source] = receipts[post[m].source]
  BY <1>2, <1>3, RdfSteady DEF RouteInv, Posted
<1>5. \A n \in DOMAIN mailbox[route[m].mailbox] :
        /\ n \in DOMAIN mailbox'[route[m].mailbox]
        /\ mailbox'[route[m].mailbox][n] = mailbox[route[m].mailbox][n]
  BY <1>1, <1>3, RdfSteady
<1>6. QED
  BY <1>2, <1>4, <1>5 DEF HeardFirst

\* The route was told of its source when it was resolved, so it has heard of it
\* when the mailbox accepts the message.
LEMMA HeardTaken ==
  ASSUME BaseInv, RouteInv, NEW m \in Messages, Taken(m)
  PROVE  HeardFirst(m)'
<1>0. FlowDomains /\ Shape(m) /\ TypeOK
  BY TypeSplit DEF BaseInv, FlowType
<1>1. route[m] # None /\ route[m].mailbox \in Residents
  BY TakenInbox
<1>2. Told(m)
  BY <1>1 DEF RouteInv, RouteTrue
<1>3. heard'[m] = Len(mailbox[route[m].mailbox])
  BY <1>0 DEF Taken, FlowDomains
<1>4. \A n \in DOMAIN mailbox[route[m].mailbox] : n <= Len(mailbox[route[m].mailbox])
  BY <1>0, <1>1 DEF TypeOK
<1>5. UNCHANGED <<mailbox, receipts, post, route>>
  BY DEF Taken, vars
<1>6. QED
  BY <1>2, <1>3, <1>4, <1>5 DEF Told, HeardFirst

LEMMA HeardStep ==
  BaseInv /\ RouteInv /\ InboxExact /\ HeardInv /\ [RtdfNext]_rtdfVars => HeardInv'
<1> SUFFICES ASSUME BaseInv, RouteInv, InboxExact, HeardInv, [RtdfNext]_rtdfVars,
                    NEW m \in Messages
             PROVE  HeardFirst(m)'
  BY DEF HeardInv
<1>1. CASE result[m] = "Ok"
  BY <1>1, HeardKept DEF HeardInv
<1>2. CASE Taken(m)
  BY <1>2, HeardTaken
<1>3. CASE result[m] # "Ok" /\ ~Taken(m)
  <2>1. ASSUME NEW x \in Messages, Taken(x) PROVE result'[m] # "Ok"
    <3>1. x # m
      BY <1>3, <2>1
    <3>2. QED
      BY <1>3, <2>1, <3>1, TypeSplit DEF Taken, BaseInv, FlowType, FlowDomains
  <2>2. result'[m] # "Ok"
    BY <1>3, <2>1, InboxCases
  <2>3. QED
    BY <2>2 DEF HeardFirst
<1>4. QED
  BY <1>1, <1>2, <1>3

\* A Resident never gets a message from a newcomer it has not been told of, unless
\* its own mailbox refused the notice: what one flow promises holds in the other.
THEOREM NoticeBeforeMessageCorrect == RtdfSafetySpec => []NoticeBeforeMessage
<1>1. RtdfInit => HeardInv
  BY NoRouteAssumption DEF RtdfInit, HeardInv, HeardFirst, Results
<1>2. BaseInv /\ RouteInv /\ InboxExact /\ HeardInv => NoticeBeforeMessage
  <2> SUFFICES ASSUME BaseInv, RouteInv, InboxExact, HeardInv,
                      NEW r \in Residents, NEW m \in Accepted(r),
                      post[m].source > route[m].targetId,
                      \/ receipts[post[m].source] = None
                      \/ KeyOf[r] \notin receipts[post[m].source].failures
               PROVE  \E n \in 1..heard[m] : mailbox[r][n] = post[m].source
    BY DEF NoticeBeforeMessage
  <2>1. m \in Messages /\ result[m] = "Ok" /\ route[m] # None /\ route[m].mailbox = r
    BY AcceptedHeld DEF Held
  <2>2. receipts[post[m].source] # None
    BY <2>1 DEF RouteInv, RouteTrue
  <2>3. PICK n \in DOMAIN mailbox[r] : n <= heard[m] /\ mailbox[r][n] = post[m].source
    BY <2>1, <2>2 DEF HeardInv, HeardFirst
  <2>4. mailbox[r] \in Seq(Ids) /\ heard[m] \in Nat
    BY <2>1, TypeSplit DEF BaseInv, FlowType, FlowDomains, TypeOK
  <2>5. n \in 1..heard[m]
    BY <2>3, <2>4
  <2>6. QED
    BY <2>3, <2>5
<1>3. QED
  BY <1>1, <1>2, HeardStep, BaseInvCorrect, RouteInvCorrect, PTL DEF RtdfSafetySpec

----------------------------------------------------------------------------
\* The mark that a gate leaves, and no mark where there is no gate.
Mark(side, gate) == IF gate # None THEN <<<<side, gate>>>> ELSE <<>>

Through(r) == Mark("outbound", r.outbound) \o Mark("inbound", r.inbound)

\* At each stage a message went through the gates of its route that precede it.
Marks(m) ==
  /\ stage[m] = "outbound" => passed[m] = <<>>
  /\ stage[m] = "inbound" => passed[m] = Mark("outbound", route[m].outbound)
  /\ stage[m] = "deliver" \/ result[m] = "Ok" => passed[m] = Through(route[m])

MarksInv == \A m \in Messages : Marks(m)

\* A gate's mark comes after those that are there.
LEMMA MarkFacts ==
  ASSUME NEW g \in Residents, NEW q \in Residents \cup {None}
  PROVE  /\ Append(<<>>, <<"outbound", g>>) = Mark("outbound", g)
         /\ Append(Mark("outbound", q), <<"inbound", g>>)
              = Mark("outbound", q) \o Mark("inbound", g)
         /\ Mark("outbound", q) \o Mark("inbound", None) = Mark("outbound", q)
         /\ Mark("outbound", None) = <<>>
         /\ <<>> \o <<>> = <<>>
<1>1. g # None
  BY NoneAssumption
<1> DEFINE S == {"outbound", "inbound"} \X Residents
<1>2. Mark("outbound", q) \in Seq(S) /\ <<"outbound", g>> \in S /\ <<"inbound", g>> \in S
  BY DEF Mark
<1>3. Append(Mark("outbound", q), <<"inbound", g>>) = Mark("outbound", q) \o <<<<"inbound", g>>>>
  BY <1>2, AppendIsConcat
<1>4. Append(<<>>, <<"outbound", g>>) = <<<<"outbound", g>>>>
  OBVIOUS
<1>5. Mark("outbound", q) \o <<>> = Mark("outbound", q)
  BY <1>2, ConcatEmptySeq
<1>6. <<>> \o <<>> = <<>>
  OBVIOUS
<1>7. Mark("outbound", g) = <<<<"outbound", g>>>> /\ Mark("inbound", g) = <<<<"inbound", g>>>>
      /\ Mark("outbound", None) = <<>> /\ Mark("inbound", None) = <<>>
  BY <1>1 DEF Mark
<1>8. QED
  BY <1>3, <1>4, <1>5, <1>6, <1>7

\* A message none of whose parts changed keeps its marks.
LEMMA MarksUntouched ==
  ASSUME NEW m \in Messages, Marks(m), stage'[m] = stage[m], passed'[m] = passed[m],
         route'[m] = route[m], result'[m] = result[m]
  PROVE  Marks(m)'
BY DEF Marks

\* A failed send makes no claim about marks.
LEMMA MarksFailed ==
  ASSUME NEW m \in Messages, stage'[m] \notin {"outbound", "inbound", "deliver"},
         result'[m] # "Ok"
  PROVE  Marks(m)'
BY DEF Marks

LEMMA MarksResolve ==
  ASSUME BaseInv, NEW m \in Messages, Resolve(m)
  PROVE  Marks(m)'
<1>0. FlowDomains /\ Shape(m) /\ stage[m] = "spawned"
  BY TypeSplit DEF BaseInv, FlowType, Resolve
<1>1. passed'[m] = <<>> /\ result[m] = None
  BY <1>0 DEF Shape, Resolve
<1>2. CASE \E o \in {"UnknownSource", "UnknownTarget"} : Conclude(m, o)
  <2>1. stage'[m] = "respond" /\ result'[m] # "Ok"
    BY <1>0, <1>2 DEF Conclude, FlowDomains
  <2>2. QED
    BY <2>1, MarksFailed
<1>3. CASE \E found : /\ route' = [route EXCEPT ![m] = found]
                      /\ stage' = [stage EXCEPT ![m] = AfterResolve(found)]
                      /\ result' = result
  <2>1. PICK found : /\ route' = [route EXCEPT ![m] = found]
                     /\ stage' = [stage EXCEPT ![m] = AfterResolve(found)]
                     /\ result' = result
    BY <1>3
  <2>2. route'[m] = found /\ stage'[m] = AfterResolve(found) /\ result'[m] # "Ok"
    BY <1>0, <1>1, <2>1, NoRouteAssumption DEF FlowDomains, Results
  <2>3. CASE found.outbound # None
    BY <1>1, <2>2, <2>3 DEF AfterResolve, Marks
  <2>4. CASE found.outbound = None /\ found.inbound # None
    BY <1>1, <2>2, <2>4, MarkFacts DEF AfterResolve, AfterOutbound, Marks, Mark
  <2>5. CASE found.outbound = None /\ found.inbound = None
    <3>1. Through(found) = <<>>
      BY <2>5 DEF Through, Mark
    <3>2. QED
      BY <1>1, <2>2, <2>5, <3>1 DEF AfterResolve, AfterOutbound, Marks
  <2>6. QED
    BY <2>3, <2>4, <2>5
<1>4. QED
  BY <1>2, <1>3 DEF Resolve

LEMMA MarksPass ==
  ASSUME BaseInv, NEW m \in Messages, Marks(m), PassOutbound(m) \/ PassInbound(m)
  PROVE  Marks(m)'
<1>0. FlowDomains /\ Shape(m) /\ stage[m] \in {"outbound", "inbound"}
  BY TypeSplit DEF BaseInv, FlowType, PassOutbound, PassInbound
<1>1. route[m] # None /\ route' = route /\ result[m] = None
  BY <1>0 DEF Shape, PassOutbound, PassInbound
<1>2. route[m].outbound \in Residents \cup {None} /\ route[m].inbound \in Residents \cup {None}
  BY <1>0, <1>1 DEF FlowDomains, Resolutions
<1>3. CASE \E o \in {"OutboundGate", "InboundGate"} : Conclude(m, o)
  <2>1. stage'[m] = "respond" /\ result'[m] # "Ok"
    BY <1>0, <1>3 DEF Conclude, FlowDomains
  <2>2. QED
    BY <2>1, MarksFailed
<1>4. CASE /\ stage[m] = "outbound"
           /\ passed' = [passed EXCEPT ![m] = Append(@, <<"outbound", route[m].outbound>>)]
           /\ stage' = [stage EXCEPT ![m] = AfterOutbound(route[m])]
           /\ result' = result
  <2>1. route[m].outbound \in Residents /\ passed[m] = <<>>
    BY <1>0, <1>1, <1>2, <1>4 DEF Shape, Marks
  <2>2. passed'[m] = Mark("outbound", route[m].outbound)
    BY <1>0, <1>4, <2>1, MarkFacts DEF FlowDomains
  <2>3. stage'[m] = AfterOutbound(route[m]) /\ result'[m] # "Ok"
    BY <1>0, <1>1, <1>4, NoRouteAssumption DEF FlowDomains, Results
  <2>4. CASE route[m].inbound # None
    BY <1>1, <2>2, <2>3, <2>4 DEF AfterOutbound, Marks
  <2>5. CASE route[m].inbound = None
    <3>1. Through(route[m]) = Mark("outbound", route[m].outbound)
      BY <2>1, <2>5, MarkFacts DEF Through
    <3>2. QED
      BY <1>1, <2>2, <2>3, <2>5, <3>1 DEF AfterOutbound, Marks
  <2>6. QED
    BY <2>4, <2>5
<1>5. CASE /\ stage[m] = "inbound"
           /\ passed' = [passed EXCEPT ![m] = Append(@, <<"inbound", route[m].inbound>>)]
           /\ stage' = [stage EXCEPT ![m] = "deliver"]
           /\ result' = result
  <2>1. route[m].inbound \in Residents /\ passed[m] = Mark("outbound", route[m].outbound)
    BY <1>0, <1>2, <1>5 DEF Shape, Marks
  <2>2. passed'[m] = Through(route[m])
    BY <1>0, <1>2, <1>5, <2>1, MarkFacts DEF FlowDomains, Through
  <2>3. stage'[m] = "deliver"
    BY <1>0, <1>5 DEF FlowDomains
  <2>4. QED
    BY <1>1, <2>2, <2>3 DEF Marks
<1>6. QED
  BY <1>3, <1>4, <1>5 DEF PassOutbound, PassInbound

LEMMA MarksStep == BaseInv /\ MarksInv /\ [RtdfNext]_rtdfVars => MarksInv'
<1> SUFFICES ASSUME BaseInv, MarksInv, [RtdfNext]_rtdfVars, NEW m \in Messages
             PROVE  Marks(m)'
  BY DEF MarksInv
<1>0. FlowDomains /\ Shape(m) /\ QueueExact /\ Marks(m)
  BY TypeSplit DEF BaseInv, FlowType, MarksInv
<1>1. CASE RdfStep \/ DropHarness \/ UNCHANGED rtdfVars
  BY <1>0, <1>1, MarksUntouched DEF RdfStep, DropHarness, rtdfVars, flowVars
<1>2. CASE Spawn
  <2> DEFINE x == Head(routes)
  <2>1. x \in Messages /\ stage[x] = "queued"
    BY <1>0, <1>2 DEF Spawn, QueueExact, FlowDomains
  <2>2. /\ stage'[m] = IF m = x THEN "spawned" ELSE stage[m]
        /\ UNCHANGED <<passed, route, result>>
    BY <1>0, <1>2 DEF Spawn, FlowDomains
  <2>3. CASE m = x
    <3>1. result'[m] # "Ok"
      BY <1>0, <2>1, <2>2, <2>3, NoRouteAssumption DEF Shape, Results
    <3>2. QED
      BY <2>2, <2>3, <3>1, MarksFailed
  <2>4. CASE m # x
    BY <1>0, <2>2, <2>4, MarksUntouched
  <2>5. QED
    BY <2>3, <2>4
<1>3. CASE EndRtdfLoop
  <2>1. /\ passed' = passed /\ route' = route
        /\ stage'[m] = IF stage[m] = "queued" THEN "returned" ELSE stage[m]
        /\ result'[m] = IF stage[m] = "queued" THEN "PipelineUnavailable" ELSE result[m]
    BY <1>3 DEF EndRtdfLoop
  <2>2. QED
    BY <1>0, <2>1, MarksUntouched, MarksFailed
<1>4. ASSUME NEW x \in Messages, Send(x) PROVE Marks(m)'
  <2>1. /\ stage[x] = "unsent" /\ passed' = passed /\ route' = route
        /\ IF m = x THEN /\ stage'[m] \in {"queued", "returned"}
                         /\ result'[m] \in {result[m], "PipelineUnavailable"}
           ELSE stage'[m] = stage[m] /\ result'[m] = result[m]
    BY <1>0, <1>4 DEF Send, FlowDomains
  <2>2. CASE m = x
    <3>1. result'[m] # "Ok"
      BY <1>0, <2>1, <2>2, NoRouteAssumption DEF Shape, Results
    <3>2. QED
      BY <2>1, <2>2, <3>1, MarksFailed
  <2>3. CASE m # x
    BY <1>0, <2>1, <2>3, MarksUntouched
  <2>4. QED
    BY <2>2, <2>3
<1>5. ASSUME NEW x \in Messages, Step(x) PROVE Marks(m)'
  <2>1. CASE m # x
    <3>1. stage'[m] = stage[m] /\ passed'[m] = passed[m] /\ route'[m] = route[m]
          /\ result'[m] = result[m]
      BY <1>0, <1>5, <2>1 DEF Step, Resolve, PassOutbound, PassInbound, Deliver, Respond,
         EndTask, Conclude, FlowDomains
    <3>2. QED
      BY <1>0, <3>1, MarksUntouched
  <2>2. CASE m = x /\ Deliver(m)
    <3>1. /\ stage[m] = "deliver" /\ stage'[m] = "respond"
          /\ passed'[m] = passed[m] /\ route'[m] = route[m]
      BY <1>0, <2>2 DEF Deliver, Conclude, FlowDomains
    <3>2. QED
      BY <1>0, <3>1 DEF Marks
  <2>3. CASE m = x /\ (Respond(m) \/ EndTask(m))
    <3>1. /\ stage[m] \in {"respond", "answered"} /\ stage'[m] \in {"answered", "returned"}
          /\ passed'[m] = passed[m] /\ route'[m] = route[m] /\ result'[m] = result[m]
      BY <1>0, <2>3 DEF Respond, EndTask, FlowDomains
    <3>2. QED
      BY <1>0, <3>1 DEF Marks
  <2>4. QED
    BY <1>0, <1>5, <2>1, <2>2, <2>3, MarksResolve, MarksPass DEF Step
<1>6. QED
  BY <1>1, <1>2, <1>3, <1>4, <1>5 DEF RtdfNext

\* A delivered message is in a mailbox of its target's name, and went through the
\* gates of the two Residents that were registered when it was routed, in order.
THEOREM GatesInOrderCorrect == RtdfSafetySpec => []GatesInOrder
<1>1. RtdfInit => MarksInv
  BY NoRouteAssumption DEF RtdfInit, MarksInv, Marks, Results
<1>2. BaseInv /\ RouteInv /\ InboxExact /\ MarksInv => GatesInOrder
  <2> SUFFICES ASSUME BaseInv, RouteInv, InboxExact, MarksInv,
                      NEW r \in Residents, NEW m \in Accepted(r)
               PROVE  /\ KeyOf[r] = post[m].target
                      /\ KeyOf[Sender(m)] = route[m].sourceKey
                      /\ passed[m] =
                           (IF Sender(m) \in OutboundGated
                              THEN <<<<"outbound", Sender(m)>>>> ELSE <<>>)
                           \o (IF r \in InboundGated THEN <<<<"inbound", r>>>> ELSE <<>>)
    BY DEF GatesInOrder, Sender
  <2>1. m \in Messages /\ result[m] = "Ok" /\ route[m] # None /\ route[m].mailbox = r
    BY AcceptedHeld DEF Held
  <2>2. /\ KeyOf[Sender(m)] = route[m].sourceKey /\ KeyOf[r] = post[m].target
        /\ Sender(m) \in Residents
        /\ route[m].outbound = GateOf(Sender(m), OutboundGated)
        /\ route[m].inbound = GateOf(r, InboundGated)
    BY <2>1 DEF RouteInv, RouteTrue
  <2>3. passed[m] = Through(route[m])
    BY <2>1 DEF MarksInv, Marks
  <2>4. Sender(m) # None /\ r # None
    BY <2>2, NoneAssumption
  <2>5. QED
    BY <2>2, <2>3, <2>4 DEF Through, Mark, GateOf
<1>3. QED
  BY <1>1, <1>2, MarksStep, BaseInvCorrect, RouteInvCorrect, PTL DEF RtdfSafetySpec
============================================================================
