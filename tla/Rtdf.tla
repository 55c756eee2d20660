------------------------------- MODULE Rtdf -------------------------------
(***************************************************************************)
(* The message data flow, src/rtdf.rs, together with the registration flow  *)
(* it resolves routes in and the NormaHarness that owns both.  A send is    *)
(* queued on RTDF's channel; the loop spawns one independent task per send, *)
(* which copies the endpoints out of the directory under its read lock and  *)
(* only then runs the asynchronous gates and the target's mailbox.          *)
(*                                                                          *)
(* Data abstraction.  A message is a model value that is sent at most once, *)
(* by any program that holds a MessageSender.  A gate that lets a message   *)
(* through leaves its mark in passed.  A message accepted by a mailbox is   *)
(* kept in inbox, apart from the notices in Rdf's mailbox; heard records    *)
(* where among them it came.                                                *)
(***************************************************************************)
EXTENDS Rdf

CONSTANTS
    Messages,
    OutboundGated,  \* Residents whose outbound_gate() is Some
    InboundGated    \* Residents whose inbound_gate() is Some

ASSUME GatedAssumption == /\ OutboundGated \subseteq Residents
                          /\ InboundGated \subseteq Residents

\* RouteResolution.  The code copies the two gates and the mailbox; here they
\* are named by their owners.  targetId is history: the code does not keep it.
Resolutions == [sourceKey : Keys, outbound : Residents \cup {None},
                inbound : Residents \cup {None}, mailbox : Residents,
                targetId : Ids]

\* The arguments of a send, RouteCommand without its oneshot.
Posts == [source : Ids, target : Keys]

Results == {"Ok", "UnknownSource", "UnknownTarget", "OutboundGate",
            "InboundGate", "TargetMailbox", "PipelineUnavailable"}

\* The task of a message exists, and with it its Arc<RtdfCore>; when "answered"
\* its sender has the result already.
Working == {"spawned", "outbound", "inbound", "deliver", "respond", "answered"}

Returned == {"answered", "returned"}

Stages == {"unsent", "queued", "returned"} \cup Working

ASSUME NoRouteAssumption == None \notin Resolutions \cup Posts \cup Results

VARIABLES
    harness,   \* the NormaHarness, and in it Rtdf with its Arc<RtdfCore>, exists
    routes,    \* RTDF's command channel
    rtdfLoop,  \* "running" or "ended"
    stage,     \* per message: how far its send has come
    post,      \* per message: the arguments of the send
    route,     \* per message: what resolve_route copied
    passed,    \* per message: the gates it went through
    result,    \* per message: the result of the send
    inbox,     \* per Resident: the messages its mailbox accepted, in order
    heard,     \* history: how many notices preceded the message in the mailbox
    before     \* history: what was over when the send was called

flowVars == <<routes, rtdfLoop, stage, post, route, passed, result, inbox,
              heard, before>>

rdfVars == <<directory, commands, serving, broadcast, loop, call, mailbox, receipts>>

rtdfVars == <<vars, harness, flowVars>>

RtdfInit ==
    /\ Init
    /\ harness = TRUE
    /\ routes = <<>>
    /\ rtdfLoop = "running"
    /\ stage = [m \in Messages |-> "unsent"]
    /\ post = [m \in Messages |-> None]
    /\ route = [m \in Messages |-> None]
    /\ passed = [m \in Messages |-> <<>>]
    /\ result = [m \in Messages |-> None]
    /\ inbox = [r \in Residents |-> <<>>]
    /\ heard = [m \in Messages |-> 0]
    /\ before = [m \in Messages |-> [returned |-> {}, retired |-> {}]]

----------------------------------------------------------------------------
InFlight == {m \in Messages : stage[m] \in Working}

CoreAlive == harness \/ InFlight # {}

\* Whether that Arc<Rdf> remains.  Slip: a cycle keeps it.
StillOwnedForever(h, tasks) == TRUE
StillOwned(h, tasks) == h \/ tasks # {}

\* MessageSender::send up to the await of the response.
Send(m) ==
    /\ stage[m] = "unsent"
    /\ \E i \in Disclosed, k \in Keys : post' = [post EXCEPT ![m] = [source |-> i, target |-> k]]
    /\ before' = [before EXCEPT ![m] =
                    [returned |-> {n \in Messages : stage[n] \in Returned},
                     retired |-> {i \in Ids : Retired(i)}]]
    /\ IF rtdfLoop = "running"
         THEN /\ routes' = Append(routes, m)
              /\ stage' = [stage EXCEPT ![m] = "queued"]
              /\ UNCHANGED result
         ELSE /\ stage' = [stage EXCEPT ![m] = "returned"]
              /\ result' = [result EXCEPT ![m] = "PipelineUnavailable"]
              /\ UNCHANGED routes
    /\ UNCHANGED <<vars, harness, rtdfLoop, route, passed, inbox, heard>>

\* The loop takes a command, upgrades its Weak<RtdfCore> and spawns the task.
Spawn ==
    /\ rtdfLoop = "running"
    /\ CoreAlive
    /\ routes # <<>>
    /\ routes' = Tail(routes)
    /\ stage' = [stage EXCEPT ![Head(routes)] = "spawned"]
    /\ UNCHANGED <<vars, harness, rtdfLoop, post, route, passed, result, inbox,
                   heard, before>>

\* Slip: the queued senders are kept.
EndRtdfLoopSilently ==
    /\ rtdfLoop = "running"
    /\ ~CoreAlive
    /\ rtdfLoop' = "ended"
    /\ UNCHANGED <<vars, harness, routes, stage, post, route, passed, result, inbox, heard, before>>

\* The core is gone: the loop breaks and drops the queued commands.
EndRtdfLoop ==
    /\ rtdfLoop = "running"
    /\ ~CoreAlive
    /\ rtdfLoop' = "ended"
    /\ routes' = <<>>
    /\ stage' = [m \in Messages |-> IF stage[m] = "queued" THEN "returned" ELSE stage[m]]
    /\ result' = [m \in Messages |-> IF stage[m] = "queued" THEN "PipelineUnavailable"
                                     ELSE result[m]]
    /\ UNCHANGED <<vars, harness, post, route, passed, inbox, heard, before>>

----------------------------------------------------------------------------
\* The task of m has its result and is about to send the response.
ConcludeLeniently(m, outcome) ==
    /\ stage' = [stage EXCEPT ![m] = "respond"]
    /\ result' = [result EXCEPT ![m] = IF outcome = "TargetMailbox" THEN "Ok" ELSE outcome]

Conclude(m, outcome) ==
    /\ stage' = [stage EXCEPT ![m] = "respond"]
    /\ result' = [result EXCEPT ![m] = outcome]

AfterOutboundUngated(r) == "deliver"
AfterOutbound(r) == IF r.inbound # None THEN "inbound" ELSE "deliver"

AfterResolve(r) == IF r.outbound # None THEN "outbound" ELSE AfterOutbound(r)

GateOf(r, gated) == IF r \in gated THEN r ELSE None

\* The name of a source.  Slip: it is remembered from its
\* registration as long as someone has it.
SourceKeyRemembered(i) ==
    IF receipts[i] # None /\ residents[KeyOf[receipts[i].resident]] # None
      THEN KeyOf[receipts[i].resident] ELSE byInstance[i]
SourceKey(i) == byInstance[i]

\* resolve_route under the directory's read lock: source first, then target.
Resolve(m) ==
    /\ stage[m] = "spawned"
    /\ LET i == post[m].source
           k == post[m].target
       IN \/ /\ SourceKey(i) = None
             /\ Conclude(m, "UnknownSource")
             /\ UNCHANGED route
          \/ /\ SourceKey(i) # None
             /\ residents[k] = None
             /\ Conclude(m, "UnknownTarget")
             /\ UNCHANGED route
          \/ /\ SourceKey(i) # None
             /\ residents[k] # None
             /\ LET sourceKey == SourceKey(i)
                    found == [sourceKey |-> sourceKey,
                              outbound |-> GateOf(residents[sourceKey].mailbox, OutboundGated),
                              inbound |-> GateOf(residents[k].mailbox, InboundGated),
                              mailbox |-> residents[k].mailbox,
                              targetId |-> residents[k].id]
                IN /\ route' = [route EXCEPT ![m] = found]
                   /\ stage' = [stage EXCEPT ![m] = AfterResolve(found)]
             /\ UNCHANGED result
    /\ UNCHANGED <<vars, harness, routes, rtdfLoop, post, passed, inbox, heard, before>>

\* The source's outbound gate completes: it passes the message on or refuses.
PassOutbound(m) ==
    /\ stage[m] = "outbound"
    /\ \/ /\ passed' = [passed EXCEPT ![m] = Append(@, <<"outbound", route[m].outbound>>)]
          /\ stage' = [stage EXCEPT ![m] = AfterOutbound(route[m])]
          /\ UNCHANGED result
       \/ Conclude(m, "OutboundGate") /\ UNCHANGED passed
    /\ UNCHANGED <<vars, harness, routes, rtdfLoop, post, route, inbox, heard, before>>

PassInbound(m) ==
    /\ stage[m] = "inbound"
    /\ \/ /\ passed' = [passed EXCEPT ![m] = Append(@, <<"inbound", route[m].inbound>>)]
          /\ stage' = [stage EXCEPT ![m] = "deliver"]
          /\ UNCHANGED result
       \/ Conclude(m, "InboundGate") /\ UNCHANGED passed
    /\ UNCHANGED <<vars, harness, routes, rtdfLoop, post, route, inbox, heard, before>>

\* A mailbox keeps the order of its deliveries.
Accept(r, m) == [inbox EXCEPT ![r] = Append(@, m)]

\* Deliver to the mailbox copied at resolution; a full or closed one refuses.
Deliver(m) ==
    /\ stage[m] = "deliver"
    /\ LET r == route[m].mailbox
       IN \/ /\ inbox' = Accept(r, m)
             /\ heard' = [heard EXCEPT ![m] = Len(mailbox[r])]
             /\ Conclude(m, "Ok")
          \/ Conclude(m, "TargetMailbox") /\ UNCHANGED <<inbox, heard>>
    /\ UNCHANGED <<vars, harness, routes, rtdfLoop, post, route, passed, before>>

\* The task sends the response, which ends the send.
Respond(m) ==
    /\ stage[m] = "respond"
    /\ stage' = [stage EXCEPT ![m] = "answered"]
    /\ UNCHANGED <<vars, harness, routes, rtdfLoop, post, route, passed, result,
                   inbox, heard, before>>

\* The task ends; its Arc<RtdfCore> goes with it.
EndTask(m) ==
    /\ stage[m] = "answered"
    /\ stage' = [stage EXCEPT ![m] = "returned"]
    /\ owned' = StillOwned(harness, InFlight \ {m})
    /\ UNCHANGED <<rdfVars, harness, routes, rtdfLoop, post, route, passed, result,
                   inbox, heard, before>>

Step(m) == \/ Resolve(m) \/ PassOutbound(m) \/ PassInbound(m) \/ Deliver(m)
           \/ Respond(m) \/ EndTask(m)

\* The application drops the NormaHarness, its Rdf and Rtdf included.
DropHarness ==
    /\ harness
    /\ harness' = FALSE
    /\ owned' = StillOwned(FALSE, InFlight)
    /\ UNCHANGED <<rdfVars, flowVars>>

\* A step of RDF's own, which leaves RTDF alone.
RdfStep ==
    /\ \/ \E c \in Callers : Register(c) \/ Unregister(c) \/ Abandon(c)
       \/ Loop
    /\ UNCHANGED <<harness, flowVars>>

RtdfNext ==
    \/ RdfStep
    \/ \E m \in Messages : Send(m) \/ Step(m)
    \/ Spawn
    \/ EndRtdfLoop
    \/ DropHarness

RtdfSafetySpec == RtdfInit /\ [][RtdfNext]_rtdfVars

\* Tokio polls both loops and every spawned task; a gate's future completes.
RtdfSpec ==
    /\ RtdfSafetySpec
    /\ WF_rtdfVars(Loop /\ UNCHANGED <<harness, flowVars>>)
    /\ WF_rtdfVars(Spawn \/ EndRtdfLoop)
    /\ \A m \in Messages : WF_rtdfVars(Step(m))

----------------------------------------------------------------------------
RtdfTypeOK ==
    /\ TypeOK
    /\ harness \in BOOLEAN
    /\ owned = CoreAlive
    /\ routes \in Seq(Messages)
    /\ rtdfLoop \in {"running", "ended"}
    /\ stage \in [Messages -> Stages]
    /\ post \in [Messages -> Posts \cup {None}]
    /\ route \in [Messages -> Resolutions \cup {None}]
    /\ passed \in [Messages -> Seq({"outbound", "inbound"} \X Residents)]
    /\ result \in [Messages -> Results \cup {None}]
    /\ inbox \in [Residents -> Seq(Messages)]
    /\ heard \in [Messages -> Nat]
    /\ before \in [Messages -> [returned : SUBSET Messages, retired : SUBSET Ids]]

Accepted(r) == {inbox[r][n] : n \in DOMAIN inbox[r]}

Delivered == UNION {Accepted(r) : r \in Residents}

\* "RTDF refuses instance 17 as a source after it was removed" (ARCHITECTURE 7),
\* and the same for the target: the endpoints are copied and used after the
\* lock, yet a message never travels from, or to, a registration that was over
\* before its send was called, even when the name has a new holder.
NoStaleRoute ==
    \A m \in Delivered :
      /\ post[m].source \notin before[m].retired
      /\ route[m].targetId \notin before[m].retired

\* A delivered message is in a mailbox of the name it was sent to, went through
\* the source's outbound gate first and the target's inbound gate second, and
\* through the gates of those two Residents, not of their successors.
GatesInOrder ==
    \A r \in Residents : \A m \in Accepted(r) :
      LET s == receipts[post[m].source].resident
      IN /\ KeyOf[r] = post[m].target
         /\ KeyOf[s] = route[m].sourceKey
         /\ passed[m] = (IF s \in OutboundGated THEN <<<<"outbound", s>>>> ELSE <<>>)
                        \o (IF r \in InboundGated THEN <<<<"inbound", r>>>> ELSE <<>>)

\* A Resident is told of a newcomer before it gets the first message from it:
\* the notice is broadcast before the newcomer learns its own id.
NoticeBeforeMessage ==
    \A r \in Residents : \A m \in Accepted(r) :
      LET s == post[m].source
      IN /\ s > route[m].targetId
         /\ receipts[s] = None \/ KeyOf[r] \notin receipts[s].failures
         => \E n \in 1..heard[m] : mailbox[r][n] = s

\* Sends that do not overlap arrive in the order they were made, although each
\* has a task of its own: a message whose send had returned when m was sent is
\* never behind m in a mailbox.
RealTimeOrder ==
    \A r \in Residents : \A j, n \in DOMAIN inbox[r] :
      j < n => inbox[r][n] \notin before[inbox[r][j]].returned

\* The result tells the truth: Ok exactly when one mailbox accepted the message,
\* once; an error means that nobody has it or ever will.
ResultTruthful ==
    \A m \in Messages :
      /\ stage[m] \in Returned => (result[m] = "Ok" <=> m \in Delivered)
      /\ \A r, q \in Residents : \A j \in DOMAIN inbox[r], n \in DOMAIN inbox[q] :
           inbox[r][j] = m /\ inbox[q][n] = m => r = q /\ j = n

\* Every send returns, whatever the gates and mailboxes answer and whenever the
\* harness is dropped.
SendsReturn == \A m \in Messages : stage[m] # "unsent" ~> stage[m] \in Returned

\* Dropping the harness ends both loops: no cycle of references keeps RDF alive.
DropEndsLoops == ~harness ~> (loop = "ended" /\ rtdfLoop = "ended")
============================================================================
