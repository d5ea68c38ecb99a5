--------------------------- MODULE SessionQueues ---------------------------
(***************************************************************************)
(* petals.server.handler.TransformerConnectionHandler: how the requests of *)
(* an inference session reach the handler that runs it.  A step arrives    *)
(* twice: from the client, on the stream of the session, and possibly      *)
(* before or long after that from the server of the previous blocks, which *)
(* calls rpc_push on any handler of this server.  Handlers are processes;  *)
(* each keeps its own view of which handler runs which session, fed by     *)
(* event queues, and forwards pushes accordingly.                          *)
(*                                                                         *)
(* A handler runs one event loop: the code between two awaits is one step  *)
(* here.  Steps of a session are numbered; the number stands for step_id   *)
(* and for the tensors.  0 is the request without tensors that ends a      *)
(* session.                                                                *)
(***************************************************************************)
EXTENDS Integers, Sequences, FiniteSets

CONSTANTS
  Handlers,  \* handler processes of one server
  Sessions,  \* inference sessions, each with an id of its own
  Owner,     \* Owner[s]: the handler that gets the rpc_inference call of s
  MaxSteps,  \* bound: steps of one session
  Nobody     \* no entry in _session_handlers

ASSUME QueuesAssumption ==
  /\ Owner \in [Sessions -> Handlers]
  /\ MaxSteps \in Nat \ {0}
  /\ Nobody \notin Handlers

VARIABLES
  started,    \* started[s]: steps the client has begun, here or at previous servers
  sent,       \* steps the client has sent to this server
  stream,     \* requests on the stream of each session
  pushes,     \* pushes[s]: steps a previous server may still push
  phase,      \* phase[s]: where rpc_inference is
  request,    \* the request it looks at
  processed,  \* processed_step_ids
  applied,    \* history variable: steps handed to iterate_rpc_inference
  responses,  \* answers given to the client
  queues,     \* _session_queues of the owner
  exists,     \* whether the owner has a queue for s
  view,       \* view[h][s]: _session_handlers of h
  events      \* event queue of each handler

client == <<started, sent>>
vars == <<started, sent, stream, pushes, phase, request, processed, applied,
          responses, queues, exists, view, events>>

Steps == 1 .. MaxSteps
Requests == 0 .. MaxSteps
Events == [kind : {"new", "end", "push"}, session : Sessions, step : Requests]

Init ==
  /\ started = [s \in Sessions |-> 0]
  /\ sent = [s \in Sessions |-> 0]
  /\ stream = [s \in Sessions |-> <<>>]
  /\ pushes = [s \in Sessions |-> {}]
  /\ phase = [s \in Sessions |-> "none"]
  /\ request = [s \in Sessions |-> 0]
  /\ processed = [s \in Sessions |-> {}]
  /\ applied = [s \in Sessions |-> <<>>]
  /\ responses = [s \in Sessions |-> 0]
  /\ queues = [s \in Sessions |-> <<>>]
  /\ exists = [s \in Sessions |-> FALSE]
  /\ view = [h \in Handlers |-> [s \in Sessions |-> Nobody]]
  /\ events = [h \in Handlers |-> <<>>]

-----------------------------------------------------------------------------
\* The client of a session, and the server that runs the blocks before.

\* A step begins when the one before is answered; unless this server has the
\* first blocks, its inputs come from a server that may push them here as well.
Start(s) ==
  /\ started[s] < MaxSteps /\ phase[s] # "closed"
  /\ sent[s] = started[s] /\ responses[s] = started[s]
  /\ started' = [started EXCEPT ![s] = @ + 1]
  /\ pushes' = [pushes EXCEPT ![s] = @ \cup {started[s] + 1}]
  /\ UNCHANGED <<sent, stream, phase, request, processed, applied, responses,
                 queues, exists, view, events>>

SendOwn(s) ==
  /\ sent[s] < started[s]
  /\ sent' = [sent EXCEPT ![s] = @ + 1]
  /\ stream' = [stream EXCEPT ![s] = Append(@, sent[s] + 1)]
  /\ UNCHANGED <<started, pushes, phase, request, processed, applied, responses,
                 queues, exists, view, events>>

\* _aclose_stream of the client.
Finish(s) ==
  /\ responses[s] > 0 /\ sent[s] = started[s] /\ responses[s] = started[s]
  /\ phase[s] # "closed" /\ stream[s] = <<>>
  /\ stream' = [stream EXCEPT ![s] = <<0>>]
  /\ UNCHANGED <<client, pushes, phase, request, processed, applied, responses,
                 queues, exists, view, events>>

-----------------------------------------------------------------------------
\* rpc_inference and _iterate_inference_steps, in the owner's event loop.

Broadcast(s, e) ==
  events' = [h \in Handlers |->
    IF h = Owner[s] THEN events[h] ELSE Append(events[h], [kind |-> e, session |-> s, step |-> 0])]

\* The first request arrives; its cache is allocated before anyone hears of the
\* session.
Receive(s) ==
  /\ phase[s] = "none" /\ stream[s] # <<>>
  /\ phase' = [phase EXCEPT ![s] = "allocating"]
  /\ request' = [request EXCEPT ![s] = Head(stream[s])]
  /\ stream' = [stream EXCEPT ![s] = Tail(@)]
  /\ UNCHANGED <<client, pushes, processed, applied, responses, queues, exists, view, events>>

\* There is memory: _managed_session makes the queue and tells the others.
Register(s) ==
  /\ phase[s] = "allocating"
  /\ phase' = [phase EXCEPT ![s] = "looking"]
  /\ exists' = [exists EXCEPT ![s] = TRUE]
  /\ view' = [view EXCEPT ![Owner[s]][s] = Owner[s]]
  /\ Broadcast(s, "new")
  /\ UNCHANGED <<client, stream, pushes, request, processed, applied, responses, queues>>

\* AllocationFailed, or the client is gone: no session was registered.
Refuse(s) ==
  /\ phase[s] = "allocating"
  /\ phase' = [phase EXCEPT ![s] = "closed"]
  /\ UNCHANGED <<client, stream, pushes, request, processed, applied, responses,
                 queues, exists, view, events>>

\* Mutant of Look: the request without tensors is a step as well.
LookPastEnd(s) ==
  /\ phase[s] = "looking"
  /\ phase' = [phase EXCEPT ![s] = "computing"]
  /\ applied' = [applied EXCEPT ![s] = Append(@, request[s])]
  /\ UNCHANGED <<client, stream, pushes, request, processed, responses, queues, exists, view, events>>

\* Mutant of Look: a step is processed however it arrives.
LookAlways(s) ==
  /\ phase[s] = "looking" /\ request[s] # 0
  /\ phase' = [phase EXCEPT ![s] = "computing"]
  /\ applied' = [applied EXCEPT ![s] = Append(@, request[s])]
  /\ UNCHANGED <<client, stream, pushes, request, processed, responses, queues, exists, view, events>>

\* A new step is yielded, a known one is dropped.
Look(s) ==
  /\ phase[s] = "looking" /\ request[s] # 0
  /\ IF request[s] \in processed[s]
       THEN phase' = [phase EXCEPT ![s] = "waiting"] /\ UNCHANGED applied
       ELSE /\ phase' = [phase EXCEPT ![s] = "computing"]
            /\ applied' = [applied EXCEPT ![s] = Append(@, request[s])]
  /\ UNCHANGED <<client, stream, pushes, request, processed, responses, queues, exists, view, events>>

\* Mutant of Respond: the step is not remembered.
RespondForgetting(s) ==
  /\ phase[s] = "computing"
  /\ phase' = [phase EXCEPT ![s] = "waiting"]
  /\ responses' = [responses EXCEPT ![s] = @ + 1]
  /\ UNCHANGED <<client, stream, pushes, request, processed, applied, queues, exists, view, events>>

\* Mutant of Respond: the wrong step is remembered.
RespondRememberingNext(s) ==
  /\ phase[s] = "computing"
  /\ phase' = [phase EXCEPT ![s] = "waiting"]
  /\ responses' = [responses EXCEPT ![s] = @ + 1]
  /\ processed' = [processed EXCEPT ![s] = @ \cup {request[s] + 1}]
  /\ UNCHANGED <<client, stream, pushes, request, applied, queues, exists, view, events>>

\* The step's outputs go to the client; then the generator is resumed.
Respond(s) ==
  /\ phase[s] = "computing"
  /\ phase' = [phase EXCEPT ![s] = "waiting"]
  /\ responses' = [responses EXCEPT ![s] = @ + 1]
  /\ processed' = [processed EXCEPT ![s] = @ \cup {request[s]}]
  /\ UNCHANGED <<client, stream, pushes, request, applied, queues, exists, view, events>>

\* asyncio.wait: whichever of the two sources is ready; if both are, the stream's
\* task is preferred, but it may not have run yet.
TakeOwn(s) ==
  /\ phase[s] = "waiting" /\ stream[s] # <<>>
  /\ request' = [request EXCEPT ![s] = Head(stream[s])]
  /\ stream' = [stream EXCEPT ![s] = Tail(@)]
  /\ phase' = [phase EXCEPT ![s] = "looking"]
  /\ UNCHANGED <<client, pushes, processed, applied, responses, queues, exists, view, events>>

TakePush(s) ==
  /\ phase[s] = "waiting" /\ queues[s] # <<>>
  /\ request' = [request EXCEPT ![s] = Head(queues[s])]
  /\ queues' = [queues EXCEPT ![s] = Tail(@)]
  /\ phase' = [phase EXCEPT ![s] = "looking"]
  /\ UNCHANGED <<client, stream, pushes, processed, applied, responses, exists, view, events>>

\* Mutant of Leave: other handlers are not told.
LeaveQuietly(s) ==
  /\ phase' = [phase EXCEPT ![s] = "closed"]
  /\ queues' = [queues EXCEPT ![s] = <<>>]
  /\ exists' = [exists EXCEPT ![s] = FALSE]
  /\ view' = [view EXCEPT ![Owner[s]][s] = Nobody]
  /\ UNCHANGED <<client, stream, pushes, request, processed, applied, responses, events>>

\* The finally clause of _managed_session.
Leave(s) ==
  /\ phase' = [phase EXCEPT ![s] = "closed"]
  /\ queues' = [queues EXCEPT ![s] = <<>>]
  /\ exists' = [exists EXCEPT ![s] = FALSE]
  /\ view' = [view EXCEPT ![Owner[s]][s] = Nobody]
  /\ Broadcast(s, "end")
  /\ UNCHANGED <<client, stream, pushes, request, processed, applied, responses>>

End(s) == phase[s] = "looking" /\ request[s] = 0 /\ Leave(s)

\* step_timeout while waiting, session_timeout at any await, or the client is gone.
Abandon(s) == phase[s] \in {"waiting", "computing"} /\ Leave(s)

-----------------------------------------------------------------------------
\* rpc_push arrives at handler h.

Push(h, s, k) ==
  /\ k \in pushes[s]
  /\ pushes' = [pushes EXCEPT ![s] = @ \ {k}]
  /\ CASE view[h][s] = Nobody -> UNCHANGED <<queues, events>>
       [] view[h][s] = h -> /\ queues' = [queues EXCEPT ![s] = Append(@, k)]
                            /\ UNCHANGED events
       [] OTHER -> /\ events' = [events EXCEPT ![view[h][s]] =
                        Append(@, [kind |-> "push", session |-> s, step |-> k])]
                   /\ UNCHANGED queues
  /\ UNCHANGED <<client, stream, phase, request, processed, applied, responses, exists, view>>

\* Mutant of Listen: a push is queued whether or not its session is still there.
ListenBlindly(h) ==
  /\ events[h] # <<>>
  /\ events' = [events EXCEPT ![h] = Tail(@)]
  /\ LET e == Head(events[h]) IN
     /\ view' = CASE e.kind = "new" -> [view EXCEPT ![h][e.session] = Owner[e.session]]
                  [] e.kind = "end" -> [view EXCEPT ![h][e.session] = Nobody]
                  [] OTHER -> view
     /\ queues' = IF e.kind = "push"
                    THEN [queues EXCEPT ![e.session] = Append(@, e.step)] ELSE queues
  /\ UNCHANGED <<client, stream, pushes, phase, request, processed, applied, responses, exists>>

\* _listen_to_event_queue.
Listen(h) ==
  /\ events[h] # <<>>
  /\ events' = [events EXCEPT ![h] = Tail(@)]
  /\ LET e == Head(events[h]) IN
     /\ view' = CASE e.kind = "new" -> [view EXCEPT ![h][e.session] = Owner[e.session]]
                  [] e.kind = "end" -> [view EXCEPT ![h][e.session] = Nobody]
                  [] OTHER -> view
     /\ queues' = IF e.kind = "push" /\ exists[e.session]
                    THEN [queues EXCEPT ![e.session] = Append(@, e.step)] ELSE queues
  /\ UNCHANGED <<client, stream, pushes, phase, request, processed, applied, responses, exists>>

-----------------------------------------------------------------------------
Serve(s) == Receive(s) \/ Register(s) \/ Look(s) \/ Respond(s) \/ TakeOwn(s) \/ TakePush(s) \/ End(s)

Next ==
  \/ \E s \in Sessions : Start(s) \/ SendOwn(s) \/ Finish(s) \/ Refuse(s) \/ Serve(s) \/ Abandon(s)
  \/ \E h \in Handlers, s \in Sessions, k \in Steps : Push(h, s, k)
  \/ \E h \in Handlers : Listen(h)

Spec == Init /\ [][Next]_vars

\* Event loops run on.  Clients, previous servers and timeouts promise nothing.
Fairness ==
  /\ \A s \in Sessions : WF_vars(Serve(s))
  /\ \A h \in Handlers : WF_vars(Listen(h))

FairSpec == Spec /\ Fairness

-----------------------------------------------------------------------------
\* Properties.

\* Every variable keeps its type.
TypeOK ==
  /\ started \in [Sessions -> Requests] /\ sent \in [Sessions -> Requests]
  /\ stream \in [Sessions -> Seq(Requests)]
  /\ pushes \in [Sessions -> SUBSET Steps]
  /\ phase \in [Sessions -> {"none", "allocating", "looking", "computing", "waiting", "closed"}]
  /\ request \in [Sessions -> Requests]
  /\ processed \in [Sessions -> SUBSET Steps]
  /\ applied \in [Sessions -> Seq(Steps)]
  /\ responses \in [Sessions -> Requests]
  /\ queues \in [Sessions -> Seq(Steps)]
  /\ exists \in [Sessions -> BOOLEAN]
  /\ view \in [Handlers -> [Sessions -> Handlers \cup {Nobody}]]
  /\ events \in [Handlers -> Seq(Events)]

\* Whichever copies of a step arrive, and however late, the attention cache sees
\* every step once and in order.
StepsApplyOnce == \A s \in Sessions : applied[s] = [i \in 1 .. Len(applied[s]) |-> i]

\* The client reads one answer per step, of that step: answers are never ahead
\* of the steps it began.
AnswersMatch == \A s \in Sessions : responses[s] <= started[s]

\* A step is applied once, in order, and answered once, whoever brings it first.
StepsAnsweredOnce == StepsApplyOnce /\ AnswersMatch

\* The queue of a session exists while its owner's view says so (rpc_push would
\* raise otherwise), and a session that ended leaves no request behind in it.
QueueWithOwner ==
  \A s \in Sessions :
    /\ exists[s] = (view[Owner[s]][s] = Owner[s])
    /\ ~exists[s] => queues[s] = <<>>

\* The shared views of the sessions: of their types, and a queue exists only with its owner.
QueuesConsistent == TypeOK /\ QueueWithOwner

\* Every step the client sent is answered, unless the session was abandoned.
EveryStepAnswered ==
  \A s \in Sessions : \A k \in Steps :
    sent[s] >= k ~> responses[s] >= k \/ phase[s] = "closed"

\* Handlers forget a session that ended: no view keeps it for ever.
ViewsForget ==
  \A s \in Sessions : phase[s] = "closed" ~> \A h \in Handlers : view[h][s] = Nobody
=============================================================================
