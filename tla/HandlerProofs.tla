---------------------------- MODULE HandlerProofs ----------------------------
(***************************************************************************)
(* Theorems about the components that answer requests, which MCHandler     *)
(* checks side by side on small instances:                                 *)
(*   SessionQueues  for every set of handlers and sessions and every       *)
(*                  number of steps, the attention cache of a session sees *)
(*                  each step once and in order whichever copies arrive,   *)
(*                  and the owner of a session has a queue exactly while   *)
(*                  its view says so,                                      *)
(*   BlockRequests  for every set of requests and calls, adapters and      *)
(*                  parts, an answer is the work of the whole chain the    *)
(*                  call names, block by block and in order,               *)
(*   BlockCache     for any numbers of beams, blocks and positions and any *)
(*                  size of chunks, every hidden state a step returns is   *)
(*                  of the tokens of its own beam up to its own position,  *)
(*   AttentionBlock for every model family, numbers of heads and groups,   *)
(*                  batch sizes and chunk lengths, a query head is given   *)
(*                  the keys of its own row and group in the order of the  *)
(*                  tokens, right but for one position of Falcon's table.  *)
(***************************************************************************)
EXTENDS SessionQueues, SequenceTheorems, SumProofs

-----------------------------------------------------------------------------
(* The queues of sessions.                                                 *)

\* The inductive invariant, on top of TypeOK.

\* The client begins a step once the one before is answered, so every copy of a
\* request, wherever it is, is of a step that began, and at most one step has
\* begun that is not answered.
CopiesBegan ==
  \A s \in Sessions :
    /\ responses[s] <= started[s] /\ started[s] <= responses[s] + 1
    /\ sent[s] <= started[s]
    /\ request[s] <= started[s]
    /\ \A k \in pushes[s] : k <= started[s]
    /\ \A i \in 1 .. Len(stream[s]) : stream[s][i] <= started[s]
    /\ \A i \in 1 .. Len(queues[s]) : queues[s][i] <= started[s]

\* News of a step is of one that began; a session's owner hears of nothing else.
EventRight(h, e) ==
  IF e.kind = "push" THEN e.step \in 1 .. started[e.session] ELSE h # Owner[e.session]

EventsRight == \A h \in Handlers : \A i \in 1 .. Len(events[h]) : EventRight(h, events[h][i])

\* What the owner remembers of the steps it applied, by the place its loop is at.
Progress ==
  \A s \in Sessions :
    /\ phase[s] \in {"none", "allocating"} =>
         applied[s] = <<>> /\ responses[s] = 0 /\ processed[s] = {}
    /\ phase[s] \in {"looking", "waiting"} =>
         responses[s] = Len(applied[s]) /\ processed[s] = 1 .. Len(applied[s])
    /\ phase[s] = "computing" =>
         /\ Len(applied[s]) > 0 /\ request[s] = Len(applied[s])
         /\ responses[s] = Len(applied[s]) - 1 /\ processed[s] = 1 .. (Len(applied[s]) - 1)
         /\ Len(applied[s]) <= started[s]

\* A handler knows no owner of a session but the right one.
ViewsRight == \A h \in Handlers, s \in Sessions : view[h][s] \in {Nobody, Owner[s]}

StepsInv == TypeOK /\ CopiesBegan /\ EventsRight /\ Progress /\ StepsApplyOnce
IInv == StepsInv /\ ViewsRight /\ QueueWithOwner

-----------------------------------------------------------------------------
\* Queues: what adding at the end and taking from the front leave in place.

LEMMA AppendElements ==
  ASSUME NEW S, NEW q \in Seq(S), NEW x \in S
  PROVE /\ Append(q, x) \in Seq(S) /\ Len(Append(q, x)) = Len(q) + 1
        /\ \A i \in 1 .. Len(Append(q, x)) :
             (i \in 1 .. Len(q) /\ Append(q, x)[i] = q[i]) \/ Append(q, x)[i] = x
BY AppendProperties

LEMMA TailElements ==
  ASSUME NEW S, NEW q \in Seq(S), q # <<>>
  PROVE /\ Tail(q) \in Seq(S) /\ 1 \in 1 .. Len(q) /\ Head(q) = q[1] /\ Head(q) \in S
        /\ \A i \in 1 .. Len(Tail(q)) : i + 1 \in 1 .. Len(q) /\ Tail(q)[i] = q[i + 1]
<1>1. Len(q) \in Nat \ {0} /\ q[1] \in S
  BY LenProperties, EmptySeq
<1> QED
  BY <1>1, HeadTailProperties

-----------------------------------------------------------------------------
\* Types.

LEMMA InitTyped == Init => TypeOK
<1> SUFFICES ASSUME Init PROVE TypeOK
  OBVIOUS
<1> USE QueuesAssumption
<1>1. 0 \in Requests
  BY DEF Requests
<1>2. <<>> \in Seq(Requests) /\ <<>> \in Seq(Steps) /\ <<>> \in Seq(Events)
  BY EmptySeq
<1> QED
  BY <1>1, <1>2 DEF Init, TypeOK

\* An action that Leave and the client's, the handler's and the listener's steps
\* are made of keeps every type.
LEMMA BroadcastTyped ==
  ASSUME TypeOK, NEW s \in Sessions, NEW e \in {"new", "end"}, Broadcast(s, e)
  PROVE events' \in [Handlers -> Seq(Events)]
<1>1. [kind |-> e, session |-> s, step |-> 0] \in Events
  BY QueuesAssumption DEF Events, Requests
<1>2. \A h \in Handlers :
        Append(events[h], [kind |-> e, session |-> s, step |-> 0]) \in Seq(Events)
  BY <1>1, AppendElements DEF TypeOK
<1> QED
  BY <1>2 DEF Broadcast, TypeOK

\* The three ways of a push: nobody runs the session, this handler does, or the
\* one it knows of is told.
LEMMA PushCases ==
  ASSUME NEW h \in Handlers, NEW s \in Sessions, NEW k \in Steps, Push(h, s, k)
  PROVE \/ view[h][s] = Nobody /\ queues' = queues /\ events' = events
        \/ view[h][s] = h /\ queues' = [queues EXCEPT ![s] = Append(@, k)] /\ events' = events
        \/ /\ view[h][s] # Nobody /\ view[h][s] # h /\ queues' = queues
           /\ events' = [events EXCEPT ![view[h][s]] =
                           Append(@, [kind |-> "push", session |-> s, step |-> k])]
<1>1. CASE view[h][s] = Nobody
  BY <1>1, Zenon DEF Push
<1>2. CASE view[h][s] # Nobody /\ view[h][s] = h
  BY <1>2, Zenon DEF Push
<1>3. CASE view[h][s] # Nobody /\ view[h][s] # h
  BY <1>3, Zenon DEF Push
<1> QED
  BY <1>1, <1>2, <1>3

LEMMA StepTyped == TypeOK /\ CopiesBegan /\ Progress /\ EventsRight /\ [Next]_vars => TypeOK'
<1> SUFFICES ASSUME TypeOK, CopiesBegan, Progress, EventsRight, [Next]_vars PROVE TypeOK'
  OBVIOUS
<1> USE QueuesAssumption DEF TypeOK, Requests, Steps, client
<1>1. ASSUME NEW s \in Sessions, Start(s) PROVE TypeOK'
  BY <1>1 DEF Start
<1>2. ASSUME NEW s \in Sessions, SendOwn(s) PROVE TypeOK'
  <2>1. sent[s] + 1 \in Requests
    BY <1>2 DEF SendOwn
  <2>2. Append(stream[s], sent[s] + 1) \in Seq(Requests)
    BY <2>1, AppendElements
  <2> QED
    BY <1>2, <2>1, <2>2 DEF SendOwn
<1>3. ASSUME NEW s \in Sessions, Finish(s) PROVE TypeOK'
  <2>1. <<0>> \in Seq(Requests)
    OBVIOUS
  <2> QED
    BY <1>3, <2>1 DEF Finish
<1>4. ASSUME NEW s \in Sessions, Receive(s) PROVE TypeOK'
  <2>1. Head(stream[s]) \in Requests /\ Tail(stream[s]) \in Seq(Requests)
    BY <1>4, TailElements DEF Receive
  <2> QED
    BY <1>4, <2>1 DEF Receive
<1>5. ASSUME NEW s \in Sessions, Register(s) PROVE TypeOK'
  <2>1. events' \in [Handlers -> Seq(Events)]
    BY <1>5, BroadcastTyped DEF Register
  <2> QED
    BY <1>5, <2>1 DEF Register
<1>6. ASSUME NEW s \in Sessions, Refuse(s) PROVE TypeOK'
  BY <1>6 DEF Refuse
<1>7. ASSUME NEW s \in Sessions, Look(s) PROVE TypeOK'
  <2>1. request[s] \in Steps
    BY <1>7 DEF Look
  <2>2. Append(applied[s], request[s]) \in Seq(Steps)
    BY <2>1, AppendElements
  <2>3. CASE request[s] \in processed[s]
    BY <1>7, <2>3 DEF Look
  <2>4. CASE request[s] \notin processed[s]
    <3>1. phase' = [phase EXCEPT ![s] = "computing"] /\ applied' = [applied EXCEPT ![s] = Append(@, request[s])]
      BY <1>7, <2>4 DEF Look
    <3>2. applied' \in [Sessions -> Seq(Steps)]
      BY <2>2, <3>1
    <3> QED
      BY <1>7, <3>1, <3>2 DEF Look
  <2> QED
    BY <2>3, <2>4
<1>8. ASSUME NEW s \in Sessions, Respond(s) PROVE TypeOK'
  <2>1. responses[s] + 1 \in Requests /\ request[s] \in Steps
    BY <1>8 DEF Respond, Progress
  <2> QED
    BY <1>8, <2>1 DEF Respond
<1>9. ASSUME NEW s \in Sessions, TakeOwn(s) PROVE TypeOK'
  <2>1. Head(stream[s]) \in Requests /\ Tail(stream[s]) \in Seq(Requests)
    BY <1>9, TailElements DEF TakeOwn
  <2> QED
    BY <1>9, <2>1 DEF TakeOwn
<1>10. ASSUME NEW s \in Sessions, TakePush(s) PROVE TypeOK'
  <2>1. Head(queues[s]) \in Steps /\ Tail(queues[s]) \in Seq(Steps)
    BY <1>10, TailElements DEF TakePush
  <2> QED
    BY <1>10, <2>1, SMTT(30) DEF TakePush
<1>11. ASSUME NEW s \in Sessions, Leave(s) PROVE TypeOK'
  <2>1. events' \in [Handlers -> Seq(Events)]
    BY <1>11, BroadcastTyped DEF Leave
  <2>2. <<>> \in Seq(Steps)
    BY EmptySeq
  <2> QED
    BY <1>11, <2>1, <2>2 DEF Leave
<1>12. ASSUME NEW h \in Handlers, NEW s \in Sessions, NEW k \in Steps, Push(h, s, k) PROVE TypeOK'
  <2>1. Append(queues[s], k) \in Seq(Steps)
    BY AppendElements
  <2>2. [kind |-> "push", session |-> s, step |-> k] \in Events
    BY DEF Events
  <2>3. \A g \in Handlers :
          Append(events[g], [kind |-> "push", session |-> s, step |-> k]) \in Seq(Events)
    BY <2>2, AppendElements
  <2>4. CASE view[h][s] = Nobody /\ queues' = queues /\ events' = events
    BY <1>12, <2>4 DEF Push
  <2>5. CASE queues' = [queues EXCEPT ![s] = Append(@, k)] /\ events' = events
    BY <1>12, <2>1, <2>5 DEF Push
  <2>6. CASE /\ events' = [events EXCEPT ![view[h][s]] =
                     Append(@, [kind |-> "push", session |-> s, step |-> k])]
             /\ view[h][s] # Nobody /\ queues' = queues
    BY <1>12, <2>3, <2>6 DEF Push
  <2> QED
    BY <1>12, <2>4, <2>5, <2>6, PushCases
<1>13. ASSUME NEW h \in Handlers, Listen(h) PROVE TypeOK'
  <2> DEFINE e == Head(events[h])
  <2>1. e \in Events /\ Tail(events[h]) \in Seq(Events) /\ e = events[h][1] /\ 1 \in 1 .. Len(events[h])
    BY <1>13, TailElements DEF Listen
  <2>2. e.session \in Sessions /\ Owner[e.session] \in Handlers
    BY <2>1 DEF Events
  <2>3. e.kind = "push" => e.step \in Steps
    BY <2>1, <2>2, SMTT(30) DEF EventsRight, EventRight, Events, TypeOK
  <2>4. e.kind = "push" => Append(queues[e.session], e.step) \in Seq(Steps)
    BY <2>2, <2>3, AppendElements
  <2>5. events' \in [Handlers -> Seq(Events)]
    BY <1>13, <2>1 DEF Listen
  <2>6. view' \in [Handlers -> [Sessions -> Handlers \cup {Nobody}]]
    BY <1>13, <2>2 DEF Listen
  <2>7. queues' \in [Sessions -> Seq(Steps)]
    BY <1>13, <2>2, <2>4 DEF Listen
  <2> QED
    BY <1>13, <2>5, <2>6, <2>7 DEF Listen
<1>14. ASSUME UNCHANGED vars PROVE TypeOK'
  BY <1>14 DEF vars
<1> QED
  BY <1>1, <1>2, <1>3, <1>4, <1>5, <1>6, <1>7, <1>8, <1>9, <1>10, <1>11, <1>12, <1>13, <1>14
     DEF Next, Serve, End, Abandon

-----------------------------------------------------------------------------
\* No copy of a step travels before the step begins.

LEMMA StepCopiesBegan ==
  TypeOK /\ CopiesBegan /\ Progress /\ EventsRight /\ [Next]_vars => CopiesBegan'
<1> SUFFICES ASSUME TypeOK, CopiesBegan, Progress, EventsRight, [Next]_vars PROVE CopiesBegan'
  OBVIOUS
<1> USE QueuesAssumption DEF CopiesBegan, Requests, Steps, client
<1>1. ASSUME NEW s \in Sessions, Start(s) PROVE CopiesBegan'
  <2>1. \A t \in Sessions : started[t] <= started'[t]
    BY <1>1 DEF Start, TypeOK
  <2>2. \A t \in Sessions : \A k \in pushes'[t] : k <= started'[t]
    BY <1>1, <2>1 DEF Start, TypeOK
  <2>3. \A t \in Sessions : /\ \A i \in 1 .. Len(stream[t]) : stream[t][i] <= started'[t]
                            /\ \A i \in 1 .. Len(queues[t]) : queues[t][i] <= started'[t]
    <3> SUFFICES ASSUME NEW t \in Sessions
                 PROVE /\ \A i \in 1 .. Len(stream[t]) : stream[t][i] <= started'[t]
                       /\ \A i \in 1 .. Len(queues[t]) : queues[t][i] <= started'[t]
      OBVIOUS
    <3>1. stream[t] \in Seq(Requests) /\ queues[t] \in Seq(Steps)
      BY DEF TypeOK
    <3>2. /\ \A i \in 1 .. Len(stream[t]) : stream[t][i] \in Int
          /\ \A i \in 1 .. Len(queues[t]) : queues[t][i] \in Int
      BY <3>1, ElementOfSeq
    <3>3. started[t] \in Int /\ started'[t] \in Int /\ started[t] <= started'[t]
      BY <1>1, <2>1, SMTT(30) DEF Start, TypeOK
    <3>4. /\ \A i \in 1 .. Len(stream[t]) : stream[t][i] <= started[t]
          /\ \A i \in 1 .. Len(queues[t]) : queues[t][i] <= started[t]
      OBVIOUS
    <3> HIDE DEF CopiesBegan, Requests, Steps
    <3> QED
      BY <3>2, <3>3, <3>4
  <2>4. \A t \in Sessions : /\ responses[t] <= started'[t] /\ started'[t] <= responses[t] + 1
                            /\ sent[t] <= started'[t] /\ request[t] <= started'[t]
    BY <1>1, <2>1, SMTT(30) DEF Start, TypeOK
  <2> QED
    BY <1>1, <2>2, <2>3, <2>4 DEF Start
<1>2. ASSUME NEW s \in Sessions, SendOwn(s) PROVE CopiesBegan'
  <2>1. sent[s] + 1 \in Requests
    BY <1>2 DEF SendOwn, TypeOK
  <2>2. \A i \in 1 .. Len(stream'[s]) : stream'[s][i] <= started[s]
    BY <1>2, <2>1, AppendElements, SMTT(30) DEF SendOwn, TypeOK
  <2>3. stream' = [stream EXCEPT ![s] = Append(@, sent[s] + 1)]
    BY <1>2 DEF SendOwn
  <2>4. \A t \in Sessions : \A i \in 1 .. Len(stream'[t]) : stream'[t][i] <= started[t]
    BY <2>2, <2>3 DEF TypeOK
  <2>5. \A t \in Sessions : sent'[t] <= started[t]
    BY <1>2 DEF SendOwn, TypeOK
  <2> QED
    BY <1>2, <2>4, <2>5 DEF SendOwn
<1>3. ASSUME NEW s \in Sessions, Finish(s) PROVE CopiesBegan'
  BY <1>3 DEF Finish, TypeOK
<1>4. ASSUME NEW s \in Sessions, Receive(s) \/ TakeOwn(s) PROVE CopiesBegan'
  <2>1. stream[s] \in Seq(Requests) /\ stream[s] # <<>>
    BY <1>4 DEF Receive, TakeOwn, TypeOK
  <2>2. Head(stream[s]) <= started[s]
    BY <2>1, TailElements
  <2>3. \A i \in 1 .. Len(Tail(stream[s])) : Tail(stream[s])[i] <= started[s]
    BY <2>1, TailElements
  <2>4. /\ request' = [request EXCEPT ![s] = Head(stream[s])]
        /\ stream' = [stream EXCEPT ![s] = Tail(@)]
        /\ UNCHANGED <<started, sent, responses, pushes, queues>>
    BY <1>4 DEF Receive, TakeOwn, client
  <2>5. \A t \in Sessions : request'[t] <= started[t]
    BY <2>2, <2>4 DEF TypeOK
  <2>6. \A t \in Sessions : stream'[t] = IF t = s THEN Tail(stream[s]) ELSE stream[t]
    BY <2>4 DEF TypeOK
  <2>7. \A t \in Sessions : \A i \in 1 .. Len(stream'[t]) : stream'[t][i] <= started[t]
    BY <2>3, <2>6
  <2> QED
    BY <2>4, <2>5, <2>7
<1>5. ASSUME NEW s \in Sessions, Register(s) PROVE CopiesBegan'
  BY <1>5 DEF Register, TypeOK
<1>6. ASSUME NEW s \in Sessions, Refuse(s) \/ Look(s) PROVE CopiesBegan'
  BY <1>6 DEF Refuse, Look, TypeOK
<1>7. ASSUME NEW s \in Sessions, Respond(s) PROVE CopiesBegan'
  BY <1>7, SMTT(30) DEF Respond, TypeOK, Progress
<1>8. ASSUME NEW s \in Sessions, TakePush(s) PROVE CopiesBegan'
  <2>1. queues[s] \in Seq(Steps) /\ queues[s] # <<>>
    BY <1>8 DEF TakePush, TypeOK
  <2>2. Head(queues[s]) <= started[s]
    BY <2>1, TailElements
  <2>3. \A i \in 1 .. Len(Tail(queues[s])) : Tail(queues[s])[i] <= started[s]
    BY <2>1, TailElements
  <2> QED
    BY <1>8, <2>2, <2>3 DEF TakePush, TypeOK
<1>9. ASSUME NEW s \in Sessions, Leave(s) PROVE CopiesBegan'
  BY <1>9, SMTT(30) DEF Leave, TypeOK
<1>10. ASSUME NEW h \in Handlers, NEW s \in Sessions, NEW k \in Steps, Push(h, s, k) PROVE CopiesBegan'
  <2>1. k <= started[s]
    BY <1>10 DEF Push
  <2>2. queues[s] \in Seq(Steps)
    BY DEF TypeOK
  <2>3. \A i \in 1 .. Len(Append(queues[s], k)) : Append(queues[s], k)[i] <= started[s]
    BY <2>1, <2>2, AppendElements
  <2>4. queues' = queues \/ queues' = [queues EXCEPT ![s] = Append(@, k)]
    BY <1>10, PushCases
  <2>5. \A t \in Sessions : \A i \in 1 .. Len(queues'[t]) : queues'[t][i] <= started[t]
    BY <2>3, <2>4 DEF TypeOK
  <2> QED
    BY <1>10, <2>5 DEF Push, TypeOK
<1>11. ASSUME NEW h \in Handlers, Listen(h) PROVE CopiesBegan'
  <2> DEFINE e == Head(events[h])
  <2>1. e \in Events /\ e = events[h][1] /\ 1 \in 1 .. Len(events[h])
    BY <1>11, TailElements DEF Listen, TypeOK
  <2>2. e.session \in Sessions
    BY <2>1 DEF Events
  <2>3. e.kind = "push" => e.step \in Steps /\ e.step <= started[e.session]
    <3>1. EventRight(h, e)
      BY <2>1 DEF EventsRight
    <3>2. started[e.session] \in 0 .. MaxSteps
      BY <2>2 DEF TypeOK
    <3> QED
      BY <3>1, <3>2 DEF EventRight
  <2>4. queues' = queues \/ (e.kind = "push" /\ queues' = [queues EXCEPT ![e.session] = Append(@, e.step)])
    BY <1>11 DEF Listen
  <2>5. e.kind = "push" => \A i \in 1 .. Len(Append(queues[e.session], e.step)) :
                             Append(queues[e.session], e.step)[i] <= started[e.session]
    <3> SUFFICES ASSUME e.kind = "push"
                 PROVE \A i \in 1 .. Len(Append(queues[e.session], e.step)) :
                         Append(queues[e.session], e.step)[i] <= started[e.session]
      OBVIOUS
    <3>1. queues[e.session] \in Seq(Steps)
      BY <2>2 DEF TypeOK
    <3> QED
      BY <2>2, <2>3, <3>1, AppendElements, SMTT(30)
  <2>6. \A t \in Sessions : \A i \in 1 .. Len(queues'[t]) : queues'[t][i] <= started[t]
    <3> SUFFICES ASSUME NEW t \in Sessions PROVE \A i \in 1 .. Len(queues'[t]) : queues'[t][i] <= started[t]
      OBVIOUS
    <3>1. \A i \in 1 .. Len(queues[t]) : queues[t][i] <= started[t]
      BY <2>2
    <3>2. \/ queues'[t] = queues[t]
          \/ e.kind = "push" /\ t = e.session /\ queues'[t] = Append(queues[e.session], e.step)
      BY <2>4 DEF TypeOK
    <3> QED
      BY <2>5, <3>1, <3>2, Zenon
  <2> QED
    BY <1>11, <2>6 DEF Listen, TypeOK
<1>12. ASSUME UNCHANGED vars PROVE CopiesBegan'
  BY <1>12 DEF vars
<1> QED
  BY <1>1, <1>2, <1>3, <1>4, <1>5, <1>6, <1>7, <1>8, <1>9, <1>10, <1>11, <1>12
     DEF Next, Serve, End, Abandon

LEMMA EventTyped ==
  ASSUME TypeOK PROVE \A h \in Handlers : \A i \in 1 .. Len(events[h]) : events[h][i] \in Events
<1> SUFFICES ASSUME NEW h \in Handlers, NEW i \in 1 .. Len(events[h]) PROVE events[h][i] \in Events
  OBVIOUS
<1>1. events[h] \in Seq(Events)
  BY DEF TypeOK
<1> QED
  BY <1>1, ElementOfSeq

LEMMA StepEventsRight ==
  TypeOK /\ CopiesBegan /\ EventsRight /\ ViewsRight /\ [Next]_vars => EventsRight' /\ ViewsRight'
<1> SUFFICES ASSUME TypeOK, CopiesBegan, EventsRight, ViewsRight, [Next]_vars
             PROVE EventsRight' /\ ViewsRight'
  OBVIOUS
<1> USE QueuesAssumption
<1>0. \A s \in Sessions : started[s] \in Nat
  BY DEF TypeOK, Requests
<1>1. ASSUME NEW s \in Sessions, Start(s) PROVE EventsRight' /\ ViewsRight'
  <2>1. \A t \in Sessions : started[t] <= started'[t] /\ started'[t] \in Nat
    BY <1>0, <1>1 DEF Start, TypeOK
  <2>2. events' = events /\ view' = view
    BY <1>1 DEF Start
  <2>3. \A h \in Handlers : \A i \in 1 .. Len(events[h]) : EventRight(h, events[h][i])'
    <3> SUFFICES ASSUME NEW h \in Handlers, NEW i \in 1 .. Len(events[h])
                 PROVE EventRight(h, events[h][i])'
      OBVIOUS
    <3> DEFINE e == events[h][i]
    <3>1. e \in Events /\ EventRight(h, e)
      BY EventTyped DEF EventsRight
    <3>2. EventRight(h, e)'
      <4> HIDE DEF e
      <4>1. e' = e
        BY <2>2 DEF e
      <4>2. e.session \in Sessions /\ e.step \in Int
        BY <3>1 DEF Events, Requests
      <4> QED
        BY <1>0, <2>1, <3>1, <4>1, <4>2 DEF EventRight
    <3> QED
      BY <3>2
  <2> QED
    BY <2>2, <2>3 DEF EventsRight, ViewsRight
<1>2. ASSUME NEW s \in Sessions, Register(s) \/ Leave(s) PROVE EventsRight' /\ ViewsRight'
  <2>1. PICK k \in {"new", "end"} : Broadcast(s, k)
    BY <1>2 DEF Register, Leave
  <2> DEFINE e == [kind |-> k, session |-> s, step |-> 0]
  <2>2. e \in Events
    BY DEF Events, Requests
  <2>3. \A h \in Handlers : \A i \in 1 .. Len(events'[h]) : EventRight(h, events'[h][i])
    <3> SUFFICES ASSUME NEW h \in Handlers, NEW i \in 1 .. Len(events'[h])
                 PROVE EventRight(h, events'[h][i])
      OBVIOUS
    <3>1. CASE h = Owner[s]
      BY <2>1, <3>1 DEF Broadcast, EventsRight
    <3>2. CASE h # Owner[s]
      <4>1. events'[h] = Append(events[h], e)
        BY <2>1, <3>2 DEF Broadcast
      <4>2. events[h] \in Seq(Events)
        BY DEF TypeOK
      <4>3. events'[h][i] = e \/ (i \in 1 .. Len(events[h]) /\ events'[h][i] = events[h][i])
        BY <2>2, <4>1, <4>2, AppendElements
      <4>4. EventRight(h, e)
        BY <3>2 DEF EventRight
      <4> QED
        BY <4>3, <4>4 DEF EventsRight
    <3> QED
      BY <3>1, <3>2
  <2>4. started' = started
    BY <1>2 DEF Register, Leave, client
  <2>5. view' = [view EXCEPT ![Owner[s]][s] = Owner[s]] \/ view' = [view EXCEPT ![Owner[s]][s] = Nobody]
    BY <1>2 DEF Register, Leave
  <2>6. ViewsRight'
    <3> SUFFICES ASSUME NEW h \in Handlers, NEW t \in Sessions PROVE view'[h][t] \in {Nobody, Owner[t]}
      BY DEF ViewsRight
    <3>1. view[h] \in [Sessions -> Handlers \cup {Nobody}] /\ view[h][t] \in {Nobody, Owner[t]}
      BY DEF ViewsRight, TypeOK
    <3>2. view'[h][t] = view[h][t] \/ (t = s /\ view'[h][t] \in {Nobody, Owner[s]})
      <4>1. PICK x \in {Nobody, Owner[s]} : view' = [view EXCEPT ![Owner[s]][s] = x]
        BY <2>5
      <4>2. view'[h] = IF h = Owner[s] THEN [view[h] EXCEPT ![s] = x] ELSE view[h]
        BY <4>1 DEF TypeOK
      <4> QED
        BY <3>1, <4>2
    <3> QED
      BY <3>1, <3>2
  <2> QED
    BY <2>3, <2>4, <2>6 DEF EventsRight, EventRight
<1>3. ASSUME NEW h \in Handlers, NEW s \in Sessions, NEW k \in Steps, Push(h, s, k)
      PROVE EventsRight' /\ ViewsRight'
  <2> DEFINE e == [kind |-> "push", session |-> s, step |-> k]
  <2>1. started' = started /\ view' = view
    BY <1>3 DEF Push, client
  <2>2. k \in 1 .. started[s] /\ e \in Events
    BY <1>0, <1>3 DEF Push, CopiesBegan, Steps, Events, Requests
  <2>3. \A g \in Handlers : events'[g] = events[g] \/ events'[g] = Append(events[g], e)
    <3>1. events' = events \/ events' = [events EXCEPT ![view[h][s]] = Append(@, e)]
      BY <1>3, PushCases
    <3> QED
      BY <3>1 DEF TypeOK
  <2>4. \A g \in Handlers : EventRight(g, e)
    BY <2>2 DEF EventRight
  <2>5. ASSUME NEW g \in Handlers, NEW i \in 1 .. Len(events'[g]) PROVE EventRight(g, events'[g][i])
    <3>1. events[g] \in Seq(Events)
      BY DEF TypeOK
    <3>2. events'[g][i] = e \/ (i \in 1 .. Len(events[g]) /\ events'[g][i] = events[g][i])
      BY <2>2, <2>3, <3>1, AppendElements
    <3> QED
      BY <2>4, <3>2 DEF EventsRight
  <2> QED
    BY <2>1, <2>5 DEF EventsRight, EventRight, ViewsRight
<1>4. ASSUME NEW h \in Handlers, Listen(h) PROVE EventsRight' /\ ViewsRight'
  <2> DEFINE e == Head(events[h])
  <2>1. events[h] \in Seq(Events) /\ events[h] # <<>>
    BY <1>4 DEF Listen, TypeOK
  <2>2. e.session \in Sessions
    <3>1. e \in Events
      BY <2>1, TailElements
    <3> QED
      BY <3>1 DEF Events
  <2>3. \A i \in 1 .. Len(Tail(events[h])) : EventRight(h, Tail(events[h])[i])
    BY <2>1, TailElements DEF EventsRight
  <2>4. events' = [events EXCEPT ![h] = Tail(@)] /\ started' = started
    BY <1>4 DEF Listen, client
  <2>5. \A g \in Handlers : \A i \in 1 .. Len(events'[g]) : EventRight(g, events'[g][i])
    BY <2>3, <2>4 DEF EventsRight, TypeOK
  <2>6. ViewsRight'
    BY <1>4, <2>2 DEF Listen, ViewsRight, TypeOK
  <2> QED
    BY <2>4, <2>5, <2>6 DEF EventsRight, EventRight
<1>5. ASSUME UNCHANGED <<started, events, view>> PROVE EventsRight' /\ ViewsRight'
  BY <1>5 DEF EventsRight, EventRight, ViewsRight
<1>6. ASSUME NEW s \in Sessions,
             SendOwn(s) \/ Finish(s) \/ Refuse(s) \/ Receive(s) \/ Look(s) \/ Respond(s)
               \/ TakeOwn(s) \/ TakePush(s)
      PROVE UNCHANGED <<started, events, view>>
  BY <1>6 DEF SendOwn, Finish, Refuse, Receive, Look, Respond, TakeOwn, TakePush, client
<1> QED
  BY <1>1, <1>2, <1>3, <1>4, <1>5, <1>6 DEF Next, Serve, End, Abandon, vars

-----------------------------------------------------------------------------
\* A step is applied when it is the next one: the steps remembered are exactly
\* those before it, and no later one has begun.

LEMMA StepProgress ==
  TypeOK /\ CopiesBegan /\ Progress /\ StepsApplyOnce /\ [Next]_vars => Progress' /\ StepsApplyOnce'
<1> SUFFICES ASSUME TypeOK, CopiesBegan, Progress, StepsApplyOnce, [Next]_vars
             PROVE Progress' /\ StepsApplyOnce'
  OBVIOUS
<1> USE QueuesAssumption
<1>1. ASSUME NEW s \in Sessions, Look(s) PROVE Progress' /\ StepsApplyOnce'
  <2> DEFINE n == Len(applied[s])
  <2>1. /\ responses[s] = n /\ processed[s] = 1 .. n /\ n \in Nat /\ request[s] \in 1 .. started[s]
        /\ started[s] \in Nat /\ started[s] <= n + 1
    <3>1. applied[s] \in Seq(Steps) /\ request[s] \in Nat /\ started[s] \in Nat /\ responses[s] \in Nat
      BY DEF TypeOK, Requests
    <3> QED
      BY <1>1, <3>1, LenProperties DEF Look, Progress, CopiesBegan
  <2>2. UNCHANGED <<started, request, processed, responses>>
    BY <1>1 DEF Look, client
  <2>3. CASE request[s] \in processed[s]
    BY <1>1, <2>2, <2>3 DEF Look, Progress, StepsApplyOnce, TypeOK
  <2>4. CASE request[s] \notin processed[s]
    <3>1. request[s] = n + 1
      BY <2>1, <2>4
    <3>2. /\ phase' = [phase EXCEPT ![s] = "computing"]
          /\ applied' = [applied EXCEPT ![s] = Append(@, request[s])]
      BY <1>1, <2>4 DEF Look
    <3>3. applied'[s] = [i \in 1 .. Len(applied'[s]) |-> i] /\ Len(applied'[s]) = n + 1
      <4>1. applied[s] \in Seq(Steps) /\ applied'[s] = Append(applied[s], n + 1)
        BY <3>1, <3>2 DEF TypeOK
      <4>2. applied[s] = [i \in 1 .. n |-> i]
        BY DEF StepsApplyOnce
      <4> HIDE DEF n
      <4>3. Append(applied[s], n + 1) = [i \in 1 .. n + 1 |-> i] /\ Len(Append(applied[s], n + 1)) = n + 1
        BY <2>1, <4>1, <4>2
      <4> QED
        BY <4>1, <4>3
    <3>4. \A t \in Sessions \ {s} : applied'[t] = applied[t] /\ phase'[t] = phase[t]
      BY <3>2 DEF TypeOK
    <3>5. phase'[s] = "computing"
      BY <3>2 DEF TypeOK
    <3>6. StepsApplyOnce'
      BY <3>3, <3>4 DEF StepsApplyOnce
    <3>7. Progress'
      BY <2>1, <2>2, <3>1, <3>3, <3>4, <3>5 DEF Progress
    <3> QED
      BY <3>6, <3>7
  <2> QED
    BY <2>3, <2>4
<1>2. ASSUME NEW s \in Sessions, Respond(s) PROVE Progress' /\ StepsApplyOnce'
  <2>1. applied[s] \in Seq(Steps) /\ responses[s] \in Nat /\ request[s] \in Nat
    BY DEF TypeOK, Requests
  <2>2. Len(applied[s]) \in Nat
    BY <2>1, LenProperties
  <2>3. (1 .. (Len(applied[s]) - 1)) \cup {Len(applied[s])} = 1 .. Len(applied[s])
    BY <1>2, <2>2 DEF Respond, Progress
  <2>4. /\ applied' = applied /\ started' = started /\ request' = request
        /\ phase' = [phase EXCEPT ![s] = "waiting"]
        /\ responses' = [responses EXCEPT ![s] = @ + 1]
        /\ processed' = [processed EXCEPT ![s] = @ \cup {request[s]}]
    BY <1>2 DEF Respond, client
  <2>5. responses'[s] = Len(applied[s]) /\ processed'[s] = 1 .. Len(applied[s])
    BY <1>2, <2>1, <2>2, <2>3, <2>4 DEF Respond, Progress, TypeOK
  <2> QED
    BY <2>4, <2>5 DEF Progress, StepsApplyOnce, TypeOK
<1>3. ASSUME NEW s \in Sessions, Start(s) PROVE Progress' /\ StepsApplyOnce'
  <2>1. \A t \in Sessions : Len(applied[t]) \in Nat /\ started[t] \in Nat
    <3> SUFFICES ASSUME NEW t \in Sessions PROVE Len(applied[t]) \in Nat /\ started[t] \in Nat
      OBVIOUS
    <3>1. applied[t] \in Seq(Steps)
      BY DEF TypeOK
    <3> QED
      BY <3>1, LenProperties DEF TypeOK, Requests
  <2>2. started' = [started EXCEPT ![s] = @ + 1]
    BY <1>3 DEF Start
  <2>3. \A t \in Sessions : started'[t] \in Nat /\ started[t] <= started'[t]
    BY <2>1, <2>2 DEF TypeOK
  <2> QED
    BY <1>3, <2>1, <2>3 DEF Start, Progress, StepsApplyOnce
<1>4. ASSUME NEW s \in Sessions, Receive(s) \/ Register(s) \/ Refuse(s) \/ TakeOwn(s) \/ TakePush(s) \/ Leave(s)
      PROVE Progress' /\ StepsApplyOnce'
  <2>1. applied[s] = <<>> => Len(applied[s]) = 0 /\ {} = 1 .. Len(applied[s])
    OBVIOUS
  <2>2. UNCHANGED <<started, applied, responses, processed>>
    BY <1>4 DEF Receive, Register, Refuse, TakeOwn, TakePush, Leave, client
  <2>3. \A t \in Sessions \ {s} : phase'[t] = phase[t] /\ request'[t] = request[t]
    BY <1>4 DEF Receive, Register, Refuse, TakeOwn, TakePush, Leave, TypeOK
  <2>4. \/ phase[s] \in {"none", "allocating"} /\ phase'[s] \in {"allocating", "looking", "closed"}
        \/ phase[s] = "waiting" /\ phase'[s] = "looking"
        \/ phase'[s] = "closed"
    BY <1>4 DEF Receive, Register, Refuse, TakeOwn, TakePush, Leave, TypeOK
  <2>5. StepsApplyOnce'
    BY <2>2 DEF StepsApplyOnce
  <2>6. Progress'
    BY <2>1, <2>2, <2>3, <2>4 DEF Progress
  <2> QED
    BY <2>5, <2>6
<1>5. ASSUME UNCHANGED <<started, phase, request, applied, responses, processed>>
      PROVE Progress' /\ StepsApplyOnce'
  BY <1>5 DEF Progress, StepsApplyOnce
<1>6. ASSUME NEW s \in Sessions, SendOwn(s) \/ Finish(s)
      PROVE UNCHANGED <<started, phase, request, applied, responses, processed>>
  BY <1>6 DEF SendOwn, Finish, client
<1>7. ASSUME NEW h \in Handlers, NEW s \in Sessions, NEW k \in Steps, Push(h, s, k)
      PROVE UNCHANGED <<started, phase, request, applied, responses, processed>>
  BY <1>7 DEF Push, client
<1>8. ASSUME NEW h \in Handlers, Listen(h)
      PROVE UNCHANGED <<started, phase, request, applied, responses, processed>>
  BY <1>8 DEF Listen, client
<1> QED
  BY <1>1, <1>2, <1>3, <1>4, <1>5, <1>6, <1>7, <1>8 DEF Next, Serve, End, Abandon, vars, client

-----------------------------------------------------------------------------
\* The queue of a session.

LEMMA StepQueueWithOwner ==
  TypeOK /\ EventsRight /\ ViewsRight /\ QueueWithOwner /\ [Next]_vars => QueueWithOwner'
<1> SUFFICES ASSUME TypeOK, EventsRight, ViewsRight, QueueWithOwner, [Next]_vars PROVE QueueWithOwner'
  OBVIOUS
<1> USE QueuesAssumption
<1>1. ASSUME NEW s \in Sessions, Register(s) PROVE QueueWithOwner'
  <2>1. view' = [view EXCEPT ![Owner[s]][s] = Owner[s]] /\ exists' = [exists EXCEPT ![s] = TRUE]
        /\ queues' = queues
    BY <1>1 DEF Register
  <2>2. \A t \in Sessions \ {s} : view'[Owner[t]][t] = view[Owner[t]][t] /\ exists'[t] = exists[t]
    BY <2>1 DEF TypeOK
  <2>3. view'[Owner[s]][s] = Owner[s] /\ exists'[s] = TRUE
    BY <2>1 DEF TypeOK
  <2>4. exists'[s] = (view'[Owner[s]][s] = Owner[s]) /\ (~exists'[s] => queues'[s] = <<>>)
    BY <2>3, Zenon
  <2>5. ASSUME NEW t \in Sessions \ {s}
        PROVE  exists'[t] = (view'[Owner[t]][t] = Owner[t]) /\ (~exists'[t] => queues'[t] = <<>>)
    <3>1. exists[t] = (view[Owner[t]][t] = Owner[t]) /\ (~exists[t] => queues[t] = <<>>)
      BY <2>5 DEF QueueWithOwner
    <3>2. view'[Owner[t]][t] = view[Owner[t]][t] /\ exists'[t] = exists[t] /\ queues' = queues
      BY <2>1, <2>2
    <3> QED
      BY <3>1, <3>2, Zenon
  <2> QED
    BY <2>4, <2>5, Zenon DEF QueueWithOwner
<1>2. ASSUME NEW s \in Sessions, Leave(s) PROVE QueueWithOwner'
  <2>1. view' = [view EXCEPT ![Owner[s]][s] = Nobody] /\ exists' = [exists EXCEPT ![s] = FALSE]
        /\ queues' = [queues EXCEPT ![s] = <<>>]
    BY <1>2 DEF Leave
  <2>2. \A t \in Sessions \ {s} : /\ view'[Owner[t]][t] = view[Owner[t]][t]
                                  /\ exists'[t] = exists[t] /\ queues'[t] = queues[t]
    BY <2>1 DEF TypeOK
  <2>3. view'[Owner[s]][s] # Owner[s] /\ exists'[s] = FALSE /\ queues'[s] = <<>>
    BY <2>1 DEF TypeOK
  <2> QED
    BY <2>2, <2>3 DEF QueueWithOwner
<1>3. ASSUME NEW s \in Sessions, TakePush(s) PROVE QueueWithOwner'
  BY <1>3 DEF TakePush, QueueWithOwner, TypeOK
<1>4. ASSUME NEW h \in Handlers, NEW s \in Sessions, NEW k \in Steps, Push(h, s, k) PROVE QueueWithOwner'
  <2>1. view' = view /\ exists' = exists
    BY <1>4 DEF Push
  <2>2. CASE queues' = queues
    BY <2>1, <2>2 DEF QueueWithOwner
  <2>3. CASE view[h][s] = h /\ queues' = [queues EXCEPT ![s] = Append(@, k)]
    <3>1. h = Owner[s]
      BY <2>3 DEF ViewsRight
    <3>2. exists[s]
      BY <2>3, <3>1 DEF QueueWithOwner, TypeOK
    <3> QED
      BY <2>1, <2>3, <3>2 DEF QueueWithOwner, TypeOK
  <2> QED
    BY <1>4, <2>2, <2>3, PushCases
<1>5. ASSUME NEW h \in Handlers, Listen(h) PROVE QueueWithOwner'
  <2> DEFINE e == Head(events[h])
  <2>1. e \in Events /\ EventRight(h, e)
    <3>1. events[h] \in Seq(Events) /\ events[h] # <<>>
      BY <1>5 DEF Listen, TypeOK
    <3> QED
      BY <3>1, TailElements DEF EventsRight
  <2>2. e.session \in Sessions
    BY <2>1 DEF Events
  <2>3. \A t \in Sessions : view'[Owner[t]][t] = view[Owner[t]][t]
    <3>1. CASE e.kind = "push"
      BY <1>5, <3>1 DEF Listen
    <3>2. CASE e.kind # "push"
      <4>1. h # Owner[e.session]
        BY <2>1, <3>2 DEF EventRight
      <4>2. \/ view' = [view EXCEPT ![h][e.session] = Owner[e.session]]
            \/ view' = [view EXCEPT ![h][e.session] = Nobody]
            \/ view' = view
        BY <1>5, <3>2 DEF Listen
      <4>3. view' = view \/ \E x \in {Owner[e.session], Nobody} : view' = [view EXCEPT ![h][e.session] = x]
        BY <4>2
      <4>4. ASSUME NEW x, view' = [view EXCEPT ![h][e.session] = x], NEW t \in Sessions
            PROVE view'[Owner[t]][t] = view[Owner[t]][t]
        <5> HIDE DEF e
        <5>1. CASE Owner[t] # h
          BY <4>4, <5>1 DEF TypeOK
        <5>2. CASE Owner[t] = h
          <6>1. view'[h] = [view[h] EXCEPT ![e.session] = x] /\ t # e.session
            BY <4>1, <4>4, <5>2 DEF TypeOK
          <6>2. view[h] \in [Sessions -> Handlers \cup {Nobody}]
            BY DEF TypeOK
          <6> QED
            BY <5>2, <6>1, <6>2
        <5> QED
          BY <5>1, <5>2
      <4> QED
        BY <4>3, <4>4
    <3> QED
      BY <3>1, <3>2
  <2>4. exists' = exists
    BY <1>5 DEF Listen
  <2>5. queues' = queues \/ (exists[e.session] /\ queues' = [queues EXCEPT ![e.session] = Append(@, e.step)])
    BY <1>5 DEF Listen
  <2>6. \A t \in Sessions : ~exists[t] => queues'[t] = queues[t]
    BY <2>2, <2>5 DEF TypeOK
  <2> QED
    BY <2>3, <2>4, <2>6 DEF QueueWithOwner
<1>6. ASSUME UNCHANGED <<exists, view, queues>> PROVE QueueWithOwner'
  BY <1>6 DEF QueueWithOwner
<1>7. ASSUME NEW s \in Sessions,
             \/ Start(s) \/ SendOwn(s) \/ Finish(s) \/ Refuse(s) \/ Receive(s) \/ Look(s) \/ Respond(s)
             \/ TakeOwn(s)
      PROVE UNCHANGED <<exists, view, queues>>
  BY <1>7 DEF Start, SendOwn, Finish, Refuse, Receive, Look, Respond, TakeOwn
<1> QED
  BY <1>1, <1>2, <1>3, <1>4, <1>5, <1>6, <1>7 DEF Next, Serve, End, Abandon, vars

-----------------------------------------------------------------------------
\* The invariant.

LEMMA InitInv == Init => IInv
<1> SUFFICES ASSUME Init PROVE IInv
  OBVIOUS
<1> USE QueuesAssumption
<1>1. TypeOK
  BY InitTyped
<1>2. CopiesBegan
  BY DEF Init, CopiesBegan
<1>3. EventsRight
  BY DEF Init, EventsRight
<1>4. Progress
  BY DEF Init, Progress
<1>5. StepsApplyOnce
  BY DEF Init, StepsApplyOnce
<1>6. ViewsRight
  BY DEF Init, ViewsRight
<1>7. QueueWithOwner
  BY DEF Init, QueueWithOwner
<1> QED
  BY <1>1, <1>2, <1>3, <1>4, <1>5, <1>6, <1>7 DEF IInv, StepsInv

LEMMA StepInv == IInv /\ [Next]_vars => IInv'
<1> SUFFICES ASSUME IInv, [Next]_vars PROVE IInv'
  OBVIOUS
<1> QED
  BY StepTyped, StepCopiesBegan, StepEventsRight, StepProgress, StepQueueWithOwner DEF IInv, StepsInv

\* The inductive invariant: copies of a step only follow its start, the owner of a
\* session remembers the steps it applied, and queues exist as their owner says.
THEOREM SpecInv == Spec => []IInv
<1> QED
  BY InitInv, StepInv, PTL DEF Spec

\* Whichever copies of a step arrive at the handler, and however late, the
\* attention cache of its session sees the step once and in order, and the client
\* reads at most one answer for each step it began.
THEOREM StepsAreAnsweredOnce == Spec => []StepsAnsweredOnce
<1>1. IInv => StepsAnsweredOnce
  BY DEF IInv, StepsInv, CopiesBegan, StepsAnsweredOnce, AnswersMatch
<1> QED
  BY <1>1, SpecInv, PTL

\* Every variable keeps its type, and a session has a queue exactly while the
\* handler that runs it says so: rpc_push never looks up a queue that is gone,
\* and no request is left in a queue of a session that ended.
THEOREM QueuesStayConsistent == Spec => []QueuesConsistent
<1>1. IInv => QueuesConsistent
  BY DEF IInv, StepsInv, QueuesConsistent
<1> QED
  BY <1>1, SpecInv, PTL

-----------------------------------------------------------------------------
(* Requests for a chain of blocks.                                        *)

CONSTANTS Rpcs, Calls, Served, Adapters, MaxParts
VARIABLES inferenceOnly, call, caller, received, work, pool, reply

RQ == INSTANCE BlockRequests WITH Requests <- Rpcs, client <- caller, sent <- received

\* A call names at least one block.
CallsAssumption == \A c \in Calls : c \in RQ!CallType /\ c.first <= c.last

\* What the i-th block is given, when it comes after the value v.
NextInput(c, i, v) == RQ!WithPrompt(c, RQ!Blocks(c)[i], RQ!RunBlock(c, RQ!Blocks(c)[i - 1], v))
FirstInput(c) == RQ!WithPrompt(c, RQ!Blocks(c)[1], <<>>)

InputGraph(c, n, g) ==
  g = [k \in 1 .. n |-> IF k = 1 THEN FirstInput(c) ELSE NextInput(c, k, g[k - 1])]

LEMMA InputGraphExists ==
  ASSUME NEW c, NEW n \in Nat PROVE \E g : InputGraph(c, n, g)
<1>1. PICK bad : bad = {m \in Nat : ~\E g : InputGraph(c, m, g)}
  OBVIOUS
<1>2. SUFFICES ASSUME bad # {} PROVE FALSE
  BY <1>1
<1>3. PICK m \in bad : \A k \in bad : ~(k < m)
  BY <1>1, <1>2, LeastNumber
<1>4. m \in Nat
  BY <1>1
<1>5. CASE m = 0
  <2>1. PICK g : g = [k \in 1 .. 0 |-> 0]
    OBVIOUS
  <2>2. InputGraph(c, 0, g)
    BY <2>1 DEF InputGraph
  <2> QED
    BY <2>2, <1>1, <1>5
<1>6. CASE m # 0
  <2>1. m - 1 \in Nat /\ m - 1 \notin bad
    BY <1>3, <1>4, <1>6
  <2>2. PICK g : InputGraph(c, m - 1, g)
    BY <2>1, <1>1
  <2>3. PICK v : v = IF m = 1 THEN FirstInput(c) ELSE NextInput(c, m, g[m - 1])
    OBVIOUS
  <2>4. PICK h : h = [k \in 1 .. m |-> IF k = m THEN v ELSE g[k]]
    OBVIOUS
  <2>5. ASSUME NEW k \in 1 .. m
        PROVE  h[k] = IF k = 1 THEN FirstInput(c) ELSE NextInput(c, k, h[k - 1])
    <3>1. CASE k = m
      <4>1. k # 1 => h[k - 1] = g[k - 1]
        BY <2>4, <3>1, <1>4
      <4> QED
        BY <3>1, <4>1, <2>3, <2>4
    <3>2. CASE k # m
      <4>1. k \in 1 .. m - 1 /\ (k # 1 => k - 1 \in 1 .. m /\ k - 1 # m)
        BY <3>2, <1>4
      <4>2. g[k] = IF k = 1 THEN FirstInput(c) ELSE NextInput(c, k, g[k - 1])
        BY <4>1, <2>2 DEF InputGraph
      <4>3. h[k] = g[k] /\ (k # 1 => h[k - 1] = g[k - 1])
        BY <4>1, <3>2, <2>4
      <4> QED
        BY <4>2, <4>3
    <3> QED
      BY <3>1, <3>2
  <2>6. InputGraph(c, m, h)
    <3>1. h = [k \in 1 .. m |-> h[k]]
      BY <2>4
    <3> QED
      BY <3>1, <2>5 DEF InputGraph
  <2> QED
    BY <2>6, <1>1
<1> QED
  BY <1>5, <1>6

\* The input of each block, from that of the block before.
LEMMA InputSteps ==
  ASSUME NEW c, RQ!Count(c) \in Nat \ {0}
  PROVE  /\ RQ!InputOf(c, 1) = FirstInput(c)
         /\ \A i \in 2 .. RQ!Count(c) : RQ!InputOf(c, i) = NextInput(c, i, RQ!InputOf(c, i - 1))
<1>1. PICK g : g = CHOOSE f : InputGraph(c, RQ!Count(c), f)
  OBVIOUS
<1>2. InputGraph(c, RQ!Count(c), g)
  BY <1>1, InputGraphExists
<1>3. \A i : RQ!InputOf(c, i) = g[i]
  BY <1>1 DEF InputGraph, RQ!InputOf, FirstInput, NextInput, RQ!WithPrompt, RQ!RunBlock
<1>4. PICK n \in Nat \ {0} : n = RQ!Count(c)
  OBVIOUS
<1>5. g = [k \in 1 .. n |-> IF k = 1 THEN FirstInput(c) ELSE NextInput(c, k, g[k - 1])]
  BY <1>2, <1>4 DEF InputGraph
<1>6. g[1] = FirstInput(c) /\ \A i \in 2 .. n : g[i] = NextInput(c, i, g[i - 1])
  BY <1>5
<1> QED
  BY <1>3, <1>4, <1>6

MergedGraph(c, n, g) ==
  g = [k \in 0 .. n |-> IF k = 0 THEN <<>> 
                        ELSE RQ!RunBlock(c, RQ!Blocks(c)[k], RQ!WithPrompt(c, RQ!Blocks(c)[k], g[k - 1]))]

\* The merged pool computes what the blocks compute one after another.
LEMMA MergedRuns ==
  ASSUME NEW c, RQ!Count(c) \in Nat \ {0}
  PROVE  RQ!RunMerged(c, <<>>) = RQ!RunBlock(c, RQ!Blocks(c)[RQ!Count(c)], RQ!InputOf(c, RQ!Count(c)))
<1>1. PICK n \in Nat \ {0} : n = RQ!Count(c)
  OBVIOUS
<1>2. PICK h : h = [k \in 0 .. n |-> IF k = 0 THEN <<>> ELSE RQ!RunBlock(c, RQ!Blocks(c)[k], RQ!InputOf(c, k))]
  OBVIOUS
<1>3. ASSUME NEW k \in 1 .. n
      PROVE  RQ!InputOf(c, k) = RQ!WithPrompt(c, RQ!Blocks(c)[k], h[k - 1])
  <2>1. CASE k = 1
    <3>1. h[k - 1] = <<>>
      BY <1>2, <2>1
    <3> QED
      BY <3>1, <2>1, InputSteps DEF FirstInput
  <2>2. CASE k # 1
    <3>1. k \in 2 .. n /\ k - 1 \in 0 .. n /\ k - 1 # 0
      BY <2>2
    <3>2. h[k - 1] = RQ!RunBlock(c, RQ!Blocks(c)[k - 1], RQ!InputOf(c, k - 1))
      BY <3>1, <1>2
    <3> QED
      BY <3>1, <3>2, <1>1, InputSteps DEF NextInput
  <2> QED
    BY <2>1, <2>2
<1>4. MergedGraph(c, n, h)
  <2>1. \A k \in 0 .. n :
          h[k] = IF k = 0 THEN <<>>
                 ELSE RQ!RunBlock(c, RQ!Blocks(c)[k], RQ!WithPrompt(c, RQ!Blocks(c)[k], h[k - 1]))
    BY <1>2, <1>3
  <2>2. h = [k \in 0 .. n |-> h[k]]
    BY <1>2
  <2> QED
    BY <2>1, <2>2 DEF MergedGraph
<1>5. PICK g : g = CHOOSE f : MergedGraph(c, n, f)
  OBVIOUS
<1>6. MergedGraph(c, n, g)
  BY <1>4, <1>5
<1>7. PICK bad : bad = {k \in 0 .. n : g[k] # h[k]}
  OBVIOUS
<1>8. ASSUME bad # {} PROVE FALSE
  <2>1. PICK k \in bad : \A m \in bad : ~(m < k)
    BY <1>7, <1>8, LeastNumber
  <2>2. k \in 0 .. n /\ g[k] # h[k]
    BY <2>1, <1>7
  <2>3. k # 0
    BY <2>2, <1>4, <1>6 DEF MergedGraph
  <2>4. k - 1 \in 0 .. n /\ k - 1 \notin bad
    BY <2>1, <2>2, <2>3
  <2>5. g[k - 1] = h[k - 1]
    BY <2>4, <1>7
  <2> QED
    BY <2>2, <2>3, <2>5, <1>4, <1>6 DEF MergedGraph
<1>9. g[n] = h[n]
  BY <1>7, <1>8
<1>10. RQ!RunMerged(c, <<>>) = g[n]
  BY <1>1, <1>5 DEF MergedGraph, RQ!RunMerged, RQ!WithPrompt, RQ!RunBlock
<1> QED
  BY <1>1, <1>2, <1>9, <1>10

-----------------------------------------------------------------------------

LEMMA AppendToFcn ==
  ASSUME NEW n \in Nat, NEW f, f = [k \in 1 .. n |-> f[k]], NEW e
  PROVE  Append(f, e) = [k \in 1 .. n + 1 |-> IF k = n + 1 THEN e ELSE f[k]]
<1>1. PICK S : S = {f[k] : k \in 1 .. n} \cup {e}
  OBVIOUS
<1>2. f \in Seq(S) /\ Len(f) = n /\ e \in S
  <2>1. f \in [1 .. n -> S]
    BY <1>1
  <2> QED
    BY <2>1, <1>1
<1>3. PICK g : g = Append(f, e)
  OBVIOUS
<1>4. /\ g \in Seq(S) /\ Len(g) = n + 1
      /\ \A k \in 1 .. n : g[k] = f[k]
      /\ g[n + 1] = e
  BY <1>2, <1>3, AppendProperties
<1>5. g = [k \in 1 .. n + 1 |-> g[k]]
  BY <1>4
<1>6. \A k \in 1 .. n + 1 : g[k] = IF k = n + 1 THEN e ELSE f[k]
  BY <1>4
<1> QED
  BY <1>3, <1>5, <1>6

\* The inputs of the first n blocks; the gradients of the prompts from the last block to the i-th.
Inputs(c, n) == [k \in 1 .. n |-> RQ!InputOf(c, k)]
PromptGrads(c, i) ==
  IF c.prompts # 0 THEN [k \in 1 .. RQ!Count(c) - i + 1 |-> RQ!GradOf(c, RQ!Count(c) - k + 1)] ELSE <<>>

LEMMA InputsGrow ==
  ASSUME NEW c, NEW n \in Nat PROVE Append(Inputs(c, n), RQ!InputOf(c, n + 1)) = Inputs(c, n + 1)
<1>1. PICK f : f = Inputs(c, n)
  OBVIOUS
<1>2. f = [k \in 1 .. n |-> f[k]] /\ \A k \in 1 .. n : f[k] = RQ!InputOf(c, k)
  BY <1>1 DEF Inputs
<1>3. Append(f, RQ!InputOf(c, n + 1)) = [k \in 1 .. n + 1 |-> IF k = n + 1 THEN RQ!InputOf(c, n + 1) ELSE f[k]]
  BY <1>2, AppendToFcn
<1>4. \A k \in 1 .. n + 1 : (IF k = n + 1 THEN RQ!InputOf(c, n + 1) ELSE f[k]) = RQ!InputOf(c, k)
  BY <1>2
<1> QED
  BY <1>1, <1>3, <1>4 DEF Inputs

\* One backward pass.
Back(c, i) == <<"back", RQ!Blocks(c)[i], c.adapter, RQ!InputOf(c, i)>>

LEMMA GradOfIs ==
  ASSUME NEW c, NEW i
  PROVE  RQ!GradOf(c, i) = [k \in 1 .. (RQ!Count(c) - i + 1) |-> Back(c, RQ!Count(c) - k + 1)]
BY DEF RQ!GradOf, Back

LEMMA GradGrows ==
  ASSUME NEW c, RQ!Count(c) \in Nat, NEW i \in 1 .. RQ!Count(c)
  PROVE  Append(RQ!GradOf(c, i + 1), Back(c, i)) = RQ!GradOf(c, i)
<1>1. PICK n \in Nat : n = RQ!Count(c)
  OBVIOUS
<1>2. PICK f : f = RQ!GradOf(c, i + 1)
  OBVIOUS
<1>3. f = [k \in 1 .. n - i |-> Back(c, n - k + 1)]
  <2>1. n - (i + 1) + 1 = n - i
    BY <1>1
  <2> QED
    BY <1>1, <1>2, <2>1, GradOfIs
<1>4. n - i \in Nat /\ f = [k \in 1 .. n - i |-> f[k]]
  BY <1>1, <1>3
<1>5. Append(f, Back(c, i)) = [k \in 1 .. n - i + 1 |-> IF k = n - i + 1 THEN Back(c, i) ELSE f[k]]
  BY <1>4, AppendToFcn
<1>6. ASSUME NEW k \in 1 .. n - i + 1
      PROVE  (IF k = n - i + 1 THEN Back(c, i) ELSE f[k]) = Back(c, n - k + 1)
  <2>1. CASE k = n - i + 1
    <3>1. n - k + 1 = i
      BY <2>1, <1>1
    <3> QED
      BY <2>1, <3>1
  <2>2. CASE k # n - i + 1
    <3>1. k \in 1 .. n - i
      BY <2>2, <1>1
    <3> QED
      BY <2>2, <3>1, <1>3
  <2> QED
    BY <2>1, <2>2
<1>7. RQ!GradOf(c, i) = [k \in 1 .. n - i + 1 |-> Back(c, n - k + 1)]
  BY <1>1, GradOfIs
<1> QED
  BY <1>2, <1>5, <1>6, <1>7

LEMMA PromptGradsGrow ==
  ASSUME NEW c, RQ!Count(c) \in Nat, NEW i \in 1 .. RQ!Count(c), c.prompts # 0
  PROVE  Append(PromptGrads(c, i + 1), RQ!GradOf(c, i)) = PromptGrads(c, i)
<1>1. PICK n \in Nat : n = RQ!Count(c)
  OBVIOUS
<1>2. PICK f : f = PromptGrads(c, i + 1)
  OBVIOUS
<1>3. f = [k \in 1 .. n - i |-> RQ!GradOf(c, n - k + 1)]
  <2>1. n - (i + 1) + 1 = n - i
    BY <1>1
  <2> QED
    BY <1>1, <1>2, <2>1 DEF PromptGrads
<1>4. n - i \in Nat /\ f = [k \in 1 .. n - i |-> f[k]]
  BY <1>1, <1>3
<1>5. Append(f, RQ!GradOf(c, i)) = [k \in 1 .. n - i + 1 |-> IF k = n - i + 1 THEN RQ!GradOf(c, i) ELSE f[k]]
  BY <1>4, AppendToFcn
<1>6. ASSUME NEW k \in 1 .. n - i + 1
      PROVE  (IF k = n - i + 1 THEN RQ!GradOf(c, i) ELSE f[k]) = RQ!GradOf(c, n - k + 1)
  <2>1. CASE k = n - i + 1
    <3>1. n - k + 1 = i
      BY <2>1, <1>1
    <3> QED
      BY <2>1, <3>1
  <2>2. CASE k # n - i + 1
    <3>1. k \in 1 .. n - i
      BY <2>2, <1>1
    <3> QED
      BY <2>2, <3>1, <1>3
  <2> QED
    BY <2>1, <2>2
<1>7. PromptGrads(c, i) = [k \in 1 .. n - i + 1 |-> RQ!GradOf(c, n - k + 1)]
  BY <1>1 DEF PromptGrads
<1> QED
  BY <1>2, <1>5, <1>6, <1>7

-----------------------------------------------------------------------------
\* The variables of a handler while it awaits a task.

Handler(ph, i, hidden, inputs, grad, prompts) ==
  [phase |-> ph, i |-> i, hidden |-> hidden, inputs |-> inputs, grad |-> grad, gradPrompts |-> prompts]

\* The i-th block runs forward; its input, and the kept ones of a backward call, are right.
ForwardAt(c, i) ==
  Handler(RQ!PoolOf(c, i), i, RQ!InputOf(c, i), IF c.method = "backward" THEN Inputs(c, i) ELSE <<>>, <<>>, <<>>)

\* The backward pass of the i-th block comes next, those of the blocks after it are done.
BackwardAt(c, i) ==
  Handler("backward", i, RQ!InputOf(c, RQ!Count(c)), Inputs(c, RQ!Count(c)),
          RQ!GradOf(c, i + 1), PromptGrads(c, i + 1))

MergedAt == Handler("inference", 1, <<>>, <<>>, <<>>, <<>>)

AwaitsRight(c, w) ==
  \/ RQ!Merged(c) /\ RQ!Fitting(c) /\ w = MergedAt
  \/ ~RQ!Merged(c) /\ \E i \in 1 .. RQ!Reach(c) : RQ!PoolOf(c, i) \notin {"backward", "error"} /\ w = ForwardAt(c, i)
  \/ c.method = "backward" /\ RQ!Fitting(c) /\ \E i \in 1 .. RQ!Count(c) : w = BackwardAt(c, i)

LastHidden(c) == RQ!RunBlock(c, RQ!Blocks(c)[RQ!Reach(c)], RQ!InputOf(c, RQ!Reach(c)))

\* An inference step has counted its prompts, a backward call has compared its inputs with them.
DoneRight(c, w) ==
  /\ RQ!Fitting(c) \/ c.method = "forward"
  /\ IF c.method = "backward" THEN w.grad = RQ!GradOf(c, 1) /\ w.gradPrompts = PromptGrads(c, 1)
     ELSE w.hidden = LastHidden(c)

HandlerRight(c, w) ==
  /\ w.phase \in RQ!Computing => AwaitsRight(c, w) /\ (RQ!Fitting(c) \/ c.method # "inference")
  /\ w.phase = "done" => DoneRight(c, w)

LEMMA CallTyped ==
  ASSUME CallsAssumption, NEW c \in Calls
  PROVE  /\ RQ!Count(c) \in Nat \ {0} /\ c.prompts \in Nat /\ c.method \in RQ!Computing /\ c.parts >= 1
BY DEF CallsAssumption, RQ!CallType, RQ!Count, RQ!Computing

\* min() of the two.
LEMMA LesserOf ==
  ASSUME NEW a \in Nat, NEW b \in Nat PROVE RQ!Min({a, b}) = IF a <= b THEN a ELSE b
<1>1. PICK m : m = IF a <= b THEN a ELSE b
  OBVIOUS
<1>2. m \in {a, b} /\ \A y \in {a, b} : m <= y
  BY <1>1
<1>3. \A x \in {a, b} : (\A y \in {a, b} : x <= y) => x = m
  BY <1>1
<1>4. PICK z : z = CHOOSE x \in {a, b} : \A y \in {a, b} : x <= y
  OBVIOUS
<1>5. z \in {a, b} /\ \A y \in {a, b} : z <= y
  BY <1>2, <1>4
<1>6. z = m
  BY <1>3, <1>5
<1>7. RQ!Min({a, b}) = z
  BY <1>4 DEF RQ!Min
<1> QED
  BY <1>1, <1>6, <1>7

LEMMA ReachTyped ==
  ASSUME CallsAssumption, NEW c \in Calls
  PROVE  RQ!Reach(c) \in 1 .. RQ!Count(c) /\ RQ!Reach(c) \in Nat \ {0} /\ (RQ!Fitting(c) => RQ!Reach(c) = RQ!Count(c))
<1>1. PICK n, p : n = RQ!Count(c) /\ p = c.prompts
  OBVIOUS
<1>2. n \in Nat \ {0} /\ p \in Nat
  BY <1>1, CallTyped
<1>3. RQ!Min({n, p}) = IF n <= p THEN n ELSE p
  BY <1>2, LesserOf
<1>4. RQ!Reach(c) = IF p = 0 THEN n ELSE IF n <= p THEN n ELSE p
  BY <1>1, <1>3 DEF RQ!Reach
<1>5. RQ!Fitting(c) => p = 0 \/ p = n
  BY <1>1 DEF RQ!Fitting
<1>6. RQ!Reach(c) \in 1 .. n /\ RQ!Reach(c) \in Nat \ {0}
  BY <1>2, <1>4
<1>7. RQ!Fitting(c) => RQ!Reach(c) = n
  BY <1>2, <1>4, <1>5
<1> QED
  BY <1>1, <1>6, <1>7

\* The i-th block is entered with its input.
LEMMA EnterRight ==
  ASSUME CallsAssumption, NEW c \in Calls, ~RQ!Merged(c), NEW i \in 1 .. RQ!Reach(c),
         RQ!Fitting(c) \/ c.method # "inference",
         NEW ph, NEW j, NEW hidden, NEW inputs,
         RQ!WithPrompt(c, RQ!Blocks(c)[i], hidden) = RQ!InputOf(c, i),
         inputs = IF c.method = "backward" THEN Inputs(c, i - 1) ELSE <<>>,
         NEW w, w = Handler(ph, j, hidden, inputs, <<>>, <<>>)
  PROVE  HandlerRight(c, RQ!Enter(c, w, i))
<1>1. RQ!Count(c) \in Nat \ {0} /\ c.method \in RQ!Computing
  BY CallTyped
<1>2. c.method = "backward" => Append(inputs, RQ!InputOf(c, i)) = Inputs(c, i)
  <2>1. i - 1 \in Nat /\ (i - 1) + 1 = i
    BY ReachTyped
  <2> QED
    BY <2>1, InputsGrow
<1>3. RQ!Enter(c, w, i) = ForwardAt(c, i)
  <2>1. w.hidden = hidden /\ w.inputs = inputs
    BY DEF Handler
  <2>2. PICK kept : kept = IF c.method = "backward" THEN Append(inputs, RQ!InputOf(c, i)) ELSE inputs
    OBVIOUS
  <2>3. kept = IF c.method = "backward" THEN Inputs(c, i) ELSE <<>>
    BY <1>2, <2>2
  <2>4. RQ!Enter(c, w, i) = [w EXCEPT !.phase = RQ!PoolOf(c, i), !.i = i, !.hidden = RQ!InputOf(c, i),
                                      !.inputs = kept]
    BY <2>1, <2>2 DEF RQ!Enter
  <2> QED
    BY <2>3, <2>4 DEF ForwardAt, Handler
<1>6. ForwardAt(c, i).phase = RQ!PoolOf(c, i) /\ RQ!PoolOf(c, i) # "done"
  BY <1>1 DEF ForwardAt, Handler, RQ!PoolOf, RQ!Computing
<1>7. SUFFICES ASSUME RQ!PoolOf(c, i) # "error" PROVE AwaitsRight(c, ForwardAt(c, i))
  BY <1>3, <1>6 DEF HandlerRight, RQ!Computing
<1>4. CASE RQ!PoolOf(c, i) # "backward"
  BY <1>4, <1>7 DEF AwaitsRight
<1>5. CASE RQ!PoolOf(c, i) = "backward"
  <2>5. c.method = "backward" /\ ~(i < RQ!Reach(c)) /\ RQ!Fitting(c)
    <3>1. c.method = "backward"
      BY <1>1, <1>5 DEF RQ!PoolOf
    <3> QED
      BY <3>1, <1>5 DEF RQ!PoolOf
  <2>1. c.method = "backward" /\ RQ!Fitting(c) /\ i = RQ!Count(c)
    BY <2>5, ReachTyped
  <2>2. RQ!GradOf(c, i + 1) = <<>>
    <3>1. 1 .. (RQ!Count(c) - (i + 1) + 1) = {}
      BY <2>1, <1>1
    <3> QED
      BY <3>1 DEF RQ!GradOf
  <2>3. PromptGrads(c, i + 1) = <<>>
    <3>1. 1 .. RQ!Count(c) - (i + 1) + 1 = {}
      BY <2>1, <1>1
    <3> QED
      BY <3>1 DEF PromptGrads
  <2>4. ForwardAt(c, i) = BackwardAt(c, i)
    BY <1>5, <2>1, <2>2, <2>3 DEF ForwardAt, BackwardAt
  <2>6. i \in 1 .. RQ!Count(c)
    BY <2>1, <1>1
  <2> QED
    BY <2>1, <2>4, <2>6 DEF AwaitsRight
<1> QED
  BY <1>4, <1>5

LEMMA BeginRight ==
  ASSUME CallsAssumption, NEW c \in Calls
  PROVE  HandlerRight(c, RQ!Begin(c))
<1>1. RQ!Count(c) \in Nat \ {0}
  BY CallTyped
<1>4. CASE c.method = "inference" /\ ~RQ!Fitting(c)
  <2>1. RQ!Begin(c).phase = "error"
    BY <1>4 DEF RQ!Begin, RQ!Idle
  <2> QED
    BY <2>1 DEF HandlerRight, RQ!Computing
<1>2. CASE RQ!Merged(c) /\ RQ!Fitting(c)
  <2>1. RQ!Begin(c) = MergedAt
    BY <1>2 DEF RQ!Begin, RQ!Idle, MergedAt, Handler
  <2>2. MergedAt.phase = "inference"
    BY DEF MergedAt, Handler
  <2> QED
    BY <1>2, <2>1, <2>2 DEF HandlerRight, AwaitsRight, RQ!Computing
<1>3. CASE ~RQ!Merged(c) /\ (RQ!Fitting(c) \/ c.method # "inference")
  <2>1. RQ!Begin(c) = RQ!Enter(c, RQ!Idle, 1)
    BY <1>3 DEF RQ!Begin
  <2>2. RQ!Idle = Handler("idle", 0, <<>>, <<>>, <<>>, <<>>)
    BY DEF RQ!Idle, Handler
  <2>3. RQ!WithPrompt(c, RQ!Blocks(c)[1], <<>>) = RQ!InputOf(c, 1)
    BY <1>1, InputSteps DEF FirstInput
  <2>4. Inputs(c, 1 - 1) = <<>>
    BY DEF Inputs
  <2>5. 1 \in 1 .. RQ!Reach(c)
    BY ReachTyped
  <2> QED
    BY <1>3, <2>1, <2>2, <2>3, <2>4, <2>5, EnterRight
<1> QED
  BY <1>2, <1>3, <1>4 DEF RQ!Merged

\* The last block has run.
LEMMA LastForward ==
  ASSUME CallsAssumption, NEW c \in Calls, ~RQ!Merged(c), c.method # "backward",
         RQ!Fitting(c) \/ c.method # "inference",
         NEW w, w = ForwardAt(c, RQ!Reach(c))
  PROVE  HandlerRight(c, RQ!Resumed(c, w))
<1>1. RQ!Count(c) \in Nat \ {0} /\ c.method \in RQ!Computing
  BY CallTyped
<1>2. /\ w.phase = c.method /\ w.i = RQ!Reach(c) /\ w.hidden = RQ!InputOf(c, RQ!Reach(c))
  BY DEF ForwardAt, Handler, RQ!PoolOf
<1>3. RQ!Computed(c, w) = [w EXCEPT !.hidden = LastHidden(c)]
  BY <1>2 DEF RQ!Computed, LastHidden
<1>4. RQ!Resumed(c, w) = [[w EXCEPT !.hidden = LastHidden(c)] EXCEPT !.phase = "done"]
  BY <1>2, <1>3 DEF RQ!Resumed, RQ!AfterForward, ForwardAt, Handler
<1>5. RQ!Resumed(c, w).phase = "done" /\ RQ!Resumed(c, w).hidden = LastHidden(c)
  BY <1>4 DEF ForwardAt, Handler
<1>6. RQ!Fitting(c) \/ c.method = "forward"
  BY <1>1 DEF RQ!Computing
<1> QED
  BY <1>5, <1>6 DEF HandlerRight, DoneRight, RQ!Computing

\* A block before the last one has run.
LEMMA NextForward ==
  ASSUME CallsAssumption, NEW c \in Calls, ~RQ!Merged(c), NEW i \in 1 .. RQ!Reach(c), i # RQ!Reach(c),
         RQ!Fitting(c) \/ c.method # "inference",
         RQ!PoolOf(c, i) # "backward", NEW w, w = ForwardAt(c, i)
  PROVE  HandlerRight(c, RQ!Resumed(c, w))
<1>1. RQ!Count(c) \in Nat \ {0} /\ c.method \in RQ!Computing
  BY CallTyped
<1>2. i + 1 \in 1 .. RQ!Reach(c) /\ i + 1 \in 2 .. RQ!Count(c) /\ (i + 1) - 1 = i
  <2>1. PICK n, m : n = RQ!Count(c) /\ m = RQ!Reach(c)
    OBVIOUS
  <2>2. n \in Nat \ {0} /\ m \in 1 .. n /\ i \in 1 .. m /\ i # m
    BY <2>1, <1>1, ReachTyped
  <2>3. i + 1 \in 1 .. m /\ i + 1 \in 2 .. n /\ (i + 1) - 1 = i
    BY <2>2
  <2> QED
    BY <2>1, <2>3
<1>3. PICK h : h = RQ!RunBlock(c, RQ!Blocks(c)[i], RQ!InputOf(c, i))
  OBVIOUS
<1>4. RQ!WithPrompt(c, RQ!Blocks(c)[i + 1], h) = RQ!InputOf(c, i + 1)
  BY <1>1, <1>2, <1>3, InputSteps DEF NextInput
<1>5. PICK kept : kept = IF c.method = "backward" THEN Inputs(c, i) ELSE <<>>
  OBVIOUS
<1>6. w = Handler(RQ!PoolOf(c, i), i, RQ!InputOf(c, i), kept, <<>>, <<>>)
  BY <1>5 DEF ForwardAt
<1>7. PICK v : v = Handler(RQ!PoolOf(c, i), i, h, kept, <<>>, <<>>)
  OBVIOUS
<1>8. RQ!Computed(c, w) = v
  BY <1>3, <1>6, <1>7 DEF RQ!Computed, Handler
<1>9. RQ!Resumed(c, w) = RQ!Enter(c, v, i + 1)
  <2>1. w.phase # "backward" /\ v.i = i
    BY <1>6, <1>7 DEF Handler
  <2> QED
    BY <1>8, <2>1 DEF RQ!Resumed, RQ!AfterForward
<1>10. HandlerRight(c, RQ!Enter(c, v, i + 1))
  BY <1>2, <1>4, <1>5, <1>7, EnterRight
<1> QED
  BY <1>9, <1>10

\* The backward pass of a block has run.
LEMMA NextBackward ==
  ASSUME CallsAssumption, NEW c \in Calls, c.method = "backward", RQ!Fitting(c), NEW i \in 1 .. RQ!Count(c),
         NEW w, w = BackwardAt(c, i)
  PROVE  HandlerRight(c, RQ!Resumed(c, w))
<1>1. RQ!Count(c) \in Nat \ {0}
  BY CallTyped
<1>2. PICK n \in Nat \ {0} : n = RQ!Count(c)
  BY <1>1
<1>3. w = Handler("backward", i, RQ!InputOf(c, n), Inputs(c, n), RQ!GradOf(c, i + 1), PromptGrads(c, i + 1))
  BY <1>2 DEF BackwardAt
<1>4. w.inputs[i] = RQ!InputOf(c, i)
  BY <1>2, <1>3 DEF Inputs, Handler
<1>5. RQ!BackBlock(c, RQ!Blocks(c)[i], RQ!InputOf(c, i), RQ!GradOf(c, i + 1)) = RQ!GradOf(c, i)
  BY <1>1, GradGrows DEF RQ!BackBlock, Back
<1>6. PICK v : v = Handler("backward", i, RQ!InputOf(c, n), Inputs(c, n), RQ!GradOf(c, i), PromptGrads(c, i + 1))
  OBVIOUS
<1>7. RQ!Computed(c, w) = v
  <2>1. w.phase = "backward" /\ w.i = i /\ w.grad = RQ!GradOf(c, i + 1)
    BY <1>3 DEF Handler
  <2>2. PICK back : back = RQ!BackBlock(c, RQ!Blocks(c)[w.i], w.inputs[w.i], w.grad)
    OBVIOUS
  <2>3. RQ!Computed(c, w) = [w EXCEPT !.grad = back]
    BY <2>1, <2>2 DEF RQ!Computed, RQ!BackBlock, RQ!Merged
  <2>4. back = RQ!GradOf(c, i)
    BY <2>1, <2>2, <1>4, <1>5
  <2> QED
    BY <2>3, <2>4, <1>3, <1>6 DEF Handler
<1>8. PICK kept : kept = Handler("backward", i, RQ!InputOf(c, n), Inputs(c, n), RQ!GradOf(c, i), PromptGrads(c, i))
  OBVIOUS
<1>9. kept = IF c.prompts # 0 THEN [v EXCEPT !.gradPrompts = Append(@, v.grad)] ELSE v
  <2>1. v.grad = RQ!GradOf(c, i) /\ v.gradPrompts = PromptGrads(c, i + 1)
    BY <1>6 DEF Handler
  <2>2. CASE c.prompts # 0
    <3>1. Append(PromptGrads(c, i + 1), RQ!GradOf(c, i)) = PromptGrads(c, i)
      BY <2>2, <1>1, PromptGradsGrow
    <3> QED
      BY <2>1, <2>2, <3>1, <1>6, <1>8 DEF Handler
  <2>3. CASE c.prompts = 0
    <3>1. PromptGrads(c, i + 1) = PromptGrads(c, i)
      BY <2>3 DEF PromptGrads
    <3> QED
      BY <2>3, <3>1, <1>6, <1>8
  <2> QED
    BY <2>2, <2>3
<1>10. RQ!Resumed(c, w) = IF i = 1 THEN [kept EXCEPT !.phase = "done"] ELSE [kept EXCEPT !.i = i - 1]
  <2>1. w.phase = "backward" /\ v.i = i /\ kept.i = i
    BY <1>3, <1>6, <1>8 DEF Handler
  <2> QED
    BY <1>7, <1>9, <2>1 DEF RQ!Resumed, RQ!AfterBackward
<1>11. CASE i = 1
  <2>1. /\ RQ!Resumed(c, w).phase = "done"
        /\ RQ!Resumed(c, w).grad = RQ!GradOf(c, 1)
        /\ RQ!Resumed(c, w).gradPrompts = PromptGrads(c, 1)
    BY <1>10, <1>11, <1>8 DEF Handler
  <2> QED
    BY <2>1 DEF HandlerRight, DoneRight, RQ!Computing
<1>12. CASE i # 1
  <2>1. i - 1 \in 1 .. RQ!Count(c) /\ (i - 1) + 1 = i
    BY <1>12, <1>2
  <2>2. RQ!Resumed(c, w) = BackwardAt(c, i - 1)
    BY <2>1, <1>2, <1>8, <1>10, <1>12 DEF BackwardAt, Handler
  <2>3. BackwardAt(c, i - 1).phase = "backward"
    BY DEF BackwardAt, Handler
  <2> QED
    BY <2>1, <2>2, <2>3 DEF HandlerRight, AwaitsRight
<1> QED
  BY <1>11, <1>12

LEMMA ResumedRight ==
  ASSUME CallsAssumption, NEW c \in Calls, NEW w, AwaitsRight(c, w), RQ!Fitting(c) \/ c.method # "inference"
  PROVE  HandlerRight(c, RQ!Resumed(c, w))
<1>1. RQ!Count(c) \in Nat \ {0} /\ c.method \in RQ!Computing
  BY CallTyped
<1>2. CASE RQ!Merged(c) /\ RQ!Fitting(c) /\ w = MergedAt
  <2>1. RQ!RunMerged(c, <<>>) = LastHidden(c)
    <3>1. RQ!Reach(c) = RQ!Count(c)
      BY <1>2, ReachTyped
    <3> QED
      BY <3>1, <1>1, MergedRuns DEF LastHidden
  <2>2. RQ!Resumed(c, w) = [[w EXCEPT !.hidden = LastHidden(c)] EXCEPT !.phase = "done"]
    BY <1>2, <2>1 DEF RQ!Resumed, RQ!AfterForward, RQ!Computed, MergedAt, Handler
  <2>3. RQ!Resumed(c, w).phase = "done" /\ RQ!Resumed(c, w).hidden = LastHidden(c)
    BY <1>2, <2>2 DEF MergedAt, Handler
  <2>4. c.method # "backward"
    BY <1>2 DEF RQ!Merged
  <2> QED
    BY <2>3, <2>4, <1>2 DEF HandlerRight, DoneRight, RQ!Computing
<1>3. ASSUME ~RQ!Merged(c), NEW i \in 1 .. RQ!Reach(c), RQ!PoolOf(c, i) \notin {"backward", "error"}, w = ForwardAt(c, i)
      PROVE  HandlerRight(c, RQ!Resumed(c, w))
  <2>1. CASE i = RQ!Reach(c)
    <3>1. c.method # "backward"
      <4>1. ~(i < RQ!Reach(c))
        BY <2>1, ReachTyped
      <4> QED
        BY <4>1, <1>3 DEF RQ!PoolOf
    <3> QED
      BY <1>3, <2>1, <3>1, LastForward
  <2>2. CASE i # RQ!Reach(c)
    BY <1>3, <2>2, NextForward
  <2> QED
    BY <2>1, <2>2
<1>4. ASSUME c.method = "backward", RQ!Fitting(c), NEW i \in 1 .. RQ!Count(c), w = BackwardAt(c, i)
      PROVE  HandlerRight(c, RQ!Resumed(c, w))
  BY <1>4, NextBackward
<1> QED
  BY <1>2, <1>3, <1>4 DEF AwaitsRight

-----------------------------------------------------------------------------
\* The variables of a handler stay what they are, whatever runs.

IsHandler(w) == w = Handler(w.phase, w.i, w.hidden, w.inputs, w.grad, w.gradPrompts)

LEMMA ShapeKept ==
  ASSUME NEW w, IsHandler(w), NEW e
  PROVE  /\ IsHandler([w EXCEPT !.phase = e]) /\ [w EXCEPT !.phase = e].phase = e
         /\ IsHandler([w EXCEPT !.i = e])
         /\ IsHandler([w EXCEPT !.hidden = e])
         /\ IsHandler([w EXCEPT !.inputs = e])
         /\ IsHandler([w EXCEPT !.grad = e])
         /\ IsHandler([w EXCEPT !.gradPrompts = e])
<1> PICK p, i, h, n, g, q : w = [phase |-> p, i |-> i, hidden |-> h, inputs |-> n, grad |-> g, gradPrompts |-> q]
  BY DEF IsHandler, Handler
<1> QED
  BY DEF IsHandler, Handler

LEMMA PhaseSet ==
  ASSUME NEW w, IsHandler(w), NEW e, NEW v, v = [w EXCEPT !.phase = e]
  PROVE  IsHandler(v) /\ v.phase = e
BY ShapeKept

LEMMA EnterShape ==
  ASSUME NEW c, NEW w, IsHandler(w), NEW i PROVE IsHandler(RQ!Enter(c, w, i))
<1>1. PICK h : h = RQ!WithPrompt(c, RQ!Blocks(c)[i], w.hidden)
  OBVIOUS
<1>2. PICK kept : kept = IF c.method = "backward" THEN Append(w.inputs, h) ELSE w.inputs
  OBVIOUS
<1>3. RQ!Enter(c, w, i) = [w EXCEPT !.phase = RQ!PoolOf(c, i), !.i = i, !.hidden = h, !.inputs = kept]
  BY <1>1, <1>2 DEF RQ!Enter
<1>4. PICK p, j, d, n, g, q : w = [phase |-> p, i |-> j, hidden |-> d, inputs |-> n, grad |-> g, gradPrompts |-> q]
  BY DEF IsHandler, Handler
<1>5. RQ!Enter(c, w, i) = [phase |-> RQ!PoolOf(c, i), i |-> i, hidden |-> h, inputs |-> kept, grad |-> g, gradPrompts |-> q]
  BY <1>3, <1>4
<1> QED
  BY <1>5 DEF IsHandler, Handler

LEMMA ResumedShape ==
  ASSUME NEW c \in Calls, NEW w, IsHandler(w) PROVE IsHandler(RQ!Resumed(c, w))
<1>1. PICK v : v = RQ!Computed(c, w)
  OBVIOUS
<1>2. IsHandler(v)
  <2>1. CASE w.phase = "backward" /\ ~RQ!Merged(c)
    <3>1. PICK e : e = RQ!BackBlock(c, RQ!Blocks(c)[w.i], w.inputs[w.i], w.grad)
      OBVIOUS
    <3>2. v = [w EXCEPT !.grad = e]
      BY <1>1, <2>1, <3>1 DEF RQ!Computed
    <3> QED
      BY <3>2, ShapeKept
  <2>2. CASE w.phase # "backward" /\ RQ!Merged(c)
    <3>1. v = [w EXCEPT !.hidden = RQ!RunMerged(c, w.hidden)]
      BY <1>1, <2>2 DEF RQ!Computed
    <3> QED
      BY <3>1, ShapeKept
  <2>3. CASE w.phase # "backward" /\ ~RQ!Merged(c)
    <3>1. v = [w EXCEPT !.hidden = RQ!RunBlock(c, RQ!Blocks(c)[w.i], w.hidden)]
      BY <1>1, <2>3 DEF RQ!Computed
    <3> QED
      BY <3>1, ShapeKept
  <2>4. CASE w.phase = "backward" /\ RQ!Merged(c)
    <3>1. \/ v = [w EXCEPT !.hidden = RQ!RunMerged(c, w.hidden)]
          \/ v = [w EXCEPT !.grad = RQ!BackBlock(c, RQ!Blocks(c)[w.i], w.inputs[w.i], w.grad)]
      BY <1>1, <2>4 DEF RQ!Computed
    <3>2. PICK e : e = RQ!BackBlock(c, RQ!Blocks(c)[w.i], w.inputs[w.i], w.grad)
      OBVIOUS
    <3>3. IsHandler([w EXCEPT !.hidden = RQ!RunMerged(c, w.hidden)]) /\ IsHandler([w EXCEPT !.grad = e])
      BY ShapeKept
    <3> QED
      BY <3>1, <3>2, <3>3, Zenon
  <2> QED
    BY <2>1, <2>2, <2>3, <2>4
<1>3. CASE w.phase = "backward"
  <2>1. PICK kept : kept = IF c.prompts # 0 THEN [v EXCEPT !.gradPrompts = Append(v.gradPrompts, v.grad)] ELSE v
    OBVIOUS
  <2>2. IsHandler(kept)
    BY <2>1, <1>2, ShapeKept
  <2>3. RQ!Resumed(c, w) = IF v.i = 1 THEN [kept EXCEPT !.phase = "done"] ELSE [kept EXCEPT !.i = kept.i - 1]
    BY <2>1, <1>1, <1>3 DEF RQ!Resumed, RQ!AfterBackward
  <2>4. IsHandler([kept EXCEPT !.phase = "done"]) /\ IsHandler([kept EXCEPT !.i = kept.i - 1])
    BY <2>2, ShapeKept
  <2> QED
    BY <2>3, <2>4, Zenon
<1>4. CASE w.phase # "backward"
  <2>1. RQ!Resumed(c, w) = IF v.i = RQ!Reach(c) \/ RQ!Merged(c) THEN [v EXCEPT !.phase = "done"]
                           ELSE RQ!Enter(c, v, v.i + 1)
    BY <1>1, <1>4 DEF RQ!Resumed, RQ!AfterForward
  <2>2. IsHandler([v EXCEPT !.phase = "done"]) /\ IsHandler(RQ!Enter(c, v, v.i + 1))
    BY <1>2, ShapeKept, EnterShape
  <2> QED
    BY <2>1, <2>2, Zenon
<1> QED
  BY <1>3, <1>4

LEMMA BeginShape == ASSUME NEW c \in Calls PROVE IsHandler(RQ!Begin(c))
<1>1. IsHandler(RQ!Idle)
  BY DEF RQ!Idle, IsHandler, Handler
<1>2. RQ!Begin(c) \in {MergedAt, RQ!Enter(c, RQ!Idle, 1), [RQ!Idle EXCEPT !.phase = "error"]}
  BY DEF RQ!Begin, RQ!Idle, MergedAt, Handler
<1>3. IsHandler(MergedAt) /\ IsHandler([RQ!Idle EXCEPT !.phase = "error"])
  BY DEF MergedAt, IsHandler, Handler, RQ!Idle
<1> QED
  BY <1>1, <1>2, <1>3, EnterShape

-----------------------------------------------------------------------------
\* What is right of every request while it is handled.
RequestRight(r) ==
  /\ IsHandler(work[r])
  /\ HandlerRight(call[r], work[r])
  /\ work[r].phase \in RQ!Computing \cup {"done"} => RQ!Accepted(call[r])
  /\ caller[r] = "answered" => work[r].phase = "done" /\ reply[r] = call[r].parts

RequestsRight ==
  /\ call \in [Rpcs -> Calls]
  /\ caller = [r \in Rpcs |-> caller[r]]
  /\ work = [r \in Rpcs |-> work[r]]
  /\ reply = [r \in Rpcs |-> reply[r]]
  /\ \A r \in Rpcs : RequestRight(r)

LEMMA RequestsStart == RQ!InitRequests => RequestsRight
<1>1. RQ!Idle.phase = "idle" /\ IsHandler(RQ!Idle)
  BY DEF RQ!Idle, IsHandler, Handler
<1>2. SUFFICES ASSUME RQ!InitRequests PROVE RequestsRight
  OBVIOUS
<1>3. \A r \in Rpcs : work[r] = RQ!Idle /\ caller[r] # "answered"
  BY <1>2 DEF RQ!InitRequests
<1>4. \A r \in Rpcs : RequestRight(r)
  BY <1>1, <1>3 DEF RequestRight, HandlerRight, RQ!Computing
<1> QED
  BY <1>2, <1>4 DEF RQ!InitRequests, RequestsRight

LEMMA AcceptedStays ==
  ASSUME NEW c, UNCHANGED inferenceOnly PROVE RQ!Accepted(c)' <=> RQ!Accepted(c)
BY DEF RQ!Accepted

\* Nothing that is known of a request changes.
LEMMA RequestSame ==
  ASSUME NEW r, RequestRight(r), UNCHANGED inferenceOnly,
         call'[r] = call[r], work'[r] = work[r],
         caller'[r] = "answered" => caller[r] = "answered" /\ reply'[r] = reply[r]
  PROVE  RequestRight(r)'
<1>1. RQ!Accepted(call[r])' <=> RQ!Accepted(call[r])
  BY DEF RQ!Accepted
<1> QED
  BY <1>1 DEF RequestRight

\* The handler of a request ends with an error or is gone.
LEMMA RequestEnds ==
  ASSUME NEW r \in Rpcs, RequestsRight, UNCHANGED <<inferenceOnly, call, caller, reply>>,
         caller[r] # "answered", NEW e \in {"error", "gone"},
         work' = [work EXCEPT ![r].phase = e]
  PROVE  RequestsRight'
<1>1. work' = [q \in Rpcs |-> IF q = r THEN [work[r] EXCEPT !.phase = e] ELSE work[q]]
  BY DEF RequestsRight
<1>2. RequestRight(r)'
  <2>1. IsHandler(work'[r]) /\ work'[r].phase = e
    <3>1. work'[r] = [work[r] EXCEPT !.phase = e]
      BY <1>1
    <3>2. IsHandler(work[r])
      BY DEF RequestsRight, RequestRight
    <3>3. PICK w : w = work[r]
      OBVIOUS
    <3>4. PICK v : v = work'[r]
      OBVIOUS
    <3>5. IsHandler(v) /\ v.phase = e
      BY <3>1, <3>2, <3>3, <3>4, PhaseSet
    <3> QED
      BY <3>4, <3>5
  <2>2. e \notin RQ!Computing \cup {"done"}
    BY DEF RQ!Computing
  <2> QED
    BY <2>1, <2>2 DEF RequestRight, HandlerRight
<1>3. \A q \in Rpcs \ {r} : RequestRight(q)'
  BY <1>1, RequestSame DEF RequestsRight
<1> QED
  BY <1>1, <1>2, <1>3 DEF RequestsRight

\* A handler goes on.
LEMMA RequestGoesOn ==
  ASSUME NEW r \in Rpcs, RequestsRight, UNCHANGED <<inferenceOnly, call, caller, reply>>,
         caller[r] # "answered", RQ!Accepted(call[r]),
         NEW w, IsHandler(w), HandlerRight(call[r], w), work' = [work EXCEPT ![r] = w]
  PROVE  RequestsRight'
<1>1. work' = [q \in Rpcs |-> IF q = r THEN w ELSE work[q]]
  BY DEF RequestsRight
<1>2. RequestRight(r)'
  <2>1. RQ!Accepted(call[r])'
    BY DEF RQ!Accepted
  <2> QED
    BY <2>1, <1>1 DEF RequestRight
<1>3. \A q \in Rpcs \ {r} : RequestRight(q)'
  BY <1>1, RequestSame DEF RequestsRight
<1> QED
  BY <1>1, <1>2, <1>3 DEF RequestsRight

\* Only what the client has seen of one request changes, and not to an answer.
LEMMA OnlySeen ==
  ASSUME NEW r \in Rpcs, RequestsRight, UNCHANGED <<inferenceOnly, call, work, reply>>,
         NEW e \in {"reading", "failed"}, caller' = [caller EXCEPT ![r] = e]
  PROVE  RequestsRight'
<1>1. caller' = [q \in Rpcs |-> IF q = r THEN e ELSE caller[q]]
  BY DEF RequestsRight
<1>2. \A q \in Rpcs : RequestRight(q)'
  BY <1>1, RequestSame DEF RequestsRight
<1> QED
  BY <1>1, <1>2 DEF RequestsRight

LEMMA RequestsStep ==
  ASSUME CallsAssumption, RequestsRight, RQ!NextRequests PROVE RequestsRight'
<1> USE DEF RequestsRight
<1>0. \A r \in Rpcs : /\ RequestRight(r) /\ call[r] \in Calls
                      /\ work[r].phase # "done" => caller[r] # "answered"
  BY DEF RequestRight
<1>1. ASSUME NEW r \in Rpcs, RQ!Arrive(r) PROVE RequestsRight'
  <2>1. UNCHANGED <<inferenceOnly, call, caller, work, reply>>
    BY <1>1 DEF RQ!Arrive
  <2>2. \A q \in Rpcs : RequestRight(q)'
    BY <2>1, RequestSame
  <2> QED
    BY <2>1, <2>2
<1>10. ASSUME NEW r \in Rpcs, RQ!Opened(r) PROVE RequestsRight'
  <2>1. UNCHANGED <<inferenceOnly, call, work, reply>> /\ caller' = [caller EXCEPT ![r] = "reading"]
    BY <1>10 DEF RQ!Opened
  <2> QED
    BY <2>1, OnlySeen
<1>2. ASSUME NEW r \in Rpcs, RQ!Start(r) PROVE RequestsRight'
  <2>1. /\ UNCHANGED <<inferenceOnly, call, caller, reply>> /\ work' = [work EXCEPT ![r] = RQ!Begin(call[r])]
        /\ RQ!Accepted(call[r]) /\ work[r].phase = "idle"
    BY <1>2 DEF RQ!Start
  <2>2. IsHandler(RQ!Begin(call[r])) /\ HandlerRight(call[r], RQ!Begin(call[r]))
    BY <1>0, BeginShape, BeginRight
  <2> QED
    BY <1>0, <2>1, <2>2, RequestGoesOn
<1>3. ASSUME NEW r \in Rpcs, RQ!Refuse(r) PROVE RequestsRight'
  <2>1. /\ UNCHANGED <<inferenceOnly, call, caller, reply>> /\ work' = [work EXCEPT ![r].phase = "error"]
        /\ work[r].phase = "idle"
    BY <1>3 DEF RQ!Refuse
  <2> QED
    BY <1>0, <2>1, RequestEnds
<1>4. ASSUME NEW r \in Rpcs, RQ!Answer(r) PROVE RequestsRight'
  <2>1. /\ UNCHANGED <<inferenceOnly, call, work>> /\ work[r].phase = "done"
        /\ caller[r] \in {"calling", "reading"}
        /\ caller' = [caller EXCEPT ![r] = IF reply'[r] = call[r].parts THEN "answered" ELSE @]
        /\ \E n : reply' = [reply EXCEPT ![r] = n]
    BY <1>4 DEF RQ!Answer
  <2>2. \A q \in Rpcs \ {r} : caller'[q] = caller[q] /\ reply'[q] = reply[q]
    BY <2>1
  <2>3. caller'[r] = "answered" => reply'[r] = call[r].parts
    <3>1. caller'[r] = IF reply'[r] = call[r].parts THEN "answered" ELSE caller[r]
      BY <2>1, <1>0
    <3>2. caller[r] # "answered"
      BY <2>1
    <3> QED
      BY <3>1, <3>2
  <2>4. \A q \in Rpcs \ {r} : RequestRight(q)'
    BY <2>1, <2>2, RequestSame
  <2>5. RequestRight(r)'
    <3>1. RQ!Accepted(call[r])' <=> RQ!Accepted(call[r])
      BY <2>1 DEF RQ!Accepted
    <3> QED
      BY <1>0, <2>1, <2>3, <3>1 DEF RequestRight
  <2> QED
    BY <2>1, <2>4, <2>5
<1>5. ASSUME NEW r \in Rpcs, RQ!ErrorReply(r) \/ RQ!ConnectTimeout(r) \/ RQ!CallTimeout(r) \/ RQ!PartTimeout(r) PROVE RequestsRight'
  <2>1. UNCHANGED <<inferenceOnly, call, work, reply>> /\ caller' = [caller EXCEPT ![r] = "failed"]
    BY <1>5 DEF RQ!ErrorReply, RQ!ConnectTimeout, RQ!CallTimeout, RQ!PartTimeout, RQ!Fails
  <2> QED
    BY <2>1, OnlySeen
<1>6. ASSUME NEW r \in Rpcs, RQ!ServerTimeout(r) PROVE RequestsRight'
  <2>1. /\ UNCHANGED <<inferenceOnly, call, caller, reply>> /\ work' = [work EXCEPT ![r].phase = "error"]
        /\ caller[r] # "answered"
    BY <1>6 DEF RQ!ServerTimeout, RQ!Waiting
  <2> QED
    BY <2>1, RequestEnds
<1>7. ASSUME NEW r \in Rpcs, RQ!Lost(r) PROVE RequestsRight'
  <2>1. /\ UNCHANGED <<inferenceOnly, call, caller, reply>> /\ work' = [work EXCEPT ![r].phase = "gone"]
        /\ caller[r] # "answered"
    BY <1>7 DEF RQ!Lost, RQ!Waiting
  <2> QED
    BY <2>1, RequestEnds
<1>8. ASSUME NEW t \in pool, RQ!RunTask(t) PROVE RequestsRight'
  <2>1. /\ UNCHANGED <<inferenceOnly, call, caller, reply>>
        /\ work' = [work EXCEPT ![t.request] = IF RQ!Awaits(t.request, t)
                                               THEN RQ!Resumed(call[t.request], work[t.request]) ELSE work[t.request]]
    BY <1>8 DEF RQ!RunTask
  <2>2. CASE t.request \in Rpcs /\ RQ!Awaits(t.request, t)
    <3>1. PICK r \in Rpcs : r = t.request
      BY <2>2
    <3>2. work[r].phase \in RQ!Computing
      BY <2>2, <3>1 DEF RQ!Awaits, RQ!Awaited
    <3>3. work' = [work EXCEPT ![r] = RQ!Resumed(call[r], work[r])]
      BY <2>1, <2>2, <3>1
    <3>4. /\ AwaitsRight(call[r], work[r]) /\ IsHandler(work[r]) /\ RQ!Accepted(call[r])
          /\ RQ!Fitting(call[r]) \/ call[r].method # "inference"
      BY <1>0, <3>2 DEF RequestRight, HandlerRight
    <3>5. work[r].phase # "done"
      BY <3>2 DEF RQ!Computing
    <3>6. IsHandler(RQ!Resumed(call[r], work[r])) /\ HandlerRight(call[r], RQ!Resumed(call[r], work[r]))
      BY <1>0, <3>4, ResumedShape, ResumedRight
    <3> QED
      BY <1>0, <2>1, <3>3, <3>4, <3>5, <3>6, RequestGoesOn
  <2>3. CASE ~(t.request \in Rpcs /\ RQ!Awaits(t.request, t))
    <3>1. work' = work
      BY <2>1, <2>3
    <3>2. \A q \in Rpcs : RequestRight(q)'
      BY <2>1, <3>1, RequestSame
    <3> QED
      BY <2>1, <3>1, <3>2
  <2> QED
    BY <2>2, <2>3
<1>9. ASSUME NEW t \in pool, RQ!TaskRaises(t) PROVE RequestsRight'
  <2>1. /\ UNCHANGED <<inferenceOnly, call, caller, reply>>
        /\ work' = [work EXCEPT ![t.request].phase = "error"]
        /\ RQ!Awaits(t.request, t)
    BY <1>9 DEF RQ!TaskRaises
  <2>2. CASE t.request \in Rpcs
    <3>1. PICK r \in Rpcs : r = t.request
      BY <2>2
    <3>2. work[r].phase # "done"
      BY <2>1, <3>1 DEF RQ!Awaits, RQ!Awaited, RQ!Computing
    <3> QED
      BY <1>0, <2>1, <3>1, <3>2, RequestEnds
  <2>3. CASE t.request \notin Rpcs
    <3>1. work' = work
      BY <2>1, <2>3
    <3>2. \A q \in Rpcs : RequestRight(q)'
      BY <2>1, <3>1, RequestSame
    <3> QED
      BY <2>1, <3>1, <3>2
  <2> QED
    BY <2>2, <2>3
<1> QED
  BY <1>1, <1>2, <1>3, <1>4, <1>5, <1>6, <1>7, <1>8, <1>9, <1>10 DEF RQ!NextRequests

\* What a handler answers when it is right.
LEMMA AnswerExpected ==
  ASSUME CallsAssumption, NEW c \in Calls, NEW w, DoneRight(c, w)
  PROVE  RQ!Response(c, w) = RQ!Expected(c)
<1>1. RQ!Count(c) \in Nat \ {0}
  BY CallTyped
<1>2. CASE c.method # "backward"
  <2>1. LastHidden(c) = Append(RQ!InputOf(c, RQ!Reach(c)), <<"block", RQ!Blocks(c)[RQ!Reach(c)], c.adapter>>)
    BY DEF LastHidden, RQ!RunBlock
  <2> QED
    BY <1>2, <2>1 DEF DoneRight, RQ!Response, RQ!Expected
<1>3. CASE c.method = "backward"
  <2>1. w.grad = RQ!GradOf(c, 1) /\ w.gradPrompts = PromptGrads(c, 1)
    BY <1>3 DEF DoneRight
  <2>2. RQ!Reverse(PromptGrads(c, 1)) = IF c.prompts # 0 THEN [i \in 1 .. RQ!Count(c) |-> RQ!GradOf(c, i)] ELSE <<>>
    <3>1. PICK n \in Nat \ {0} : n = RQ!Count(c)
      BY <1>1
    <3>2. PICK f : f = PromptGrads(c, 1)
      OBVIOUS
    <3>3. CASE c.prompts # 0
      <4>1. f = [k \in 1 .. n |-> RQ!GradOf(c, n - k + 1)] /\ n - 1 + 1 = n
        BY <3>1, <3>2, <3>3 DEF PromptGrads
      <4>2. Len(f) = n
        BY <4>1
      <4>3. RQ!Reverse(f) = [i \in 1 .. n |-> f[(n - i) + 1]]
        BY <4>2 DEF RQ!Reverse
      <4>4. ASSUME NEW i \in 1 .. n PROVE f[(n - i) + 1] = RQ!GradOf(c, i)
        <5>1. (n - i) + 1 \in 1 .. n /\ n - ((n - i) + 1) + 1 = i
          OBVIOUS
        <5> QED
          BY <4>1, <5>1
      <4> QED
        BY <3>1, <3>2, <3>3, <4>3, <4>4
    <3>4. CASE c.prompts = 0
      <4>1. f = <<>>
        BY <3>2, <3>4 DEF PromptGrads
      <4>2. RQ!Reverse(f) = <<>>
        BY <4>1 DEF RQ!Reverse
      <4> QED
        BY <3>2, <3>4, <4>2
    <3> QED
      BY <1>1, <3>3, <3>4
  <2> QED
    BY <1>3, <2>1, <2>2 DEF RQ!Response, RQ!Expected
<1> QED
  BY <1>2, <1>3

\* Whatever is lost, refused or times out, and however the tasks of other requests come in
\* between, a reply that a client accepts is what the whole chain it named computes: every
\* block of it once and in order, each with its prompts (and, backward, with the inputs of
\* the forward pass that was run again), merged into one task where rpc_inference may.  Only
\* a forward call is answered when its prompts do not fit, with what the blocks compute that
\* have one.
THEOREM ChainsAreWhole ==
  ASSUME CallsAssumption
  PROVE  RQ!InitRequests /\ [][RQ!NextRequests]_RQ!rpcVars => []RQ!AnswersAreTheWholeChain
<1>1. RequestsRight /\ [RQ!NextRequests]_RQ!rpcVars => RequestsRight'
  <2>1. SUFFICES ASSUME RequestsRight, UNCHANGED RQ!rpcVars PROVE RequestsRight'
    BY RequestsStep
  <2>2. UNCHANGED <<inferenceOnly, call, caller, work, reply>>
    BY <2>1 DEF RQ!rpcVars
  <2>3. \A r \in Rpcs : RequestRight(r)'
    BY <2>1, <2>2, RequestSame DEF RequestsRight
  <2> QED
    BY <2>1, <2>2, <2>3 DEF RequestsRight
<1>2. RequestsRight => RQ!AnswersAreTheWholeChain
  <2>1. SUFFICES ASSUME RequestsRight, NEW r \in Rpcs, caller[r] = "answered"
                 PROVE  /\ RQ!Accepted(call[r]) /\ reply[r] = call[r].parts
                        /\ RQ!Fitting(call[r]) \/ call[r].method = "forward"
                        /\ RQ!Response(call[r], work[r]) = RQ!Expected(call[r])
    BY DEF RQ!AnswersAreTheWholeChain
  <2>2. /\ work[r].phase = "done" /\ reply[r] = call[r].parts /\ RQ!Accepted(call[r])
        /\ DoneRight(call[r], work[r]) /\ call[r] \in Calls
    BY <2>1 DEF RequestsRight, RequestRight, HandlerRight
  <2>3. RQ!Fitting(call[r]) \/ call[r].method = "forward"
    BY <2>2 DEF DoneRight
  <2> QED
    BY <2>2, <2>3, AnswerExpected
<1> QED
  BY <1>1, <1>2, RequestsStart, PTL

-----------------------------------------------------------------------------
(* What the attention caches hold.                                        *)

CONSTANTS Beams, Orders, MaxLength, ChunkBudget, Layers, CacheSteps
VARIABLES history, prefix, slots, state, position, answer, steps

CA == INSTANCE BlockCache WITH MaxSteps <- CacheSteps

-----------------------------------------------------------------------------
\* The hidden states of the tokens after the first a of a history, n of them: what each depends on.

Hidden(h, a, n) == [i \in 1 .. n |-> SubSeq(h, 1, a + i)]

LEMMA PrefixIs ==
  ASSUME NEW T, NEW h \in Seq(T), NEW k \in 0 .. Len(h)
  PROVE  /\ SubSeq(h, 1, k) \in Seq(T) /\ Len(SubSeq(h, 1, k)) = k
         /\ \A i \in 1 .. k : SubSeq(h, 1, k)[i] = h[i]
<1>1. \A i \in 1 .. k : h[i] \in T
  BY ElementOfSeq
<1> QED
  BY <1>1, SubSeqProperties

LEMMA PrefixOfPrefix ==
  ASSUME NEW T, NEW h \in Seq(T), NEW k \in 0 .. Len(h), NEW j \in 0 .. k
  PROVE  SubSeq(SubSeq(h, 1, k), 1, j) = SubSeq(h, 1, j)
<1>1. PICK t : t = SubSeq(h, 1, k)
  OBVIOUS
<1>2. t \in Seq(T) /\ Len(t) = k /\ \A i \in 1 .. k : t[i] = h[i]
  BY <1>1, PrefixIs
<1>3. /\ SubSeq(t, 1, j) \in Seq(T) /\ Len(SubSeq(t, 1, j)) = j
      /\ \A i \in 1 .. j : SubSeq(t, 1, j)[i] = t[i]
  BY <1>2, PrefixIs
<1>4. j \in 0 .. Len(h) /\ j \in Nat
  OBVIOUS
<1>5. /\ SubSeq(h, 1, j) \in Seq(T) /\ Len(SubSeq(h, 1, j)) = j
      /\ \A i \in 1 .. j : SubSeq(h, 1, j)[i] = h[i]
  BY <1>4, PrefixIs
<1>6. \A i \in 1 .. j : SubSeq(t, 1, j)[i] = SubSeq(h, 1, j)[i]
  BY <1>2, <1>3, <1>5
<1>7. SubSeq(t, 1, j) = SubSeq(h, 1, j)
  BY <1>3, <1>5, <1>6, SeqEqual
<1> QED
  BY <1>1, <1>7

LEMMA HiddenIs ==
  ASSUME NEW T, NEW h \in Seq(T), NEW a \in Nat, NEW n \in Nat, a + n <= Len(h)
  PROVE  /\ Hidden(h, a, n) \in Seq(Seq(T)) /\ Len(Hidden(h, a, n)) = n
         /\ \A i \in 1 .. n : Hidden(h, a, n)[i] = SubSeq(h, 1, a + i) /\ SubSeq(h, 1, a + i) \in Seq(T)
<1>1. \A i \in 1 .. n : a + i \in 0 .. Len(h)
  OBVIOUS
<1>2. \A i \in 1 .. n : SubSeq(h, 1, a + i) \in Seq(T)
  BY <1>1, PrefixIs
<1>3. Hidden(h, a, n) \in [1 .. n -> Seq(T)]
  BY <1>2 DEF Hidden
<1>4. Hidden(h, a, n) \in Seq(Seq(T)) /\ Len(Hidden(h, a, n)) = n
  BY <1>3
<1> QED
  BY <1>2, <1>4 DEF Hidden

\* Tokens that come one after another, and a part of them.
LEMMA HiddenConcat ==
  ASSUME NEW T, NEW h \in Seq(T), NEW a \in Nat, NEW n \in Nat, NEW m \in Nat, a + n + m <= Len(h)
  PROVE  Hidden(h, a, n) \o Hidden(h, a + n, m) = Hidden(h, a, n + m)
<1>1. PICK x, y, z : x = Hidden(h, a, n) /\ y = Hidden(h, a + n, m) /\ z = Hidden(h, a, n + m)
  OBVIOUS
<1>2. x \in Seq(Seq(T)) /\ Len(x) = n /\ \A i \in 1 .. n : x[i] = SubSeq(h, 1, a + i)
  <2>1. a + n <= Len(h)
    OBVIOUS
  <2>2. /\ Hidden(h, a, n) \in Seq(Seq(T)) /\ Len(Hidden(h, a, n)) = n
        /\ \A i \in 1 .. n : Hidden(h, a, n)[i] = SubSeq(h, 1, a + i)
    BY <2>1, HiddenIs
  <2> QED
    BY <2>2, <1>1
<1>3. y \in Seq(Seq(T)) /\ Len(y) = m /\ \A i \in 1 .. m : y[i] = SubSeq(h, 1, a + n + i)
  <2>1. PICK k \in Nat : k = a + n
    OBVIOUS
  <2>2. k + m <= Len(h) /\ y = Hidden(h, k, m)
    BY <2>1, <1>1
  <2>3. y \in Seq(Seq(T)) /\ Len(y) = m /\ \A i \in 1 .. m : y[i] = SubSeq(h, 1, k + i)
    BY <2>2, HiddenIs
  <2> QED
    BY <2>1, <2>3
<1>4. z \in Seq(Seq(T)) /\ Len(z) = n + m /\ \A i \in 1 .. n + m : z[i] = SubSeq(h, 1, a + i)
  <2>1. PICK k \in Nat : k = n + m
    OBVIOUS
  <2>2. a + k <= Len(h) /\ z = Hidden(h, a, k)
    BY <2>1, <1>1
  <2>3. z \in Seq(Seq(T)) /\ Len(z) = k /\ \A i \in 1 .. k : z[i] = SubSeq(h, 1, a + i)
    BY <2>2, HiddenIs
  <2> QED
    BY <2>1, <2>3
<1>5. /\ x \o y \in Seq(Seq(T)) /\ Len(x \o y) = n + m
      /\ \A i \in 1 .. n + m : (x \o y)[i] = IF i <= n THEN x[i] ELSE y[i - n]
  BY <1>2, <1>3, ConcatProperties, ZenonT(40)
<1>6. \A i \in 1 .. n + m : (x \o y)[i] = z[i]
  <2>1. SUFFICES ASSUME NEW i \in 1 .. n + m PROVE (x \o y)[i] = SubSeq(h, 1, a + i)
    BY <1>4
  <2>2. CASE i <= n
    BY <2>2, <1>2, <1>5
  <2>3. CASE ~(i <= n)
    <3>1. i - n \in 1 .. m /\ a + n + (i - n) = a + i
      BY <2>3
    <3> QED
      BY <2>3, <3>1, <1>3, <1>5
  <2> QED
    BY <2>2, <2>3
<1>7. x \o y = z
  BY <1>4, <1>5, <1>6, SeqEqual
<1> QED
  BY <1>1, <1>7

LEMMA HiddenPart ==
  ASSUME NEW T, NEW h \in Seq(T), NEW a \in Nat, NEW n \in Nat, a + n <= Len(h), NEW c \in 0 .. n, NEW d \in c .. n
  PROVE  SubSeq(Hidden(h, a, n), c + 1, d) = Hidden(h, a + c, d - c)
<1>1. PICK x, z : x = Hidden(h, a, n) /\ z = Hidden(h, a + c, d - c)
  OBVIOUS
<1>2. x \in Seq(Seq(T)) /\ Len(x) = n /\ \A i \in 1 .. n : x[i] = SubSeq(h, 1, a + i) /\ x[i] \in Seq(T)
  BY <1>1, HiddenIs, SMTT(30)
<1>3. a + c \in Nat /\ d - c \in Nat /\ a + c + (d - c) <= Len(h)
  OBVIOUS
<1>4. z \in Seq(Seq(T)) /\ Len(z) = d - c /\ \A i \in 1 .. d - c : z[i] = SubSeq(h, 1, a + c + i)
  <2>1. PICK j, k \in Nat : j = a + c /\ k = d - c
    BY <1>3
  <2>2. j + k <= Len(h) /\ z = Hidden(h, j, k)
    BY <2>1, <1>1, <1>3
  <2>3. z \in Seq(Seq(T)) /\ Len(z) = k /\ \A i \in 1 .. k : z[i] = SubSeq(h, 1, j + i)
    BY <2>2, HiddenIs
  <2> QED
    BY <2>1, <2>3
<1>5. c + 1 \in Int /\ d \in Int /\ \A i \in c + 1 .. d : x[i] \in Seq(T)
  BY <1>2
<1>6. /\ SubSeq(x, c + 1, d) \in Seq(Seq(T)) /\ Len(SubSeq(x, c + 1, d)) = IF c + 1 <= d THEN d - (c + 1) + 1 ELSE 0
      /\ \A i \in 1 .. d - (c + 1) + 1 : SubSeq(x, c + 1, d)[i] = x[c + 1 + i - 1]
  BY <1>5, SubSeqProperties
<1>7. \A i \in 1 .. d - c : SubSeq(x, c + 1, d)[i] = z[i]
  <2>1. SUFFICES ASSUME NEW i \in 1 .. d - c PROVE SubSeq(x, c + 1, d)[i] = z[i]
    OBVIOUS
  <2>2. i \in 1 .. d - (c + 1) + 1 /\ c + 1 + i - 1 = c + i /\ c + i \in 1 .. n /\ a + (c + i) = a + c + i
    OBVIOUS
  <2> QED
    BY <2>2, <1>2, <1>4, <1>6
<1>8. Len(SubSeq(x, c + 1, d)) = d - c
  BY <1>6
<1>9. SubSeq(x, c + 1, d) = z
  BY <1>4, <1>6, <1>7, <1>8, SeqEqual
<1> QED
  BY <1>1, <1>9

-----------------------------------------------------------------------------
\* A token that sees the tokens before it, and a chunk of such tokens.

LEMMA AttendRight ==
  ASSUME NEW T, NEW h \in Seq(T), NEW n \in 1 .. Len(h)
  PROVE  CA!Attend(Hidden(h, 0, n)) = SubSeq(h, 1, n)
<1>1. PICK x : x = Hidden(h, 0, n)
  OBVIOUS
<1>2. Len(x) = n /\ \A i \in 1 .. n : x[i] = SubSeq(h, 1, i)
  <2>1. 0 \in Nat /\ n \in Nat /\ 0 + n <= Len(h)
    OBVIOUS
  <2>2. Len(x) = n /\ \A i \in 1 .. n : x[i] = SubSeq(h, 1, 0 + i)
    BY <2>1, <1>1, HiddenIs
  <2> QED
    BY <2>2
<1>3. CA!Last(x) = SubSeq(h, 1, n)
  BY <1>2 DEF CA!Last
<1>4. \A i \in 1 .. n : SubSeq(SubSeq(h, 1, n), 1, i) = SubSeq(h, 1, i)
  <2>1. SUFFICES ASSUME NEW i \in 1 .. n PROVE SubSeq(SubSeq(h, 1, n), 1, i) = SubSeq(h, 1, i)
    OBVIOUS
  <2>2. n \in 0 .. Len(h) /\ i \in 0 .. n
    OBVIOUS
  <2> QED
    BY <2>2, PrefixOfPrefix
<1>5. CA!Attend(x) = SubSeq(h, 1, n)
  BY <1>2, <1>3, <1>4 DEF CA!Attend
<1> QED
  BY <1>1, <1>5

\* After c tokens, of which those from the a-th on were just computed.
Reached(h, a, c) == [seen |-> Hidden(h, 0, c), out |-> Hidden(h, a, c - a)]

LEMMA ChunkRight ==
  ASSUME NEW T, NEW h \in Seq(T), NEW a \in Nat, NEW c \in a .. Len(h), NEW d \in c .. Len(h)
  PROVE  CA!RunChunk(Reached(h, a, c), Hidden(h, c, d - c)) = Reached(h, a, d)
<1>1. PICK xs, m : xs = Hidden(h, c, d - c) /\ m = d - c
  OBVIOUS
<1>2. m \in Nat /\ c \in Nat /\ c + m <= Len(h) /\ c + m = d /\ 0 + c + m <= Len(h) /\ 0 \in Nat /\ 0 + c = c
  BY <1>1
<1>3. xs = Hidden(h, c, m) /\ Len(xs) = m
  <2>1. Len(Hidden(h, c, m)) = m
    BY <1>2, HiddenIs
  <2> QED
    BY <2>1, <1>1
<1>4. Hidden(h, 0, c) \o xs = Hidden(h, 0, d)
  <2>1. Hidden(h, 0, c) \o Hidden(h, 0 + c, m) = Hidden(h, 0, c + m)
    BY <1>2, HiddenConcat
  <2> QED
    BY <2>1, <1>2, <1>3
<1>5. ASSUME NEW i \in 1 .. m
      PROVE  CA!Attend(Hidden(h, 0, c) \o SubSeq(xs, 1, i)) = SubSeq(h, 1, c + i)
  <2>1. SubSeq(xs, 1, i) = Hidden(h, c, i)
    <3>1. 0 \in 0 .. m /\ i \in 0 .. m /\ 0 + 1 = 1 /\ c + 0 = c /\ i - 0 = i
      BY <1>2
    <3>2. SubSeq(Hidden(h, c, m), 0 + 1, i) = Hidden(h, c + 0, i - 0)
      BY <1>2, <3>1, HiddenPart, ZenonT(40)
    <3> QED
      BY <3>1, <3>2, <1>3
  <2>2. i \in Nat /\ 0 + c + i <= Len(h) /\ c + i \in 1 .. Len(h)
    BY <1>2
  <2>3. Hidden(h, 0, c) \o Hidden(h, 0 + c, i) = Hidden(h, 0, c + i)
    BY <1>2, <2>2, HiddenConcat, SMTT(30)
  <2>4. CA!Attend(Hidden(h, 0, c + i)) = SubSeq(h, 1, c + i)
    BY <2>2, AttendRight
  <2> QED
    BY <2>1, <2>3, <2>4, <1>2
<1>6. [i \in 1 .. Len(xs) |-> CA!Attend(Hidden(h, 0, c) \o SubSeq(xs, 1, i))] = xs
  BY <1>3, <1>5 DEF Hidden
<1>7. Hidden(h, a, c - a) \o xs = Hidden(h, a, d - a)
  <2>1. PICK n \in Nat : n = c - a
    OBVIOUS
  <2>2. a + n + m <= Len(h) /\ a + n = c /\ n + m = d - a
    BY <2>1, <1>2
  <2>3. Hidden(h, a, n) \o Hidden(h, a + n, m) = Hidden(h, a, n + m)
    BY <2>2, <1>2, HiddenConcat
  <2> QED
    BY <2>1, <2>2, <2>3, <1>3
<1>8. CA!RunChunk(Reached(h, a, c), xs) = [seen |-> Hidden(h, 0, d), out |-> Hidden(h, a, d - a)]
  BY <1>4, <1>6, <1>7 DEF CA!RunChunk, Reached
<1> QED
  BY <1>1, <1>8 DEF Reached

-----------------------------------------------------------------------------
\* The fold over the chunks, which takes the last chunk of a set of chunks off.

FoldGraph(base, cs, S, g) ==
  g = [s \in SUBSET S |-> IF s = {} THEN base ELSE CA!RunChunk(g[s \ {Max(s)}], cs[Max(s)])]
Fold(base, cs, S) == (CHOOSE g : FoldGraph(base, cs, S, g))[S]

Numbered(S) == S \subseteq Nat /\ IsFiniteSet(S)

LEMMA NumberedPart == ASSUME NEW S, Numbered(S), NEW T, T \subseteq S PROVE Numbered(T)
BY FS_Subset DEF Numbered

LEMMA MaxIn == ASSUME NEW s, Numbered(s), s # {} PROVE Max(s) \in s
<1>1. s \subseteq Int /\ IsFiniteSet(s)
  BY DEF Numbered
<1> QED
  BY <1>1, MaxFinite

LEMMA FoldUnique ==
  ASSUME NEW base, NEW cs, NEW S, NEW T, T \subseteq S, Numbered(T),
         NEW g, NEW h, FoldGraph(base, cs, S, g), FoldGraph(base, cs, T, h)
  PROVE  Agree(g, h, T)
<1>1. PICK bad : bad = {s \in SUBSET T : g[s] # h[s]}
  OBVIOUS
<1>2. SUFFICES ASSUME bad # {} PROVE FALSE
  BY <1>1 DEF Agree
<1>3. \A s \in bad : Numbered(s) /\ IsFiniteSet(s)
  BY <1>1, NumberedPart DEF Numbered
<1>4. PICK s \in bad : \A u \in bad : u \subseteq s => u = s
  BY <1>2, <1>3, LeastSet
<1>5. s \in SUBSET T /\ s \in SUBSET S /\ g[s] # h[s]
  BY <1>1
<1>6. /\ g[s] = IF s = {} THEN base ELSE CA!RunChunk(g[s \ {Max(s)}], cs[Max(s)])
      /\ h[s] = IF s = {} THEN base ELSE CA!RunChunk(h[s \ {Max(s)}], cs[Max(s)])
  BY <1>5 DEF FoldGraph
<1>7. s # {}
  BY <1>5, <1>6
<1>8. Max(s) \in s
  BY <1>3, <1>5, <1>7, MaxIn
<1>9. s \ {Max(s)} \notin bad
  BY <1>4, <1>8
<1>10. g[s \ {Max(s)}] = h[s \ {Max(s)}]
  BY <1>1, <1>5, <1>9
<1> QED
  BY <1>5, <1>6, <1>10

LEMMA FoldOfGraph ==
  ASSUME NEW base, NEW cs, NEW S, Numbered(S), NEW g, FoldGraph(base, cs, S, g)
  PROVE  \A T \in SUBSET S : (\E h : FoldGraph(base, cs, T, h)) => Fold(base, cs, T) = g[T]
<1>1. SUFFICES ASSUME NEW T, T \subseteq S, \E h : FoldGraph(base, cs, T, h) PROVE Fold(base, cs, T) = g[T]
  OBVIOUS
<1>2. PICK h : h = CHOOSE k : FoldGraph(base, cs, T, k)
  OBVIOUS
<1>3. FoldGraph(base, cs, T, h)
  BY <1>1, <1>2
<1>4. Numbered(T)
  BY <1>1, NumberedPart
<1>5. Agree(g, h, T)
  <2>1. FoldGraph(base, cs, S, g) /\ T \subseteq S
    BY <1>1
  <2> QED
    BY <2>1, <1>3, <1>4, FoldUnique
<1> QED
  BY <1>2, <1>5 DEF Fold, Agree

LEMMA FoldExists ==
  ASSUME NEW base, NEW cs, NEW S, Numbered(S) PROVE \E g : FoldGraph(base, cs, S, g)
<1>1. PICK bad : bad = {T \in SUBSET S : ~\E g : FoldGraph(base, cs, T, g)}
  OBVIOUS
<1>2. SUFFICES ASSUME bad # {} PROVE FALSE
  BY <1>1
<1>3. \A T \in bad : Numbered(T) /\ IsFiniteSet(T)
  BY <1>1, NumberedPart DEF Numbered
<1>4. PICK T \in bad : \A U \in bad : U \subseteq T => U = T
  BY <1>2, <1>3, LeastSet
<1>5. T \in SUBSET S /\ ~\E g : FoldGraph(base, cs, T, g)
  BY <1>1
<1>6. \A U \in SUBSET T : Numbered(U) /\ (U # T => \E h : FoldGraph(base, cs, U, h))
  BY <1>1, <1>3, <1>4, <1>5, NumberedPart
<1>7. PICK g : g = [s \in SUBSET T |-> IF s = {} THEN base
                                      ELSE CA!RunChunk(Fold(base, cs, s \ {Max(s)}), cs[Max(s)])]
  OBVIOUS
<1>8. ASSUME NEW s \in SUBSET T, s # {} PROVE g[s \ {Max(s)}] = Fold(base, cs, s \ {Max(s)})
  <2>1. PICK u : u = s \ {Max(s)}
    OBVIOUS
  <2>2. Max(s) \in s
    BY <1>6, <1>8, MaxIn
  <2>3. u \in SUBSET T /\ u # T
    BY <2>1, <2>2
  <2>4. PICK h : FoldGraph(base, cs, u, h)
    BY <2>3, <1>6
  <2>5. Numbered(u)
    BY <2>3, <1>6
  <2>6. \A V \in SUBSET u : (\E k : FoldGraph(base, cs, V, k)) => Fold(base, cs, V) = h[V]
    BY <2>4, <2>5, FoldOfGraph
  <2>7. h[u] = IF u = {} THEN base ELSE CA!RunChunk(h[u \ {Max(u)}], cs[Max(u)])
    BY <2>4 DEF FoldGraph
  <2>8. u # {} => Fold(base, cs, u \ {Max(u)}) = h[u \ {Max(u)}]
    <3>1. SUFFICES ASSUME u # {} PROVE Fold(base, cs, u \ {Max(u)}) = h[u \ {Max(u)}]
      OBVIOUS
    <3>2. Max(u) \in u
      BY <3>1, <2>5, MaxIn
    <3>3. u \ {Max(u)} \in SUBSET u /\ u \ {Max(u)} \in SUBSET T /\ u \ {Max(u)} # T
      BY <3>2, <2>3
    <3>4. \E k : FoldGraph(base, cs, u \ {Max(u)}, k)
      BY <3>3, <1>6
    <3> QED
      BY <2>6, <3>3, <3>4
  <2>9. g[u] = IF u = {} THEN base ELSE CA!RunChunk(Fold(base, cs, u \ {Max(u)}), cs[Max(u)])
    BY <1>7, <2>3
  <2>10. g[u] = Fold(base, cs, u)
    <3>1. Fold(base, cs, u) = h[u]
      BY <2>4, <2>6
    <3> QED
      BY <3>1, <2>7, <2>8, <2>9
  <2> QED
    BY <2>1, <2>10
<1>9. FoldGraph(base, cs, T, g)
  BY <1>7, <1>8 DEF FoldGraph
<1> QED
  BY <1>5, <1>9

\* Chunk by chunk, from the first.
Runs(f, base, cs, n) ==
  /\ f[0] = base
  /\ \A k \in 1 .. n : f[k] = CA!RunChunk(f[k - 1], cs[k])
  /\ Fold(base, cs, 1 .. n) = f[n]

LEMMA FoldRecursive == ASSUME NEW base, NEW cs, NEW n \in Nat PROVE \E f : Runs(f, base, cs, n)
<1>1. Numbered(1 .. n)
  BY FS_Interval DEF Numbered
<1>2. PICK g : FoldGraph(base, cs, 1 .. n, g)
  BY <1>1, FoldExists
<1>3. Fold(base, cs, 1 .. n) = g[1 .. n]
  BY <1>1, <1>2, FoldOfGraph
<1>4. \A s \in SUBSET (1 .. n) : g[s] = IF s = {} THEN base ELSE CA!RunChunk(g[s \ {Max(s)}], cs[Max(s)])
  BY <1>2 DEF FoldGraph
<1>5. PICK f : f = [k \in 0 .. n |-> g[1 .. k]]
  OBVIOUS
<1>6. f[0] = base
  <2>1. 1 .. 0 = {} /\ {} \in SUBSET (1 .. n) /\ 0 \in 0 .. n
    OBVIOUS
  <2> QED
    BY <2>1, <1>4, <1>5
<1>7. ASSUME NEW k \in 1 .. n PROVE f[k] = CA!RunChunk(f[k - 1], cs[k])
  <2>1. PICK s : s = 1 .. k
    OBVIOUS
  <2>2. s \in SUBSET (1 .. n) /\ s # {} /\ k \in s /\ \A j \in s : k >= j
    BY <2>1
  <2>3. s \subseteq Nat /\ IsFiniteSet(s)
    BY <2>1, FS_Interval
  <2>4. Max(s) \in s /\ \A j \in s : Max(s) >= j
    <3>1. s \subseteq Int
      BY <2>3
    <3> QED
      BY <3>1, <2>2, <2>3, MaxFinite
  <2>5. Max(s) = k
    <3>1. PICK m \in s : m = Max(s)
      BY <2>4
    <3>2. m >= k /\ k >= m /\ m \in Nat
      BY <3>1, <2>2, <2>3, <2>4
    <3> QED
      BY <3>1, <3>2
  <2>6. s \ {k} = 1 .. k - 1 /\ k - 1 \in 0 .. n /\ k \in 0 .. n
    BY <2>1
  <2>7. g[s] = CA!RunChunk(g[s \ {k}], cs[k])
    BY <2>2, <2>5, <1>4
  <2> QED
    BY <2>1, <2>6, <2>7, <1>5
<1>8. f[n] = g[1 .. n]
  BY <1>5
<1> QED
  BY <1>3, <1>6, <1>7, <1>8 DEF Runs

\* RunAll is that fold.
LEMMA RunAllFolds ==
  ASSUME NEW seen, NEW xs, NEW size
  PROVE  CA!RunAll(seen, xs, size) =
           Fold([seen |-> seen, out |-> <<>>], CA!Chunks(xs, size), DOMAIN CA!Chunks(xs, size))
BY DEF CA!RunAll, CA!FoldLeft, CA!MapThenFoldSet, CA!Max, Max, Fold, FoldGraph

-----------------------------------------------------------------------------
\* Where the chunks begin and end.

EndOf(k, size, n) == IF k * size <= n THEN k * size ELSE n

LEMMA ChunksCover ==
  ASSUME NEW n \in Nat, NEW size \in Nat \ {0}, NEW K, K = (n + size - 1) \div size
  PROVE  K \in Nat /\ n <= K * size /\ K * size <= n + size - 1
<1>1. PICK x \in Nat : x = n + size - 1
  OBVIOUS
<1>2. K = x \div size
  BY <1>1
<1>3. K \in Nat /\ K * size <= x /\ x < K * size + size
  BY <1>2
<1>4. PICK y \in Nat : y = K * size
  BY <1>3
<1> QED
  BY <1>1, <1>3, <1>4

LEMMA ProductTyped == ASSUME NEW a \in Nat, NEW b \in Nat PROVE a * b \in Nat
OBVIOUS

LEMMA EndsRight ==
  ASSUME NEW n \in Nat, NEW size \in Nat \ {0}, NEW K, K = (n + size - 1) \div size
  PROVE  /\ EndOf(0, size, n) = 0 /\ EndOf(K, size, n) = n
         /\ \A k \in 1 .. K : /\ EndOf(k - 1, size, n) = (k - 1) * size
                             /\ EndOf(k - 1, size, n) \in 0 .. n /\ EndOf(k, size, n) \in EndOf(k - 1, size, n) .. n
                             /\ k * size \in Int
<1>1. K \in Nat /\ n <= K * size /\ K * size <= n + size - 1
  BY ChunksCover
<1>2. EndOf(0, size, n) = 0
  BY DEF EndOf
<1>3. EndOf(K, size, n) = n
  <2>1. PICK y \in Nat : y = K * size
    BY <1>1
  <2> QED
    BY <2>1, <1>1 DEF EndOf
<1>4. ASSUME NEW k \in 1 .. K
      PROVE  /\ EndOf(k - 1, size, n) = (k - 1) * size
             /\ EndOf(k - 1, size, n) \in 0 .. n /\ EndOf(k, size, n) \in EndOf(k - 1, size, n) .. n
             /\ k * size \in Int
  <2>1. k \in Nat /\ k - 1 \in Nat /\ k <= K
    BY <1>1
  <2>2. k * size <= K * size
    BY <2>1, <1>1
  <2>3. PICK x, y, z \in Nat : x = (k - 1) * size /\ y = k * size /\ z = K * size
    <3>1. (k - 1) * size \in Nat /\ k * size \in Nat /\ K * size \in Nat
      BY <2>1, <1>1, ProductTyped
    <3> QED
      BY <3>1
  <2>4. y = x + size
    BY <2>1, <2>3
  <2>5. x <= n
    BY <1>1, <2>2, <2>3, <2>4
  <2>6. EndOf(k - 1, size, n) = x /\ EndOf(k, size, n) = IF y <= n THEN y ELSE n
    BY <2>3, <2>5 DEF EndOf
  <2> QED
    BY <2>3, <2>4, <2>5, <2>6
<1> QED
  BY <1>2, <1>3, <1>4

LEMMA SmallerOf == ASSUME NEW a \in Int, NEW b \in Int PROVE CA!Min({a, b}) = IF a <= b THEN a ELSE b
BY DEF CA!Min

\* The chunks of tokens that come one after another are such tokens.
LEMMA ChunksAre ==
  ASSUME NEW T, NEW h \in Seq(T), NEW a \in Nat, NEW n \in Nat, a + n <= Len(h), NEW size \in Nat \ {0},
         NEW K, K = (n + size - 1) \div size
  PROVE  /\ DOMAIN CA!Chunks(Hidden(h, a, n), size) = 1 .. K
         /\ \A k \in 1 .. K :
              CA!Chunks(Hidden(h, a, n), size)[k] =
                Hidden(h, a + EndOf(k - 1, size, n), EndOf(k, size, n) - EndOf(k - 1, size, n))
<1>1. PICK xs : xs = Hidden(h, a, n)
  OBVIOUS
<1>2. Len(xs) = n
  BY <1>1, HiddenIs
<1>3. CA!Chunks(xs, size) = [k \in 1 .. K |-> SubSeq(xs, (k - 1) * size + 1, CA!Min({k * size, n}))]
  BY <1>2 DEF CA!Chunks
<1>4. ASSUME NEW k \in 1 .. K
      PROVE  SubSeq(xs, (k - 1) * size + 1, CA!Min({k * size, n})) =
               Hidden(h, a + EndOf(k - 1, size, n), EndOf(k, size, n) - EndOf(k - 1, size, n))
  <2>1. PICK c, d : c = EndOf(k - 1, size, n) /\ d = EndOf(k, size, n)
    OBVIOUS
  <2>2. c = (k - 1) * size /\ c \in 0 .. n /\ d \in c .. n /\ k * size \in Int
    BY <2>1, EndsRight
  <2>3. CA!Min({k * size, n}) = d
    BY <2>1, <2>2, SmallerOf DEF EndOf
  <2>4. SubSeq(Hidden(h, a, n), c + 1, d) = Hidden(h, a + c, d - c)
    BY <2>2, HiddenPart, ZenonT(40)
  <2> QED
    BY <2>1, <2>2, <2>3, <2>4, <1>1
<1> QED
  BY <1>1, <1>3, <1>4

\* Whatever size the chunks have, tokens that are run after those before them see what they should.
LEMMA RunAllRight ==
  ASSUME NEW T, NEW h \in Seq(T), NEW a \in Nat, NEW n \in Nat, a + n <= Len(h), NEW size \in Nat \ {0}
  PROVE  CA!RunAll(Hidden(h, 0, a), Hidden(h, a, n), size) = Reached(h, a, a + n)
<1>1. PICK K, cs, base : /\ K = (n + size - 1) \div size /\ cs = CA!Chunks(Hidden(h, a, n), size)
                        /\ base = [seen |-> Hidden(h, 0, a), out |-> <<>>]
  OBVIOUS
<1>2. K \in Nat
  BY <1>1, ChunksCover
<1>3. DOMAIN cs = 1 .. K
  BY <1>1, ChunksAre
<1>4. PICK f : f[0] = base /\ (\A k \in 1 .. K : f[k] = CA!RunChunk(f[k - 1], cs[k])) /\ Fold(base, cs, 1 .. K) = f[K]
  <2>1. PICK f : Runs(f, base, cs, K)
    BY <1>2, FoldRecursive
  <2> QED
    BY <2>1 DEF Runs
<1>5. PICK e : e = [k \in 0 .. K |-> EndOf(k, size, n)]
  OBVIOUS
<1>6. /\ e[0] = 0 /\ e[K] = n
      /\ \A k \in 1 .. K : e[k - 1] \in 0 .. n /\ e[k] \in e[k - 1] .. n
      /\ \A k \in 1 .. K : cs[k] = Hidden(h, a + e[k - 1], e[k] - e[k - 1])
  <2>1. 0 \in 0 .. K /\ K \in 0 .. K /\ \A k \in 1 .. K : k \in 0 .. K /\ k - 1 \in 0 .. K
    BY <1>2
  <2>2. e[0] = 0 /\ e[K] = n /\ \A k \in 1 .. K : e[k - 1] \in 0 .. n /\ e[k] \in e[k - 1] .. n
    BY <1>1, <1>5, <2>1, EndsRight
  <2>3. ASSUME NEW k \in 1 .. K PROVE cs[k] = Hidden(h, a + e[k - 1], e[k] - e[k - 1])
    <3>1. e[k] = EndOf(k, size, n) /\ e[k - 1] = EndOf(k - 1, size, n)
      BY <1>5, <2>1
    <3>2. K = (n + size - 1) \div size
      BY <1>1
    <3>3. \A i \in 1 .. K : CA!Chunks(Hidden(h, a, n), size)[i] =
                             Hidden(h, a + EndOf(i - 1, size, n), EndOf(i, size, n) - EndOf(i - 1, size, n))
      BY <3>2, ChunksAre
    <3>4. CA!Chunks(Hidden(h, a, n), size)[k] =
            Hidden(h, a + EndOf(k - 1, size, n), EndOf(k, size, n) - EndOf(k - 1, size, n))
      BY <3>3
    <3> QED
      BY <3>1, <3>4, <1>1
  <2> QED
    BY <2>2, <2>3
<1>7. PICK bad : bad = {k \in 0 .. K : f[k] # Reached(h, a, a + e[k])}
  OBVIOUS
<1>8. bad = {}
  <2>1. SUFFICES ASSUME bad # {} PROVE FALSE
    OBVIOUS
  <2>2. bad \subseteq Nat
    BY <1>7
  <2>3. PICK k \in bad : \A j \in bad : ~(j < k)
    BY <2>1, <2>2, LeastNumber
  <2>4. k \in 0 .. K /\ f[k] # Reached(h, a, a + e[k])
    BY <1>7, <2>3
  <2>5. CASE k = 0
    <3>1. a + 0 = a /\ a - a = 0 /\ Hidden(h, a, 0) = <<>>
      BY DEF Hidden
    <3>2. Reached(h, a, a + e[0]) = base
      BY <3>1, <1>1, <1>6 DEF Reached
    <3> QED
      BY <3>2, <2>4, <2>5, <1>4
  <2>6. CASE k # 0
    <3>1. k \in 1 .. K /\ k - 1 \in 0 .. K /\ k - 1 < k
      BY <2>4, <2>6, <1>2
    <3>2. f[k - 1] = Reached(h, a, a + e[k - 1])
      BY <3>1, <2>3, <1>7
    <3>3. PICK c, d : c = a + e[k - 1] /\ d = a + e[k]
      OBVIOUS
    <3>4. c \in a .. Len(h) /\ d \in c .. Len(h) /\ e[k] - e[k - 1] = d - c
      <4>1. PICK x, y \in 0 .. n : x = e[k - 1] /\ y = e[k] /\ x <= y
        BY <3>1, <1>6
      <4>2. c = a + x /\ d = a + y /\ Len(h) \in Nat
        BY <4>1, <3>3
      <4>3. e[k] - e[k - 1] = y - x
        BY <4>1
      <4>4. PICK m \in Nat : m = Len(h)
        BY <4>2
      <4>5. x \in Nat /\ y \in Nat /\ x <= y /\ y <= n /\ a + n <= m
        BY <4>1, <4>4
      <4>6. a + x \in a .. m /\ a + y \in a + x .. m /\ y - x = (a + y) - (a + x)
        BY <4>5
      <4> QED
        BY <4>2, <4>3, <4>4, <4>6
    <3>5. cs[k] = Hidden(h, c, d - c)
      BY <3>1, <3>3, <3>4, <1>6
    <3>6. CA!RunChunk(Reached(h, a, c), Hidden(h, c, d - c)) = Reached(h, a, d)
      BY <3>4, ChunkRight
    <3>7. f[k] = CA!RunChunk(f[k - 1], cs[k])
      BY <3>1, <1>4
    <3> QED
      BY <3>2, <3>3, <3>5, <3>6, <3>7, <2>4
  <2> QED
    BY <2>5, <2>6
<1>9. f[K] = Reached(h, a, a + n)
  <2>1. K \in 0 .. K
    BY <1>2
  <2>2. f[K] = Reached(h, a, a + e[K])
    BY <2>1, <1>7, <1>8
  <2> QED
    BY <2>2, <1>6
<1>10. CA!RunAll(Hidden(h, 0, a), Hidden(h, a, n), size) = Fold(base, cs, DOMAIN cs)
  BY <1>1, RunAllFolds
<1> QED
  BY <1>3, <1>4, <1>9, <1>10

-----------------------------------------------------------------------------
\* One block, one beam: what its cache holds of a history of k tokens.

CellRight(kind, h, k, cell) ==
  /\ \A p \in 1 .. k : cell.slots[p] = SubSeq(h, 1, p)
  /\ cell.position \in 0 .. MaxLength
  /\ kind = "linear" =>
       /\ k <= cell.position
       /\ cell.position = k /\ k > 0 => cell.state = Hidden(h, 0, k)

\* Two histories that begin alike.
Alike(g, h, n) == \A i \in 1 .. n : SubSeq(g, 1, i) = SubSeq(h, 1, i)

LEMMA AlikeHidden == ASSUME NEW n \in Nat, NEW g, NEW h, Alike(g, h, n) PROVE Hidden(g, 0, n) = Hidden(h, 0, n)
<1>1. \A i \in 1 .. n : SubSeq(g, 1, 0 + i) = SubSeq(h, 1, 0 + i)
  BY DEF Alike
<1> QED
  BY <1>1 DEF Hidden

LEMMA HiddenNone == ASSUME NEW h, NEW a PROVE Hidden(h, a, 0) = <<>>
BY DEF Hidden

\* A session that goes back leaves the cache as it is.
LEMMA CellRewound ==
  ASSUME NEW kind, NEW h, NEW k \in Nat, NEW cell, CellRight(kind, h, k, cell), NEW from \in 0 .. k,
         NEW g, Alike(g, h, from)
  PROVE  CellRight(kind, g, from, cell)
<1>1. ASSUME NEW p \in 1 .. from PROVE cell.slots[p] = SubSeq(g, 1, p)
  <2>1. p \in 1 .. k
    OBVIOUS
  <2>2. cell.slots[p] = SubSeq(h, 1, p)
    BY <2>1 DEF CellRight
  <2>3. SubSeq(g, 1, p) = SubSeq(h, 1, p)
    BY DEF Alike
  <2> QED
    BY <2>2, <2>3
<1>2. cell.position \in 0 .. MaxLength
  BY DEF CellRight
<1>3. ASSUME kind = "linear" PROVE from <= cell.position /\ (cell.position = from /\ from > 0 => cell.state = Hidden(g, 0, from))
  <2>1. k <= cell.position /\ (cell.position = k /\ k > 0 => cell.state = Hidden(h, 0, k))
    BY <1>3 DEF CellRight
  <2>2. PICK x \in 0 .. MaxLength : x = cell.position
    BY <1>2
  <2>3. from <= x /\ (x = from => k = from)
    BY <2>1, <2>2
  <2>4. Hidden(g, 0, from) = Hidden(h, 0, from)
    BY AlikeHidden
  <2> QED
    BY <2>1, <2>2, <2>3, <2>4
<1> QED
  BY <1>1, <1>2, <1>3 DEF CellRight

LEMMA PastRight ==
  ASSUME NEW T, NEW g \in Seq(T), NEW from \in 0 .. Len(g), NEW cell, \A p \in 1 .. from : cell.slots[p] = SubSeq(g, 1, p)
  PROVE  CA!Past(cell, from) = Hidden(g, 0, from)
<1>1. from \in Nat /\ 0 + from <= Len(g) /\ 0 \in Nat
  OBVIOUS
<1>2. /\ Hidden(g, 0, from) \in Seq(Seq(T)) /\ Len(Hidden(g, 0, from)) = from
      /\ \A i \in 1 .. from : Hidden(g, 0, from)[i] = SubSeq(g, 1, 0 + i) /\ SubSeq(g, 1, 0 + i) \in Seq(T)
  BY <1>1, HiddenIs
<1>3. \A i \in 1 .. from : 0 + i = i
  OBVIOUS
<1>4. \A i \in 1 .. from : cell.slots[i] \in Seq(T)
  BY <1>2, <1>3
<1>5. PICK t : t = SubSeq(cell.slots, 1, from)
  OBVIOUS
<1>6. t \in Seq(Seq(T)) /\ Len(t) = from /\ \A i \in 1 .. from : t[i] = cell.slots[i]
  <2>1. PICK sl : sl = cell.slots
    OBVIOUS
  <2>2. 1 \in Int /\ from \in Int /\ \A i \in 1 .. from : sl[i] \in Seq(T)
    BY <2>1, <1>4
  <2>3. /\ SubSeq(sl, 1, from) \in Seq(Seq(T)) /\ Len(SubSeq(sl, 1, from)) = IF 1 <= from THEN from - 1 + 1 ELSE 0
        /\ \A i \in 1 .. from - 1 + 1 : SubSeq(sl, 1, from)[i] = sl[1 + i - 1]
    BY <2>2, SubSeqProperties
  <2>4. from - 1 + 1 = from /\ \A i \in 1 .. from : 1 + i - 1 = i
    OBVIOUS
  <2> QED
    BY <2>1, <2>3, <2>4, <1>5
<1>7. \A i \in 1 .. from : t[i] = Hidden(g, 0, from)[i]
  BY <1>2, <1>3, <1>6
<1>8. t = Hidden(g, 0, from)
  BY <1>2, <1>6, <1>7, SeqEqual
<1> QED
  BY <1>5, <1>8 DEF CA!Past

LEMMA ReplayedRight ==
  ASSUME NEW T, NEW g \in Seq(T), NEW from \in 0 .. Len(g), NEW cell, CellRight("linear", g, from, cell),
         NEW size \in Nat \ {0}
  PROVE  CA!Replayed(cell, from, size) = Hidden(g, 0, from)
<1>1. CASE from = 0
  BY <1>1, HiddenNone DEF CA!Replayed
<1>2. CASE from > 0
  <2>1. PICK x \in 0 .. MaxLength : x = cell.position
    BY DEF CellRight
  <2>2. from <= x
    BY <2>1 DEF CellRight
  <2>3. CASE x = from
    BY <1>2, <2>1, <2>3 DEF CellRight, CA!Replayed
  <2>4. CASE x > from
    <3>1. CA!Past(cell, from) = Hidden(g, 0, from)
      BY PastRight DEF CellRight
    <3>2. 0 \in Nat /\ from \in Nat /\ 0 + from <= Len(g) /\ 0 + from = from
      OBVIOUS
    <3>3. CA!RunAll(Hidden(g, 0, 0), Hidden(g, 0, from), size) = Reached(g, 0, 0 + from)
      BY <3>2, RunAllRight
    <3>4. CA!RunAll(<<>>, CA!Past(cell, from), size).seen = Hidden(g, 0, from)
      BY <3>1, <3>2, <3>3, HiddenNone DEF Reached
    <3>5. CA!Replayed(cell, from, size) = CA!RunAll(<<>>, CA!Past(cell, from), size).seen
      BY <1>2, <2>1, <2>4 DEF CA!Replayed
    <3> QED
      BY <3>4, <3>5
  <2> QED
    BY <2>1, <2>2, <2>3, <2>4
<1> QED
  BY <1>1, <1>2

\* The positions from the prefix on are written, the others stay.
LEMMA FillRight ==
  ASSUME NEW T, NEW g \in Seq(T), NEW from \in Nat, NEW n \in Nat, from + n <= Len(g), from + n <= MaxLength,
         MaxLength \in Nat, NEW old, \A p \in 1 .. from : old[p] = SubSeq(g, 1, p)
  PROVE  \A p \in 1 .. from + n : CA!Fill(old, from, Hidden(g, from, n))[p] = SubSeq(g, 1, p)
<1>1. PICK xs : xs = Hidden(g, from, n)
  OBVIOUS
<1>2. Len(xs) = n /\ \A i \in 1 .. n : xs[i] = SubSeq(g, 1, from + i)
  BY <1>1, HiddenIs
<1>3. CA!Fill(old, from, xs) = [p \in 1 .. MaxLength |-> IF from < p /\ p <= from + n THEN xs[p - from] ELSE old[p]]
  BY <1>2 DEF CA!Fill
<1>4. ASSUME NEW p \in 1 .. from + n PROVE CA!Fill(old, from, xs)[p] = SubSeq(g, 1, p)
  <2>1. p \in 1 .. MaxLength
    OBVIOUS
  <2>2. CASE from < p
    <3>1. p - from \in 1 .. n /\ from + (p - from) = p /\ p <= from + n
      BY <2>2
    <3>2. xs[p - from] = SubSeq(g, 1, from + (p - from))
      BY <3>1, <1>2
    <3> QED
      BY <2>1, <2>2, <3>1, <3>2, <1>3
  <2>3. CASE ~(from < p)
    <3>1. p \in 1 .. from
      BY <2>3
    <3> QED
      BY <2>1, <2>3, <3>1, <1>3
  <2> QED
    BY <2>2, <2>3
<1> QED
  BY <1>1, <1>4

\* A block: its outputs are the inputs of the next, and its cache holds what it should.
LEMMA LayerRight ==
  ASSUME NEW T, NEW g \in Seq(T), NEW from \in Nat, NEW n \in Nat, from + n = Len(g), from + n <= MaxLength,
         MaxLength \in Nat, NEW size \in Nat \ {0},
         NEW kind \in {"attention", "linear"}, NEW cell, CellRight(kind, g, from, cell)
  PROVE  /\ CA!RunLayer(kind, cell, from, Hidden(g, from, n), size).out = Hidden(g, from, n)
         /\ CellRight(kind, g, from + n, CA!RunLayer(kind, cell, from, Hidden(g, from, n), size))
<1>1. PICK xs, r : xs = Hidden(g, from, n) /\ r = CA!RunLayer(kind, cell, from, xs, size)
  OBVIOUS
<1>2. Len(xs) = n
  BY <1>1, HiddenIs
<1>3. from \in 0 .. Len(g) /\ from + n <= Len(g) /\ from + n - from = n
  OBVIOUS
<1>4. CA!RunAll(Hidden(g, 0, from), xs, size) = Reached(g, from, from + n)
  BY <1>1, <1>3, RunAllRight
<1>5. /\ CA!RunAll(Hidden(g, 0, from), xs, size).seen = Hidden(g, 0, from + n)
      /\ CA!RunAll(Hidden(g, 0, from), xs, size).out = xs
  BY <1>1, <1>3, <1>4 DEF Reached
<1>6. \A p \in 1 .. from : cell.slots[p] = SubSeq(g, 1, p)
  BY DEF CellRight
<1>7. \A p \in 1 .. from + n : CA!Fill(cell.slots, from, xs)[p] = SubSeq(g, 1, p)
  <2>1. PICK old : old = cell.slots
    OBVIOUS
  <2>2. \A p \in 1 .. from : old[p] = SubSeq(g, 1, p)
    BY <2>1, <1>6
  <2>3. \A p \in 1 .. from + n : CA!Fill(old, from, Hidden(g, from, n))[p] = SubSeq(g, 1, p)
    BY <2>2, <1>3, FillRight
  <2> QED
    BY <2>1, <2>3, <1>1
<1>8. CASE kind = "linear"
  <2>1. CA!Replayed(cell, from, size) = Hidden(g, 0, from)
    BY <1>3, <1>8, ReplayedRight
  <2>2. r = [out |-> xs, slots |-> CA!Fill(cell.slots, from, xs), state |-> Hidden(g, 0, from + n), position |-> from + n]
    BY <1>1, <1>2, <1>5, <1>8, <2>1 DEF CA!RunLayer
  <2>3. r.out = xs /\ r.slots = CA!Fill(cell.slots, from, xs) /\ r.state = Hidden(g, 0, from + n) /\ r.position = from + n
    BY <2>2
  <2>4. CellRight(kind, g, from + n, r)
    BY <2>3, <1>7 DEF CellRight
  <2> QED
    BY <2>3, <2>4, <1>1
<1>9. CASE kind = "attention"
  <2>1. CA!Past(cell, from) = Hidden(g, 0, from)
    BY <1>3, <1>6, PastRight
  <2>2. SubSeq(Hidden(g, 0, from + n), from + 1, from + n) = xs
    <3>1. PICK k, z \in Nat : k = from + n /\ z = 0
      OBVIOUS
    <3>2. z + k <= Len(g) /\ from \in 0 .. k /\ k \in from .. k /\ z + from = from /\ k - from = n
      BY <3>1
    <3>3. z + k <= Len(g)
      BY <3>2
    <3>4. \A c \in 0 .. k : \A d \in c .. k : SubSeq(Hidden(g, z, k), c + 1, d) = Hidden(g, z + c, d - c)
      BY <3>3, HiddenPart
    <3>5. SubSeq(Hidden(g, z, k), from + 1, k) = Hidden(g, z + from, k - from)
      BY <3>2, <3>4
    <3> QED
      BY <3>1, <3>2, <3>5, <1>1
  <2>3. Len(Hidden(g, 0, from + n)) = from + n
    <3>1. PICK k \in Nat : k = from + n
      OBVIOUS
    <3>2. 0 + k <= Len(g) /\ 0 \in Nat
      BY <3>1
    <3>3. Len(Hidden(g, 0, k)) = k
      BY <3>2, HiddenIs
    <3> QED
      BY <3>1, <3>3
  <2>4. r = [out |-> xs, slots |-> CA!Fill(cell.slots, from, xs), state |-> cell.state, position |-> cell.position]
    BY <1>1, <1>5, <1>9, <2>1, <2>2, <2>3 DEF CA!RunLayer
  <2>5. r.out = xs /\ r.slots = CA!Fill(cell.slots, from, xs) /\ r.position = cell.position
    BY <2>4
  <2>6. CellRight(kind, g, from + n, r)
    BY <2>5, <1>7, <1>9 DEF CellRight
  <2> QED
    BY <2>5, <2>6, <1>1
<1> QED
  BY <1>8, <1>9

\* The chain of blocks.
ChainGraph(b, hypo, from, xs, size, r) ==
  r = [l \in CA!LayerIds |->
         CA!RunLayer(Layers[l], CA!Cell(l, b, hypo), from, IF l = 1 THEN xs ELSE r[l - 1].out, size)]

Passes(b, hypo, from, xs, size) ==
  \A l \in CA!LayerIds : CA!RunLayer(Layers[l], CA!Cell(l, b, hypo), from, xs, size).out = xs

LEMMA ChainIs ==
  ASSUME NEW b, NEW hypo, NEW from, NEW xs, NEW size, Len(Layers) \in Nat, Passes(b, hypo, from, xs, size)
  PROVE  \A l \in CA!LayerIds :
           CA!RunChain(b, hypo, from, xs, size)[l] = CA!RunLayer(Layers[l], CA!Cell(l, b, hypo), from, xs, size)
<1>1. PICK g : g = [l \in CA!LayerIds |-> CA!RunLayer(Layers[l], CA!Cell(l, b, hypo), from, xs, size)]
  OBVIOUS
<1>2. \A l \in CA!LayerIds : l \in Nat /\ l >= 1 /\ (l # 1 => l - 1 \in CA!LayerIds)
  BY DEF CA!LayerIds
<1>3. ChainGraph(b, hypo, from, xs, size, g)
  <2>1. \A l \in CA!LayerIds : (IF l = 1 THEN xs ELSE g[l - 1].out) = xs
    BY <1>1, <1>2 DEF Passes
  <2> QED
    BY <1>1, <2>1 DEF ChainGraph
<1>4. CA!RunChain(b, hypo, from, xs, size) = CHOOSE r : ChainGraph(b, hypo, from, xs, size, r)
  BY DEF CA!RunChain, ChainGraph
<1>5. PICK r : r = CA!RunChain(b, hypo, from, xs, size)
  OBVIOUS
<1>6. ChainGraph(b, hypo, from, xs, size, r)
  BY <1>3, <1>4, <1>5
<1>7. PICK bad : bad = {l \in CA!LayerIds : r[l] # g[l]}
  OBVIOUS
<1>8. bad = {}
  <2>1. SUFFICES ASSUME bad # {} PROVE FALSE
    OBVIOUS
  <2>2. bad \subseteq Nat
    BY <1>2, <1>7
  <2>3. PICK l \in bad : \A j \in bad : ~(j < l)
    BY <2>1, <2>2, LeastNumber
  <2>4. l \in CA!LayerIds /\ r[l] # g[l] /\ l \in Nat
    BY <2>2, <2>3, <1>7
  <2>5. r[l] = CA!RunLayer(Layers[l], CA!Cell(l, b, hypo), from, IF l = 1 THEN xs ELSE r[l - 1].out, size)
    BY <2>4, <1>6 DEF ChainGraph
  <2>6. l # 1 => r[l - 1].out = xs
    <3>1. SUFFICES ASSUME l # 1 PROVE r[l - 1].out = xs
      OBVIOUS
    <3>2. l - 1 \in CA!LayerIds /\ l - 1 \notin bad
      BY <3>1, <2>3, <2>4, <1>2
    <3> QED
      BY <3>2, <1>1, <1>7 DEF Passes
  <2>7. (IF l = 1 THEN xs ELSE r[l - 1].out) = xs
    BY <2>6
  <2> QED
    BY <2>4, <2>5, <2>7, <1>1
<1> QED
  BY <1>1, <1>5, <1>7, <1>8

-----------------------------------------------------------------------------
\* The invariant: what every cache holds of the history of its beam.

CacheAssumption ==
  /\ Beams # {}
  /\ Orders \subseteq [Beams -> Beams]
  /\ MaxLength \in Nat /\ ChunkBudget \in Nat /\ CacheSteps \in Nat
  /\ Layers \in Seq({"attention", "linear"}) /\ Layers # <<>>

Tokens == (0 .. CacheSteps) \X Beams

CellOf(l, b) == [slots |-> slots[l][b], state |-> state[l][b], position |-> position[l]]

CellsRight == \A l \in CA!LayerIds, b \in Beams : CellRight(Layers[l], history[b], prefix, CellOf(l, b))

CacheRight ==
  /\ prefix \in 0 .. MaxLength /\ steps \in 0 .. CacheSteps
  /\ \A b \in Beams : history[b] \in Seq(Tokens) /\ Len(history[b]) = prefix
  /\ CellsRight
  /\ \A b \in Beams : answer[b] = Hidden(history[b], prefix - Len(answer[b]), Len(answer[b]))
                    /\ Len(answer[b]) \in 0 .. prefix

LEMMA LayersAre ==
  ASSUME CacheAssumption
  PROVE  /\ Len(Layers) \in Nat \ {0} /\ Len(Layers) \in CA!LayerIds /\ CA!AnyBeam \in Beams
         /\ \A l \in CA!LayerIds : Layers[l] \in {"attention", "linear"}
<1>1. Len(Layers) \in Nat \ {0} /\ \A l \in 1 .. Len(Layers) : Layers[l] \in {"attention", "linear"}
  BY DEF CacheAssumption
<1>2. CA!AnyBeam \in Beams
  BY DEF CacheAssumption, CA!AnyBeam
<1> QED
  BY <1>1, <1>2 DEF CA!LayerIds

LEMMA CacheInit == ASSUME CacheAssumption, CA!InitCache PROVE CacheRight
<1>1. /\ history = [b \in Beams |-> <<>>] /\ prefix = 0 /\ answer = [b \in Beams |-> <<>>] /\ steps = 0
      /\ position \in [CA!LayerIds -> {0, MaxLength}]
  BY DEF CA!InitCache
<1>2. MaxLength \in Nat /\ CacheSteps \in Nat
  BY DEF CacheAssumption
<1>3. \A b \in Beams : history[b] \in Seq(Tokens) /\ Len(history[b]) = 0
  BY <1>1
<1>4. \A l \in CA!LayerIds : position[l] \in 0 .. MaxLength
  BY <1>1, <1>2
<1>5. CellsRight
  <2>1. SUFFICES ASSUME NEW l \in CA!LayerIds, NEW b \in Beams
                 PROVE  CellRight(Layers[l], history[b], prefix, CellOf(l, b))
    BY DEF CellsRight
  <2>2. CellOf(l, b).position \in 0 .. MaxLength
    BY <1>4 DEF CellOf
  <2> QED
    BY <2>2, <1>1, <1>2 DEF CellRight
<1>6. \A b \in Beams : answer[b] = Hidden(history[b], prefix - Len(answer[b]), Len(answer[b]))
                     /\ Len(answer[b]) \in 0 .. prefix
  <2>1. \A b \in Beams : answer[b] = <<>> /\ Len(answer[b]) = 0
    BY <1>1
  <2> QED
    BY <2>1, <1>1, HiddenNone
<1> QED
  BY <1>1, <1>2, <1>3, <1>5, <1>6 DEF CacheRight

\* A history that goes on from a part of another.
Grown(g, h, from, n, t) == g = SubSeq(h, 1, from) \o [i \in 1 .. n |-> t]

LEMMA GoesOn ==
  ASSUME NEW T, NEW h \in Seq(T), NEW from \in 0 .. Len(h), NEW n \in Nat, NEW t \in T,
         NEW g, Grown(g, h, from, n, t)
  PROVE  g \in Seq(T) /\ Len(g) = from + n /\ Alike(g, h, from)
<1>1. PICK x, y : x = SubSeq(h, 1, from) /\ y = [i \in 1 .. n |-> t]
  OBVIOUS
<1>2. x \in Seq(T) /\ Len(x) = from /\ \A i \in 1 .. from : x[i] = h[i]
  BY <1>1, PrefixIs
<1>3. y \in Seq(T) /\ Len(y) = n
  BY <1>1
<1>4. g \in Seq(T) /\ Len(g) = from + n /\ \A i \in 1 .. from + n : g[i] = IF i <= from THEN x[i] ELSE y[i - from]
  BY <1>1, <1>2, <1>3, ConcatProperties DEF Grown
<1>5. ASSUME NEW j \in 1 .. from PROVE SubSeq(g, 1, j) = SubSeq(h, 1, j)
  <2>1. j \in 0 .. Len(g) /\ j \in 0 .. Len(h)
    BY <1>4
  <2>2. /\ SubSeq(g, 1, j) \in Seq(T) /\ Len(SubSeq(g, 1, j)) = j
        /\ \A i \in 1 .. j : SubSeq(g, 1, j)[i] = g[i]
    BY <2>1, <1>4, PrefixIs
  <2>3. /\ SubSeq(h, 1, j) \in Seq(T) /\ Len(SubSeq(h, 1, j)) = j
        /\ \A i \in 1 .. j : SubSeq(h, 1, j)[i] = h[i]
    BY <2>1, PrefixIs
  <2>4. \A i \in 1 .. j : i \in 1 .. from /\ i \in 1 .. from + n /\ i <= from
    OBVIOUS
  <2>5. \A i \in 1 .. j : g[i] = h[i]
    BY <2>4, <1>2, <1>4
  <2>6. \A i \in 1 .. j : SubSeq(g, 1, j)[i] = SubSeq(h, 1, j)[i]
    BY <2>2, <2>3, <2>5
  <2> QED
    BY <2>2, <2>3, <2>6, SeqEqual
<1> QED
  BY <1>4, <1>5 DEF Alike

LEMMA EmptyStepRight ==
  ASSUME CacheAssumption, CacheRight, NEW from \in 0 .. MaxLength, CA!EmptyStep(from) PROVE CacheRight'
<1>1. /\ steps < CacheSteps /\ from \in 0 .. prefix /\ steps' = steps + 1 /\ prefix' = from
      /\ history' = [b \in Beams |-> SubSeq(history[b], 1, from)]
      /\ answer' = [b \in Beams |-> <<>>]
      /\ slots' = slots /\ state' = state /\ position' = position
  BY DEF CA!EmptyStep, CA!MayRewindTo
<1>2. steps' \in 0 .. CacheSteps /\ prefix' \in 0 .. MaxLength
  BY <1>1 DEF CacheRight, CacheAssumption
<1>3. ASSUME NEW b \in Beams
      PROVE  /\ history'[b] \in Seq(Tokens) /\ Len(history'[b]) = from
             /\ Alike(history'[b], history[b], from)
  <2>1. PICK g, h : g = history'[b] /\ h = history[b]
    OBVIOUS
  <2>2. h \in Seq(Tokens) /\ Len(h) = prefix /\ from \in 0 .. Len(h) /\ g = SubSeq(h, 1, from)
    BY <2>1, <1>1 DEF CacheRight
  <2>3. g \in Seq(Tokens) /\ Len(g) = from
    BY <2>2, PrefixIs
  <2>4. ASSUME NEW j \in 1 .. from PROVE SubSeq(g, 1, j) = SubSeq(h, 1, j)
    <3>1. j \in 0 .. from
      OBVIOUS
    <3> QED
      BY <3>1, <2>2, PrefixOfPrefix
  <2> QED
    BY <2>1, <2>3, <2>4 DEF Alike
<1>4. CellsRight'
  <2>1. SUFFICES ASSUME NEW l \in CA!LayerIds, NEW b \in Beams
                 PROVE  CellRight(Layers[l], history'[b], prefix', CellOf(l, b)')
    BY DEF CellsRight
  <2>2. CellOf(l, b)' = CellOf(l, b)
    BY <1>1 DEF CellOf
  <2>3. CellRight(Layers[l], history[b], prefix, CellOf(l, b)) /\ prefix \in Nat
    BY DEF CacheRight, CellsRight
  <2>4. CellRight(Layers[l], history'[b], from, CellOf(l, b))
    BY <2>3, <1>1, <1>3, CellRewound
  <2> QED
    BY <2>2, <2>4, <1>1
<1>5. ASSUME NEW b \in Beams
      PROVE  /\ answer'[b] = Hidden(history'[b], prefix' - Len(answer'[b]), Len(answer'[b]))
             /\ Len(answer'[b]) \in 0 .. prefix'
  <2>1. answer'[b] = <<>> /\ Len(answer'[b]) = 0
    BY <1>1
  <2> QED
    BY <2>1, <1>1, HiddenNone
<1> QED
  BY <1>1, <1>2, <1>3, <1>4, <1>5 DEF CacheRight

LEMMA ChunkLengthTyped == ASSUME CacheAssumption, NEW n \in Nat \ {0} PROVE CA!ChunkLength(n) \in Nat \ {0}
<1>1. PICK q : q = ChunkBudget \div n
  OBVIOUS
<1>2. q \in Nat
  BY <1>1 DEF CacheAssumption
<1>3. CA!Max({1, q}) = IF 1 >= q THEN 1 ELSE q
  BY <1>2 DEF CA!Max
<1> QED
  BY <1>1, <1>2, <1>3 DEF CA!ChunkLength

LEMMA CellIsOfTheBeam ==
  ASSUME NEW l, NEW hypo, NEW b \in Beams PROVE CA!Cell(l, b, hypo) = CellOf(l, hypo[b])
BY DEF CA!Cell, CA!Reordered, CellOf

\* What a step makes of one beam.
GrowsTo(g, b, hypo, from, n) == Grown(g, history[hypo[b]], from, n, CA!Token(b))

LEMMA BeamRight ==
  ASSUME CacheAssumption, CacheRight, NEW from \in 0 .. prefix, NEW n \in Nat \ {0}, from + n <= MaxLength,
         NEW hypo \in Orders, NEW b \in Beams, steps < CacheSteps,
         NEW g, GrowsTo(g, b, hypo, from, n),
         NEW size \in Nat \ {0}, NEW r, r = CA!RunChain(b, hypo, from, Hidden(g, from, n), size)
  PROVE  /\ g \in Seq(Tokens) /\ Len(g) = from + n
         /\ \A l \in CA!LayerIds : r[l].out = Hidden(g, from, n) /\ CellRight(Layers[l], g, from + n, r[l])
         /\ \A l \in CA!LayerIds : r[l].position = IF Layers[l] = "linear" THEN from + n ELSE position[l]
<1>1. PICK h, xs : h = history[hypo[b]] /\ xs = Hidden(g, from, n)
  OBVIOUS
<1>2. hypo[b] \in Beams
  BY DEF CacheAssumption
<1>3. h \in Seq(Tokens) /\ Len(h) = prefix /\ prefix \in Nat
  BY <1>1, <1>2 DEF CacheRight
<1>4. CA!Token(b) \in Tokens
  BY DEF CA!Token, Tokens, CacheRight, CacheAssumption
<1>5. g \in Seq(Tokens) /\ Len(g) = from + n /\ Alike(g, h, from)
  <2>1. from \in 0 .. Len(h)
    BY <1>3
  <2>2. PICK t \in Tokens : t = CA!Token(b)
    BY <1>4
  <2>3. Grown(g, h, from, n, t)
    BY <2>2, <1>1 DEF GrowsTo
  <2>4. n \in Nat
    OBVIOUS
  <2> QED
    BY <2>1, <2>3, <2>4, <1>3, GoesOn
<1>6. ASSUME NEW l \in CA!LayerIds
      PROVE  /\ CA!RunLayer(Layers[l], CA!Cell(l, b, hypo), from, xs, size).out = xs
             /\ CellRight(Layers[l], g, from + n, CA!RunLayer(Layers[l], CA!Cell(l, b, hypo), from, xs, size))
             /\ CA!RunLayer(Layers[l], CA!Cell(l, b, hypo), from, xs, size).position =
                  IF Layers[l] = "linear" THEN from + n ELSE position[l]
  <2>1. PICK cell, kind : cell = CA!Cell(l, b, hypo) /\ kind = Layers[l]
    OBVIOUS
  <2>2. kind \in {"attention", "linear"}
    BY <2>1, LayersAre
  <2>3. cell = CellOf(l, hypo[b])
    BY <2>1, CellIsOfTheBeam
  <2>4. CellRight(kind, h, prefix, cell)
    BY <2>1, <2>3, <1>1, <1>2 DEF CacheRight, CellsRight
  <2>5. CellRight(kind, g, from, cell)
    BY <2>4, <1>3, <1>5, CellRewound
  <2>6. from \in Nat /\ n \in Nat /\ MaxLength \in Nat
    BY <1>3 DEF CacheAssumption
  <2>7. /\ CA!RunLayer(kind, cell, from, Hidden(g, from, n), size).out = Hidden(g, from, n)
        /\ CellRight(kind, g, from + n, CA!RunLayer(kind, cell, from, Hidden(g, from, n), size))
    <3>1. g \in Seq(Tokens) /\ from + n = Len(g)
      BY <1>5
    <3> QED
      BY <2>2, <2>5, <2>6, <3>1, LayerRight
  <2>8. Len(xs) = n
    <3>1. from + n <= Len(g)
      BY <1>5, <2>6
    <3>2. Len(Hidden(g, from, n)) = n
      BY <3>1, <1>5, <2>6, HiddenIs
    <3> QED
      BY <3>2, <1>1
  <2>9. CA!RunLayer(kind, cell, from, xs, size).position = IF kind = "linear" THEN from + n ELSE cell.position
    BY <2>8 DEF CA!RunLayer
  <2>10. cell.position = position[l]
    BY <2>3 DEF CellOf
  <2> QED
    BY <2>1, <2>7, <2>9, <2>10, <1>1
<1>7. \A l \in CA!LayerIds : r[l] = CA!RunLayer(Layers[l], CA!Cell(l, b, hypo), from, xs, size)
  <2>1. Passes(b, hypo, from, xs, size)
    BY <1>6 DEF Passes
  <2>2. Len(Layers) \in Nat
    BY LayersAre
  <2>3. r = CA!RunChain(b, hypo, from, xs, size)
    BY <1>1
  <2> QED
    BY <2>1, <2>2, <2>3, ChainIs
<1> QED
  BY <1>1, <1>5, <1>6, <1>7

LEMMA StepRight ==
  ASSUME CacheAssumption, CacheRight, NEW from \in 0 .. MaxLength, NEW n \in 1 .. MaxLength, NEW hypo \in Orders,
         CA!Step(from, n, hypo)
  PROVE  CacheRight'
<1>1. PICK size : size = CA!ChunkLength(from + n)
  OBVIOUS
<1>2. from \in Nat /\ n \in Nat \ {0} /\ from + n \in Nat \ {0} /\ MaxLength \in Nat
  BY DEF CacheAssumption
<1>3. size \in Nat \ {0}
  BY <1>1, <1>2, ChunkLengthTyped
<1>4. PICK run : run = [b \in Beams |-> CA!RunChain(b, hypo, from, Hidden(history'[b], from, n), size)]
  OBVIOUS
<1>5. /\ steps < CacheSteps /\ from \in 0 .. prefix /\ from + n <= MaxLength
      /\ history' = [b \in Beams |-> SubSeq(history[hypo[b]], 1, from) \o [i \in 1 .. n |-> CA!Token(b)]]
      /\ slots' = [l \in CA!LayerIds |-> [b \in Beams |-> run[b][l].slots]]
      /\ state' = [l \in CA!LayerIds |-> [b \in Beams |-> run[b][l].state]]
      /\ position' = [l \in CA!LayerIds |-> run[CA!AnyBeam][l].position]
      /\ answer' = [b \in Beams |-> run[b][Len(Layers)].out]
      /\ prefix' = from + n /\ steps' = steps + 1
  BY <1>1, <1>4 DEF CA!Step, CA!MayRewindTo, Hidden
<1>6. steps' \in 0 .. CacheSteps /\ prefix' \in 0 .. MaxLength
  BY <1>2, <1>5 DEF CacheRight, CacheAssumption
<1>7. ASSUME NEW b \in Beams
      PROVE  /\ history'[b] \in Seq(Tokens) /\ Len(history'[b]) = from + n
             /\ \A l \in CA!LayerIds : /\ run[b][l].out = Hidden(history'[b], from, n)
                                      /\ CellRight(Layers[l], history'[b], from + n, run[b][l])
                                      /\ run[b][l].position = IF Layers[l] = "linear" THEN from + n ELSE position[l]
  <2>1. PICK g, r : g = history'[b] /\ r = run[b]
    OBVIOUS
  <2>2. GrowsTo(g, b, hypo, from, n)
    BY <2>1, <1>5 DEF GrowsTo, Grown
  <2>3. r = CA!RunChain(b, hypo, from, Hidden(g, from, n), size)
    BY <2>1, <1>4
  <2>4. /\ g \in Seq(Tokens) /\ Len(g) = from + n
        /\ \A l \in CA!LayerIds : r[l].out = Hidden(g, from, n) /\ CellRight(Layers[l], g, from + n, r[l])
        /\ \A l \in CA!LayerIds : r[l].position = IF Layers[l] = "linear" THEN from + n ELSE position[l]
    BY <2>2, <2>3, <1>2, <1>3, <1>5, BeamRight
  <2> QED
    BY <2>1, <2>4
<1>8. CellsRight'
  <2>1. SUFFICES ASSUME NEW l \in CA!LayerIds, NEW b \in Beams
                 PROVE  CellRight(Layers[l], history'[b], prefix', CellOf(l, b)')
    BY DEF CellsRight
  <2>2. PICK c, d : c = run[b][l] /\ d = CellOf(l, b)'
    OBVIOUS
  <2>3. run[CA!AnyBeam][l].position = c.position
    BY <2>2, <1>7, LayersAre
  <2>4. d.slots = c.slots /\ d.state = c.state /\ d.position = c.position
    BY <2>2, <2>3, <1>5 DEF CellOf
  <2>5. CellRight(Layers[l], history'[b], from + n, c)
    BY <2>2, <1>7
  <2>6. CellRight(Layers[l], history'[b], from + n, d)
    BY <2>4, <2>5 DEF CellRight
  <2> QED
    BY <2>2, <2>6, <1>5
<1>9. ASSUME NEW b \in Beams
      PROVE  /\ answer'[b] = Hidden(history'[b], prefix' - Len(answer'[b]), Len(answer'[b]))
             /\ Len(answer'[b]) \in 0 .. prefix'
  <2>1. PICK g : g = history'[b]
    OBVIOUS
  <2>2. answer'[b] = Hidden(g, from, n)
    BY <2>1, <1>5, <1>7, LayersAre
  <2>3. Len(Hidden(g, from, n)) = n
    <3>1. g \in Seq(Tokens) /\ from + n <= Len(g)
      BY <2>1, <1>2, <1>7
    <3> QED
      BY <3>1, <1>2, HiddenIs
  <2>4. prefix' - n = from /\ n \in 0 .. prefix'
    BY <1>2, <1>5
  <2> QED
    BY <2>1, <2>2, <2>3, <2>4
<1> QED
  BY <1>5, <1>6, <1>7, <1>8, <1>9 DEF CacheRight

LEMMA CacheNext == ASSUME CacheAssumption, CacheRight, [CA!NextCache]_CA!cacheVars PROVE CacheRight'
<1>1. CASE UNCHANGED CA!cacheVars
  <2>1. /\ history' = history /\ prefix' = prefix /\ slots' = slots /\ state' = state
        /\ position' = position /\ answer' = answer /\ steps' = steps
    BY <1>1 DEF CA!cacheVars
  <2>2. \A l \in CA!LayerIds, b \in Beams : CellOf(l, b)' = CellOf(l, b)
    BY <2>1 DEF CellOf
  <2>3. CellsRight'
    BY <2>1, <2>2 DEF CacheRight, CellsRight
  <2> QED
    BY <2>1, <2>3 DEF CacheRight
<1>2. CASE CA!NextCache
  <2>1. PICK from \in 0 .. MaxLength :
          CA!EmptyStep(from) \/ \E n \in 1 .. MaxLength, hypo \in Orders : CA!Step(from, n, hypo)
    BY <1>2 DEF CA!NextCache
  <2> QED
    BY <2>1, EmptyStepRight, StepRight
<1> QED
  BY <1>1, <1>2

LEMMA RightAnswers == ASSUME CacheAssumption, CacheRight PROVE CA!AnswersSeeTheirPrefix
<1>1. CA!TypeOKCache
  <2>1. prefix \in 0 .. MaxLength /\ \A b \in Beams : history[b] \in Seq((0 .. CacheSteps) \X Beams) /\ Len(history[b]) = prefix
    BY DEF CacheRight, Tokens
  <2>2. ASSUME NEW l \in CA!LayerIds PROVE position[l] \in 0 .. MaxLength
    <3>1. PICK b \in Beams : TRUE
      BY DEF CacheAssumption
    <3>2. CellOf(l, b).position \in 0 .. MaxLength
      BY DEF CacheRight, CellsRight, CellRight
    <3> QED
      BY <3>2 DEF CellOf
  <2> QED
    BY <2>1, <2>2 DEF CA!TypeOKCache
<1>2. ASSUME NEW b \in Beams, NEW i \in 1 .. Len(answer[b])
      PROVE  answer[b][i] = SubSeq(history[b], 1, prefix - Len(answer[b]) + i)
  <2>1. PICK n : n = Len(answer[b])
    OBVIOUS
  <2>2. answer[b] = Hidden(history[b], prefix - n, n) /\ i \in 1 .. n
    BY <2>1 DEF CacheRight
  <2> QED
    BY <2>1, <2>2 DEF Hidden
<1> QED
  BY <1>1, <1>2 DEF CA!AnswersSeeTheirPrefix

\* For any numbers of beams, blocks, positions and steps and whatever budget chunks have: whatever was
\* rewound, reordered or cut into chunks before, every hidden state a step returns was computed
\* from the tokens of its own beam up to its own position, in every block of the chain.
THEOREM AnswersAreOfTheirPrefix ==
  ASSUME CacheAssumption
  PROVE  CA!InitCache /\ [][CA!NextCache]_CA!cacheVars => []CA!AnswersSeeTheirPrefix
<1>1. CA!InitCache => CacheRight
  BY CacheInit
<1>2. CacheRight /\ [CA!NextCache]_CA!cacheVars => CacheRight'
  BY CacheNext
<1>3. CacheRight => CA!AnswersSeeTheirPrefix
  BY RightAnswers
<1> QED
  BY <1>1, <1>2, <1>3, PTL

-----------------------------------------------------------------------------
(* What the heads of a block are given.                                   *)

CONSTANTS Families, Streams, Batch(_), KVHeads, Groups, TableLength, ChunkLength, Longest, Feeds
VARIABLES family, table, graph, caches, output

AT == INSTANCE AttentionBlock WITH answer <- output, Sessions <- Streams, MaxLength <- Longest

\* The sizes of a model: at least one head, and rows in every batch.
AttentionAssumption ==
  /\ Families \subseteq {"bloom", "falcon", "llama", "mixtral", "qwen3_moe"}
  /\ \A s \in Streams : Batch(s) \in Nat \ {0}
  /\ KVHeads \in Nat \ {0} /\ Groups \in Nat \ {0}
  /\ TableLength \in Nat /\ ChunkLength \in Nat \ {0} /\ Longest \in Nat
  /\ Feeds \subseteq Nat \ {0}

-----------------------------------------------------------------------------
\* Rows and heads by index.

Pairs(B, m) == (0 .. B - 1) \X (0 .. m - 1)

LEMMA QuotientOfSum ==
  ASSUME NEW a \in Nat, NEW m \in Nat \ {0}, NEW x \in 0 .. m - 1
  PROVE  (a * m + x) \div m = a /\ (a * m + x) % m = x
<1>1. PICK y \in Nat : y = a * m
  OBVIOUS
<1>2. PICK q, r \in Int : q = (y + x) \div m /\ r = (y + x) % m
  OBVIOUS
<1>3. q * m + r = y + x /\ r \in 0 .. m - 1
  BY <1>2
<1>4. (q - a) * m = q * m - a * m
  OBVIOUS
<1>5. (q - a) * m = x - r
  BY <1>1, <1>3, <1>4
<1>6. -m < x - r /\ x - r < m
  BY <1>3
<1>7. ~(q - a >= 1) /\ ~(q - a <= -1)
  <2>1. \A d \in Int : d >= 1 => d * m >= m
    OBVIOUS
  <2>2. \A d \in Int : d <= -1 => d * m <= -m
    OBVIOUS
  <2>3. q - a \in Int
    OBVIOUS
  <2>4. PICK d \in Int : d = q - a
    BY <2>3
  <2> QED
    BY <2>1, <2>2, <2>4, <1>5, <1>6
<1>8. q = a
  BY <1>7
<1> QED
  BY <1>1, <1>2, <1>3, <1>8

LEMMA IndexIn ==
  ASSUME NEW B \in Nat \ {0}, NEW m \in Nat \ {0}, NEW a \in 0 .. B - 1, NEW x \in 0 .. m - 1
  PROVE  a * m + x \in 0 .. B * m - 1
<1>1. PICK y, z \in Nat : y = a * m /\ z = B * m
  OBVIOUS
<1>2. (B - a - 1) * m = B * m - a * m - m
  OBVIOUS
<1>3. (B - a - 1) * m >= 0
  <2>1. PICK d \in Nat : d = B - a - 1
    OBVIOUS
  <2>2. d * m >= 0
    OBVIOUS
  <2> QED
    BY <2>1, <2>2
<1> QED
  BY <1>1, <1>2, <1>3

LEMMA PairIndexed ==
  ASSUME NEW B \in Nat \ {0}, NEW m \in Nat \ {0}, NEW a \in 0 .. B - 1, NEW x \in 0 .. m - 1, NEW j, j = a * m + x
  PROVE  j \in 0 .. B * m - 1 /\ j \div m = a /\ j % m = x
<1>1. j \in 0 .. B * m - 1
  BY IndexIn
<1>2. a \in Nat
  OBVIOUS
<1>3. (a * m + x) \div m = a /\ (a * m + x) % m = x
  BY <1>2, QuotientOfSum
<1> QED
  BY <1>1, <1>3

LEMMA PairOfIndex ==
  ASSUME NEW B \in Nat \ {0}, NEW m \in Nat \ {0}, NEW r \in 0 .. B * m - 1
  PROVE  r \div m \in 0 .. B - 1 /\ r % m \in 0 .. m - 1
<1>1. PICK q, x \in Int : q = r \div m /\ x = r % m
  OBVIOUS
<1>2. q * m + x = r /\ x \in 0 .. m - 1 /\ q >= 0
  BY <1>1
<1>3. q <= B - 1
  <2>1. SUFFICES ASSUME q >= B PROVE FALSE
    OBVIOUS
  <2>2. (q - B) * m = q * m - B * m
    OBVIOUS
  <2>3. (q - B) * m >= 0
    <3>1. PICK d \in Nat : d = q - B
      BY <2>1
    <3>2. d * m >= 0
      OBVIOUS
    <3> QED
      BY <3>1, <3>2
  <2>4. PICK y, z \in Int : y = q * m /\ z = B * m
    OBVIOUS
  <2> QED
    BY <2>2, <2>3, <2>4, <1>2
<1> QED
  BY <1>1, <1>2, <1>3

-----------------------------------------------------------------------------
\* The keys of one row and head: n of them, in the order of the tokens, each rotated by the angle of its
\* position unless that position has drifted.

\* The angle of a position in a family.
Turn(fam, p) == IF fam = "bloom" THEN 0 ELSE p

Key == [row : Int, head : Int, position : Int, angle : Int]

KeysOf(fam, drifted, row, head, n, ks) ==
  /\ ks \in Seq(Key) /\ Len(ks) = n
  /\ \A i \in 1 .. n :
       /\ ks[i].row = row /\ ks[i].head = head /\ ks[i].position = i - 1
       /\ i - 1 \in drifted \/ ks[i].angle = Turn(fam, i - 1)

AnglesRight(fam, drifted, from, angles) ==
  /\ angles \in Seq(Int)
  /\ \A i \in 1 .. Len(angles) : from + i - 1 \in drifted \/ angles[i] = Turn(fam, from + i - 1)

LEMMA KeysNone == ASSUME NEW fam, NEW drifted, NEW row, NEW head PROVE KeysOf(fam, drifted, row, head, 0, <<>>)
BY DEF KeysOf

\* The keys of a call go behind those of the cache.
LEMMA KeysGoOn ==
  ASSUME NEW fam, NEW drifted, NEW row \in Int, NEW head \in Int, NEW n \in Nat, NEW ks,
         KeysOf(fam, drifted, row, head, n, ks),
         NEW angles, AnglesRight(fam, drifted, n, angles)
  PROVE  KeysOf(fam, drifted, row, head, n + Len(angles), ks \o AT!Projected(row, head, angles, n))
<1>1. PICK m, p : m = Len(angles) /\ p = AT!Projected(row, head, angles, n)
  OBVIOUS
<1>2. m \in Nat /\ \A i \in 1 .. m : angles[i] \in Int
  BY <1>1 DEF AnglesRight
<1>3. p = [i \in 1 .. m |-> [row |-> row, head |-> head, position |-> n + i - 1, angle |-> angles[i]]]
  BY <1>1 DEF AT!Projected
<1>4. p \in Seq(Key) /\ Len(p) = m
  <2>1. p \in [1 .. m -> Key]
    BY <1>2, <1>3 DEF Key
  <2> QED
    BY <2>1, <1>2
<1>5. ks \in Seq(Key) /\ Len(ks) = n
  BY DEF KeysOf
<1>6. PICK c : c = ks \o p
  OBVIOUS
<1>7. c \in Seq(Key) /\ Len(c) = n + m /\ \A i \in 1 .. n + m : c[i] = IF i <= n THEN ks[i] ELSE p[i - n]
  BY <1>4, <1>5, <1>6, ConcatProperties
<1>8. ASSUME NEW i \in 1 .. n + m
      PROVE  /\ c[i].row = row /\ c[i].head = head /\ c[i].position = i - 1
             /\ i - 1 \in drifted \/ c[i].angle = Turn(fam, i - 1)
  <2>1. CASE i <= n
    <3>1. i \in 1 .. n /\ c[i] = ks[i]
      BY <2>1, <1>7
    <3> QED
      BY <3>1 DEF KeysOf
  <2>2. CASE ~(i <= n)
    <3>1. PICK j \in 1 .. m : j = i - n
      BY <2>2, <1>2
    <3>2. c[i] = p[j] /\ n + j - 1 = i - 1
      BY <2>2, <3>1, <1>7
    <3>3. p[j].row = row /\ p[j].head = head /\ p[j].position = n + j - 1 /\ p[j].angle = angles[j]
      BY <1>3
    <3>4. n + j - 1 \in drifted \/ angles[j] = Turn(fam, n + j - 1)
      BY <1>1 DEF AnglesRight
    <3> QED
      BY <3>2, <3>3, <3>4
  <2> QED
    BY <2>1, <2>2
<1> QED
  BY <1>1, <1>6, <1>7, <1>8 DEF KeysOf

LEMMA KeysDrift ==
  ASSUME NEW fam, NEW drifted, NEW more, drifted \subseteq more, NEW row, NEW head, NEW n, NEW ks,
         KeysOf(fam, drifted, row, head, n, ks)
  PROVE  KeysOf(fam, more, row, head, n, ks)
BY DEF KeysOf

-----------------------------------------------------------------------------
\* A cache in the layout of each fam, and the keys that heads are given.

PairOf(fam, r) ==
  CASE fam = "bloom" -> <<r \div AT!Heads, r % AT!Heads>>
    [] fam = "qwen3_moe" -> r
    [] OTHER -> <<r \div KVHeads, r % KVHeads>>

CacheHolds(fam, drifted, B, n, cache) ==
  /\ DOMAIN cache = AT!CacheRows(fam, B)
  /\ cache = [r \in AT!CacheRows(fam, B) |-> cache[r]]
  /\ \A r \in AT!CacheRows(fam, B) :
       KeysOf(fam, drifted, PairOf(fam, r)[1], PairOf(fam, r)[2], n, cache[r])

HeadsGiven(fam, drifted, B, n, keys) ==
  /\ DOMAIN keys = Pairs(B, AT!Heads)
  /\ \A b \in 0 .. B - 1, h \in 0 .. AT!Heads - 1 :
       KeysOf(fam, drifted, b, IF fam = "bloom" THEN h ELSE h \div Groups, n, keys[<<b, h>>])

\* What a block makes of a cache that is right.
BlockHolds(fam, drifted, B, n, out) ==
  CacheHolds(fam, drifted, B, n, out.cache) /\ HeadsGiven(fam, drifted, B, n, out.keys)

LEMMA HeadsTyped == ASSUME AttentionAssumption PROVE AT!Heads \in Nat \ {0}
<1>1. KVHeads \in Nat \ {0} /\ Groups \in Nat \ {0}
  BY DEF AttentionAssumption
<1>2. KVHeads * Groups \in Nat \ {0}
  BY <1>1
<1> QED
  BY <1>2 DEF AT!Heads

\* BLOOM: a row of the cache for every row of the batch and head.
LEMMA BloomHolds ==
  ASSUME NEW fam, AttentionAssumption, fam = "bloom", NEW drifted, NEW B \in Nat \ {0}, NEW n \in Nat, NEW cache,
         CacheHolds(fam, drifted, B, n, cache), NEW angles, AnglesRight(fam, drifted, n, angles)
  PROVE  BlockHolds(fam, drifted, B, n + Len(angles), AT!BloomBlock(B, cache, angles, n))
<1>1. PICK H, m : H = AT!Heads /\ m = n + Len(angles)
  OBVIOUS
<1>2. H \in Nat \ {0}
  BY <1>1, HeadsTyped
<1>3. /\ DOMAIN cache = 0 .. B * H - 1
      /\ \A r \in 0 .. B * H - 1 : KeysOf(fam, drifted, r \div H, r % H, n, cache[r])
  BY <1>1 DEF CacheHolds, AT!CacheRows, PairOf
<1>4. PICK keys : keys = [r \in 0 .. B * H - 1 |-> cache[r] \o AT!Projected(r \div H, r % H, angles, n)]
  OBVIOUS
<1>5. ASSUME NEW r \in 0 .. B * H - 1 PROVE KeysOf(fam, drifted, r \div H, r % H, m, keys[r])
  <2>1. PICK row, head \in Int : row = r \div H /\ head = r % H
    BY <1>2
  <2>2. KeysOf(fam, drifted, row, head, n + Len(angles), cache[r] \o AT!Projected(row, head, angles, n))
    BY <2>1, <1>3, KeysGoOn
  <2> QED
    BY <2>1, <2>2, <1>1, <1>4
<1>6. CacheHolds(fam, drifted, B, m, keys)
  BY <1>1, <1>4, <1>5 DEF CacheHolds, AT!CacheRows, PairOf
<1>7. PICK given : given = [bh \in Pairs(B, H) |-> keys[bh[1] * H + bh[2]]]
  OBVIOUS
<1>8. HeadsGiven(fam, drifted, B, m, given)
  <2>1. SUFFICES ASSUME NEW b \in 0 .. B - 1, NEW h \in 0 .. H - 1
                 PROVE  KeysOf(fam, drifted, b, h, m, given[<<b, h>>])
    BY <1>1, <1>7 DEF HeadsGiven
  <2>2. PICK r : r = b * H + h
    OBVIOUS
  <2>3. r \in 0 .. B * H - 1 /\ r \div H = b /\ r % H = h
    BY <2>2, <1>2, PairIndexed
  <2>4. given[<<b, h>>] = keys[r]
    BY <2>2, <1>7 DEF Pairs
  <2> QED
    BY <2>3, <2>4, <1>5
<1>9. AT!BloomBlock(B, cache, angles, n) = [cache |-> keys, keys |-> given]
  BY <1>1, <1>3, <1>4, <1>7 DEF AT!BloomBlock, AT!ByHead, Pairs
<1> QED
  BY <1>1, <1>6, <1>8, <1>9 DEF BlockHolds

-----------------------------------------------------------------------------
\* Keys by row of the batch and head of the keys, as LLaMA, Mixtral and Qwen3-MoE attend.

Grouped(fam, drifted, B, n, keys) ==
  /\ keys = [bk \in Pairs(B, KVHeads) |-> keys[bk]]
  /\ \A bk \in Pairs(B, KVHeads) : KeysOf(fam, drifted, bk[1], bk[2], n, keys[bk])

LEMMA AttentionGroups ==
  ASSUME NEW fam, NEW drifted, NEW B \in Nat, KVHeads \in Nat, NEW n \in Nat, NEW past,
         Grouped(fam, drifted, B, n, past),
         NEW angles, AnglesRight(fam, drifted, n, angles)
  PROVE  Grouped(fam, drifted, B, n + Len(angles), AT!LlamaAttention(past, angles, n))
<1>1. PICK keys : keys = [bk \in Pairs(B, KVHeads) |-> past[bk] \o AT!Projected(bk[1], bk[2], angles, n)]
  OBVIOUS
<1>2. DOMAIN past = Pairs(B, KVHeads)
  BY DEF Grouped
<1>3. AT!LlamaAttention(past, angles, n) = keys
  BY <1>1, <1>2 DEF AT!LlamaAttention
<1>4. ASSUME NEW bk \in Pairs(B, KVHeads) PROVE KeysOf(fam, drifted, bk[1], bk[2], n + Len(angles), keys[bk])
  <2>1. PICK row, head \in Int : row = bk[1] /\ head = bk[2]
    BY DEF Pairs
  <2>2. KeysOf(fam, drifted, row, head, n, past[bk])
    BY <2>1 DEF Grouped
  <2>3. KeysOf(fam, drifted, row, head, n + Len(angles), past[bk] \o AT!Projected(row, head, angles, n))
    BY <2>2, KeysGoOn
  <2> QED
    BY <2>1, <2>3, <1>1
<1>5. Grouped(fam, drifted, B, n + Len(angles), keys)
  BY <1>1, <1>4 DEF Grouped
<1> QED
  BY <1>3, <1>5

Merged(f) == f \in {"falcon", "llama", "mixtral"}

LEMMA MergedRows ==
  ASSUME NEW fam, Merged(fam), NEW drifted, NEW B, NEW n, NEW cache
  PROVE  CacheHolds(fam, drifted, B, n, cache) <=>
           /\ DOMAIN cache = 0 .. B * KVHeads - 1
           /\ cache = [r \in 0 .. B * KVHeads - 1 |-> cache[r]]
           /\ \A r \in 0 .. B * KVHeads - 1 : KeysOf(fam, drifted, r \div KVHeads, r % KVHeads, n, cache[r])
BY DEF CacheHolds, AT!CacheRows, PairOf, Merged

LEMMA FromBloomGroups ==
  ASSUME NEW fam, AttentionAssumption, Merged(fam), NEW drifted, NEW B \in Nat \ {0}, NEW n \in Nat, NEW cache,
         CacheHolds(fam, drifted, B, n, cache)
  PROVE  Grouped(fam, drifted, B, n, AT!FromBloom(B, cache))
<1>1. KVHeads \in Nat \ {0}
  BY DEF AttentionAssumption
<1>2. PICK keys : keys = [bk \in Pairs(B, KVHeads) |-> cache[bk[1] * KVHeads + bk[2]]]
  OBVIOUS
<1>3. AT!FromBloom(B, cache) = keys
  BY <1>2 DEF AT!FromBloom, Pairs
<1>4. ASSUME NEW bk \in Pairs(B, KVHeads) PROVE KeysOf(fam, drifted, bk[1], bk[2], n, keys[bk])
  <2>1. PICK b \in 0 .. B - 1, k \in 0 .. KVHeads - 1 : b = bk[1] /\ k = bk[2]
    BY DEF Pairs
  <2>2. PICK r : r = b * KVHeads + k
    OBVIOUS
  <2>3. r \in 0 .. B * KVHeads - 1 /\ r \div KVHeads = b /\ r % KVHeads = k
    BY <2>2, <1>1, PairIndexed
  <2>4. KeysOf(fam, drifted, r \div KVHeads, r % KVHeads, n, cache[r])
    BY <2>3, MergedRows
  <2> QED
    BY <2>1, <2>2, <2>3, <2>4, <1>2
<1> QED
  BY <1>2, <1>3, <1>4 DEF Grouped

LEMMA ToBloomHolds ==
  ASSUME NEW fam, AttentionAssumption, Merged(fam), NEW drifted, NEW B \in Nat \ {0}, NEW n \in Nat, NEW keys,
         Grouped(fam, drifted, B, n, keys)
  PROVE  CacheHolds(fam, drifted, B, n, AT!ToBloom(B, keys))
<1>1. KVHeads \in Nat \ {0}
  BY DEF AttentionAssumption
<1>2. PICK cache : cache = [r \in 0 .. B * KVHeads - 1 |-> keys[<<r \div KVHeads, r % KVHeads>>]]
  OBVIOUS
<1>3. AT!ToBloom(B, keys) = cache
  BY <1>2 DEF AT!ToBloom
<1>4. ASSUME NEW r \in 0 .. B * KVHeads - 1 PROVE KeysOf(fam, drifted, r \div KVHeads, r % KVHeads, n, cache[r])
  <2>1. PICK b \in 0 .. B - 1, k \in 0 .. KVHeads - 1 : b = r \div KVHeads /\ k = r % KVHeads
    BY <1>1, PairOfIndex
  <2>2. <<b, k>> \in Pairs(B, KVHeads)
    BY DEF Pairs
  <2>3. KeysOf(fam, drifted, b, k, n, keys[<<b, k>>])
    BY <2>2 DEF Grouped
  <2> QED
    BY <2>1, <2>3, <1>2
<1>5. DOMAIN cache = 0 .. B * KVHeads - 1 /\ cache = [r \in 0 .. B * KVHeads - 1 |-> cache[r]]
  BY <1>2
<1>6. CacheHolds(fam, drifted, B, n, cache)
  BY <1>4, <1>5, MergedRows
<1> QED
  BY <1>3, <1>6

\* A query head is given the keys of its group.
LEMMA GroupOfHead == ASSUME AttentionAssumption, NEW h \in 0 .. AT!Heads - 1 PROVE h \div Groups \in 0 .. KVHeads - 1
<1>1. KVHeads \in Nat \ {0} /\ Groups \in Nat \ {0} /\ h \in 0 .. KVHeads * Groups - 1
  BY DEF AttentionAssumption, AT!Heads
<1> QED
  BY <1>1, PairOfIndex

LEMMA RepeatGives ==
  ASSUME NEW fam, AttentionAssumption, fam # "bloom", NEW drifted, NEW B \in Nat \ {0}, NEW n \in Nat, NEW keys,
         Grouped(fam, drifted, B, n, keys)
  PROVE  HeadsGiven(fam, drifted, B, n, AT!RepeatKV(B, keys))
<1>1. PICK given : given = [bh \in Pairs(B, AT!Heads) |-> keys[<<bh[1], bh[2] \div Groups>>]]
  OBVIOUS
<1>2. AT!RepeatKV(B, keys) = given
  BY <1>1 DEF AT!RepeatKV, AT!ByHead, Pairs
<1>3. ASSUME NEW b \in 0 .. B - 1, NEW h \in 0 .. AT!Heads - 1
      PROVE  KeysOf(fam, drifted, b, h \div Groups, n, given[<<b, h>>])
  <2>1. PICK k \in 0 .. KVHeads - 1 : k = h \div Groups
    BY GroupOfHead
  <2>2. <<b, k>> \in Pairs(B, KVHeads) /\ <<b, h>> \in Pairs(B, AT!Heads)
    BY DEF Pairs
  <2>3. KeysOf(fam, drifted, b, k, n, keys[<<b, k>>])
    BY <2>2 DEF Grouped
  <2>4. given[<<b, h>>] = keys[<<b, k>>]
    BY <2>1, <2>2, <1>1
  <2> QED
    BY <2>1, <2>3, <2>4
<1> QED
  BY <1>1, <1>2, <1>3 DEF HeadsGiven

LEMMA LlamaHolds ==
  ASSUME NEW fam, AttentionAssumption, fam \in {"llama", "mixtral"}, NEW drifted, NEW B \in Nat \ {0},
         NEW n \in Nat, NEW cache,
         CacheHolds(fam, drifted, B, n, cache), NEW angles, AnglesRight(fam, drifted, n, angles)
  PROVE  /\ BlockHolds(fam, drifted, B, n + Len(angles), AT!LlamaBlock(B, cache, angles, n))
         /\ AT!MixtralBlock(B, cache, angles, n) = AT!LlamaBlock(B, cache, angles, n)
<1>1. PICK past, keys, m : /\ past = AT!FromBloom(B, cache) /\ keys = AT!LlamaAttention(past, angles, n)
                          /\ m = n + Len(angles)
  OBVIOUS
<1>2. Merged(fam) /\ fam # "bloom" /\ KVHeads \in Nat
  BY DEF Merged, AttentionAssumption
<1>3. Grouped(fam, drifted, B, n, past)
  BY <1>1, <1>2, FromBloomGroups
<1>4. Grouped(fam, drifted, B, m, keys)
  BY <1>1, <1>2, <1>3, AttentionGroups
<1>5. m \in Nat
  BY <1>1 DEF AnglesRight
<1>6. CacheHolds(fam, drifted, B, m, AT!ToBloom(B, keys)) /\ HeadsGiven(fam, drifted, B, m, AT!RepeatKV(B, keys))
  BY <1>2, <1>4, <1>5, ToBloomHolds, RepeatGives
<1>7. AT!LlamaBlock(B, cache, angles, n) = [cache |-> AT!ToBloom(B, keys), keys |-> AT!RepeatKV(B, keys)]
  BY <1>1 DEF AT!LlamaBlock
<1>8. AT!MixtralBlock(B, cache, angles, n) = [cache |-> AT!ToBloom(B, keys), keys |-> AT!RepeatKV(B, keys)]
  <2>1. keys = [bk \in Pairs(B, KVHeads) |-> past[bk] \o AT!Projected(bk[1], bk[2], angles, n)]
    BY <1>1, <1>3 DEF AT!LlamaAttention, Grouped
  <2> QED
    BY <2>1, <1>1 DEF AT!MixtralBlock, Pairs
<1> QED
  BY <1>1, <1>6, <1>7, <1>8 DEF BlockHolds

-----------------------------------------------------------------------------
\* Falcon: the cache is spread over the query heads, the keys of a group repeated for each of them, and
\* gathered from the first of each group afterwards.

Spread(fam, drifted, B, n, keys) ==
  /\ keys = [r \in 0 .. B * AT!Heads - 1 |-> keys[r]]
  /\ \A r \in 0 .. B * AT!Heads - 1 : KeysOf(fam, drifted, r \div AT!Heads, (r % AT!Heads) \div Groups, n, keys[r])

LEMMA ExpandSpreads ==
  ASSUME NEW fam, AttentionAssumption, Merged(fam), NEW drifted, NEW B \in Nat \ {0}, NEW n \in Nat, NEW cache,
         CacheHolds(fam, drifted, B, n, cache)
  PROVE  Spread(fam, drifted, B, n, AT!ExpandStates(B, cache))
<1>1. KVHeads \in Nat \ {0}
  BY DEF AttentionAssumption
<1>2. PICK H : H = AT!Heads
  OBVIOUS
<1>3. H \in Nat \ {0}
  BY <1>2, HeadsTyped
<1>4. PICK keys : keys = [r \in 0 .. B * H - 1 |-> cache[(r \div H) * KVHeads + ((r % H) \div Groups)]]
  OBVIOUS
<1>5. AT!ExpandStates(B, cache) = keys
  BY <1>2, <1>4 DEF AT!ExpandStates
<1>6. ASSUME NEW r \in 0 .. B * H - 1 PROVE KeysOf(fam, drifted, r \div H, (r % H) \div Groups, n, keys[r])
  <2>1. PICK b \in 0 .. B - 1, h \in 0 .. H - 1 : b = r \div H /\ h = r % H
    BY <1>3, PairOfIndex
  <2>2. PICK k \in 0 .. KVHeads - 1 : k = h \div Groups
    BY <1>2, GroupOfHead
  <2>3. PICK j : j = b * KVHeads + k
    OBVIOUS
  <2>4. j \in 0 .. B * KVHeads - 1 /\ j \div KVHeads = b /\ j % KVHeads = k
    BY <2>3, <1>1, PairIndexed
  <2>5. KeysOf(fam, drifted, j \div KVHeads, j % KVHeads, n, cache[j])
    BY <2>4, MergedRows
  <2>6. keys[r] = cache[j]
    BY <2>1, <2>2, <2>3, <1>4
  <2> QED
    BY <2>1, <2>2, <2>4, <2>5, <2>6
<1>7. Spread(fam, drifted, B, n, keys)
  BY <1>2, <1>4, <1>6 DEF Spread
<1> QED
  BY <1>5, <1>7

LEMMA FalconSpreads ==
  ASSUME NEW fam, AttentionAssumption, NEW drifted, NEW B \in Nat \ {0}, NEW n \in Nat, NEW past,
         Spread(fam, drifted, B, n, past),
         NEW angles, AnglesRight(fam, drifted, n, angles)
  PROVE  Spread(fam, drifted, B, n + Len(angles), AT!FalconAttention(B, past, angles, n))
<1>1. PICK H, m : H = AT!Heads /\ m = n + Len(angles)
  OBVIOUS
<1>2. H \in Nat \ {0} /\ Groups \in Nat \ {0}
  BY <1>1, HeadsTyped DEF AttentionAssumption
<1>3. PICK keys : keys = [r \in 0 .. B * H - 1 |->
                             past[r] \o AT!Projected(r \div H, (r % H) \div Groups, angles, n)]
  OBVIOUS
<1>4. DOMAIN past = 0 .. B * H - 1
  BY <1>1 DEF Spread
<1>5. AT!FalconAttention(B, past, angles, n) = keys
  <2>1. PICK split : split = [r \in 0 .. B * H - 1 |-> AT!Projected(r \div H, (r % H) \div Groups, angles, n)]
    OBVIOUS
  <2>2. AT!SplitHeads(B, angles, n) = split
    BY <1>1, <2>1 DEF AT!SplitHeads
  <2>3. AT!FalconAttention(B, past, angles, n) = [r \in 0 .. B * H - 1 |-> past[r] \o split[r]]
    BY <1>4, <2>2 DEF AT!FalconAttention
  <2> QED
    BY <2>1, <2>3, <1>3
<1>6. ASSUME NEW r \in 0 .. B * H - 1 PROVE KeysOf(fam, drifted, r \div H, (r % H) \div Groups, m, keys[r])
  <2>1. PICK h \in 0 .. H - 1 : h = r % H
    BY <1>2, PairOfIndex
  <2>2. PICK row, head \in Int : row = r \div H /\ head = h \div Groups
    BY <1>2
  <2>3. KeysOf(fam, drifted, row, head, n, past[r])
    BY <2>1, <2>2, <1>1 DEF Spread
  <2>4. KeysOf(fam, drifted, row, head, n + Len(angles), past[r] \o AT!Projected(row, head, angles, n))
    BY <2>3, KeysGoOn
  <2> QED
    BY <2>1, <2>2, <2>4, <1>1, <1>3
<1>7. Spread(fam, drifted, B, m, keys)
  BY <1>1, <1>3, <1>6 DEF Spread
<1> QED
  BY <1>1, <1>5, <1>7

LEMMA CollapseHolds ==
  ASSUME NEW fam, AttentionAssumption, Merged(fam), NEW drifted, NEW B \in Nat \ {0}, NEW n \in Nat, NEW keys,
         Spread(fam, drifted, B, n, keys)
  PROVE  CacheHolds(fam, drifted, B, n, AT!CollapseStates(B, keys))
<1>1. KVHeads \in Nat \ {0} /\ Groups \in Nat \ {0}
  BY DEF AttentionAssumption
<1>2. PICK H : H = AT!Heads
  OBVIOUS
<1>3. H \in Nat \ {0}
  BY <1>2, HeadsTyped
<1>9. H = KVHeads * Groups
  BY <1>2 DEF AT!Heads
<1>4. PICK cache : cache = [r \in 0 .. B * KVHeads - 1 |-> keys[(r \div KVHeads) * H + ((r % KVHeads) * Groups)]]
  OBVIOUS
<1>5. AT!CollapseStates(B, keys) = cache
  BY <1>2, <1>4 DEF AT!CollapseStates
<1>6. ASSUME NEW r \in 0 .. B * KVHeads - 1 PROVE KeysOf(fam, drifted, r \div KVHeads, r % KVHeads, n, cache[r])
  <2>1. PICK b \in 0 .. B - 1, k \in 0 .. KVHeads - 1 : b = r \div KVHeads /\ k = r % KVHeads
    BY <1>1, PairOfIndex
  <2>2. PICK h : h = k * Groups + 0
    OBVIOUS
  <2>3. h \in 0 .. H - 1 /\ h \div Groups = k
    BY <2>2, <1>1, <1>9, PairIndexed
  <2>4. PICK j : j = b * H + h
    OBVIOUS
  <2>5. j \in 0 .. B * H - 1 /\ j \div H = b /\ j % H = h
    BY <2>3, <2>4, <1>3, PairIndexed
  <2>6. KeysOf(fam, drifted, j \div H, (j % H) \div Groups, n, keys[j])
    BY <2>5, <1>2 DEF Spread
  <2>7. KeysOf(fam, drifted, b, k, n, keys[j])
    BY <2>3, <2>5, <2>6
  <2>8. h = k * Groups
    <3>1. k * Groups \in Int
      BY <1>1
    <3> QED
      BY <2>2, <3>1
  <2>9. cache[r] = keys[j]
    BY <2>1, <2>4, <2>8, <1>4
  <2> QED
    BY <2>1, <2>7, <2>9
<1>7. DOMAIN cache = 0 .. B * KVHeads - 1 /\ cache = [r \in 0 .. B * KVHeads - 1 |-> cache[r]]
  BY <1>4
<1>8. CacheHolds(fam, drifted, B, n, cache)
  BY <1>6, <1>7, MergedRows
<1> QED
  BY <1>5, <1>8

LEMMA FalconHolds ==
  ASSUME NEW fam, AttentionAssumption, fam = "falcon", NEW drifted, NEW B \in Nat \ {0}, NEW n \in Nat, NEW cache,
         CacheHolds(fam, drifted, B, n, cache), NEW angles, AnglesRight(fam, drifted, n, angles)
  PROVE  BlockHolds(fam, drifted, B, n + Len(angles), AT!FalconBlock(B, cache, angles, n))
<1>1. Merged(fam) /\ fam # "bloom"
  BY DEF Merged
<1>2. PICK past, keys, m, H : /\ past = AT!ExpandStates(B, cache) /\ keys = AT!FalconAttention(B, past, angles, n)
                             /\ m = n + Len(angles) /\ H = AT!Heads
  OBVIOUS
<1>3. m \in Nat /\ H \in Nat \ {0}
  BY <1>2, HeadsTyped DEF AnglesRight
<1>4. Spread(fam, drifted, B, n, past)
  BY <1>1, <1>2, ExpandSpreads
<1>5. Spread(fam, drifted, B, m, keys)
  BY <1>2, <1>4, FalconSpreads
<1>6. CacheHolds(fam, drifted, B, m, AT!CollapseStates(B, keys))
  BY <1>1, <1>3, <1>5, CollapseHolds
<1>7. PICK given : given = [bh \in Pairs(B, H) |-> keys[bh[1] * H + bh[2]]]
  OBVIOUS
<1>8. HeadsGiven(fam, drifted, B, m, given)
  <2>1. SUFFICES ASSUME NEW b \in 0 .. B - 1, NEW h \in 0 .. H - 1
                 PROVE  KeysOf(fam, drifted, b, h \div Groups, m, given[<<b, h>>])
    BY <1>1, <1>2, <1>7 DEF HeadsGiven
  <2>2. PICK r : r = b * H + h
    OBVIOUS
  <2>3. r \in 0 .. B * H - 1 /\ r \div H = b /\ r % H = h
    BY <2>2, <1>3, PairIndexed
  <2>4. KeysOf(fam, drifted, r \div H, (r % H) \div Groups, m, keys[r])
    BY <2>3, <1>2, <1>5 DEF Spread
  <2>5. given[<<b, h>>] = keys[r]
    BY <2>2, <1>7 DEF Pairs
  <2> QED
    BY <2>3, <2>4, <2>5
<1>9. AT!FalconBlock(B, cache, angles, n) = [cache |-> AT!CollapseStates(B, keys), keys |-> given]
  BY <1>2, <1>7 DEF AT!FalconBlock, AT!ByHead, Pairs
<1> QED
  BY <1>2, <1>6, <1>8, <1>9 DEF BlockHolds

-----------------------------------------------------------------------------
\* Qwen3-MoE: the tokens of a call in chunks, one after the other, each behind the cache of the last.

PartOf(angles, c) ==
  SubSeq(angles, (c - 1) * ChunkLength + 1, IF c * ChunkLength < Len(angles) THEN c * ChunkLength ELSE Len(angles))

ChunkAfter(past, angles, n, c) == AT!LlamaAttention(past, PartOf(angles, c), n + (c - 1) * ChunkLength)

ChunkGraph(cache, angles, n, last, g) ==
  g = [c \in 0 .. last |-> IF c = 0 THEN cache ELSE ChunkAfter(g[c - 1], angles, n, c)]

LEMMA ChunkGraphExists ==
  ASSUME NEW cache, NEW angles, NEW n, NEW last \in Nat PROVE \E g : ChunkGraph(cache, angles, n, last, g)
<1>1. PICK bad : bad = {m \in Nat : ~\E g : ChunkGraph(cache, angles, n, m, g)}
  OBVIOUS
<1>2. SUFFICES ASSUME bad # {} PROVE FALSE
  BY <1>1
<1>3. PICK m \in bad : \A k \in bad : ~(k < m)
  BY <1>1, <1>2, LeastNumber
<1>4. m \in Nat
  BY <1>1
<1>5. CASE m = 0
  <2>1. PICK g : g = [k \in 0 .. 0 |-> cache]
    OBVIOUS
  <2>2. g = [k \in 0 .. 0 |-> IF k = 0 THEN cache ELSE ChunkAfter(g[k - 1], angles, n, k)]
    BY <2>1
  <2>3. ChunkGraph(cache, angles, n, 0, g)
    BY <2>2 DEF ChunkGraph
  <2> QED
    BY <2>3, <1>1, <1>5
<1>6. CASE m # 0
  <2>1. m - 1 \in Nat /\ m - 1 \notin bad
    BY <1>3, <1>4, <1>6
  <2>2. PICK g : ChunkGraph(cache, angles, n, m - 1, g)
    BY <2>1, <1>1
  <2>3. PICK v : v = ChunkAfter(g[m - 1], angles, n, m)
    OBVIOUS
  <2>4. PICK h : h = [k \in 0 .. m |-> IF k = m THEN v ELSE g[k]]
    OBVIOUS
  <2>5. ASSUME NEW k \in 0 .. m
        PROVE  h[k] = IF k = 0 THEN cache ELSE ChunkAfter(h[k - 1], angles, n, k)
    <3>1. CASE k = m
      <4>1. k # 0 /\ k - 1 \in 0 .. m /\ k - 1 # m
        BY <3>1, <1>4, <1>6
      <4>2. h[k - 1] = g[m - 1]
        BY <4>1, <2>4, <3>1
      <4> QED
        BY <3>1, <4>1, <4>2, <2>3, <2>4
    <3>2. CASE k # m
      <4>1. k \in 0 .. m - 1 /\ (k # 0 => k - 1 \in 0 .. m /\ k - 1 # m)
        BY <3>2, <1>4
      <4>2. g[k] = IF k = 0 THEN cache ELSE ChunkAfter(g[k - 1], angles, n, k)
        BY <4>1, <2>2 DEF ChunkGraph
      <4>3. h[k] = g[k] /\ (k # 0 => h[k - 1] = g[k - 1])
        BY <4>1, <3>2, <2>4
      <4> QED
        BY <4>2, <4>3
    <3> QED
      BY <3>1, <3>2
  <2>6. ChunkGraph(cache, angles, n, m, h)
    <3>1. h = [k \in 0 .. m |-> h[k]]
      BY <2>4
    <3> QED
      BY <3>1, <2>5 DEF ChunkGraph
  <2> QED
    BY <2>6, <1>1
<1> QED
  BY <1>5, <1>6

LEMMA LengthOfPart ==
  ASSUME NEW t \in Seq(Int), NEW a \in Nat, NEW d \in Nat, a <= d, d <= Len(t)
  PROVE  Len(SubSeq(t, a + 1, d)) = d - a
OBVIOUS

LEMMA PartRight ==
  ASSUME NEW fam, NEW drifted, NEW n \in Nat, NEW angles, AnglesRight(fam, drifted, n, angles),
         NEW m, m = Len(angles),
         NEW a \in 0 .. m, NEW d \in a .. m, NEW part, part = SubSeq(angles, a + 1, d), NEW z, z = n + a
  PROVE  AnglesRight(fam, drifted, z, part)
<1>1. m \in Nat
  BY DEF AnglesRight
<1>2. angles \in Seq(Int) /\ \A i \in 1 .. m : n + i - 1 \in drifted \/ angles[i] = Turn(fam, n + i - 1)
  BY <1>1 DEF AnglesRight
<1>4. part \in Seq(Int) /\ Len(part) = d - a /\ \A i \in 1 .. d - a : part[i] = angles[a + i]
  <2>1. PICK p : p = SubSeq(angles, a + 1, d)
    OBVIOUS
  <2>2. a \in Nat /\ d \in Nat /\ a <= d /\ d <= Len(angles) /\ angles \in Seq(Int)
    BY <1>1, <1>2
  <2>3. p \in Seq(Int) /\ Len(p) = d - a /\ \A i \in 1 .. d - a : p[i] = angles[a + i]
    BY <2>1, <2>2
  <2>4. part = p
    BY <2>1
  <2> QED
    BY <2>3, <2>4
<1>5. ASSUME NEW i \in 1 .. d - a PROVE z + i - 1 \in drifted \/ part[i] = Turn(fam, z + i - 1)
  <2>1. PICK j \in 1 .. m : j = a + i
    BY <1>1
  <2>2. part[i] = angles[j] /\ z + i - 1 = n + j - 1
    BY <2>1, <1>4
  <2> QED
    BY <2>2, <1>2
<1> QED
  BY <1>4, <1>5 DEF AnglesRight

\* One chunk.
LEMMA ChunkGroups ==
  ASSUME NEW fam, AttentionAssumption, NEW drifted, NEW B \in Nat \ {0}, NEW n \in Nat, NEW angles,
         AnglesRight(fam, drifted, n, angles),
         NEW K, K = (Len(angles) + ChunkLength - 1) \div ChunkLength, NEW c \in 1 .. K,
         NEW past, Grouped(fam, drifted, B, n + EndOf(c - 1, ChunkLength, Len(angles)), past)
  PROVE  Grouped(fam, drifted, B, n + EndOf(c, ChunkLength, Len(angles)), ChunkAfter(past, angles, n, c))
<1>1. KVHeads \in Nat /\ ChunkLength \in Nat \ {0}
  BY DEF AttentionAssumption
<1>2. PICK m \in Nat : m = Len(angles)
  BY DEF AnglesRight
<1>3. PICK a, d : a = EndOf(c - 1, ChunkLength, m) /\ d = EndOf(c, ChunkLength, m)
  OBVIOUS
<1>4. a = (c - 1) * ChunkLength /\ a \in 0 .. m /\ d \in a .. m /\ c * ChunkLength \in Int
  <2>1. K = (m + ChunkLength - 1) \div ChunkLength
    BY <1>2
  <2>2. \A k \in 1 .. K : /\ EndOf(k - 1, ChunkLength, m) = (k - 1) * ChunkLength
                         /\ EndOf(k - 1, ChunkLength, m) \in 0 .. m
                         /\ EndOf(k, ChunkLength, m) \in EndOf(k - 1, ChunkLength, m) .. m
                         /\ k * ChunkLength \in Int
    BY <2>1, <1>1, EndsRight
  <2> QED
    BY <2>2, <1>3
<1>5. PICK part : part = SubSeq(angles, a + 1, d)
  OBVIOUS
<1>6. PICK y \in Int : y = c * ChunkLength
  BY <1>4
<1>7. d = IF y <= m THEN y ELSE m
  BY <1>3, <1>6 DEF EndOf
<1>8. d = IF y < m THEN y ELSE m
  BY <1>7
<1>9. part = PartOf(angles, c)
  BY <1>2, <1>4, <1>5, <1>6, <1>8 DEF PartOf
<1>10. PICK z \in Nat : z = n + a
  BY <1>4
<1>11. AnglesRight(fam, drifted, z, part) /\ Len(part) = d - a
  <2>1. a \in 0 .. m /\ d \in a .. m
    BY <1>4
  <2>2. AnglesRight(fam, drifted, z, part)
    BY <2>1, <1>2, <1>5, <1>10, PartRight
  <2>3. angles \in Seq(Int) /\ a \in Nat /\ d \in Nat /\ a <= d /\ d <= Len(angles)
    BY <2>1, <1>2 DEF AnglesRight
  <2>4. Len(part) = d - a
    BY <2>3, <1>5, LengthOfPart
  <2> QED
    BY <2>2, <2>4
<1>12. Grouped(fam, drifted, B, z, past)
  BY <1>2, <1>3, <1>10
<1>13. Grouped(fam, drifted, B, z + Len(part), AT!LlamaAttention(past, part, z))
  BY <1>1, <1>11, <1>12, AttentionGroups
<1>14. z + Len(part) = n + d
  BY <1>4, <1>10, <1>11
<1>15. ChunkAfter(past, angles, n, c) = AT!LlamaAttention(past, part, z)
  BY <1>4, <1>9, <1>10 DEF ChunkAfter
<1> QED
  BY <1>2, <1>3, <1>13, <1>14, <1>15

\* There are no more chunks than tokens.
LEMMA ChunksFew ==
  ASSUME NEW m \in Nat, NEW size \in Nat \ {0}, NEW K, K = (m + size - 1) \div size
  PROVE  K \in 0 .. m
<1>1. K \in Nat /\ K * size <= m + size - 1
  BY ChunksCover
<1>2. SUFFICES ASSUME K >= m + 1 PROVE FALSE
  BY <1>1
<1>3. PICK d \in Nat : d = K - m - 1
  BY <1>1, <1>2
<1>4. K = d + m + 1
  BY <1>1, <1>3
<1>5. (d + m + 1) * size = d * size + m * size + size
  OBVIOUS
<1>6. PICK x, y \in Nat : x = d * size /\ y = m * size
  BY ProductTyped
<1>7. y >= m
  <2>1. y = m * (size - 1) + m
    BY <1>6
  <2>2. m * (size - 1) \in Nat
    <3>1. size - 1 \in Nat
      OBVIOUS
    <3> QED
      BY <3>1, ProductTyped
  <2> QED
    BY <2>1, <2>2
<1> QED
  BY <1>1, <1>4, <1>5, <1>6, <1>7

LEMMA Qwen3MoeHolds ==
  ASSUME NEW fam, AttentionAssumption, fam = "qwen3_moe", NEW drifted, NEW B \in Nat \ {0}, NEW n \in Nat, NEW cache,
         CacheHolds(fam, drifted, B, n, cache), NEW angles, AnglesRight(fam, drifted, n, angles)
  PROVE  BlockHolds(fam, drifted, B, n + Len(angles), AT!Qwen3MoeBlock(B, cache, angles, n))
<1>1. ChunkLength \in Nat \ {0}
  BY DEF AttentionAssumption
<1>2. PICK m \in Nat : m = Len(angles)
  BY DEF AnglesRight
<1>3. PICK K : K = (m + ChunkLength - 1) \div ChunkLength
  OBVIOUS
<1>4. K \in 0 .. m
  BY <1>1, <1>3, ChunksFew
<1>5. PICK g : g = CHOOSE f : ChunkGraph(cache, angles, n, m, f)
  OBVIOUS
<1>6. ChunkGraph(cache, angles, n, m, g)
  BY <1>5, ChunkGraphExists
<1>7. g[0] = cache /\ \A c \in 1 .. m : g[c] = ChunkAfter(g[c - 1], angles, n, c)
  BY <1>6 DEF ChunkGraph
<1>8. EndOf(0, ChunkLength, m) = 0 /\ EndOf(K, ChunkLength, m) = m
  BY <1>1, <1>3, EndsRight
<1>9. Grouped(fam, drifted, B, n, cache)
  BY DEF Grouped, CacheHolds, AT!CacheRows, PairOf, Pairs
<1>10. PICK bad : bad = {c \in 0 .. K : ~Grouped(fam, drifted, B, n + EndOf(c, ChunkLength, m), g[c])}
  OBVIOUS
<1>11. ASSUME bad # {} PROVE FALSE
  <2>1. PICK c \in bad : \A k \in bad : ~(k < c)
    <3>1. bad \subseteq Nat
      BY <1>4, <1>10
    <3> QED
      BY <3>1, <1>11, LeastNumber
  <2>2. c \in 0 .. K
    BY <1>10
  <2>3. CASE c = 0
    <3>1. n + EndOf(c, ChunkLength, m) = n /\ g[c] = cache
      BY <2>3, <1>7, <1>8
    <3> QED
      BY <3>1, <1>9, <1>10
  <2>4. CASE c # 0
    <3>1. c \in 1 .. K /\ c \in 1 .. m /\ c - 1 \in 0 .. K /\ c - 1 < c
      BY <2>2, <2>4, <1>4
    <3>2. c - 1 \notin bad
      BY <2>1, <3>1
    <3>3. Grouped(fam, drifted, B, n + EndOf(c - 1, ChunkLength, m), g[c - 1])
      BY <3>1, <3>2, <1>10
    <3>4. Grouped(fam, drifted, B, n + EndOf(c, ChunkLength, m), ChunkAfter(g[c - 1], angles, n, c))
      BY <3>1, <3>3, <1>2, <1>3, ChunkGroups
    <3>5. g[c] = ChunkAfter(g[c - 1], angles, n, c)
      BY <3>1, <1>7
    <3> QED
      BY <3>4, <3>5, <1>10
  <2> QED
    BY <2>3, <2>4
<1>12. PICK keys : keys = g[K]
  OBVIOUS
<1>13. Grouped(fam, drifted, B, n + m, keys)
  <2>1. K \in 0 .. K /\ K \notin bad
    BY <1>4, <1>11
  <2>2. Grouped(fam, drifted, B, n + EndOf(K, ChunkLength, m), g[K])
    BY <2>1, <1>10
  <2> QED
    BY <2>2, <1>8, <1>12
<1>14. CacheHolds(fam, drifted, B, n + m, keys)
  BY <1>13 DEF Grouped, CacheHolds, AT!CacheRows, PairOf, Pairs
<1>15. HeadsGiven(fam, drifted, B, n + m, AT!RepeatKV(B, keys))
  <2>1. PICK z \in Nat : z = n + m
    OBVIOUS
  <2>2. Grouped(fam, drifted, B, z, keys)
    BY <2>1, <1>13
  <2>3. HeadsGiven(fam, drifted, B, z, AT!RepeatKV(B, keys))
    BY <2>2, RepeatGives
  <2> QED
    BY <2>1, <2>3
<1>16. AT!Qwen3MoeBlock(B, cache, angles, n) = [cache |-> keys, keys |-> AT!RepeatKV(B, keys)]
  BY <1>2, <1>3, <1>5, <1>12 DEF AT!Qwen3MoeBlock, ChunkGraph, ChunkAfter, PartOf
<1> QED
  BY <1>2, <1>14, <1>15, <1>16 DEF BlockHolds

-----------------------------------------------------------------------------
\* The block of any family, and the state of the server's block.

LEMMA BlockRight ==
  ASSUME AttentionAssumption, family \in Families, NEW drifted, NEW B \in Nat \ {0}, NEW n \in Nat, NEW cache,
         CacheHolds(family, drifted, B, n, cache), NEW angles, AnglesRight(family, drifted, n, angles)
  PROVE  BlockHolds(family, drifted, B, n + Len(angles), AT!Block(B, cache, angles, n))
<1>1. family \in {"bloom", "falcon", "llama", "mixtral", "qwen3_moe"}
  BY DEF AttentionAssumption
<1>2. PICK m : m = n + Len(angles)
  OBVIOUS
<1>3. CASE family = "bloom"
  <2>1. AT!Block(B, cache, angles, n) = AT!BloomBlock(B, cache, angles, n)
    BY <1>3 DEF AT!Block
  <2>2. BlockHolds(family, drifted, B, n + Len(angles), AT!BloomBlock(B, cache, angles, n))
    BY <1>3, BloomHolds
  <2> QED
    BY <2>1, <2>2
<1>4. CASE family = "falcon"
  <2>1. AT!Block(B, cache, angles, n) = AT!FalconBlock(B, cache, angles, n)
    BY <1>4 DEF AT!Block
  <2>2. BlockHolds(family, drifted, B, n + Len(angles), AT!FalconBlock(B, cache, angles, n))
    BY <1>4, FalconHolds
  <2> QED
    BY <2>1, <2>2
<1>5. CASE family \in {"llama", "mixtral"}
  <2>1. /\ BlockHolds(family, drifted, B, n + Len(angles), AT!LlamaBlock(B, cache, angles, n))
        /\ AT!MixtralBlock(B, cache, angles, n) = AT!LlamaBlock(B, cache, angles, n)
    BY <1>5, LlamaHolds
  <2>2. \/ AT!Block(B, cache, angles, n) = AT!LlamaBlock(B, cache, angles, n)
        \/ AT!Block(B, cache, angles, n) = AT!MixtralBlock(B, cache, angles, n)
    BY <1>5 DEF AT!Block
  <2> QED
    BY <2>1, <2>2
<1>6. CASE family = "qwen3_moe"
  <2>1. AT!Block(B, cache, angles, n) = AT!Qwen3MoeBlock(B, cache, angles, n)
    BY <1>6 DEF AT!Block
  <2>2. BlockHolds(family, drifted, B, n + Len(angles), AT!Qwen3MoeBlock(B, cache, angles, n))
    BY <1>6, Qwen3MoeHolds
  <2> QED
    BY <2>1, <2>2
<1> QED
  BY <1>1, <1>3, <1>4, <1>5, <1>6

\* The rotary table of Falcon: right but for the positions that drifted.
TableRight(fam, drifted, t) ==
  fam = "falcon" => t \in Seq(Int) /\ \A p \in 1 .. Len(t) : p - 1 \in drifted \/ t[p] = p - 1

LEMMA GrownRight ==
  ASSUME AttentionAssumption, NEW drifted, TableRight("falcon", drifted, table), NEW m \in Nat
  PROVE  TableRight("falcon", drifted, AT!Grown(m)) /\ m <= Len(AT!Grown(m))
<1>1. TableLength \in Nat
  BY DEF AttentionAssumption
<1>2. CASE table = <<>> \/ m > Len(table)
  <2>1. PICK size \in Nat : size = IF table = <<>> /\ m < TableLength THEN TableLength ELSE m
    BY <1>1
  <2>2. size >= m
    BY <2>1, <1>1
  <2>3. PICK t : t = [p \in 1 .. size |-> p - 1]
    OBVIOUS
  <2>4. t \in Seq(Int) /\ Len(t) = size /\ \A p \in 1 .. size : t[p] = p - 1
    <3>1. t \in [1 .. size -> Int]
      BY <2>3
    <3> QED
      BY <2>3, <3>1
  <2>5. AT!Grown(m) = t
    BY <1>2, <2>1, <2>3 DEF AT!Grown
  <2> QED
    BY <2>2, <2>4, <2>5 DEF TableRight
<1>3. CASE ~(table = <<>> \/ m > Len(table))
  <2>1. AT!Grown(m) = table
    BY <1>3 DEF AT!Grown
  <2>2. table \in Seq(Int)
    BY DEF TableRight
  <2>3. m <= Len(table)
    <3>1. PICK k \in Nat : k = Len(table)
      BY <2>2
    <3> QED
      BY <3>1, <1>3
  <2> QED
    BY <2>1, <2>3
<1> QED
  BY <1>2, <1>3

\* The angles of a call.
LEMMA AnglesAre ==
  ASSUME NEW drifted, NEW rows, NEW n \in Nat, NEW k \in Nat,
         family = "falcon" => TableRight("falcon", drifted, rows) /\ n + k <= Len(rows)
  PROVE  AnglesRight(family, drifted, n, AT!Angles(rows, n, k)) /\ Len(AT!Angles(rows, n, k)) = k
<1>1. PICK angles : angles = AT!Angles(rows, n, k)
  OBVIOUS
<1>2. CASE family = "falcon"
  <2>1. rows \in Seq(Int) /\ \A p \in 1 .. Len(rows) : p - 1 \in drifted \/ rows[p] = p - 1
    BY <1>2 DEF TableRight
  <2>2. PICK a, b \in Nat : a = n /\ b = n + k
    OBVIOUS
  <2>3. a <= b /\ b <= Len(rows)
    BY <2>2, <1>2
  <2>4. angles = SubSeq(rows, a + 1, b)
    BY <2>2, <1>1, <1>2 DEF AT!Angles
  <2>5. Len(angles) = b - a
    BY <2>1, <2>3, <2>4, LengthOfPart
  <2>6. angles \in Seq(Int) /\ \A i \in 1 .. b - a : angles[i] = rows[a + i]
    <3>1. PICK t : t = SubSeq(rows, a + 1, b)
      OBVIOUS
    <3>2. t \in Seq(Int) /\ Len(t) = b - a /\ \A i \in 1 .. b - a : t[i] = rows[a + i]
      BY <3>1, <2>1, <2>3
    <3> QED
      BY <3>1, <3>2, <2>4
  <2>7. ASSUME NEW i \in 1 .. k PROVE n + i - 1 \in drifted \/ angles[i] = Turn(family, n + i - 1)
    <3>1. PICK p \in 1 .. Len(rows) : p = n + i
      <4>1. n + i \in 1 .. Len(rows)
        BY <2>1, <2>2, <2>3
      <4> QED
        BY <4>1
    <3>2. angles[i] = rows[p] /\ p - 1 = n + i - 1
      BY <3>1, <2>2, <2>6
    <3>3. Turn(family, n + i - 1) = n + i - 1
      BY <1>2 DEF Turn
    <3> QED
      BY <3>2, <3>3, <2>1
  <2>8. Len(angles) = k
    BY <2>2, <2>5
  <2> QED
    BY <1>1, <2>6, <2>7, <2>8 DEF AnglesRight
<1>3. CASE family # "falcon"
  <2>1. angles = [i \in 1 .. k |-> AT!Angle(n + i - 1)]
    BY <1>1, <1>3 DEF AT!Angles
  <2>2. \A i \in 1 .. k : angles[i] = Turn(family, n + i - 1) /\ angles[i] \in Int
    BY <2>1 DEF AT!Angle, Turn
  <2>3. angles \in Seq(Int) /\ Len(angles) = k
    <3>1. angles \in [1 .. k -> Int]
      BY <2>1, <2>2
    <3> QED
      BY <3>1
  <2> QED
    BY <1>1, <2>2, <2>3 DEF AnglesRight
<1> QED
  BY <1>2, <1>3

\* What replays have made of the table.
Drifted(fam, g) == IF fam = "falcon" /\ g # AT!NoGraph THEN {g.position} ELSE {}

Captured == [batch : Nat \ {0}, position : Nat, aliased : BOOLEAN]
GraphRight(g) == g = AT!NoGraph \/ g \in Captured

CachesRight(fam, drifted, cs) ==
  /\ cs = [s \in Streams |-> cs[s]]
  /\ \A s \in Streams : \E n \in Nat : CacheHolds(fam, drifted, Batch(s), n, cs[s])

OutputRight(fam, drifted, o) ==
  o # AT!NoAnswer =>
    /\ o.session \in Streams /\ o.from \in Nat
    /\ AnglesRight(fam, drifted, o.from, o.rotated)
    /\ HeadsGiven(fam, drifted, Batch(o.session), o.from + Len(o.rotated), o.keys)

AttentionRight ==
  /\ family \in Families
  /\ GraphRight(graph)
  /\ TableRight(family, Drifted(family, graph), table)
  /\ CachesRight(family, Drifted(family, graph), caches)
  /\ OutputRight(family, Drifted(family, graph), output)

LEMMA TableDrifts ==
  ASSUME NEW fam, NEW drifted, NEW more, drifted \subseteq more, NEW t, TableRight(fam, drifted, t)
  PROVE  TableRight(fam, more, t)
BY DEF TableRight

LEMMA AnglesDrift ==
  ASSUME NEW fam, NEW drifted, NEW more, drifted \subseteq more, NEW n, NEW angles,
         AnglesRight(fam, drifted, n, angles)
  PROVE  AnglesRight(fam, more, n, angles)
BY DEF AnglesRight

LEMMA CachesDrift ==
  ASSUME NEW fam, NEW drifted, NEW more, drifted \subseteq more, NEW cs, CachesRight(fam, drifted, cs)
  PROVE  CachesRight(fam, more, cs)
<1>1. SUFFICES ASSUME NEW s \in Streams PROVE \E n \in Nat : CacheHolds(fam, more, Batch(s), n, cs[s])
  BY DEF CachesRight
<1>2. PICK n \in Nat : CacheHolds(fam, drifted, Batch(s), n, cs[s])
  BY DEF CachesRight
<1>3. CacheHolds(fam, more, Batch(s), n, cs[s])
  BY <1>2, KeysDrift DEF CacheHolds
<1> QED
  BY <1>3

LEMMA OutputDrifts ==
  ASSUME NEW fam, NEW drifted, NEW more, drifted \subseteq more, NEW o, OutputRight(fam, drifted, o)
  PROVE  OutputRight(fam, more, o)
<1>1. SUFFICES ASSUME o # AT!NoAnswer PROVE OutputRight(fam, more, o)
  BY DEF OutputRight
<1>2. /\ o.session \in Streams /\ o.from \in Nat
      /\ AnglesRight(fam, drifted, o.from, o.rotated)
      /\ HeadsGiven(fam, drifted, Batch(o.session), o.from + Len(o.rotated), o.keys)
  BY <1>1 DEF OutputRight
<1>3. AnglesRight(fam, more, o.from, o.rotated)
  BY <1>2, AnglesDrift
<1>4. HeadsGiven(fam, more, Batch(o.session), o.from + Len(o.rotated), o.keys)
  BY <1>2, KeysDrift DEF HeadsGiven
<1> QED
  BY <1>2, <1>3, <1>4 DEF OutputRight

LEMMA RowsExist ==
  ASSUME AttentionAssumption, NEW fam, NEW B \in Nat \ {0} PROVE AT!CacheRows(fam, B) # {}
<1>1. KVHeads \in Nat \ {0} /\ AT!Heads \in Nat \ {0}
  BY HeadsTyped DEF AttentionAssumption
<1>2. CASE fam = "bloom"
  <2>1. 0 * AT!Heads + 0 \in 0 .. B * AT!Heads - 1
    BY <1>1, IndexIn
  <2> QED
    BY <2>1, <1>2 DEF AT!CacheRows
<1>3. CASE fam = "qwen3_moe"
  <2>1. <<0, 0>> \in AT!CacheRows(fam, B)
    BY <1>1, <1>3 DEF AT!CacheRows
  <2> QED
    BY <2>1
<1>4. CASE fam # "bloom" /\ fam # "qwen3_moe"
  <2>1. 0 * KVHeads + 0 \in 0 .. B * KVHeads - 1
    BY <1>1, IndexIn
  <2> QED
    BY <2>1, <1>4 DEF AT!CacheRows
<1> QED
  BY <1>2, <1>3, <1>4

LEMMA PrefixOfCache ==
  ASSUME AttentionAssumption, NEW fam, NEW drifted, NEW B \in Nat \ {0}, NEW n \in Nat, NEW cache,
         CacheHolds(fam, drifted, B, n, cache)
  PROVE  AT!Prefix(cache) = n
<1>1. PICK rows : rows = AT!CacheRows(fam, B)
  OBVIOUS
<1>2. rows # {} /\ DOMAIN cache = rows
  BY <1>1, RowsExist DEF CacheHolds
<1>3. PICK r : r = CHOOSE x \in DOMAIN cache : TRUE
  OBVIOUS
<1>4. r \in rows
  BY <1>2, <1>3
<1>5. Len(cache[r]) = n
  BY <1>1, <1>4 DEF CacheHolds, KeysOf
<1> QED
  BY <1>3, <1>5 DEF AT!Prefix

LEMMA CacheStarts ==
  ASSUME NEW fam, NEW drifted, NEW B PROVE CacheHolds(fam, drifted, B, 0, AT!EmptyCache(fam, B))
BY KeysNone DEF CacheHolds, AT!EmptyCache

\* A call answered: the cache goes on and every head is given its keys.
LEMMA ForwardHolds ==
  ASSUME AttentionAssumption, family \in Families, NEW drifted, CachesRight(family, drifted, caches),
         NEW s \in Streams, NEW n \in Nat, CacheHolds(family, drifted, Batch(s), n, caches[s]),
         NEW angles, AnglesRight(family, drifted, n, angles), AT!Forward(s, angles)
  PROVE  CachesRight(family, drifted, caches') /\ OutputRight(family, drifted, output')
<1>1. PICK B \in Nat \ {0} : B = Batch(s)
  BY DEF AttentionAssumption
<1>2. AT!Prefix(caches[s]) = n
  BY <1>1, PrefixOfCache
<1>3. PICK out, m : out = AT!Block(B, caches[s], angles, n) /\ m = n + Len(angles)
  OBVIOUS
<1>4. caches' = [caches EXCEPT ![s] = out.cache]
      /\ output' = [session |-> s, from |-> n, rotated |-> angles, keys |-> out.keys]
  BY <1>1, <1>2, <1>3 DEF AT!Forward
<1>5. BlockHolds(family, drifted, B, m, out)
  BY <1>1, <1>3, BlockRight
<1>6. CacheHolds(family, drifted, B, m, out.cache) /\ HeadsGiven(family, drifted, B, m, out.keys)
  BY <1>5 DEF BlockHolds
<1>7. m \in Nat
  BY <1>3 DEF AnglesRight
<1>8. CachesRight(family, drifted, caches')
  <2>1. caches = [t \in Streams |-> caches[t]]
    BY DEF CachesRight
  <2>2. caches' = [t \in Streams |-> caches'[t]]
    BY <2>1, <1>4
  <2>3. ASSUME NEW t \in Streams PROVE \E k \in Nat : CacheHolds(family, drifted, Batch(t), k, caches'[t])
    <3>1. CASE t = s
      <4>1. caches'[t] = out.cache
        BY <2>1, <3>1, <1>4
      <4>2. CacheHolds(family, drifted, Batch(t), m, caches'[t])
        BY <3>1, <4>1, <1>1, <1>6
      <4> QED
        BY <4>2, <1>7
    <3>2. CASE t # s
      <4>1. caches'[t] = caches[t]
        BY <2>1, <3>2, <1>4
      <4> QED
        BY <4>1 DEF CachesRight
    <3> QED
      BY <3>1, <3>2
  <2> QED
    BY <2>2, <2>3 DEF CachesRight
<1>9. OutputRight(family, drifted, output')
  <2>1. PICK o : o = output'
    OBVIOUS
  <2>2. o.session = s /\ o.from = n /\ o.rotated = angles /\ o.keys = out.keys
    BY <2>1, <1>4
  <2>3. OutputRight(family, drifted, o)
    BY <2>2, <1>1, <1>3, <1>6 DEF OutputRight
  <2> QED
    BY <2>1, <2>3
<1> QED
  BY <1>8, <1>9

-----------------------------------------------------------------------------
\* Steps.

\* What a call reads: the angles of its tokens, from a table that is long enough by then.
Rows(length) == IF family = "falcon" THEN AT!Grown(length) ELSE table

LEMMA RowsRight ==
  ASSUME AttentionAssumption, NEW drifted, TableRight(family, drifted, table), NEW n \in Nat, NEW k \in Nat,
         NEW rows, rows = Rows(n + k)
  PROVE  /\ TableRight(family, drifted, rows)
         /\ AnglesRight(family, drifted, n, AT!Angles(rows, n, k)) /\ Len(AT!Angles(rows, n, k)) = k
<1>1. PICK m \in Nat : m = n + k
  OBVIOUS
<1>2. /\ TableRight(family, drifted, rows)
      /\ family = "falcon" => TableRight("falcon", drifted, rows) /\ n + k <= Len(rows)
  <2>1. CASE family = "falcon"
    <3>1. rows = AT!Grown(m)
      BY <1>1, <2>1 DEF Rows
    <3>2. TableRight("falcon", drifted, table)
      BY <2>1
    <3>3. TableRight("falcon", drifted, AT!Grown(m)) /\ m <= Len(AT!Grown(m))
      BY <3>2, GrownRight
    <3> QED
      BY <2>1, <3>1, <3>3, <1>1
  <2>2. CASE family # "falcon"
    BY <2>2 DEF TableRight
  <2> QED
    BY <2>1, <2>2
<1> QED
  BY <1>2, AnglesAre, ZenonT(40)

\* Reading may find that the captured surface is no longer part of the table, nothing else.
LEMMA ReadingKeeps ==
  ASSUME GraphRight(graph), NEW m, AT!Reading(m)
  PROVE  GraphRight(graph') /\ family' = family /\ Drifted(family, graph') = Drifted(family, graph)
<1>1. PICK g : g = graph'
  OBVIOUS
<1>2. PICK gone \in BOOLEAN : gone = ~AT!Regrown(m)
  OBVIOUS
<1>3. PICK aliased : aliased = (graph.aliased /\ gone)
  OBVIOUS
<1>4. g = [graph EXCEPT !.aliased = aliased] /\ family' = family
  BY <1>1, <1>2, <1>3 DEF AT!Reading
<1>5. CASE graph = AT!NoGraph
  <2>1. aliased = FALSE
    BY <1>3, <1>5 DEF AT!NoGraph
  <2>2. g = AT!NoGraph
    BY <1>4, <1>5, <2>1 DEF AT!NoGraph
  <2> QED
    BY <1>1, <1>4, <1>5, <2>2 DEF GraphRight
<1>6. CASE graph \in Captured
  <2>1. aliased \in BOOLEAN
    BY <1>3, <1>6 DEF Captured
  <2>2. g \in Captured /\ g.position = graph.position
    BY <1>4, <1>6, <2>1 DEF Captured
  <2>3. g # AT!NoGraph /\ graph # AT!NoGraph
    BY <1>6, <2>2 DEF Captured, AT!NoGraph
  <2> QED
    BY <1>1, <1>4, <2>2, <2>3 DEF GraphRight, Drifted
<1> QED
  BY <1>5, <1>6 DEF GraphRight

LEMMA EagerKeeps ==
  ASSUME AttentionAssumption, AttentionRight, NEW s \in Streams, NEW k \in Feeds, AT!Eager(s, k)
  PROVE  AttentionRight'
<1>1. PICK d : d = Drifted(family, graph)
  OBVIOUS
<1>2. PICK n \in Nat : CacheHolds(family, d, Batch(s), n, caches[s])
  BY <1>1 DEF AttentionRight, CachesRight
<1>3. AT!Prefix(caches[s]) = n
  BY <1>2, PrefixOfCache DEF AttentionAssumption
<1>4. k \in Nat
  BY DEF AttentionAssumption
<1>5. PICK rows, angles : rows = Rows(n + k) /\ angles = AT!Angles(rows, n, k)
  OBVIOUS
<1>6. TableRight(family, d, rows) /\ AnglesRight(family, d, n, angles)
  BY <1>1, <1>4, <1>5, RowsRight DEF AttentionRight
<1>7. AT!Forward(s, angles) /\ table' = rows /\ AT!Reading(n + k)
  BY <1>3, <1>5 DEF AT!Eager, Rows
<1>8. CachesRight(family, d, caches') /\ OutputRight(family, d, output')
  BY <1>1, <1>2, <1>6, <1>7, ForwardHolds DEF AttentionRight
<1>9. GraphRight(graph') /\ family' = family /\ Drifted(family, graph') = d
  BY <1>1, <1>7, ReadingKeeps DEF AttentionRight
<1> QED
  BY <1>6, <1>7, <1>8, <1>9 DEF AttentionRight

\* The position of the first one-token call is where replays will write.
LEMMA CaptureKeeps ==
  ASSUME AttentionAssumption, AttentionRight, NEW s \in Streams, AT!Capture(s)
  PROVE  AttentionRight'
<1>1. PICK d, e : d = Drifted(family, graph) /\ e = Drifted(family, graph')
  OBVIOUS
<1>2. d = {} /\ d \subseteq e
  BY <1>1 DEF Drifted, AT!Capture
<1>3. PICK n \in Nat : CacheHolds(family, d, Batch(s), n, caches[s])
  BY <1>1 DEF AttentionRight, CachesRight
<1>4. AT!Prefix(caches[s]) = n
  BY <1>3, PrefixOfCache DEF AttentionAssumption
<1>5. PICK rows, angles : rows = Rows(n + 1) /\ angles = AT!Angles(rows, n, 1)
  OBVIOUS
<1>6. TableRight(family, d, rows) /\ AnglesRight(family, d, n, angles)
  BY <1>1, <1>5, RowsRight DEF AttentionRight
<1>7. /\ AT!Forward(s, angles) /\ table' = rows /\ family' = family
      /\ graph' = [batch |-> Batch(s), position |-> n, aliased |-> family = "falcon"]
  BY <1>4, <1>5 DEF AT!Capture, Rows
<1>8. CachesRight(family, d, caches') /\ OutputRight(family, d, output')
  BY <1>1, <1>3, <1>6, <1>7, ForwardHolds DEF AttentionRight
<1>9. GraphRight(graph')
  BY <1>7 DEF GraphRight, Captured, AttentionAssumption
<1>10. TableRight(family, e, table')
  BY <1>2, <1>6, <1>7, TableDrifts
<1>11. CachesRight(family, e, caches')
  BY <1>2, <1>8, CachesDrift
<1>12. OutputRight(family, e, output')
  BY <1>2, <1>8, OutputDrifts
<1> QED
  BY <1>1, <1>7, <1>9, <1>10, <1>11, <1>12 DEF AttentionRight

\* A replay leaves its own angle at that position.
LEMMA OverwrittenRight ==
  ASSUME GraphRight(graph), NEW rows, TableRight(family, Drifted(family, graph), rows), NEW angle \in Int
  PROVE  TableRight(family, Drifted(family, graph), AT!Overwritten(rows, angle))
<1>1. CASE graph = AT!NoGraph \/ ~graph.aliased
  BY <1>1 DEF AT!Overwritten, AT!NoGraph
<1>2. CASE graph \in Captured /\ graph.aliased
  <2>1. SUFFICES ASSUME family = "falcon"
                 PROVE  TableRight(family, Drifted(family, graph), AT!Overwritten(rows, angle))
    BY DEF TableRight
  <2>2. PICK q \in Nat : q = graph.position
    BY <1>2 DEF Captured
  <2>3. graph # AT!NoGraph
    BY <1>2 DEF Captured, AT!NoGraph
  <2>4. Drifted(family, graph) = {q}
    BY <2>1, <2>2, <2>3 DEF Drifted
  <2>5. rows \in Seq(Int) /\ \A p \in 1 .. Len(rows) : p - 1 \in {q} \/ rows[p] = p - 1
    BY <2>1, <2>4 DEF TableRight
  <2>6. PICK t : t = [rows EXCEPT ![q + 1] = angle]
    OBVIOUS
  <2>7. t \in Seq(Int) /\ Len(t) = Len(rows)
    <3>1. PICK m \in Nat : m = Len(rows)
      BY <2>5
    <3>2. rows \in [1 .. m -> Int]
      BY <2>5, <3>1
    <3>3. t \in [1 .. m -> Int]
      BY <3>2, <2>6
    <3>4. t \in Seq(Int) /\ Len(t) = m
      BY <3>3
    <3> QED
      BY <3>1, <3>4
  <2>8. \A p \in 1 .. Len(rows) : p # q + 1 => t[p] = rows[p]
    BY <2>5, <2>6
  <2>9. ASSUME NEW p \in 1 .. Len(t) PROVE p - 1 \in {q} \/ t[p] = p - 1
    <3>1. p \in 1 .. Len(rows) /\ (p = q + 1 => p - 1 \in {q})
      BY <2>7
    <3> QED
      BY <3>1, <2>5, <2>8
  <2>10. AT!Overwritten(rows, angle) = t
    BY <1>2, <2>2, <2>6 DEF AT!Overwritten
  <2> QED
    BY <2>4, <2>7, <2>9, <2>10 DEF TableRight
<1> QED
  BY <1>1, <1>2 DEF GraphRight

LEMMA ReplayKeeps ==
  ASSUME AttentionAssumption, AttentionRight, NEW s \in Streams, AT!Replay(s)
  PROVE  AttentionRight'
<1>1. PICK d : d = Drifted(family, graph)
  OBVIOUS
<1>2. PICK n \in Nat : CacheHolds(family, d, Batch(s), n, caches[s])
  BY <1>1 DEF AttentionRight, CachesRight
<1>3. AT!Prefix(caches[s]) = n
  BY <1>2, PrefixOfCache DEF AttentionAssumption
<1>4. PICK rows, angles : rows = Rows(n + 1) /\ angles = AT!Angles(rows, n, 1)
  OBVIOUS
<1>5. TableRight(family, d, rows) /\ AnglesRight(family, d, n, angles) /\ Len(angles) = 1
  BY <1>1, <1>4, RowsRight DEF AttentionRight
<1>6. angles[1] \in Int
  BY <1>5 DEF AnglesRight
<1>7. \/ AT!Forward(s, angles)
      \/ output' = AT!NoAnswer /\ UNCHANGED caches
  BY <1>3, <1>4 DEF AT!Replay, Rows
<1>8. CachesRight(family, d, caches') /\ OutputRight(family, d, output')
  <2>1. CASE AT!Forward(s, angles)
    BY <2>1, <1>1, <1>2, <1>5, ForwardHolds DEF AttentionRight
  <2>2. CASE output' = AT!NoAnswer /\ UNCHANGED caches
    BY <2>2, <1>1 DEF AttentionRight, OutputRight
  <2> QED
    BY <2>1, <2>2, <1>7
<1>9. table' = table \/ table' = rows \/ table' = AT!Overwritten(rows, angles[1])
  BY <1>3, <1>4 DEF AT!Replay, Rows
<1>10. TableRight(family, d, table')
  <2>1. TableRight(family, d, AT!Overwritten(rows, angles[1]))
    BY <1>1, <1>5, <1>6, OverwrittenRight DEF AttentionRight
  <2> QED
    BY <2>1, <1>1, <1>5, <1>9 DEF AttentionRight
<1>11. (family' = family /\ graph' = graph) \/ AT!Reading(n + 1)
  BY <1>3 DEF AT!Replay
<1>12. GraphRight(graph') /\ family' = family /\ Drifted(family, graph') = d
  BY <1>1, <1>11, ReadingKeeps DEF AttentionRight
<1> QED
  BY <1>8, <1>10, <1>12 DEF AttentionRight

LEMMA CloseKeeps ==
  ASSUME AttentionAssumption, AttentionRight, NEW s \in Streams, AT!Close(s)
  PROVE  AttentionRight'
<1>1. PICK d : d = Drifted(family, graph)
  OBVIOUS
<1>2. /\ caches' = [caches EXCEPT ![s] = AT!EmptyCache(family, Batch(s))]
      /\ output' = AT!NoAnswer /\ family' = family /\ table' = table /\ graph' = graph
  BY DEF AT!Close
<1>3. caches = [t \in Streams |-> caches[t]]
      /\ \A t \in Streams : \E n \in Nat : CacheHolds(family, d, Batch(t), n, caches[t])
  BY <1>1 DEF AttentionRight, CachesRight
<1>4. ASSUME NEW t \in Streams PROVE \E n \in Nat : CacheHolds(family, d, Batch(t), n, caches'[t])
  <2>1. CASE t = s
    <3>1. caches'[t] = AT!EmptyCache(family, Batch(t))
      BY <2>1, <1>2, <1>3
    <3>2. CacheHolds(family, d, Batch(t), 0, caches'[t])
      BY <3>1, CacheStarts
    <3> QED
      BY <3>2
  <2>2. CASE t # s
    <3>1. caches'[t] = caches[t]
      BY <2>2, <1>2, <1>3
    <3> QED
      BY <3>1, <1>3
  <2> QED
    BY <2>1, <2>2
<1>5. caches' = [t \in Streams |-> caches'[t]]
  BY <1>2, <1>3
<1>6. CachesRight(family, d, caches')
  BY <1>4, <1>5 DEF CachesRight
<1>7. OutputRight(family, d, output')
  BY <1>2 DEF OutputRight
<1> QED
  BY <1>1, <1>2, <1>6, <1>7 DEF AttentionRight

LEMMA AttentionStarts == ASSUME AttentionAssumption, AT!InitAttention PROVE AttentionRight
<1>1. Drifted(family, graph) = {} /\ GraphRight(graph) /\ family \in Families
  BY DEF AT!InitAttention, Drifted, GraphRight
<1>2. TableRight(family, {}, table)
  BY DEF AT!InitAttention, TableRight
<1>3. CachesRight(family, {}, caches)
  BY CacheStarts DEF AT!InitAttention, CachesRight
<1>4. OutputRight(family, {}, output)
  BY DEF AT!InitAttention, OutputRight
<1> QED
  BY <1>1, <1>2, <1>3, <1>4 DEF AttentionRight

LEMMA AttentionMatches == ASSUME AttentionAssumption, AttentionRight PROVE AT!OnlyTheCapturedPositionDrifts
<1>1. PICK d : d = Drifted(family, graph)
  OBVIOUS
<1>2. SUFFICES ASSUME output # AT!NoAnswer PROVE AT!MatchesBut(d)
  BY <1>1 DEF AT!OnlyTheCapturedPositionDrifts, Drifted, AT!MatchesBut
<1>3. PICK s, n, angles, given :
        s = output.session /\ n = output.from /\ angles = output.rotated /\ given = output.keys
  OBVIOUS
<1>4. s \in Streams /\ n \in Nat /\ AnglesRight(family, d, n, angles)
      /\ HeadsGiven(family, d, Batch(s), n + Len(angles), given)
  BY <1>1, <1>2, <1>3 DEF AttentionRight, OutputRight
<1>5. \A p : Turn(family, p) = AT!Angle(p)
  BY DEF Turn, AT!Angle
<1>6. PICK k \in Nat : k = Len(angles)
  BY <1>4 DEF AnglesRight
<1>7. \A i \in 1 .. k : n + i - 1 \in d \/ angles[i] = AT!Angle(n + i - 1)
  BY <1>4, <1>5, <1>6 DEF AnglesRight
<1>8. DOMAIN given = (0 .. (Batch(s) - 1)) \X (0 .. (AT!Heads - 1))
  BY <1>4 DEF HeadsGiven, Pairs
<1>9. ASSUME NEW bh \in DOMAIN given
      PROVE  /\ Len(given[bh]) = n + k
             /\ \A i \in DOMAIN given[bh] :
                  /\ AT!RightKey(given[bh][i], bh[1], bh[2], i - 1)
                  /\ i - 1 \in d \/ given[bh][i].angle = AT!Angle(i - 1)
  <2>1. PICK b \in 0 .. Batch(s) - 1, h \in 0 .. AT!Heads - 1 : bh = <<b, h>>
    BY <1>8
  <2>2. PICK head : head = IF family = "bloom" THEN h ELSE h \div Groups
    OBVIOUS
  <2>3. PICK ks : ks = given[bh]
    OBVIOUS
  <2>4. KeysOf(family, d, b, head, n + k, ks)
    BY <1>4, <1>6, <2>1, <2>2, <2>3 DEF HeadsGiven
  <2>5. Len(ks) = n + k /\ DOMAIN ks = 1 .. n + k
    BY <2>4 DEF KeysOf
  <2>6. ASSUME NEW i \in 1 .. n + k
        PROVE  /\ AT!RightKey(ks[i], b, h, i - 1)
               /\ i - 1 \in d \/ ks[i].angle = AT!Angle(i - 1)
    <3>1. /\ ks[i].row = b /\ ks[i].head = head /\ ks[i].position = i - 1
          /\ i - 1 \in d \/ ks[i].angle = Turn(family, i - 1)
      BY <2>4 DEF KeysOf
    <3> QED
      BY <3>1, <1>5, <2>2 DEF AT!RightKey
  <2> QED
    BY <2>1, <2>3, <2>5, <2>6
<1> QED
  BY <1>3, <1>6, <1>7, <1>8, <1>9 DEF AT!MatchesBut

\* Whatever the sizes of the model, rows and heads never mix, and an answer differs from that of the
\* unoptimized block by the angle of one position at most, in Falcon only.
THEOREM OneAngleDrifts ==
  ASSUME AttentionAssumption PROVE AT!SpecAttention => []AT!OnlyTheCapturedPositionDrifts
<1>1. AT!InitAttention => AttentionRight
  BY AttentionStarts
<1>2. AttentionRight /\ [AT!NextAttention]_AT!attentionVars => AttentionRight'
  <2>1. SUFFICES ASSUME AttentionRight, [AT!NextAttention]_AT!attentionVars PROVE AttentionRight'
    OBVIOUS
  <2>2. CASE AT!NextAttention
    <3>1. PICK s \in Streams :
            \/ \E n \in Feeds : AT!Eager(s, n)
            \/ AT!Capture(s)
            \/ AT!Replay(s)
            \/ AT!Close(s)
      BY <2>2 DEF AT!NextAttention
    <3> QED
      BY <2>1, <3>1, EagerKeeps, CaptureKeeps, ReplayKeeps, CloseKeeps
  <2>3. CASE UNCHANGED AT!attentionVars
    BY <2>1, <2>3 DEF AT!attentionVars, AttentionRight
  <2> QED
    BY <2>1, <2>2, <2>3
<1>3. AttentionRight => AT!OnlyTheCapturedPositionDrifts
  BY AttentionMatches
<1> QED
  BY <1>1, <1>2, <1>3, PTL DEF AT!SpecAttention
==============================================================================
