--------------------------- MODULE BlockRequests ---------------------------
(***************************************************************************)
(* The requests a server answers by running a chain of its blocks          *)
(* (src/petals/server/handler.py, server/block_functions.py) and the       *)
(* client calls that wait for them (client/remote_forward_backward.py).    *)
(*                                                                         *)
(* A handler is a coroutine: it runs from one await to the next, each      *)
(* await being a task submitted to a pool of a block.  The tasks of all    *)
(* handlers meet in the Runtime, which runs them one at a time.  A hidden  *)
(* state is the sequence of what was done to the input: prompts added and  *)
(* blocks applied.  A gradient is the sequence of backward passes, each    *)
(* with the input it was taken at.                                         *)
(***************************************************************************)
EXTENDS Naturals, Sequences, FiniteSetsExt, SequencesExt

CONSTANTS
  Requests,       \* the calls a run makes
  Calls,          \* the calls a request may be: see CallType
  Served,         \* the blocks of module_backends
  Adapters,       \* the adapters the server has loaded
  MaxParts        \* the parts of the largest tensor stream

NoAdapter == "none"
\* A call: what is asked of which blocks, with how many prompts, under which
\* adapter, and how many parts its tensors take (a short call takes one).
CallType ==
  [method: {"forward", "backward", "inference"}, first: Nat, last: Nat,
   prompts: Nat, adapter: Adapters \cup {NoAdapter, "unknown"}, parts: 1..MaxParts]

VARIABLES
  inferenceOnly,  \* the server was started with --inference_only
  call,    \* request -> what the client asked for
  client,  \* request -> what its client waits for, "answered" or "failed"
  sent,    \* request -> parts of the request the server has received
  work,    \* request -> the local variables of its handler
  pool,    \* the tasks submitted to the pools and not yet run
  reply    \* request -> the parts of the response the client has received

rpcVars == <<inferenceOnly, call, client, sent, work, pool, reply>>

Blocks(c) == [i \in 1..(c.last - c.first + 1) |-> c.first + i - 1]
Count(c) == c.last - c.first + 1

\* The prompts are one per block, or none.  The clients of this repository send no others.
Fitting(c) == c.prompts \in {0, Count(c)}

\* The blocks a request comes to: zip() ends with the shorter of blocks and prompts.
Reach(c) == IF c.prompts = 0 THEN Count(c) ELSE Min({Count(c), c.prompts})

\* Large inputs of rpc_forward and rpc_backward go as a stream of parts.
Streamed(c) == c.method # "inference" /\ c.parts > 1

\* A short inference step runs all its blocks in one task of the merged pool.
Merged(c) == c.method = "inference" /\ c.parts = 1

Idle == [phase |-> "idle", i |-> 0, hidden |-> <<>>, inputs |-> <<>>, grad |-> <<>>,
         gradPrompts |-> <<>>]

Computing == {"forward", "backward", "inference"}

InitRequests ==
  /\ inferenceOnly \in BOOLEAN
  /\ call \in [Requests -> Calls]
  /\ client = [r \in Requests |-> IF Streamed(call[r]) THEN "opening" ELSE "calling"]
  /\ sent = [r \in Requests |-> 0]
  /\ work = [r \in Requests |-> Idle]
  /\ pool = {}
  /\ reply = [r \in Requests |-> 0]

-----------------------------------------------------------------------------
(* What the blocks compute.                                                *)

WithPrompt(c, b, h) == IF c.prompts # 0 THEN Append(h, <<"prompt", b>>) ELSE h

RunBlock(c, b, h) == Append(h, <<"block", b, c.adapter>>)

\* One call of the merged pool runs every requested block.
RunMerged(c, h) ==
  LET run[i \in 0..Count(c)] ==
        IF i = 0 THEN h
        ELSE RunBlock(c, Blocks(c)[i], WithPrompt(c, Blocks(c)[i], run[i - 1]))
  IN  run[Count(c)]

BackBlock(c, b, input, grad) == Append(grad, <<"back", b, c.adapter, input>>)

-----------------------------------------------------------------------------
(* The handler.  An operator on w, the variables of a handler, gives their *)
(* values at its next await: phase and i name the task it then awaits.     *)

\* The pool that runs the i-th block: a backward pass first runs all blocks but
\* the last one forward, and only then asserts that there are as many prompts.
PoolOf(c, i) ==
  IF c.method # "backward" THEN c.method
  ELSE IF i < Reach(c) THEN "forward" ELSE IF Fitting(c) THEN "backward" ELSE "error"

\* The i-th block is next: its prompt is added to its input, which a
\* backward pass keeps.
Enter(c, w, i) ==
  LET h == WithPrompt(c, Blocks(c)[i], w.hidden)
  IN  [w EXCEPT !.phase = PoolOf(c, i), !.i = i, !.hidden = h,
                !.inputs = IF c.method = "backward" THEN Append(@, h) ELSE @]

\* The gradients of the prompts are collected from the last block to the first.
AfterBackward(c, w) ==
  LET kept == IF c.prompts # 0 THEN [w EXCEPT !.gradPrompts = Append(@, w.grad)] ELSE w
  IN  IF w.i = 1 THEN [kept EXCEPT !.phase = "done"] ELSE [kept EXCEPT !.i = @ - 1]

AfterForward(c, w) ==
  IF w.i = Reach(c) \/ Merged(c) THEN [w EXCEPT !.phase = "done"]
  ELSE Enter(c, w, w.i + 1)

\* An inference step counts its prompts before any block runs.
Begin(c) ==
  IF c.method = "inference" /\ ~ Fitting(c) THEN [Idle EXCEPT !.phase = "error"]
  ELSE IF Merged(c) THEN [Idle EXCEPT !.phase = "inference", !.i = 1] ELSE Enter(c, Idle, 1)

\* The result of the awaited task, in the variables of its handler.
Computed(c, w) ==
  CASE w.phase = "backward" ->
         [w EXCEPT !.grad = BackBlock(c, Blocks(c)[w.i], w.inputs[w.i], @)]
    [] Merged(c) -> [w EXCEPT !.hidden = RunMerged(c, @)]
    [] OTHER -> [w EXCEPT !.hidden = RunBlock(c, Blocks(c)[w.i], @)]

Resumed(c, w) ==
  LET v == Computed(c, w)
  IN  IF w.phase = "backward" THEN AfterBackward(c, v) ELSE AfterForward(c, v)

\* The task a handler awaits.
Awaited(r, w) ==
  IF w.phase \in Computing THEN {[request |-> r, kind |-> w.phase, i |-> w.i]} ELSE {}

\* Lower values go first.
Priority(t) == IF t.kind = "inference" THEN 1 ELSE 2

\* What is checked before any block runs: the mode of the server, the uids of
\* the blocks, the adapter.
Accepted(c) ==
  /\ ~ (inferenceOnly /\ c.method = "backward")
  /\ \A i \in 1..Count(c) : Blocks(c)[i] \in Served
  /\ c.adapter \in Adapters \cup {NoAdapter}

\* Mutant of Response: the prompts' gradients in the order they were computed.
ResponseUnreversed(c, w) ==
  IF c.method = "backward"
  THEN [grads |-> w.grad, prompts |-> w.gradPrompts]
  ELSE [hidden |-> w.hidden]

\* What the response carries once the handler is done.
Response(c, w) ==
  IF c.method = "backward"
  THEN [grads |-> w.grad, prompts |-> Reverse(w.gradPrompts)]
  ELSE [hidden |-> w.hidden]

-----------------------------------------------------------------------------

Waiting(r) == client[r] \in {"opening", "calling", "reading"}

\* The stream of a long call is open: its parts are sent while the client waits for the first of the answer.
Opened(r) ==
  /\ client[r] = "opening" /\ work[r].phase = "idle"
  /\ client' = [client EXCEPT ![r] = "reading"]
  /\ UNCHANGED <<inferenceOnly, call, sent, work, pool, reply>>

\* A part of the request arrives; a unary request has only one.
Arrive(r) ==
  /\ client[r] \in {"calling", "reading"} /\ work[r].phase = "idle" /\ sent[r] < call[r].parts
  /\ sent' = [sent EXCEPT ![r] = IF Streamed(call[r]) THEN @ + 1 ELSE call[r].parts]
  /\ UNCHANGED <<inferenceOnly, call, client, work, pool, reply>>

\* The handler of a stream runs once it is open.
Handled(r) == sent[r] > 0 \/ client[r] = "reading"

\* The request is complete: the handler parses it and submits its first task.
Start(r) ==
  /\ work[r].phase = "idle" /\ sent[r] = call[r].parts
  /\ Accepted(call[r])
  /\ work' = [work EXCEPT ![r] = Begin(call[r])]
  /\ pool' = pool \cup Awaited(r, work'[r])
  /\ UNCHANGED <<inferenceOnly, call, client, sent, reply>>

\* An --inference_only server refuses a backward stream before gathering it.
Refuse(r) ==
  /\ work[r].phase = "idle" /\ Handled(r)
  /\ ~ Accepted(call[r])
  /\ sent[r] = call[r].parts \/ (inferenceOnly /\ call[r].method = "backward")
  /\ work' = [work EXCEPT ![r].phase = "error"]
  /\ UNCHANGED <<inferenceOnly, call, client, sent, pool, reply>>

Awaits(r, t) == t \in Awaited(r, work[r])

FirstInPool(t) == t \in pool /\ \A u \in pool : Priority(t) <= Priority(u)

\* The Runtime runs a task; its handler resumes with the result and submits
\* the next one.  A task whose handler was cancelled is dropped.
RunTask(t) ==
  /\ FirstInPool(t)
  /\ work' = [work EXCEPT ![t.request] = IF Awaits(t.request, t) THEN Resumed(call[t.request], @) ELSE @]
  /\ pool' = (pool \ {t}) \cup (IF Awaits(t.request, t) THEN Awaited(t.request, work'[t.request]) ELSE {})
  /\ UNCHANGED <<inferenceOnly, call, client, sent, reply>>

\* A task raises: the exception ends the handler.
TaskRaises(t) ==
  /\ FirstInPool(t) /\ Awaits(t.request, t)
  /\ pool' = pool \ {t}
  /\ work' = [work EXCEPT ![t.request].phase = "error"]
  /\ UNCHANGED <<inferenceOnly, call, client, sent, reply>>

\* request_timeout of the server, for a step the rest of session_timeout, covers
\* gathering, parsing, running and answering; the task it cuts stays in its pool.
ServerTimeout(r) ==
  /\ Waiting(r) /\ Handled(r) /\ work[r].phase \in Computing \cup {"idle", "done"}
  /\ work' = [work EXCEPT ![r].phase = "error"]
  /\ UNCHANGED <<inferenceOnly, call, client, sent, pool, reply>>

\* The connection is lost and the server answers nothing more.
Lost(r) ==
  /\ Waiting(r) /\ work[r].phase # "gone"
  /\ work' = [work EXCEPT ![r].phase = "gone"]
  /\ UNCHANGED <<inferenceOnly, call, client, sent, pool, reply>>

\* A part of the response arrives; the last one completes the call.
Answer(r) ==
  /\ client[r] \in {"calling", "reading"} /\ work[r].phase = "done"
  /\ reply' = [reply EXCEPT ![r] = IF Streamed(call[r]) THEN @ + 1 ELSE call[r].parts]
  /\ client' = [client EXCEPT ![r] = IF reply'[r] = call[r].parts THEN "answered" ELSE @]
  /\ UNCHANGED <<inferenceOnly, call, sent, work, pool>>

Fails(r) ==
  /\ client' = [client EXCEPT ![r] = "failed"]
  /\ UNCHANGED <<inferenceOnly, call, sent, work, pool, reply>>

ErrorReply(r) == client[r] \in {"calling", "reading"} /\ work[r].phase = "error" /\ Fails(r)

\* connect_timeout covers the opening of a stream only.
ConnectTimeout(r) == client[r] = "opening" /\ Fails(r)

\* request_timeout covers a unary call or a step from end to end.
CallTimeout(r) == client[r] = "calling" /\ Fails(r)

\* On a stream request_timeout is armed anew for every part of the answer, the
\* first of which comes after the whole input was sent and run.
PartTimeout(r) == client[r] = "reading" /\ Fails(r)

NextRequests ==
  \/ \E r \in Requests : \/ Opened(r) \/ Arrive(r) \/ Start(r) \/ Refuse(r) \/ Answer(r) \/ ErrorReply(r)
                         \/ ServerTimeout(r) \/ Lost(r)
                         \/ ConnectTimeout(r) \/ CallTimeout(r) \/ PartTimeout(r)
  \/ \E t \in pool : RunTask(t) \/ TaskRaises(t)

-----------------------------------------------------------------------------
(* What a call promises.                                                   *)

\* The input of the i-th block: every block before it was applied, in order,
\* each after its own prompt.
InputOf(c, i) ==
  LET upTo[k \in 1..Count(c)] ==
        LET before == IF k = 1 THEN <<>>
                      ELSE Append(upTo[k - 1], <<"block", Blocks(c)[k - 1], c.adapter>>)
        IN  IF c.prompts # 0 THEN Append(before, <<"prompt", Blocks(c)[k]>>) ELSE before
  IN  upTo[i]

\* The gradient with respect to the input of the i-th block.
GradOf(c, i) ==
  [k \in 1..(Count(c) - i + 1) |->
     <<"back", Blocks(c)[Count(c) - k + 1], c.adapter, InputOf(c, Count(c) - k + 1)>>]

Expected(c) ==
  IF c.method = "backward"
  THEN [grads |-> GradOf(c, 1),
        prompts |-> IF c.prompts # 0 THEN [i \in 1..Count(c) |-> GradOf(c, i)] ELSE <<>>]
  ELSE [hidden |-> Append(InputOf(c, Reach(c)), <<"block", Blocks(c)[Reach(c)], c.adapter>>)]

(***************************************************************************)
(* A client that gets an answer gets what the blocks it named compute, in  *)
(* order, under its adapter: the hidden states after the last block, or    *)
(* the gradient of its input and one gradient per prompt, prompt i's at    *)
(* position i, each taken at the input its block saw (run_rpc_forward,     *)
(* run_rpc_backward, _MergedInferenceStep).  No answer is cut short, with  *)
(* one exception: a forward call with fewer prompts than blocks is         *)
(* answered by the hidden states after its last prompt                     *)
(* (block_functions.py:63).  Every other call whose prompts do not fit     *)
(* fails.                                                                  *)
(***************************************************************************)
AnswersAreTheWholeChain ==
  \A r \in Requests : client[r] = "answered" =>
    /\ Accepted(call[r])
    /\ Fitting(call[r]) \/ call[r].method = "forward"
    /\ reply[r] = call[r].parts
    /\ Response(call[r], work[r]) = Expected(call[r])
=============================================================================
