-------------------------- MODULE SequentialAutograd --------------------------
(***************************************************************************)
(* petals.client.sequential_autograd: the forward and backward passes of   *)
(* the batches of one training step over the routes of a SequenceManager.  *)
(* sequential_forward chains rpc_forward over a route and makes a new one  *)
(* from the block it has reached when a server fails.  sequential_backward *)
(* goes back over the spans of the forward pass; when one fails, it runs   *)
(* sequential_forward over that span again to get inputs and servers for   *)
(* smaller pieces of it.                                                   *)
(*                                                                         *)
(* A tensor is identified with the block whose input it is; the gradient   *)
(* with respect to that input has the same number.  Batches are coroutines *)
(* of one event loop, which make_sequence blocks while it waits.           *)
(***************************************************************************)
EXTENDS SequenceManager, SequencesExt

CONSTANTS
  Batches,     \* batches of one training step
  RetryLimits  \* possible values of config.max_retries; 0 stands for None

AutogradAssumption == RetryLimits \subseteq Nat

VARIABLES
  retries,    \* config.max_retries
  at,         \* at[c]: where the coroutine of batch c is
  block,      \* block_idx of sequential_forward
  goal,       \* end_index
  feed,       \* inputs: what the next server is given
  attempt,    \* attempt_no
  sequences,  \* the rest of the route, or the part of it made so far
  hop,        \* span of the request under way
  done,       \* done_sequences
  inputs,     \* intermediate_inputs
  spans,      \* forward_sequences of sequential_backward
  saved,      \* its intermediate_inputs
  span,       \* the span it is at
  given,      \* inputs of that span
  grad,       \* grad_outputs
  tries       \* its attempt_no

forward == <<block, goal, feed, attempt, sequences, hop, done, inputs>>
backward == <<spans, saved, span, given, grad, tries>>
vars == <<serves, dht, faults, banned, infos, known, thread, got, ready, trigger,
          retries, at, block, goal, feed, attempt, sequences, hop, done, inputs,
          spans, saved, span, given, grad, tries>>

NoSpan == [peer |-> NoPeer, start |-> 0, end |-> 0]

Init ==
  /\ InitManager
  /\ retries \in RetryLimits
  /\ at = [c \in Batches |-> "idle"]
  /\ block = [c \in Batches |-> 0] /\ goal = [c \in Batches |-> NumBlocks]
  /\ feed = [c \in Batches |-> 0] /\ attempt = [c \in Batches |-> 0]
  /\ sequences = [c \in Batches |-> <<>>] /\ hop = [c \in Batches |-> NoSpan]
  /\ done = [c \in Batches |-> <<>>] /\ inputs = [c \in Batches |-> <<>>]
  /\ spans = [c \in Batches |-> <<>>] /\ saved = [c \in Batches |-> <<>>]
  /\ span = [c \in Batches |-> NoSpan] /\ given = [c \in Batches |-> 0]
  /\ grad = [c \in Batches |-> NumBlocks] /\ tries = [c \in Batches |-> 0]

\* A coroutine that is not at an await keeps the loop to itself.
AtAwait == {"idle", "asked", "pausing", "between", "begun", "returned",
            "resting", "finished", "raised"}
CanRun(c) == \A d \in Batches \ {c} : at[d] \in AtAwait

Move(c, from, to) == CanRun(c) /\ at[c] = from /\ at' = [at EXCEPT ![c] = to]

\* Without a limit an attempt only matters as the first or not.
Another(n) == IF retries = 0 THEN 1 ELSE n + 1
Exhausted(n) == n + 1 = retries

\* The forward pass that sequential_backward runs to recover from a failure.
Recovering(c) == tries[c] > 0

\* A server has the blocks of s.
Has(s) == /\ serves[s.peer] # Down
          /\ serves[s.peer].start <= s.start /\ s.end <= serves[s.peer].end

\* The request is answered, or it is not, be it for a fault.
Fails(s) ==
  IF Has(s) THEN faults < MaxFaults /\ faults' = faults + 1 ELSE UNCHANGED faults

-----------------------------------------------------------------------------
\* sequential_forward.

BeginForward(c) ==
  /\ Move(c, "idle", "forward")
  /\ UNCHANGED <<manager, retries, forward, backward>>

\* run_remote_forward on the first span of a route.
Ask(c, route) ==
  /\ hop' = [hop EXCEPT ![c] = Head(route)]
  /\ sequences' = [sequences EXCEPT ![c] = Tail(route)]
  /\ UNCHANGED <<manager, retries, block, goal, feed, attempt, done, inputs, backward>>

\* The route is still good: its next span is asked.
FollowRoute(c) ==
  /\ Move(c, "forward", "asked")
  /\ block[c] < goal[c] /\ sequences[c] # <<>> /\ attempt[c] = 0
  /\ Ask(c, sequences[c])

\* make_sequence, which asks for an update and waits if there is none to use.
NewRoute(c) ==
  /\ at[c] = "forward" /\ block[c] < goal[c] /\ (sequences[c] = <<>> \/ attempt[c] > 0)
  /\ sequences' = [sequences EXCEPT ![c] = <<>>]
  /\ IF ready THEN Move(c, "forward", "planning") /\ UNCHANGED <<ready, trigger>>
              ELSE Move(c, "forward", "waiting") /\ Update
  /\ UNCHANGED <<swarm, faults, banned, infos, known, thread, got, retries,
                 block, goal, feed, attempt, hop, done, inputs, backward>>

Waited(c) ==
  /\ Move(c, "waiting", "planning") /\ ready
  /\ UNCHANGED <<manager, retries, forward, backward>>

\* Where the route made so far leads.
Reached(c) == IF sequences[c] = <<>> THEN block[c] ELSE Last(sequences[c]).end

\* The spans are read without lock_changes, an update may come in between.
PlanHop(c, s) ==
  /\ Move(c, "planning", "planning")
  /\ Reached(c) < goal[c] /\ s \in Candidates(Reached(c))
  /\ sequences' = [sequences EXCEPT ![c] = Append(@, [s EXCEPT !.start = Reached(c)])]
  /\ UNCHANGED <<manager, retries, block, goal, feed, attempt, hop, done, inputs, backward>>

\* sequences[-1].end = min(sequences[-1].end, end_index)
Cut(c) == [sequences[c] EXCEPT ![Len(sequences[c])].end = Min({@, goal[c]})]

Planned(c) ==
  /\ Move(c, "planning", "asked")
  /\ Reached(c) >= goal[c]
  /\ Ask(c, Cut(c))

Answered(c) ==
  /\ Move(c, "asked", "forward")
  /\ Has(hop[c])
  /\ inputs' = [inputs EXCEPT ![c] = Append(@, feed[c])]
  /\ done' = [done EXCEPT ![c] = Append(@, hop[c])]
  /\ feed' = [feed EXCEPT ![c] = hop[c].end]
  /\ block' = [block EXCEPT ![c] = hop[c].end]
  /\ attempt' = [attempt EXCEPT ![c] = 0] /\ hop' = [hop EXCEPT ![c] = NoSpan]
  /\ OnRequestSuccess(hop[c].peer)
  /\ UNCHANGED <<swarm, faults, thread, got, retries, goal, sequences, backward>>

\* The except clause: retry, or raise to whoever runs this pass.
ForwardFails(c, from, p) ==
  /\ OnRequestFailure(p)
  /\ hop' = [hop EXCEPT ![c] = NoSpan]
  /\ IF Exhausted(attempt[c])
       THEN /\ Move(c, from, IF Recovering(c) THEN "failing" ELSE "raised")
            /\ UNCHANGED attempt
       ELSE /\ Move(c, from, "pausing")
            /\ attempt' = [attempt EXCEPT ![c] = Another(@)]
  /\ UNCHANGED <<swarm, thread, got, retries, block, goal, feed, sequences, done, inputs, backward>>

\* No server has the next block.
Missing(c) ==
  /\ at[c] = "planning" /\ Reached(c) < goal[c] /\ Candidates(Reached(c)) = {}
  /\ ForwardFails(c, "planning", NoPeer)
  /\ UNCHANGED faults

Unanswered(c) == at[c] = "asked" /\ Fails(hop[c]) /\ ForwardFails(c, "asked", hop[c].peer)

\* The retry delay is over.
Retry(c) ==
  /\ Move(c, "pausing", "forward")
  /\ UNCHANGED <<manager, retries, forward, backward>>

\* The forward pass returns to its caller.
Return(c) ==
  /\ Move(c, "forward", "between")
  /\ block[c] = goal[c] /\ ~Recovering(c)
  /\ spans' = [spans EXCEPT ![c] = done[c]]
  /\ saved' = [saved EXCEPT ![c] = inputs[c]]
  /\ UNCHANGED <<manager, retries, forward, span, given, grad, tries>>

-----------------------------------------------------------------------------
\* sequential_backward.

\* _gather_forward has returned the outputs of all batches.
BeginBackward ==
  /\ \A c \in Batches : at[c] = "between"
  /\ at' = [c \in Batches |-> "begun"]
  /\ UNCHANGED <<manager, retries, forward, backward>>

EnterBackward(c) ==
  /\ Move(c, "begun", "backward")
  /\ UNCHANGED <<manager, retries, forward, backward>>

\* The last of the spans, and what it was fed.
Pop(c, ss, xs) ==
  /\ spans' = [spans EXCEPT ![c] = Front(ss)] /\ saved' = [saved EXCEPT ![c] = Front(xs)]
  /\ span' = [span EXCEPT ![c] = Last(ss)] /\ given' = [given EXCEPT ![c] = Last(xs)]

NextSpan(c) ==
  /\ Move(c, "backward", "returned")
  /\ spans[c] # <<>>
  /\ Pop(c, spans[c], saved[c])
  /\ tries' = [tries EXCEPT ![c] = 0]
  /\ UNCHANGED <<manager, retries, forward, grad>>

Finish(c) ==
  /\ Move(c, "backward", "finished")
  /\ spans[c] = <<>>
  /\ UNCHANGED <<manager, retries, forward, backward>>

BackwardAnswered(c) ==
  /\ Move(c, "returned", "backward")
  /\ Has(span[c])
  /\ grad' = [grad EXCEPT ![c] = span[c].start]
  /\ OnRequestSuccess(span[c].peer)
  /\ UNCHANGED <<swarm, faults, thread, got, retries, forward, spans, saved, span, given, tries>>

BackwardFails(c, from) ==
  /\ OnRequestFailure(span[c].peer)
  /\ IF Exhausted(tries[c])
       THEN Move(c, from, "raised") /\ UNCHANGED tries
       ELSE Move(c, from, "resting") /\ tries' = [tries EXCEPT ![c] = Another(@)]
  /\ UNCHANGED <<swarm, thread, got, retries, forward, spans, saved, span, given, grad>>

BackwardUnanswered(c) == at[c] = "returned" /\ Fails(span[c]) /\ BackwardFails(c, "returned")

\* The forward pass that was to help has raised.
RecoveryFails(c) == BackwardFails(c, "failing") /\ UNCHANGED faults

\* Mutant of Recover: the pass starts with the tensors of the pass before it.
RecoverWithOldInputs(c) ==
  /\ Move(c, "resting", "forward")
  /\ block' = [block EXCEPT ![c] = span[c].start] /\ goal' = [goal EXCEPT ![c] = span[c].end]
  /\ attempt' = [attempt EXCEPT ![c] = 0] /\ sequences' = [sequences EXCEPT ![c] = <<>>]
  /\ done' = [done EXCEPT ![c] = <<>>] /\ inputs' = [inputs EXCEPT ![c] = <<>>]
  /\ UNCHANGED <<manager, retries, feed, hop, backward>>

\* sequential_forward over the span that failed.
Recover(c) ==
  /\ Move(c, "resting", "forward")
  /\ block' = [block EXCEPT ![c] = span[c].start] /\ goal' = [goal EXCEPT ![c] = span[c].end]
  /\ feed' = [feed EXCEPT ![c] = given[c]]
  /\ attempt' = [attempt EXCEPT ![c] = 0] /\ sequences' = [sequences EXCEPT ![c] = <<>>]
  /\ done' = [done EXCEPT ![c] = <<>>] /\ inputs' = [inputs EXCEPT ![c] = <<>>]
  /\ UNCHANGED <<manager, retries, hop, backward>>

\* Its pieces take the place of the span.
Recovered(c) ==
  /\ Move(c, "forward", "returned")
  /\ block[c] = goal[c] /\ Recovering(c)
  /\ Pop(c, spans[c] \o done[c], saved[c] \o inputs[c])
  /\ UNCHANGED <<manager, retries, forward, grad, tries>>

-----------------------------------------------------------------------------
Forward(c) ==
  \/ FollowRoute(c) \/ NewRoute(c) \/ Waited(c) \/ (\E s \in known : PlanHop(c, s)) \/ Planned(c)
  \/ Answered(c) \/ Missing(c) \/ Unanswered(c) \/ Retry(c) \/ Return(c)

Backward(c) ==
  \/ EnterBackward(c) \/ NextSpan(c) \/ Finish(c) \/ BackwardAnswered(c) \/ BackwardUnanswered(c)
  \/ RecoveryFails(c) \/ Recover(c) \/ Recovered(c)

Around == Thread \/ FetchFails \/ \E p \in Peers : Stop(p) \/ Swarm(p) \/ Unban(p)

Next ==
  \/ Around /\ UNCHANGED <<retries, at, forward, backward>>
  \/ BeginBackward
  \/ \E c \in Batches : BeginForward(c) \/ Forward(c) \/ Backward(c)

Spec == Init /\ [][Next]_vars

\* The update thread, the loop and the servers run on, records and bans run out.
\* Nobody need begin a pass.
Fairness ==
  /\ WF_vars(Thread /\ UNCHANGED <<retries, at, forward, backward>>)
  /\ \A p \in Peers :
       /\ WF_vars(Swarm(p) /\ UNCHANGED <<retries, at, forward, backward>>)
       /\ WF_vars(Unban(p) /\ UNCHANGED <<retries, at, forward, backward>>)
  /\ \A c \in Batches : WF_vars(Forward(c)) /\ WF_vars(Backward(c))

FairSpec == Spec /\ Fairness

-----------------------------------------------------------------------------
\* Properties.

\* Every variable keeps its type.
TypeOK ==
  /\ serves \in [Peers -> Places \cup {Down}]
  /\ dht \subseteq Records /\ got \subseteq Records /\ infos \subseteq Records
  /\ faults \in 0 .. MaxFaults /\ banned \subseteq Peers /\ known \subseteq Spans
  /\ thread \in {"fetch", "filter", "publish", "ping", "wait"}
  /\ ready \in BOOLEAN /\ trigger \in BOOLEAN
  /\ at \in [Batches -> AtAwait \cup
       {"forward", "waiting", "planning", "failing", "backward"}]
  /\ \A c \in Batches :
       /\ block[c] \in 0 .. NumBlocks /\ goal[c] \in 0 .. NumBlocks
       /\ sequences[c] \in Seq(Spans) /\ done[c] \in Seq(Spans) /\ spans[c] \in Seq(Spans)

\* Spans ss, fed with xs, lead from block b to block e without gap or overlap.
Leads(ss, xs, b, e) ==
  /\ Len(ss) = Len(xs)
  /\ \A i \in DOMAIN ss :
       /\ ss[i].start < ss[i].end /\ xs[i] = ss[i].start
       /\ ss[i].start = IF i = 1 THEN b ELSE ss[i - 1].end
  /\ e = IF ss = <<>> THEN b ELSE Last(ss).end

\* However often routes are made anew, a forward pass applies every block once, in
\* order, to the output of the block before; the spans that a backward pass has yet
\* to visit lead to the gradient it holds, each with the tensor it was fed, also
\* after a span was split among other servers.
EveryBlockOnce ==
  \A c \in Batches :
    /\ at[c] # "idle" /\ ~Recovering(c) /\ grad[c] = NumBlocks /\ span[c] = NoSpan =>
         Leads(done[c], inputs[c], 0, block[c]) /\ feed[c] = block[c]
    /\ Recovering(c) /\ at[c] \notin {"returned", "resting", "raised", "backward", "finished"} =>
         Leads(done[c], inputs[c], span[c].start, block[c]) /\ feed[c] = block[c]
    /\ at[c] \in {"returned", "resting"} =>
         Leads(Append(spans[c], span[c]), Append(saved[c], given[c]), 0, grad[c])
    /\ at[c] \in {"between", "begun", "backward", "finished"} => Leads(spans[c], saved[c], 0, grad[c])

\* The lists a training step keeps: of their types, with every block applied once.
StepConsistent == TypeOK /\ EveryBlockOnce

\* Without a limit on retries, a training step ends: no batch waits for ever for the
\* update thread, for a server that is gone or for the batches it shares the loop with.
StepEnds ==
  retries = 0 =>
    \A c \in Batches : at[c] \in {"forward", "begun"} ~> at[c] \in {"between", "finished"}
=============================================================================
