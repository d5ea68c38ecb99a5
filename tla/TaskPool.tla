------------------------------ MODULE TaskPool ------------------------------
(***************************************************************************)
(* petals.server.task_pool.PrioritizedTaskPool and the Runtime that reads  *)
(* it.  Connection handlers (processes) submit tasks; a thread of each     *)
(* pool moves them into a priority queue; the Runtime waits until a pool   *)
(* has a token in its pipe, picks the pool that advertises the smallest    *)
(* (priority, time), takes that pool's first task and one token, computes, *)
(* and answers the task's future from a pool of sender threads.            *)
(*                                                                         *)
(* submit_task has no await, so a handler is in one call at a time; other  *)
(* handlers, pool threads and the Runtime interleave between its accesses  *)
(* to shared memory.  The two words of the advertised priority are written *)
(* one after the other and, here, read together.                           *)
(***************************************************************************)
EXTENDS Integers, Sequences, FiniteSets, Functions

CONSTANTS
  Tasks,      \* calls of submit_task
  Pools,      \* the pools of one server
  PoolOf,     \* PoolOf[t]: the pool task t is submitted to
  HandlerOf,  \* HandlerOf[t]: the handler process that submits it
  Kind,       \* Kind[p]: "inference", "forward" or "backward"
  Raising,    \* tasks on which process_func raises
  Prefetch,   \* batches the Runtime loads ahead (prefetch_batches)
  Stop,       \* the None that ends a pool's thread
  NoTask

ASSUME PoolAssumption ==
  /\ IsFiniteSet(Tasks)
  /\ PoolOf \in [Tasks -> Pools]
  /\ Kind \in [Pools -> {"inference", "forward", "backward"}]
  /\ Prefetch \in Nat \ {0}
  /\ Stop \notin Tasks /\ NoTask \notin Tasks

VARIABLES
  stage,       \* stage[t]: progress of the call that submits t
  stamp,       \* time_submitted
  clock,       \* time.monotonic, one tick per task
  submitted,   \* submitted_tasks of each pool
  ordered,     \* _ordered_tasks of each pool
  tokens,      \* messages in the pipe of each pool
  urgency,     \* the advertised pair: _priority, _oldest_undispatched_timestamp
  mover,       \* mover[p]: the thread of pool p runs
  loader,      \* the Runtime's loader: where it is, with which pool and task
  loaded,      \* tasks loaded and not yet processed, in order
  results,     \* tasks with an outcome on their way to the future
  dispatched,  \* _dispatched_tasks of each pool
  answer,      \* what the future of each task holds
  closing      \* ModuleContainer.shutdown: how far it is

submitting == <<stage, stamp, clock>>
pools == <<submitted, ordered, tokens, urgency, mover>>
runtime == <<loader, loaded, results, dispatched, answer>>
vars == <<stage, stamp, clock, submitted, ordered, tokens, urgency, mover,
          loader, loaded, results, dispatched, answer, closing>>

Stages == {"idle", "stamped", "put", "sent", "better", "half", "done", "refused"}

\* Mutant of Prioritize: no kind of task goes first.
PrioritizeAlike(kind) == 2

\* DummyTaskPrioritizer.
Prioritize(kind) == IF kind = "inference" THEN 1 ELSE 2

Infinity == 3                       \* beyond every priority
Never == Cardinality(Tasks) + 1     \* beyond every time

Importance(t) == <<Prioritize(Kind[PoolOf[t]]), stamp[t]>>
Before(u, v) == u[1] < v[1] \/ (u[1] = v[1] /\ u[2] < v[2])

Init ==
  /\ stage = [t \in Tasks |-> "idle"]
  /\ stamp = [t \in Tasks |-> 0]
  /\ clock = 0
  /\ submitted = [p \in Pools |-> <<>>]
  /\ ordered = [p \in Pools |-> {}]
  /\ tokens = [p \in Pools |-> 0]
  /\ urgency = [p \in Pools |-> <<Infinity, Never>>]
  /\ mover = [p \in Pools |-> TRUE]
  /\ loader = [at |-> "select", pool |-> NoTask, task |-> NoTask, next |-> NoTask]
  /\ loaded = <<>>
  /\ results = {}
  /\ dispatched = [p \in Pools |-> {}]
  /\ answer = [t \in Tasks |-> "none"]
  /\ closing = "no"

To(t, s) == stage' = [stage EXCEPT ![t] = s]

-----------------------------------------------------------------------------
\* submit_task, in a handler process.

Busy(t) == \E u \in Tasks : HandlerOf[u] = HandlerOf[t] /\ stage[u] \notin {"idle", "done", "refused"}

Submit(t) ==
  /\ closing = "no" /\ stage[t] = "idle" /\ ~Busy(t)
  /\ clock' = clock + 1
  /\ stamp' = [stamp EXCEPT ![t] = clock + 1]
  /\ To(t, "stamped")
  /\ UNCHANGED <<pools, runtime, closing>>

\* A task of more than max_batch_size tokens is answered at once (its time is
\* never looked at).
Refuse(t) ==
  /\ closing = "no" /\ stage[t] = "idle" /\ ~Busy(t)
  /\ To(t, "refused")
  /\ answer' = [answer EXCEPT ![t] = "refused"]
  /\ UNCHANGED <<stamp, clock, pools, loader, loaded, results, dispatched, closing>>

Put(t) ==
  /\ closing = "no" /\ stage[t] = "stamped"
  /\ submitted' = [submitted EXCEPT ![PoolOf[t]] = Append(@, t)]
  /\ To(t, "put")
  /\ UNCHANGED <<stamp, clock, ordered, tokens, urgency, mover, runtime, closing>>

SendToken(t) ==
  /\ closing = "no" /\ stage[t] = "put"
  /\ tokens' = [tokens EXCEPT ![PoolOf[t]] = @ + 1]
  /\ To(t, "sent")
  /\ UNCHANGED <<stamp, clock, submitted, ordered, urgency, mover, runtime, closing>>

Compare(t) ==
  /\ closing = "no" /\ stage[t] = "sent"
  /\ To(t, IF Before(Importance(t), urgency[PoolOf[t]]) THEN "better" ELSE "done")
  /\ UNCHANGED <<stamp, clock, pools, runtime, closing>>

\* The setter of priority, one word and then the other.
Advertise(t) ==
  /\ closing = "no"
  /\ \/ /\ stage[t] = "better" /\ To(t, "half")
        /\ urgency' = [urgency EXCEPT ![PoolOf[t]][1] = Importance(t)[1]]
     \/ /\ stage[t] = "half" /\ To(t, "done")
        /\ urgency' = [urgency EXCEPT ![PoolOf[t]][2] = Importance(t)[2]]
  /\ UNCHANGED <<stamp, clock, submitted, ordered, tokens, mover, runtime, closing>>

-----------------------------------------------------------------------------
\* The thread of a pool.

\* Mutant of Move: a stopped thread leaves tasks behind.
MoveStopFirst(p) ==
  /\ mover[p] /\ submitted[p] # <<>>
  /\ submitted' = [submitted EXCEPT ![p] = Tail(@)]
  /\ IF Stop \in Range(submitted[p])
       THEN mover' = [mover EXCEPT ![p] = FALSE] /\ UNCHANGED ordered
       ELSE ordered' = [ordered EXCEPT ![p] = @ \cup {Head(submitted[p])}] /\ UNCHANGED mover
  /\ UNCHANGED <<submitting, tokens, urgency, runtime, closing>>

Move(p) ==
  /\ mover[p] /\ submitted[p] # <<>>
  /\ submitted' = [submitted EXCEPT ![p] = Tail(@)]
  /\ IF Head(submitted[p]) = Stop
       THEN mover' = [mover EXCEPT ![p] = FALSE] /\ UNCHANGED ordered
       ELSE ordered' = [ordered EXCEPT ![p] = @ \cup {Head(submitted[p])}] /\ UNCHANGED mover
  /\ UNCHANGED <<submitting, tokens, urgency, runtime, closing>>

-----------------------------------------------------------------------------
\* The Runtime.

Ready == {p \in Pools : tokens[p] > 0}

\* The selector reports pools with a token; the most urgent one is taken.
Select(p) ==
  /\ loader.at = "select" /\ closing # "runtime"
  /\ p \in Ready /\ \A q \in Ready : ~Before(urgency[q], urgency[p])
  /\ loader' = [loader EXCEPT !.at = "get", !.pool = p]
  /\ UNCHANGED <<submitting, pools, loaded, results, dispatched, answer, closing>>

First(p) == CHOOSE t \in ordered[p] : \A u \in ordered[p] : ~Before(Importance(u), Importance(t))

\* Mutant of GetTask: the task stays in the queue.
GetTaskKeeping ==
  /\ loader.at = "get" /\ ordered[loader.pool] # {}
  /\ LET p == loader.pool IN
     /\ dispatched' = [dispatched EXCEPT ![p] = @ \cup {First(p)}]
     /\ loader' = [loader EXCEPT !.at = "recv", !.task = First(p)]
  /\ UNCHANGED <<submitting, submitted, ordered, tokens, urgency, mover, loaded, results, answer, closing>>

\* load_batch_to_runtime blocks until the pool's thread has moved a task.
GetTask ==
  /\ loader.at = "get"
  /\ ordered[loader.pool] # {}
  /\ LET p == loader.pool IN
     /\ ordered' = [ordered EXCEPT ![p] = @ \ {First(p)}]
     /\ dispatched' = [dispatched EXCEPT ![p] = @ \cup {First(p)}]
     /\ loader' = [loader EXCEPT !.at = "recv", !.task = First(p)]
  /\ UNCHANGED <<submitting, submitted, tokens, urgency, mover, loaded, results, answer, closing>>

\* Mutant of ReceiveToken: a token too many.
ReceiveTwoTokens ==
  /\ loader.at = "recv"
  /\ tokens' = [tokens EXCEPT ![loader.pool] = @ - 2]
  /\ loader' = [loader EXCEPT !.at = "hand"]
  /\ UNCHANGED <<submitting, submitted, ordered, urgency, mover, loaded, results, dispatched,
                 answer, closing>>

\* Mutant of ReceiveToken: the pipe is drained.
ReceiveAllTokens ==
  /\ loader.at = "recv"
  /\ tokens' = [tokens EXCEPT ![loader.pool] = 0]
  /\ loader' = [loader EXCEPT !.at = "hand"]
  /\ UNCHANGED <<submitting, submitted, ordered, urgency, mover, loaded, results, dispatched,
                 answer, closing>>

\* One token is taken, then the queue is peeked at.
ReceiveToken ==
  /\ loader.at = "recv"
  /\ LET p == loader.pool IN
     /\ tokens' = [tokens EXCEPT ![p] = @ - 1]
     /\ loader' = IF ordered[p] # {} THEN [loader EXCEPT !.at = "first", !.next = First(p)]
                                     ELSE [loader EXCEPT !.at = "hand"]
  /\ UNCHANGED <<submitting, submitted, ordered, urgency, mover, loaded, results, dispatched,
                 answer, closing>>

\* The priority becomes that of the first task left.
Readvertise ==
  /\ \/ /\ loader.at = "first"
        /\ urgency' = [urgency EXCEPT ![loader.pool][1] = Importance(loader.next)[1]]
        /\ loader' = [loader EXCEPT !.at = "second"]
     \/ /\ loader.at = "second"
        /\ urgency' = [urgency EXCEPT ![loader.pool][2] = Importance(loader.next)[2]]
        /\ loader' = [loader EXCEPT !.at = "hand"]
  /\ UNCHANGED <<submitting, submitted, ordered, tokens, mover, loaded, results, dispatched,
                 answer, closing>>

\* The background generator holds Prefetch batches before it blocks.
HandOver ==
  /\ loader.at = "hand" /\ Len(loaded) < Prefetch
  /\ loaded' = Append(loaded, loader.task)
  /\ loader' = [at |-> "select", pool |-> NoTask, task |-> NoTask, next |-> NoTask]
  /\ UNCHANGED <<submitting, pools, results, dispatched, answer, closing>>

\* process_func returns or raises.
Process ==
  /\ loaded # <<>>
  /\ LET t == Head(loaded) IN results' = results \cup
       {[task |-> t, outcome |-> IF t \in Raising THEN "exception" ELSE "outputs"]}
  /\ loaded' = Tail(loaded)
  /\ UNCHANGED <<submitting, pools, loader, dispatched, answer, closing>>

\* Mutant of Send: a result without a dispatched task is waited for.
SendNothing(r) ==
  /\ r \in results
  /\ results' = results \ {r}
  /\ dispatched' = [dispatched EXCEPT ![PoolOf[r.task]] = @ \ {r.task}]
  /\ answer' = [answer EXCEPT ![r.task] = IF r.outcome = "outputs" THEN "outputs" ELSE @]
  /\ UNCHANGED <<submitting, pools, loader, loaded, closing>>

\* send_outputs_from_runtime, send_exception_from_runtime.
Send(r) ==
  /\ r \in results
  /\ results' = results \ {r}
  /\ dispatched' = [dispatched EXCEPT ![PoolOf[r.task]] = @ \ {r.task}]
  /\ answer' = [answer EXCEPT ![r.task] =
       IF r.task \in dispatched[PoolOf[r.task]] THEN r.outcome ELSE @]
  /\ UNCHANGED <<submitting, pools, loader, loaded, closing>>

-----------------------------------------------------------------------------
\* ModuleContainer.shutdown: handlers stop where they are, then pools, then the
\* Runtime, whose loader leaves at its next select.

StopHandlers ==
  /\ closing = "no" /\ closing' = "handlers"
  /\ UNCHANGED <<submitting, pools, runtime>>

StopPools ==
  /\ closing = "handlers" /\ closing' = "pools"
  /\ submitted' = [p \in Pools |-> Append(submitted[p], Stop)]
  /\ UNCHANGED <<submitting, ordered, tokens, urgency, mover, runtime>>

StopRuntime ==
  /\ closing = "pools" /\ closing' = "runtime"
  /\ UNCHANGED <<submitting, pools, runtime>>

LeaveSelect ==
  /\ closing = "runtime" /\ loader.at = "select"
  /\ loader' = [loader EXCEPT !.at = "off"]
  /\ UNCHANGED <<submitting, pools, loaded, results, dispatched, answer, closing>>

-----------------------------------------------------------------------------
Submission(t) == Put(t) \/ SendToken(t) \/ Compare(t) \/ Advertise(t)

Loader ==
  \/ (\E p \in Pools : Select(p)) \/ GetTask \/ ReceiveToken
  \/ Readvertise \/ HandOver \/ LeaveSelect

Next ==
  \/ \E t \in Tasks : Submit(t) \/ Refuse(t) \/ Submission(t)
  \/ \E p \in Pools : Move(p)
  \/ Loader \/ Process
  \/ \E r \in results : Send(r)
  \/ StopHandlers \/ StopPools \/ StopRuntime

Spec == Init /\ [][Next]_vars

\* Every process and thread runs on, and a shutdown that began goes through.
\* Nobody need submit anything or shut the server down.
Fairness ==
  /\ \A t \in Tasks : WF_vars(Submission(t))
  /\ \A p \in Pools : WF_vars(Move(p))
  /\ WF_vars(Loader) /\ WF_vars(Process)
  /\ \A t \in Tasks : WF_vars(\E r \in results : r.task = t /\ Send(r))
  /\ WF_vars(StopPools \/ StopRuntime)

FairSpec == Spec /\ Fairness

-----------------------------------------------------------------------------
\* Properties.

\* Every variable keeps its type.
TypeOK ==
  /\ stage \in [Tasks -> Stages]
  /\ stamp \in [Tasks -> Nat] /\ clock \in 0 .. Cardinality(Tasks)
  /\ submitted \in [Pools -> Seq(Tasks \cup {Stop})]
  /\ ordered \in [Pools -> SUBSET Tasks]
  /\ tokens \in [Pools -> Nat]
  /\ urgency \in [Pools -> (1 .. Infinity) \X Nat]
  /\ mover \in [Pools -> BOOLEAN]
  /\ loader \in [at : {"select", "get", "recv", "first", "second", "hand", "off"},
                 pool : Pools \cup {NoTask}, task : Tasks \cup {NoTask}, next : Tasks \cup {NoTask}]
  /\ loaded \in Seq(Tasks)
  /\ results \subseteq [task : Tasks, outcome : {"outputs", "exception"}]
  /\ dispatched \in [Pools -> SUBSET Tasks]
  /\ answer \in [Tasks -> {"none", "refused", "outputs", "exception"}]
  /\ closing \in {"no", "handlers", "pools", "runtime"}

\* Tasks of pool p between put and get, and tasks put whose token is not sent.
InQueue(p) == {i \in DOMAIN submitted[p] : submitted[p][i] # Stop}
Unannounced(p) == {t \in Tasks : PoolOf[t] = p /\ stage[t] = "put"}
Holding(p) == IF loader.at = "recv" /\ loader.pool = p THEN 1 ELSE 0

\* The pipe "counts the number of unfinished batches": a token for every task in
\* the two queues whose token has been sent.  The token the Runtime takes may be
\* another task's, the numbers still agree.
TokensCount ==
  \A p \in Pools :
    Cardinality(InQueue(p)) + Cardinality(ordered[p]) + Holding(p)
      = tokens[p] + Cardinality(Unannounced(p))

\* A task that was put is in one place at a time on its way to its answer: none
\* is processed twice and none is dropped.
Places(t) ==
  LET p == PoolOf[t] IN
    <<\E i \in DOMAIN submitted[p] : submitted[p][i] = t,
      t \in ordered[p],
      loader.task = t,
      t \in Range(loaded),
      \E r \in results : r.task = t,
      answer[t] # "none">>
OnePlace ==
  \A t \in Tasks : stage[t] \notin {"idle", "stamped", "refused"} =>
    Cardinality({i \in 1 .. 6 : Places(t)[i]}) = 1

\* What a pool, its token pipe and the Runtime hold together: values of their types, as many tokens as
\* waiting tasks need, and each task in one place.
TasksConsistent == TypeOK /\ TokensCount /\ OnePlace

\* "Inference steps go first since they are more latency-sensitive": the Runtime
\* does not take a forward or backward task while an inference task waits whose
\* submit_task has returned, although pools advertise stale times, tear their
\* updates and overwrite one another's.
InferenceWaits ==
  \E t \in Tasks :
    /\ Kind[PoolOf[t]] = "inference" /\ stage[t] = "done"
    /\ tokens[PoolOf[t]] > 0
    /\ Places(t)[1] \/ Places(t)[2]
InferenceFirst ==
  [][InferenceWaits /\ loader.at = "select" /\ loader'.at = "get"
       => Kind[loader'.pool] = "inference"]_vars

\* Every task that was submitted is answered, with outputs or an exception,
\* unless the server shuts down.
EveryTaskAnswered ==
  \A t \in Tasks : stage[t] = "stamped" ~> answer[t] # "none" \/ closing # "no"

\* A shutdown never hangs on a Runtime that waits for a task nobody will move.
ShutdownEnds == closing = "handlers" ~> loader.at = "off"

=============================================================================
