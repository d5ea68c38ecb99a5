-------------------------- MODULE WorkloadDispatch --------------------------
(***************************************************************************)
(* One queue of prompts run over several chains of servers: the dispatcher *)
(* of examples/workload_dispatch.py with one thread per chain that reads   *)
(* what its worker prints, a main thread that waits for the workers one    *)
(* after the other, and the workers (workload_bench.py --worker) at the    *)
(* other end of two pipes each.                                            *)
(*                                                                         *)
(* A record says that a request is over, whether it was answered, failed   *)
(* or was skipped.  A worker may die at any time: its chain fails, its     *)
(* watchdog ends it, ssh drops, or a signal makes the dispatcher stop all. *)
(***************************************************************************)
EXTENDS Integers, SequencesExt

CONSTANTS
    ChainOrder,     \* the chains, in the order the main thread waits for them
    Prompts,        \* the prompts of the file, in its order
    Datasets,       \* the names of their datasets, sorted
    DatasetOf(_),   \* the dataset of each prompt
    MaxDeaths       \* bound: how many workers die by themselves

VARIABLES
    queue,      \* prompts nobody has taken
    worker,     \* per chain: "free", "waiting", a prompt in progress, or how it ended
    stdin,      \* per chain: the pipe to the worker
    closed,     \* per chain: the dispatcher has closed it
    stdout,     \* per chain: the pipe from the worker
    pump,       \* per chain: the thread that reads it is still there
    inflight,   \* per chain: the prompt handed over and not yet answered, or None
    ids,        \* per chain: the prompts handed over
    done,       \* per chain: the prompts whose record was read (the code keeps their number)
    lost,       \* per chain: what the main thread found in flight when the worker had ended
    reaped,     \* how many chains the main thread has waited for
    report      \* "none", or the exit code of the dispatcher

dispatchVars == <<queue, worker, stdin, closed, stdout, pump, inflight, ids, done, lost, reaped, report>>
pipeVars == <<stdin, closed, stdout>>
bookVars == <<inflight, ids, done, lost>>

Chains == ToSet(ChainOrder)
None == "none"
Ended == {"finished", "died"}

\* The prompts of a dataset, in the order of the file.
Group(prompts, dataset) ==
    LET upTo[i \in 0..Len(prompts)] ==
          IF i = 0 THEN <<>>
          ELSE IF DatasetOf(prompts[i]) = dataset THEN Append(upTo[i - 1], prompts[i])
          ELSE upTo[i - 1]
    IN  upTo[Len(prompts)]

\* One prompt of each dataset that still has one.
Round(prompts, i) ==
    FlattenSeq([d \in DOMAIN Datasets |->
        IF i <= Len(Group(prompts, Datasets[d])) THEN <<Group(prompts, Datasets[d])[i]>> ELSE <<>>])

\* Round-robin over the datasets; a dataset that runs out is skipped.
Interleaved(prompts) == FlattenSeq([i \in DOMAIN prompts |-> Round(prompts, i)])

InitDispatch ==
    /\ queue = Interleaved(Prompts)
    /\ worker = [c \in Chains |-> "free"]
    /\ stdin = [c \in Chains |-> <<>>]
    /\ closed = [c \in Chains |-> FALSE]
    /\ stdout = [c \in Chains |-> <<>>]
    /\ pump = [c \in Chains |-> TRUE]
    /\ inflight = [c \in Chains |-> None]
    /\ ids = [c \in Chains |-> <<>>]
    /\ done = [c \in Chains |-> <<>>]
    /\ lost = [c \in Chains |-> <<>>]
    /\ reaped = 0
    /\ report = "none"

-----------------------------------------------------------------------------
(* The worker.                                                             *)

Prints(c, line) == stdout' = [stdout EXCEPT ![c] = Append(@, line)]
Becomes(c, state) == worker' = [worker EXCEPT ![c] = state]

WorkerReady(c) ==
    /\ worker[c] = "free"
    /\ Prints(c, "WORKER READY")
    /\ Becomes(c, "waiting")
    /\ UNCHANGED <<queue, stdin, closed, pump, bookVars, reaped, report>>

WorkerReads(c) ==
    /\ worker[c] = "waiting"
    /\ IF stdin[c] # <<>>
       THEN /\ Becomes(c, Head(stdin[c]))
            /\ stdin' = [stdin EXCEPT ![c] = Tail(@)]
       ELSE /\ closed[c]
            /\ Becomes(c, "finished")
            /\ UNCHANGED stdin
    /\ UNCHANGED <<queue, closed, stdout, pump, bookVars, reaped, report>>

WorkerRecords(c) ==
    /\ worker[c] \in ToSet(Prompts)
    /\ Prints(c, "REC")
    /\ Becomes(c, "free")
    /\ UNCHANGED <<queue, stdin, closed, pump, bookVars, reaped, report>>

WorkerDies(c) ==
    /\ worker[c] \notin Ended
    /\ Cardinality({d \in Chains : worker[d] = "died"}) < MaxDeaths
    /\ Becomes(c, "died")
    /\ UNCHANGED <<queue, pipeVars, pump, bookVars, reaped, report>>

\* The signal handler of the dispatcher.
Stop ==
    /\ report = "none"
    /\ worker' = [c \in Chains |-> IF worker[c] \in Ended THEN worker[c] ELSE "died"]
    /\ worker' # worker
    /\ UNCHANGED <<queue, pipeVars, pump, bookVars, reaped, report>>

-----------------------------------------------------------------------------
(* The thread that reads the output of a chain.                            *)

Hand(c, prompt) ==
    /\ stdin' = [stdin EXCEPT ![c] = Append(@, prompt)]
    /\ inflight' = [inflight EXCEPT ![c] = prompt]
    /\ ids' = [ids EXCEPT ![c] = Append(@, prompt)]

\* Mutant of HandNext: a prompt that cannot be written is not put back.
HandNextDropping(c) ==
    IF queue = <<>>
    THEN closed' = [closed EXCEPT ![c] = TRUE] /\ UNCHANGED <<queue, stdin, inflight, ids>>
    ELSE /\ queue' = Tail(queue)
         /\ IF worker[c] \in Ended THEN UNCHANGED <<stdin, inflight, ids>> ELSE Hand(c, Head(queue))
         /\ UNCHANGED closed

\* Mutant of HandNext: the pipe stays open when there is nothing left.
HandNextOpen(c) ==
    /\ IF queue = <<>> \/ worker[c] \in Ended
       THEN UNCHANGED <<queue, stdin, inflight, ids>>
       ELSE queue' = Tail(queue) /\ Hand(c, Head(queue))
    /\ UNCHANGED closed

\* hand_next, under the lock: nobody reads the pipe of a worker that has ended, and writing to it
\* fails; the prompt is put back in front.
HandNext(c) ==
    IF queue = <<>>
    THEN closed' = [closed EXCEPT ![c] = TRUE] /\ UNCHANGED <<queue, stdin, inflight, ids>>
    ELSE /\ IF worker[c] \in Ended
            THEN UNCHANGED <<queue, stdin, inflight, ids>>
            ELSE queue' = Tail(queue) /\ Hand(c, Head(queue))
         /\ UNCHANGED closed

PumpReady(c) ==
    /\ pump[c] /\ stdout[c] # <<>>
    /\ Head(stdout[c]) = "WORKER READY"
    /\ stdout' = [stdout EXCEPT ![c] = Tail(@)]
    /\ HandNext(c)
    /\ UNCHANGED <<worker, pump, done, lost, reaped, report>>

PumpRecord(c) ==
    /\ pump[c] /\ stdout[c] # <<>>
    /\ Head(stdout[c]) = "REC"
    /\ stdout' = [stdout EXCEPT ![c] = Tail(@)]
    /\ inflight' = [inflight EXCEPT ![c] = None]
    /\ done' = [done EXCEPT ![c] = Append(@, ids[c][Len(ids[c])])]
    /\ UNCHANGED <<queue, worker, stdin, closed, pump, ids, lost, reaped, report>>

PumpEnds(c) ==
    /\ pump[c] /\ stdout[c] = <<>>
    /\ worker[c] \in Ended
    /\ pump' = [pump EXCEPT ![c] = FALSE]
    /\ UNCHANGED <<queue, worker, pipeVars, bookVars, reaped, report>>

-----------------------------------------------------------------------------
(* The main thread.                                                        *)

Reap ==
    /\ reaped < Len(ChainOrder)
    /\ LET c == ChainOrder[reaped + 1]
       IN  /\ worker[c] \in Ended
           /\ IF inflight[c] = None THEN UNCHANGED <<inflight, lost>>
              ELSE /\ lost' = [lost EXCEPT ![c] = Append(@, inflight[c])]
                   /\ inflight' = [inflight EXCEPT ![c] = None]
    /\ reaped' = reaped + 1
    /\ UNCHANGED <<queue, worker, pipeVars, pump, ids, done, report>>

\* join waits 5 seconds for each thread; what the pipes still hold is read by then.
Report ==
    /\ report = "none"
    /\ reaped = Len(ChainOrder)
    /\ \A c \in Chains : ~pump[c]
    /\ report' = IF /\ FoldFunction(LAMBDA d, n : Len(d) + n, 0, done) = Len(Interleaved(Prompts))
                    /\ \A c \in Chains : worker[c] = "finished"
                 THEN "0" ELSE "1"
    /\ UNCHANGED <<queue, worker, pipeVars, pump, bookVars, reaped>>

Pump(c) == PumpReady(c) \/ PumpRecord(c) \/ PumpEnds(c)

NextDispatch ==
    \/ \E c \in Chains : WorkerReady(c) \/ WorkerReads(c) \/ WorkerRecords(c) \/ WorkerDies(c)
    \/ \E c \in Chains : Pump(c)
    \/ Stop \/ Reap \/ Report

\* A request ends, by the watchdog at the latest; processes and threads go on.
FairDispatch ==
    /\ \A c \in Chains : /\ WF_dispatchVars(WorkerReady(c))
                         /\ WF_dispatchVars(WorkerReads(c))
                         /\ WF_dispatchVars(WorkerRecords(c))
                         /\ WF_dispatchVars(Pump(c))
    /\ WF_dispatchVars(Reap)
    /\ WF_dispatchVars(Report)

SpecDispatch == InitDispatch /\ [][NextDispatch]_dispatchVars /\ FairDispatch

-----------------------------------------------------------------------------
\* Properties.

Handed == FlattenSeq([i \in DOMAIN ChainOrder |-> ids[ChainOrder[i]]])
Recorded == FlattenSeq([i \in DOMAIN ChainOrder |-> done[ChainOrder[i]]])
ReportedLost == FlattenSeq([i \in DOMAIN ChainOrder |-> lost[ChainOrder[i]]])

\* "Every prompt runs exactly once, on one chain" (the docstring), whichever chains die and whenever:
\* a prompt waits in the queue or was handed to one chain, never both, never twice and never neither;
\* when the dispatcher reports, every prompt it handed over was recorded or is reported as lost; and it
\* exits with 0 only if each prompt of the file was recorded once and none is called lost.
EveryPromptOnce ==
    /\ LET all == queue \o Handed
       IN  IsInjective(all) /\ ToSet(all) = ToSet(Prompts)
    /\ IsInjective(Recorded) /\ ToSet(Recorded) \subseteq ToSet(Handed)
    /\ report # "none" => ToSet(Handed) = ToSet(Recorded) \union ToSet(ReportedLost)
    /\ report = "0" => ToSet(Recorded) = ToSet(Prompts) /\ ReportedLost = <<>>

\* The dispatcher comes to its report: no worker waits for a prompt that nobody will send, and a
\* chain that died keeps nobody waiting.
DispatchEnds == <>(report # "none")
=============================================================================
