----------------------------- MODULE MemoryCache -----------------------------
(***************************************************************************)
(* petals.server.memory_cache.MemoryCache: the byte budget for attention   *)
(* caches that the connection handlers of one server share.  Handlers are  *)
(* processes, each running one asyncio event loop; every inference session *)
(* ("request") is a coroutine of the loop of its handler.  A session       *)
(* enqueues its size, takes _lock_acquire_memory in an executor thread,    *)
(* compares the shared counter with the maximum, releases the lock, and    *)
(* only then charges the counter, under _lock_metadata.  Buffers are made  *)
(* and dropped by the Runtime process, which learns of both through a pipe *)
(* that it reads in use_cache.                                             *)
(*                                                                         *)
(* Atomicity: an event loop runs one coroutine at a time and switches only *)
(* at an await, so pc values at which a coroutine is between two awaits    *)
(* exclude every other coroutine of the same handler (CanRun).  Steps of   *)
(* different handlers, of executor threads and of the Runtime interleave   *)
(* at every access to shared memory.                                       *)
(***************************************************************************)
EXTENDS Integers, Sequences, FiniteSets, FiniteSetsExt

CONSTANTS
  Handlers,         \* connection handler processes
  Requests,         \* inference sessions, one allocation each
  Owner,            \* Owner[r]: the handler that serves session r
  Devices,          \* devices of this server (tensor parallelism)
  Bytes,            \* Bytes[r][d]: bytes the descriptors of r take on d
  Timeout,          \* Timeout[r]: the client's alloc_timeout, a class of Waits
  MaxAllocTimeout,  \* the server's bound on it, a class of Waits
  MaxSize,          \* max_size_bytes
  HandlesPerAlloc,  \* descriptors in one allocate_cache call
  PipeCap,          \* messages the pipe to the Runtime holds before send blocks
  NoOne             \* no process, no session

Waits == {"zero", "finite", "inf"}

\* The largest per-device share exists because the devices are finitely many.
ASSUME CacheAssumption ==
  /\ Owner \in [Requests -> Handlers]
  /\ NoOne \notin Requests
  /\ Bytes \in [Requests -> [Devices -> Nat]]
  /\ \A r \in Requests : \E d \in Devices :
        \A e \in Devices : Bytes[r][e] <= Bytes[r][d]
  /\ Timeout \in [Requests -> Waits]
  /\ MaxAllocTimeout \in {"finite", "inf"}
  /\ MaxSize \in Nat
  /\ HandlesPerAlloc \in Nat \ {0}
  /\ PipeCap \in Nat \ {0}

VARIABLES
  pc,        \* pc[r]: where the coroutine of r is
  thread,    \* thread[r]: the executor thread r started; outlives a cancelled r
  lock,      \* holder of _lock_acquire_memory
  metadata,  \* holder of _lock_metadata
  current,   \* current_size_bytes
  enqueued,  \* enqueued_size_bytes
  freed,     \* _memory_freed_event
  counter,   \* handle_counter
  handles,   \* handles[r]: the handles returned to r
  pipe,      \* messages from handlers to the Runtime
  tensors,   \* keys of the Runtime's _allocated_tensors
  jobs,      \* sessions with a task waiting in the Runtime's pools
  serving,   \* the session whose use_cache call the Runtime is in
  missing    \* sessions for which use_cache found no tensor

vars == <<pc, thread, lock, metadata, current, enqueued, freed, counter,
          handles, pipe, tensors, jobs, serving, missing>>

PCs == {"idle", "enqueued", "acquire", "acquired", "waiting", "available",
        "passed", "dequeued", "sending", "granted", "stepping", "freeing",
        "deleting", "uncharging", "freed", "closed", "rejected", "failed"}
Threads == {"none", "lock", "test", "wait", "woken"}

\* Coroutine r is between two awaits: its handler's loop runs nothing else.
Running == {"enqueued", "passed", "dequeued", "sending", "freeing", "deleting",
            "uncharging", "freed", "rejected"}

CanRun(r) == \A q \in Requests \ {r} : Owner[q] = Owner[r] => pc[q] \notin Running

\* get_allocation_size: the total on the device that gets the most bytes.
AllocSize(r) == Bytes[r][CHOOSE d \in Devices : \A e \in Devices : Bytes[r][e] <= Bytes[r][d]]

\* timeout = min(timeout, max_alloc_timeout)
Wait(r) == IF Timeout[r] = "inf" THEN MaxAllocTimeout ELSE Timeout[r]

\* Mutant of Full: the comparison is off by one.
FullOffByOne(r) == current + AllocSize(r) > MaxSize + 1

Full(r) == current + AllocSize(r) > MaxSize

Messages == [kind : {"create", "delete"}, handles : SUBSET Int]

Init ==
  /\ pc = [r \in Requests |-> "idle"]
  /\ thread = [r \in Requests |-> "none"]
  /\ lock = NoOne
  /\ metadata = NoOne
  /\ current = 0
  /\ enqueued = 0
  /\ freed = FALSE
  /\ counter = 0
  /\ handles = [r \in Requests |-> {}]
  /\ pipe = <<>>
  /\ tensors = {}
  /\ jobs = {}
  /\ serving = NoOne
  /\ missing = {}

Goto(r, l) == pc' = [pc EXCEPT ![r] = l]
Spawn(r, t) == thread' = [thread EXCEPT ![r] = t]

-----------------------------------------------------------------------------
\* The coroutine of a session that wants memory.

\* allocate_cache up to the first statement of _wait_for_free_memory.
Enqueue(r) ==
  /\ pc[r] = "idle" /\ CanRun(r)
  /\ enqueued' = enqueued + AllocSize(r)
  /\ Goto(r, "enqueued")
  /\ UNCHANGED <<thread, lock, metadata, current, freed, counter, handles,
                 pipe, tensors, jobs, serving, missing>>

\* A session that will not wait leaves at once if the queue ahead of it fills
\* the cache; any other hands the blocking acquire to an executor thread.
Admit(r) ==
  /\ pc[r] = "enqueued"
  /\ IF Wait(r) = "zero" /\ current + enqueued > MaxSize
       THEN Goto(r, "rejected") /\ UNCHANGED thread
       ELSE Goto(r, "acquire") /\ Spawn(r, "lock")
  /\ UNCHANGED <<lock, metadata, current, enqueued, freed, counter, handles,
                 pipe, tensors, jobs, serving, missing>>

\* Mutant of CheckMemory: an immediate refusal leaves the lock taken.
CheckMemoryKeepingLock(r) ==
  /\ pc[r] = "acquired" /\ CanRun(r)
  /\ \/ ~Full(r) /\ Goto(r, "passed") /\ lock' = NoOne /\ UNCHANGED thread
     \/ Full(r) /\ Wait(r) = "zero" /\ Goto(r, "rejected") /\ UNCHANGED <<lock, thread>>
     \/ Full(r) /\ Wait(r) # "zero" /\ Goto(r, "waiting") /\ Spawn(r, "test") /\ UNCHANGED lock
  /\ UNCHANGED <<metadata, current, enqueued, freed, counter, handles,
                 pipe, tensors, jobs, serving, missing>>

\* Mutant of CheckMemory: a session waits for memory outside the lock.
CheckMemoryUnlocked(r) ==
  /\ pc[r] = "acquired" /\ CanRun(r)
  /\ lock' = NoOne
  /\ \/ ~Full(r) /\ Goto(r, "passed") /\ UNCHANGED thread
     \/ Full(r) /\ Goto(r, "waiting") /\ Spawn(r, "test")
  /\ UNCHANGED <<metadata, current, enqueued, freed, counter, handles,
                 pipe, tensors, jobs, serving, missing>>

\* The loop resumes r, which now holds the lock: compare, then pass, fail or wait.
CheckMemory(r) ==
  /\ pc[r] = "acquired" /\ CanRun(r)
  /\ \/ /\ ~Full(r)
        /\ Goto(r, "passed") /\ lock' = NoOne
        /\ UNCHANGED thread
     \/ /\ Full(r) /\ Wait(r) = "zero"
        /\ Goto(r, "rejected") /\ lock' = NoOne
        /\ UNCHANGED thread
     \/ /\ Full(r) /\ Wait(r) # "zero" /\ AllocSize(r) > MaxSize
        /\ Goto(r, "rejected") /\ lock' = NoOne
        /\ UNCHANGED thread
     \/ /\ Full(r) /\ Wait(r) # "zero" /\ AllocSize(r) <= MaxSize
        /\ Goto(r, "waiting") /\ Spawn(r, "test")
        /\ UNCHANGED lock
  /\ UNCHANGED <<metadata, current, enqueued, freed, counter, handles,
                 pipe, tensors, jobs, serving, missing>>

\* The loop resumes r after its thread saw enough memory; r releases the lock.
LeaveLock(r) ==
  /\ pc[r] = "available" /\ CanRun(r)
  /\ Goto(r, "passed")
  /\ lock' = NoOne
  /\ UNCHANGED <<thread, metadata, current, enqueued, freed, counter, handles,
                 pipe, tensors, jobs, serving, missing>>

Dequeue(r) ==
  /\ pc[r] = "passed"
  /\ enqueued' = enqueued - AllocSize(r)
  /\ Goto(r, "dequeued")
  /\ UNCHANGED <<thread, lock, metadata, current, freed, counter, handles,
                 pipe, tensors, jobs, serving, missing>>

\* Mutant of Charge: the handle counter runs the wrong way.
ChargeCountingDown(r) ==
  /\ pc[r] = "dequeued" /\ metadata = NoOne /\ metadata' = r
  /\ handles' = [handles EXCEPT ![r] = counter .. (counter + HandlesPerAlloc - 1)]
  /\ current' = current + AllocSize(r)
  /\ counter' = counter - HandlesPerAlloc
  /\ Goto(r, "sending")
  /\ UNCHANGED <<thread, lock, enqueued, freed, pipe, tensors, jobs, serving, missing>>

\* Mutant of Charge: the handle counter is not advanced.
ChargeReusingHandles(r) ==
  /\ pc[r] = "dequeued" /\ metadata = NoOne /\ metadata' = r
  /\ handles' = [handles EXCEPT ![r] = counter .. (counter + HandlesPerAlloc - 1)]
  /\ current' = current + AllocSize(r)
  /\ Goto(r, "sending")
  /\ UNCHANGED <<thread, lock, enqueued, freed, counter, pipe, tensors, jobs, serving, missing>>

\* _schedule_alloc inside _lock_metadata, up to the send.
Charge(r) ==
  /\ pc[r] = "dequeued"
  /\ metadata = NoOne
  /\ metadata' = r
  /\ handles' = [handles EXCEPT ![r] = counter .. (counter + HandlesPerAlloc - 1)]
  /\ current' = current + AllocSize(r)
  /\ counter' = counter + HandlesPerAlloc
  /\ Goto(r, "sending")
  /\ UNCHANGED <<thread, lock, enqueued, freed, pipe, tensors, jobs, serving, missing>>

\* The blocking send, then the end of the with block: the session has its cache.
SendCreate(r) ==
  /\ pc[r] = "sending"
  /\ Len(pipe) < PipeCap
  /\ pipe' = Append(pipe, [kind |-> "create", handles |-> handles[r]])
  /\ metadata' = NoOne
  /\ Goto(r, "granted")
  /\ UNCHANGED <<thread, lock, current, enqueued, freed, counter, handles,
                 tensors, jobs, serving, missing>>

\* Mutant of Expire: a deadline skips the finally clause.
ExpireForgetting(r) ==
  /\ Wait(r) = "finite" /\ CanRun(r)
  /\ pc[r] \in {"acquire", "waiting"}
  /\ Goto(r, "failed")
  /\ lock' = IF pc[r] = "waiting" THEN NoOne ELSE lock
  /\ UNCHANGED <<thread, metadata, current, enqueued, freed, counter, handles,
                 pipe, tensors, jobs, serving, missing>>

\* async_timeout fires, or the thread reports that its own wait ran out: whatever
\* r awaited is abandoned (its thread may go on), a lock that r entered is left.
\* enter_asynchronously leaves a lock only once the coroutine is inside it: an
\* acquisition that completes for a cancelled coroutine is never released.
Expire(r) ==
  /\ Wait(r) = "finite" /\ CanRun(r)
  /\ \/ /\ pc[r] = "acquire"
        /\ UNCHANGED lock
        /\ \/ Spawn(r, "none")       \* the pool had not started the thread
           \/ UNCHANGED thread       \* it is blocked in acquire and stays there
     \/ /\ pc[r] = "acquired"
        /\ UNCHANGED <<lock, thread>>
     \/ /\ pc[r] = "waiting"
        /\ lock' = NoOne
        /\ \/ thread[r] = "wait" /\ Spawn(r, "none")  \* the thread's own deadline
           \/ UNCHANGED thread
     \/ /\ pc[r] = "available"
        /\ lock' = NoOne
        /\ UNCHANGED thread
  /\ Goto(r, "rejected")
  /\ UNCHANGED <<metadata, current, enqueued, freed, counter, handles,
                 pipe, tensors, jobs, serving, missing>>

\* Mutant of Withdraw: a refused session stays in the queue's size.
WithdrawForgetting(r) ==
  /\ pc[r] = "rejected"
  /\ Goto(r, "failed")
  /\ UNCHANGED <<thread, lock, metadata, current, enqueued, freed, counter, handles,
                 pipe, tensors, jobs, serving, missing>>

\* The finally clause of _wait_for_free_memory; AllocationFailed reaches the
\* caller, and _free returns early because the task has an exception.
Withdraw(r) ==
  /\ pc[r] = "rejected"
  /\ enqueued' = enqueued - AllocSize(r)
  /\ Goto(r, "failed")
  /\ UNCHANGED <<thread, lock, metadata, current, freed, counter, handles,
                 pipe, tensors, jobs, serving, missing>>

-----------------------------------------------------------------------------
\* Executor threads: they run whatever the coroutine that started them does.

ThreadAcquire(r) ==
  /\ thread[r] = "lock"
  /\ lock = NoOne
  /\ lock' = r
  /\ Spawn(r, "none")
  /\ IF pc[r] = "acquire" THEN Goto(r, "acquired") ELSE UNCHANGED pc
  /\ UNCHANGED <<metadata, current, enqueued, freed, counter, handles,
                 pipe, tensors, jobs, serving, missing>>

\* The loop test of _wait_until_available: enough memory ends the wait.
ThreadTests(r) ==
  /\ thread[r] = "test"
  /\ \/ Full(r) /\ Spawn(r, "wait") /\ UNCHANGED pc
     \/ /\ ~Full(r) /\ Spawn(r, "none")
        /\ IF pc[r] = "waiting" THEN Goto(r, "available") ELSE UNCHANGED pc
  /\ UNCHANGED <<lock, metadata, current, enqueued, freed, counter, handles,
                 pipe, tensors, jobs, serving, missing>>

ThreadWakes(r) ==
  /\ thread[r] = "wait"
  /\ freed
  /\ Spawn(r, "woken")
  /\ UNCHANGED <<pc, lock, metadata, current, enqueued, freed, counter, handles,
                 pipe, tensors, jobs, serving, missing>>

\* Mutant of ThreadClears: the thread waits again without another test.
ThreadClearsOnly(r) ==
  /\ thread[r] = "woken"
  /\ freed' = FALSE
  /\ Spawn(r, "wait")
  /\ UNCHANGED <<pc, lock, metadata, current, enqueued, counter, handles,
                 pipe, tensors, jobs, serving, missing>>

ThreadClears(r) ==
  /\ thread[r] = "woken"
  /\ freed' = FALSE
  /\ Spawn(r, "test")
  /\ UNCHANGED <<pc, lock, metadata, current, enqueued, counter, handles,
                 pipe, tensors, jobs, serving, missing>>

\* A thread whose coroutine is gone runs into its own deadline.
ThreadExpires(r) ==
  /\ thread[r] = "wait"
  /\ pc[r] \in {"rejected", "failed"}
  /\ Spawn(r, "none")
  /\ UNCHANGED <<pc, lock, metadata, current, enqueued, freed, counter, handles,
                 pipe, tensors, jobs, serving, missing>>

-----------------------------------------------------------------------------
\* A session that has its cache: inference steps, then _free.

SubmitStep(r) ==
  /\ pc[r] = "granted" /\ CanRun(r)
  /\ jobs' = jobs \cup {r}
  /\ Goto(r, "stepping")
  /\ UNCHANGED <<thread, lock, metadata, current, enqueued, freed, counter,
                 handles, pipe, tensors, serving, missing>>

\* The body of allocate_cache ends: the client is done, gone, or out of time,
\* possibly with a step still in the Runtime's hands.
EndSession(r) ==
  /\ pc[r] \in {"granted", "stepping"} /\ CanRun(r)
  /\ Goto(r, "freeing")
  /\ UNCHANGED <<thread, lock, metadata, current, enqueued, freed, counter,
                 handles, pipe, tensors, jobs, serving, missing>>

EnterFree(r) ==
  /\ pc[r] = "freeing"
  /\ metadata = NoOne
  /\ metadata' = r
  /\ Goto(r, "deleting")
  /\ UNCHANGED <<thread, lock, current, enqueued, freed, counter, handles,
                 pipe, tensors, jobs, serving, missing>>

\* Mutant of SendDelete: the Runtime is not told.
SendDeleteNever(r) ==
  /\ pc[r] = "deleting"
  /\ Goto(r, "uncharging")
  /\ UNCHANGED <<thread, lock, metadata, current, enqueued, freed, counter,
                 handles, pipe, tensors, jobs, serving, missing>>

SendDelete(r) ==
  /\ pc[r] = "deleting"
  /\ Len(pipe) < PipeCap
  /\ pipe' = Append(pipe, [kind |-> "delete", handles |-> handles[r]])
  /\ Goto(r, "uncharging")
  /\ UNCHANGED <<thread, lock, metadata, current, enqueued, freed, counter,
                 handles, tensors, jobs, serving, missing>>

Uncharge(r) ==
  /\ pc[r] = "uncharging"
  /\ current' = current - AllocSize(r)
  /\ metadata' = NoOne
  /\ Goto(r, "freed")
  /\ UNCHANGED <<thread, lock, enqueued, freed, counter, handles,
                 pipe, tensors, jobs, serving, missing>>

SignalFreed(r) ==
  /\ pc[r] = "freed"
  /\ freed' = TRUE
  /\ Goto(r, "closed")
  /\ UNCHANGED <<thread, lock, metadata, current, enqueued, counter, handles,
                 pipe, tensors, jobs, serving, missing>>

-----------------------------------------------------------------------------
\* The Runtime process: one task at a time, each opening with use_cache.

BeginUse(r) ==
  /\ serving = NoOne
  /\ r \in jobs
  /\ serving' = r
  /\ jobs' = jobs \ {r}
  /\ UNCHANGED <<pc, thread, lock, metadata, current, enqueued, freed, counter,
                 handles, pipe, tensors, missing>>

Receive ==
  /\ serving # NoOne
  /\ pipe # <<>>
  /\ tensors' = IF Head(pipe).kind = "create"
                  THEN tensors \cup Head(pipe).handles
                  ELSE tensors \ Head(pipe).handles
  /\ pipe' = Tail(pipe)
  /\ UNCHANGED <<pc, thread, lock, metadata, current, enqueued, freed, counter,
                 handles, jobs, serving, missing>>

\* poll() found nothing: look the handles up; the step's result (or the KeyError)
\* goes back to the coroutine, if it still awaits it.
Lookup(r) ==
  /\ serving = r
  /\ pipe = <<>>
  /\ serving' = NoOne
  /\ missing' = IF handles[r] \subseteq tensors THEN missing ELSE missing \cup {r}
  /\ IF pc[r] = "stepping" THEN Goto(r, "granted") ELSE UNCHANGED pc
  /\ UNCHANGED <<thread, lock, metadata, current, enqueued, freed, counter,
                 handles, pipe, tensors, jobs>>

-----------------------------------------------------------------------------
Coroutine(r) ==
  \/ Admit(r) \/ CheckMemory(r) \/ LeaveLock(r) \/ Dequeue(r)
  \/ Charge(r) \/ SendCreate(r) \/ Withdraw(r)
  \/ EndSession(r) \/ EnterFree(r) \/ SendDelete(r) \/ Uncharge(r) \/ SignalFreed(r)

Thread(r) ==
  \/ ThreadAcquire(r) \/ ThreadTests(r) \/ ThreadWakes(r)
  \/ ThreadClears(r) \/ ThreadExpires(r)

Runtime == Receive \/ \E r \in Requests : BeginUse(r) \/ Lookup(r)

Next ==
  \/ \E r \in Requests : Enqueue(r) \/ SubmitStep(r) \/ Expire(r) \/ Coroutine(r) \/ Thread(r)
  \/ Runtime

Spec == Init /\ [][Next]_vars

\* Event loops, threads and the Runtime keep running, a deadline passes, and
\* session_timeout ends every session.  Sessions need not arrive nor step.
Fairness ==
  /\ \A r \in Requests : WF_vars(Coroutine(r)) /\ WF_vars(Thread(r)) /\ WF_vars(Expire(r))
  /\ WF_vars(Runtime)

FairSpec == Spec /\ Fairness

-----------------------------------------------------------------------------
\* Properties.

\* Sessions whose size is in each of the two shared counters.
Waiting == {r \in Requests : pc[r] \in
  {"enqueued", "acquire", "acquired", "waiting", "available", "passed", "rejected"}}
ChargedAt == {"sending", "granted", "stepping", "freeing", "deleting", "uncharging"}
Charged == {r \in Requests : pc[r] \in ChargedAt}
\* Sessions whose client may still use the cache.
Live == {r \in Requests : pc[r] \in {"sending", "granted", "stepping"}}

TotalSize(S) == MapThenSumSet(AllocSize, S)

\* Every variable keeps its type, whatever order handlers and threads run in.
TypeOK ==
  /\ pc \in [Requests -> PCs]
  /\ thread \in [Requests -> Threads]
  /\ lock \in Requests \cup {NoOne}
  /\ metadata \in Requests \cup {NoOne}
  /\ current \in Int
  /\ enqueued \in Int
  /\ freed \in BOOLEAN
  /\ counter \in Nat
  /\ handles \in [Requests -> SUBSET Int]
  /\ pipe \in Seq(Messages)
  /\ tensors \in SUBSET Int
  /\ jobs \in SUBSET Requests
  /\ serving \in Requests \cup {NoOne}
  /\ missing \in SUBSET Requests

\* The two counters are exactly the sizes of the sessions that own a part of
\* them: no path through _wait_for_free_memory, its failures and its timeouts
\* included, leaks bytes or returns them twice.
Accounting == current = TotalSize(Charged) /\ enqueued = TotalSize(Waiting)

\* "The cache is full" holds of the counter the handlers share: what is charged
\* never exceeds max_size_bytes.
WithinBudget == current <= MaxSize

\* The sessions as the contract of allocate_cache sees them.
StandingAt(l) ==
  CASE l \in ChargedAt -> "holding"
    [] l \in {"freed", "closed"} -> "released"
    [] l \in {"rejected", "failed"} -> "refused"
    [] OTHER -> "asking"
Standing == [r \in Requests |-> StandingAt(pc[r])]

Contract == INSTANCE CacheContract WITH
  Sessions <- Requests, Size <- AllocSize, Budget <- MaxSize,
  used <- current, state <- Standing

\* With one handler process, allocate_cache keeps its contract: whatever threads
\* and deadlines do, memory is granted only while it fits, and returned once.
ImplementsContract == Contract!Spec

\* The Runtime's buffers lag behind the counter, but because a pipe message is
\* sent under the lock that covers the counter they never add up, on any
\* device, to more than one handler process may charge.
BuffersBounded ==
  \A d \in Devices :
    MapThenSumSet(LAMBDA r : Bytes[r][d],
                  {r \in Requests : handles[r] # {} /\ handles[r] \subseteq tensors})
      <= MaxSize

\* Bytes are accounted for: in the counters the handlers share, and on the devices.
BytesAccounted == Accounting /\ BuffersBounded

\* use_cache finds the tensors of every session that has not begun to free them,
\* although creation and deletion arrive through the pipe from several handlers.
LiveFindsTensors == missing \cap Live = {}

\* A thread that waits for memory it could have is about to be told so: the
\* event is set, or the session that freed the memory is about to set it.
NoLostWakeup ==
  \A r \in Requests : thread[r] = "wait" /\ ~Full(r) =>
    freed \/ \E q \in Requests : pc[q] = "freed"

\* allocate_cache's timeout is "maximum time to wait for cache allocation": a
\* session that asked for memory gets it or is refused.
EveryRequestSettles ==
  \A r \in Requests :
    pc[r] = "enqueued" ~> pc[r] \in {"granted", "stepping", "closed", "failed"}
=============================================================================
