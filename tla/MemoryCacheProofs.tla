--------------------------- MODULE MemoryCacheProofs ---------------------------
(***************************************************************************)
(* Theorems about MemoryCache, for every set of handlers and sessions,     *)
(* every size, budget and pipe capacity.                                   *)
(***************************************************************************)
EXTENDS MemoryCache, SumProofs, SequenceTheorems, TLAPS

-----------------------------------------------------------------------------
\* What an allocation asks for is a natural number of bytes.
LEMMA AllocSizeNat == \A r \in Requests : AllocSize(r) \in Nat
<1> SUFFICES ASSUME NEW r \in Requests PROVE AllocSize(r) \in Nat
  OBVIOUS
<1> DEFINE largest == CHOOSE d \in Devices : \A e \in Devices : Bytes[r][e] <= Bytes[r][d]
<1>1. largest \in Devices
  BY CacheAssumption
<1>2. Bytes[r] \in [Devices -> Nat]
  BY CacheAssumption
<1> QED
  BY <1>1, <1>2 DEF AllocSize

LEMMA InitTyped == Init => TypeOK
<1> SUFFICES ASSUME Init PROVE TypeOK
  OBVIOUS
<1> USE DEF Init
<1>1. pc \in [Requests -> PCs] /\ thread \in [Requests -> Threads]
  BY DEF PCs, Threads
<1>2. handles \in [Requests -> SUBSET Int] /\ tensors \in SUBSET Int
  OBVIOUS
<1>3. pipe \in Seq(Messages)
  BY EmptySeq
<1>4. lock \in Requests \cup {NoOne} /\ metadata \in Requests \cup {NoOne}
  OBVIOUS
<1>5. current \in Int /\ enqueued \in Int /\ counter \in Nat
  OBVIOUS
<1>6. freed \in BOOLEAN
  OBVIOUS
<1>7. jobs \in SUBSET Requests /\ serving \in Requests \cup {NoOne} /\ missing \in SUBSET Requests
  OBVIOUS
<1> HIDE DEF Init
<1> QED
  BY <1>1, <1>2, <1>3, <1>4, <1>5, <1>6, <1>7 DEF TypeOK

LEMMA StepTyped == TypeOK /\ [Next]_vars => TypeOK'
<1> USE CacheAssumption
<1> SUFFICES ASSUME TypeOK, [Next]_vars PROVE TypeOK'
  OBVIOUS
<1> USE DEF TypeOK, Goto, Spawn
<1>1. ASSUME NEW r \in Requests, Enqueue(r) PROVE TypeOK'
  BY <1>1, AllocSizeNat DEF Enqueue, PCs
<1>2. ASSUME NEW r \in Requests, Admit(r) PROVE TypeOK'
  BY <1>2 DEF Admit, PCs, Threads
<1>3. ASSUME NEW r \in Requests, CheckMemory(r) PROVE TypeOK'
  BY <1>3 DEF CheckMemory, PCs, Threads
<1>4. ASSUME NEW r \in Requests, LeaveLock(r) PROVE TypeOK'
  BY <1>4 DEF LeaveLock, PCs
<1>5. ASSUME NEW r \in Requests, Dequeue(r) PROVE TypeOK'
  BY <1>5, AllocSizeNat DEF Dequeue, PCs
<1>6. ASSUME NEW r \in Requests, Charge(r) PROVE TypeOK'
  BY <1>6, AllocSizeNat DEF Charge, PCs
<1>7. ASSUME NEW r \in Requests, SendCreate(r) PROVE TypeOK'
  <2>1. [kind |-> "create", handles |-> handles[r]] \in Messages
    BY <1>7 DEF Messages
  <2>2. pipe' \in Seq(Messages)
    BY <1>7, <2>1, AppendProperties DEF SendCreate
  <2> QED
    BY <1>7, <2>2 DEF SendCreate, PCs
<1>8. ASSUME NEW r \in Requests, Withdraw(r) PROVE TypeOK'
  BY <1>8, AllocSizeNat DEF Withdraw, PCs
<1>9. ASSUME NEW r \in Requests, Expire(r) PROVE TypeOK'
  BY <1>9 DEF Expire, PCs, Threads
<1>10. ASSUME NEW r \in Requests, Thread(r) PROVE TypeOK'
  <2>1. CASE ThreadAcquire(r)
    BY <2>1 DEF ThreadAcquire, PCs, Threads
  <2>2. CASE ThreadTests(r)
    BY <2>2 DEF ThreadTests, PCs, Threads
  <2>3. CASE ThreadWakes(r)
    BY <2>3 DEF ThreadWakes, Threads
  <2>4. CASE ThreadClears(r)
    BY <2>4 DEF ThreadClears, Threads
  <2>5. CASE ThreadExpires(r)
    BY <2>5 DEF ThreadExpires, Threads
  <2> QED
    BY <1>10, <2>1, <2>2, <2>3, <2>4, <2>5 DEF Thread
<1>11. ASSUME NEW r \in Requests, SubmitStep(r) PROVE TypeOK'
  BY <1>11 DEF SubmitStep, PCs
<1>12. ASSUME NEW r \in Requests, EndSession(r) PROVE TypeOK'
  BY <1>12 DEF EndSession, PCs
<1>13. ASSUME NEW r \in Requests, EnterFree(r) PROVE TypeOK'
  BY <1>13 DEF EnterFree, PCs
<1>14. ASSUME NEW r \in Requests, SendDelete(r) PROVE TypeOK'
  <2>1. [kind |-> "delete", handles |-> handles[r]] \in Messages
    BY <1>14 DEF Messages
  <2>2. pipe' \in Seq(Messages)
    BY <1>14, <2>1, AppendProperties DEF SendDelete
  <2> QED
    BY <1>14, <2>2 DEF SendDelete, PCs
<1>15. ASSUME NEW r \in Requests, Uncharge(r) PROVE TypeOK'
  BY <1>15, AllocSizeNat DEF Uncharge, PCs
<1>16. ASSUME NEW r \in Requests, SignalFreed(r) PROVE TypeOK'
  BY <1>16 DEF SignalFreed, PCs
<1>17. CASE Receive
  <2>1. pipe' \in Seq(Messages)
    BY <1>17, HeadTailProperties DEF Receive
  <2>2. Head(pipe) \in Messages
    BY <1>17, HeadTailProperties DEF Receive
  <2>3. tensors' \in SUBSET Int
    BY <1>17, <2>2 DEF Receive, Messages
  <2> QED
    BY <1>17, <2>1, <2>3 DEF Receive
<1>18. ASSUME NEW r \in Requests, BeginUse(r) PROVE TypeOK'
  BY <1>18 DEF BeginUse
<1>19. ASSUME NEW r \in Requests, Lookup(r) PROVE TypeOK'
  BY <1>19 DEF Lookup, PCs
<1>20. CASE UNCHANGED vars
  BY <1>20 DEF vars
<1> QED
  BY <1>1, <1>2, <1>3, <1>4, <1>5, <1>6, <1>7, <1>8, <1>9, <1>10, <1>11, <1>12,
     <1>13, <1>14, <1>15, <1>16, <1>17, <1>18, <1>19, <1>20
  DEF Next, Coroutine, Runtime

\* Type correctness: no interleaving of handlers, threads and Runtime takes a
\* variable out of its type.
THEOREM TypeCorrect == Spec => []TypeOK
  BY InitTyped, StepTyped, PTL DEF Spec

-----------------------------------------------------------------------------
(***************************************************************************)
(* One handler process.  Between the comparison and the charge there is no *)
(* await, so the loop of the only handler protects what the lock does not. *)
(***************************************************************************)
OneLoop == \A q, r \in Requests : Owner[q] = Owner[r]

\* Whoever is inside _lock_acquire_memory holds it.
InsideHoldsLock ==
  \A r \in Requests : pc[r] \in {"acquired", "waiting", "available"} => lock = r

\* The loop is in one coroutine at a time.
OneRuns ==
  \A q, r \in Requests : pc[q] \in Running /\ pc[r] \in Running => q = r

\* While the loop is between a successful comparison and its charge, nobody
\* waits for memory: the comparison's author held the lock, and to start a wait
\* takes the loop.
NoWaiterBehindPass ==
  \A q, r \in Requests :
    ~(pc[q] \in {"passed", "dequeued"} /\ pc[r] \in {"waiting", "available"})

\* A comparison that succeeded still holds.
ComparisonStands ==
  \A r \in Requests :
    pc[r] \in {"available", "passed", "dequeued"} => current + AllocSize(r) <= MaxSize

BudgetInv ==
  /\ TypeOK
  /\ InsideHoldsLock
  /\ OneRuns
  /\ NoWaiterBehindPass
  /\ ComparisonStands
  /\ WithinBudget

LEMMA BudgetInvInit == Init => BudgetInv
<1> SUFFICES ASSUME Init PROVE BudgetInv
  OBVIOUS
<1>1. TypeOK
  BY InitTyped
<1>2. WithinBudget
  BY CacheAssumption DEF Init, WithinBudget
<1>3. \A r \in Requests : pc[r] = "idle"
  BY DEF Init
<1> QED
  BY <1>1, <1>2, <1>3 DEF BudgetInv, InsideHoldsLock, OneRuns, NoWaiterBehindPass,
    ComparisonStands, Running

\* What a step has to keep besides the types.
BudgetParts ==
  /\ InsideHoldsLock
  /\ OneRuns
  /\ NoWaiterBehindPass
  /\ ComparisonStands
  /\ WithinBudget

\* A coroutine that moves outside the lock and the comparison disturbs nothing,
\* provided that it takes the loop only when it may.
LEMMA QuietMove ==
  ASSUME OneLoop, BudgetInv, NEW r \in Requests, NEW l,
         Goto(r, l), UNCHANGED <<lock, current>>,
         l \notin {"acquired", "waiting", "available", "passed", "dequeued"},
         l \in Running => CanRun(r) \/ pc[r] \in Running
  PROVE  BudgetParts'
<1> USE DEF BudgetInv, TypeOK, Goto
<1>1. \A q \in Requests : pc'[q] = IF q = r THEN l ELSE pc[q]
  OBVIOUS
<1> HIDE DEF Goto
<1>2. InsideHoldsLock'
  BY <1>1 DEF InsideHoldsLock
<1>3. OneRuns'
  BY <1>1 DEF OneRuns, OneLoop, CanRun
<1>4. NoWaiterBehindPass'
  BY <1>1 DEF NoWaiterBehindPass
<1>5. ComparisonStands' /\ WithinBudget'
  BY <1>1 DEF ComparisonStands, WithinBudget
<1> QED
  BY <1>2, <1>3, <1>4, <1>5 DEF BudgetParts

LEMMA QuietStill ==
  ASSUME BudgetInv, UNCHANGED <<pc, lock, current>>
  PROVE  BudgetParts'
BY DEF BudgetInv, BudgetParts, InsideHoldsLock, OneRuns, NoWaiterBehindPass,
   ComparisonStands, WithinBudget

\* A coroutine that leaves the lock it holds.
LEMMA ReleaseMove ==
  ASSUME OneLoop, BudgetInv, NEW r \in Requests, NEW l \in {"passed", "rejected"},
         CanRun(r), pc[r] \in {"acquired", "waiting", "available"},
         Goto(r, l), lock' = NoOne, UNCHANGED current,
         l = "passed" => current + AllocSize(r) <= MaxSize
  PROVE  BudgetParts'
<1> USE DEF BudgetInv, TypeOK, Goto
<1>1. \A q \in Requests : pc'[q] = IF q = r THEN l ELSE pc[q]
  OBVIOUS
<1> HIDE DEF Goto
<1>2. \A q \in Requests \ {r} : pc[q] \notin {"acquired", "waiting", "available"}
  BY DEF InsideHoldsLock
<1>3. InsideHoldsLock' /\ NoWaiterBehindPass'
  BY <1>1, <1>2 DEF InsideHoldsLock, NoWaiterBehindPass
<1>4. OneRuns'
  BY <1>1 DEF OneRuns, OneLoop, CanRun
<1>5. ComparisonStands' /\ WithinBudget'
  BY <1>1 DEF ComparisonStands, WithinBudget
<1> QED
  BY <1>3, <1>4, <1>5 DEF BudgetParts

LEMMA BudgetInvStep ==
  ASSUME OneLoop, BudgetInv, [Next]_vars
  PROVE  BudgetInv'
<1> USE CacheAssumption, AllocSizeNat
<1> TypeOK
  BY DEF BudgetInv
<1> SUFFICES BudgetParts'
  BY StepTyped DEF BudgetInv, BudgetParts
<1> USE DEF Running
<1>1. ASSUME NEW r \in Requests, Enqueue(r) PROVE BudgetParts'
  BY <1>1, QuietMove DEF Enqueue
<1>2. ASSUME NEW r \in Requests, Admit(r) PROVE BudgetParts'
  BY <1>2, QuietMove DEF Admit
<1>3. ASSUME NEW r \in Requests, CheckMemory(r) PROVE BudgetParts'
  <2> CanRun(r) /\ pc[r] = "acquired" /\ UNCHANGED current
    BY <1>3 DEF CheckMemory
  <2>1. CASE ~Full(r) /\ Goto(r, "passed") /\ lock' = NoOne
    <3>1. current + AllocSize(r) <= MaxSize
      BY <2>1 DEF Full, TypeOK
    <3> QED
      BY <2>1, <3>1, ReleaseMove
  <2>2. CASE Goto(r, "rejected") /\ lock' = NoOne
    BY <2>2, ReleaseMove
  <2>3. CASE Goto(r, "waiting") /\ UNCHANGED lock
    <3>1. \A q \in Requests : pc'[q] = IF q = r THEN "waiting" ELSE pc[q]
      BY <2>3 DEF TypeOK, Goto
    <3>2. \A q \in Requests : pc[q] \notin {"passed", "dequeued"}
      BY DEF CanRun, OneLoop
    <3>3. InsideHoldsLock' /\ NoWaiterBehindPass'
      BY <2>3, <3>1, <3>2 DEF BudgetInv, InsideHoldsLock, NoWaiterBehindPass
    <3>4. OneRuns'
      BY <3>1 DEF BudgetInv, OneRuns
    <3>5. ComparisonStands' /\ WithinBudget'
      BY <3>1 DEF BudgetInv, ComparisonStands, WithinBudget
    <3> QED
      BY <3>3, <3>4, <3>5 DEF BudgetParts
  <2> QED
    BY <1>3, <2>1, <2>2, <2>3 DEF CheckMemory
<1>4. ASSUME NEW r \in Requests, LeaveLock(r) PROVE BudgetParts'
  BY <1>4, ReleaseMove DEF LeaveLock, BudgetInv, ComparisonStands
<1>5. ASSUME NEW r \in Requests, Dequeue(r) PROVE BudgetParts'
  <2>1. \A q \in Requests : pc'[q] = IF q = r THEN "dequeued" ELSE pc[q]
    BY <1>5 DEF Dequeue, TypeOK, Goto
  <2>2. pc[r] = "passed" /\ UNCHANGED <<lock, current>>
    BY <1>5 DEF Dequeue
  <2>3. InsideHoldsLock' /\ NoWaiterBehindPass'
    BY <2>1, <2>2 DEF BudgetInv, InsideHoldsLock, NoWaiterBehindPass
  <2>4. OneRuns'
    BY <2>1, <2>2 DEF BudgetInv, OneRuns
  <2>5. ComparisonStands' /\ WithinBudget'
    BY <2>1, <2>2 DEF BudgetInv, ComparisonStands, WithinBudget
  <2> QED
    BY <2>3, <2>4, <2>5 DEF BudgetParts
<1>6. ASSUME NEW r \in Requests, Charge(r) PROVE BudgetParts'
  <2>1. \A q \in Requests : pc'[q] = IF q = r THEN "sending" ELSE pc[q]
    BY <1>6 DEF Charge, TypeOK, Goto
  <2>2. /\ pc[r] = "dequeued" /\ UNCHANGED lock
        /\ current' = current + AllocSize(r)
    BY <1>6 DEF Charge
  <2>3. \A q \in Requests \ {r} : pc[q] \notin {"available", "passed", "dequeued"}
    BY <2>2 DEF BudgetInv, OneRuns, NoWaiterBehindPass
  <2>4. InsideHoldsLock' /\ NoWaiterBehindPass'
    BY <2>1, <2>2 DEF BudgetInv, InsideHoldsLock, NoWaiterBehindPass
  <2>5. OneRuns'
    BY <2>1, <2>2 DEF BudgetInv, OneRuns
  <2>6. ComparisonStands'
    BY <2>1, <2>3 DEF ComparisonStands
  <2>7. WithinBudget'
    BY <2>2 DEF BudgetInv, ComparisonStands, WithinBudget
  <2> QED
    BY <2>4, <2>5, <2>6, <2>7 DEF BudgetParts
<1>7. ASSUME NEW r \in Requests, SendCreate(r) PROVE BudgetParts'
  BY <1>7, QuietMove DEF SendCreate
<1>8. ASSUME NEW r \in Requests, Withdraw(r) PROVE BudgetParts'
  BY <1>8, QuietMove DEF Withdraw
<1>9. ASSUME NEW r \in Requests, Expire(r) PROVE BudgetParts'
  BY <1>9, QuietMove, ReleaseMove DEF Expire
<1>10. ASSUME NEW r \in Requests, ThreadAcquire(r) PROVE BudgetParts'
  <2>1. lock = NoOne /\ lock' = r /\ UNCHANGED current
    BY <1>10 DEF ThreadAcquire
  <2>2. \A q \in Requests : pc[q] \notin {"acquired", "waiting", "available"}
    BY <2>1 DEF BudgetInv, InsideHoldsLock
  <2>3. \A q \in Requests : pc'[q] = pc[q] \/ (q = r /\ pc[r] = "acquire" /\ pc'[r] = "acquired")
    BY <1>10 DEF ThreadAcquire, TypeOK, Goto
  <2>4. InsideHoldsLock' /\ NoWaiterBehindPass'
    BY <2>1, <2>2, <2>3 DEF InsideHoldsLock, NoWaiterBehindPass
  <2>5. OneRuns'
    BY <2>3 DEF BudgetInv, OneRuns
  <2>6. ComparisonStands' /\ WithinBudget'
    BY <2>1, <2>3 DEF BudgetInv, ComparisonStands, WithinBudget
  <2> QED
    BY <2>4, <2>5, <2>6 DEF BudgetParts
<1>11. ASSUME NEW r \in Requests, ThreadTests(r) PROVE BudgetParts'
  <2>1. UNCHANGED <<lock, current>>
    BY <1>11 DEF ThreadTests
  <2>2. CASE UNCHANGED pc
    BY <2>1, <2>2, QuietStill
  <2>3. CASE ~Full(r) /\ pc[r] = "waiting" /\ Goto(r, "available")
    <3>1. \A q \in Requests : pc'[q] = IF q = r THEN "available" ELSE pc[q]
      BY <2>3 DEF TypeOK, Goto
    <3>2. InsideHoldsLock' /\ NoWaiterBehindPass'
      BY <2>1, <2>3, <3>1 DEF BudgetInv, InsideHoldsLock, NoWaiterBehindPass
    <3>3. OneRuns'
      BY <3>1 DEF BudgetInv, OneRuns
    <3>4. current + AllocSize(r) <= MaxSize
      BY <2>3 DEF Full, TypeOK
    <3>5. ComparisonStands' /\ WithinBudget'
      BY <2>1, <3>1, <3>4 DEF BudgetInv, ComparisonStands, WithinBudget
    <3> QED
      BY <3>2, <3>3, <3>5 DEF BudgetParts
  <2> QED
    BY <1>11, <2>2, <2>3 DEF ThreadTests
<1>12. ASSUME NEW r \in Requests, ThreadWakes(r) PROVE BudgetParts'
  BY <1>12, QuietStill DEF ThreadWakes
<1>13. ASSUME NEW r \in Requests, ThreadClears(r) PROVE BudgetParts'
  BY <1>13, QuietStill DEF ThreadClears
<1>14. ASSUME NEW r \in Requests, ThreadExpires(r) PROVE BudgetParts'
  BY <1>14, QuietStill DEF ThreadExpires
<1>15. ASSUME NEW r \in Requests, SubmitStep(r) PROVE BudgetParts'
  BY <1>15, QuietMove DEF SubmitStep
<1>16. ASSUME NEW r \in Requests, EndSession(r) PROVE BudgetParts'
  BY <1>16, QuietMove DEF EndSession
<1>17. ASSUME NEW r \in Requests, EnterFree(r) PROVE BudgetParts'
  BY <1>17, QuietMove DEF EnterFree
<1>18. ASSUME NEW r \in Requests, SendDelete(r) PROVE BudgetParts'
  BY <1>18, QuietMove DEF SendDelete
<1>19. ASSUME NEW r \in Requests, Uncharge(r) PROVE BudgetParts'
  <2>1. \A q \in Requests : pc'[q] = IF q = r THEN "freed" ELSE pc[q]
    BY <1>19 DEF Uncharge, TypeOK, Goto
  <2>2. pc[r] = "uncharging" /\ UNCHANGED lock /\ current' = current - AllocSize(r)
    BY <1>19 DEF Uncharge
  <2>3. InsideHoldsLock' /\ NoWaiterBehindPass'
    BY <2>1, <2>2 DEF BudgetInv, InsideHoldsLock, NoWaiterBehindPass
  <2>4. OneRuns'
    BY <2>1, <2>2 DEF BudgetInv, OneRuns
  <2>5. current \in Int /\ MaxSize \in Int /\ \A q \in Requests : AllocSize(q) \in Int
    BY DEF TypeOK
  <2>6. current' \in Int /\ current' <= current
    <3>1. AllocSize(r) \in Nat
      OBVIOUS
    <3> HIDE CacheAssumption, AllocSizeNat
    <3> QED
      BY <2>2, <2>5, <3>1
  <2>7. ComparisonStands'
    <3> SUFFICES ASSUME NEW q \in Requests, pc'[q] \in {"available", "passed", "dequeued"}
                 PROVE  current' + AllocSize(q) <= MaxSize
      BY DEF ComparisonStands
    <3>1. current + AllocSize(q) <= MaxSize
      BY <2>1 DEF BudgetInv, ComparisonStands
    <3> HIDE CacheAssumption, AllocSizeNat
    <3> QED
      BY <2>5, <2>6, <3>1
  <2>8. WithinBudget'
    BY <2>5, <2>6 DEF BudgetInv, WithinBudget
  <2> QED
    BY <2>3, <2>4, <2>7, <2>8 DEF BudgetParts
<1>20. ASSUME NEW r \in Requests, SignalFreed(r) PROVE BudgetParts'
  BY <1>20, QuietMove DEF SignalFreed
<1>21. ASSUME NEW r \in Requests, BeginUse(r) PROVE BudgetParts'
  BY <1>21, QuietStill DEF BeginUse
<1>22. ASSUME NEW r \in Requests, Lookup(r) PROVE BudgetParts'
  BY <1>22, QuietMove, QuietStill DEF Lookup
<1>23. CASE Receive
  BY <1>23, QuietStill DEF Receive
<1>24. CASE UNCHANGED vars
  BY <1>24, QuietStill DEF vars
<1> QED
  BY <1>1, <1>2, <1>3, <1>4, <1>5, <1>6, <1>7, <1>8, <1>9, <1>10, <1>11, <1>12,
     <1>13, <1>14, <1>15, <1>16, <1>17, <1>18, <1>19, <1>20, <1>21, <1>22, <1>23, <1>24
  DEF Next, Coroutine, Thread, Runtime

\* With one handler process the cache is never oversold: what is charged never
\* exceeds max_size_bytes, whatever sessions ask for and whenever deadlines pass.
THEOREM BudgetHolds ==
  ASSUME OneLoop
  PROVE  Spec => []WithinBudget
<1>1. BudgetInv => WithinBudget
  BY DEF BudgetInv
<1>2. BudgetInv /\ [Next]_vars => BudgetInv'
  BY BudgetInvStep
<1> QED
  BY <1>1, <1>2, BudgetInvInit, PTL DEF Spec
-----------------------------------------------------------------------------
(***************************************************************************)
(* The contract of allocate_cache is implemented by the module.            *)
(***************************************************************************)
ContractVars == <<current, Standing>>

\* A coroutine that moves without changing its standing does not show.
LEMMA HiddenMove ==
  ASSUME TypeOK, UNCHANGED current, NEW r \in Requests, NEW l,
         Goto(r, l), StandingAt(l) = StandingAt(pc[r])
  PROVE  UNCHANGED ContractVars
BY DEF TypeOK, Goto, Standing, ContractVars

LEMMA HiddenStill ==
  ASSUME UNCHANGED <<current, pc>>
  PROVE  UNCHANGED ContractVars
BY DEF Standing, ContractVars

LEMMA RefusalShows ==
  ASSUME TypeOK, UNCHANGED current, NEW r \in Requests,
         Goto(r, "rejected"), StandingAt(pc[r]) = "asking"
  PROVE  Contract!Next
<1>1. Standing[r] = "asking" /\ Standing' = [Standing EXCEPT ![r] = "refused"]
  BY DEF TypeOK, Goto, Standing, StandingAt, ChargedAt
<1>2. Contract!Refuse(r)
  BY <1>1 DEF Contract!Refuse
<1> QED
  BY <1>2 DEF Contract!Next

LEMMA ContractStep ==
  ASSUME BudgetInv, [Next]_vars
  PROVE  [Contract!Next]_ContractVars
<1> TypeOK /\ ComparisonStands
  BY DEF BudgetInv
<1> USE DEF StandingAt, ChargedAt
<1>1. ASSUME NEW r \in Requests, Enqueue(r) PROVE [Contract!Next]_ContractVars
  BY <1>1, HiddenMove DEF Enqueue
<1>2. ASSUME NEW r \in Requests, Admit(r) PROVE [Contract!Next]_ContractVars
  BY <1>2, HiddenMove, HiddenStill, RefusalShows DEF Admit
<1>3. ASSUME NEW r \in Requests, CheckMemory(r) PROVE [Contract!Next]_ContractVars
  BY <1>3, HiddenMove, HiddenStill, RefusalShows DEF CheckMemory
<1>4. ASSUME NEW r \in Requests, LeaveLock(r) PROVE [Contract!Next]_ContractVars
  BY <1>4, HiddenMove DEF LeaveLock
<1>5. ASSUME NEW r \in Requests, Dequeue(r) PROVE [Contract!Next]_ContractVars
  BY <1>5, HiddenMove DEF Dequeue
<1>6. ASSUME NEW r \in Requests, Charge(r) PROVE [Contract!Next]_ContractVars
  <2>1. current + AllocSize(r) <= MaxSize /\ current' = current + AllocSize(r)
    BY <1>6 DEF Charge, ComparisonStands
  <2>2. Standing[r] = "asking" /\ Standing' = [Standing EXCEPT ![r] = "holding"]
    BY <1>6 DEF Charge, TypeOK, Goto, Standing
  <2>3. Contract!Grant(r)
    BY <2>1, <2>2 DEF Contract!Grant
  <2> QED
    BY <2>3 DEF Contract!Next
<1>7. ASSUME NEW r \in Requests, SendCreate(r) PROVE [Contract!Next]_ContractVars
  BY <1>7, HiddenMove DEF SendCreate
<1>8. ASSUME NEW r \in Requests, Withdraw(r) PROVE [Contract!Next]_ContractVars
  BY <1>8, HiddenMove DEF Withdraw
<1>9. ASSUME NEW r \in Requests, Expire(r) PROVE [Contract!Next]_ContractVars
  BY <1>9, RefusalShows DEF Expire
<1>10. ASSUME NEW r \in Requests, ThreadAcquire(r) PROVE [Contract!Next]_ContractVars
  BY <1>10, HiddenMove, HiddenStill, RefusalShows DEF ThreadAcquire
<1>11. ASSUME NEW r \in Requests, ThreadTests(r) PROVE [Contract!Next]_ContractVars
  BY <1>11, HiddenMove, HiddenStill, RefusalShows DEF ThreadTests
<1>12. ASSUME NEW r \in Requests, ThreadWakes(r) PROVE [Contract!Next]_ContractVars
  BY <1>12, HiddenStill DEF ThreadWakes
<1>13. ASSUME NEW r \in Requests, ThreadClears(r) PROVE [Contract!Next]_ContractVars
  BY <1>13, HiddenStill DEF ThreadClears
<1>14. ASSUME NEW r \in Requests, ThreadExpires(r) PROVE [Contract!Next]_ContractVars
  BY <1>14, HiddenStill DEF ThreadExpires
<1>15. ASSUME NEW r \in Requests, SubmitStep(r) PROVE [Contract!Next]_ContractVars
  BY <1>15, HiddenMove DEF SubmitStep
<1>16. ASSUME NEW r \in Requests, EndSession(r) PROVE [Contract!Next]_ContractVars
  BY <1>16, HiddenMove DEF EndSession
<1>17. ASSUME NEW r \in Requests, EnterFree(r) PROVE [Contract!Next]_ContractVars
  BY <1>17, HiddenMove DEF EnterFree
<1>18. ASSUME NEW r \in Requests, SendDelete(r) PROVE [Contract!Next]_ContractVars
  BY <1>18, HiddenMove DEF SendDelete
<1>19. ASSUME NEW r \in Requests, Uncharge(r) PROVE [Contract!Next]_ContractVars
  <2>1. Standing[r] = "holding" /\ Standing' = [Standing EXCEPT ![r] = "released"]
    BY <1>19 DEF Uncharge, TypeOK, Goto, Standing
  <2>2. Contract!Release(r)
    BY <1>19, <2>1 DEF Contract!Release, Uncharge
  <2> QED
    BY <2>2 DEF Contract!Next
<1>20. ASSUME NEW r \in Requests, SignalFreed(r) PROVE [Contract!Next]_ContractVars
  BY <1>20, HiddenMove DEF SignalFreed
<1>21. ASSUME NEW r \in Requests, BeginUse(r) PROVE [Contract!Next]_ContractVars
  BY <1>21, HiddenStill DEF BeginUse
<1>22. ASSUME NEW r \in Requests, Lookup(r) PROVE [Contract!Next]_ContractVars
  BY <1>22, HiddenMove, HiddenStill, RefusalShows DEF Lookup
<1>23. CASE Receive
  BY <1>23, HiddenStill DEF Receive
<1>24. CASE UNCHANGED vars
  BY <1>24, HiddenStill DEF vars
<1> QED
  BY <1>1, <1>2, <1>3, <1>4, <1>5, <1>6, <1>7, <1>8, <1>9, <1>10, <1>11, <1>12, <1>13, <1>14, <1>15, <1>16, <1>17, <1>18, <1>19, <1>20, <1>21, <1>22, <1>23, <1>24
  DEF Next, Coroutine, Thread, Runtime

\* With one handler process allocate_cache keeps its contract: every session is
\* granted once and only what fits, or refused, and gives back what it got.
THEOREM ContractKept ==
  ASSUME OneLoop
  PROVE  Spec => ImplementsContract
<1>1. Init => Contract!Init
  BY DEF Init, Contract!Init, Standing, StandingAt, ChargedAt
<1>2. BudgetInv /\ [Next]_vars => BudgetInv'
  BY BudgetInvStep
<1>3. BudgetInv /\ [Next]_vars => [Contract!Next]_ContractVars
  BY ContractStep
<1> QED
  BY <1>1, <1>2, <1>3, BudgetInvInit, PTL
  DEF Spec, ImplementsContract, Contract!Spec, ContractVars
-----------------------------------------------------------------------------
(***************************************************************************)
(* Wake-ups, for any number of handlers, as long as no deadline can pass:  *)
(* then no thread outlives the coroutine that started it, and the lock     *)
(* admits one waiter, so nobody clears an event meant for somebody else.   *)
(***************************************************************************)
NoDeadlines == \A r \in Requests : Wait(r) # "finite"

\* A thread that is in _wait_until_available serves the session with the lock.
WaiterHasLock ==
  \A r \in Requests : thread[r] \in {"test", "wait", "woken"} => pc[r] = "waiting"

WakeParts == InsideHoldsLock /\ WaiterHasLock /\ NoLostWakeup
WakeInv == TypeOK /\ WakeParts

LEMMA WakeInvInit == Init => WakeInv
<1> SUFFICES ASSUME Init PROVE WakeInv
  OBVIOUS
<1>1. TypeOK
  BY InitTyped
<1>2. \A r \in Requests : pc[r] = "idle" /\ thread[r] = "none"
  BY DEF Init
<1> QED
  BY <1>1, <1>2 DEF WakeInv, WakeParts, InsideHoldsLock, WaiterHasLock, NoLostWakeup

\* A coroutine that moves without touching the lock, its thread or the counters.
LEMMA MoveKeepsWake ==
  ASSUME WakeInv, NEW r \in Requests, NEW l, Goto(r, l),
         UNCHANGED <<thread, lock, current, freed>>,
         pc[r] \notin {"waiting", "freed"},
         l \notin {"acquired", "waiting", "available"}
  PROVE  WakeParts'
<1>1. \A q \in Requests : pc'[q] = IF q = r THEN l ELSE pc[q]
  BY DEF WakeInv, TypeOK, Goto
<1>2. InsideHoldsLock' /\ WaiterHasLock'
  BY <1>1 DEF WakeInv, WakeParts, InsideHoldsLock, WaiterHasLock
<1>3. NoLostWakeup'
  BY <1>1 DEF WakeInv, WakeParts, NoLostWakeup, Full
<1> QED
  BY <1>2, <1>3 DEF WakeParts

LEMMA StillKeepsWake ==
  ASSUME WakeInv, UNCHANGED <<pc, thread, lock, current, freed>>
  PROVE  WakeParts'
BY DEF WakeInv, WakeParts, InsideHoldsLock, WaiterHasLock, NoLostWakeup, Full

\* A coroutine that leaves the lock: it has no thread any more.
LEMMA ReleaseKeepsWake ==
  ASSUME WakeInv, NEW r \in Requests, NEW l \in {"passed", "rejected"}, Goto(r, l),
         pc[r] \in {"acquired", "available"}, lock' = NoOne,
         UNCHANGED <<thread, current, freed>>
  PROVE  WakeParts'
<1>1. \A q \in Requests : pc'[q] = IF q = r THEN l ELSE pc[q]
  BY DEF WakeInv, TypeOK, Goto
<1>2. InsideHoldsLock' /\ WaiterHasLock'
  BY <1>1 DEF WakeInv, WakeParts, InsideHoldsLock, WaiterHasLock
<1>3. NoLostWakeup'
  BY <1>1 DEF WakeInv, WakeParts, NoLostWakeup, Full
<1> QED
  BY <1>2, <1>3 DEF WakeParts

LEMMA WakeInvStep ==
  ASSUME NoDeadlines, WakeInv, [Next]_vars
  PROVE  WakeInv'
<1> USE AllocSizeNat
<1> SUFFICES WakeParts'
  BY StepTyped DEF WakeInv
<1> TypeOK
  BY DEF WakeInv
<1>1. ASSUME NEW r \in Requests, Enqueue(r) PROVE WakeParts'
  BY <1>1, MoveKeepsWake DEF Enqueue
<1>2. ASSUME NEW r \in Requests, Admit(r) PROVE WakeParts'
  <2>1. CASE Goto(r, "rejected") /\ UNCHANGED thread
    BY <1>2, <2>1, MoveKeepsWake DEF Admit
  <2>2. CASE Goto(r, "acquire") /\ Spawn(r, "lock")
    <3>1. \A q \in Requests : /\ pc'[q] = IF q = r THEN "acquire" ELSE pc[q]
                              /\ thread'[q] = IF q = r THEN "lock" ELSE thread[q]
      BY <2>2 DEF TypeOK, Goto, Spawn
    <3>2. pc[r] = "enqueued" /\ UNCHANGED <<lock, current, freed>>
      BY <1>2 DEF Admit
    <3> QED
      BY <3>1, <3>2 DEF WakeInv, WakeParts, InsideHoldsLock, WaiterHasLock, NoLostWakeup, Full
  <2> QED
    BY <1>2, <2>1, <2>2 DEF Admit
<1>3. ASSUME NEW r \in Requests, CheckMemory(r) PROVE WakeParts'
  <2>1. pc[r] = "acquired" /\ UNCHANGED <<current, freed>>
    BY <1>3 DEF CheckMemory
  <2>2. CASE lock' = NoOne /\ UNCHANGED thread /\ (Goto(r, "passed") \/ Goto(r, "rejected"))
    BY <2>1, <2>2, ReleaseKeepsWake
  <2>3. CASE Full(r) /\ Goto(r, "waiting") /\ Spawn(r, "test") /\ UNCHANGED lock
    <3>1. \A q \in Requests : /\ pc'[q] = IF q = r THEN "waiting" ELSE pc[q]
                              /\ thread'[q] = IF q = r THEN "test" ELSE thread[q]
      BY <2>3 DEF TypeOK, Goto, Spawn
    <3>2. InsideHoldsLock' /\ WaiterHasLock'
      BY <2>1, <2>3, <3>1 DEF WakeInv, WakeParts, InsideHoldsLock, WaiterHasLock
    <3>3. NoLostWakeup'
      BY <2>1, <3>1 DEF WakeInv, WakeParts, NoLostWakeup, Full
    <3> QED
      BY <3>2, <3>3 DEF WakeParts
  <2> QED
    BY <1>3, <2>2, <2>3 DEF CheckMemory
<1>4. ASSUME NEW r \in Requests, LeaveLock(r) PROVE WakeParts'
  BY <1>4, ReleaseKeepsWake DEF LeaveLock
<1>5. ASSUME NEW r \in Requests, Dequeue(r) PROVE WakeParts'
  BY <1>5, MoveKeepsWake DEF Dequeue
<1>6. ASSUME NEW r \in Requests, Charge(r) PROVE WakeParts'
  <2>1. \A q \in Requests : pc'[q] = IF q = r THEN "sending" ELSE pc[q]
    BY <1>6 DEF Charge, TypeOK, Goto
  <2>2. /\ pc[r] = "dequeued" /\ UNCHANGED <<thread, lock, freed>>
        /\ current' = current + AllocSize(r)
    BY <1>6 DEF Charge
  <2>3. \A q \in Requests : ~Full(q)' => ~Full(q)
    <3> SUFFICES ASSUME NEW q \in Requests, ~Full(q)' PROVE ~Full(q)
      OBVIOUS
    <3>1. current \in Int /\ AllocSize(q) \in Nat /\ AllocSize(r) \in Nat /\ MaxSize \in Nat
      BY CacheAssumption DEF TypeOK
    <3> HIDE AllocSizeNat
    <3> QED
      BY <2>2, <3>1 DEF Full
  <2>4. InsideHoldsLock' /\ WaiterHasLock'
    BY <2>1, <2>2 DEF WakeInv, WakeParts, InsideHoldsLock, WaiterHasLock
  <2>5. NoLostWakeup'
    BY <2>1, <2>2, <2>3 DEF WakeInv, WakeParts, NoLostWakeup
  <2> QED
    BY <2>4, <2>5 DEF WakeParts
<1>7. ASSUME NEW r \in Requests, SendCreate(r) PROVE WakeParts'
  BY <1>7, MoveKeepsWake DEF SendCreate
<1>8. ASSUME NEW r \in Requests, Withdraw(r) PROVE WakeParts'
  BY <1>8, MoveKeepsWake DEF Withdraw
<1>9. ASSUME NEW r \in Requests, Expire(r) PROVE WakeParts'
  BY <1>9 DEF Expire, NoDeadlines
<1>10. ASSUME NEW r \in Requests, ThreadAcquire(r) PROVE WakeParts'
  <2>1. lock = NoOne /\ lock' = r /\ thread[r] = "lock" /\ UNCHANGED <<current, freed>>
    BY <1>10 DEF ThreadAcquire
  <2>2. \A q \in Requests : pc[q] \notin {"acquired", "waiting", "available"}
    BY <2>1, CacheAssumption DEF WakeInv, WakeParts, InsideHoldsLock
  <2>3. \A q \in Requests : thread'[q] = IF q = r THEN "none" ELSE thread[q]
    BY <1>10 DEF ThreadAcquire, TypeOK, Spawn
  <2>4. \A q \in Requests : pc'[q] = pc[q] \/ (q = r /\ pc[r] = "acquire" /\ pc'[r] = "acquired")
    BY <1>10 DEF ThreadAcquire, TypeOK, Goto
  <2>5. InsideHoldsLock' /\ WaiterHasLock'
    BY <2>1, <2>2, <2>3, <2>4 DEF WakeInv, WakeParts, InsideHoldsLock, WaiterHasLock
  <2>6. NoLostWakeup'
    BY <2>2, <2>3 DEF WakeInv, WakeParts, WaiterHasLock, NoLostWakeup
  <2> QED
    BY <2>5, <2>6 DEF WakeParts
<1>11. ASSUME NEW r \in Requests, ThreadTests(r) PROVE WakeParts'
  <2>1. thread[r] = "test" /\ pc[r] = "waiting" /\ UNCHANGED <<lock, current, freed>>
    BY <1>11 DEF ThreadTests, WakeInv, WakeParts, WaiterHasLock
  <2>2. CASE Full(r) /\ Spawn(r, "wait") /\ UNCHANGED pc
    <3>1. \A q \in Requests : thread'[q] = IF q = r THEN "wait" ELSE thread[q]
      BY <2>2 DEF TypeOK, Spawn
    <3> QED
      BY <2>1, <2>2, <3>1 DEF WakeInv, WakeParts, InsideHoldsLock, WaiterHasLock, NoLostWakeup, Full
  <2>3. CASE Spawn(r, "none") /\ Goto(r, "available")
    <3>1. \A q \in Requests : /\ pc'[q] = IF q = r THEN "available" ELSE pc[q]
                              /\ thread'[q] = IF q = r THEN "none" ELSE thread[q]
      BY <2>3 DEF TypeOK, Goto, Spawn
    <3>2. InsideHoldsLock' /\ WaiterHasLock'
      BY <2>1, <3>1 DEF WakeInv, WakeParts, InsideHoldsLock, WaiterHasLock
    <3>3. NoLostWakeup'
      BY <2>1, <3>1 DEF WakeInv, WakeParts, NoLostWakeup, Full
    <3> QED
      BY <3>2, <3>3 DEF WakeParts
  <2> QED
    BY <1>11, <2>1, <2>2, <2>3 DEF ThreadTests
<1>12. ASSUME NEW r \in Requests, ThreadWakes(r) PROVE WakeParts'
  <2>1. \A q \in Requests : thread'[q] = IF q = r THEN "woken" ELSE thread[q]
    BY <1>12 DEF ThreadWakes, TypeOK, Spawn
  <2>2. thread[r] = "wait" /\ UNCHANGED <<pc, lock, current, freed>>
    BY <1>12 DEF ThreadWakes
  <2> QED
    BY <2>1, <2>2 DEF WakeInv, WakeParts, InsideHoldsLock, WaiterHasLock, NoLostWakeup, Full
<1>13. ASSUME NEW r \in Requests, ThreadClears(r) PROVE WakeParts'
  <2>1. \A q \in Requests : thread'[q] = IF q = r THEN "test" ELSE thread[q]
    BY <1>13 DEF ThreadClears, TypeOK, Spawn
  <2>2. thread[r] = "woken" /\ UNCHANGED <<pc, lock, current>>
    BY <1>13 DEF ThreadClears
  <2>3. \A q \in Requests \ {r} : thread[q] # "wait"
    BY <2>2 DEF WakeInv, WakeParts, WaiterHasLock, InsideHoldsLock
  <2> QED
    BY <2>1, <2>2, <2>3 DEF WakeInv, WakeParts, InsideHoldsLock, WaiterHasLock, NoLostWakeup
<1>14. ASSUME NEW r \in Requests, ThreadExpires(r) PROVE WakeParts'
  BY <1>14 DEF ThreadExpires, WakeInv, WakeParts, WaiterHasLock
<1>15. ASSUME NEW r \in Requests, SubmitStep(r) PROVE WakeParts'
  BY <1>15, MoveKeepsWake DEF SubmitStep
<1>16. ASSUME NEW r \in Requests, EndSession(r) PROVE WakeParts'
  BY <1>16, MoveKeepsWake DEF EndSession
<1>17. ASSUME NEW r \in Requests, EnterFree(r) PROVE WakeParts'
  BY <1>17, MoveKeepsWake DEF EnterFree
<1>18. ASSUME NEW r \in Requests, SendDelete(r) PROVE WakeParts'
  BY <1>18, MoveKeepsWake DEF SendDelete
<1>19. ASSUME NEW r \in Requests, Uncharge(r) PROVE WakeParts'
  <2>1. \A q \in Requests : pc'[q] = IF q = r THEN "freed" ELSE pc[q]
    BY <1>19 DEF Uncharge, TypeOK, Goto
  <2>2. pc[r] = "uncharging" /\ UNCHANGED <<thread, lock, freed>>
    BY <1>19 DEF Uncharge
  <2>3. InsideHoldsLock' /\ WaiterHasLock'
    BY <2>1, <2>2 DEF WakeInv, WakeParts, InsideHoldsLock, WaiterHasLock
  <2>4. NoLostWakeup'
    BY <2>1 DEF NoLostWakeup
  <2> QED
    BY <2>3, <2>4 DEF WakeParts
<1>20. ASSUME NEW r \in Requests, SignalFreed(r) PROVE WakeParts'
  <2>1. \A q \in Requests : pc'[q] = IF q = r THEN "closed" ELSE pc[q]
    BY <1>20 DEF SignalFreed, TypeOK, Goto
  <2>2. pc[r] = "freed" /\ freed' /\ UNCHANGED <<thread, lock>>
    BY <1>20 DEF SignalFreed
  <2> QED
    BY <2>1, <2>2 DEF WakeInv, WakeParts, InsideHoldsLock, WaiterHasLock, NoLostWakeup
<1>21. ASSUME NEW r \in Requests, BeginUse(r) PROVE WakeParts'
  BY <1>21, StillKeepsWake DEF BeginUse
<1>22. ASSUME NEW r \in Requests, Lookup(r) PROVE WakeParts'
  BY <1>22, MoveKeepsWake, StillKeepsWake DEF Lookup
<1>23. CASE Receive
  BY <1>23, StillKeepsWake DEF Receive
<1>24. CASE UNCHANGED vars
  BY <1>24, StillKeepsWake DEF vars
<1> QED
  BY <1>1, <1>2, <1>3, <1>4, <1>5, <1>6, <1>7, <1>8, <1>9, <1>10, <1>11, <1>12,
     <1>13, <1>14, <1>15, <1>16, <1>17, <1>18, <1>19, <1>20, <1>21, <1>22, <1>23, <1>24
  DEF Next, Coroutine, Thread, Runtime

\* Without deadlines a session that waits in _wait_until_available is told of
\* every release of memory that would let it in.
THEOREM WakeupsArrive ==
  ASSUME NoDeadlines
  PROVE  Spec => []NoLostWakeup
<1>1. WakeInv => NoLostWakeup
  BY DEF WakeInv, WakeParts
<1>2. WakeInv /\ [Next]_vars => WakeInv'
  BY WakeInvStep
<1> QED
  BY <1>1, <1>2, WakeInvInit, PTL DEF Spec
-----------------------------------------------------------------------------
(***************************************************************************)
(* The accounts, for any number of handlers: each counter is the sum of    *)
(* the sizes of the sessions that own a part of it, although the test of   *)
(* one and the changes of both are apart.                                  *)
(***************************************************************************)

\* The sizes of all sessions, as a function.
Sizes == [r \in Requests |-> AllocSize(r)]

LEMMA TotalIsSum ==
  ASSUME NEW S, S \subseteq Requests, IsFiniteSet(S)
  PROVE  TotalSize(S) = Sum(Sizes, S)
<1>1. PICK g : SumGraph(Sizes, S, g)
  BY SumExists
<1>2. g = [s \in SUBSET S |-> IF s = {} THEN 0 ELSE AllocSize(First(s)) + g[s \ {First(s)}]]
  <2>1. \A s \in SUBSET S : s # {} => Sizes[First(s)] = AllocSize(First(s))
    BY FirstIn DEF Sizes
  <2> QED
    BY <1>1, <2>1 DEF SumGraph
<1>3. PICK iter : iter = CHOOSE h :
        h = [s \in SUBSET S |-> IF s = {} THEN 0 ELSE AllocSize(First(s)) + h[s \ {First(s)}]]
  OBVIOUS
<1>4. TotalSize(S) = iter[S]
  BY <1>3 DEF TotalSize, MapThenSumSet, MapThenFoldSet, First
<1>5. iter = [s \in SUBSET S |-> IF s = {} THEN 0 ELSE AllocSize(First(s)) + iter[s \ {First(s)}]]
  BY <1>2, <1>3
<1>6. SumGraph(Sizes, S, iter)
  <2>1. \A s \in SUBSET S : s # {} => Sizes[First(s)] = AllocSize(First(s))
    BY FirstIn DEF Sizes
  <2> QED
    BY <1>5, <2>1 DEF SumGraph
<1>7. Sum(Sizes, S) = iter[S]
  BY <1>6, SumOfGraph
<1> QED
  BY <1>4, <1>7

LEMMA TotalTyped ==
  ASSUME NEW S, S \subseteq Requests, IsFiniteSet(S) PROVE TotalSize(S) \in Nat
<1>1. Sizes \in [Requests -> Nat]
  BY AllocSizeNat DEF Sizes
<1> QED
  BY <1>1, TotalIsSum, SumTyped

LEMMA TotalAdd ==
  ASSUME NEW S, S \subseteq Requests, IsFiniteSet(S), NEW r \in Requests, r \notin S
  PROVE  IsFiniteSet(S \cup {r}) /\ TotalSize(S \cup {r}) = TotalSize(S) + AllocSize(r)
<1>1. Sizes \in [Requests -> Nat] /\ Sizes[r] = AllocSize(r)
  BY AllocSizeNat DEF Sizes
<1>2. PICK T : T = S \cup {r}
  OBVIOUS
<1>3. T \subseteq Requests /\ IsFiniteSet(T)
  BY <1>2, FS_AddElement
<1>4. Sum(Sizes, S \cup {r}) = Sum(Sizes, S) + Sizes[r]
  BY <1>1, SumAdd
<1>5. TotalSize(T) = Sum(Sizes, T) /\ TotalSize(S) = Sum(Sizes, S)
  BY <1>3, TotalIsSum
<1> QED
  BY <1>1, <1>2, <1>3, <1>4, <1>5

LEMMA TotalRemove ==
  ASSUME NEW S, S \subseteq Requests, IsFiniteSet(S), NEW r \in S
  PROVE  IsFiniteSet(S \ {r}) /\ TotalSize(S \ {r}) = TotalSize(S) - AllocSize(r)
<1>1. PICK T : T = S \ {r}
  OBVIOUS
<1>2. T \subseteq Requests /\ r \notin T /\ T \cup {r} = S /\ r \in Requests
  BY <1>1
<1>3. IsFiniteSet(T)
  BY <1>1, FS_RemoveElement
<1>4. TotalSize(T \cup {r}) = TotalSize(T) + AllocSize(r)
  BY <1>2, <1>3, TotalAdd
<1>5. TotalSize(T) \in Nat /\ AllocSize(r) \in Nat
  BY <1>2, <1>3, TotalTyped, AllocSizeNat
<1>6. TotalSize(S) = TotalSize(T) + AllocSize(r)
  BY <1>2, <1>4
<1> QED
  BY <1>1, <1>3, <1>5, <1>6

WaitingAt == {"enqueued", "acquire", "acquired", "waiting", "available", "passed", "rejected"}

AccountInv ==
  /\ TypeOK
  /\ IsFiniteSet(Charged) /\ current = TotalSize(Charged)
  /\ IsFiniteSet(Waiting) /\ enqueued = TotalSize(Waiting)

\* What a step has to keep besides the types.
AccountParts ==
  /\ IsFiniteSet(Charged) /\ current = TotalSize(Charged)
  /\ IsFiniteSet(Waiting) /\ enqueued = TotalSize(Waiting)

\* A step that moves no session into or out of an account.
LEMMA AccountStill ==
  ASSUME AccountInv, UNCHANGED <<current, enqueued>>,
         \A r \in Requests : /\ pc'[r] \in ChargedAt <=> pc[r] \in ChargedAt
                             /\ pc'[r] \in WaitingAt <=> pc[r] \in WaitingAt
  PROVE  AccountParts'
<1>1. Charged' = Charged /\ Waiting' = Waiting
  BY DEF Charged, Waiting, WaitingAt
<1> QED
  BY <1>1 DEF AccountInv, AccountParts

LEMMA AccountMove ==
  ASSUME AccountInv, NEW r \in Requests, NEW l, Goto(r, l), UNCHANGED <<current, enqueued>>,
         l \in ChargedAt <=> pc[r] \in ChargedAt, l \in WaitingAt <=> pc[r] \in WaitingAt
  PROVE  AccountParts'
<1>1. \A q \in Requests : pc'[q] = IF q = r THEN l ELSE pc[q]
  BY DEF AccountInv, TypeOK, Goto
<1> QED
  BY <1>1, AccountStill

LEMMA AccountSame ==
  ASSUME AccountInv, UNCHANGED <<pc, current, enqueued>> PROVE AccountParts'
BY AccountStill

\* A session leaves the queue.
LEMMA AccountLeave ==
  ASSUME AccountInv, NEW r \in Requests, NEW l, Goto(r, l), pc[r] \in WaitingAt, l \notin WaitingAt \cup ChargedAt,
         enqueued' = enqueued - AllocSize(r), UNCHANGED current
  PROVE  AccountParts'
<1>1. \A q \in Requests : pc'[q] = IF q = r THEN l ELSE pc[q]
  BY DEF AccountInv, TypeOK, Goto
<1>2. Charged' = Charged
  BY <1>1 DEF Charged, WaitingAt, ChargedAt
<1>3. Waiting' = Waiting \ {r} /\ r \in Waiting /\ Waiting \subseteq Requests
  BY <1>1 DEF Waiting, WaitingAt
<1>4. IsFiniteSet(Waiting \ {r}) /\ TotalSize(Waiting \ {r}) = TotalSize(Waiting) - AllocSize(r)
  BY <1>3, TotalRemove DEF AccountInv
<1> QED
  BY <1>2, <1>3, <1>4 DEF AccountInv, AccountParts

LEMMA AccountStep ==
  ASSUME AccountInv, [Next]_vars PROVE AccountInv'
<1> TypeOK
  BY DEF AccountInv
<1> SUFFICES AccountParts'
  BY StepTyped DEF AccountInv, AccountParts
<1> USE DEF WaitingAt, ChargedAt
<1>1. ASSUME NEW r \in Requests, Enqueue(r) PROVE AccountParts'
  <2>1. \A q \in Requests : pc'[q] = IF q = r THEN "enqueued" ELSE pc[q]
    BY <1>1 DEF Enqueue, Goto, TypeOK
  <2>2. pc[r] = "idle" /\ enqueued' = enqueued + AllocSize(r) /\ current' = current
    BY <1>1 DEF Enqueue
  <2>3. Charged' = Charged
    BY <2>1, <2>2 DEF Charged
  <2>4. Waiting' = Waiting \cup {r} /\ r \notin Waiting /\ Waiting \subseteq Requests
    BY <2>1, <2>2 DEF Waiting
  <2>5. IsFiniteSet(Waiting \cup {r}) /\ TotalSize(Waiting \cup {r}) = TotalSize(Waiting) + AllocSize(r)
    BY <2>4, TotalAdd DEF AccountInv
  <2> QED
    BY <2>2, <2>3, <2>4, <2>5 DEF AccountInv, AccountParts
<1>2. ASSUME NEW r \in Requests, Admit(r) PROVE AccountParts'
  BY <1>2, AccountMove DEF Admit
<1>3. ASSUME NEW r \in Requests, CheckMemory(r) PROVE AccountParts'
  BY <1>3, AccountMove DEF CheckMemory
<1>4. ASSUME NEW r \in Requests, LeaveLock(r) PROVE AccountParts'
  BY <1>4, AccountMove DEF LeaveLock
<1>5. ASSUME NEW r \in Requests, Dequeue(r) PROVE AccountParts'
  BY <1>5, AccountLeave DEF Dequeue
<1>6. ASSUME NEW r \in Requests, Charge(r) PROVE AccountParts'
  <2>1. \A q \in Requests : pc'[q] = IF q = r THEN "sending" ELSE pc[q]
    BY <1>6 DEF Charge, Goto, TypeOK
  <2>2. pc[r] = "dequeued" /\ current' = current + AllocSize(r) /\ enqueued' = enqueued
    BY <1>6 DEF Charge
  <2>3. Waiting' = Waiting
    BY <2>1, <2>2 DEF Waiting
  <2>4. Charged' = Charged \cup {r} /\ r \notin Charged /\ Charged \subseteq Requests
    BY <2>1, <2>2 DEF Charged
  <2>5. IsFiniteSet(Charged \cup {r}) /\ TotalSize(Charged \cup {r}) = TotalSize(Charged) + AllocSize(r)
    BY <2>4, TotalAdd DEF AccountInv
  <2> QED
    BY <2>2, <2>3, <2>4, <2>5 DEF AccountInv, AccountParts
<1>7. ASSUME NEW r \in Requests, SendCreate(r) PROVE AccountParts'
  BY <1>7, AccountMove DEF SendCreate
<1>8. ASSUME NEW r \in Requests, Withdraw(r) PROVE AccountParts'
  BY <1>8, AccountLeave DEF Withdraw
<1>9. ASSUME NEW r \in Requests, Expire(r) PROVE AccountParts'
  BY <1>9, AccountMove DEF Expire
<1>10. ASSUME NEW r \in Requests, ThreadAcquire(r) PROVE AccountParts'
  BY <1>10, AccountMove, AccountSame DEF ThreadAcquire
<1>11. ASSUME NEW r \in Requests, ThreadTests(r) PROVE AccountParts'
  BY <1>11, AccountMove, AccountSame DEF ThreadTests
<1>12. ASSUME NEW r \in Requests, ThreadWakes(r) PROVE AccountParts'
  BY <1>12, AccountSame DEF ThreadWakes
<1>13. ASSUME NEW r \in Requests, ThreadClears(r) PROVE AccountParts'
  BY <1>13, AccountSame DEF ThreadClears
<1>14. ASSUME NEW r \in Requests, ThreadExpires(r) PROVE AccountParts'
  BY <1>14, AccountSame DEF ThreadExpires
<1>15. ASSUME NEW r \in Requests, SubmitStep(r) PROVE AccountParts'
  BY <1>15, AccountMove DEF SubmitStep
<1>16. ASSUME NEW r \in Requests, EndSession(r) PROVE AccountParts'
  BY <1>16, AccountMove DEF EndSession
<1>17. ASSUME NEW r \in Requests, EnterFree(r) PROVE AccountParts'
  BY <1>17, AccountMove DEF EnterFree
<1>18. ASSUME NEW r \in Requests, SendDelete(r) PROVE AccountParts'
  BY <1>18, AccountMove DEF SendDelete
<1>19. ASSUME NEW r \in Requests, Uncharge(r) PROVE AccountParts'
  <2>1. \A q \in Requests : pc'[q] = IF q = r THEN "freed" ELSE pc[q]
    BY <1>19 DEF Uncharge, Goto, TypeOK
  <2>2. pc[r] = "uncharging" /\ current' = current - AllocSize(r) /\ enqueued' = enqueued
    BY <1>19 DEF Uncharge
  <2>3. Waiting' = Waiting
    BY <2>1, <2>2 DEF Waiting
  <2>4. Charged' = Charged \ {r} /\ r \in Charged /\ Charged \subseteq Requests
    BY <2>1, <2>2 DEF Charged
  <2>5. IsFiniteSet(Charged \ {r}) /\ TotalSize(Charged \ {r}) = TotalSize(Charged) - AllocSize(r)
    BY <2>4, TotalRemove DEF AccountInv
  <2> QED
    BY <2>2, <2>3, <2>4, <2>5 DEF AccountInv, AccountParts
<1>20. ASSUME NEW r \in Requests, SignalFreed(r) PROVE AccountParts'
  BY <1>20, AccountMove DEF SignalFreed
<1>21. ASSUME NEW r \in Requests, BeginUse(r) PROVE AccountParts'
  BY <1>21, AccountSame DEF BeginUse
<1>22. ASSUME NEW r \in Requests, Lookup(r) PROVE AccountParts'
  BY <1>22, AccountMove, AccountSame DEF Lookup
<1>23. CASE Receive
  BY <1>23, AccountSame DEF Receive
<1>24. CASE UNCHANGED vars
  BY <1>24, AccountSame DEF vars
<1> QED
  BY <1>1, <1>2, <1>3, <1>4, <1>5, <1>6, <1>7, <1>8, <1>9, <1>10, <1>11, <1>12, <1>13, <1>14, <1>15, <1>16, <1>17, <1>18, <1>19, <1>20, <1>21, <1>22, <1>23, <1>24
  DEF Next, Coroutine, Thread, Runtime

LEMMA AccountInit == Init => AccountInv
<1> SUFFICES ASSUME Init PROVE AccountInv
  OBVIOUS
<1>1. Charged = {} /\ Waiting = {} /\ current = 0 /\ enqueued = 0
  BY DEF Init, Charged, ChargedAt, Waiting
<1>2. IsFiniteSet({}) /\ {} \subseteq Requests
  BY FS_EmptySet
<1>3. TotalSize({}) = 0
  BY <1>2, TotalIsSum, SumEmpty
<1> QED
  BY <1>1, <1>2, <1>3, InitTyped DEF AccountInv

\* No path through _wait_for_free_memory, its refusals and its deadlines included,
\* and no session, however it ends, leaks bytes or returns them twice: for any
\* number of handlers, both shared counters are the sizes of their sessions.
THEOREM CountersAccounted == Spec => []Accounting
<1>1. AccountInv => Accounting
  BY DEF AccountInv, Accounting
<1>2. AccountInv /\ [Next]_vars => AccountInv'
  BY AccountStep
<1> QED
  BY <1>1, <1>2, AccountInit, PTL DEF Spec
-----------------------------------------------------------------------------
(***************************************************************************)
(* The pipe: the Runtime finds the tensors of every session that has not   *)
(* begun to free them, for any number of handlers.                         *)
(***************************************************************************)
Using      == {"granted", "stepping"}
Gone       == {"uncharging", "freed", "closed"}
PastGrant  == Using \cup {"freeing", "deleting"} \cup Gone
PastCharge == {"sending"} \cup PastGrant

\* Handles come from a counter that only grows, so no two sessions share one.
HandlesFresh ==
  /\ \A r \in Requests : pc[r] \notin PastCharge => handles[r] = {}
  /\ \A r \in Requests : \A h \in handles[r] : h < counter
HandlesApart ==
  \A q, r \in Requests : q # r => handles[q] \cap handles[r] = {}

\* A deletion under way is that of a session that asked for it.
DeletesAreAsked ==
  \A i \in DOMAIN pipe : pipe[i].kind = "delete" =>
    \E q \in Requests : pc[q] \in Gone /\ pipe[i].handles = handles[q]

\* The tensors of a session in use exist, or their creation is under way.
CreatesArrive ==
  \A r \in Requests : pc[r] \in Using =>
    \/ handles[r] \subseteq tensors
    \/ \E i \in DOMAIN pipe : pipe[i].kind = "create" /\ pipe[i].handles = handles[r]

\* Only a session that was granted its cache has tasks in the Runtime.
TasksAreGranted ==
  \A r \in Requests : r \in jobs \/ serving = r => pc[r] \in PastGrant

\* A failed lookup is that of a session that is giving its cache back.
MissingIsPast == \A r \in missing : pc[r] \in PastGrant \ Using

PipeParts ==
  /\ HandlesFresh
  /\ HandlesApart
  /\ DeletesAreAsked
  /\ CreatesArrive
  /\ TasksAreGranted
  /\ MissingIsPast

PipeInv == TypeOK /\ PipeParts

LEMMA PipeInvInit == Init => PipeInv
<1> SUFFICES ASSUME Init PROVE PipeInv
  OBVIOUS
<1>1. TypeOK
  BY InitTyped
<1>2. pipe = <<>> /\ jobs = {} /\ serving = NoOne /\ missing = {} /\ NoOne \notin Requests
  BY CacheAssumption DEF Init
<1>3. \A r \in Requests : pc[r] = "idle" /\ handles[r] = {}
  BY DEF Init
<1>4. HandlesFresh /\ HandlesApart
  BY <1>3 DEF HandlesFresh, HandlesApart
<1>5. DOMAIN pipe = {}
  BY <1>2
<1>6. DeletesAreAsked
  BY <1>5 DEF DeletesAreAsked
<1>7. CreatesArrive /\ TasksAreGranted /\ MissingIsPast
  BY <1>2, <1>3 DEF CreatesArrive, TasksAreGranted, MissingIsPast, Using
<1> QED
  BY <1>1, <1>4, <1>6, <1>7 DEF PipeInv, PipeParts

\* A step that neither allocates handles nor touches the pipe, by a session whose
\* new place is not closer to the cache than the old one.
LEMMA AwayFromPipe ==
  ASSUME PipeInv, NEW r \in Requests, NEW l, Goto(r, l),
         UNCHANGED <<counter, handles, pipe, tensors, jobs, serving, missing>>,
         l \in PastCharge <=> pc[r] \in PastCharge,
         pc[r] \in PastGrant => l \in PastGrant,
         pc[r] \in Gone => l \in Gone,
         l \in Using => pc[r] \in Using
  PROVE  PipeParts'
<1>1. \A q \in Requests : pc'[q] = IF q = r THEN l ELSE pc[q]
  BY DEF PipeInv, TypeOK, Goto
<1>2. HandlesFresh' /\ HandlesApart'
  BY <1>1 DEF PipeInv, PipeParts, HandlesFresh, HandlesApart
<1>3. DeletesAreAsked'
  BY <1>1 DEF PipeInv, PipeParts, DeletesAreAsked
<1>4. CreatesArrive'
  BY <1>1 DEF PipeInv, PipeParts, CreatesArrive
<1>5. TasksAreGranted'
  BY <1>1 DEF PipeInv, PipeParts, TasksAreGranted
<1>6. MissingIsPast'
  BY <1>1 DEF PipeInv, PipeParts, MissingIsPast, PipeInv, TypeOK
<1> QED
  BY <1>2, <1>3, <1>4, <1>5, <1>6 DEF PipeParts

LEMMA StillPipe ==
  ASSUME PipeInv,
         UNCHANGED <<pc, counter, handles, pipe, tensors, jobs, serving, missing>>
  PROVE  PipeParts'
BY DEF PipeInv, PipeParts, HandlesFresh, HandlesApart, DeletesAreAsked, CreatesArrive,
   TasksAreGranted, MissingIsPast

\* The three steps in which the pipe and the handles matter, and the lookup.
LEMMA ChargeKeepsPipe ==
  ASSUME PipeInv, NEW r \in Requests, Charge(r)
  PROVE  PipeParts'
<1> DEFINE new == counter .. (counter + HandlesPerAlloc - 1)
<1>1. /\ pc[r] = "dequeued" /\ counter' = counter + HandlesPerAlloc
      /\ UNCHANGED <<pipe, tensors, jobs, serving, missing>>
  BY DEF Charge
<1>2. \A q \in Requests : pc'[q] = IF q = r THEN "sending" ELSE pc[q]
  BY DEF PipeInv, TypeOK, Goto, Charge
<1>3. \A q \in Requests : handles'[q] = IF q = r THEN new ELSE handles[q]
  BY DEF PipeInv, TypeOK, Charge
<1>4. counter \in Nat /\ HandlesPerAlloc \in Nat
  BY CacheAssumption DEF PipeInv, TypeOK
<1>5. \A h \in new : counter <= h /\ h < counter'
  BY <1>1, <1>4
<1>6. \A q \in Requests \ {r} : \A h \in handles[q] : h < counter /\ h \in Int
  BY DEF PipeInv, TypeOK, PipeParts, HandlesFresh
<1>7. HandlesFresh'
  <2>1. \A q \in Requests : pc'[q] \notin PastCharge => handles'[q] = {}
    BY <1>2, <1>3 DEF PipeInv, PipeParts, HandlesFresh, PastCharge
  <2>2. \A q \in Requests : \A h \in handles'[q] : h < counter'
    BY <1>1, <1>3, <1>4, <1>5, <1>6
  <2> QED
    BY <2>1, <2>2 DEF HandlesFresh
<1>8. HandlesApart'
  <2>1. \A q \in Requests \ {r} : handles[q] \cap new = {}
    BY <1>4, <1>5, <1>6
  <2> QED
    BY <1>3, <2>1 DEF PipeInv, PipeParts, HandlesApart
<1>9. DeletesAreAsked'
  BY <1>1, <1>2, <1>3 DEF PipeInv, PipeParts, DeletesAreAsked, Gone
<1>10. CreatesArrive'
  BY <1>1, <1>2, <1>3 DEF PipeInv, PipeParts, CreatesArrive, Using
<1>11. TasksAreGranted'
  BY <1>1, <1>2 DEF PipeInv, PipeParts, TasksAreGranted, PastGrant, Using, Gone
<1>12. MissingIsPast'
  BY <1>1, <1>2 DEF PipeInv, PipeParts, MissingIsPast, TypeOK, PastGrant, Using, Gone
<1> QED
  BY <1>7, <1>8, <1>9, <1>10, <1>11, <1>12 DEF PipeParts

LEMMA SendCreateKeepsPipe ==
  ASSUME PipeInv, NEW r \in Requests, SendCreate(r)
  PROVE  PipeParts'
<1> DEFINE m == [kind |-> "create", handles |-> handles[r]]
<1>1. /\ pc[r] = "sending" /\ pipe' = Append(pipe, m)
      /\ UNCHANGED <<counter, handles, tensors, jobs, serving, missing>>
  BY DEF SendCreate
<1>2. \A q \in Requests : pc'[q] = IF q = r THEN "granted" ELSE pc[q]
  BY DEF PipeInv, TypeOK, Goto, SendCreate
<1>3. m \in Messages /\ pipe \in Seq(Messages)
  BY DEF PipeInv, TypeOK, Messages
<1>4. /\ Len(pipe') = Len(pipe) + 1 /\ pipe'[Len(pipe) + 1] = m
      /\ \A i \in 1 .. Len(pipe) : pipe'[i] = pipe[i]
      /\ DOMAIN pipe = 1 .. Len(pipe) /\ DOMAIN pipe' = 1 .. Len(pipe')
      /\ Len(pipe) \in Nat
  BY <1>1, <1>3, AppendProperties
<1>5. HandlesFresh' /\ HandlesApart'
  BY <1>1, <1>2 DEF PipeInv, PipeParts, HandlesFresh, HandlesApart, PastCharge, PastGrant, Using
<1>6. DeletesAreAsked'
  BY <1>1, <1>2, <1>4 DEF PipeInv, PipeParts, DeletesAreAsked, Gone
<1>7. CreatesArrive'
  <2> SUFFICES ASSUME NEW q \in Requests, pc'[q] \in Using
               PROVE  \/ handles[q] \subseteq tensors
                      \/ \E i \in DOMAIN pipe' : pipe'[i].kind = "create" /\ pipe'[i].handles = handles[q]
    BY <1>1 DEF CreatesArrive
  <2>1. CASE q = r
    BY <2>1, <1>4
  <2>2. CASE q # r
    BY <2>2, <1>2, <1>4 DEF PipeInv, PipeParts, CreatesArrive
  <2> QED
    BY <2>1, <2>2
<1>8. TasksAreGranted'
  BY <1>1, <1>2 DEF PipeInv, PipeParts, TasksAreGranted, PastGrant, Using
<1>9. MissingIsPast'
  BY <1>1, <1>2 DEF PipeInv, PipeParts, MissingIsPast, TypeOK, PastGrant, Using, Gone
<1> QED
  BY <1>5, <1>6, <1>7, <1>8, <1>9 DEF PipeParts

LEMMA SendDeleteKeepsPipe ==
  ASSUME PipeInv, NEW r \in Requests, SendDelete(r)
  PROVE  PipeParts'
<1> DEFINE m == [kind |-> "delete", handles |-> handles[r]]
<1>1. /\ pc[r] = "deleting" /\ pipe' = Append(pipe, m)
      /\ UNCHANGED <<counter, handles, tensors, jobs, serving, missing>>
  BY DEF SendDelete
<1>2. \A q \in Requests : pc'[q] = IF q = r THEN "uncharging" ELSE pc[q]
  BY DEF PipeInv, TypeOK, Goto, SendDelete
<1>3. m \in Messages /\ pipe \in Seq(Messages)
  BY DEF PipeInv, TypeOK, Messages
<1>4. /\ Len(pipe') = Len(pipe) + 1 /\ pipe'[Len(pipe) + 1] = m
      /\ \A i \in 1 .. Len(pipe) : pipe'[i] = pipe[i]
      /\ DOMAIN pipe = 1 .. Len(pipe) /\ DOMAIN pipe' = 1 .. Len(pipe')
      /\ Len(pipe) \in Nat
  BY <1>1, <1>3, AppendProperties
<1>5. HandlesFresh' /\ HandlesApart'
  BY <1>1, <1>2 DEF PipeInv, PipeParts, HandlesFresh, HandlesApart, PastCharge, PastGrant, Gone
<1>6. DeletesAreAsked'
  <2> SUFFICES ASSUME NEW i \in DOMAIN pipe', pipe'[i].kind = "delete"
               PROVE  \E q \in Requests : pc'[q] \in Gone /\ pipe'[i].handles = handles[q]
    BY <1>1 DEF DeletesAreAsked
  <2>1. CASE i = Len(pipe) + 1
    BY <2>1, <1>2, <1>4 DEF Gone
  <2>2. CASE i # Len(pipe) + 1
    <3>1. i \in DOMAIN pipe /\ pipe'[i] = pipe[i]
      BY <2>2, <1>4
    <3>2. PICK q \in Requests : pc[q] \in Gone /\ pipe[i].handles = handles[q]
      BY <3>1 DEF PipeInv, PipeParts, DeletesAreAsked
    <3> QED
      BY <3>1, <3>2, <1>2 DEF Gone
  <2> QED
    BY <2>1, <2>2
<1>7. CreatesArrive'
  BY <1>1, <1>2, <1>4 DEF PipeInv, PipeParts, CreatesArrive, Using
<1>8. TasksAreGranted'
  BY <1>1, <1>2 DEF PipeInv, PipeParts, TasksAreGranted, PastGrant, Gone
<1>9. MissingIsPast'
  BY <1>1, <1>2 DEF PipeInv, PipeParts, MissingIsPast, TypeOK, PastGrant, Using, Gone
<1> QED
  BY <1>5, <1>6, <1>7, <1>8, <1>9 DEF PipeParts

LEMMA ReceiveKeepsPipe ==
  ASSUME PipeInv, Receive
  PROVE  PipeParts'
<1> DEFINE m == Head(pipe)
<1>1. /\ pipe # <<>> /\ pipe' = Tail(pipe) /\ pipe \in Seq(Messages)
      /\ tensors' = IF m.kind = "create" THEN tensors \cup m.handles ELSE tensors \ m.handles
      /\ UNCHANGED <<pc, counter, handles, jobs, serving, missing>>
  BY DEF Receive, PipeInv, TypeOK
<1>2. /\ Len(pipe') = Len(pipe) - 1 /\ Len(pipe) \in Nat \ {0} /\ m = pipe[1]
      /\ \A i \in 1 .. Len(pipe') : pipe'[i] = pipe[i + 1]
      /\ DOMAIN pipe = 1 .. Len(pipe) /\ DOMAIN pipe' = 1 .. Len(pipe')
  BY <1>1, HeadTailProperties, EmptySeq
<1>3. m \in Messages
  BY <1>1, HeadTailProperties
<1>4. HandlesFresh' /\ HandlesApart' /\ TasksAreGranted' /\ MissingIsPast'
  BY <1>1 DEF PipeInv, PipeParts, HandlesFresh, HandlesApart, TasksAreGranted, MissingIsPast
<1>5. DeletesAreAsked'
  <2> SUFFICES ASSUME NEW i \in DOMAIN pipe', pipe'[i].kind = "delete"
               PROVE  \E q \in Requests : pc[q] \in Gone /\ pipe'[i].handles = handles[q]
    BY <1>1 DEF DeletesAreAsked
  <2>1. i + 1 \in DOMAIN pipe /\ pipe'[i] = pipe[i + 1]
    BY <1>2
  <2> QED
    BY <2>1 DEF PipeInv, PipeParts, DeletesAreAsked
<1>6. CreatesArrive'
  <2> SUFFICES ASSUME NEW r \in Requests, pc[r] \in Using
               PROVE  \/ handles[r] \subseteq tensors'
                      \/ \E i \in DOMAIN pipe' : pipe'[i].kind = "create" /\ pipe'[i].handles = handles[r]
    BY <1>1 DEF CreatesArrive
  <2>1. CASE handles[r] \subseteq tensors
    <3>1. CASE m.kind = "create"
      BY <3>1, <2>1, <1>1
    <3>2. CASE m.kind # "create"
      <4>1. m.kind = "delete" /\ 1 \in DOMAIN pipe
        BY <3>2, <1>2, <1>3 DEF Messages
      <4>2. PICK q \in Requests : pc[q] \in Gone /\ m.handles = handles[q]
        BY <4>1, <1>2 DEF PipeInv, PipeParts, DeletesAreAsked
      <4>3. q # r
        BY <4>2 DEF Gone, Using
      <4>4. handles[q] \cap handles[r] = {}
        BY <4>3 DEF PipeInv, PipeParts, HandlesApart
      <4> QED
        BY <4>2, <4>4, <3>2, <2>1, <1>1
    <3> QED
      BY <3>1, <3>2
  <2>2. CASE ~(handles[r] \subseteq tensors)
    <3>1. PICK i \in DOMAIN pipe : pipe[i].kind = "create" /\ pipe[i].handles = handles[r]
      BY <2>2 DEF PipeInv, PipeParts, CreatesArrive
    <3>2. CASE i = 1
      BY <3>1, <3>2, <1>1, <1>2
    <3>3. CASE i # 1
      <4>1. i - 1 \in DOMAIN pipe' /\ pipe'[i - 1] = pipe[i]
        BY <3>1, <3>3, <1>2
      <4> QED
        BY <3>1, <4>1
    <3> QED
      BY <3>2, <3>3
  <2> QED
    BY <2>1, <2>2
<1> QED
  BY <1>4, <1>5, <1>6 DEF PipeParts

LEMMA LookupKeepsPipe ==
  ASSUME PipeInv, NEW r \in Requests, Lookup(r)
  PROVE  PipeParts'
<1>1. /\ serving = r /\ pipe = <<>> /\ serving' = NoOne
      /\ missing' = IF handles[r] \subseteq tensors THEN missing ELSE missing \cup {r}
      /\ UNCHANGED <<counter, handles, pipe, tensors, jobs>>
  BY DEF Lookup
<1>2. \A q \in Requests : pc'[q] = pc[q] \/ (pc[q] = "stepping" /\ pc'[q] = "granted")
  BY DEF Lookup, PipeInv, TypeOK, Goto
<1>3. HandlesFresh' /\ HandlesApart'
  BY <1>1, <1>2 DEF PipeInv, PipeParts, HandlesFresh, HandlesApart, PastCharge, PastGrant, Using
<1>4. DOMAIN pipe = {} /\ DOMAIN pipe' = {}
  BY <1>1
<1>5. DeletesAreAsked'
  BY <1>4 DEF DeletesAreAsked
<1>6. CreatesArrive'
  BY <1>1, <1>2 DEF PipeInv, PipeParts, CreatesArrive, Using
<1>7. TasksAreGranted'
  BY <1>1, <1>2, CacheAssumption DEF PipeInv, PipeParts, TasksAreGranted, PastGrant, Using
<1>8. MissingIsPast'
  <2>1. pc[r] \in PastGrant
    BY <1>1 DEF PipeInv, PipeParts, TasksAreGranted
  <2>2. pc[r] \in Using => handles[r] \subseteq tensors
    BY <1>4 DEF PipeInv, PipeParts, CreatesArrive
  <2>3. \A q \in missing' : q \in Requests /\ pc[q] \in PastGrant \ Using
    BY <1>1, <2>1, <2>2 DEF PipeInv, PipeParts, MissingIsPast, TypeOK
  <2> QED
    BY <2>3, <1>2 DEF MissingIsPast, Using
<1> QED
  BY <1>3, <1>5, <1>6, <1>7, <1>8 DEF PipeParts

LEMMA PipeInvStep == PipeInv /\ [Next]_vars => PipeInv'
<1> SUFFICES ASSUME PipeInv, [Next]_vars PROVE PipeParts'
  BY StepTyped DEF PipeInv
<1> TypeOK
  BY DEF PipeInv
<1> USE DEF PastCharge, PastGrant, Using, Gone
<1>1. ASSUME NEW r \in Requests, Enqueue(r) PROVE PipeParts'
  BY <1>1, AwayFromPipe DEF Enqueue
<1>2. ASSUME NEW r \in Requests, Admit(r) PROVE PipeParts'
  BY <1>2, AwayFromPipe DEF Admit
<1>3. ASSUME NEW r \in Requests, CheckMemory(r) PROVE PipeParts'
  BY <1>3, AwayFromPipe DEF CheckMemory
<1>4. ASSUME NEW r \in Requests, LeaveLock(r) PROVE PipeParts'
  BY <1>4, AwayFromPipe DEF LeaveLock
<1>5. ASSUME NEW r \in Requests, Dequeue(r) PROVE PipeParts'
  BY <1>5, AwayFromPipe DEF Dequeue
<1>6. ASSUME NEW r \in Requests, Charge(r) PROVE PipeParts'
  BY <1>6, ChargeKeepsPipe
<1>7. ASSUME NEW r \in Requests, SendCreate(r) PROVE PipeParts'
  BY <1>7, SendCreateKeepsPipe
<1>8. ASSUME NEW r \in Requests, Withdraw(r) PROVE PipeParts'
  BY <1>8, AwayFromPipe DEF Withdraw
<1>9. ASSUME NEW r \in Requests, Expire(r) PROVE PipeParts'
  BY <1>9, AwayFromPipe DEF Expire
<1>10. ASSUME NEW r \in Requests, ThreadAcquire(r) PROVE PipeParts'
  BY <1>10, StillPipe, AwayFromPipe DEF ThreadAcquire
<1>11. ASSUME NEW r \in Requests, ThreadTests(r) PROVE PipeParts'
  BY <1>11, StillPipe, AwayFromPipe DEF ThreadTests
<1>12. ASSUME NEW r \in Requests, ThreadWakes(r) PROVE PipeParts'
  BY <1>12, StillPipe DEF ThreadWakes
<1>13. ASSUME NEW r \in Requests, ThreadClears(r) PROVE PipeParts'
  BY <1>13, StillPipe DEF ThreadClears
<1>14. ASSUME NEW r \in Requests, ThreadExpires(r) PROVE PipeParts'
  BY <1>14, StillPipe DEF ThreadExpires
<1>15. ASSUME NEW r \in Requests, SubmitStep(r) PROVE PipeParts'
  <2>1. \A q \in Requests : pc'[q] = IF q = r THEN "stepping" ELSE pc[q]
    BY <1>15 DEF SubmitStep, Goto, TypeOK
  <2>2. /\ pc[r] = "granted" /\ jobs' = jobs \cup {r}
        /\ UNCHANGED <<counter, handles, pipe, tensors, serving, missing>>
    BY <1>15 DEF SubmitStep
  <2>3. HandlesFresh' /\ HandlesApart' /\ DeletesAreAsked'
    BY <2>1, <2>2 DEF PipeInv, PipeParts, HandlesFresh, HandlesApart, DeletesAreAsked
  <2>4. CreatesArrive' /\ TasksAreGranted'
    BY <2>1, <2>2 DEF PipeInv, PipeParts, CreatesArrive, TasksAreGranted
  <2>5. MissingIsPast'
    BY <2>1, <2>2 DEF PipeInv, PipeParts, MissingIsPast, TypeOK
  <2> QED
    BY <2>3, <2>4, <2>5 DEF PipeParts
<1>16. ASSUME NEW r \in Requests, EndSession(r) PROVE PipeParts'
  BY <1>16, AwayFromPipe DEF EndSession
<1>17. ASSUME NEW r \in Requests, EnterFree(r) PROVE PipeParts'
  BY <1>17, AwayFromPipe DEF EnterFree
<1>18. ASSUME NEW r \in Requests, SendDelete(r) PROVE PipeParts'
  BY <1>18, SendDeleteKeepsPipe
<1>19. ASSUME NEW r \in Requests, Uncharge(r) PROVE PipeParts'
  BY <1>19, AwayFromPipe DEF Uncharge
<1>20. ASSUME NEW r \in Requests, SignalFreed(r) PROVE PipeParts'
  BY <1>20, AwayFromPipe DEF SignalFreed
<1>21. ASSUME NEW r \in Requests, BeginUse(r) PROVE PipeParts'
  BY <1>21 DEF BeginUse, PipeInv, PipeParts, HandlesFresh, HandlesApart, DeletesAreAsked,
     CreatesArrive, TasksAreGranted, MissingIsPast
<1>22. ASSUME NEW r \in Requests, Lookup(r) PROVE PipeParts'
  BY <1>22, LookupKeepsPipe
<1>23. CASE Receive
  BY <1>23, ReceiveKeepsPipe
<1>24. CASE UNCHANGED vars
  BY <1>24, StillPipe DEF vars
<1> QED
  BY <1>1, <1>2, <1>3, <1>4, <1>5, <1>6, <1>7, <1>8, <1>9, <1>10, <1>11, <1>12,
     <1>13, <1>14, <1>15, <1>16, <1>17, <1>18, <1>19, <1>20, <1>21, <1>22, <1>23, <1>24
  DEF Next, Coroutine, Thread, Runtime

\* use_cache finds the tensors of every session in use: creations and deletions
\* from several handlers share one ordered pipe, and handles are never reused.
THEOREM LiveFindsItsTensors == Spec => []LiveFindsTensors
<1>1. PipeInv => LiveFindsTensors
  BY DEF PipeInv, PipeParts, MissingIsPast, LiveFindsTensors, Live, PastGrant, Using, Gone
<1> QED
  BY <1>1, PipeInvInit, PipeInvStep, PTL DEF Spec
-----------------------------------------------------------------------------
(***************************************************************************)
(* The Runtime's buffers, under one handler process.  They lag behind the  *)
(* counter by the messages in the pipe, so the invariant bounds the        *)
(* buffers that exist after every prefix of the pipe: what is charged      *)
(* bounds them at its end, and receiving a message takes a prefix to the   *)
(* next.                                                                   *)
(***************************************************************************)

\* Message i tells the Runtime of the buffers of r.
CreateAt(r, i) == pipe[i].kind = "create" /\ pipe[i].handles = handles[r]
DeleteAt(r, i) == pipe[i].kind = "delete" /\ pipe[i].handles = handles[r]

\* r has buffers once the Runtime has received k of the messages.
HasBuffers(r, k) ==
  /\ handles[r] # {}
  /\ handles[r] \subseteq tensors \/ \E i \in 1 .. k : CreateAt(r, i)
  /\ ~\E i \in 1 .. k : DeleteAt(r, i)
Present(k) == {r \in Requests : HasBuffers(r, k)}

\* The Runtime hears only of handles that were given out.
HandlesKnown ==
  /\ \A h \in tensors : h < counter
  /\ \A i \in 1 .. Len(pipe) : \E q \in Requests : pc[q] \in PastCharge /\ pipe[i].handles = handles[q]
HandlesGiven == \A r \in Requests : pc[r] \in PastCharge => handles[r] # {}

\* Buffers are made before they are dropped.
CreatesFirst ==
  \A r \in Requests : \A i, j \in 1 .. Len(pipe) : CreateAt(r, i) /\ DeleteAt(r, j) => i < j

\* At the end of the pipe, whose buffers were asked to go have gone.
GoneAtEnd == \A r \in Present(Len(pipe)) : pc[r] \notin Gone

\* However much of the pipe the Runtime has received, its buffers fit.
Fits(S) == IsFiniteSet(S) /\ TotalSize(S) <= MaxSize
PrefixesFit == \A k \in 0 .. Len(pipe) : Fits(Present(k))

BufferParts ==
  /\ HandlesKnown
  /\ HandlesGiven
  /\ CreatesFirst
  /\ GoneAtEnd
  /\ PrefixesFit

BufferInv == BudgetInv /\ AccountInv /\ PipeInv /\ BufferParts

LEMMA FewerFit ==
  ASSUME NEW S, NEW T, S \subseteq T, T \subseteq Requests, Fits(T) PROVE Fits(S)
<1>1. IsFiniteSet(T) /\ IsFiniteSet(S)
  BY FS_Subset DEF Fits
<1>2. Sizes \in [Requests -> Nat] /\ \A r \in S : Sizes[r] <= Sizes[r]
  BY AllocSizeNat DEF Sizes
<1>3. Sum(Sizes, S) <= Sum(Sizes, T)
  BY <1>1, <1>2, SumMonotone
<1>4. TotalSize(S) = Sum(Sizes, S) /\ TotalSize(T) = Sum(Sizes, T)
  BY <1>1, TotalIsSum
<1>5. TotalSize(S) \in Nat /\ TotalSize(T) \in Nat /\ MaxSize \in Nat
  BY <1>1, TotalTyped, CacheAssumption
<1> QED
  BY <1>1, <1>3, <1>4, <1>5 DEF Fits

\* What is charged fits.
LEMMA ChargedFits == BufferInv => Fits(Charged)
BY DEF BufferInv, AccountInv, BudgetInv, WithinBudget, Fits

\* Whoever will have buffers when the pipe is empty is charged for them.
LEMMA PresentCharged == BufferInv => Present(Len(pipe)) \subseteq Charged
<1> SUFFICES ASSUME BufferInv, NEW r \in Present(Len(pipe)) PROVE r \in Charged
  OBVIOUS
<1>1. r \in Requests /\ handles[r] # {} /\ pc[r] \notin Gone
  BY DEF BufferInv, BufferParts, GoneAtEnd, Present, HasBuffers
<1>2. pc[r] \in PastCharge
  BY <1>1 DEF BufferInv, PipeInv, PipeParts, HandlesFresh
<1> QED
  BY <1>1, <1>2 DEF Charged, ChargedAt, PastCharge, PastGrant, Using, Gone

\* A step by which no session loses its handles and none is gone.
LEMMA BufferMove ==
  ASSUME BufferInv, UNCHANGED <<counter, handles, pipe, tensors>>,
         \A r \in Requests : /\ pc[r] \in PastCharge <=> pc'[r] \in PastCharge
                             /\ pc'[r] \in Gone => pc[r] \in Gone
  PROVE  BufferParts'
<1>1. \A k \in 0 .. Len(pipe) : Present(k)' = Present(k)
  BY DEF Present, HasBuffers, CreateAt, DeleteAt
<1>2. HandlesKnown' /\ HandlesGiven' /\ CreatesFirst'
  BY DEF BufferInv, BufferParts, HandlesKnown, HandlesGiven, CreatesFirst, CreateAt, DeleteAt
<1>3. Present(Len(pipe))' = Present(Len(pipe))
  BY DEF Present, HasBuffers, CreateAt, DeleteAt
<1>4. GoneAtEnd'
  BY <1>3 DEF BufferInv, BufferParts, GoneAtEnd, Present
<1>5. PrefixesFit'
  BY <1>1 DEF BufferInv, BufferParts, PrefixesFit
<1> QED
  BY <1>2, <1>4, <1>5 DEF BufferParts

\* New handles are of nobody's buffers and in nobody's messages.
LEMMA BufferCharge ==
  ASSUME BufferInv, NEW r \in Requests, Charge(r) PROVE BufferParts'
<1>1. PICK new : new = counter .. (counter + HandlesPerAlloc - 1)
  OBVIOUS
<1>2. /\ pc[r] = "dequeued" /\ counter' = counter + HandlesPerAlloc
      /\ UNCHANGED <<pipe, tensors>>
  BY DEF Charge
<1>3. \A q \in Requests : /\ pc'[q] = IF q = r THEN "sending" ELSE pc[q]
                          /\ handles'[q] = IF q = r THEN new ELSE handles[q]
  BY <1>1 DEF BufferInv, PipeInv, TypeOK, Goto, Charge
<1>4. counter \in Nat /\ HandlesPerAlloc \in Nat \ {0} /\ Len(pipe) \in Nat
  BY CacheAssumption, LenProperties DEF BufferInv, PipeInv, TypeOK
<1>5. counter \in new /\ counter < counter'
  BY <1>1, <1>2, <1>4
<1>6. \A q \in Requests \ {r} : \A h \in handles[q] : h < counter
  BY DEF BufferInv, PipeInv, PipeParts, HandlesFresh
<1>7. pc[r] \notin PastCharge /\ handles[r] = {}
  BY <1>2 DEF BufferInv, PipeInv, PipeParts, HandlesFresh, PastCharge, PastGrant, Using, Gone
<1>8. HandlesKnown'
  <2>1. \A h \in tensors' : h < counter'
    BY <1>2, <1>4, <1>5 DEF BufferInv, BufferParts, HandlesKnown, PipeInv, TypeOK
  <2>2. \A i \in 1 .. Len(pipe') : \E q \in Requests : pc'[q] \in PastCharge /\ pipe'[i].handles = handles'[q]
    BY <1>2, <1>3, <1>7 DEF BufferInv, BufferParts, HandlesKnown
  <2> QED
    BY <2>1, <2>2 DEF HandlesKnown
<1>9. HandlesGiven'
  BY <1>3, <1>5 DEF BufferInv, BufferParts, HandlesGiven
<1>10. ~(new \subseteq tensors)
  BY <1>4, <1>5 DEF BufferInv, BufferParts, HandlesKnown
<1>11. \A i \in 1 .. Len(pipe) : pipe[i].handles # new
  <2> SUFFICES ASSUME NEW i \in 1 .. Len(pipe), pipe[i].handles = new PROVE FALSE
    OBVIOUS
  <2>1. PICK q \in Requests : pc[q] \in PastCharge /\ pipe[i].handles = handles[q]
    BY DEF BufferInv, BufferParts, HandlesKnown
  <2>2. counter < counter
    BY <2>1, <1>5, <1>6, <1>7
  <2> QED
    BY <2>2, <1>4
<1>12. \A k \in 0 .. Len(pipe) : HasBuffers(r, k)' = HasBuffers(r, k)
  BY <1>2, <1>3, <1>4, <1>7, <1>10, <1>11 DEF HasBuffers, CreateAt
<1>13. \A k \in 0 .. Len(pipe) : \A q \in Requests \ {r} : HasBuffers(q, k)' = HasBuffers(q, k)
  BY <1>2, <1>3 DEF HasBuffers, CreateAt, DeleteAt
<1>14. \A k \in 0 .. Len(pipe) : Present(k)' = Present(k)
  BY <1>12, <1>13 DEF Present
<1>15. CreatesFirst'
  BY <1>2, <1>3, <1>11 DEF BufferInv, BufferParts, CreatesFirst, CreateAt, DeleteAt
<1>16. GoneAtEnd'
  <2>1. Len(pipe) \in 0 .. Len(pipe) /\ Len(pipe') = Len(pipe)
    BY <1>2, <1>4
  <2>2. Present(Len(pipe))' = Present(Len(pipe))
    BY <2>1, <1>14
  <2>3. \A q \in Present(Len(pipe)) : q \in Requests /\ pc[q] \notin Gone
    BY DEF BufferInv, BufferParts, GoneAtEnd, Present
  <2> QED
    BY <2>2, <2>3, <1>3 DEF GoneAtEnd, Gone
<1>17. PrefixesFit'
  BY <1>2, <1>14 DEF BufferInv, BufferParts, PrefixesFit
<1> QED
  BY <1>8, <1>9, <1>15, <1>16, <1>17 DEF BufferParts

\* A message at the end of the pipe changes what follows the last one only.
LEMMA BufferAppend ==
  ASSUME BufferInv, NEW m \in Messages, pipe' = Append(pipe, m), UNCHANGED <<handles, tensors>>
  PROVE  /\ Len(pipe) \in Nat /\ Len(pipe') = Len(pipe) + 1 /\ pipe'[Len(pipe) + 1] = m
         /\ \A i \in 1 .. Len(pipe) : pipe'[i] = pipe[i]
         /\ \A k \in 0 .. Len(pipe) : Present(k)' = Present(k)
<1>1. pipe \in Seq(Messages)
  BY DEF BufferInv, PipeInv, TypeOK
<1>2. /\ Len(pipe) \in Nat /\ Len(pipe') = Len(pipe) + 1 /\ pipe'[Len(pipe) + 1] = m
      /\ \A i \in 1 .. Len(pipe) : pipe'[i] = pipe[i]
  BY <1>1, AppendProperties, LenProperties
<1>3. ASSUME NEW k \in 0 .. Len(pipe) PROVE Present(k)' = Present(k)
  <2>1. \A i \in 1 .. k : pipe'[i] = pipe[i]
    BY <1>2
  <2> QED
    BY <2>1 DEF Present, HasBuffers, CreateAt, DeleteAt
<1> QED
  BY <1>2, <1>3

LEMMA BufferSendCreate ==
  ASSUME BufferInv, NEW r \in Requests, SendCreate(r) PROVE BufferParts'
<1>1. PICK m : m = [kind |-> "create", handles |-> handles[r]]
  OBVIOUS
<1>2. /\ pc[r] = "sending" /\ pipe' = Append(pipe, m)
      /\ UNCHANGED <<counter, handles, tensors>>
  BY <1>1 DEF SendCreate
<1>3. \A q \in Requests : pc'[q] = IF q = r THEN "granted" ELSE pc[q]
  BY DEF BufferInv, PipeInv, TypeOK, Goto, SendCreate
<1>4. m \in Messages
  BY <1>1 DEF BufferInv, PipeInv, TypeOK, Messages
<1>5. PICK n \in Nat : n = Len(pipe)
  BY <1>2, <1>4, BufferAppend
<1>6. /\ Len(pipe') = n + 1 /\ pipe'[n + 1] = m
      /\ \A i \in 1 .. n : pipe'[i] = pipe[i]
      /\ \A k \in 0 .. n : Present(k)' = Present(k)
  BY <1>2, <1>4, <1>5, BufferAppend
<1>7. pc[r] \in PastCharge \ Gone /\ pc'[r] \in PastCharge \ Gone
  BY <1>2, <1>3 DEF PastCharge, PastGrant, Using, Gone
<1>8. handles[r] # {}
  BY <1>7 DEF BufferInv, BufferParts, HandlesGiven
<1>9. HandlesKnown'
  <2>1. \A i \in 1 .. Len(pipe') : \E q \in Requests : pc'[q] \in PastCharge /\ pipe'[i].handles = handles'[q]
    <3> SUFFICES ASSUME NEW i \in 1 .. (n + 1)
                 PROVE  \E q \in Requests : pc'[q] \in PastCharge /\ pipe'[i].handles = handles[q]
      BY <1>2, <1>6
    <3>1. CASE i = n + 1
      BY <3>1, <1>1, <1>6, <1>7
    <3>2. CASE i # n + 1
      <4>1. i \in 1 .. n
        BY <3>2
      <4>2. PICK q \in Requests : pc[q] \in PastCharge /\ pipe[i].handles = handles[q]
        BY <4>1, <1>5 DEF BufferInv, BufferParts, HandlesKnown
      <4> QED
        BY <4>1, <4>2, <1>3, <1>6, <1>7
    <3> QED
      BY <3>1, <3>2
  <2> QED
    BY <2>1, <1>2 DEF BufferInv, BufferParts, HandlesKnown
<1>10. HandlesGiven'
  BY <1>2, <1>3, <1>8 DEF BufferInv, BufferParts, HandlesGiven
<1>11. \A j \in 1 .. n : ~DeleteAt(r, j)
  <2> SUFFICES ASSUME NEW j \in 1 .. n, DeleteAt(r, j) PROVE FALSE
    OBVIOUS
  <2>1. j \in DOMAIN pipe
    BY <1>5, LenProperties DEF BufferInv, PipeInv, TypeOK
  <2>2. PICK p \in Requests : pc[p] \in Gone /\ handles[r] = handles[p]
    BY <2>1 DEF DeleteAt, BufferInv, PipeInv, PipeParts, DeletesAreAsked
  <2>3. p # r
    BY <2>2, <1>7
  <2> QED
    BY <2>2, <2>3, <1>8 DEF BufferInv, PipeInv, PipeParts, HandlesApart
<1>12. CreatesFirst'
  <2> SUFFICES ASSUME NEW q \in Requests, NEW i \in 1 .. (n + 1), NEW j \in 1 .. (n + 1),
                      CreateAt(q, i)', DeleteAt(q, j)'
               PROVE  i < j
    BY <1>6 DEF CreatesFirst
  <2>1. j \in 1 .. n /\ DeleteAt(q, j)
    BY <1>1, <1>2, <1>6 DEF DeleteAt
  <2>2. CASE i = n + 1
    <3>1. handles[q] = handles[r]
      BY <2>2, <1>1, <1>2, <1>6 DEF CreateAt
    <3> QED
      BY <3>1, <2>1, <1>11 DEF DeleteAt
  <2>3. CASE i # n + 1
    <3>1. i \in 1 .. n
      BY <2>3
    <3>2. CreateAt(q, i)
      BY <3>1, <1>2, <1>6 DEF CreateAt
    <3> QED
      BY <3>1, <3>2, <2>1, <1>5 DEF BufferInv, BufferParts, CreatesFirst
  <2> QED
    BY <2>2, <2>3
<1>13. Present(n + 1)' \subseteq Present(n) \cup {r}
  <2> SUFFICES ASSUME NEW q \in Requests, HasBuffers(q, n + 1)', q # r PROVE HasBuffers(q, n)
    BY DEF Present
  <2>1. handles[q] \cap handles[r] = {}
    BY DEF BufferInv, PipeInv, PipeParts, HandlesApart
  <2>2. ~CreateAt(q, n + 1)'
    BY <2>1, <1>1, <1>2, <1>6, <1>8 DEF CreateAt
  <2>3. \A i \in 1 .. n : (CreateAt(q, i)' <=> CreateAt(q, i)) /\ (DeleteAt(q, i)' <=> DeleteAt(q, i))
    BY <1>2, <1>6 DEF CreateAt, DeleteAt
  <2>4. \A i \in 1 .. (n + 1) : i \in 1 .. n \/ i = n + 1
    OBVIOUS
  <2>5. \A i \in 1 .. n : i \in 1 .. (n + 1)
    OBVIOUS
  <2> QED
    BY <2>2, <2>3, <2>4, <2>5, <1>2 DEF HasBuffers
<1>14. GoneAtEnd'
  <2>1. \A q \in Present(n) : pc[q] \notin Gone
    BY <1>5 DEF BufferInv, BufferParts, GoneAtEnd
  <2>2. \A q \in Present(n + 1)' : q \in Requests
    BY DEF Present
  <2>3. \A q \in Present(n + 1)' : pc'[q] \notin Gone
    BY <2>1, <2>2, <1>3, <1>7, <1>13
  <2> QED
    BY <2>3, <1>6 DEF GoneAtEnd
<1>15. Fits(Present(n + 1)')
  <2>1. r \in Charged /\ Present(n) \subseteq Charged /\ Charged \subseteq Requests
    BY <1>2, <1>5, PresentCharged DEF Charged, ChargedAt
  <2>2. Fits(Charged)
    BY ChargedFits
  <2>3. PICK S : S = Present(n + 1)'
    OBVIOUS
  <2>4. S \subseteq Charged
    BY <2>1, <2>3, <1>13
  <2> QED
    BY <2>1, <2>2, <2>3, <2>4, FewerFit
<1>16. PrefixesFit'
  <2>1. \A k \in 0 .. n : Fits(Present(k)')
    BY <1>5, <1>6 DEF BufferInv, BufferParts, PrefixesFit
  <2>2. \A k \in 0 .. (n + 1) : k \in 0 .. n \/ k = n + 1
    OBVIOUS
  <2> QED
    BY <2>1, <2>2, <1>6, <1>15 DEF PrefixesFit
<1> QED
  BY <1>9, <1>10, <1>12, <1>14, <1>16 DEF BufferParts

LEMMA BufferSendDelete ==
  ASSUME BufferInv, NEW r \in Requests, SendDelete(r) PROVE BufferParts'
<1>1. PICK m : m = [kind |-> "delete", handles |-> handles[r]]
  OBVIOUS
<1>2. /\ pc[r] = "deleting" /\ pipe' = Append(pipe, m)
      /\ UNCHANGED <<counter, handles, tensors>>
  BY <1>1 DEF SendDelete
<1>3. \A q \in Requests : pc'[q] = IF q = r THEN "uncharging" ELSE pc[q]
  BY DEF BufferInv, PipeInv, TypeOK, Goto, SendDelete
<1>4. m \in Messages
  BY <1>1 DEF BufferInv, PipeInv, TypeOK, Messages
<1>5. PICK n \in Nat : n = Len(pipe)
  BY <1>2, <1>4, BufferAppend
<1>6. /\ Len(pipe') = n + 1 /\ pipe'[n + 1] = m
      /\ \A i \in 1 .. n : pipe'[i] = pipe[i]
      /\ \A k \in 0 .. n : Present(k)' = Present(k)
  BY <1>2, <1>4, <1>5, BufferAppend
<1>7. pc[r] \in PastCharge /\ pc'[r] \in PastCharge
  BY <1>2, <1>3 DEF PastCharge, PastGrant, Using, Gone
<1>8. HandlesKnown'
  <2>1. \A i \in 1 .. Len(pipe') : \E q \in Requests : pc'[q] \in PastCharge /\ pipe'[i].handles = handles'[q]
    <3> SUFFICES ASSUME NEW i \in 1 .. (n + 1)
                 PROVE  \E q \in Requests : pc'[q] \in PastCharge /\ pipe'[i].handles = handles[q]
      BY <1>2, <1>6
    <3>1. CASE i = n + 1
      BY <3>1, <1>1, <1>6, <1>7
    <3>2. CASE i # n + 1
      <4>1. i \in 1 .. n
        BY <3>2
      <4>2. PICK q \in Requests : pc[q] \in PastCharge /\ pipe[i].handles = handles[q]
        BY <4>1, <1>5 DEF BufferInv, BufferParts, HandlesKnown
      <4> QED
        BY <4>1, <4>2, <1>3, <1>6, <1>7
    <3> QED
      BY <3>1, <3>2
  <2> QED
    BY <2>1, <1>2 DEF BufferInv, BufferParts, HandlesKnown
<1>9. HandlesGiven'
  BY <1>2, <1>3, <1>7 DEF BufferInv, BufferParts, HandlesGiven
<1>10. CreatesFirst'
  <2> SUFFICES ASSUME NEW q \in Requests, NEW i \in 1 .. (n + 1), NEW j \in 1 .. (n + 1),
                      CreateAt(q, i)', DeleteAt(q, j)'
               PROVE  i < j
    BY <1>6 DEF CreatesFirst
  <2>1. i \in 1 .. n /\ CreateAt(q, i)
    BY <1>1, <1>2, <1>6 DEF CreateAt
  <2>2. CASE j = n + 1
    BY <2>1, <2>2
  <2>3. CASE j # n + 1
    <3>1. j \in 1 .. n
      BY <2>3
    <3>2. DeleteAt(q, j)
      BY <3>1, <1>2, <1>6 DEF DeleteAt
    <3> QED
      BY <3>1, <3>2, <2>1, <1>5 DEF BufferInv, BufferParts, CreatesFirst
  <2> QED
    BY <2>2, <2>3
<1>11. Present(n + 1)' \subseteq Present(n) \ {r}
  <2>1. ASSUME NEW q \in Requests, HasBuffers(q, n + 1)' PROVE q # r /\ HasBuffers(q, n)
    <3>1. n + 1 \in 1 .. (n + 1) /\ \A i \in 1 .. n : i \in 1 .. (n + 1)
      OBVIOUS
    <3>2. ~DeleteAt(q, n + 1)' /\ ~CreateAt(q, n + 1)'
      BY <2>1, <3>1, <1>1, <1>6 DEF HasBuffers, CreateAt
    <3>3. q # r
      BY <3>2, <1>1, <1>2, <1>6 DEF DeleteAt
    <3>4. \A i \in 1 .. n : (CreateAt(q, i)' <=> CreateAt(q, i)) /\ (DeleteAt(q, i)' <=> DeleteAt(q, i))
      BY <1>2, <1>6 DEF CreateAt, DeleteAt
    <3>5. \A i \in 1 .. (n + 1) : i \in 1 .. n \/ i = n + 1
      OBVIOUS
    <3> QED
      BY <2>1, <3>1, <3>2, <3>3, <3>4, <3>5, <1>2 DEF HasBuffers
  <2> QED
    BY <2>1 DEF Present
<1>12. GoneAtEnd'
  <2>1. \A q \in Present(n) : q \in Requests /\ pc[q] \notin Gone
    BY <1>5 DEF BufferInv, BufferParts, GoneAtEnd, Present
  <2>2. \A q \in Present(n + 1)' : pc'[q] \notin Gone
    BY <2>1, <1>3, <1>11
  <2> QED
    BY <2>2, <1>6 DEF GoneAtEnd
<1>13. Fits(Present(n + 1)')
  <2>1. Present(n) \subseteq Requests /\ n \in 0 .. n
    BY DEF Present
  <2>2. Fits(Present(n))
    BY <2>1, <1>5 DEF BufferInv, BufferParts, PrefixesFit
  <2>3. PICK S : S = Present(n + 1)'
    OBVIOUS
  <2>4. S \subseteq Present(n)
    BY <2>3, <1>11
  <2> QED
    BY <2>1, <2>2, <2>3, <2>4, FewerFit
<1>14. PrefixesFit'
  <2>1. \A k \in 0 .. n : Fits(Present(k)')
    BY <1>5, <1>6 DEF BufferInv, BufferParts, PrefixesFit
  <2>2. \A k \in 0 .. (n + 1) : k \in 0 .. n \/ k = n + 1
    OBVIOUS
  <2> QED
    BY <2>1, <2>2, <1>6, <1>13 DEF PrefixesFit
<1> QED
  BY <1>8, <1>9, <1>10, <1>12, <1>14 DEF BufferParts

\* After one message the Runtime is where it was to be after one message.
LEMMA BufferReceive ==
  ASSUME BufferInv, Receive PROVE BufferParts'
<1>1. PICK m : m = Head(pipe)
  OBVIOUS
<1>2. /\ pipe # <<>> /\ pipe' = Tail(pipe) /\ pipe \in Seq(Messages)
      /\ tensors' = IF m.kind = "create" THEN tensors \cup m.handles ELSE tensors \ m.handles
      /\ UNCHANGED <<pc, counter, handles>>
  BY <1>1 DEF Receive, BufferInv, PipeInv, TypeOK
<1>3. PICK n \in Nat : n + 1 = Len(pipe)
  BY <1>2, HeadTailProperties, EmptySeq
<1>4. /\ Len(pipe') = n /\ m = pipe[1] /\ m \in Messages
      /\ \A i \in 1 .. n : pipe'[i] = pipe[i + 1]
  BY <1>1, <1>2, <1>3, HeadTailProperties, EmptySeq
<1>5. \A i \in 1 .. n : i + 1 \in 1 .. (n + 1)
  OBVIOUS
<1>6. 1 \in 1 .. (n + 1)
  OBVIOUS
<1>7. PICK p \in Requests : pc[p] \in PastCharge /\ m.handles = handles[p]
  BY <1>3, <1>4, <1>6 DEF BufferInv, BufferParts, HandlesKnown
<1>8. \A q \in Requests : \A i \in 1 .. n :
        (CreateAt(q, i)' <=> CreateAt(q, i + 1)) /\ (DeleteAt(q, i)' <=> DeleteAt(q, i + 1))
  BY <1>2, <1>4 DEF CreateAt, DeleteAt
<1>9. HandlesKnown'
  <2>1. \A h \in m.handles : h < counter
    BY <1>7 DEF BufferInv, PipeInv, PipeParts, HandlesFresh
  <2>2. \A h \in tensors' : h < counter'
    BY <2>1, <1>2 DEF BufferInv, BufferParts, HandlesKnown
  <2>3. \A i \in 1 .. Len(pipe') : \E q \in Requests : pc'[q] \in PastCharge /\ pipe'[i].handles = handles'[q]
    BY <1>2, <1>3, <1>4, <1>5 DEF BufferInv, BufferParts, HandlesKnown
  <2> QED
    BY <2>2, <2>3 DEF HandlesKnown
<1>10. HandlesGiven'
  BY <1>2 DEF BufferInv, BufferParts, HandlesGiven
<1>11. CreatesFirst'
  <2> SUFFICES ASSUME NEW q \in Requests, NEW i \in 1 .. n, NEW j \in 1 .. n,
                      CreateAt(q, i)', DeleteAt(q, j)'
               PROVE  i < j
    BY <1>4 DEF CreatesFirst
  <2>1. CreateAt(q, i + 1) /\ DeleteAt(q, j + 1)
    BY <1>8
  <2>2. i + 1 < j + 1
    BY <2>1, <1>3, <1>5 DEF BufferInv, BufferParts, CreatesFirst
  <2> QED
    BY <2>2
<1>12. ASSUME NEW k \in 0 .. n PROVE Present(k)' \subseteq Present(k + 1)
  <2> SUFFICES ASSUME NEW q \in Requests, HasBuffers(q, k)' PROVE HasBuffers(q, k + 1)
    BY DEF Present
  <2>1. \A i \in 1 .. k : i \in 1 .. n /\ i + 1 \in 1 .. (k + 1)
    OBVIOUS
  <2>2. \A j \in 1 .. (k + 1) : j = 1 \/ j - 1 \in 1 .. k
    OBVIOUS
  <2>3. handles[q] # {} /\ 1 \in 1 .. (k + 1)
    BY <1>2 DEF HasBuffers
  <2>4. ~\E j \in 1 .. (k + 1) : DeleteAt(q, j)
    <3> SUFFICES ASSUME NEW j \in 1 .. (k + 1), DeleteAt(q, j) PROVE FALSE
      OBVIOUS
    <3>1. CASE j = 1
      <4>1. m.kind = "delete" /\ m.handles = handles[q]
        BY <3>1, <1>4 DEF DeleteAt
      <4>2. ~(handles[q] \subseteq tensors')
        BY <4>1, <2>3, <1>2
      <4>3. PICK i \in 1 .. k : CreateAt(q, i)'
        BY <4>2, <1>2 DEF HasBuffers
      <4>4. CreateAt(q, i + 1) /\ i + 1 \in 1 .. (n + 1)
        BY <4>3, <2>1, <1>5, <1>8
      <4>5. DeleteAt(q, 1)
        BY <3>1
      <4>6. i + 1 < 1
        BY <4>4, <4>5, <1>3, <1>6 DEF BufferInv, BufferParts, CreatesFirst
      <4> QED
        BY <4>6
    <3>2. CASE j # 1
      <4>1. j - 1 \in 1 .. k /\ (j - 1) + 1 = j
        BY <3>2, <2>2
      <4>2. DeleteAt(q, j - 1)'
        BY <4>1, <2>1, <1>8
      <4> QED
        BY <4>1, <4>2 DEF HasBuffers
    <3> QED
      BY <3>1, <3>2
  <2>5. handles[q] \subseteq tensors \/ \E j \in 1 .. (k + 1) : CreateAt(q, j)
    <3>1. CASE \E i \in 1 .. k : CreateAt(q, i)'
      BY <3>1, <2>1, <1>8
    <3>2. CASE handles[q] \subseteq tensors'
      <4>1. CASE m.kind = "create" /\ p = q
        BY <4>1, <2>3, <1>4, <1>7 DEF CreateAt
      <4>2. CASE m.kind = "create" /\ p # q
        <5>1. handles[p] \cap handles[q] = {}
          BY <4>2 DEF BufferInv, PipeInv, PipeParts, HandlesApart
        <5> QED
          BY <5>1, <4>2, <3>2, <1>2, <1>7
      <4>3. CASE m.kind # "create"
        BY <4>3, <3>2, <1>2
      <4> QED
        BY <4>1, <4>2, <4>3
    <3> QED
      BY <3>1, <3>2, <1>2 DEF HasBuffers
  <2> QED
    BY <2>3, <2>4, <2>5 DEF HasBuffers
<1>13. GoneAtEnd'
  <2>1. Present(n)' \subseteq Present(n + 1)
    BY <1>12
  <2> QED
    BY <2>1, <1>2, <1>3, <1>4 DEF BufferInv, BufferParts, GoneAtEnd
<1>14. PrefixesFit'
  <2> SUFFICES ASSUME NEW k \in 0 .. n PROVE Fits(Present(k)')
    BY <1>4 DEF PrefixesFit
  <2>1. Present(k + 1) \subseteq Requests /\ k + 1 \in 0 .. (n + 1)
    BY DEF Present
  <2>2. Fits(Present(k + 1))
    BY <2>1, <1>3 DEF BufferInv, BufferParts, PrefixesFit
  <2>3. PICK S : S = Present(k)'
    OBVIOUS
  <2>4. S \subseteq Present(k + 1)
    BY <2>3, <1>12
  <2> QED
    BY <2>1, <2>2, <2>3, <2>4, FewerFit
<1> QED
  BY <1>9, <1>10, <1>11, <1>13, <1>14 DEF BufferParts

LEMMA BufferInvStep ==
  ASSUME OneLoop, BufferInv, [Next]_vars PROVE BufferInv'
<1> TypeOK
  BY DEF BufferInv, PipeInv
<1> SUFFICES BufferParts'
  BY BudgetInvStep, AccountStep, PipeInvStep DEF BufferInv
<1>1. ASSUME NEW r \in Requests, NEW l, Goto(r, l), UNCHANGED <<counter, handles, pipe, tensors>>,
             l \in PastCharge <=> pc[r] \in PastCharge, l \in Gone => pc[r] \in Gone
      PROVE  BufferParts'
  <2>1. \A q \in Requests : pc'[q] = IF q = r THEN l ELSE pc[q]
    BY <1>1 DEF TypeOK, Goto
  <2> QED
    BY <1>1, <2>1, BufferMove
<1>2. ASSUME UNCHANGED <<pc, counter, handles, pipe, tensors>> PROVE BufferParts'
  BY <1>2, BufferMove
<1>3. ASSUME NEW r \in Requests,
             \/ Enqueue(r) \/ Admit(r) \/ LeaveLock(r) \/ Dequeue(r) \/ Withdraw(r) \/ SubmitStep(r)
             \/ EndSession(r) \/ EnterFree(r) \/ Uncharge(r) \/ SignalFreed(r)
      PROVE  BufferParts'
  BY <1>1, <1>3 DEF Enqueue, Admit, LeaveLock, Dequeue, Withdraw, SubmitStep, EndSession, EnterFree,
     Uncharge, SignalFreed, PastCharge, PastGrant, Using, Gone
<1>4. ASSUME NEW r \in Requests, CheckMemory(r) \/ Expire(r) PROVE BufferParts'
  BY <1>1, <1>4 DEF CheckMemory, Expire, PastCharge, PastGrant, Using, Gone
<1>5. ASSUME NEW r \in Requests, Thread(r) PROVE BufferParts'
  BY <1>1, <1>2, <1>5 DEF Thread, ThreadAcquire, ThreadTests, ThreadWakes, ThreadClears, ThreadExpires,
     PastCharge, PastGrant, Using, Gone
<1>6. ASSUME NEW r \in Requests, BeginUse(r) \/ Lookup(r) PROVE BufferParts'
  BY <1>1, <1>2, <1>6 DEF BeginUse, Lookup, PastCharge, PastGrant, Using, Gone
<1>7. ASSUME NEW r \in Requests, Charge(r) \/ SendCreate(r) \/ SendDelete(r) PROVE BufferParts'
  BY <1>7, BufferCharge, BufferSendCreate, BufferSendDelete
<1>8. CASE Receive
  BY <1>8, BufferReceive
<1>9. CASE UNCHANGED vars
  BY <1>2, <1>9 DEF vars
<1> QED
  BY <1>3, <1>4, <1>5, <1>6, <1>7, <1>8, <1>9 DEF Next, Coroutine, Runtime

LEMMA BufferInvInit == Init => BufferInv
<1> SUFFICES ASSUME Init PROVE BufferParts
  BY BudgetInvInit, AccountInit, PipeInvInit DEF BufferInv
<1>1. /\ pipe = <<>> /\ tensors = {} /\ \A r \in Requests : pc[r] = "idle" /\ handles[r] = {}
  BY DEF Init
<1>2. Len(pipe) = 0 /\ 1 .. 0 = {}
  BY <1>1
<1>3. \A k : Present(k) = {}
  BY <1>1 DEF Present, HasBuffers
<1>4. HandlesKnown /\ HandlesGiven /\ CreatesFirst
  BY <1>1, <1>2 DEF HandlesKnown, HandlesGiven, CreatesFirst, PastCharge, PastGrant, Using, Gone
<1>5. GoneAtEnd
  BY <1>3 DEF GoneAtEnd
<1>6. Fits({})
  <2>1. IsFiniteSet({}) /\ {} \subseteq Requests
    BY FS_EmptySet
  <2>2. TotalSize({}) = 0
    BY <2>1, TotalIsSum, SumEmpty
  <2> QED
    BY <2>1, <2>2, CacheAssumption DEF Fits
<1>7. PrefixesFit
  BY <1>3, <1>6 DEF PrefixesFit
<1> QED
  BY <1>4, <1>5, <1>7 DEF BufferParts

\* What a device holds for some sessions is no more than what they are charged.
LEMMA DeviceShare ==
  ASSUME NEW d \in Devices, NEW S, S \subseteq Requests, Fits(S)
  PROVE  MapThenSumSet(LAMBDA r : Bytes[r][d], S) <= MaxSize
<1>1. PICK w : w = [r \in Requests |-> Bytes[r][d]]
  OBVIOUS
<1>2. w \in [Requests -> Nat] /\ Sizes \in [Requests -> Nat]
  BY <1>1, CacheAssumption, AllocSizeNat DEF Sizes
<1>3. \A r \in S : w[r] <= Sizes[r]
  <2> SUFFICES ASSUME NEW r \in Requests PROVE Bytes[r][d] <= AllocSize(r)
    BY <1>1 DEF Sizes
  <2> QED
    BY CacheAssumption DEF AllocSize
<1>4. IsFiniteSet(S)
  BY DEF Fits
<1>5. Sum(w, S) <= Sum(Sizes, S)
  BY <1>2, <1>3, <1>4, SumMonotone
<1>6. Sum(w, S) \in Nat /\ TotalSize(S) \in Nat /\ TotalSize(S) = Sum(Sizes, S) /\ MaxSize \in Nat
  BY <1>2, <1>4, SumTyped, TotalTyped, TotalIsSum, CacheAssumption
<1>7. \A s \in SUBSET S : s # {} => First(s) \in Requests /\ w[First(s)] = Bytes[First(s)][d]
  BY <1>1, FirstIn
<1>8. PICK g : SumGraph(w, S, g)
  BY <1>4, SumExists
<1>9. g = [s \in SUBSET S |-> IF s = {} THEN 0 ELSE Bytes[First(s)][d] + g[s \ {First(s)}]]
  BY <1>7, <1>8 DEF SumGraph
<1>10. PICK iter : iter = CHOOSE h :
         h = [s \in SUBSET S |-> IF s = {} THEN 0 ELSE Bytes[First(s)][d] + h[s \ {First(s)}]]
  OBVIOUS
<1>11. MapThenSumSet(LAMBDA r : Bytes[r][d], S) = iter[S]
  BY <1>10 DEF MapThenSumSet, MapThenFoldSet, First
<1>12. iter = [s \in SUBSET S |-> IF s = {} THEN 0 ELSE Bytes[First(s)][d] + iter[s \ {First(s)}]]
  BY <1>9, <1>10
<1>13. SumGraph(w, S, iter)
  BY <1>7, <1>12 DEF SumGraph
<1>14. Sum(w, S) = iter[S]
  BY <1>4, <1>13, SumOfGraph
<1>15. TotalSize(S) <= MaxSize
  BY DEF Fits
<1> QED
  BY <1>5, <1>6, <1>11, <1>14, <1>15

\* With one handler process the bytes are accounted for, in the counters and on
\* every device: the buffers the Runtime holds, which it makes and drops long
\* after the counter changed, never take more than max_size_bytes.
THEOREM BytesAreAccounted ==
  ASSUME OneLoop PROVE Spec => []BytesAccounted
<1>1. BufferInv => BytesAccounted
  <2> SUFFICES ASSUME BufferInv, NEW d \in Devices
               PROVE  MapThenSumSet(LAMBDA r : Bytes[r][d],
                        {r \in Requests : handles[r] # {} /\ handles[r] \subseteq tensors}) <= MaxSize
    BY DEF BytesAccounted, BuffersBounded, BufferInv, AccountInv, Accounting
  <2>1. PICK S : S = {r \in Requests : handles[r] # {} /\ handles[r] \subseteq tensors}
    OBVIOUS
  <2>2. 1 .. 0 = {} /\ 0 \in 0 .. Len(pipe)
    BY LenProperties DEF BufferInv, PipeInv, TypeOK
  <2>3. S = Present(0)
    BY <2>1, <2>2 DEF Present, HasBuffers
  <2>4. S \subseteq Requests /\ Fits(S)
    BY <2>1, <2>2, <2>3 DEF BufferInv, BufferParts, PrefixesFit
  <2> QED
    BY <2>1, <2>4, DeviceShare
<1>2. BufferInv /\ [Next]_vars => BufferInv'
  BY BufferInvStep
<1> QED
  BY <1>1, <1>2, BufferInvInit, PTL DEF Spec
================================================================================
