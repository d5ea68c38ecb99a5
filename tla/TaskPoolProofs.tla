---------------------------- MODULE TaskPoolProofs ----------------------------
(***************************************************************************)
(* Theorems about TaskPool, for every set of tasks, handlers and pools: a  *)
(* pool's pipe counts its unfinished tasks, and a task is in one place at  *)
(* a time on its way to its answer.                                        *)
(***************************************************************************)
EXTENDS TaskPool, SequenceTheorems, FiniteSetTheorems, WellFoundedInduction, TLAPS

-----------------------------------------------------------------------------
\* The inductive invariant, on top of TypeOK.

Holds(q, x) == \E i \in 1 .. Len(q) : q[i] = x
Distinct(q, S) == \A i, j \in 1 .. Len(q) : q[i] \in S /\ q[i] = q[j] => i = j

\* The six places of a task.
Queued(t) == Holds(submitted[PoolOf[t]], t)
Ordered(t) == t \in ordered[PoolOf[t]]
InLoader(t) == loader.task = t
Loaded(t) == Holds(loaded, t)
Finished(t) == \E r \in results : r.task = t
Answered(t) == answer[t] # "none"

Nowhere(t) == ~Queued(t) /\ ~Ordered(t) /\ ~InLoader(t) /\ ~Loaded(t) /\ ~Finished(t)

InOnePlace(t) ==
  /\ Queued(t) \/ Ordered(t) \/ InLoader(t) \/ Loaded(t) \/ Finished(t) \/ Answered(t)
  /\ Queued(t) => ~Ordered(t) /\ ~InLoader(t) /\ ~Loaded(t) /\ ~Finished(t) /\ ~Answered(t)
  /\ Ordered(t) => ~InLoader(t) /\ ~Loaded(t) /\ ~Finished(t) /\ ~Answered(t)
  /\ InLoader(t) => ~Loaded(t) /\ ~Finished(t) /\ ~Answered(t)
  /\ Loaded(t) => ~Finished(t) /\ ~Answered(t)
  /\ Finished(t) => ~Answered(t)

\* A task is nowhere until put puts it in a queue; one that was refused never is.
PlacesRight ==
  \A t \in Tasks :
    IF stage[t] \in {"idle", "stamped"} THEN Nowhere(t) /\ ~Answered(t)
    ELSE IF stage[t] = "refused" THEN Nowhere(t)
    ELSE InOnePlace(t)

\* Pools hold their own tasks, and no queue holds a task twice.
QueuesRight ==
  /\ \A p \in Pools : Distinct(submitted[p], Tasks)
  /\ \A p \in Pools, t \in Tasks : Holds(submitted[p], t) => PoolOf[t] = p
  /\ \A p \in Pools : \A t \in ordered[p] : PoolOf[t] = p
  /\ Distinct(loaded, Tasks)
  /\ \A r1, r2 \in results : r1.task = r2.task => r1 = r2

\* The loader has chosen a pool with a token until it takes one, and has a task
\* until it hands it over.
LoaderRight ==
  /\ loader.at \in {"select", "off", "get"} => loader.task = NoTask
  /\ loader.at \notin {"select", "off"} => loader.pool \in Pools
  /\ loader.at \in {"get", "recv"} => tokens[loader.pool] > 0
  /\ loader.at \in {"recv", "first", "second", "hand"} => loader.task \in Tasks
  /\ loader.at \in {"first", "second"} => loader.next \in Tasks

\* The Runtime knows every task it has taken and not answered.
DispatchedRight ==
  \A t \in Tasks : InLoader(t) \/ Loaded(t) \/ Finished(t) => t \in dispatched[PoolOf[t]]

\* One tick for each task that was stamped.
Stamped == {t \in Tasks : stage[t] \notin {"idle", "refused"}}
ClockCounts == clock = Cardinality(Stamped)

IInv ==
  /\ TypeOK /\ ClockCounts /\ LoaderRight /\ QueuesRight
  /\ PlacesRight /\ DispatchedRight /\ TokensCount

-----------------------------------------------------------------------------
\* Queues: what adding at the end and taking from the front leave in place.

LEMMA AppendHolds ==
  ASSUME NEW T, NEW q \in Seq(T), NEW x \in T
  PROVE /\ Append(q, x) \in Seq(T)
        /\ \A y : Holds(Append(q, x), y) <=> Holds(q, y) \/ y = x
        /\ \A S : Distinct(q, S) /\ (x \in S => ~Holds(q, x)) => Distinct(Append(q, x), S)
<1>1. /\ Append(q, x) \in Seq(T) /\ Len(q) \in Nat /\ Len(Append(q, x)) = Len(q) + 1
      /\ \A i \in 1 .. Len(q) : Append(q, x)[i] = q[i]
      /\ Append(q, x)[Len(q) + 1] = x
  BY AppendProperties, LenProperties
<1>2. ASSUME NEW y PROVE Holds(Append(q, x), y) <=> Holds(q, y) \/ y = x
  <2>1. \A i : i \in 1 .. Len(q) + 1 <=> i \in 1 .. Len(q) \/ i = Len(q) + 1
    BY <1>1
  <2> QED
    BY <1>1, <2>1 DEF Holds
<1>3. ASSUME NEW S, Distinct(q, S), x \in S => ~Holds(q, x) PROVE Distinct(Append(q, x), S)
  <2> SUFFICES ASSUME NEW i \in 1 .. Len(q) + 1, NEW j \in 1 .. Len(q) + 1,
                      Append(q, x)[i] \in S, Append(q, x)[i] = Append(q, x)[j]
               PROVE i = j
    BY <1>1 DEF Distinct
  <2>1. (i \in 1 .. Len(q) \/ i = Len(q) + 1) /\ (j \in 1 .. Len(q) \/ j = Len(q) + 1)
    BY <1>1
  <2>2. CASE i \in 1 .. Len(q) /\ j \in 1 .. Len(q)
    BY <1>1, <1>3, <2>2 DEF Distinct
  <2>3. CASE i = Len(q) + 1 /\ j \in 1 .. Len(q)
    BY <1>1, <1>3, <2>3 DEF Holds
  <2>4. CASE i \in 1 .. Len(q) /\ j = Len(q) + 1
    BY <1>1, <1>3, <2>4 DEF Holds
  <2> QED
    BY <2>1, <2>2, <2>3, <2>4
<1> QED
  BY <1>1, <1>2, <1>3

LEMMA TailHolds ==
  ASSUME NEW T, NEW q \in Seq(T), q # <<>>
  PROVE /\ Tail(q) \in Seq(T) /\ Head(q) \in T /\ Holds(q, Head(q))
        /\ \A i \in 1 .. Len(Tail(q)) : i + 1 \in 1 .. Len(q) /\ Tail(q)[i] = q[i + 1]
        /\ \A y : y # Head(q) => (Holds(Tail(q), y) <=> Holds(q, y))
        /\ \A S : Distinct(q, S) => Distinct(Tail(q), S) /\ (Head(q) \in S => ~Holds(Tail(q), Head(q)))
<1>1. Len(q) \in Nat \ {0} /\ 1 \in 1 .. Len(q) /\ q[1] \in T
  BY LenProperties, EmptySeq
<1>2. /\ Tail(q) \in Seq(T) /\ Head(q) = q[1] /\ Len(Tail(q)) = Len(q) - 1
      /\ \A i \in 1 .. Len(Tail(q)) : i + 1 \in 1 .. Len(q) /\ Tail(q)[i] = q[i + 1]
  BY <1>1, HeadTailProperties
<1>3. ASSUME NEW y, y # Head(q) PROVE Holds(Tail(q), y) <=> Holds(q, y)
  <2>1. ASSUME NEW i \in 1 .. Len(q), q[i] = y PROVE Holds(Tail(q), y)
    <3>1. i # 1 /\ i - 1 \in 1 .. Len(Tail(q))
      BY <1>1, <1>2, <1>3, <2>1
    <3>2. Tail(q)[i - 1] = q[(i - 1) + 1]
      BY <1>2, <3>1
    <3>3. (i - 1) + 1 = i
      BY <1>1
    <3>4. Tail(q)[i - 1] = y
      BY <2>1, <3>2, <3>3
    <3> QED
      BY <3>1, <3>4 DEF Holds
  <2> QED
    BY <1>2, <2>1 DEF Holds
<1>4. ASSUME NEW S, Distinct(q, S) PROVE Distinct(Tail(q), S)
  <2> SUFFICES ASSUME NEW i \in 1 .. Len(Tail(q)), NEW j \in 1 .. Len(Tail(q)),
                      Tail(q)[i] \in S, Tail(q)[i] = Tail(q)[j]
               PROVE i = j
    BY DEF Distinct
  <2>1. i + 1 \in 1 .. Len(q) /\ j + 1 \in 1 .. Len(q) /\ q[i + 1] \in S /\ q[i + 1] = q[j + 1]
    BY <1>2
  <2>2. i + 1 = j + 1
    BY <1>4, <2>1 DEF Distinct
  <2> QED
    BY <2>2
<1>5. ASSUME NEW S, Distinct(q, S), Head(q) \in S PROVE ~Holds(Tail(q), Head(q))
  <2> SUFFICES ASSUME NEW i \in 1 .. Len(Tail(q)), Tail(q)[i] = Head(q) PROVE FALSE
    BY DEF Holds
  <2>1. i + 1 \in 1 .. Len(q) /\ q[i + 1] = q[1] /\ q[1] \in S
    BY <1>2, <1>5
  <2>2. i + 1 = 1
    BY <1>1, <1>5, <2>1 DEF Distinct
  <2> QED
    BY <2>2
<1> QED
  BY <1>1, <1>2, <1>3, <1>4, <1>5 DEF Holds

\* How many entries of a queue are tasks.
Waiting(q) == {i \in DOMAIN q : q[i] # Stop}

LEMMA WaitingFinite ==
  ASSUME NEW T, NEW q \in Seq(T)
  PROVE IsFiniteSet(Waiting(q)) /\ Cardinality(Waiting(q)) \in Nat
<1>1. Len(q) \in Nat /\ DOMAIN q = 1 .. Len(q)
  BY LenProperties
<1>2. IsFiniteSet(1 .. Len(q)) /\ Waiting(q) \in SUBSET (1 .. Len(q))
  BY <1>1, FS_Interval DEF Waiting
<1>3. IsFiniteSet(Waiting(q))
  BY <1>2, FS_Subset
<1> QED
  BY <1>3, FS_CardinalityType

LEMMA WaitingAppend ==
  ASSUME NEW T, NEW q \in Seq(T), NEW x \in T
  PROVE Cardinality(Waiting(Append(q, x))) =
          IF x = Stop THEN Cardinality(Waiting(q)) ELSE Cardinality(Waiting(q)) + 1
<1>1. /\ Len(q) \in Nat /\ DOMAIN q = 1 .. Len(q) /\ DOMAIN Append(q, x) = 1 .. Len(q) + 1
      /\ \A i \in 1 .. Len(q) : Append(q, x)[i] = q[i]
      /\ Append(q, x)[Len(q) + 1] = x
  BY AppendProperties, LenProperties
<1>2. CASE x = Stop
  <2>1. Waiting(Append(q, x)) = Waiting(q)
    BY <1>1, <1>2 DEF Waiting
  <2> QED
    BY <1>2, <2>1
<1>3. CASE x # Stop
  <2>1. Waiting(Append(q, x)) = Waiting(q) \cup {Len(q) + 1}
    BY <1>1, <1>3 DEF Waiting
  <2>2. Len(q) + 1 \notin Waiting(q)
    BY <1>1 DEF Waiting
  <2> QED
    BY <1>3, <2>1, <2>2, WaitingFinite, FS_AddElement
<1> QED
  BY <1>2, <1>3

LEMMA WaitingTail ==
  ASSUME NEW T, NEW q \in Seq(T), q # <<>>
  PROVE Cardinality(Waiting(Tail(q))) =
          IF Head(q) = Stop THEN Cardinality(Waiting(q)) ELSE Cardinality(Waiting(q)) - 1
<1>1. Len(q) \in Nat \ {0}
  BY LenProperties, EmptySeq
<1>2. /\ Tail(q) \in Seq(T) /\ Head(q) = q[1] /\ DOMAIN Tail(q) = 1 .. Len(q) - 1 /\ DOMAIN q = 1 .. Len(q)
      /\ \A i \in 1 .. Len(q) - 1 : Tail(q)[i] = q[i + 1]
  BY <1>1, HeadTailProperties, LenProperties
<1> DEFINE later == Waiting(q) \ {1}
           shift == [i \in Waiting(Tail(q)) |-> i + 1]
<1>3. shift \in Bijection(Waiting(Tail(q)), later)
  <2>1. \A i \in Waiting(Tail(q)) : i \in 1 .. Len(q) - 1 /\ i + 1 \in later
    BY <1>1, <1>2 DEF Waiting
  <2>2. \A j \in later : j - 1 \in Waiting(Tail(q)) /\ (j - 1) + 1 = j
    <3> SUFFICES ASSUME NEW j \in later PROVE j - 1 \in Waiting(Tail(q)) /\ (j - 1) + 1 = j
      OBVIOUS
    <3>1. j \in 2 .. Len(q) /\ q[j] # Stop /\ j - 1 \in 1 .. Len(q) - 1
      BY <1>1, <1>2 DEF Waiting
    <3>2. Tail(q)[j - 1] = q[(j - 1) + 1] /\ (j - 1) + 1 = j
      BY <1>2, <3>1
    <3> QED
      BY <1>2, <3>1, <3>2 DEF Waiting
  <2>3. shift \in [Waiting(Tail(q)) -> later]
    BY <2>1
  <2>4. \A i, j \in Waiting(Tail(q)) : shift[i] = shift[j] => i = j
    BY <2>1
  <2>5. \A j \in later : \E i \in Waiting(Tail(q)) : shift[i] = j
    BY <2>2
  <2> HIDE DEF shift, later
  <2> QED
    BY <2>3, <2>4, <2>5 DEF Bijection, Injection, Surjection, IsInjective
<1>4. IsFiniteSet(Waiting(Tail(q))) /\ IsFiniteSet(Waiting(q))
  BY <1>2, WaitingFinite
<1>5. Cardinality(later) = Cardinality(Waiting(Tail(q)))
  BY <1>3, <1>4, FS_Bijection DEF ExistsBijection
<1>6. Cardinality(later) = IF 1 \in Waiting(q) THEN Cardinality(Waiting(q)) - 1 ELSE Cardinality(Waiting(q))
  BY <1>4, FS_RemoveElement
<1>7. 1 \in Waiting(q) <=> Head(q) # Stop
  BY <1>1, <1>2 DEF Waiting
<1> QED
  BY <1>5, <1>6, <1>7

-----------------------------------------------------------------------------
\* A pool whose queue holds tasks has a first one.

LEMMA LeastExists ==
  ASSUME NEW S, S \subseteq Nat, S # {} PROVE \E x \in S : \A y \in S : ~(y < x)
<1>1. PICK x \in S : \A y \in S : ~(<<y, x>> \in OpToRel(<, Nat))
  BY NatLessThanWellFounded, WFMin, Zenon
<1>2. \A y \in S : y < x => <<y, x>> \in OpToRel(<, Nat)
  BY DEF OpToRel
<1> QED
  BY <1>1, <1>2

LEMMA ImportanceTyped ==
  ASSUME TypeOK, NEW t \in Tasks
  PROVE Importance(t) \in (1 .. 2) \X Nat
BY PoolAssumption DEF TypeOK, Importance, Prioritize

LEMMA FirstInOrdered ==
  ASSUME TypeOK, NEW p \in Pools, ordered[p] # {} PROVE First(p) \in ordered[p] /\ First(p) \in Tasks
<1> DEFINE kinds == {Importance(t)[1] : t \in ordered[p]}
<1>1. ordered[p] \subseteq Tasks
  BY DEF TypeOK
<1>2. kinds \subseteq Nat /\ kinds # {}
  BY <1>1, ImportanceTyped
<1>3. PICK k \in kinds : \A l \in kinds : ~(l < k)
  BY <1>2, LeastExists, Zenon
<1> DEFINE times == {Importance(t)[2] : t \in {u \in ordered[p] : Importance(u)[1] = k}}
<1>4. times \subseteq Nat /\ times # {}
  BY <1>1, ImportanceTyped
<1>5. PICK m \in times : \A n \in times : ~(n < m)
  BY <1>4, LeastExists, Zenon
<1>6. PICK t \in ordered[p] : Importance(t)[1] = k /\ Importance(t)[2] = m
  OBVIOUS
<1>7. \A u \in ordered[p] : ~Before(Importance(u), Importance(t))
  BY <1>3, <1>5, <1>6 DEF Before
<1> QED
  BY <1>1, <1>7 DEF First

-----------------------------------------------------------------------------
\* Types.

LEMMA InitTyped == Init => TypeOK
<1> SUFFICES ASSUME Init PROVE TypeOK
  OBVIOUS
<1> USE PoolAssumption DEF Init
<1>1. Cardinality(Tasks) \in Nat
  BY FS_CardinalityType
<1>2. <<>> \in Seq(Tasks \cup {Stop}) /\ <<>> \in Seq(Tasks)
  BY EmptySeq
<1>3. urgency \in [Pools -> (1 .. Infinity) \X Nat] /\ clock \in 0 .. Cardinality(Tasks)
  BY <1>1 DEF Infinity, Never
<1>4. stage \in [Tasks -> Stages] /\ stamp \in [Tasks -> Nat]
  BY DEF Stages
<1>5. submitted \in [Pools -> Seq(Tasks \cup {Stop})] /\ loaded \in Seq(Tasks)
  BY <1>2
<1>6. ordered \in [Pools -> SUBSET Tasks] /\ dispatched \in [Pools -> SUBSET Tasks] /\ tokens \in [Pools -> Nat]
      /\ mover \in [Pools -> BOOLEAN] /\ closing \in {"no", "handlers", "pools", "runtime"}
  OBVIOUS
<1>7. loader \in [at : {"select", "get", "recv", "first", "second", "hand", "off"},
                  pool : Pools \cup {NoTask}, task : Tasks \cup {NoTask}, next : Tasks \cup {NoTask}]
  OBVIOUS
<1>8. results \subseteq [task : Tasks, outcome : {"outputs", "exception"}]
      /\ answer \in [Tasks -> {"none", "refused", "outputs", "exception"}]
  OBVIOUS
<1> HIDE DEF Init
<1> QED
  BY <1>3, <1>4, <1>5, <1>6, <1>7, <1>8 DEF TypeOK

\* The clock ticks once for each task.
LEMMA StepClockCounts == TypeOK /\ ClockCounts /\ [Next]_vars => ClockCounts' /\ clock' \in 0 .. Cardinality(Tasks)
<1> SUFFICES ASSUME TypeOK, ClockCounts, [Next]_vars
             PROVE ClockCounts' /\ clock' \in 0 .. Cardinality(Tasks)
  OBVIOUS
<1> USE PoolAssumption
<1>1. IsFiniteSet(Stamped)
  BY FS_Subset DEF Stamped
<1>2. Stamped' \in SUBSET Tasks
  BY DEF Stamped
<1>3. Cardinality(Stamped') \in Nat /\ Cardinality(Stamped') <= Cardinality(Tasks) /\ Cardinality(Tasks) \in Nat
  BY <1>2, FS_Subset, FS_CardinalityType
<1>4. ASSUME NEW t \in Tasks, Submit(t) PROVE ClockCounts'
  <2>1. Stamped' = Stamped \cup {t} /\ t \notin Stamped
    BY <1>4 DEF Submit, To, Stamped, TypeOK
  <2> QED
    BY <1>1, <1>4, <2>1, FS_AddElement DEF Submit, ClockCounts
<1>5. ASSUME NEW t \in Tasks, Refuse(t) \/ Submission(t) PROVE ClockCounts'
  <2>1. clock' = clock
    BY <1>5 DEF Refuse, Submission, Put, SendToken, Compare, Advertise
  <2>2. \A u \in Tasks : stage'[u] \in {"idle", "refused"} <=> stage[u] \in {"idle", "refused"}
    BY <1>5, ZenonT(40) DEF Refuse, Submission, Put, SendToken, Compare, Advertise, To, TypeOK
  <2>3. Stamped' = Stamped
    BY <2>2 DEF Stamped
  <2> QED
    BY <2>1, <2>3 DEF ClockCounts
<1>6. ASSUME UNCHANGED submitting PROVE ClockCounts'
  BY <1>6 DEF submitting, ClockCounts, Stamped
<1>7. ASSUME NEW p \in Pools, Move(p) PROVE UNCHANGED submitting
  BY <1>7 DEF Move
<1>8. ASSUME Loader \/ Process \/ (\E r \in results : Send(r)) \/ StopHandlers \/ StopPools \/ StopRuntime
      PROVE UNCHANGED submitting
  BY <1>8 DEF Loader, Select, GetTask, ReceiveToken, Readvertise, HandOver, LeaveSelect, Process, Send,
              StopHandlers, StopPools, StopRuntime
<1>9. ClockCounts'
  BY <1>4, <1>5, <1>6, <1>7, <1>8 DEF Next, vars, submitting
<1> QED
  BY <1>3, <1>9 DEF ClockCounts

\* Writing one word of an advertised pair.
LEMMA PairExcept ==
  ASSUME NEW A, NEW B, NEW u \in A \X B, NEW x \in A, NEW y \in B
  PROVE [u EXCEPT ![1] = x] \in A \X B /\ [u EXCEPT ![2] = y] \in A \X B
<1>1. u = <<u[1], u[2]>> /\ u[1] \in A /\ u[2] \in B
  OBVIOUS
<1>2. [u EXCEPT ![1] = x] = <<x, u[2]>> /\ [u EXCEPT ![2] = y] = <<u[1], y>>
  BY <1>1
<1> QED
  BY <1>1, <1>2

LEMMA UrgencyTyped ==
  ASSUME TypeOK, NEW p \in Pools, NEW t \in Tasks,
         \/ urgency' = [urgency EXCEPT ![p][1] = Importance(t)[1]]
         \/ urgency' = [urgency EXCEPT ![p][2] = Importance(t)[2]]
  PROVE urgency' \in [Pools -> (1 .. Infinity) \X Nat]
<1> DEFINE pairs == (1 .. Infinity) \X Nat
<1>1. urgency \in [Pools -> pairs]
  BY DEF TypeOK
<1>2. Importance(t)[1] \in 1 .. Infinity /\ Importance(t)[2] \in Nat
  BY ImportanceTyped DEF Infinity
<1>3. urgency[p] \in (1 .. Infinity) \X Nat
  BY <1>1
<1>4. /\ [urgency[p] EXCEPT ![1] = Importance(t)[1]] \in pairs
      /\ [urgency[p] EXCEPT ![2] = Importance(t)[2]] \in pairs
  BY <1>2, <1>3, PairExcept
<1> HIDE DEF pairs
<1>5. urgency' \in [Pools -> pairs]
  BY <1>1, <1>4
<1> QED
  BY <1>5 DEF pairs

LEMMA StageTyped ==
  ASSUME TypeOK, NEW t \in Tasks, NEW s \in Stages, To(t, s) PROVE stage' \in [Tasks -> Stages]
BY DEF TypeOK, To

LEMMA StepTyped ==
  TypeOK /\ LoaderRight /\ clock' \in 0 .. Cardinality(Tasks) /\ [Next]_vars => TypeOK'
<1> SUFFICES ASSUME TypeOK, LoaderRight, clock' \in 0 .. Cardinality(Tasks), [Next]_vars PROVE TypeOK'
  OBVIOUS
<1> USE PoolAssumption DEF TypeOK, submitting, pools, runtime
<1>0. Cardinality(Tasks) \in Nat
  BY FS_CardinalityType
<1>1. ASSUME NEW t \in Tasks, Submit(t) PROVE TypeOK'
  <2>1. clock + 1 \in Nat
    BY <1>0
  <2>2. stage' \in [Tasks -> Stages] /\ stamp' \in [Tasks -> Nat]
    BY <1>1, <2>1, StageTyped DEF Submit, Stages
  <2> QED
    BY <1>1, <2>2 DEF Submit
<1>2. ASSUME NEW t \in Tasks, Refuse(t) PROVE TypeOK'
  <2>1. stage' \in [Tasks -> Stages]
    BY <1>2, StageTyped DEF Refuse, Stages
  <2> QED
    BY <1>2, <2>1 DEF Refuse
<1>3. ASSUME NEW t \in Tasks, Put(t) PROVE TypeOK'
  <2>1. Append(submitted[PoolOf[t]], t) \in Seq(Tasks \cup {Stop})
    BY AppendHolds
  <2>2. stage' \in [Tasks -> Stages]
    BY <1>3, StageTyped DEF Put, Stages
  <2> QED
    BY <1>3, <2>1, <2>2 DEF Put
<1>4. ASSUME NEW t \in Tasks, SendToken(t) \/ Compare(t) PROVE TypeOK'
  <2>1. CASE SendToken(t)
    <3>1. stage' \in [Tasks -> Stages]
      BY <2>1, StageTyped DEF SendToken, Stages
    <3>2. tokens' = [tokens EXCEPT ![PoolOf[t]] = @ + 1]
      BY <2>1 DEF SendToken
    <3>3. tokens' \in [Pools -> Nat]
      <4>1. tokens \in [Pools -> Nat] /\ PoolOf[t] \in Pools
        OBVIOUS
      <4> HIDE DEF TypeOK
      <4> QED
        BY <3>2, <4>1
    <3> QED
      BY <2>1, <3>1, <3>3 DEF SendToken
  <2>2. CASE Compare(t)
    <3>1. stage' \in [Tasks -> Stages]
      BY <2>2, StageTyped DEF Compare, Stages
    <3> QED
      BY <2>2, <3>1 DEF Compare
  <2> QED
    BY <1>4, <2>1, <2>2
<1>5. ASSUME NEW t \in Tasks, Advertise(t) PROVE TypeOK'
  <2>1. urgency' \in [Pools -> (1 .. Infinity) \X Nat]
    BY <1>5, UrgencyTyped DEF Advertise
  <2>2. stage' \in [Tasks -> Stages]
    BY <1>5, StageTyped DEF Advertise, Stages
  <2> QED
    BY <1>5, <2>1, <2>2 DEF Advertise
<1>6. ASSUME NEW p \in Pools, Move(p) PROVE TypeOK'
  <2>1. Tail(submitted[p]) \in Seq(Tasks \cup {Stop}) /\ Head(submitted[p]) \in Tasks \cup {Stop}
    BY <1>6, TailHolds, SMTT(30) DEF Move
  <2>2. submitted' \in [Pools -> Seq(Tasks \cup {Stop})]
    BY <1>6, <2>1 DEF Move
  <2>3. ordered' \in [Pools -> SUBSET Tasks] /\ mover' \in [Pools -> BOOLEAN]
    <3>1. CASE Head(submitted[p]) = Stop
      BY <1>6, <3>1 DEF Move
    <3>2. CASE Head(submitted[p]) # Stop
      <4>1. ordered' = [ordered EXCEPT ![p] = @ \cup {Head(submitted[p])}] /\ mover' = mover
        BY <1>6, <3>2 DEF Move
      <4>2. ordered[p] \cup {Head(submitted[p])} \in SUBSET Tasks
        BY <2>1, <3>2
      <4> QED
        BY <4>1, <4>2
    <3> QED
      BY <3>1, <3>2
  <2> QED
    BY <1>6, <2>2, <2>3 DEF Move
<1>7. ASSUME NEW p \in Pools, Select(p) PROVE TypeOK'
  BY <1>7 DEF Select
<1>8. ASSUME GetTask PROVE TypeOK'
  <2>1. loader.pool \in Pools
    BY <1>8 DEF GetTask, LoaderRight
  <2>2. First(loader.pool) \in Tasks
    BY <1>8, <2>1, FirstInOrdered DEF GetTask
  <2> QED
    BY <1>8, <2>1, <2>2 DEF GetTask
<1>9. ASSUME ReceiveToken PROVE TypeOK'
  <2>1. loader.pool \in Pools /\ tokens[loader.pool] > 0
    BY <1>9 DEF ReceiveToken, LoaderRight
  <2>2. ordered[loader.pool] # {} => First(loader.pool) \in Tasks
    BY <2>1, FirstInOrdered
  <2>3. tokens' \in [Pools -> Nat]
    <3>1. tokens' = [tokens EXCEPT ![loader.pool] = @ - 1]
      BY <1>9 DEF ReceiveToken
    <3>2. tokens[loader.pool] - 1 \in Nat
      BY <2>1, SMTT(30)
    <3> QED
      BY <3>1, <3>2
  <2> QED
    BY <1>9, <2>2, <2>3 DEF ReceiveToken
<1>10. ASSUME Readvertise PROVE TypeOK'
  <2>1. loader.pool \in Pools /\ loader.next \in Tasks
    BY <1>10 DEF Readvertise, LoaderRight
  <2>2. urgency' \in [Pools -> (1 .. Infinity) \X Nat]
    BY <1>10, <2>1, UrgencyTyped DEF Readvertise
  <2>3. \/ loader' = [loader EXCEPT !.at = "second"]
        \/ loader' = [loader EXCEPT !.at = "hand"]
    BY <1>10 DEF Readvertise
  <2>4. UNCHANGED <<submitting, submitted, ordered, tokens, mover, loaded, results, dispatched, answer, closing>>
    BY <1>10 DEF Readvertise
  <2>5. loader' \in [at : {"select", "get", "recv", "first", "second", "hand", "off"},
                     pool : Pools \cup {NoTask}, task : Tasks \cup {NoTask}, next : Tasks \cup {NoTask}]
    <3>1. CASE loader' = [loader EXCEPT !.at = "second"]
      BY <3>1
    <3>2. CASE loader' = [loader EXCEPT !.at = "hand"]
      BY <3>2
    <3> QED
      BY <2>3, <3>1, <3>2
  <2> QED
    BY <2>2, <2>4, <2>5
<1>11. ASSUME HandOver PROVE TypeOK'
  <2>1. loader.task \in Tasks
    BY <1>11 DEF HandOver, LoaderRight
  <2>2. Append(loaded, loader.task) \in Seq(Tasks)
    BY <2>1, AppendHolds
  <2> QED
    BY <1>11, <2>2 DEF HandOver
<1>12. ASSUME LeaveSelect PROVE TypeOK'
  BY <1>12 DEF LeaveSelect
<1>13. ASSUME Process PROVE TypeOK'
  <2>1. Head(loaded) \in Tasks /\ Tail(loaded) \in Seq(Tasks)
    BY <1>13, TailHolds DEF Process
  <2>2. results' \subseteq [task : Tasks, outcome : {"outputs", "exception"}]
    <3>1. \A o \in {"outputs", "exception"} :
            [task |-> Head(loaded), outcome |-> o] \in [task : Tasks, outcome : {"outputs", "exception"}]
      BY <2>1
    <3>2. \E o \in {"outputs", "exception"} : results' = results \cup {[task |-> Head(loaded), outcome |-> o]}
      BY <1>13 DEF Process
    <3> QED
      BY <3>1, <3>2
  <2> QED
    BY <1>13, <2>1, <2>2 DEF Process
<1>14. ASSUME NEW r \in results, Send(r) PROVE TypeOK'
  BY <1>14 DEF Send
<1>15. ASSUME StopPools PROVE TypeOK'
  <2>1. \A p \in Pools : Append(submitted[p], Stop) \in Seq(Tasks \cup {Stop})
    BY AppendHolds
  <2> QED
    BY <1>15, <2>1 DEF StopPools
<1>16. ASSUME StopHandlers \/ StopRuntime PROVE TypeOK'
  BY <1>16 DEF StopHandlers, StopRuntime
<1>17. ASSUME UNCHANGED vars PROVE TypeOK'
  BY <1>17 DEF vars
<1> QED
  BY <1>1, <1>2, <1>3, <1>4, <1>5, <1>6, <1>7, <1>8, <1>9, <1>10, <1>11, <1>12, <1>13, <1>14, <1>15, <1>16, <1>17
     DEF Next, Submission, Loader

\* The loader keeps its pool, its token and its task.
LEMMA StepLoaderRight == TypeOK /\ LoaderRight /\ [Next]_vars => LoaderRight'
<1> SUFFICES ASSUME TypeOK, LoaderRight, [Next]_vars PROVE LoaderRight'
  OBVIOUS
<1> USE PoolAssumption DEF LoaderRight
<1>1. ASSUME NEW t \in Tasks, SendToken(t) PROVE LoaderRight'
  <2>1. loader' = loader
    BY <1>1 DEF SendToken, runtime
  <2>2. \A p \in Pools : tokens[p] \in Nat /\ tokens'[p] \in Nat /\ tokens'[p] >= tokens[p]
    BY <1>1, SMTT(30) DEF SendToken, TypeOK
  <2> QED
    BY <2>1, <2>2
<1>2. ASSUME NEW p \in Pools, Select(p) PROVE LoaderRight'
  BY <1>2 DEF Select, Ready, TypeOK, pools
<1>3. ASSUME GetTask PROVE LoaderRight'
  <2>1. loader.pool \in Pools
    BY <1>3 DEF GetTask
  <2>2. First(loader.pool) \in Tasks
    BY <1>3, <2>1, FirstInOrdered DEF GetTask
  <2> QED
    BY <1>3, <2>1, <2>2 DEF GetTask, TypeOK
<1>4. ASSUME ReceiveToken PROVE LoaderRight'
  <2>1. loader.pool \in Pools /\ loader.task \in Tasks
    BY <1>4 DEF ReceiveToken
  <2>2. ordered[loader.pool] # {} => First(loader.pool) \in Tasks
    BY <2>1, FirstInOrdered
  <2> QED
    BY <1>4, <2>1, <2>2 DEF ReceiveToken, TypeOK
<1>5. ASSUME Readvertise PROVE LoaderRight'
  <2>1. \/ loader.at = "first" /\ loader' = [loader EXCEPT !.at = "second"]
        \/ loader.at = "second" /\ loader' = [loader EXCEPT !.at = "hand"]
    BY <1>5 DEF Readvertise
  <2>2. /\ loader'.pool = loader.pool /\ loader'.task = loader.task /\ loader'.next = loader.next
        /\ loader'.at \in {"second", "hand"} /\ loader.at \in {"first", "second"}
    <3>1. CASE loader.at = "first" /\ loader' = [loader EXCEPT !.at = "second"]
      BY <3>1 DEF TypeOK
    <3>2. CASE loader.at = "second" /\ loader' = [loader EXCEPT !.at = "hand"]
      BY <3>2 DEF TypeOK
    <3> QED
      BY <2>1, <3>1, <3>2
  <2> QED
    BY <2>2
<1>6. ASSUME HandOver \/ LeaveSelect PROVE LoaderRight'
  <2>1. \/ loader' = [at |-> "select", pool |-> NoTask, task |-> NoTask, next |-> NoTask]
        \/ loader.at = "select" /\ loader' = [loader EXCEPT !.at = "off"]
    BY <1>6 DEF HandOver, LeaveSelect
  <2>2. loader'.at \in {"select", "off"} /\ loader'.task = NoTask
    BY <2>1 DEF TypeOK
  <2> QED
    BY <2>2
<1>7. ASSUME UNCHANGED <<loader, tokens>> PROVE LoaderRight'
  BY <1>7
<1>8. ASSUME NEW t \in Tasks, Submit(t) \/ Refuse(t) \/ Put(t) \/ Compare(t) \/ Advertise(t)
      PROVE UNCHANGED <<loader, tokens>>
  BY <1>8 DEF Submit, Refuse, Put, Compare, Advertise, pools, runtime
<1>9. ASSUME \/ \E p \in Pools : Move(p)
             \/ Process \/ (\E r \in results : Send(r)) \/ StopHandlers \/ StopPools \/ StopRuntime
      PROVE UNCHANGED <<loader, tokens>>
  BY <1>9 DEF Move, Process, Send, StopHandlers, StopPools, StopRuntime, pools, runtime
<1> QED
  BY <1>1, <1>2, <1>3, <1>4, <1>5, <1>6, <1>7, <1>8, <1>9 DEF Next, Submission, Loader, vars

-----------------------------------------------------------------------------
\* How each action moves tasks between the places.

Stays(u) ==
  /\ Queued(u)' <=> Queued(u)
  /\ Ordered(u)' <=> Ordered(u)
  /\ InLoader(u)' <=> InLoader(u)
  /\ Loaded(u)' <=> Loaded(u)
  /\ Finished(u)' <=> Finished(u)
  /\ Answered(u)' <=> Answered(u)

\* Places are read off six variables.
LEMMA NothingMoves ==
  ASSUME UNCHANGED <<submitted, ordered, loaded, results, answer>>, loader'.task = loader.task
  PROVE \A u \in Tasks : Stays(u)
BY DEF Stays, Queued, Ordered, InLoader, Loaded, Finished, Answered

LEMMA RefuseMoves ==
  ASSUME TypeOK, NEW t \in Tasks, Refuse(t)
  PROVE /\ \A u \in Tasks \ {t} : Stays(u)
        /\ Nowhere(t)' <=> Nowhere(t)
BY DEF Refuse, TypeOK, pools, Stays, Nowhere, Queued, Ordered, InLoader, Loaded, Finished, Answered

LEMMA PutMoves ==
  ASSUME TypeOK, NEW t \in Tasks, Put(t)
  PROVE /\ \A u \in Tasks \ {t} : Stays(u)
        /\ Queued(t)' /\ (Ordered(t)' <=> Ordered(t)) /\ (InLoader(t)' <=> InLoader(t))
        /\ (Loaded(t)' <=> Loaded(t)) /\ (Finished(t)' <=> Finished(t)) /\ (Answered(t)' <=> Answered(t))
<1> USE PoolAssumption
<1>1. submitted' = [submitted EXCEPT ![PoolOf[t]] = Append(@, t)]
  BY DEF Put
<1>2. submitted[PoolOf[t]] \in Seq(Tasks \cup {Stop})
  BY DEF TypeOK
<1>3. ASSUME NEW u \in Tasks PROVE Queued(u)' <=> Queued(u) \/ u = t
  <2>1. CASE PoolOf[u] # PoolOf[t]
    BY <1>1, <2>1 DEF Queued, TypeOK
  <2>2. CASE PoolOf[u] = PoolOf[t]
    <3>1. submitted'[PoolOf[u]] = Append(submitted[PoolOf[u]], t)
      BY <1>1, <2>2 DEF TypeOK
    <3> QED
      BY <1>2, <2>2, <3>1, AppendHolds DEF Queued
  <2> QED
    BY <2>1, <2>2
<1>4. UNCHANGED <<ordered, loader, loaded, results, answer>>
  BY DEF Put, runtime
<1>5. \A u \in Tasks : /\ (Ordered(u)' <=> Ordered(u)) /\ (InLoader(u)' <=> InLoader(u))
                       /\ (Loaded(u)' <=> Loaded(u)) /\ (Finished(u)' <=> Finished(u))
                       /\ (Answered(u)' <=> Answered(u))
  BY <1>4 DEF Ordered, InLoader, Loaded, Finished, Answered
<1> QED
  BY <1>3, <1>5 DEF Stays

LEMMA StopPoolsMoves ==
  ASSUME TypeOK, StopPools PROVE \A u \in Tasks : Stays(u)
<1> USE PoolAssumption
<1>1. ASSUME NEW u \in Tasks PROVE Queued(u)' <=> Queued(u)
  <2>1. submitted[PoolOf[u]] \in Seq(Tasks \cup {Stop}) /\ u # Stop
    BY DEF TypeOK
  <2>2. submitted'[PoolOf[u]] = Append(submitted[PoolOf[u]], Stop)
    BY DEF StopPools
  <2> QED
    BY <2>1, <2>2, AppendHolds DEF Queued
<1>2. UNCHANGED <<ordered, loader, loaded, results, answer>>
  BY DEF StopPools, runtime
<1> QED
  BY <1>1, <1>2 DEF Stays, Ordered, InLoader, Loaded, Finished, Answered

\* The thread of a pool takes the task at the head of its queue, or the sentinel.
LEMMA MoveMoves ==
  ASSUME TypeOK, QueuesRight, NEW p \in Pools, Move(p)
  PROVE \/ Head(submitted[p]) = Stop /\ \A u \in Tasks : Stays(u)
        \/ \E t \in Tasks :
             /\ t = Head(submitted[p]) /\ PoolOf[t] = p /\ Queued(t)
             /\ ordered' = [ordered EXCEPT ![p] = @ \cup {t}]
             /\ \A u \in Tasks \ {t} : Stays(u)
             /\ ~Queued(t)' /\ Ordered(t)' /\ (InLoader(t)' <=> InLoader(t))
             /\ (Loaded(t)' <=> Loaded(t)) /\ (Finished(t)' <=> Finished(t)) /\ (Answered(t)' <=> Answered(t))
<1> USE PoolAssumption
<1> DEFINE q == submitted[p]
<1>0. PICK t : t = Head(q)
  OBVIOUS
<1>1. q \in Seq(Tasks \cup {Stop}) /\ q # <<>> /\ submitted' = [submitted EXCEPT ![p] = Tail(@)]
  BY DEF Move, TypeOK
<1>2. t \in Tasks \cup {Stop} /\ Holds(q, t)
  BY <1>0, <1>1, TailHolds
<1>3. ASSUME NEW u \in Tasks, u # t PROVE Queued(u)' <=> Queued(u)
  <2>1. CASE PoolOf[u] # p
    BY <1>1, <2>1 DEF Queued, TypeOK
  <2>2. CASE PoolOf[u] = p
    <3>1. submitted'[p] = Tail(q) /\ (Holds(Tail(q), u) <=> Holds(q, u))
      BY <1>0, <1>1, <1>3, TailHolds DEF TypeOK
    <3> QED
      BY <2>2, <3>1 DEF Queued
  <2> QED
    BY <2>1, <2>2
<1>4. UNCHANGED <<loader, loaded, results, answer>>
  BY DEF Move, runtime
<1>5. \A u \in Tasks : /\ (InLoader(u)' <=> InLoader(u)) /\ (Loaded(u)' <=> Loaded(u))
                       /\ (Finished(u)' <=> Finished(u)) /\ (Answered(u)' <=> Answered(u))
  BY <1>4 DEF InLoader, Loaded, Finished, Answered
<1>6. CASE t = Stop
  <2>1. ordered' = ordered
    BY <1>0, <1>6 DEF Move
  <2>2. \A u \in Tasks : Stays(u)
    BY <1>3, <1>5, <1>6, <2>1 DEF Stays, Ordered
  <2> QED
    BY <1>0, <1>6, <2>2
<1>7. CASE t # Stop
  <2>1. t \in Tasks
    BY <1>2, <1>7
  <2>2. PoolOf[t] = p
    BY <1>2, <2>1 DEF QueuesRight
  <2>3. ordered' = [ordered EXCEPT ![p] = @ \cup {t}]
    BY <1>0, <1>7 DEF Move
  <2>4. Queued(t) /\ ~Queued(t)'
    <3>1. Distinct(q, Tasks)
      BY DEF QueuesRight
    <3>2. submitted'[p] = Tail(q) /\ ~Holds(Tail(q), t)
      BY <1>0, <1>1, <2>1, <3>1, TailHolds DEF TypeOK
    <3> QED
      BY <1>2, <2>2, <3>2 DEF Queued
  <2>5. Ordered(t)' /\ \A u \in Tasks \ {t} : Ordered(u)' <=> Ordered(u)
    BY <2>1, <2>2, <2>3 DEF Ordered, TypeOK
  <2>6. \A u \in Tasks \ {t} : Stays(u)
    BY <1>3, <1>5, <2>5 DEF Stays
  <2> QED
    BY <1>0, <1>5, <2>1, <2>2, <2>3, <2>4, <2>5, <2>6
<1> QED
  BY <1>6, <1>7

\* The Runtime takes the first task of the pool it chose.
LEMMA GetTaskMoves ==
  ASSUME TypeOK, LoaderRight, QueuesRight, GetTask
  PROVE \E t \in Tasks :
          /\ t = First(loader.pool) /\ t \in ordered[loader.pool] /\ PoolOf[t] = loader.pool /\ Ordered(t)
          /\ ordered' = [ordered EXCEPT ![loader.pool] = @ \ {t}]
          /\ dispatched' = [dispatched EXCEPT ![loader.pool] = @ \cup {t}]
          /\ \A u \in Tasks \ {t} : Stays(u)
          /\ ~Ordered(t)' /\ InLoader(t)' /\ (Queued(t)' <=> Queued(t))
          /\ (Loaded(t)' <=> Loaded(t)) /\ (Finished(t)' <=> Finished(t)) /\ (Answered(t)' <=> Answered(t))
<1> USE PoolAssumption
<1>0. PICK p, t : p = loader.pool /\ t = First(p)
  OBVIOUS
<1>1. p \in Pools /\ loader.task = NoTask
  BY <1>0 DEF GetTask, LoaderRight
<1>2. t \in Tasks /\ t \in ordered[p]
  BY <1>0, <1>1, FirstInOrdered DEF GetTask
<1>3. PoolOf[t] = p
  BY <1>1, <1>2 DEF QueuesRight
<1>4. /\ ordered' = [ordered EXCEPT ![p] = @ \ {t}]
      /\ dispatched' = [dispatched EXCEPT ![p] = @ \cup {t}]
      /\ loader'.task = t
      /\ UNCHANGED <<submitted, loaded, results, answer>>
  <2>1. loader' = [loader EXCEPT !.at = "recv", !.task = t]
    BY <1>0 DEF GetTask
  <2>2. loader'.task = t
    BY <2>1 DEF TypeOK
  <2> QED
    BY <1>0, <2>2 DEF GetTask
<1>5. \A u \in Tasks : /\ (Queued(u)' <=> Queued(u)) /\ (Loaded(u)' <=> Loaded(u))
                       /\ (Finished(u)' <=> Finished(u)) /\ (Answered(u)' <=> Answered(u))
  BY <1>4 DEF Queued, Loaded, Finished, Answered
<1>6. Ordered(t) /\ ~Ordered(t)' /\ \A u \in Tasks \ {t} : Ordered(u)' <=> Ordered(u)
  BY <1>1, <1>2, <1>3, <1>4 DEF Ordered, TypeOK
<1>7. InLoader(t)' /\ \A u \in Tasks \ {t} : InLoader(u)' <=> InLoader(u)
  BY <1>1, <1>2, <1>4 DEF InLoader
<1>8. \A u \in Tasks \ {t} : Stays(u)
  BY <1>5, <1>6, <1>7 DEF Stays
<1> QED
  BY <1>0, <1>2, <1>3, <1>4, <1>5, <1>6, <1>7, <1>8

LEMMA HandOverMoves ==
  ASSUME TypeOK, LoaderRight, HandOver
  PROVE \E t \in Tasks :
          /\ InLoader(t) /\ loaded' = Append(loaded, t)
          /\ \A u \in Tasks \ {t} : Stays(u)
          /\ ~InLoader(t)' /\ Loaded(t)' /\ (Queued(t)' <=> Queued(t)) /\ (Ordered(t)' <=> Ordered(t))
          /\ (Finished(t)' <=> Finished(t)) /\ (Answered(t)' <=> Answered(t))
<1> USE PoolAssumption
<1>0. PICK t : t = loader.task
  OBVIOUS
<1>1. t \in Tasks /\ loaded \in Seq(Tasks)
  BY <1>0 DEF HandOver, LoaderRight, TypeOK
<1>2. loaded' = Append(loaded, t) /\ loader'.task = NoTask /\ UNCHANGED <<submitted, ordered, results, answer>>
  BY <1>0 DEF HandOver, pools
<1>3. \A u \in Tasks : Loaded(u)' <=> Loaded(u) \/ u = t
  BY <1>1, <1>2, AppendHolds DEF Loaded
<1>4. \A u \in Tasks : /\ (Queued(u)' <=> Queued(u)) /\ (Ordered(u)' <=> Ordered(u))
                       /\ (Finished(u)' <=> Finished(u)) /\ (Answered(u)' <=> Answered(u))
  BY <1>2 DEF Queued, Ordered, Finished, Answered
<1>5. InLoader(t) /\ \A u \in Tasks : ~InLoader(u)' /\ (InLoader(u) => u = t)
  BY <1>0, <1>1, <1>2 DEF InLoader
<1>6. \A u \in Tasks \ {t} : Stays(u)
  BY <1>3, <1>4, <1>5 DEF Stays
<1> QED
  BY <1>1, <1>2, <1>3, <1>4, <1>5, <1>6

LEMMA ProcessMoves ==
  ASSUME TypeOK, QueuesRight, Process
  PROVE \E t \in Tasks :
          /\ Loaded(t) /\ loaded' = Tail(loaded)
          /\ \E o \in {"outputs", "exception"} : results' = results \cup {[task |-> t, outcome |-> o]}
          /\ \A u \in Tasks \ {t} : Stays(u)
          /\ ~Loaded(t)' /\ Finished(t)' /\ (Queued(t)' <=> Queued(t)) /\ (Ordered(t)' <=> Ordered(t))
          /\ (InLoader(t)' <=> InLoader(t)) /\ (Answered(t)' <=> Answered(t))
<1>0. PICK t : t = Head(loaded)
  OBVIOUS
<1>1. loaded \in Seq(Tasks) /\ loaded # <<>> /\ Distinct(loaded, Tasks)
  BY DEF Process, TypeOK, QueuesRight
<1>2. /\ t \in Tasks /\ Holds(loaded, t) /\ ~Holds(Tail(loaded), t)
      /\ \A u : u # t => (Holds(Tail(loaded), u) <=> Holds(loaded, u))
  BY <1>0, <1>1, TailHolds
<1>3. loaded' = Tail(loaded) /\ UNCHANGED <<submitted, ordered, loader, answer>>
  BY DEF Process, pools
<1>4. PICK o \in {"outputs", "exception"} : results' = results \cup {[task |-> t, outcome |-> o]}
  BY <1>0 DEF Process
<1>5. Loaded(t) /\ ~Loaded(t)' /\ \A u \in Tasks \ {t} : Loaded(u)' <=> Loaded(u)
  BY <1>2, <1>3 DEF Loaded
<1>6. Finished(t)' /\ \A u \in Tasks \ {t} : Finished(u)' <=> Finished(u)
  <2> DEFINE r == [task |-> t, outcome |-> o]
  <2>1. r.task = t
    OBVIOUS
  <2>2. results' = results \cup {r}
    BY <1>4
  <2> HIDE DEF r
  <2>3. Finished(t)'
    BY <2>1, <2>2 DEF Finished
  <2>4. \A u \in Tasks \ {t} : Finished(u)' <=> Finished(u)
    BY <2>1, <2>2 DEF Finished
  <2> QED
    BY <2>3, <2>4
<1>7. \A u \in Tasks : /\ (Queued(u)' <=> Queued(u)) /\ (Ordered(u)' <=> Ordered(u))
                       /\ (InLoader(u)' <=> InLoader(u)) /\ (Answered(u)' <=> Answered(u))
  BY <1>3 DEF Queued, Ordered, InLoader, Answered
<1>8. \A u \in Tasks \ {t} : Stays(u)
  BY <1>5, <1>6, <1>7 DEF Stays
<1> QED
  BY <1>2, <1>3, <1>4, <1>5, <1>6, <1>7, <1>8

\* The future of a task the Runtime knows is always set.
LEMMA SendMoves ==
  ASSUME TypeOK, QueuesRight, DispatchedRight, NEW r \in results, Send(r)
  PROVE \E t \in Tasks :
          /\ t = r.task /\ Finished(t) /\ dispatched' = [dispatched EXCEPT ![PoolOf[t]] = @ \ {t}]
          /\ \A u \in Tasks \ {t} : Stays(u)
          /\ ~Finished(t)' /\ Answered(t)' /\ (Queued(t)' <=> Queued(t)) /\ (Ordered(t)' <=> Ordered(t))
          /\ (InLoader(t)' <=> InLoader(t)) /\ (Loaded(t)' <=> Loaded(t))
<1>0. PICK t : t = r.task
  OBVIOUS
<1>1. t \in Tasks /\ r.outcome \in {"outputs", "exception"}
  BY <1>0 DEF TypeOK
<1>2. Finished(t)
  BY <1>0 DEF Finished
<1>3. t \in dispatched[PoolOf[t]]
  BY <1>1, <1>2 DEF DispatchedRight
<1>4. /\ results' = results \ {r} /\ answer' = [answer EXCEPT ![t] = r.outcome]
      /\ dispatched' = [dispatched EXCEPT ![PoolOf[t]] = @ \ {t}]
      /\ UNCHANGED <<submitted, ordered, loader, loaded>>
  BY <1>0, <1>3 DEF Send, pools
<1>5. ~Finished(t)' /\ \A u \in Tasks \ {t} : Finished(u)' <=> Finished(u)
  BY <1>0, <1>4 DEF Finished, QueuesRight
<1>6. Answered(t)' /\ \A u \in Tasks \ {t} : Answered(u)' <=> Answered(u)
  BY <1>1, <1>4 DEF Answered, TypeOK
<1>7. \A u \in Tasks : /\ (Queued(u)' <=> Queued(u)) /\ (Ordered(u)' <=> Ordered(u))
                       /\ (InLoader(u)' <=> InLoader(u)) /\ (Loaded(u)' <=> Loaded(u))
  BY <1>4 DEF Queued, Ordered, InLoader, Loaded
<1>8. \A u \in Tasks \ {t} : Stays(u)
  BY <1>5, <1>6, <1>7 DEF Stays
<1> QED
  BY <1>0, <1>1, <1>2, <1>4, <1>5, <1>6, <1>7, <1>8

-----------------------------------------------------------------------------
\* Every action keeps a task in one place.

\* It is enough to look at the task that moves.
LEMMA OneMoves ==
  ASSUME PlacesRight, NEW t \in Tasks, \A u \in Tasks \ {t} : Stays(u) /\ stage'[u] = stage[u],
         IF stage'[t] \in {"idle", "stamped"} THEN Nowhere(t)' /\ ~Answered(t)'
         ELSE IF stage'[t] = "refused" THEN Nowhere(t)' ELSE InOnePlace(t)'
  PROVE PlacesRight'
<1> SUFFICES ASSUME NEW u \in Tasks, u # t
             PROVE IF stage'[u] \in {"idle", "stamped"} THEN Nowhere(u)' /\ ~Answered(u)'
                   ELSE IF stage'[u] = "refused" THEN Nowhere(u)' ELSE InOnePlace(u)'
  BY DEF PlacesRight
<1>1. Stays(u) /\ stage'[u] = stage[u]
  OBVIOUS
<1>2. (Nowhere(u)' <=> Nowhere(u)) /\ (InOnePlace(u)' <=> InOnePlace(u)) /\ (Answered(u)' <=> Answered(u))
  BY <1>1 DEF Stays, Nowhere, InOnePlace
<1> QED
  BY <1>1, <1>2 DEF PlacesRight

LEMMA NoneMoves ==
  ASSUME PlacesRight, \A u \in Tasks : Stays(u),
         \A u \in Tasks : \/ stage'[u] = stage[u]
                          \/ stage[u] = "idle" /\ stage'[u] = "stamped"
                          \/ {stage[u], stage'[u]} \cap {"idle", "stamped", "refused"} = {}
  PROVE PlacesRight'
<1> SUFFICES ASSUME NEW u \in Tasks
             PROVE IF stage'[u] \in {"idle", "stamped"} THEN Nowhere(u)' /\ ~Answered(u)'
                   ELSE IF stage'[u] = "refused" THEN Nowhere(u)' ELSE InOnePlace(u)'
  BY DEF PlacesRight
<1>1. (Nowhere(u)' <=> Nowhere(u)) /\ (InOnePlace(u)' <=> InOnePlace(u)) /\ (Answered(u)' <=> Answered(u))
  BY DEF Stays, Nowhere, InOnePlace
<1> QED
  BY <1>1 DEF PlacesRight

\* A task that is somewhere was put there.
LEMMA SomewhereInOnePlace ==
  ASSUME PlacesRight, NEW t \in Tasks, Queued(t) \/ Ordered(t) \/ InLoader(t) \/ Loaded(t) \/ Finished(t)
  PROVE stage[t] \notin {"idle", "stamped", "refused"} /\ InOnePlace(t)
BY DEF PlacesRight, Nowhere

\* The loader's other steps keep the task it has.
LEMMA LoaderKeepsTask ==
  ASSUME TypeOK, (\E p \in Pools : Select(p)) \/ ReceiveToken \/ Readvertise \/ LeaveSelect
  PROVE loader'.task = loader.task
<1>1. \/ \E p : loader' = [loader EXCEPT !.at = "get", !.pool = p]
      \/ \E n : loader' = [loader EXCEPT !.at = "first", !.next = n]
      \/ \E a : loader' = [loader EXCEPT !.at = a]
  <2>1. ASSUME ReceiveToken
        PROVE \/ \E n : loader' = [loader EXCEPT !.at = "first", !.next = n]
              \/ \E a : loader' = [loader EXCEPT !.at = a]
    BY <2>1 DEF ReceiveToken
  <2> QED
    BY <2>1 DEF Select, Readvertise, LeaveSelect
<1> QED
  BY <1>1 DEF TypeOK

LEMMA StepPlacesRight ==
  TypeOK /\ LoaderRight /\ QueuesRight /\ DispatchedRight /\ PlacesRight /\ [Next]_vars => PlacesRight'
<1> SUFFICES ASSUME TypeOK, LoaderRight, QueuesRight, DispatchedRight, PlacesRight, [Next]_vars
             PROVE PlacesRight'
  OBVIOUS
<1> USE PoolAssumption
<1>1. ASSUME NEW t \in Tasks, Refuse(t) PROVE PlacesRight'
  <2>1. stage[t] = "idle" /\ stage' = [stage EXCEPT ![t] = "refused"]
    BY <1>1 DEF Refuse, To
  <2>2. Nowhere(t)'
    BY <1>1, <2>1, RefuseMoves DEF PlacesRight
  <2>3. stage'[t] = "refused" /\ \A u \in Tasks \ {t} : stage'[u] = stage[u]
    BY <2>1 DEF TypeOK
  <2> QED
    BY <1>1, <2>2, <2>3, RefuseMoves, OneMoves
<1>2. ASSUME NEW t \in Tasks, Put(t) PROVE PlacesRight'
  <2>1. stage[t] = "stamped" /\ stage' = [stage EXCEPT ![t] = "put"]
    BY <1>2 DEF Put, To
  <2>2. Nowhere(t) /\ ~Answered(t)
    BY <2>1 DEF PlacesRight
  <2>3. InOnePlace(t)'
    BY <1>2, <2>2, PutMoves DEF InOnePlace, Nowhere
  <2>4. stage'[t] = "put" /\ \A u \in Tasks \ {t} : stage'[u] = stage[u]
    BY <2>1 DEF TypeOK
  <2> QED
    BY <1>2, <2>3, <2>4, PutMoves, OneMoves
<1>3. ASSUME NEW p \in Pools, Move(p) PROVE PlacesRight'
  <2>1. stage' = stage
    BY <1>3 DEF Move, submitting
  <2>2. CASE \A u \in Tasks : Stays(u)
    BY <2>1, <2>2, NoneMoves
  <2>3. CASE ~(\A u \in Tasks : Stays(u))
    <3>1. PICK t \in Tasks :
             /\ Queued(t)
             /\ \A u \in Tasks \ {t} : Stays(u)
             /\ ~Queued(t)' /\ Ordered(t)' /\ (InLoader(t)' <=> InLoader(t))
             /\ (Loaded(t)' <=> Loaded(t)) /\ (Finished(t)' <=> Finished(t)) /\ (Answered(t)' <=> Answered(t))
      BY <1>3, <2>3, MoveMoves
    <3>2. stage[t] \notin {"idle", "stamped", "refused"} /\ InOnePlace(t)
      BY <3>1, SomewhereInOnePlace
    <3>3. InOnePlace(t)'
      BY <3>1, <3>2 DEF InOnePlace
    <3> QED
      BY <2>1, <3>1, <3>2, <3>3, OneMoves
  <2> QED
    BY <2>2, <2>3
<1>4. ASSUME GetTask PROVE PlacesRight'
  <2>1. PICK t \in Tasks :
          /\ Ordered(t)
          /\ \A u \in Tasks \ {t} : Stays(u)
          /\ ~Ordered(t)' /\ InLoader(t)' /\ (Queued(t)' <=> Queued(t))
          /\ (Loaded(t)' <=> Loaded(t)) /\ (Finished(t)' <=> Finished(t)) /\ (Answered(t)' <=> Answered(t))
    BY <1>4, GetTaskMoves
  <2>2. stage[t] \notin {"idle", "stamped", "refused"} /\ InOnePlace(t)
    BY <2>1, SomewhereInOnePlace
  <2>3. InOnePlace(t)'
    BY <2>1, <2>2 DEF InOnePlace
  <2>4. stage' = stage
    BY <1>4 DEF GetTask, submitting
  <2> QED
    BY <2>1, <2>2, <2>3, <2>4, OneMoves
<1>5. ASSUME HandOver PROVE PlacesRight'
  <2>1. PICK t \in Tasks :
          /\ InLoader(t)
          /\ \A u \in Tasks \ {t} : Stays(u)
          /\ ~InLoader(t)' /\ Loaded(t)' /\ (Queued(t)' <=> Queued(t)) /\ (Ordered(t)' <=> Ordered(t))
          /\ (Finished(t)' <=> Finished(t)) /\ (Answered(t)' <=> Answered(t))
    BY <1>5, HandOverMoves
  <2>2. stage[t] \notin {"idle", "stamped", "refused"} /\ InOnePlace(t)
    BY <2>1, SomewhereInOnePlace
  <2>3. InOnePlace(t)'
    BY <2>1, <2>2 DEF InOnePlace
  <2>4. stage' = stage
    BY <1>5 DEF HandOver, submitting
  <2> QED
    BY <2>1, <2>2, <2>3, <2>4, OneMoves
<1>6. ASSUME Process PROVE PlacesRight'
  <2>1. PICK t \in Tasks :
          /\ Loaded(t)
          /\ \A u \in Tasks \ {t} : Stays(u)
          /\ ~Loaded(t)' /\ Finished(t)' /\ (Queued(t)' <=> Queued(t)) /\ (Ordered(t)' <=> Ordered(t))
          /\ (InLoader(t)' <=> InLoader(t)) /\ (Answered(t)' <=> Answered(t))
    BY <1>6, ProcessMoves
  <2>2. stage[t] \notin {"idle", "stamped", "refused"} /\ InOnePlace(t)
    BY <2>1, SomewhereInOnePlace
  <2>3. InOnePlace(t)'
    BY <2>1, <2>2 DEF InOnePlace
  <2>4. stage' = stage
    BY <1>6 DEF Process, submitting
  <2> QED
    BY <2>1, <2>2, <2>3, <2>4, OneMoves
<1>7. ASSUME NEW r \in results, Send(r) PROVE PlacesRight'
  <2>1. PICK t \in Tasks :
          /\ Finished(t)
          /\ \A u \in Tasks \ {t} : Stays(u)
          /\ ~Finished(t)' /\ Answered(t)' /\ (Queued(t)' <=> Queued(t)) /\ (Ordered(t)' <=> Ordered(t))
          /\ (InLoader(t)' <=> InLoader(t)) /\ (Loaded(t)' <=> Loaded(t))
    BY <1>7, SendMoves
  <2>2. stage[t] \notin {"idle", "stamped", "refused"} /\ InOnePlace(t)
    BY <2>1, SomewhereInOnePlace
  <2>3. InOnePlace(t)'
    BY <2>1, <2>2 DEF InOnePlace
  <2>4. stage' = stage
    BY <1>7 DEF Send, submitting
  <2> QED
    BY <2>1, <2>2, <2>3, <2>4, OneMoves
<1>8. ASSUME StopPools PROVE PlacesRight'
  <2>1. stage' = stage
    BY <1>8 DEF StopPools, submitting
  <2> QED
    BY <1>8, <2>1, StopPoolsMoves, NoneMoves
<1>9. ASSUME NEW t \in Tasks, Submit(t) \/ SendToken(t) \/ Compare(t) \/ Advertise(t) PROVE PlacesRight'
  <2>1. UNCHANGED <<submitted, ordered, loader, loaded, results, answer>>
    BY <1>9 DEF Submit, SendToken, Compare, Advertise, pools, runtime
  <2>2. \E s \in {"stamped", "sent", "better", "half", "done"} :
          /\ stage' = [stage EXCEPT ![t] = s]
          /\ \/ stage[t] = "idle" /\ s = "stamped"
             \/ s # "stamped" /\ stage[t] \in {"put", "sent", "better", "half"}
    <3>1. ASSUME Submit(t) PROVE stage[t] = "idle" /\ stage' = [stage EXCEPT ![t] = "stamped"]
      BY <3>1 DEF Submit, To
    <3>2. ASSUME SendToken(t) PROVE stage[t] = "put" /\ stage' = [stage EXCEPT ![t] = "sent"]
      BY <3>2 DEF SendToken, To
    <3>3. ASSUME Compare(t)
          PROVE stage[t] = "sent" /\ \E s \in {"better", "done"} : stage' = [stage EXCEPT ![t] = s]
      BY <3>3 DEF Compare, To
    <3>4. ASSUME Advertise(t)
          PROVE stage[t] \in {"better", "half"} /\ \E s \in {"half", "done"} : stage' = [stage EXCEPT ![t] = s]
      BY <3>4 DEF Advertise, To
    <3> QED
      BY <1>9, <3>1, <3>2, <3>3, <3>4
  <2>3. \A u \in Tasks : \/ stage'[u] = stage[u]
                         \/ stage[u] = "idle" /\ stage'[u] = "stamped"
                         \/ {stage[u], stage'[u]} \cap {"idle", "stamped", "refused"} = {}
    BY <2>2 DEF TypeOK
  <2> QED
    BY <2>1, <2>3, NothingMoves, NoneMoves
<1>10. ASSUME UNCHANGED <<stage, submitted, ordered, loaded, results, answer>>, loader'.task = loader.task
       PROVE PlacesRight'
  BY <1>10, NothingMoves, NoneMoves
<1>11. ASSUME \/ \E p \in Pools : Select(p)
              \/ ReceiveToken \/ Readvertise \/ LeaveSelect
       PROVE UNCHANGED <<stage, submitted, ordered, loaded, results, answer>> /\ loader'.task = loader.task
  <2>1. UNCHANGED <<stage, submitted, ordered, loaded, results, answer>>
    BY <1>11 DEF Select, ReceiveToken, Readvertise, LeaveSelect, submitting, pools
  <2> QED
    BY <1>11, <2>1, LoaderKeepsTask
<1>12. ASSUME StopHandlers \/ StopRuntime \/ UNCHANGED vars
       PROVE UNCHANGED <<stage, submitted, ordered, loaded, results, answer>> /\ loader'.task = loader.task
  BY <1>12 DEF StopHandlers, StopRuntime, vars, submitting, pools, runtime
<1> QED
  BY <1>1, <1>2, <1>3, <1>4, <1>5, <1>6, <1>7, <1>8, <1>9, <1>10, <1>11, <1>12 DEF Next, Submission, Loader

\* Queues hold a task once, and in its own pool.
LEMMA StepQueuesRight ==
  TypeOK /\ LoaderRight /\ QueuesRight /\ DispatchedRight /\ PlacesRight /\ [Next]_vars => QueuesRight'
<1> SUFFICES ASSUME TypeOK, LoaderRight, QueuesRight, DispatchedRight, PlacesRight, [Next]_vars
             PROVE QueuesRight'
  OBVIOUS
<1> USE PoolAssumption
<1>1. ASSUME NEW t \in Tasks, Put(t) PROVE QueuesRight'
  <2> DEFINE q == submitted[PoolOf[t]]
  <2>1. /\ submitted' = [submitted EXCEPT ![PoolOf[t]] = Append(@, t)]
        /\ UNCHANGED <<ordered, loaded, results>>
    BY <1>1 DEF Put, runtime
  <2>2. q \in Seq(Tasks \cup {Stop}) /\ ~Holds(q, t) /\ Distinct(q, Tasks)
    BY <1>1 DEF Put, TypeOK, PlacesRight, Nowhere, Queued, QueuesRight
  <2>3. Distinct(Append(q, t), Tasks) /\ \A u : Holds(Append(q, t), u) <=> Holds(q, u) \/ u = t
    BY <2>2, AppendHolds
  <2>4. ASSUME NEW p \in Pools
        PROVE Distinct(submitted'[p], Tasks) /\ \A u \in Tasks : Holds(submitted'[p], u) => PoolOf[u] = p
    <3>1. CASE p # PoolOf[t]
      BY <2>1, <3>1 DEF TypeOK, QueuesRight
    <3>2. CASE p = PoolOf[t]
      <4>1. submitted'[p] = Append(q, t)
        BY <2>1, <3>2 DEF TypeOK
      <4> QED
        BY <2>3, <3>2, <4>1 DEF QueuesRight
    <3> QED
      BY <3>1, <3>2
  <2> QED
    BY <2>1, <2>4 DEF QueuesRight
<1>2. ASSUME NEW p \in Pools, Move(p) PROVE QueuesRight'
  <2> DEFINE q == submitted[p]
  <2>1. q \in Seq(Tasks \cup {Stop}) /\ q # <<>> /\ Distinct(q, Tasks)
        /\ submitted' = [submitted EXCEPT ![p] = Tail(@)]
        /\ UNCHANGED <<loaded, results>>
    BY <1>2 DEF Move, TypeOK, QueuesRight, runtime
  <2>2. Distinct(Tail(q), Tasks) /\ Holds(q, Head(q)) /\ \A u : Holds(Tail(q), u) => Holds(q, u)
    BY <2>1, TailHolds
  <2>3. ASSUME NEW r \in Pools
        PROVE Distinct(submitted'[r], Tasks) /\ \A u \in Tasks : Holds(submitted'[r], u) => PoolOf[u] = r
    <3>1. CASE r # p
      BY <2>1, <3>1 DEF TypeOK, QueuesRight
    <3>2. CASE r = p
      <4>1. submitted'[r] = Tail(q)
        BY <2>1, <3>2 DEF TypeOK
      <4> QED
        BY <2>2, <3>2, <4>1 DEF QueuesRight
    <3> QED
      BY <3>1, <3>2
  <2>4. \A r \in Pools : \A u \in ordered'[r] : PoolOf[u] = r
    <3>1. CASE Head(q) = Stop
      BY <1>2, <3>1 DEF Move, QueuesRight
    <3>2. CASE Head(q) # Stop
      <4>1. PICK t \in Tasks : PoolOf[t] = p /\ ordered' = [ordered EXCEPT ![p] = @ \cup {t}]
        BY <1>2, <3>2, MoveMoves
      <4> QED
        BY <4>1 DEF QueuesRight, TypeOK
    <3> QED
      BY <3>1, <3>2
  <2> QED
    BY <2>1, <2>3, <2>4 DEF QueuesRight
<1>3. ASSUME GetTask PROVE QueuesRight'
  <2>1. \E t : ordered' = [ordered EXCEPT ![loader.pool] = @ \ {t}]
    BY <1>3 DEF GetTask
  <2>2. UNCHANGED <<submitted, loaded, results>>
    BY <1>3 DEF GetTask
  <2>3. \A p \in Pools : ordered'[p] \subseteq ordered[p]
    BY <2>1 DEF TypeOK
  <2> QED
    BY <2>2, <2>3 DEF QueuesRight
<1>4. ASSUME HandOver PROVE QueuesRight'
  <2>1. PICK t \in Tasks : InLoader(t) /\ loaded' = Append(loaded, t)
    BY <1>4, HandOverMoves
  <2>2. ~Holds(loaded, t) /\ Distinct(loaded, Tasks) /\ loaded \in Seq(Tasks)
    BY <2>1, SomewhereInOnePlace DEF InOnePlace, Loaded, QueuesRight, TypeOK
  <2>3. Distinct(loaded', Tasks)
    BY <2>1, <2>2, AppendHolds
  <2>4. UNCHANGED <<submitted, ordered, results>>
    BY <1>4 DEF HandOver, pools
  <2> QED
    BY <2>3, <2>4 DEF QueuesRight
<1>5. ASSUME Process PROVE QueuesRight'
  <2>1. PICK t \in Tasks, o \in {"outputs", "exception"} :
          Loaded(t) /\ results' = results \cup {[task |-> t, outcome |-> o]}
    BY <1>5, ProcessMoves
  <2>2. \A r \in results : r.task # t
    BY <2>1, SomewhereInOnePlace DEF InOnePlace, Finished
  <2>3. \A r1, r2 \in results' : r1.task = r2.task => r1 = r2
    <3> DEFINE new == [task |-> t, outcome |-> o]
    <3>1. new.task = t /\ results' = results \cup {new}
      BY <2>1
    <3> HIDE DEF new
    <3> QED
      BY <2>2, <3>1 DEF QueuesRight
  <2>4. loaded \in Seq(Tasks) /\ loaded # <<>> /\ loaded' = Tail(loaded) /\ Distinct(loaded, Tasks)
        /\ UNCHANGED <<submitted, ordered>>
    BY <1>5 DEF Process, TypeOK, QueuesRight, pools
  <2>5. Distinct(loaded', Tasks)
    BY <2>4, TailHolds
  <2> QED
    BY <2>3, <2>4, <2>5 DEF QueuesRight
<1>6. ASSUME NEW r \in results, Send(r) PROVE QueuesRight'
  BY <1>6 DEF Send, pools, QueuesRight
<1>7. ASSUME StopPools PROVE QueuesRight'
  <2>1. ASSUME NEW p \in Pools
        PROVE Distinct(submitted'[p], Tasks) /\ \A u \in Tasks : Holds(submitted'[p], u) => PoolOf[u] = p
    <3>1. submitted[p] \in Seq(Tasks \cup {Stop}) /\ submitted'[p] = Append(submitted[p], Stop)
      BY <1>7 DEF StopPools, TypeOK
    <3>2. Distinct(submitted[p], Tasks)
      BY DEF QueuesRight
    <3>3. Distinct(submitted'[p], Tasks) /\ \A u : Holds(submitted'[p], u) <=> Holds(submitted[p], u) \/ u = Stop
      BY <3>1, <3>2, AppendHolds
    <3> QED
      BY <3>3 DEF QueuesRight
  <2> QED
    BY <1>7, <2>1 DEF StopPools, runtime, QueuesRight
<1>8. ASSUME UNCHANGED <<submitted, ordered, loaded, results>> PROVE QueuesRight'
  BY <1>8 DEF QueuesRight
<1>9. ASSUME NEW t \in Tasks, Submit(t) \/ Refuse(t) \/ SendToken(t) \/ Compare(t) \/ Advertise(t)
      PROVE UNCHANGED <<submitted, ordered, loaded, results>>
  BY <1>9 DEF Submit, Refuse, SendToken, Compare, Advertise, pools, runtime
<1>10. ASSUME \/ \E p \in Pools : Select(p)
              \/ ReceiveToken \/ Readvertise \/ LeaveSelect \/ StopHandlers \/ StopRuntime
       PROVE UNCHANGED <<submitted, ordered, loaded, results>>
  BY <1>10 DEF Select, ReceiveToken, Readvertise, LeaveSelect, StopHandlers, StopRuntime, pools, runtime
<1> QED
  BY <1>1, <1>2, <1>3, <1>4, <1>5, <1>6, <1>7, <1>8, <1>9, <1>10 DEF Next, Submission, Loader, vars

\* The Runtime forgets a task only when it answers it.
LEMMA StepDispatchedRight ==
  TypeOK /\ LoaderRight /\ QueuesRight /\ DispatchedRight /\ PlacesRight /\ [Next]_vars => DispatchedRight'
<1> SUFFICES ASSUME TypeOK, LoaderRight, QueuesRight, DispatchedRight, PlacesRight, [Next]_vars
             PROVE DispatchedRight'
  OBVIOUS
<1> USE PoolAssumption
<1>1. ASSUME NEW t \in Tasks, Put(t) PROVE DispatchedRight'
  <2>1. dispatched' = dispatched
    BY <1>1 DEF Put, runtime
  <2> QED
    BY <1>1, <2>1, PutMoves DEF Stays, DispatchedRight
<1>2. ASSUME NEW t \in Tasks, Refuse(t) PROVE DispatchedRight'
  <2>1. UNCHANGED <<loader, loaded, results, dispatched>>
    BY <1>2 DEF Refuse
  <2> QED
    BY <2>1 DEF InLoader, Loaded, Finished, DispatchedRight
<1>3. ASSUME NEW p \in Pools, Move(p) PROVE DispatchedRight'
  <2>1. UNCHANGED <<loader, loaded, results, dispatched>>
    BY <1>3 DEF Move, runtime
  <2> QED
    BY <2>1 DEF InLoader, Loaded, Finished, DispatchedRight
<1>4. ASSUME GetTask PROVE DispatchedRight'
  <2>1. PICK t \in Tasks :
          /\ PoolOf[t] = loader.pool /\ dispatched' = [dispatched EXCEPT ![loader.pool] = @ \cup {t}]
          /\ \A u \in Tasks \ {t} : Stays(u)
    BY <1>4, GetTaskMoves
  <2>2. t \in dispatched'[PoolOf[t]] /\ \A p \in Pools : dispatched[p] \subseteq dispatched'[p]
    BY <2>1 DEF TypeOK
  <2> QED
    BY <2>1, <2>2 DEF Stays, DispatchedRight
<1>5. ASSUME HandOver PROVE DispatchedRight'
  <2>1. dispatched' = dispatched
    BY <1>5 DEF HandOver
  <2>2. PICK t \in Tasks : InLoader(t) /\ \A u \in Tasks \ {t} : Stays(u)
    BY <1>5, HandOverMoves
  <2> QED
    BY <2>1, <2>2 DEF Stays, DispatchedRight
<1>6. ASSUME Process PROVE DispatchedRight'
  <2>1. dispatched' = dispatched
    BY <1>6 DEF Process
  <2>2. PICK t \in Tasks : Loaded(t) /\ \A u \in Tasks \ {t} : Stays(u)
    BY <1>6, ProcessMoves
  <2> QED
    BY <2>1, <2>2 DEF Stays, DispatchedRight
<1>7. ASSUME NEW r \in results, Send(r) PROVE DispatchedRight'
  <2>1. PICK t \in Tasks :
          /\ Finished(t) /\ dispatched' = [dispatched EXCEPT ![PoolOf[t]] = @ \ {t}]
          /\ \A u \in Tasks \ {t} : Stays(u)
          /\ ~Finished(t)' /\ (InLoader(t)' <=> InLoader(t)) /\ (Loaded(t)' <=> Loaded(t))
    BY <1>7, SendMoves
  <2>2. ~InLoader(t) /\ ~Loaded(t)
    BY <2>1, SomewhereInOnePlace DEF InOnePlace
  <2>3. \A u \in Tasks \ {t} : u \in dispatched[PoolOf[u]] => u \in dispatched'[PoolOf[u]]
    BY <2>1 DEF TypeOK
  <2> QED
    BY <2>1, <2>2, <2>3 DEF Stays, DispatchedRight
<1>8. ASSUME UNCHANGED <<loaded, results, dispatched>>, loader'.task = loader.task PROVE DispatchedRight'
  BY <1>8 DEF DispatchedRight, InLoader, Loaded, Finished
<1>9. ASSUME NEW t \in Tasks, Submit(t) \/ SendToken(t) \/ Compare(t) \/ Advertise(t)
      PROVE UNCHANGED <<loaded, results, dispatched>> /\ loader'.task = loader.task
  BY <1>9 DEF Submit, SendToken, Compare, Advertise, runtime
<1>10. ASSUME \/ \E p \in Pools : Select(p)
              \/ ReceiveToken \/ Readvertise \/ LeaveSelect
       PROVE UNCHANGED <<loaded, results, dispatched>> /\ loader'.task = loader.task
  <2>1. UNCHANGED <<loaded, results, dispatched>>
    BY <1>10 DEF Select, ReceiveToken, Readvertise, LeaveSelect
  <2> QED
    BY <1>10, <2>1, LoaderKeepsTask
<1>11. ASSUME StopHandlers \/ StopPools \/ StopRuntime \/ UNCHANGED vars
       PROVE UNCHANGED <<loaded, results, dispatched>> /\ loader'.task = loader.task
  BY <1>11 DEF StopHandlers, StopPools, StopRuntime, vars, runtime
<1> QED
  BY <1>1, <1>2, <1>3, <1>4, <1>5, <1>6, <1>7, <1>8, <1>9, <1>10, <1>11 DEF Next, Submission, Loader

-----------------------------------------------------------------------------
\* Tokens are counted.

LEMMA CountsFinite ==
  ASSUME TypeOK, NEW p \in Pools
  PROVE /\ submitted[p] \in Seq(Tasks \cup {Stop}) /\ InQueue(p) = Waiting(submitted[p])
        /\ IsFiniteSet(InQueue(p)) /\ Cardinality(InQueue(p)) \in Nat
        /\ IsFiniteSet(ordered[p]) /\ Cardinality(ordered[p]) \in Nat
        /\ IsFiniteSet(Unannounced(p)) /\ Cardinality(Unannounced(p)) \in Nat
        /\ tokens[p] \in Nat /\ Holding(p) \in {0, 1}
<1>1. submitted[p] \in Seq(Tasks \cup {Stop}) /\ InQueue(p) = Waiting(submitted[p])
  BY DEF TypeOK, InQueue, Waiting
<1>2. IsFiniteSet(InQueue(p)) /\ Cardinality(InQueue(p)) \in Nat
  BY <1>1, WaitingFinite
<1>3. ordered[p] \in SUBSET Tasks /\ Unannounced(p) \in SUBSET Tasks
  BY DEF TypeOK, Unannounced
<1>4. IsFiniteSet(ordered[p]) /\ IsFiniteSet(Unannounced(p))
  BY <1>3, FS_Subset, PoolAssumption
<1> QED
  BY <1>1, <1>2, <1>4, FS_CardinalityType DEF TypeOK, Holding

\* A pool whose numbers agree before and whose changes cancel out agrees after.
LEMMA PoolUntouched ==
  ASSUME TokensCount, NEW p \in Pools,
         submitted'[p] = submitted[p], ordered'[p] = ordered[p], tokens'[p] = tokens[p],
         Unannounced(p)' = Unannounced(p), Holding(p)' = Holding(p)
  PROVE (Cardinality(InQueue(p)) + Cardinality(ordered[p]) + Holding(p)
           = tokens[p] + Cardinality(Unannounced(p)))'
BY DEF TokensCount, InQueue

LEMMA StepTokensCount ==
  TypeOK /\ LoaderRight /\ QueuesRight /\ PlacesRight /\ TokensCount /\ [Next]_vars => TokensCount'
<1> SUFFICES ASSUME TypeOK, LoaderRight, QueuesRight, PlacesRight, TokensCount, [Next]_vars
             PROVE TokensCount'
  OBVIOUS
<1> USE PoolAssumption
<1> DEFINE Agrees(p) ==
      Cardinality(InQueue(p)) + Cardinality(ordered[p]) + Holding(p)
        = tokens[p] + Cardinality(Unannounced(p))
<1>0. (\A p \in Pools : Agrees(p)) /\ ((\A p \in Pools : Agrees(p)') => TokensCount')
  BY DEF TokensCount
<1> HIDE DEF Agrees
<1>1. ASSUME NEW t \in Tasks, Put(t) PROVE \A p \in Pools : Agrees(p)'
  <2> SUFFICES ASSUME NEW p \in Pools PROVE Agrees(p)'
    OBVIOUS
  <2>1. /\ submitted' = [submitted EXCEPT ![PoolOf[t]] = Append(@, t)]
        /\ stage[t] = "stamped" /\ stage' = [stage EXCEPT ![t] = "put"]
        /\ UNCHANGED <<ordered, tokens, loader>>
    BY <1>1 DEF Put, To, runtime
  <2>2. Holding(p)' = Holding(p)
    BY <2>1 DEF Holding
  <2>3. CASE p # PoolOf[t]
    <3>1. submitted'[p] = submitted[p]
      BY <2>1, <2>3 DEF TypeOK
    <3>2. Unannounced(p)' = Unannounced(p)
      BY <2>1, <2>3 DEF Unannounced, TypeOK
    <3> QED
      BY <2>1, <2>2, <3>1, <3>2, PoolUntouched DEF Agrees
  <2>4. CASE p = PoolOf[t]
    <3>1. submitted'[p] = Append(submitted[p], t) /\ submitted[p] \in Seq(Tasks \cup {Stop}) /\ t # Stop
      BY <2>1, <2>4 DEF TypeOK
    <3>2. InQueue(p)' = Waiting(submitted'[p]) /\ InQueue(p) = Waiting(submitted[p])
      BY DEF InQueue, Waiting
    <3>3. Cardinality(InQueue(p)') = Cardinality(InQueue(p)) + 1
      BY <3>1, <3>2, WaitingAppend
    <3>4. Unannounced(p)' = Unannounced(p) \cup {t} /\ t \notin Unannounced(p)
      <4>1. stage'[t] = "put" /\ \A u \in Tasks \ {t} : stage'[u] = stage[u]
        BY <2>1 DEF TypeOK
      <4> QED
        BY <2>1, <2>4, <4>1 DEF Unannounced
    <3>5. Cardinality(Unannounced(p)') = Cardinality(Unannounced(p)) + 1
      BY <3>4, CountsFinite, FS_AddElement
    <3>6. /\ Cardinality(InQueue(p)) \in Nat /\ Cardinality(ordered[p]) \in Nat /\ tokens[p] \in Nat
          /\ Cardinality(Unannounced(p)) \in Nat /\ Holding(p) \in Int
      BY CountsFinite
    <3>7. ordered'[p] = ordered[p] /\ tokens'[p] = tokens[p]
      BY <2>1
    <3>8. Cardinality(InQueue(p)) + Cardinality(ordered[p]) + Holding(p)
            = tokens[p] + Cardinality(Unannounced(p))
      BY <1>0 DEF Agrees
    <3> QED
      BY <2>2, <3>3, <3>5, <3>6, <3>7, <3>8 DEF Agrees
  <2> QED
    BY <2>3, <2>4
<1>2. ASSUME NEW t \in Tasks, SendToken(t) PROVE \A p \in Pools : Agrees(p)'
  <2> SUFFICES ASSUME NEW p \in Pools PROVE Agrees(p)'
    OBVIOUS
  <2>1. /\ tokens' = [tokens EXCEPT ![PoolOf[t]] = @ + 1]
        /\ stage[t] = "put" /\ stage' = [stage EXCEPT ![t] = "sent"]
        /\ UNCHANGED <<submitted, ordered, loader>>
    BY <1>2 DEF SendToken, To, runtime
  <2>2. Holding(p)' = Holding(p) /\ InQueue(p)' = InQueue(p)
    BY <2>1 DEF Holding, InQueue
  <2>3. CASE p # PoolOf[t]
    <3>1. tokens'[p] = tokens[p]
      BY <2>1, <2>3 DEF TypeOK
    <3>2. Unannounced(p)' = Unannounced(p)
      BY <2>1, <2>3 DEF Unannounced, TypeOK
    <3> QED
      BY <2>1, <2>2, <3>1, <3>2, PoolUntouched DEF Agrees
  <2>4. CASE p = PoolOf[t]
    <3>1. tokens'[p] = tokens[p] + 1
      BY <2>1, <2>4 DEF TypeOK
    <3>2. Unannounced(p)' = Unannounced(p) \ {t} /\ t \in Unannounced(p)
      BY <2>1, <2>4 DEF Unannounced, TypeOK
    <3>3. Cardinality(Unannounced(p)') = Cardinality(Unannounced(p)) - 1
      BY <3>2, CountsFinite, FS_RemoveElement, ZenonT(40)
    <3> QED
      BY <1>0, <2>1, <2>2, <3>1, <3>3, CountsFinite DEF Agrees
  <2> QED
    BY <2>3, <2>4
<1>3. ASSUME NEW o \in Pools, Move(o) PROVE \A p \in Pools : Agrees(p)'
  <2> SUFFICES ASSUME NEW p \in Pools PROVE Agrees(p)'
    OBVIOUS
  <2>1. /\ submitted' = [submitted EXCEPT ![o] = Tail(@)] /\ submitted[o] # <<>>
        /\ UNCHANGED <<stage, tokens, loader>>
    BY <1>3 DEF Move, submitting, runtime
  <2>2. Holding(p)' = Holding(p) /\ Unannounced(p)' = Unannounced(p)
    BY <2>1 DEF Holding, Unannounced
  <2>3. CASE p # o
    <3>1. submitted'[p] = submitted[p]
      BY <2>1, <2>3 DEF TypeOK
    <3>2. ordered'[p] = ordered[p]
      BY <1>3, <2>3 DEF Move, TypeOK
    <3> QED
      BY <2>1, <2>2, <3>1, <3>2, PoolUntouched DEF Agrees
  <2>4. CASE p = o
    <3>1. submitted'[p] = Tail(submitted[p]) /\ submitted[p] \in Seq(Tasks \cup {Stop})
      BY <2>1, <2>4 DEF TypeOK
    <3>2. InQueue(p)' = Waiting(submitted'[p]) /\ InQueue(p) = Waiting(submitted[p])
      BY DEF InQueue, Waiting
    <3>3. CASE Head(submitted[p]) = Stop
      <4>1. Cardinality(InQueue(p)') = Cardinality(InQueue(p))
        BY <2>1, <2>4, <3>1, <3>2, <3>3, WaitingTail
      <4>2. ordered' = ordered
        BY <1>3, <2>4, <3>3 DEF Move
      <4> QED
        BY <1>0, <2>1, <2>2, <4>1, <4>2 DEF Agrees
    <3>4. CASE Head(submitted[p]) # Stop
      <4>1. Cardinality(InQueue(p)') = Cardinality(InQueue(p)) - 1
        BY <2>1, <2>4, <3>1, <3>2, <3>4, WaitingTail
      <4>2. PICK t \in Tasks : PoolOf[t] = p /\ Queued(t) /\ ordered' = [ordered EXCEPT ![p] = @ \cup {t}]
        BY <1>3, <2>4, <3>4, MoveMoves
      <4>3. t \notin ordered[p]
        BY <4>2, SomewhereInOnePlace DEF InOnePlace, Ordered
      <4>4. ordered'[p] = ordered[p] \cup {t}
        BY <4>2 DEF TypeOK
      <4>5. Cardinality(ordered'[p]) = Cardinality(ordered[p]) + 1
        BY <4>3, <4>4, CountsFinite, FS_AddElement
      <4> QED
        BY <1>0, <2>1, <2>2, <4>1, <4>5, CountsFinite DEF Agrees
    <3> QED
      BY <3>3, <3>4
  <2> QED
    BY <2>3, <2>4
<1>4. ASSUME GetTask PROVE \A p \in Pools : Agrees(p)'
  <2> SUFFICES ASSUME NEW p \in Pools PROVE Agrees(p)'
    OBVIOUS
  <2>1. /\ UNCHANGED <<submitted, stage, tokens>> /\ loader.at = "get" /\ loader.pool \in Pools
        /\ loader'.at = "recv" /\ loader'.pool = loader.pool
    BY <1>4 DEF GetTask, submitting, LoaderRight, TypeOK
  <2>2. InQueue(p)' = InQueue(p) /\ Unannounced(p)' = Unannounced(p)
    BY <2>1 DEF InQueue, Unannounced
  <2>3. PICK t \in Tasks :
          t \in ordered[loader.pool] /\ ordered' = [ordered EXCEPT ![loader.pool] = @ \ {t}]
    BY <1>4, GetTaskMoves
  <2>4. CASE p # loader.pool
    <3>1. ordered'[p] = ordered[p] /\ Holding(p)' = Holding(p)
      BY <2>1, <2>3, <2>4 DEF Holding, TypeOK
    <3> QED
      BY <2>1, <2>2, <3>1, PoolUntouched DEF Agrees
  <2>5. CASE p = loader.pool
    <3>1. ordered'[p] = ordered[p] \ {t} /\ t \in ordered[p]
      BY <2>3, <2>5 DEF TypeOK
    <3>2. Cardinality(ordered'[p]) = Cardinality(ordered[p]) - 1
      <4>1. IsFiniteSet(ordered[p])
        BY CountsFinite
      <4> QED
        BY <3>1, <4>1, FS_RemoveElement, ZenonT(40)
    <3>3. Holding(p) = 0 /\ Holding(p)' = 1
      BY <2>1, <2>5 DEF Holding
    <3> QED
      BY <1>0, <2>1, <2>2, <3>2, <3>3, CountsFinite DEF Agrees
  <2> QED
    BY <2>4, <2>5
<1>5. ASSUME ReceiveToken PROVE \A p \in Pools : Agrees(p)'
  <2> SUFFICES ASSUME NEW p \in Pools PROVE Agrees(p)'
    OBVIOUS
  <2>1. /\ UNCHANGED <<submitted, ordered, stage>> /\ loader.at = "recv" /\ loader.pool \in Pools
        /\ loader'.at # "recv" /\ tokens' = [tokens EXCEPT ![loader.pool] = @ - 1]
    BY <1>5 DEF ReceiveToken, submitting, LoaderRight, TypeOK
  <2>2. InQueue(p)' = InQueue(p) /\ Unannounced(p)' = Unannounced(p)
    BY <2>1 DEF InQueue, Unannounced
  <2>3. CASE p # loader.pool
    <3>1. tokens'[p] = tokens[p] /\ Holding(p)' = Holding(p)
      BY <2>1, <2>3 DEF Holding, TypeOK
    <3> QED
      BY <2>1, <2>2, <3>1, PoolUntouched DEF Agrees
  <2>4. CASE p = loader.pool
    <3>1. tokens'[p] = tokens[p] - 1 /\ Holding(p) = 1 /\ Holding(p)' = 0
      BY <2>1, <2>4 DEF Holding, TypeOK
    <3> QED
      BY <1>0, <2>1, <2>2, <3>1, CountsFinite DEF Agrees
  <2> QED
    BY <2>3, <2>4
<1>6. ASSUME StopPools PROVE \A p \in Pools : Agrees(p)'
  <2> SUFFICES ASSUME NEW p \in Pools PROVE Agrees(p)'
    OBVIOUS
  <2>1. submitted'[p] = Append(submitted[p], Stop) /\ submitted[p] \in Seq(Tasks \cup {Stop})
        /\ UNCHANGED <<ordered, stage, tokens, loader>>
    BY <1>6 DEF StopPools, TypeOK, submitting, runtime
  <2>2. InQueue(p)' = Waiting(submitted'[p]) /\ InQueue(p) = Waiting(submitted[p])
    BY DEF InQueue, Waiting
  <2>3. Cardinality(InQueue(p)') = Cardinality(InQueue(p))
    BY <2>1, <2>2, WaitingAppend
  <2>4. Holding(p)' = Holding(p) /\ Unannounced(p)' = Unannounced(p)
    BY <2>1 DEF Holding, Unannounced
  <2> QED
    BY <1>0, <2>1, <2>3, <2>4 DEF Agrees
<1>7. ASSUME UNCHANGED <<submitted, ordered, tokens>>,
             \A p \in Pools : Unannounced(p)' = Unannounced(p),
             \A p \in Pools : Holding(p)' = Holding(p)
      PROVE \A p \in Pools : Agrees(p)'
  BY <1>7, PoolUntouched DEF Agrees
<1>8. ASSUME NEW t \in Tasks, Submit(t) \/ Refuse(t) \/ Compare(t) \/ Advertise(t)
      PROVE \A p \in Pools : Agrees(p)'
  <2>1. UNCHANGED <<submitted, ordered, tokens, loader>>
    BY <1>8 DEF Submit, Refuse, Compare, Advertise, pools, runtime
  <2>2. \A u \in Tasks : stage'[u] = "put" <=> stage[u] = "put"
    BY <1>8, ZenonT(40) DEF Submit, Refuse, Compare, Advertise, To, TypeOK
  <2>3. \A p \in Pools : Unannounced(p)' = Unannounced(p)
    BY <2>2 DEF Unannounced
  <2> QED
    BY <1>7, <2>1, <2>3 DEF Holding
<1>9. ASSUME (\E p \in Pools : Select(p)) \/ Readvertise \/ HandOver \/ LeaveSelect
      PROVE \A p \in Pools : Agrees(p)'
  <2>1. UNCHANGED <<submitted, ordered, tokens, stage>>
    BY <1>9 DEF Select, Readvertise, HandOver, LeaveSelect, submitting, pools
  <2>2. loader.at # "recv"
    BY <1>9 DEF Select, Readvertise, HandOver, LeaveSelect
  <2>3. loader'.at # "recv"
    <3>1. \/ loader' = [at |-> "select", pool |-> NoTask, task |-> NoTask, next |-> NoTask]
          \/ \E p : loader' = [loader EXCEPT !.at = "get", !.pool = p]
          \/ \E a \in {"second", "hand", "off"} : loader' = [loader EXCEPT !.at = a]
      BY <1>9 DEF Select, Readvertise, HandOver, LeaveSelect
    <3>2. CASE loader' = [at |-> "select", pool |-> NoTask, task |-> NoTask, next |-> NoTask]
      BY <3>2
    <3>3. CASE \E p : loader' = [loader EXCEPT !.at = "get", !.pool = p]
      BY <3>3 DEF TypeOK
    <3>4. CASE \E a \in {"second", "hand", "off"} : loader' = [loader EXCEPT !.at = a]
      BY <3>4 DEF TypeOK
    <3> QED
      BY <3>1, <3>2, <3>3, <3>4
  <2>4. \A p \in Pools : Unannounced(p)' = Unannounced(p) /\ Holding(p)' = Holding(p)
    BY <2>1, <2>2, <2>3 DEF Unannounced, Holding
  <2> QED
    BY <1>7, <2>1, <2>4
<1>10. ASSUME UNCHANGED <<submitted, ordered, tokens, stage, loader>> PROVE \A p \in Pools : Agrees(p)'
  BY <1>7, <1>10 DEF Unannounced, Holding
<1>11. ASSUME Process \/ (\E r \in results : Send(r)) \/ StopHandlers \/ StopRuntime
       PROVE UNCHANGED <<submitted, ordered, tokens, stage, loader>>
  BY <1>11 DEF Process, Send, StopHandlers, StopRuntime, submitting, pools, runtime
<1> QED
  BY <1>0, <1>1, <1>2, <1>3, <1>4, <1>5, <1>6, <1>8, <1>9, <1>10, <1>11
     DEF Next, Submission, Loader, vars

-----------------------------------------------------------------------------
\* The invariant.

LEMMA InitInv == Init => IInv
<1> SUFFICES ASSUME Init PROVE IInv
  OBVIOUS
<1> USE PoolAssumption
<1>1. TypeOK
  BY InitTyped
<1>2. ClockCounts
  <2>1. Stamped = {}
    BY DEF Init, Stamped
  <2> QED
    BY <2>1, FS_EmptySet DEF Init, ClockCounts
<1>3. LoaderRight
  BY DEF Init, LoaderRight
<1>4. QueuesRight
  BY DEF Init, QueuesRight, Distinct, Holds
<1>5. PlacesRight
  BY DEF Init, PlacesRight, Nowhere, Queued, Ordered, InLoader, Loaded, Finished, Answered, Holds
<1>6. DispatchedRight
  BY DEF Init, DispatchedRight, InLoader, Loaded, Finished, Holds
<1>7. TokensCount
  <2> SUFFICES ASSUME NEW p \in Pools
               PROVE Cardinality(InQueue(p)) + Cardinality(ordered[p]) + Holding(p)
                       = tokens[p] + Cardinality(Unannounced(p))
    BY DEF TokensCount
  <2>1. InQueue(p) = {} /\ ordered[p] = {} /\ Unannounced(p) = {} /\ Holding(p) = 0 /\ tokens[p] = 0
    BY DEF Init, InQueue, Unannounced, Holding
  <2> QED
    BY <2>1, FS_EmptySet
<1> QED
  BY <1>1, <1>2, <1>3, <1>4, <1>5, <1>6, <1>7 DEF IInv

LEMMA StepInv == IInv /\ [Next]_vars => IInv'
<1> SUFFICES ASSUME IInv, [Next]_vars PROVE IInv'
  OBVIOUS
<1> QED
  BY StepClockCounts, StepTyped, StepLoaderRight, StepQueuesRight, StepPlacesRight, StepDispatchedRight,
     StepTokensCount DEF IInv

\* The inductive invariant: clocks, pipes, heaps and the Runtime's loader agree on
\* where each task is.
THEOREM SpecInv == Spec => []IInv
<1> QED
  BY InitInv, StepInv, PTL DEF Spec

LEMMA PlacesCounted ==
  ASSUME TypeOK, NEW t \in Tasks, InOnePlace(t)
  PROVE Cardinality({i \in 1 .. 6 : Places(t)[i]}) = 1
<1> DEFINE spots == {i \in 1 .. 6 : Places(t)[i]}
<1>1. /\ Places(t)[1] <=> Queued(t)
      /\ Places(t)[2] <=> Ordered(t)
      /\ Places(t)[3] <=> InLoader(t)
      /\ Places(t)[4] <=> Loaded(t)
      /\ Places(t)[5] <=> Finished(t)
      /\ Places(t)[6] <=> Answered(t)
  <2>1. DOMAIN submitted[PoolOf[t]] = 1 .. Len(submitted[PoolOf[t]]) /\ DOMAIN loaded = 1 .. Len(loaded)
    <3>1. submitted[PoolOf[t]] \in Seq(Tasks \cup {Stop}) /\ loaded \in Seq(Tasks)
      BY PoolAssumption DEF TypeOK
    <3> QED
      BY <3>1, LenProperties
  <2>2. Places(t)[1] <=> \E i \in DOMAIN submitted[PoolOf[t]] : submitted[PoolOf[t]][i] = t
    BY DEF Places
  <2>3. Places(t)[2] <=> Ordered(t)
    BY DEF Places, Ordered
  <2>4. Places(t)[3] <=> InLoader(t)
    BY DEF Places, InLoader
  <2>5. Places(t)[4] <=> \E i \in DOMAIN loaded : loaded[i] = t
    BY DEF Places, Range
  <2>6. Places(t)[5] <=> Finished(t)
    BY DEF Places, Finished
  <2>7. Places(t)[6] <=> Answered(t)
    BY DEF Places, Answered
  <2> QED
    BY <2>1, <2>2, <2>3, <2>4, <2>5, <2>6, <2>7 DEF Queued, Loaded, Holds
<1>2. \E k \in 1 .. 6 : spots = {k}
  BY <1>1 DEF InOnePlace
<1> QED
  BY <1>2, FS_Singleton

\* A pool, its token pipe and the Runtime agree: values keep their types, the pipe
\* of a pool holds a token for every task in its two queues that was announced,
\* and a task that was put is in exactly one place on its way to its answer, so
\* none is processed twice and none is lost.
THEOREM TasksStayConsistent == Spec => []TasksConsistent
<1>1. IInv => OnePlace
  BY PlacesCounted DEF IInv, OnePlace, PlacesRight
<1>2. IInv => TasksConsistent
  BY <1>1 DEF IInv, TasksConsistent
<1> QED
  BY <1>2, SpecInv, PTL

-----------------------------------------------------------------------------
\* Inference goes first.  A pool only ever advertises the priority of its own
\* kind, or the initial one that is worse than any, and it does advertise its own
\* once a call of submit_task returned: a torn or stale pair is only wrong in its
\* time.

NextRight == loader.at \in {"first", "second"} => PoolOf[loader.next] = loader.pool

UrgencyRight ==
  /\ \A p \in Pools : urgency[p][1] \in {Prioritize(Kind[p]), Infinity}
  /\ \A t \in Tasks : stage[t] \in {"half", "done"} =>
       urgency[PoolOf[t]][1] = Prioritize(Kind[PoolOf[t]])

\* Writing either word of a pair, when the priority written is the pool's.
LEMMA UrgencyWrites ==
  ASSUME TypeOK, UrgencyRight, NEW p \in Pools, NEW t \in Tasks, PoolOf[t] = p,
         \/ urgency' = [urgency EXCEPT ![p][1] = Importance(t)[1]]
         \/ urgency' = [urgency EXCEPT ![p][2] = Importance(t)[2]]
  PROVE \A q \in Pools : \/ urgency'[q][1] = urgency[q][1]
                         \/ q = p /\ urgency'[q][1] = Prioritize(Kind[p])
<1> SUFFICES ASSUME NEW q \in Pools
             PROVE urgency'[q][1] = urgency[q][1] \/ (q = p /\ urgency'[q][1] = Prioritize(Kind[p]))
  OBVIOUS
<1>1. urgency \in [Pools -> (1 .. Infinity) \X Nat]
  BY DEF TypeOK
<1>2. CASE q # p
  BY <1>1, <1>2
<1>3. CASE q = p
  <2>1. DOMAIN urgency[p] = {1, 2}
    <3>1. urgency[p] = <<urgency[p][1], urgency[p][2]>>
      BY <1>1
    <3> QED
      BY <3>1
  <2>2. \/ urgency'[p] = [urgency[p] EXCEPT ![1] = Importance(t)[1]]
        \/ urgency'[p] = [urgency[p] EXCEPT ![2] = Importance(t)[2]]
    BY <1>1
  <2>3. Importance(t)[1] = Prioritize(Kind[p])
    BY DEF Importance
  <2> QED
    BY <1>3, <2>1, <2>2, <2>3
<1> QED
  BY <1>2, <1>3

LEMMA StepNextRight == TypeOK /\ LoaderRight /\ QueuesRight /\ NextRight /\ [Next]_vars => NextRight'
<1> SUFFICES ASSUME TypeOK, LoaderRight, QueuesRight, NextRight, [Next]_vars PROVE NextRight'
  OBVIOUS
<1>1. ASSUME ReceiveToken PROVE NextRight'
  <2>1. PICK p : p = loader.pool
    OBVIOUS
  <2>2. p \in Pools
    BY <1>1, <2>1 DEF ReceiveToken, LoaderRight
  <2>3. \/ loader' = [loader EXCEPT !.at = "hand"]
        \/ ordered[p] # {} /\ loader' = [loader EXCEPT !.at = "first", !.next = First(p)]
    BY <1>1, <2>1 DEF ReceiveToken
  <2>4. CASE loader' = [loader EXCEPT !.at = "hand"]
    BY <2>4 DEF NextRight, TypeOK
  <2>5. CASE ordered[p] # {} /\ loader' = [loader EXCEPT !.at = "first", !.next = First(p)]
    <3>1. PoolOf[First(p)] = p
      BY <2>2, <2>5, FirstInOrdered DEF QueuesRight
    <3>2. loader'.pool = p /\ loader'.next = First(p)
      BY <2>1, <2>5 DEF TypeOK
    <3> QED
      BY <3>1, <3>2 DEF NextRight
  <2> QED
    BY <2>3, <2>4, <2>5
<1>2. ASSUME Readvertise PROVE NextRight'
  <2>1. \E a : loader' = [loader EXCEPT !.at = a]
    BY <1>2 DEF Readvertise
  <2>2. loader'.pool = loader.pool /\ loader'.next = loader.next
    BY <2>1 DEF TypeOK
  <2>3. loader.at \in {"first", "second"}
    BY <1>2 DEF Readvertise
  <2> QED
    BY <2>2, <2>3 DEF NextRight
<1>3. ASSUME (\E p \in Pools : Select(p)) \/ GetTask \/ HandOver \/ LeaveSelect PROVE NextRight'
  <2>1. \/ loader' = [at |-> "select", pool |-> NoTask, task |-> NoTask, next |-> NoTask]
        \/ \E p : loader' = [loader EXCEPT !.at = "get", !.pool = p]
        \/ \E t : loader' = [loader EXCEPT !.at = "recv", !.task = t]
        \/ loader' = [loader EXCEPT !.at = "off"]
    BY <1>3 DEF Select, GetTask, HandOver, LeaveSelect
  <2>2. loader'.at \in {"select", "get", "recv", "off"}
    <3>1. CASE loader' = [at |-> "select", pool |-> NoTask, task |-> NoTask, next |-> NoTask]
      BY <3>1
    <3>2. CASE \E p : loader' = [loader EXCEPT !.at = "get", !.pool = p]
      BY <3>2 DEF TypeOK
    <3>3. CASE \E t : loader' = [loader EXCEPT !.at = "recv", !.task = t]
      BY <3>3 DEF TypeOK
    <3>4. CASE loader' = [loader EXCEPT !.at = "off"]
      BY <3>4 DEF TypeOK
    <3> QED
      BY <2>1, <3>1, <3>2, <3>3, <3>4
  <2> QED
    BY <2>2 DEF NextRight
<1>4. ASSUME UNCHANGED loader PROVE NextRight'
  BY <1>4 DEF NextRight
<1>5. ASSUME NEW t \in Tasks, Submit(t) \/ Refuse(t) \/ Submission(t) PROVE UNCHANGED loader
  BY <1>5 DEF Submit, Refuse, Submission, Put, SendToken, Compare, Advertise, runtime
<1>6. ASSUME \/ \E p \in Pools : Move(p)
             \/ Process \/ (\E r \in results : Send(r)) \/ StopHandlers \/ StopPools \/ StopRuntime
      PROVE UNCHANGED loader
  BY <1>6 DEF Move, Process, Send, StopHandlers, StopPools, StopRuntime, runtime
<1> QED
  BY <1>1, <1>2, <1>3, <1>4, <1>5, <1>6 DEF Next, Loader, vars

LEMMA StepUrgencyRight ==
  TypeOK /\ LoaderRight /\ NextRight /\ UrgencyRight /\ [Next]_vars => UrgencyRight'
<1> SUFFICES ASSUME TypeOK, LoaderRight, NextRight, UrgencyRight, [Next]_vars PROVE UrgencyRight'
  OBVIOUS
<1> USE PoolAssumption
<1>1. ASSUME NEW t \in Tasks, Compare(t) PROVE UrgencyRight'
  <2> DEFINE u == urgency[PoolOf[t]]
  <2>1. urgency' = urgency /\ \E s \in {"better", "done"} : stage' = [stage EXCEPT ![t] = s]
        /\ (s = "done" => ~Before(Importance(t), u))
    BY <1>1 DEF Compare, To, pools
  <2>2. ~Before(Importance(t), u) => u[1] = Prioritize(Kind[PoolOf[t]])
    <3>1. Importance(t)[1] = Prioritize(Kind[PoolOf[t]])
      BY DEF Importance
    <3>2. u[1] \in {Prioritize(Kind[PoolOf[t]]), Infinity}
      BY DEF UrgencyRight
    <3> QED
      BY <3>1, <3>2 DEF Before, Prioritize, Infinity
  <2>3. \A v \in Tasks : stage'[v] \in {"half", "done"} =>
          stage[v] \in {"half", "done"} \/ (v = t /\ ~Before(Importance(t), u))
    BY <2>1 DEF TypeOK
  <2> QED
    BY <2>1, <2>2, <2>3 DEF UrgencyRight
<1>2. ASSUME NEW t \in Tasks, Advertise(t) PROVE UrgencyRight'
  <2>1. \A q \in Pools : \/ urgency'[q][1] = urgency[q][1]
                         \/ q = PoolOf[t] /\ urgency'[q][1] = Prioritize(Kind[PoolOf[t]])
    BY <1>2, UrgencyWrites DEF Advertise
  <2>2. CASE stage[t] = "better"
    <3>1. urgency' = [urgency EXCEPT ![PoolOf[t]][1] = Importance(t)[1]]
      BY <1>2, <2>2 DEF Advertise
    <3>2. urgency'[PoolOf[t]][1] = Prioritize(Kind[PoolOf[t]])
      <4>1. urgency \in [Pools -> (1 .. Infinity) \X Nat]
        BY DEF TypeOK
      <4>2. urgency'[PoolOf[t]] = [urgency[PoolOf[t]] EXCEPT ![1] = Importance(t)[1]]
        BY <3>1, <4>1
      <4>3. urgency[PoolOf[t]] = <<urgency[PoolOf[t]][1], urgency[PoolOf[t]][2]>>
        BY <4>1
      <4> QED
        BY <4>2, <4>3 DEF Importance
    <3>3. \A v \in Tasks : stage'[v] \in {"half", "done"} => stage[v] \in {"half", "done"} \/ v = t
      BY <1>2 DEF Advertise, To, TypeOK
    <3> QED
      BY <2>1, <3>2, <3>3 DEF UrgencyRight
  <2>3. CASE stage[t] = "half"
    <3>1. \A v \in Tasks : stage'[v] \in {"half", "done"} => stage[v] \in {"half", "done"}
      BY <1>2, <2>3 DEF Advertise, To, TypeOK
    <3> QED
      BY <2>1, <3>1 DEF UrgencyRight
  <2> QED
    BY <1>2, <2>2, <2>3 DEF Advertise
<1>3. ASSUME Readvertise PROVE UrgencyRight'
  <2>1. PICK p \in Pools, t \in Tasks : p = loader.pool /\ t = loader.next /\ PoolOf[t] = p
    BY <1>3 DEF Readvertise, LoaderRight, NextRight
  <2>2. \/ urgency' = [urgency EXCEPT ![p][1] = Importance(t)[1]]
        \/ urgency' = [urgency EXCEPT ![p][2] = Importance(t)[2]]
    BY <1>3, <2>1 DEF Readvertise
  <2>3. \A q \in Pools : \/ urgency'[q][1] = urgency[q][1]
                         \/ q = p /\ urgency'[q][1] = Prioritize(Kind[p])
    BY <2>1, <2>2, UrgencyWrites
  <2>4. stage' = stage
    BY <1>3 DEF Readvertise, submitting
  <2> QED
    BY <2>3, <2>4 DEF UrgencyRight
<1>4. ASSUME UNCHANGED urgency,
             \A v \in Tasks : stage'[v] \in {"half", "done"} => stage[v] \in {"half", "done"}
      PROVE UrgencyRight'
  BY <1>4 DEF UrgencyRight
<1>5. ASSUME NEW t \in Tasks, Submit(t) \/ Refuse(t) \/ Put(t) \/ SendToken(t) PROVE UrgencyRight'
  <2>1. \E s \in {"stamped", "refused", "put", "sent"} : stage' = [stage EXCEPT ![t] = s]
    BY <1>5 DEF Submit, Refuse, Put, SendToken, To
  <2>2. \A v \in Tasks : stage'[v] \in {"half", "done"} => stage[v] \in {"half", "done"}
    BY <2>1 DEF TypeOK
  <2> QED
    BY <1>4, <1>5, <2>2 DEF Submit, Refuse, Put, SendToken, pools
<1>6. ASSUME UNCHANGED <<stage, urgency>> PROVE UrgencyRight'
  BY <1>6 DEF UrgencyRight
<1>7. ASSUME NEW p \in Pools, Move(p) \/ Select(p) PROVE UNCHANGED <<stage, urgency>>
  BY <1>7 DEF Move, Select, submitting, pools
<1>8. ASSUME GetTask \/ ReceiveToken \/ HandOver \/ LeaveSelect PROVE UNCHANGED <<stage, urgency>>
  BY <1>8 DEF GetTask, ReceiveToken, HandOver, LeaveSelect, submitting, pools
<1>9. ASSUME Process \/ (\E r \in results : Send(r)) \/ StopHandlers \/ StopPools \/ StopRuntime
      PROVE UNCHANGED <<stage, urgency>>
  BY <1>9 DEF Process, Send, StopHandlers, StopPools, StopRuntime, submitting, pools
<1> QED
  BY <1>1, <1>2, <1>3, <1>5, <1>6, <1>7, <1>8, <1>9 DEF Next, Submission, Loader, vars

\* With it: what a pool advertises of its kind, whoever wrote it last.
UrgencyInv == IInv /\ NextRight /\ UrgencyRight

\* Once submit_task has returned, a pool advertises its own kind's priority.
THEOREM SpecUrgencyInv == Spec => []UrgencyInv
<1>1. Init => UrgencyInv
  <2>1. Init => NextRight
    BY DEF Init, NextRight
  <2>2. Init => UrgencyRight
    BY DEF Init, UrgencyRight
  <2> QED
    BY <2>1, <2>2, InitInv DEF UrgencyInv
<1>2. UrgencyInv /\ [Next]_vars => UrgencyInv'
  BY StepInv, StepNextRight, StepUrgencyRight DEF UrgencyInv, IInv
<1> QED
  BY <1>1, <1>2, PTL DEF Spec

\* "Inference steps go first since they are more latency-sensitive": while an
\* inference task waits whose submit_task has returned, the Runtime takes no
\* forward or backward task, although pools advertise stale times, tear their
\* updates and overwrite one another's.
THEOREM InferenceGoesFirst == Spec => InferenceFirst
<1> DEFINE Chosen == InferenceWaits /\ loader.at = "select" /\ loader'.at = "get" =>
                       Kind[loader'.pool] = "inference"
<1>1. UrgencyInv /\ [Next]_vars => [Chosen]_vars
  <2> SUFFICES ASSUME UrgencyInv, [Next]_vars, InferenceWaits, loader.at = "select", loader'.at = "get"
               PROVE Kind[loader'.pool] = "inference"
    OBVIOUS
  <2> USE PoolAssumption DEF UrgencyInv, IInv
  <2>1. PICK t \in Tasks :
          Kind[PoolOf[t]] = "inference" /\ stage[t] = "done" /\ tokens[PoolOf[t]] > 0
    BY DEF InferenceWaits
  <2>2. PICK p \in Pools : Select(p)
    <3>1. ASSUME NEW u \in Tasks, Submit(u) \/ Refuse(u) \/ Submission(u) PROVE FALSE
      BY <3>1 DEF Submit, Refuse, Submission, Put, SendToken, Compare, Advertise, runtime
    <3>2. ASSUME \/ \E p \in Pools : Move(p)
                 \/ Process \/ (\E r \in results : Send(r)) \/ StopHandlers \/ StopPools \/ StopRuntime
                 \/ UNCHANGED vars
          PROVE FALSE
      BY <3>2 DEF Move, Process, Send, StopHandlers, StopPools, StopRuntime, vars, runtime
    <3>3. ASSUME GetTask \/ ReceiveToken \/ Readvertise \/ HandOver PROVE FALSE
      BY <3>3 DEF GetTask, ReceiveToken, Readvertise, HandOver
    <3>4. ASSUME LeaveSelect PROVE FALSE
      BY <3>4 DEF LeaveSelect, TypeOK
    <3> QED
      BY <3>1, <3>2, <3>3, <3>4 DEF Next, Loader
  <2>3. loader'.pool = p
    BY <2>2 DEF Select, TypeOK
  <2>4. ~Before(urgency[PoolOf[t]], urgency[p])
    BY <2>1, <2>2 DEF Select, Ready
  <2>5. urgency[PoolOf[t]][1] = 1
    BY <2>1 DEF UrgencyRight, Prioritize
  <2>6. urgency[p][1] \in {Prioritize(Kind[p]), Infinity}
    BY DEF UrgencyRight
  <2> QED
    BY <2>3, <2>4, <2>5, <2>6 DEF Before, Prioritize, Infinity
<1> QED
  BY <1>1, SpecUrgencyInv, PTL DEF Spec, InferenceFirst
=============================================================================
