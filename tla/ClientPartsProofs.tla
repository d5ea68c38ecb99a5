-------------------------- MODULE ClientPartsProofs --------------------------
(***************************************************************************)
(* Theorems about three parts on the client's side.                        *)
(*                                                                         *)
(* SequentialAutograd, for any swarm, any number of batches and of         *)
(* failures: a training step applies every block once, forward and back,   *)
(* whichever servers answer for it.  Four lists of spans are in play for a *)
(* batch: the rest of its route, the spans its forward pass has behind it, *)
(* those its backward pass has yet to visit, and the pieces a span that    *)
(* failed is split into.  Each leads from one block to another, and the    *)
(* invariant says which.                                                   *)
(*                                                                         *)
(* Generation, for any model, any inputs, numbers of tokens and lengths    *)
(* and any drafts: the caches of the servers hold all tokens of a session  *)
(* but the last, so an answer goes on as a model would that runs every     *)
(* prefix anew.                                                            *)
(*                                                                         *)
(* WorkloadDispatch, for any prompts, datasets and chains and any deaths   *)
(* of workers: each prompt runs once.  All prompts handed to a chain were  *)
(* recorded, or all but the last, which is in one of the pipes, with the   *)
(* worker, or in flight for the main thread to find.                       *)
(***************************************************************************)
EXTENDS SequentialAutograd, TLAPS, SequenceTheorems, NaturalsInduction, WellFoundedInduction

\* sequential_forward runs, for the step itself or to recover from a failure.
InForward(c) == at[c] \in {"forward", "waiting", "planning", "asked", "pausing"}
Tensors == 0 .. NumBlocks

ManagerTyped ==
  /\ serves \in [Peers -> Places \cup {Down}]
  /\ dht \subseteq Records /\ got \subseteq Records /\ infos \subseteq Records
  /\ faults \in 0 .. MaxFaults /\ banned \subseteq Peers /\ known \subseteq Spans
  /\ thread \in {"fetch", "filter", "publish", "ping", "wait"}
  /\ ready \in BOOLEAN /\ trigger \in BOOLEAN

BatchesTyped ==
  /\ retries \in RetryLimits
  /\ at \in [Batches -> AtAwait \cup {"forward", "waiting", "planning", "failing", "backward"}]
  /\ block \in [Batches -> 0 .. NumBlocks] /\ goal \in [Batches -> 0 .. NumBlocks]
  /\ feed \in [Batches -> Tensors] /\ attempt \in [Batches -> Nat]
  /\ sequences \in [Batches -> Seq(Spans)] /\ hop \in [Batches -> Spans \cup {NoSpan}]
  /\ done \in [Batches -> Seq(Spans)] /\ inputs \in [Batches -> Seq(Tensors)]
  /\ spans \in [Batches -> Seq(Spans)] /\ saved \in [Batches -> Seq(Tensors)]
  /\ span \in [Batches -> Spans \cup {NoSpan}] /\ given \in [Batches -> Tensors]
  /\ grad \in [Batches -> Tensors] /\ tries \in [Batches -> Nat]

\* These spans follow one another from block b to block e.
Chain(ss, b, e) ==
  /\ \A i \in 1 .. Len(ss) :
       ss[i].start < ss[i].end /\ ss[i].start = IF i = 1 THEN b ELSE ss[i - 1].end
  /\ e = IF ss = <<>> THEN b ELSE ss[Len(ss)].end

\* The route, as it is made and as it is followed, goes on from the block that was reached.
RouteRight(c) ==
  /\ at[c] = "idle" => sequences[c] = <<>>
  /\ at[c] = "waiting" => sequences[c] = <<>> /\ block[c] < goal[c]
  /\ at[c] = "planning" =>
       /\ block[c] < goal[c] /\ Chain(sequences[c], block[c], Reached(c))
       /\ sequences[c] # <<>> => Last(sequences[c]).start < goal[c]
  /\ at[c] = "pausing" => attempt[c] > 0
  /\ at[c] = "forward" /\ attempt[c] = 0 /\ sequences[c] # <<>> => Chain(sequences[c], block[c], goal[c])
  /\ at[c] = "asked" =>
       /\ hop[c] \in Spans /\ hop[c].start = block[c] /\ hop[c].start < hop[c].end
       /\ Chain(sequences[c], hop[c].end, goal[c])

\* Until a backward pass has taken its first span.
FirstPass(c) ==
  span[c] = NoSpan =>
    /\ tries[c] = 0 /\ grad[c] = NumBlocks /\ goal[c] = NumBlocks
    /\ Leads(done[c], inputs[c], 0, block[c]) /\ feed[c] = block[c]

\* From then on.
VisitsRight(c) ==
  /\ at[c] \in {"idle", "between", "begun"} => span[c] = NoSpan
  /\ at[c] \in {"between", "begun", "backward", "finished"} => Leads(spans[c], saved[c], 0, grad[c])
  /\ at[c] \in {"returned", "resting", "failing"} \/ (InForward(c) /\ span[c] # NoSpan) =>
       /\ span[c] \in Spans
       /\ Leads(Append(spans[c], span[c]), Append(saved[c], given[c]), 0, grad[c])
  /\ at[c] \in {"resting", "failing"} => tries[c] > 0
  /\ (InForward(c) \/ at[c] = "failing") /\ span[c] # NoSpan =>
       /\ tries[c] > 0 /\ goal[c] = span[c].end
       /\ Leads(done[c], inputs[c], span[c].start, block[c]) /\ feed[c] = block[c]

BatchRight(c) == RouteRight(c) /\ FirstPass(c) /\ VisitsRight(c)

IInv == ManagerTyped /\ BatchesTyped /\ \A c \in Batches : BatchRight(c)

-----------------------------------------------------------------------------
\* Least and greatest elements, and the spans that compute_spans makes.

LEMMA LeastExists ==
  ASSUME NEW S, S \subseteq Nat, S # {} PROVE \E x \in S : \A y \in S : ~(y < x)
<1>1. PICK x \in S : \A y \in S : ~(<<y, x>> \in OpToRel(<, Nat))
  BY NatLessThanWellFounded, WFMin, Zenon
<1>2. \A y \in S : y < x => <<y, x>> \in OpToRel(<, Nat)
  BY DEF OpToRel
<1> QED
  BY <1>1, <1>2

LEMMA MaxRight ==
  ASSUME NEW n \in Nat, NEW S, S \subseteq 0 .. n, S # {}
  PROVE  Max(S) \in S /\ \A y \in S : Max(S) >= y
<1>1. PICK T : T = {n - x : x \in S}
  OBVIOUS
<1>2. T \subseteq Nat /\ T # {}
  <2>1. \A x \in S : n - x \in Nat
    OBVIOUS
  <2> QED
    BY <2>1, <1>1
<1>3. PICK t \in T : \A y \in T : ~(y < t)
  BY <1>2, LeastExists
<1>4. PICK x \in S : t = n - x
  BY <1>1, <1>3
<1>5. \A y \in S : x >= y
  <2>1. SUFFICES ASSUME NEW y \in S PROVE x >= y
    OBVIOUS
  <2>2. n - y \in T
    BY <1>1
  <2> QED
    BY <2>2, <1>3, <1>4
<1> QED
  BY <1>5 DEF Max

LEMMA MinOfTwo ==
  ASSUME NEW x \in Int, NEW y \in Int
  PROVE  Min({x, y}) = IF x <= y THEN x ELSE y
BY DEF Min

LEMMA SpanOfTyped ==
  ASSUME ManagerAssumption, NEW p \in Peers, NEW rs, rs \subseteq Records, rs # {}
  PROVE  SpanOf(p, rs) \in Spans
<1>1. NumBlocks \in Nat \ {0}
  BY DEF ManagerAssumption
<1>2. \A r \in rs : /\ r.block \in 0 .. NumBlocks - 1 /\ r.place.start \in 0 .. NumBlocks - 1
                    /\ r.place.end \in 1 .. NumBlocks
  BY DEF Records, Blocks, Places
<1>3. PICK B : B = {r.block : r \in rs}
  OBVIOUS
<1>4. B \subseteq Nat /\ B # {}
  BY <1>1, <1>2, <1>3
<1>5. PICK b \in B : \A y \in B : ~(y < b)
  BY <1>4, LeastExists
<1>6. \E r \in rs : \A q \in rs : r.block <= q.block
  <2>1. PICK r \in rs : b = r.block
    BY <1>3, <1>5
  <2>2. ASSUME NEW q \in rs PROVE r.block <= q.block
    <3>1. q.block \in B /\ q.block \in Int /\ r.block \in Int
      BY <1>1, <1>2, <1>3
    <3> QED
      BY <2>1, <3>1, <1>5
  <2> QED
    BY <2>2
<1>7. PICK first : first = CHOOSE r \in rs : \A q \in rs : r.block <= q.block
  OBVIOUS
<1>8. first \in rs
  BY <1>6, <1>7
<1>9. PICK E : E = {first.place.end} \cup {r.block + 1 : r \in rs}
  OBVIOUS
<1>10. E \subseteq 1 .. NumBlocks /\ E \subseteq 0 .. NumBlocks /\ E # {}
  BY <1>1, <1>2, <1>8, <1>9
<1>11. Max(E) \in 1 .. NumBlocks
  BY <1>1, <1>10, MaxRight
<1>12. SpanOf(p, rs) = [peer |-> p, start |-> first.place.start, end |-> Max(E)]
  BY <1>7, <1>9 DEF SpanOf
<1> QED
  BY <1>2, <1>8, <1>11, <1>12 DEF Spans, Blocks

LEMMA ComputedTyped ==
  ASSUME ManagerAssumption, NEW rs, rs \subseteq Records PROVE ComputeSpans(rs) \subseteq Spans
<1>1. SUFFICES ASSUME NEW s \in ComputeSpans(rs) PROVE s \in Spans
  OBVIOUS
<1>2. PICK p \in Peers : /\ {r \in rs : r.peer = p /\ r.state = "ONLINE"} # {}
                        /\ s = SpanOf(p, {r \in rs : r.peer = p /\ r.state = "ONLINE"})
  BY <1>1 DEF ComputeSpans
<1> QED
  BY <1>2, SpanOfTyped

-----------------------------------------------------------------------------
\* The swarm and the update thread keep their types.

LEMMA DeclaredTyped ==
  ASSUME ManagerAssumption, NEW p \in Peers, NEW s \in Places, NEW state \in {"JOINING", "ONLINE"}
  PROVE  Declared(p, s, state) \subseteq Records
<1>1. NumBlocks \in Nat \ {0} /\ s.start \in 0 .. NumBlocks - 1 /\ s.end \in 1 .. NumBlocks
  BY DEF Places, ManagerAssumption
<1>2. BlocksOf(s) \subseteq Blocks
  BY <1>1 DEF BlocksOf, Blocks
<1> QED
  BY <1>2 DEF Declared, Records

LEMMA StoreTyped ==
  ASSUME ManagerAssumption, dht \subseteq Records, NEW p \in Peers, NEW s \in Places, NEW state \in {"JOINING", "ONLINE"},
         Store(p, s, state)
  PROVE  dht' \subseteq Records
BY DeclaredTyped DEF Store

LEMMA InitManagerTyped ==
  ASSUME ManagerAssumption, InitManager PROVE ManagerTyped
<1>1. \A p \in Peers : serves[p] \in Placements[p] /\ serves[p] \in Places
  BY DEF InitManager, ManagerAssumption
<1>2. serves \in [Peers -> Places \cup {Down}]
  BY <1>1 DEF InitManager
<1>3. dht \subseteq Records
  BY <1>1, DeclaredTyped DEF InitManager
<1>4. MaxFaults \in Nat
  BY DEF ManagerAssumption
<1>5. /\ faults = 0 /\ banned = {} /\ infos = {} /\ known = {} /\ thread = "fetch" /\ got = {}
      /\ ready = FALSE /\ trigger = FALSE
  BY DEF InitManager
<1>6. faults \in 0 .. MaxFaults
  BY <1>4, <1>5
<1>7. got \subseteq Records /\ infos \subseteq Records /\ banned \subseteq Peers /\ known \subseteq Spans
  BY <1>5
<1>8. ready \in BOOLEAN /\ trigger \in BOOLEAN
  BY <1>5
<1>9. thread \in {"fetch", "filter", "publish", "ping", "wait"}
  BY <1>5
<1> QED
  BY <1>2, <1>3, <1>6, <1>7, <1>8, <1>9, Zenon DEF ManagerTyped

LEMMA AroundTyped ==
  ASSUME ManagerAssumption, ManagerTyped, Around PROVE ManagerTyped'
<1>1. CASE Fetch
  BY <1>1 DEF Fetch, ManagerTyped, swarm, routing
<1>2. CASE Filter
  BY <1>2 DEF Filter, Kept, ManagerTyped, swarm, routing
<1>3. CASE Publish
  BY <1>3, ComputedTyped DEF Publish, ManagerTyped, swarm
<1>4. CASE SetReady
  BY <1>4 DEF SetReady, ManagerTyped, swarm
<1>5. CASE Wake
  BY <1>5 DEF Wake, ManagerTyped, swarm
<1>6. CASE FetchFails
  BY <1>6 DEF FetchFails, ManagerTyped, swarm, routing, ManagerAssumption
<1>7. ASSUME NEW p \in Peers, Stop(p) PROVE ManagerTyped'
  BY <1>7 DEF Stop, ManagerTyped, routing, ManagerAssumption
<1>8. ASSUME NEW p \in Peers, NEW s \in Places, Join(p, s) PROVE ManagerTyped'
  BY <1>8, StoreTyped DEF Join, ManagerTyped, routing
<1>9. ASSUME NEW p \in Peers, Load(p) PROVE ManagerTyped'
  <2>1. PICK r \in dht : serves' = [serves EXCEPT ![p] = r.place] /\ Store(p, r.place, "ONLINE")
    BY <1>9 DEF Load, Joining
  <2>2. r.place \in Places
    BY <2>1 DEF ManagerTyped, Records
  <2>3. dht' \subseteq Records
    BY <2>1, <2>2, StoreTyped DEF ManagerTyped
  <2>4. serves' \in [Peers -> Places \cup {Down}]
    BY <2>1, <2>2 DEF ManagerTyped
  <2> QED
    BY <1>9, <2>3, <2>4 DEF Load, ManagerTyped, routing
<1>10. ASSUME NEW p \in Peers, Expire(p) PROVE ManagerTyped'
  BY <1>10 DEF Expire, ManagerTyped, routing
<1>11. ASSUME NEW p \in Peers, Unban(p) PROVE ManagerTyped'
  BY <1>11 DEF Unban, ManagerTyped, swarm
<1> QED
  BY <1>1, <1>2, <1>3, <1>4, <1>5, <1>6, <1>7, <1>8, <1>9, <1>10, <1>11 DEF Around, Thread, Swarm

\* So do the reports of callers.
LEMMA FailureTyped ==
  ASSUME ManagerTyped, NEW p \in Peers \cup {NoPeer}, OnRequestFailure(p),
         UNCHANGED <<swarm, thread, got>>, faults' \in 0 .. MaxFaults
  PROVE  ManagerTyped'
BY DEF OnRequestFailure, Update, ManagerTyped, swarm

LEMMA SuccessTyped ==
  ASSUME ManagerTyped, NEW p \in Peers, OnRequestSuccess(p), UNCHANGED <<swarm, faults, thread, got>>
  PROVE  ManagerTyped'
BY DEF OnRequestSuccess, ManagerTyped, swarm

LEMMA ManagerUnchanged ==
  ASSUME ManagerTyped, UNCHANGED manager PROVE ManagerTyped'
BY DEF ManagerTyped, manager

-----------------------------------------------------------------------------
\* Lists of spans.

LEMMA SpanTyped ==
  ASSUME ManagerAssumption, NEW s \in Spans
  PROVE  /\ s.peer \in Peers /\ s.start \in 0 .. NumBlocks - 1 /\ s.end \in 1 .. NumBlocks
         /\ s.start \in Int /\ s.end \in Int /\ s.start \in Tensors /\ s.end \in Tensors
BY DEF Spans, Blocks, Tensors, ManagerAssumption

LEMMA LeadsChain ==
  ASSUME NEW ss \in Seq(Spans), NEW xs, NEW b, NEW e
  PROVE  Leads(ss, xs, b, e) <=>
           /\ Len(ss) = Len(xs) /\ \A i \in 1 .. Len(ss) : xs[i] = ss[i].start
           /\ Chain(ss, b, e)
<1>1. DOMAIN ss = 1 .. Len(ss)
  BY LenProperties
<1> QED
  BY <1>1 DEF Leads, Chain, Last

LEMMA EmptyLeads == ASSUME NEW b PROVE Leads(<<>>, <<>>, b, b) /\ Chain(<<>>, b, b)
<1>1. Len(<<>>) = 0 /\ DOMAIN <<>> = {}
  BY EmptySeq
<1> QED
  BY <1>1 DEF Leads, Chain

LEMMA AppendElements ==
  ASSUME NEW S, NEW q \in Seq(S), NEW x \in S
  PROVE  /\ Append(q, x) \in Seq(S) /\ Len(q) \in Nat /\ Len(Append(q, x)) = Len(q) + 1
         /\ \A i \in 1 .. Len(q) : Append(q, x)[i] = q[i]
         /\ Append(q, x)[Len(q) + 1] = x
         /\ Append(q, x) # <<>>
BY AppendProperties, LenProperties

LEMMA ChainAppend ==
  ASSUME NEW ss \in Seq(Spans), NEW b, NEW e, Chain(ss, b, e),
         NEW s \in Spans, s.start = e, s.start < s.end
  PROVE  Chain(Append(ss, s), b, s.end)
<1>1. PICK tt : tt = Append(ss, s)
  OBVIOUS
<1>2. /\ Len(ss) \in Nat /\ Len(tt) = Len(ss) + 1 /\ tt # <<>>
      /\ \A i \in 1 .. Len(ss) : tt[i] = ss[i]
      /\ tt[Len(ss) + 1] = s
  BY <1>1, AppendElements
<1>3. ASSUME NEW i \in 1 .. Len(tt)
      PROVE  tt[i].start < tt[i].end /\ tt[i].start = IF i = 1 THEN b ELSE tt[i - 1].end
  <2>1. CASE i = Len(ss) + 1
    <3>1. CASE ss = <<>>
      <4>1. Len(ss) = 0 /\ e = b
        BY <3>1, EmptySeq DEF Chain
      <4> QED
        BY <2>1, <4>1, <1>2
    <3>2. CASE ss # <<>>
      <4>1. Len(ss) # 0 /\ e = ss[Len(ss)].end
        BY <3>2, EmptySeq DEF Chain
      <4> QED
        BY <2>1, <4>1, <1>2
    <3> QED
      BY <3>1, <3>2
  <2>2. CASE i \in 1 .. Len(ss)
    <3>1. tt[i] = ss[i] /\ (i # 1 => tt[i - 1] = ss[i - 1])
      BY <2>2, <1>2
    <3> QED
      BY <2>2, <3>1 DEF Chain
  <2> QED
    BY <2>1, <2>2, <1>2
<1> QED
  BY <1>1, <1>2, <1>3 DEF Chain

LEMMA LeadsAppend ==
  ASSUME ManagerAssumption, NEW ss \in Seq(Spans), NEW xs \in Seq(Tensors), NEW b, NEW e, Leads(ss, xs, b, e),
         NEW s \in Spans, s.start = e, s.start < s.end
  PROVE  Leads(Append(ss, s), Append(xs, e), b, s.end)
<1>1. Chain(ss, b, e) /\ Len(ss) = Len(xs) /\ \A i \in 1 .. Len(ss) : xs[i] = ss[i].start
  BY LeadsChain
<1>2. e \in Tensors
  BY SpanTyped
<1>3. PICK tt : tt = Append(ss, s)
  OBVIOUS
<1>4. /\ tt \in Seq(Spans) /\ Len(ss) \in Nat /\ Len(tt) = Len(ss) + 1
      /\ \A i \in 1 .. Len(ss) : tt[i] = ss[i]
      /\ tt[Len(ss) + 1] = s
  BY <1>3, AppendElements
<1>5. PICK ys : ys = Append(xs, e)
  OBVIOUS
<1>6. /\ Len(ys) = Len(xs) + 1
      /\ \A i \in 1 .. Len(xs) : ys[i] = xs[i]
      /\ ys[Len(xs) + 1] = e
  BY <1>2, <1>5, AppendElements
<1>7. Chain(tt, b, s.end)
  BY <1>1, <1>3, ChainAppend
<1>8. \A i \in 1 .. Len(tt) : ys[i] = tt[i].start
  BY <1>1, <1>4, <1>6
<1>9. Len(tt) = Len(ys)
  BY <1>1, <1>4, <1>6
<1>10. tt \in Seq(Spans)
  BY <1>4
<1>11. Leads(tt, ys, b, s.end)
  BY <1>7, <1>8, <1>9, <1>10, LeadsChain
<1> QED
  BY <1>3, <1>5, <1>11, Zenon

\* One list after the other.
LEMMA ChainConcat ==
  ASSUME NEW ss \in Seq(Spans), NEW tt \in Seq(Spans), NEW b, NEW m, NEW e,
         Chain(ss, b, m), Chain(tt, m, e)
  PROVE  Chain(ss \o tt, b, e)
<1>1. PICK uu : uu = ss \o tt
  OBVIOUS
<1>2. /\ Len(ss) \in Nat /\ Len(tt) \in Nat /\ Len(uu) = Len(ss) + Len(tt)
      /\ \A i \in 1 .. Len(uu) : uu[i] = IF i <= Len(ss) THEN ss[i] ELSE tt[i - Len(ss)]
  BY <1>1, ConcatProperties, LenProperties
<1>3. m = (IF Len(ss) = 0 THEN b ELSE ss[Len(ss)].end) /\ e = (IF Len(tt) = 0 THEN m ELSE tt[Len(tt)].end)
  BY EmptySeq, LenProperties DEF Chain
<1>4. (uu = <<>>) <=> (Len(uu) = 0)
  BY <1>1, <1>2, ConcatProperties, EmptySeq
<1>5. ASSUME NEW i \in 1 .. Len(uu)
      PROVE  uu[i].start < uu[i].end /\ uu[i].start = IF i = 1 THEN b ELSE uu[i - 1].end
  <2>1. CASE i <= Len(ss)
    <3>1. i \in 1 .. Len(ss) /\ (i # 1 => i - 1 \in 1 .. Len(uu) /\ i - 1 <= Len(ss))
      BY <2>1, <1>2
    <3>2. uu[i] = ss[i] /\ (i # 1 => uu[i - 1] = ss[i - 1])
      BY <2>1, <3>1, <1>2
    <3> QED
      BY <3>1, <3>2 DEF Chain
  <2>2. CASE ~(i <= Len(ss))
    <3>1. PICK j : j = i - Len(ss)
      OBVIOUS
    <3>2. j \in 1 .. Len(tt) /\ uu[i] = tt[j]
      BY <2>2, <3>1, <1>2
    <3>3. tt[j].start < tt[j].end /\ tt[j].start = IF j = 1 THEN m ELSE tt[j - 1].end
      BY <3>2 DEF Chain
    <3>4. CASE j = 1
      <4>1. i = 1 => Len(ss) = 0
        BY <3>1, <3>4, <1>2
      <4>2. i # 1 => i - 1 = Len(ss) /\ Len(ss) # 0 /\ i - 1 \in 1 .. Len(uu) /\ i - 1 <= Len(ss)
        BY <3>1, <3>4, <1>2
      <4>3. i # 1 => uu[i - 1] = ss[Len(ss)]
        BY <4>2, <1>2
      <4> QED
        BY <4>1, <4>2, <4>3, <3>2, <3>3, <3>4, <1>3
    <3>5. CASE j # 1
      <4>1. i # 1 /\ i - 1 \in 1 .. Len(uu) /\ ~(i - 1 <= Len(ss)) /\ (i - 1) - Len(ss) = j - 1
        BY <3>1, <3>2, <3>5, <1>2
      <4>2. uu[i - 1] = tt[j - 1]
        BY <4>1, <1>2
      <4> QED
        BY <4>1, <4>2, <3>2, <3>3, <3>5
    <3> QED
      BY <3>4, <3>5
  <2> QED
    BY <2>1, <2>2
<1>6. e = IF uu = <<>> THEN b ELSE uu[Len(uu)].end
  <2>1. CASE Len(tt) = 0
    <3>1. Len(uu) = Len(ss) /\ (Len(uu) # 0 => Len(uu) \in 1 .. Len(uu))
      BY <2>1, <1>2
    <3> QED
      BY <2>1, <3>1, <1>2, <1>3, <1>4
  <2>2. CASE Len(tt) # 0
    <3>1. Len(uu) # 0 /\ Len(uu) \in 1 .. Len(uu) /\ ~(Len(uu) <= Len(ss)) /\ Len(uu) - Len(ss) = Len(tt)
      BY <2>2, <1>2
    <3> QED
      BY <2>2, <3>1, <1>2, <1>3, <1>4
  <2> QED
    BY <2>1, <2>2
<1>7. Chain(uu, b, e)
  BY <1>5, <1>6 DEF Chain
<1> QED
  BY <1>1, <1>7

LEMMA LeadsConcat ==
  ASSUME NEW ss \in Seq(Spans), NEW xs \in Seq(Tensors), NEW tt \in Seq(Spans), NEW ys \in Seq(Tensors),
         NEW b, NEW m, NEW e, Leads(ss, xs, b, m), Leads(tt, ys, m, e)
  PROVE  Leads(ss \o tt, xs \o ys, b, e)
<1>1. Chain(ss, b, m) /\ Len(ss) = Len(xs) /\ \A i \in 1 .. Len(ss) : xs[i] = ss[i].start
  BY LeadsChain
<1>2. Chain(tt, m, e) /\ Len(tt) = Len(ys) /\ \A i \in 1 .. Len(tt) : ys[i] = tt[i].start
  BY LeadsChain
<1>3. PICK uu : uu = ss \o tt
  OBVIOUS
<1>4. /\ uu \in Seq(Spans)
      /\ Len(ss) \in Nat /\ Len(tt) \in Nat /\ Len(uu) = Len(ss) + Len(tt)
      /\ \A i \in 1 .. Len(uu) : uu[i] = IF i <= Len(ss) THEN ss[i] ELSE tt[i - Len(ss)]
  BY <1>3, ConcatProperties, LenProperties
<1>5. PICK zs : zs = xs \o ys
  OBVIOUS
<1>6. /\ Len(zs) = Len(xs) + Len(ys)
      /\ \A i \in 1 .. Len(xs) + Len(ys) : zs[i] = IF i <= Len(xs) THEN xs[i] ELSE ys[i - Len(xs)]
  BY <1>5, ConcatProperties, LenProperties
<1>7. Len(uu) = Len(zs)
  BY <1>1, <1>2, <1>4, <1>6
<1>8. ASSUME NEW i \in 1 .. Len(uu) PROVE zs[i] = uu[i].start
  <2>1. i \in 1 .. Len(xs) + Len(ys) /\ (IF i <= Len(ss) THEN i \in 1 .. Len(ss) ELSE i - Len(ss) \in 1 .. Len(tt))
    BY <1>1, <1>2, <1>4
  <2> QED
    BY <2>1, <1>1, <1>2, <1>4, <1>6
<1>9. Chain(uu, b, e)
  BY <1>1, <1>2, <1>3, ChainConcat
<1>10. uu \in Seq(Spans)
  BY <1>4
<1>11. Leads(uu, zs, b, e)
  BY <1>7, <1>8, <1>9, <1>10, LeadsChain
<1> QED
  BY <1>3, <1>5, <1>11, Zenon

\* The first span of a route and what is left of it.
LEMMA ChainTail ==
  ASSUME NEW ss \in Seq(Spans), ss # <<>>, NEW b, NEW e, Chain(ss, b, e)
  PROVE  /\ Head(ss) \in Spans /\ Head(ss).start = b /\ Head(ss).start < Head(ss).end
         /\ Tail(ss) \in Seq(Spans) /\ Chain(Tail(ss), Head(ss).end, e)
<1>1. /\ Len(ss) \in Nat /\ Len(ss) # 0
      /\ Head(ss) = ss[1] /\ Head(ss) \in Spans
  BY LenProperties, EmptySeq, HeadTailProperties
<1>2. PICK tt : tt = Tail(ss)
  OBVIOUS
<1>3. /\ tt \in Seq(Spans) /\ Len(tt) = Len(ss) - 1
      /\ \A i \in 1 .. Len(tt) : tt[i] = ss[i + 1]
  BY <1>2, HeadTailProperties
<1>4. Head(ss).start = b /\ Head(ss).start < Head(ss).end
  BY <1>1 DEF Chain
<1>5. ASSUME NEW i \in 1 .. Len(tt)
      PROVE  tt[i].start < tt[i].end /\ tt[i].start = IF i = 1 THEN Head(ss).end ELSE tt[i - 1].end
  <2>1. i + 1 \in 1 .. Len(ss) /\ i + 1 # 1 /\ (i + 1) - 1 = i
    BY <1>1, <1>3
  <2>2. ss[i + 1].start < ss[i + 1].end /\ ss[i + 1].start = ss[i].end
    BY <2>1 DEF Chain
  <2>3. i # 1 => i - 1 \in 1 .. Len(tt) /\ (i - 1) + 1 = i
    BY <1>1, <1>3
  <2>4. i # 1 => tt[i - 1] = ss[i]
    BY <2>3, <1>3
  <2> QED
    BY <2>2, <2>4, <1>1, <1>3
<1>6. e = IF tt = <<>> THEN Head(ss).end ELSE tt[Len(tt)].end
  <2>1. e = ss[Len(ss)].end
    BY DEF Chain
  <2>2. CASE tt = <<>>
    <3>1. Len(ss) = 1
      BY <2>2, <1>1, <1>3, EmptySeq
    <3> QED
      BY <2>1, <2>2, <3>1, <1>1
  <2>3. CASE tt # <<>>
    <3>1. Len(tt) \in 1 .. Len(tt) /\ Len(tt) + 1 = Len(ss)
      BY <2>3, <1>1, <1>3, EmptySeq
    <3> QED
      BY <2>1, <2>3, <3>1, <1>3
  <2> QED
    BY <2>2, <2>3
<1> QED
  BY <1>1, <1>2, <1>3, <1>4, <1>5, <1>6 DEF Chain

\* A list that is not empty is its front and its last element.
LEMMA FrontLast ==
  ASSUME NEW S, NEW q \in Seq(S), Len(q) # 0
  PROVE  Front(q) \in Seq(S) /\ Last(q) \in S /\ Append(Front(q), Last(q)) = q
<1>1. Len(q) \in Nat /\ q \in [1 .. Len(q) -> S]
  BY LenProperties
<1>2. Front(q) \in Seq(S) /\ Last(q) \in S
  <2>1. Last(q) \in S
    BY <1>1 DEF Last
  <2>2. q # <<>>
    BY EmptySeq
  <2> QED
    BY <2>1, <2>2, SubSeqProperties, <1>1 DEF Front
<1>3. PICK f : f = Front(q)
  OBVIOUS
<1>4. Len(f) = Len(q) - 1 /\ \A i \in 1 .. Len(q) - 1 : f[i] = q[i]
  BY <1>1, <1>3, SubSeqProperties DEF Front
<1>5. PICK r : r = Append(f, Last(q))
  OBVIOUS
<1>6. f \in Seq(S) /\ Last(q) \in S
  BY <1>2, <1>3
<1>7. /\ r \in Seq(S) /\ Len(r) = Len(f) + 1 /\ r[Len(f) + 1] = Last(q)
      /\ \A i \in 1 .. Len(f) : r[i] = f[i]
  BY <1>5, <1>6, AppendElements
<1>8. Len(r) = Len(q) /\ \A i \in 1 .. Len(q) : r[i] = q[i]
  BY <1>1, <1>4, <1>7 DEF Last
<1>9. r = q
  <2>1. r \in Seq(S) /\ q \in Seq(S)
    BY <1>7
  <2> QED
    BY <2>1, <1>8, SeqEqual
<1> QED
  BY <1>2, <1>3, <1>5, <1>9

LEMMA LeadsPop ==
  ASSUME NEW ss \in Seq(Spans), NEW xs \in Seq(Tensors), NEW b, NEW e, Leads(ss, xs, b, e), Len(ss) # 0
  PROVE  /\ Front(ss) \in Seq(Spans) /\ Last(ss) \in Spans
         /\ Front(xs) \in Seq(Tensors) /\ Last(xs) \in Tensors
         /\ Leads(Append(Front(ss), Last(ss)), Append(Front(xs), Last(xs)), b, e)
<1>1. Len(xs) # 0
  BY DEF Leads
<1>2. Front(ss) \in Seq(Spans) /\ Last(ss) \in Spans /\ Append(Front(ss), Last(ss)) = ss
  BY FrontLast
<1>3. Front(xs) \in Seq(Tensors) /\ Last(xs) \in Tensors /\ Append(Front(xs), Last(xs)) = xs
  BY <1>1, FrontLast
<1> QED
  BY <1>2, <1>3

\* Without its last span a list leads to where that span starts.
LEMMA LeadsUnpop ==
  ASSUME NEW ss \in Seq(Spans), NEW xs \in Seq(Tensors), NEW s \in Spans, NEW x \in Tensors,
         NEW b, NEW e, Leads(Append(ss, s), Append(xs, x), b, e)
  PROVE  Leads(ss, xs, b, s.start) /\ x = s.start /\ e = s.end /\ s.start < s.end
<1>1. PICK tt : tt = Append(ss, s)
  OBVIOUS
<1>2. /\ tt \in Seq(Spans) /\ Len(ss) \in Nat /\ Len(tt) = Len(ss) + 1 /\ tt # <<>>
      /\ \A i \in 1 .. Len(ss) : tt[i] = ss[i]
      /\ tt[Len(ss) + 1] = s
  BY <1>1, AppendElements
<1>3. PICK ys : ys = Append(xs, x)
  OBVIOUS
<1>4. /\ Len(xs) \in Nat /\ Len(ys) = Len(xs) + 1
      /\ \A i \in 1 .. Len(xs) : ys[i] = xs[i]
      /\ ys[Len(xs) + 1] = x
  BY <1>3, AppendElements
<1>5. Leads(tt, ys, b, e)
  BY <1>1, <1>3, Zenon
<1>6. Chain(tt, b, e) /\ Len(tt) = Len(ys) /\ \A i \in 1 .. Len(tt) : ys[i] = tt[i].start
  <2>1. tt \in Seq(Spans)
    BY <1>2
  <2> QED
    BY <2>1, <1>5, LeadsChain
<1>7. Len(ss) = Len(xs) /\ \A i \in 1 .. Len(ss) : xs[i] = ss[i].start
  BY <1>2, <1>4, <1>6
<1>8. x = s.start
  BY <1>2, <1>4, <1>6
<1>9. Len(tt) \in 1 .. Len(tt) /\ tt[Len(tt)] = s
  BY <1>2
<1>10. s.start < s.end /\ e = s.end
  BY <1>2, <1>6, <1>9 DEF Chain
<1>11. s.start = IF Len(ss) = 0 THEN b ELSE ss[Len(ss)].end
  <2>1. s.start = IF Len(tt) = 1 THEN b ELSE tt[Len(tt) - 1].end
    BY <1>6, <1>9 DEF Chain
  <2> QED
    BY <2>1, <1>2
<1>12. Chain(ss, b, s.start)
  <2>1. ASSUME NEW i \in 1 .. Len(ss)
        PROVE  ss[i].start < ss[i].end /\ ss[i].start = IF i = 1 THEN b ELSE ss[i - 1].end
    <3>1. i \in 1 .. Len(tt) /\ (i # 1 => i - 1 \in 1 .. Len(ss))
      BY <1>2
    <3>2. tt[i].start < tt[i].end /\ tt[i].start = IF i = 1 THEN b ELSE tt[i - 1].end
      BY <3>1, <1>6 DEF Chain
    <3>3. tt[i] = ss[i] /\ (i # 1 => tt[i - 1] = ss[i - 1])
      BY <3>1, <1>2
    <3> QED
      BY <3>2, <3>3
  <2>2. (ss = <<>>) <=> (Len(ss) = 0)
    BY EmptySeq
  <2> QED
    BY <2>1, <2>2, <1>11 DEF Chain
<1> QED
  BY <1>7, <1>8, <1>10, <1>12, LeadsChain

\* The last span of a route, cut where the pass ends.
LEMMA ChainCut ==
  ASSUME ManagerAssumption, NEW ss \in Seq(Spans), Len(ss) # 0, NEW b, NEW e, Chain(ss, b, e),
         NEW m \in 1 .. NumBlocks, Last(ss).start < m, m <= e
  PROVE  LET cut == [ss EXCEPT ![Len(ss)].end = Min({@, m})] IN
           cut \in Seq(Spans) /\ Len(cut) # 0 /\ Chain(cut, b, m)
<1>1. PICK n : n = Len(ss)
  OBVIOUS
<1>2. n \in Nat /\ n \in 1 .. n /\ ss \in [1 .. n -> Spans] /\ Last(ss) = ss[n] /\ ss[n] \in Spans
  BY <1>1, LenProperties DEF Last
<1>3. e = ss[n].end
  BY <1>1, EmptySeq DEF Chain
<1>4. ss[n].end \in Int /\ m \in Int
  BY <1>2, SpanTyped DEF ManagerAssumption
<1>5. Min({ss[n].end, m}) = m
  BY <1>3, <1>4, MinOfTwo
<1>6. PICK last : last = [ss[n] EXCEPT !.end = m]
  OBVIOUS
<1>7. last \in Spans /\ last.start = ss[n].start /\ last.end = m
  BY <1>2, <1>6 DEF Spans
<1>8. PICK cut : cut = [ss EXCEPT ![n] = last]
  OBVIOUS
<1>9. [ss EXCEPT ![Len(ss)].end = Min({@, m})] = cut
  BY <1>1, <1>2, <1>5, <1>6, <1>8
<1>10. cut \in Seq(Spans) /\ Len(cut) = n /\ cut[n] = last /\ \A i \in 1 .. n : i # n => cut[i] = ss[i]
  <2>1. cut \in Seq(Spans) /\ Len(cut) = Len(ss)
    BY <1>1, <1>2, <1>7, <1>8, ExceptSeq
  <2>2. cut \in [1 .. n -> Spans] /\ cut[n] = last /\ \A i \in 1 .. n : i # n => cut[i] = ss[i]
    BY <1>2, <1>7, <1>8
  <2> QED
    BY <2>1, <2>2, <1>1
<1>11. ASSUME NEW i \in 1 .. n
       PROVE  cut[i].start < cut[i].end /\ cut[i].start = IF i = 1 THEN b ELSE cut[i - 1].end
  <2>1. ss[i].start < ss[i].end /\ ss[i].start = IF i = 1 THEN b ELSE ss[i - 1].end
    BY <1>1 DEF Chain
  <2>2. i # 1 => i - 1 \in 1 .. n /\ i - 1 # n
    BY <1>2
  <2>3. i # 1 => cut[i - 1] = ss[i - 1]
    BY <2>2, <1>10
  <2>4. CASE i = n
    <3>1. cut[i].start = ss[i].start /\ cut[i].end = m /\ ss[n].start < m
      BY <2>4, <1>2, <1>7, <1>10
    <3> QED
      BY <2>1, <2>3, <2>4, <3>1
  <2>5. CASE i # n
    BY <2>1, <2>3, <2>5, <1>10
  <2> QED
    BY <2>4, <2>5
<1>12. cut # <<>>
  BY <1>2, <1>10, EmptySeq
<1>13. Chain(cut, b, m)
  BY <1>7, <1>10, <1>11, <1>12 DEF Chain
<1>14. Len(cut) # 0 /\ cut \in Seq(Spans)
  BY <1>1, <1>10
<1> QED
  BY <1>9, <1>13, <1>14

-----------------------------------------------------------------------------
\* A step of one batch.

\* Nothing of the forward pass of batch d changes, nothing of its backward pass.
ForwardSame(d) ==
  /\ block'[d] = block[d] /\ goal'[d] = goal[d] /\ feed'[d] = feed[d]
  /\ attempt'[d] = attempt[d] /\ sequences'[d] = sequences[d] /\ hop'[d] = hop[d]
  /\ done'[d] = done[d] /\ inputs'[d] = inputs[d]
BackwardSame(d) ==
  /\ spans'[d] = spans[d] /\ saved'[d] = saved[d] /\ span'[d] = span[d]
  /\ given'[d] = given[d] /\ grad'[d] = grad[d] /\ tries'[d] = tries[d]
Same(d) == at'[d] = at[d] /\ ForwardSame(d) /\ BackwardSame(d)

LEMMA SameBatch == ASSUME NEW d \in Batches, BatchRight(d), Same(d) PROVE BatchRight(d)'
<1>1. RouteRight(d)'
  BY DEF BatchRight, RouteRight, Same, ForwardSame, BackwardSame, Reached
<1>2. FirstPass(d)'
  BY DEF BatchRight, FirstPass, Same, ForwardSame, BackwardSame
<1>3. VisitsRight(d)'
  BY DEF BatchRight, VisitsRight, InForward, Same, ForwardSame, BackwardSame
<1> QED
  BY <1>1, <1>2, <1>3 DEF BatchRight

LEMMA OneBatch ==
  ASSUME IInv, NEW c \in Batches, \A d \in Batches \ {c} : Same(d),
         ManagerTyped', BatchesTyped', BatchRight(c)'
  PROVE  IInv'
<1>1. ASSUME NEW d \in Batches PROVE BatchRight(d)'
  <2>1. CASE d = c
    BY <2>1
  <2>2. CASE d # c
    BY <2>2, SameBatch DEF IInv
  <2> QED
    BY <2>1, <2>2
<1> QED
  BY <1>1 DEF IInv

LEMMA NoSpanIsNone == ASSUME ManagerAssumption PROVE NoSpan \notin Spans
BY DEF NoSpan, Spans, ManagerAssumption

\* Where a coroutine can be.
AtPlaces == AtAwait \cup {"forward", "waiting", "planning", "failing", "backward"}

\* The coroutine moves on and nothing else changes.
LEMMA OnlyMove ==
  ASSUME BatchesTyped, NEW c \in Batches, NEW to \in AtPlaces,
         at' = [at EXCEPT ![c] = to], UNCHANGED <<retries, forward, backward>>
  PROVE  /\ BatchesTyped' /\ at'[c] = to /\ ForwardSame(c) /\ BackwardSame(c)
         /\ \A d \in Batches \ {c} : Same(d)
BY DEF BatchesTyped, forward, backward, Same, ForwardSame, BackwardSame, AtPlaces

\* Nothing but the place changes, in a pass.
LEMMA OnlyMoveRight ==
  ASSUME NEW c \in Batches, BatchRight(c), ForwardSame(c), BackwardSame(c)
  PROVE  /\ FirstPass(c)'
         /\ (InForward(c) /\ InForward(c)') => VisitsRight(c)'
<1>1. FirstPass(c)'
  BY DEF BatchRight, FirstPass, ForwardSame, BackwardSame
<1>2. ASSUME InForward(c), InForward(c)' PROVE VisitsRight(c)'
  BY <1>2 DEF BatchRight, VisitsRight, InForward, ForwardSame, BackwardSame
<1> QED
  BY <1>1, <1>2

LEMMA BeginForwardStep == ASSUME IInv, NEW c \in Batches, BeginForward(c) PROVE IInv'
<1>1. ManagerTyped'
  BY ManagerUnchanged DEF IInv, BeginForward
<1>2. at[c] = "idle" /\ BatchRight(c)
  BY DEF IInv, BeginForward, Move
<1>3. /\ BatchesTyped' /\ at'[c] = "forward" /\ ForwardSame(c) /\ BackwardSame(c)
      /\ \A d \in Batches \ {c} : Same(d)
  <2>1. at' = [at EXCEPT ![c] = "forward"] /\ "forward" \in AtPlaces
    BY DEF BeginForward, Move, AtPlaces
  <2> QED
    BY <2>1, OnlyMove DEF IInv, BeginForward
<1>4. RouteRight(c)'
  BY <1>2, <1>3 DEF BatchRight, RouteRight, ForwardSame
<1>5. FirstPass(c)'
  BY <1>2, <1>3, OnlyMoveRight
<1>6. VisitsRight(c)'
  BY <1>2, <1>3 DEF BatchRight, VisitsRight, InForward, BackwardSame
<1> QED
  BY <1>1, <1>3, <1>4, <1>5, <1>6, OneBatch DEF BatchRight

LEMMA WaitedStep == ASSUME IInv, NEW c \in Batches, Waited(c) PROVE IInv'
<1>1. ManagerTyped'
  BY ManagerUnchanged DEF IInv, Waited
<1>2. at[c] = "waiting" /\ BatchRight(c)
  BY DEF IInv, Waited, Move
<1>3. /\ BatchesTyped' /\ at'[c] = "planning" /\ ForwardSame(c) /\ BackwardSame(c)
      /\ \A d \in Batches \ {c} : Same(d)
  <2>1. at' = [at EXCEPT ![c] = "planning"] /\ "planning" \in AtPlaces
    BY DEF Waited, Move, AtPlaces
  <2> QED
    BY <2>1, OnlyMove DEF IInv, Waited
<1>4. RouteRight(c)'
  <2>1. sequences[c] = <<>> /\ block[c] < goal[c]
    BY <1>2 DEF BatchRight, RouteRight
  <2>2. Chain(<<>>, block[c], block[c])
    BY EmptyLeads
  <2> QED
    BY <1>2, <1>3, <2>1, <2>2 DEF RouteRight, Reached, ForwardSame
<1>5. FirstPass(c)' /\ VisitsRight(c)'
  BY <1>2, <1>3, OnlyMoveRight DEF InForward
<1> QED
  BY <1>1, <1>3, <1>4, <1>5, OneBatch DEF BatchRight

LEMMA RetryStep == ASSUME IInv, NEW c \in Batches, Retry(c) PROVE IInv'
<1>1. ManagerTyped'
  BY ManagerUnchanged DEF IInv, Retry
<1>2. at[c] = "pausing" /\ BatchRight(c)
  BY DEF IInv, Retry, Move
<1>3. /\ BatchesTyped' /\ at'[c] = "forward" /\ ForwardSame(c) /\ BackwardSame(c)
      /\ \A d \in Batches \ {c} : Same(d)
  <2>1. at' = [at EXCEPT ![c] = "forward"] /\ "forward" \in AtPlaces
    BY DEF Retry, Move, AtPlaces
  <2> QED
    BY <2>1, OnlyMove DEF IInv, Retry
<1>4. RouteRight(c)'
  <2>1. attempt[c] > 0 /\ attempt[c] \in Nat
    BY <1>2 DEF BatchRight, RouteRight, IInv, BatchesTyped
  <2> QED
    BY <1>3, <2>1 DEF RouteRight, ForwardSame
<1>5. FirstPass(c)' /\ VisitsRight(c)'
  BY <1>2, <1>3, OnlyMoveRight DEF InForward
<1> QED
  BY <1>1, <1>3, <1>4, <1>5, OneBatch DEF BatchRight

LEMMA EnterBackwardStep == ASSUME IInv, NEW c \in Batches, EnterBackward(c) PROVE IInv'
<1>1. ManagerTyped'
  BY ManagerUnchanged DEF IInv, EnterBackward
<1>2. at[c] = "begun" /\ BatchRight(c)
  BY DEF IInv, EnterBackward, Move
<1>3. /\ BatchesTyped' /\ at'[c] = "backward" /\ ForwardSame(c) /\ BackwardSame(c)
      /\ \A d \in Batches \ {c} : Same(d)
  <2>1. at' = [at EXCEPT ![c] = "backward"] /\ "backward" \in AtPlaces
    BY DEF EnterBackward, Move, AtPlaces
  <2> QED
    BY <2>1, OnlyMove DEF IInv, EnterBackward
<1>4. RouteRight(c)'
  BY <1>3 DEF RouteRight
<1>5. FirstPass(c)'
  BY <1>2, <1>3, OnlyMoveRight
<1>6. VisitsRight(c)'
  BY <1>2, <1>3 DEF BatchRight, VisitsRight, InForward, BackwardSame
<1> QED
  BY <1>1, <1>3, <1>4, <1>5, <1>6, OneBatch DEF BatchRight

LEMMA FinishStep == ASSUME IInv, NEW c \in Batches, Finish(c) PROVE IInv'
<1>1. ManagerTyped'
  BY ManagerUnchanged DEF IInv, Finish
<1>2. at[c] = "backward" /\ BatchRight(c)
  BY DEF IInv, Finish, Move
<1>3. /\ BatchesTyped' /\ at'[c] = "finished" /\ ForwardSame(c) /\ BackwardSame(c)
      /\ \A d \in Batches \ {c} : Same(d)
  <2>1. at' = [at EXCEPT ![c] = "finished"] /\ "finished" \in AtPlaces
    BY DEF Finish, Move, AtPlaces, AtAwait
  <2> QED
    BY <2>1, OnlyMove DEF IInv, Finish
<1>4. RouteRight(c)'
  BY <1>3 DEF RouteRight
<1>5. FirstPass(c)'
  BY <1>2, <1>3, OnlyMoveRight
<1>6. VisitsRight(c)'
  BY <1>2, <1>3 DEF BatchRight, VisitsRight, InForward, BackwardSame
<1> QED
  BY <1>1, <1>3, <1>4, <1>5, <1>6, OneBatch DEF BatchRight

LEMMA BeginBackwardStep == ASSUME IInv, BeginBackward PROVE IInv'
<1>1. ManagerTyped'
  BY ManagerUnchanged DEF IInv, BeginBackward
<1>2. BatchesTyped' /\ \A c \in Batches : at'[c] = "begun" /\ ForwardSame(c) /\ BackwardSame(c)
  BY DEF IInv, BatchesTyped, BeginBackward, forward, backward, ForwardSame, BackwardSame, AtAwait
<1>3. ASSUME NEW c \in Batches PROVE BatchRight(c)'
  <2>1. at[c] = "between" /\ BatchRight(c)
    BY DEF IInv, BeginBackward
  <2>2. RouteRight(c)'
    BY <1>2 DEF RouteRight
  <2>3. FirstPass(c)'
    BY <2>1, <1>2, OnlyMoveRight
  <2>4. VisitsRight(c)'
    BY <2>1, <1>2 DEF BatchRight, VisitsRight, InForward, BackwardSame
  <2> QED
    BY <2>2, <2>3, <2>4 DEF BatchRight
<1> QED
  BY <1>1, <1>2, <1>3 DEF IInv

\* The next span of a route is asked.
LEMMA AskTyped ==
  ASSUME IInv, NEW c \in Batches, NEW route \in Seq(Spans), Head(route) \in Spans, Tail(route) \in Seq(Spans),
         at' = [at EXCEPT ![c] = "asked"], Ask(c, route)
  PROVE  /\ ManagerTyped' /\ BatchesTyped' /\ (\A d \in Batches \ {c} : Same(d))
         /\ at'[c] = "asked" /\ hop'[c] = Head(route) /\ sequences'[c] = Tail(route)
         /\ block'[c] = block[c] /\ goal'[c] = goal[c] /\ feed'[c] = feed[c]
         /\ done'[c] = done[c] /\ inputs'[c] = inputs[c] /\ BackwardSame(c)
<1>1. ManagerTyped'
  BY ManagerUnchanged DEF Ask, IInv
<1>2. PICK h : h = Head(route)
  OBVIOUS
<1>3. PICK t : t = Tail(route)
  OBVIOUS
<1>4. /\ at' = [at EXCEPT ![c] = "asked"] /\ hop' = [hop EXCEPT ![c] = h] /\ sequences' = [sequences EXCEPT ![c] = t]
      /\ UNCHANGED <<retries, block, goal, feed, attempt, done, inputs, backward>>
      /\ h \in Spans /\ t \in Seq(Spans)
  BY <1>2, <1>3 DEF Ask
<1>5. BatchesTyped
  BY DEF IInv
<1>6. BatchesTyped'
  BY <1>4, <1>5 DEF BatchesTyped, backward, AtAwait
<1>7. \A d \in Batches \ {c} : Same(d)
  BY <1>4, <1>5 DEF BatchesTyped, backward, Same, ForwardSame, BackwardSame
<1>8. /\ at'[c] = "asked" /\ hop'[c] = h /\ sequences'[c] = t
      /\ block'[c] = block[c] /\ goal'[c] = goal[c] /\ feed'[c] = feed[c]
      /\ done'[c] = done[c] /\ inputs'[c] = inputs[c] /\ BackwardSame(c)
  BY <1>4, <1>5 DEF BatchesTyped, backward, BackwardSame
<1> QED
  BY <1>1, <1>2, <1>3, <1>6, <1>7, <1>8

LEMMA AskRight ==
  ASSUME IInv, NEW c \in Batches, InForward(c),
         NEW route \in Seq(Spans), route # <<>>, Chain(route, block[c], goal[c]),
         at' = [at EXCEPT ![c] = "asked"], Ask(c, route)
  PROVE  IInv'
<1>1. /\ Head(route) \in Spans /\ Head(route).start = block[c] /\ Head(route).start < Head(route).end
      /\ Tail(route) \in Seq(Spans) /\ Chain(Tail(route), Head(route).end, goal[c])
  BY ChainTail
<1>2. /\ ManagerTyped' /\ BatchesTyped' /\ (\A d \in Batches \ {c} : Same(d))
      /\ at'[c] = "asked" /\ hop'[c] = Head(route) /\ sequences'[c] = Tail(route)
      /\ block'[c] = block[c] /\ goal'[c] = goal[c] /\ feed'[c] = feed[c]
      /\ done'[c] = done[c] /\ inputs'[c] = inputs[c] /\ BackwardSame(c)
  BY <1>1, AskTyped
<1>3. BatchRight(c)
  BY DEF IInv
<1>4. RouteRight(c)'
  BY <1>1, <1>2 DEF RouteRight
<1>5. FirstPass(c)'
  BY <1>2, <1>3 DEF BatchRight, FirstPass, BackwardSame
<1>6. VisitsRight(c)'
  BY <1>2, <1>3 DEF BatchRight, VisitsRight, InForward, BackwardSame
<1> QED
  BY <1>2, <1>4, <1>5, <1>6, OneBatch DEF BatchRight

LEMMA FollowRouteStep == ASSUME IInv, NEW c \in Batches, FollowRoute(c) PROVE IInv'
<1>1. at[c] = "forward" /\ sequences[c] # <<>> /\ attempt[c] = 0 /\ BatchRight(c) /\ sequences[c] \in Seq(Spans)
  BY DEF IInv, BatchesTyped, FollowRoute, Move
<1>2. Chain(sequences[c], block[c], goal[c]) /\ InForward(c)
  BY <1>1 DEF BatchRight, RouteRight, InForward
<1>3. at' = [at EXCEPT ![c] = "asked"] /\ Ask(c, sequences[c])
  BY DEF FollowRoute, Move
<1> QED
  BY <1>1, <1>2, <1>3, AskRight

LEMMA PlannedStep == ASSUME ManagerAssumption, IInv, NEW c \in Batches, Planned(c) PROVE IInv'
<1>1. at[c] = "planning" /\ Reached(c) >= goal[c] /\ BatchRight(c)
  BY DEF IInv, Planned, Move
<1>2. at' = [at EXCEPT ![c] = "asked"] /\ Ask(c, Cut(c))
  BY DEF Planned, Move
<1>3. sequences[c] \in Seq(Spans) /\ block[c] \in 0 .. NumBlocks /\ goal[c] \in 0 .. NumBlocks
  BY DEF IInv, BatchesTyped
<1>4. /\ block[c] < goal[c] /\ Chain(sequences[c], block[c], Reached(c))
      /\ (sequences[c] # <<>> => Last(sequences[c]).start < goal[c])
  BY <1>1 DEF BatchRight, RouteRight
<1>5. sequences[c] # <<>>
  BY <1>1, <1>3, <1>4 DEF Reached, ManagerAssumption
<1>6. goal[c] \in 1 .. NumBlocks /\ goal[c] <= Reached(c)
  <2>1. Reached(c) \in Int
    BY <1>3, <1>5, SpanTyped, LenProperties, EmptySeq DEF Reached, Last
  <2> QED
    BY <2>1, <1>1, <1>3, <1>4 DEF ManagerAssumption
<1>7. Len(sequences[c]) # 0
  BY <1>3, <1>5, EmptySeq
<1>8. Cut(c) \in Seq(Spans) /\ Len(Cut(c)) # 0 /\ Chain(Cut(c), block[c], goal[c])
  BY <1>3, <1>4, <1>5, <1>6, <1>7, ChainCut DEF Cut
<1>9. Cut(c) # <<>> /\ InForward(c)
  BY <1>8, <1>1, EmptySeq DEF InForward
<1> QED
  BY <1>2, <1>8, <1>9, AskRight

LEMMA NewRouteStep == ASSUME IInv, NEW c \in Batches, NewRoute(c) PROVE IInv'
<1>1. at[c] = "forward" /\ block[c] < goal[c] /\ BatchRight(c) /\ BatchesTyped /\ ManagerTyped
  BY DEF IInv, NewRoute
<1>2. PICK to \in {"planning", "waiting"} : at' = [at EXCEPT ![c] = to]
  BY DEF NewRoute, Move
<1>3. /\ sequences' = [sequences EXCEPT ![c] = <<>>]
      /\ UNCHANGED <<retries, block, goal, feed, attempt, hop, done, inputs, backward>>
  BY DEF NewRoute
<1>4. <<>> \in Seq(Spans)
  OBVIOUS
<1>5. BatchesTyped'
  BY <1>1, <1>2, <1>3, <1>4 DEF BatchesTyped, backward, AtAwait
<1>6. \A d \in Batches \ {c} : Same(d)
  BY <1>1, <1>2, <1>3 DEF BatchesTyped, backward, Same, ForwardSame, BackwardSame
<1>7. /\ at'[c] = to /\ sequences'[c] = <<>>
      /\ block'[c] = block[c] /\ goal'[c] = goal[c] /\ feed'[c] = feed[c]
      /\ done'[c] = done[c] /\ inputs'[c] = inputs[c] /\ BackwardSame(c)
  BY <1>1, <1>2, <1>3 DEF BatchesTyped, backward, BackwardSame
<1>8. ManagerTyped'
  BY <1>1 DEF NewRoute, Move, Update, ManagerTyped, swarm
<1>9. RouteRight(c)'
  <2>1. Chain(<<>>, block[c], block[c])
    BY EmptyLeads
  <2> QED
    BY <1>1, <1>2, <1>7, <2>1 DEF RouteRight, Reached
<1>10. FirstPass(c)'
  BY <1>1, <1>7 DEF BatchRight, FirstPass, BackwardSame
<1>11. VisitsRight(c)'
  BY <1>1, <1>2, <1>7 DEF BatchRight, VisitsRight, InForward, BackwardSame
<1> QED
  BY <1>5, <1>6, <1>8, <1>9, <1>10, <1>11, OneBatch DEF BatchRight

LEMMA PlanHopStep == ASSUME ManagerAssumption, IInv, NEW c \in Batches, NEW s \in known, PlanHop(c, s) PROVE IInv'
<1>1. at[c] = "planning" /\ Reached(c) < goal[c] /\ BatchRight(c) /\ BatchesTyped
  BY DEF IInv, PlanHop, Move
<1>2. s \in Spans /\ s.start <= Reached(c) /\ Reached(c) < s.end
  BY DEF IInv, ManagerTyped, PlanHop, Candidates
<1>3. ManagerTyped'
  BY ManagerUnchanged DEF IInv, PlanHop
<1>4. sequences[c] \in Seq(Spans) /\ block[c] \in 0 .. NumBlocks /\ goal[c] \in 0 .. NumBlocks
  BY DEF IInv, BatchesTyped
<1>5. block[c] < goal[c] /\ Chain(sequences[c], block[c], Reached(c))
  BY <1>1 DEF BatchRight, RouteRight
<1>6. Reached(c) \in Blocks
  <2>1. CASE sequences[c] = <<>>
    BY <2>1, <1>1, <1>4 DEF Reached, Blocks, ManagerAssumption
  <2>2. CASE sequences[c] # <<>>
    <3>1. Last(sequences[c]) \in Spans
      BY <2>2, <1>4, LenProperties, EmptySeq DEF Last
    <3>2. Reached(c) \in 1 .. NumBlocks
      BY <2>2, <3>1, SpanTyped DEF Reached
    <3> QED
      BY <3>2, <1>1, <1>4 DEF Blocks, ManagerAssumption
  <2> QED
    BY <2>1, <2>2
<1>7. PICK next : next = [s EXCEPT !.start = Reached(c)]
  OBVIOUS
<1>8. next \in Spans /\ next.start = Reached(c) /\ next.end = s.end /\ next.start < next.end
  BY <1>2, <1>6, <1>7 DEF Spans
<1>9. PICK ss : ss = Append(sequences[c], next)
  OBVIOUS
<1>10. /\ ss \in Seq(Spans) /\ ss # <<>> /\ Len(ss) = Len(sequences[c]) + 1
       /\ ss[Len(sequences[c]) + 1] = next
  BY <1>4, <1>8, <1>9, AppendElements
<1>11. Chain(ss, block[c], next.end)
  BY <1>4, <1>5, <1>8, <1>9, ChainAppend
<1>12. Last(ss) = next
  BY <1>10 DEF Last
<1>13. /\ at' = [at EXCEPT ![c] = "planning"]
       /\ UNCHANGED <<retries, block, goal, feed, attempt, hop, done, inputs, backward>>
  BY DEF PlanHop, Move
<1>14. sequences' = [sequences EXCEPT ![c] = ss]
  BY <1>7, <1>9, <1>4 DEF PlanHop
<1>15. ss \in Seq(Spans)
  BY <1>10
<1>16. BatchesTyped'
  BY <1>1, <1>13, <1>14, <1>15 DEF BatchesTyped, backward
<1>17. \A d \in Batches \ {c} : Same(d)
  BY <1>1, <1>13, <1>14 DEF BatchesTyped, backward, Same, ForwardSame, BackwardSame
<1>18. /\ at'[c] = "planning" /\ sequences'[c] = ss
       /\ block'[c] = block[c] /\ goal'[c] = goal[c] /\ feed'[c] = feed[c]
       /\ done'[c] = done[c] /\ inputs'[c] = inputs[c] /\ BackwardSame(c)
  BY <1>1, <1>13, <1>14 DEF BatchesTyped, backward, BackwardSame
<1>19. RouteRight(c)'
  <2>1. ss # <<>>
    BY <1>10
  <2>2. Reached(c)' = next.end
    BY <1>12, <1>18, <2>1 DEF Reached
  <2> QED
    BY <1>1, <1>5, <1>8, <1>11, <1>12, <1>18, <2>1, <2>2 DEF RouteRight
<1>20. FirstPass(c)'
  BY <1>1, <1>18 DEF BatchRight, FirstPass, BackwardSame
<1>21. VisitsRight(c)'
  BY <1>1, <1>18 DEF BatchRight, VisitsRight, InForward, BackwardSame
<1> QED
  BY <1>3, <1>16, <1>17, <1>19, <1>20, <1>21, OneBatch DEF BatchRight

LEMMA AnsweredStep == ASSUME ManagerAssumption, IInv, NEW c \in Batches, Answered(c) PROVE IInv'
<1>1. at[c] = "asked" /\ BatchRight(c) /\ BatchesTyped /\ ManagerTyped
  BY DEF IInv, Answered, Move
<1>2. PICK h : h = hop[c]
  OBVIOUS
<1>3. /\ h \in Spans /\ h.start = block[c] /\ h.start < h.end /\ Chain(sequences[c], h.end, goal[c])
      /\ h.peer \in Peers /\ h.end \in Tensors
  BY <1>1, <1>2, SpanTyped DEF BatchRight, RouteRight
<1>4. ManagerTyped'
  BY <1>1, <1>2, <1>3, SuccessTyped DEF Answered
<1>5. done[c] \in Seq(Spans) /\ inputs[c] \in Seq(Tensors) /\ feed[c] \in Tensors
  BY <1>1 DEF BatchesTyped
<1>6. PICK ss : ss = Append(done[c], h)
  OBVIOUS
<1>7. PICK xs : xs = Append(inputs[c], feed[c])
  OBVIOUS
<1>8. ss \in Seq(Spans) /\ xs \in Seq(Tensors)
  BY <1>3, <1>5, <1>6, <1>7, AppendElements
<1>9. /\ at' = [at EXCEPT ![c] = "forward"]
      /\ inputs' = [inputs EXCEPT ![c] = xs] /\ done' = [done EXCEPT ![c] = ss]
      /\ feed' = [feed EXCEPT ![c] = h.end] /\ block' = [block EXCEPT ![c] = h.end]
      /\ attempt' = [attempt EXCEPT ![c] = 0] /\ hop' = [hop EXCEPT ![c] = NoSpan]
      /\ UNCHANGED <<retries, goal, sequences, backward>>
  BY <1>1, <1>2, <1>6, <1>7 DEF Answered, Move, BatchesTyped
<1>10. BatchesTyped'
  BY <1>1, <1>3, <1>8, <1>9 DEF BatchesTyped, backward, Tensors
<1>11. \A d \in Batches \ {c} : Same(d)
  BY <1>1, <1>9 DEF BatchesTyped, backward, Same, ForwardSame, BackwardSame
<1>12. /\ at'[c] = "forward" /\ inputs'[c] = xs /\ done'[c] = ss /\ feed'[c] = h.end /\ block'[c] = h.end
       /\ sequences'[c] = sequences[c] /\ goal'[c] = goal[c] /\ BackwardSame(c)
  BY <1>1, <1>9 DEF BatchesTyped, backward, BackwardSame
<1>13. ASSUME NEW b, Leads(done[c], inputs[c], b, block[c]), feed[c] = block[c]
       PROVE  Leads(ss, xs, b, h.end)
  BY <1>3, <1>5, <1>6, <1>7, <1>13, LeadsAppend
<1>14. RouteRight(c)'
  BY <1>3, <1>12 DEF RouteRight
<1>15. FirstPass(c)'
  BY <1>1, <1>12, <1>13 DEF BatchRight, FirstPass, BackwardSame
<1>16. VisitsRight(c)'
  BY <1>1, <1>12, <1>13 DEF BatchRight, VisitsRight, InForward, BackwardSame
<1> QED
  BY <1>4, <1>10, <1>11, <1>14, <1>15, <1>16, OneBatch DEF BatchRight

LEMMA ForwardFailsStep ==
  ASSUME AutogradAssumption, IInv, NEW c \in Batches, NEW from \in {"planning", "asked"}, at[c] = from,
         NEW p \in Peers \cup {NoPeer}, faults' \in 0 .. MaxFaults, ForwardFails(c, from, p)
  PROVE  IInv'
<1>1. BatchRight(c) /\ BatchesTyped /\ ManagerTyped
  BY DEF IInv
<1>2. ManagerTyped'
  BY <1>1, FailureTyped DEF ForwardFails
<1>3. PICK to \in {"failing", "raised", "pausing"} :
        /\ at' = [at EXCEPT ![c] = to]
        /\ (to = "failing") => Recovering(c)
        /\ IF to = "pausing" THEN attempt' = [attempt EXCEPT ![c] = Another(attempt[c])] ELSE attempt' = attempt
  BY <1>1 DEF ForwardFails, Move, BatchesTyped
<1>4. retries \in Nat /\ attempt[c] \in Nat
  BY <1>1 DEF BatchesTyped, AutogradAssumption
<1>5. Another(attempt[c]) \in Nat /\ Another(attempt[c]) > 0
  BY <1>4 DEF Another
<1>6. /\ hop' = [hop EXCEPT ![c] = NoSpan]
      /\ UNCHANGED <<retries, block, goal, feed, sequences, done, inputs, backward>>
  BY DEF ForwardFails
<1>7. attempt' \in [Batches -> Nat] /\ (to = "pausing" => attempt'[c] > 0)
      /\ \A d \in Batches \ {c} : attempt'[d] = attempt[d]
  BY <1>1, <1>3, <1>5 DEF BatchesTyped
<1>8. BatchesTyped'
  BY <1>1, <1>3, <1>6, <1>7 DEF BatchesTyped, backward, AtAwait
<1>9. \A d \in Batches \ {c} : Same(d)
  BY <1>1, <1>3, <1>6, <1>7 DEF BatchesTyped, backward, Same, ForwardSame, BackwardSame
<1>10. /\ at'[c] = to /\ block'[c] = block[c] /\ goal'[c] = goal[c] /\ feed'[c] = feed[c]
       /\ done'[c] = done[c] /\ inputs'[c] = inputs[c] /\ BackwardSame(c)
  BY <1>1, <1>3, <1>6 DEF BatchesTyped, backward, BackwardSame
<1>11. RouteRight(c)'
  BY <1>3, <1>7, <1>10 DEF RouteRight
<1>12. FirstPass(c)'
  BY <1>1, <1>10 DEF BatchRight, FirstPass, BackwardSame
<1>13. VisitsRight(c)'
  <2>1. InForward(c)
    BY DEF InForward
  <2>2. tries[c] > 0 => span[c] # NoSpan
    BY <1>1 DEF BatchRight, FirstPass
  <2>3. to = "failing" => span[c] # NoSpan
    BY <2>2, <1>3 DEF Recovering
  <2> QED
    BY <1>1, <1>3, <1>10, <2>1, <2>3 DEF BatchRight, VisitsRight, InForward, BackwardSame
<1> QED
  BY <1>2, <1>8, <1>9, <1>11, <1>12, <1>13, OneBatch DEF BatchRight

\* A request that fails for a fault counts one.
LEMMA FailsTyped == ASSUME ManagerAssumption, ManagerTyped, NEW s, Fails(s) PROVE faults' \in 0 .. MaxFaults
BY DEF Fails, ManagerTyped, ManagerAssumption

LEMMA MissingStep == ASSUME AutogradAssumption, IInv, NEW c \in Batches, Missing(c) PROVE IInv'
<1>1. at[c] = "planning" /\ ForwardFails(c, "planning", NoPeer) /\ faults' \in 0 .. MaxFaults
  BY DEF Missing, IInv, ManagerTyped
<1> QED
  BY <1>1, ForwardFailsStep

LEMMA UnansweredStep == ASSUME ManagerAssumption, AutogradAssumption, IInv, NEW c \in Batches, Unanswered(c) PROVE IInv'
<1>1. at[c] = "asked" /\ ForwardFails(c, "asked", hop[c].peer) /\ faults' \in 0 .. MaxFaults
  BY FailsTyped DEF Unanswered, IInv
<1>2. hop[c].peer \in Peers
  BY <1>1, SpanTyped DEF IInv, BatchRight, RouteRight
<1> QED
  BY <1>1, <1>2, ForwardFailsStep

LEMMA ReturnStep == ASSUME IInv, NEW c \in Batches, Return(c) PROVE IInv'
<1>1. ManagerTyped'
  BY ManagerUnchanged DEF IInv, Return
<1>2. at[c] = "forward" /\ block[c] = goal[c] /\ BatchRight(c) /\ BatchesTyped
  BY DEF IInv, Return, Move
<1>3. span[c] = NoSpan
  <2>1. ~(tries[c] > 0)
    BY DEF Return, Recovering
  <2> QED
    BY <2>1, <1>2 DEF BatchRight, VisitsRight, InForward
<1>4. PICK ss : ss = done[c]
  OBVIOUS
<1>5. PICK xs : xs = inputs[c]
  OBVIOUS
<1>6. /\ at' = [at EXCEPT ![c] = "between"]
      /\ spans' = [spans EXCEPT ![c] = ss] /\ saved' = [saved EXCEPT ![c] = xs]
      /\ UNCHANGED <<retries, forward, span, given, grad, tries>>
      /\ ss \in Seq(Spans) /\ xs \in Seq(Tensors)
  BY <1>2, <1>4, <1>5 DEF Return, Move, BatchesTyped
<1>7. BatchesTyped'
  BY <1>2, <1>6 DEF BatchesTyped, forward, AtAwait
<1>8. \A d \in Batches \ {c} : Same(d)
  BY <1>2, <1>6 DEF BatchesTyped, forward, Same, ForwardSame, BackwardSame
<1>9. /\ at'[c] = "between" /\ spans'[c] = ss /\ saved'[c] = xs /\ ForwardSame(c)
      /\ span'[c] = span[c] /\ grad'[c] = grad[c] /\ tries'[c] = tries[c]
  BY <1>2, <1>6 DEF BatchesTyped, forward, ForwardSame
<1>10. grad[c] = NumBlocks /\ goal[c] = NumBlocks /\ Leads(ss, xs, 0, block[c])
  BY <1>2, <1>3, <1>4, <1>5 DEF BatchRight, FirstPass
<1>11. RouteRight(c)'
  BY <1>9 DEF RouteRight
<1>12. FirstPass(c)'
  BY <1>2, <1>9 DEF BatchRight, FirstPass, ForwardSame
<1>13. VisitsRight(c)'
  BY <1>2, <1>3, <1>9, <1>10 DEF VisitsRight, InForward
<1> QED
  BY <1>1, <1>7, <1>8, <1>11, <1>12, <1>13, OneBatch DEF BatchRight

\* The backward pass takes up the last of a list of spans.
LEMMA PopRight ==
  ASSUME ManagerAssumption, IInv, NEW c \in Batches, NEW ss \in Seq(Spans), NEW xs \in Seq(Tensors), Len(ss) # 0,
         Leads(ss, xs, 0, grad[c]), Pop(c, ss, xs), at' = [at EXCEPT ![c] = "returned"],
         UNCHANGED <<manager, retries, forward, grad>>,
         tries' \in [Batches -> Nat], \A d \in Batches \ {c} : tries'[d] = tries[d]
  PROVE  IInv'
<1>1. ManagerTyped' /\ BatchesTyped
  BY ManagerUnchanged DEF IInv
<1>2. /\ Front(ss) \in Seq(Spans) /\ Last(ss) \in Spans
      /\ Front(xs) \in Seq(Tensors) /\ Last(xs) \in Tensors
      /\ Leads(Append(Front(ss), Last(ss)), Append(Front(xs), Last(xs)), 0, grad[c])
  BY LeadsPop
<1>3. PICK fs : fs = Front(ss)
  OBVIOUS
<1>4. PICK ls : ls = Last(ss)
  OBVIOUS
<1>5. PICK fx : fx = Front(xs)
  OBVIOUS
<1>6. PICK lx : lx = Last(xs)
  OBVIOUS
<1>7. /\ spans' = [spans EXCEPT ![c] = fs] /\ saved' = [saved EXCEPT ![c] = fx]
      /\ span' = [span EXCEPT ![c] = ls] /\ given' = [given EXCEPT ![c] = lx]
      /\ fs \in Seq(Spans) /\ ls \in Spans /\ fx \in Seq(Tensors) /\ lx \in Tensors
      /\ Leads(Append(fs, ls), Append(fx, lx), 0, grad[c])
  BY <1>2, <1>3, <1>4, <1>5, <1>6 DEF Pop
<1>8. BatchesTyped'
  BY <1>1, <1>7 DEF BatchesTyped, forward, AtAwait
<1>9. \A d \in Batches \ {c} : Same(d)
  BY <1>1, <1>7 DEF BatchesTyped, forward, Same, ForwardSame, BackwardSame
<1>10. /\ at'[c] = "returned" /\ spans'[c] = fs /\ saved'[c] = fx /\ span'[c] = ls /\ given'[c] = lx
       /\ grad'[c] = grad[c]
  BY <1>1, <1>7 DEF BatchesTyped
<1>11. RouteRight(c)'
  BY <1>10 DEF RouteRight
<1>12. FirstPass(c)'
  BY <1>7, <1>10, NoSpanIsNone DEF FirstPass
<1>13. VisitsRight(c)'
  BY <1>7, <1>10 DEF VisitsRight, InForward
<1> QED
  BY <1>1, <1>8, <1>9, <1>11, <1>12, <1>13, OneBatch DEF BatchRight

LEMMA NextSpanStep == ASSUME ManagerAssumption, IInv, NEW c \in Batches, NextSpan(c) PROVE IInv'
<1>1. at[c] = "backward" /\ BatchRight(c) /\ BatchesTyped
  BY DEF IInv, NextSpan, Move
<1>2. spans[c] \in Seq(Spans) /\ saved[c] \in Seq(Tensors)
  BY <1>1 DEF BatchesTyped
<1>3. Len(spans[c]) # 0
  BY <1>2, EmptySeq DEF NextSpan
<1>4. Leads(spans[c], saved[c], 0, grad[c])
  BY <1>1 DEF BatchRight, VisitsRight
<1>5. tries' \in [Batches -> Nat] /\ \A d \in Batches \ {c} : tries'[d] = tries[d]
  BY <1>1 DEF BatchesTyped, NextSpan
<1>6. /\ Pop(c, spans[c], saved[c]) /\ at' = [at EXCEPT ![c] = "returned"]
      /\ UNCHANGED <<manager, retries, forward, grad>>
  BY DEF NextSpan, Move
<1> QED
  BY <1>2, <1>3, <1>4, <1>5, <1>6, PopRight

LEMMA RecoveredStep == ASSUME ManagerAssumption, IInv, NEW c \in Batches, Recovered(c) PROVE IInv'
<1>1. at[c] = "forward" /\ block[c] = goal[c] /\ tries[c] > 0 /\ BatchRight(c) /\ BatchesTyped
  BY DEF IInv, Recovered, Move, Recovering
<1>2. /\ spans[c] \in Seq(Spans) /\ saved[c] \in Seq(Tensors) /\ given[c] \in Tensors
      /\ done[c] \in Seq(Spans) /\ inputs[c] \in Seq(Tensors)
  BY <1>1 DEF BatchesTyped
<1>3. span[c] # NoSpan
  BY <1>1 DEF BatchRight, FirstPass
<1>4. /\ span[c] \in Spans
      /\ Leads(Append(spans[c], span[c]), Append(saved[c], given[c]), 0, grad[c])
      /\ goal[c] = span[c].end /\ Leads(done[c], inputs[c], span[c].start, block[c])
  BY <1>1, <1>3 DEF BatchRight, VisitsRight, InForward
<1>5. /\ Leads(spans[c], saved[c], 0, span[c].start)
      /\ grad[c] = span[c].end /\ span[c].start < span[c].end
  BY <1>2, <1>4, LeadsUnpop
<1>6. Leads(done[c], inputs[c], span[c].start, grad[c])
  BY <1>1, <1>4, <1>5
<1>7. PICK ss : ss = spans[c] \o done[c]
  OBVIOUS
<1>8. PICK xs : xs = saved[c] \o inputs[c]
  OBVIOUS
<1>9. ss \in Seq(Spans) /\ xs \in Seq(Tensors) /\ Len(ss) = Len(spans[c]) + Len(done[c])
  BY <1>2, <1>7, <1>8, ConcatProperties
<1>10. Leads(ss, xs, 0, grad[c])
  BY <1>2, <1>5, <1>6, <1>7, <1>8, LeadsConcat
<1>11. Len(done[c]) # 0
  <2>1. grad[c] # span[c].start
    BY <1>4, <1>5, SpanTyped
  <2> QED
    BY <2>1, <1>2, <1>6, EmptySeq DEF Leads
<1>12. Len(ss) # 0
  <2>1. Len(spans[c]) \in Nat
    BY <1>2, LenProperties
  <2>2. Len(done[c]) \in Nat
    BY <1>2, LenProperties
  <2>3. PICK m \in Nat : m = Len(spans[c])
    BY <2>1
  <2>4. PICK n \in Nat : n = Len(done[c])
    BY <2>2
  <2>5. Len(ss) = m + n /\ n # 0
    BY <1>9, <1>11, <2>3, <2>4
  <2> QED
    BY <2>5
<1>13. /\ Pop(c, ss, xs) /\ at' = [at EXCEPT ![c] = "returned"]
       /\ UNCHANGED <<manager, retries, forward, grad>>
  BY <1>7, <1>8 DEF Recovered, Move
<1>14. tries' \in [Batches -> Nat] /\ \A d \in Batches \ {c} : tries'[d] = tries[d]
  BY <1>1 DEF BatchesTyped, Recovered
<1> QED
  BY <1>9, <1>10, <1>12, <1>13, <1>14, PopRight

LEMMA BackwardAnsweredStep == ASSUME ManagerAssumption, IInv, NEW c \in Batches, BackwardAnswered(c) PROVE IInv'
<1>1. at[c] = "returned" /\ BatchRight(c) /\ BatchesTyped /\ ManagerTyped
  BY DEF IInv, BackwardAnswered, Move
<1>2. /\ span[c] \in Spans
      /\ Leads(Append(spans[c], span[c]), Append(saved[c], given[c]), 0, grad[c])
      /\ spans[c] \in Seq(Spans) /\ saved[c] \in Seq(Tensors) /\ given[c] \in Tensors
  BY <1>1 DEF BatchRight, VisitsRight, BatchesTyped
<1>3. span[c].peer \in Peers /\ span[c].start \in Tensors
  BY <1>2, SpanTyped
<1>4. ManagerTyped'
  BY <1>1, <1>3, SuccessTyped DEF BackwardAnswered
<1>5. Leads(spans[c], saved[c], 0, span[c].start)
  BY <1>2, LeadsUnpop
<1>6. PICK g : g = span[c].start
  OBVIOUS
<1>7. /\ at' = [at EXCEPT ![c] = "backward"] /\ grad' = [grad EXCEPT ![c] = g] /\ g \in Tensors
      /\ UNCHANGED <<retries, forward, spans, saved, span, given, tries>>
  BY <1>3, <1>6 DEF BackwardAnswered, Move
<1>8. BatchesTyped'
  BY <1>1, <1>7 DEF BatchesTyped, forward
<1>9. \A d \in Batches \ {c} : Same(d)
  BY <1>1, <1>7 DEF BatchesTyped, forward, Same, ForwardSame, BackwardSame
<1>10. /\ at'[c] = "backward" /\ spans'[c] = spans[c] /\ saved'[c] = saved[c] /\ span'[c] = span[c]
       /\ grad'[c] = g
  BY <1>1, <1>7 DEF BatchesTyped
<1>11. RouteRight(c)'
  BY <1>10 DEF RouteRight
<1>12. FirstPass(c)'
  BY <1>2, <1>10, NoSpanIsNone DEF FirstPass
<1>13. VisitsRight(c)'
  BY <1>5, <1>6, <1>10 DEF VisitsRight, InForward
<1> QED
  BY <1>4, <1>8, <1>9, <1>11, <1>12, <1>13, OneBatch DEF BatchRight

LEMMA BackwardFailsStep ==
  ASSUME ManagerAssumption, AutogradAssumption, IInv, NEW c \in Batches, NEW from \in {"returned", "failing"}, at[c] = from,
         faults' \in 0 .. MaxFaults, BackwardFails(c, from)
  PROVE  IInv'
<1>1. BatchRight(c) /\ BatchesTyped /\ ManagerTyped
  BY DEF IInv
<1>2. span[c] \in Spans /\ Leads(Append(spans[c], span[c]), Append(saved[c], given[c]), 0, grad[c])
  BY <1>1 DEF BatchRight, VisitsRight
<1>3. ManagerTyped'
  BY <1>1, <1>2, SpanTyped, FailureTyped DEF BackwardFails
<1>4. PICK to \in {"raised", "resting"} :
        /\ at' = [at EXCEPT ![c] = to]
        /\ IF to = "resting" THEN tries' = [tries EXCEPT ![c] = Another(tries[c])] ELSE tries' = tries
  BY <1>1 DEF BackwardFails, Move, BatchesTyped
<1>5. retries \in Nat /\ tries[c] \in Nat
  BY <1>1 DEF BatchesTyped, AutogradAssumption
<1>6. Another(tries[c]) \in Nat /\ Another(tries[c]) > 0
  BY <1>5 DEF Another
<1>7. tries' \in [Batches -> Nat] /\ (to = "resting" => tries'[c] > 0)
      /\ \A d \in Batches \ {c} : tries'[d] = tries[d]
  BY <1>1, <1>4, <1>6 DEF BatchesTyped
<1>8. UNCHANGED <<retries, forward, spans, saved, span, given, grad>>
  BY DEF BackwardFails
<1>9. BatchesTyped'
  BY <1>1, <1>4, <1>7, <1>8 DEF BatchesTyped, forward, AtAwait
<1>10. \A d \in Batches \ {c} : Same(d)
  BY <1>1, <1>4, <1>7, <1>8 DEF BatchesTyped, forward, Same, ForwardSame, BackwardSame
<1>11. /\ at'[c] = to /\ spans'[c] = spans[c] /\ saved'[c] = saved[c] /\ span'[c] = span[c]
       /\ given'[c] = given[c] /\ grad'[c] = grad[c]
  BY <1>1, <1>4, <1>8 DEF BatchesTyped
<1>12. RouteRight(c)'
  BY <1>4, <1>11 DEF RouteRight
<1>13. FirstPass(c)'
  BY <1>2, <1>11, NoSpanIsNone DEF FirstPass
<1>14. VisitsRight(c)'
  BY <1>2, <1>4, <1>7, <1>11 DEF VisitsRight, InForward
<1> QED
  BY <1>3, <1>9, <1>10, <1>12, <1>13, <1>14, OneBatch DEF BatchRight

LEMMA BackwardUnansweredStep == ASSUME ManagerAssumption, AutogradAssumption, IInv, NEW c \in Batches, BackwardUnanswered(c) PROVE IInv'
<1>1. at[c] = "returned" /\ BackwardFails(c, "returned") /\ faults' \in 0 .. MaxFaults
  BY FailsTyped DEF BackwardUnanswered, IInv
<1> QED
  BY <1>1, BackwardFailsStep

LEMMA RecoveryFailsStep == ASSUME ManagerAssumption, AutogradAssumption, IInv, NEW c \in Batches, RecoveryFails(c) PROVE IInv'
<1>1. at[c] = "failing" /\ BackwardFails(c, "failing") /\ faults' \in 0 .. MaxFaults
  BY DEF RecoveryFails, BackwardFails, Move, IInv, ManagerTyped
<1> QED
  BY <1>1, BackwardFailsStep

LEMMA RecoverStep == ASSUME ManagerAssumption, IInv, NEW c \in Batches, Recover(c) PROVE IInv'
<1>1. at[c] = "resting" /\ BatchRight(c) /\ BatchesTyped
  BY DEF IInv, Recover, Move
<1>2. ManagerTyped'
  BY ManagerUnchanged DEF IInv, Recover
<1>3. /\ span[c] \in Spans /\ tries[c] > 0
      /\ Leads(Append(spans[c], span[c]), Append(saved[c], given[c]), 0, grad[c])
      /\ spans[c] \in Seq(Spans) /\ saved[c] \in Seq(Tensors) /\ given[c] \in Tensors
  BY <1>1 DEF BatchRight, VisitsRight, BatchesTyped
<1>4. given[c] = span[c].start
  BY <1>3, LeadsUnpop
<1>5. PICK s : s = span[c].start
  OBVIOUS
<1>6. PICK e : e = span[c].end
  OBVIOUS
<1>7. /\ at' = [at EXCEPT ![c] = "forward"] /\ block' = [block EXCEPT ![c] = s] /\ goal' = [goal EXCEPT ![c] = e]
      /\ feed' = [feed EXCEPT ![c] = s] /\ attempt' = [attempt EXCEPT ![c] = 0]
      /\ sequences' = [sequences EXCEPT ![c] = <<>>] /\ done' = [done EXCEPT ![c] = <<>>]
      /\ inputs' = [inputs EXCEPT ![c] = <<>>]
      /\ UNCHANGED <<retries, hop, backward>>
  BY <1>4, <1>5, <1>6 DEF Recover, Move
<1>8. /\ s \in Tensors /\ e \in Tensors /\ <<>> \in Seq(Spans) /\ <<>> \in Seq(Tensors)
  BY <1>3, <1>5, <1>6, SpanTyped
<1>9. BatchesTyped'
  BY <1>1, <1>7, <1>8 DEF BatchesTyped, backward, Tensors
<1>10. \A d \in Batches \ {c} : Same(d)
  BY <1>1, <1>7 DEF BatchesTyped, backward, Same, ForwardSame, BackwardSame
<1>11. /\ at'[c] = "forward" /\ block'[c] = s /\ goal'[c] = e /\ feed'[c] = s /\ sequences'[c] = <<>>
       /\ done'[c] = <<>> /\ inputs'[c] = <<>> /\ BackwardSame(c)
  BY <1>1, <1>7 DEF BatchesTyped, backward, BackwardSame
<1>12. RouteRight(c)'
  BY <1>11 DEF RouteRight
<1>13. FirstPass(c)'
  BY <1>3, <1>11, NoSpanIsNone DEF FirstPass, BackwardSame
<1>14. VisitsRight(c)'
  <2>1. Leads(<<>>, <<>>, s, s)
    BY EmptyLeads
  <2> QED
    BY <1>3, <1>5, <1>6, <1>11, <2>1 DEF VisitsRight, InForward, BackwardSame
<1> QED
  BY <1>2, <1>9, <1>10, <1>12, <1>13, <1>14, OneBatch DEF BatchRight

-----------------------------------------------------------------------------
\* The invariant.

LEMMA InitInv == ASSUME ManagerAssumption PROVE Init => IInv
<1>1. SUFFICES ASSUME Init PROVE IInv
  OBVIOUS
<1>2. ManagerTyped
  BY <1>1, InitManagerTyped DEF Init
<1>3. BatchesTyped
  BY <1>1 DEF Init, BatchesTyped, Tensors, AtAwait, ManagerAssumption
<1>4. ASSUME NEW c \in Batches PROVE BatchRight(c)
  <2>1. /\ at[c] = "idle" /\ sequences[c] = <<>> /\ span[c] = NoSpan /\ tries[c] = 0
        /\ grad[c] = NumBlocks /\ goal[c] = NumBlocks /\ done[c] = <<>> /\ inputs[c] = <<>>
        /\ block[c] = 0 /\ feed[c] = 0
    BY <1>1 DEF Init
  <2>2. Leads(<<>>, <<>>, 0, 0)
    BY EmptyLeads
  <2>3. RouteRight(c)
    BY <2>1 DEF RouteRight
  <2>4. FirstPass(c)
    BY <2>1, <2>2 DEF FirstPass
  <2>5. VisitsRight(c)
    BY <2>1 DEF VisitsRight, InForward
  <2> QED
    BY <2>3, <2>4, <2>5 DEF BatchRight
<1> QED
  BY <1>2, <1>3, <1>4 DEF IInv

LEMMA StutterStep == ASSUME IInv, UNCHANGED <<retries, at, forward, backward>>, ManagerTyped' PROVE IInv'
<1>1. BatchesTyped'
  BY DEF IInv, BatchesTyped, forward, backward
<1>2. ASSUME NEW c \in Batches PROVE BatchRight(c)'
  <2>1. Same(c)
    BY DEF Same, ForwardSame, BackwardSame, forward, backward
  <2> QED
    BY <2>1, SameBatch DEF IInv
<1> QED
  BY <1>1, <1>2 DEF IInv

LEMMA StepInv == ASSUME ManagerAssumption, AutogradAssumption PROVE IInv /\ [Next]_vars => IInv'
<1>1. SUFFICES ASSUME IInv, [Next]_vars PROVE IInv'
  OBVIOUS
<1>2. CASE UNCHANGED vars
  BY <1>1, <1>2, StutterStep, ManagerUnchanged DEF vars, IInv, manager, forward, backward
<1>3. CASE Around /\ UNCHANGED <<retries, at, forward, backward>>
  BY <1>1, <1>3, AroundTyped, StutterStep DEF IInv
<1>4. CASE BeginBackward
  BY <1>1, <1>4, BeginBackwardStep
<1>5. ASSUME NEW c \in Batches, BeginForward(c) PROVE IInv'
  BY <1>1, <1>5, BeginForwardStep
<1>6. ASSUME NEW c \in Batches, Forward(c) PROVE IInv'
  BY <1>1, <1>6, FollowRouteStep, NewRouteStep, WaitedStep, PlanHopStep, PlannedStep,
     AnsweredStep, MissingStep, UnansweredStep, RetryStep, ReturnStep DEF Forward
<1>7. ASSUME NEW c \in Batches, Backward(c) PROVE IInv'
  BY <1>1, <1>7, EnterBackwardStep, NextSpanStep, FinishStep, BackwardAnsweredStep,
     BackwardUnansweredStep, RecoveryFailsStep, RecoverStep, RecoveredStep DEF Backward
<1> QED
  BY <1>1, <1>2, <1>3, <1>4, <1>5, <1>6, <1>7 DEF Next

\* However servers come and go, whatever fails and is tried again: the route of each
\* batch goes on from the block it has reached, and each list of spans leads from
\* where it must to where it must.
THEOREM SpecInv == ASSUME ManagerAssumption, AutogradAssumption PROVE Spec => []IInv
<1> QED
  BY InitInv, StepInv, PTL DEF Spec

-----------------------------------------------------------------------------
LEMMA InvConsistent == IInv => StepConsistent
<1>1. SUFFICES ASSUME IInv PROVE StepConsistent
  OBVIOUS
<1>2. TypeOK
  BY <1>1 DEF IInv, ManagerTyped, BatchesTyped, TypeOK
<1>3. ASSUME NEW c \in Batches
      PROVE  /\ at[c] # "idle" /\ ~Recovering(c) /\ grad[c] = NumBlocks /\ span[c] = NoSpan =>
                  Leads(done[c], inputs[c], 0, block[c]) /\ feed[c] = block[c]
             /\ Recovering(c) /\ at[c] \notin {"returned", "resting", "raised", "backward", "finished"} =>
                  Leads(done[c], inputs[c], span[c].start, block[c]) /\ feed[c] = block[c]
             /\ at[c] \in {"returned", "resting"} =>
                  Leads(Append(spans[c], span[c]), Append(saved[c], given[c]), 0, grad[c])
             /\ at[c] \in {"between", "begun", "backward", "finished"} => Leads(spans[c], saved[c], 0, grad[c])
  <2>1. FirstPass(c) /\ VisitsRight(c)
    BY <1>1 DEF IInv, BatchRight
  <2>2. span[c] = NoSpan => Leads(done[c], inputs[c], 0, block[c]) /\ feed[c] = block[c]
    BY <2>1 DEF FirstPass
  <2>3. /\ at[c] \in {"returned", "resting"} =>
             Leads(Append(spans[c], span[c]), Append(saved[c], given[c]), 0, grad[c])
        /\ at[c] \in {"between", "begun", "backward", "finished"} => Leads(spans[c], saved[c], 0, grad[c])
    BY <2>1 DEF VisitsRight
  <2>4. ASSUME Recovering(c), at[c] \notin {"returned", "resting", "raised", "backward", "finished"}
        PROVE  Leads(done[c], inputs[c], span[c].start, block[c]) /\ feed[c] = block[c]
    <3>1. span[c] # NoSpan
      BY <2>1, <2>4 DEF FirstPass, Recovering
    <3>2. at[c] \in AtAwait \cup {"forward", "waiting", "planning", "failing", "backward"}
      BY <1>1 DEF IInv, BatchesTyped
    <3>3. InForward(c) \/ at[c] = "failing"
      BY <2>1, <2>4, <3>1, <3>2 DEF VisitsRight, InForward, AtAwait
    <3> QED
      BY <2>1, <3>1, <3>3 DEF VisitsRight
  <2> QED
    BY <2>2, <2>3, <2>4
<1> QED
  BY <1>2, <1>3 DEF StepConsistent, EveryBlockOnce

\* A training step applies every block once, in order, to the output of the block
\* before, and visits the same blocks on the way back, each with the tensor it was
\* fed: for every swarm, whatever number of batches, failures and attempts.
THEOREM StepStaysConsistent == ASSUME ManagerAssumption, AutogradAssumption PROVE Spec => []StepConsistent
<1> QED
  BY SpecInv, InvConsistent, PTL

-----------------------------------------------------------------------------
(* Generation over a session.                                              *)

CONSTANTS Big(_), Tokens, Eos, Inputs, NewTokens, MaxLength, PreSeqLen, DraftSize, MaxCalls
VARIABLES style, held, position, kept, skipped, call, reply, calls

GN == INSTANCE Generation WITH model <- style, cached <- held, output <- kept, skip <- skipped, gen <- call, last <- reply

Cells == Tokens \cup {GN!Soft}

\* The model prefers a token after any tokens, a call makes at least one, a soft prompt holds some.
GenerationAssumption ==
  /\ \A s \in Seq(Cells) : Big(s) \in Tokens
  /\ Inputs \subseteq Seq(Tokens)
  /\ NewTokens \subseteq Nat \ {0}
  /\ PreSeqLen \in Nat \ {0} /\ MaxLength \in Int /\ DraftSize \in Int

-----------------------------------------------------------------------------
\* Greedy generation: the tokens r are ids and k more, each what the model prefers after all before it, and none
\* but the last is Eos.

Greedily(sp, ids, r, k) ==
  /\ ids \in Seq(Tokens) /\ r \in Seq(Tokens) /\ k \in Nat /\ Len(r) = Len(ids) + k
  /\ SubSeq(r, 1, Len(ids)) = ids
  /\ \A i \in 1 .. k : r[Len(ids) + i] = Big(sp \o SubSeq(r, 1, Len(ids) + i - 1))
  /\ \A i \in 1 .. k - 1 : r[Len(ids) + i] # Eos

\* Nothing comes after these.
Complete(ids, r, k, n) == k = n \/ (k >= 1 /\ k <= n /\ r[Len(ids) + k] = Eos)

GreedyGraph(sp, ids, n, g) ==
  g = [k \in 0 .. n |->
         IF k = 0 THEN ids
         ELSE IF k > 1 /\ g[k - 1][Len(g[k - 1])] = Eos THEN g[k - 1]
         ELSE Append(g[k - 1], Big(sp \o g[k - 1]))]

LEMMA PartOfTokens ==
  ASSUME NEW S, NEW s \in Seq(S), NEW m \in Nat, m <= Len(s)
  PROVE  SubSeq(s, 1, m) \in Seq(S) /\ Len(SubSeq(s, 1, m)) = m /\ \A i \in 1 .. m : SubSeq(s, 1, m)[i] = s[i]
<1>1. PICK p : p = SubSeq(s, 1, m)
  OBVIOUS
<1>2. \A i \in 1 .. m : s[i] \in S
  BY ElementOfSeq
<1>3. p \in Seq(S) /\ Len(p) = (IF 1 <= m THEN m - 1 + 1 ELSE 0) /\ \A i \in 1 .. m - 1 + 1 : p[i] = s[1 + i - 1]
  BY <1>1, <1>2, SubSeqProperties
<1>4. Len(p) = m /\ \A i \in 1 .. m : p[i] = s[i]
  BY <1>3
<1> QED
  BY <1>1, <1>3, <1>4

LEMMA PartGrows ==
  ASSUME NEW S, NEW s \in Seq(S), NEW m \in Nat, m < Len(s)
  PROVE  Append(SubSeq(s, 1, m), s[m + 1]) = SubSeq(s, 1, m + 1)
<1>1. PICK p, q, x : p = SubSeq(s, 1, m) /\ q = SubSeq(s, 1, m + 1) /\ x = s[m + 1]
  OBVIOUS
<1>2. Len(s) \in Nat /\ m + 1 \in Nat /\ m <= Len(s) /\ m + 1 <= Len(s) /\ m + 1 \in 1 .. Len(s)
  BY LenProperties
<1>3. p \in Seq(S) /\ Len(p) = m /\ \A i \in 1 .. m : p[i] = s[i]
  BY <1>1, <1>2, PartOfTokens
<1>4. q \in Seq(S) /\ Len(q) = m + 1 /\ \A i \in 1 .. m + 1 : q[i] = s[i]
  BY <1>1, <1>2, PartOfTokens
<1>5. x \in S
  BY <1>1, <1>2, ElementOfSeq
<1>6. PICK t : t = Append(p, x)
  OBVIOUS
<1>7. t \in Seq(S) /\ Len(t) = m + 1 /\ (\A i \in 1 .. m : t[i] = p[i]) /\ t[m + 1] = x
  BY <1>3, <1>5, <1>6, AppendElements
<1>8. \A i \in 1 .. m + 1 : t[i] = q[i]
  <2>1. SUFFICES ASSUME NEW i \in 1 .. m + 1 PROVE t[i] = q[i]
    OBVIOUS
  <2>2. CASE i = m + 1
    BY <2>2, <1>1, <1>4, <1>7
  <2>3. CASE i # m + 1
    <3>1. i \in 1 .. m
      BY <2>3
    <3> QED
      BY <3>1, <1>3, <1>4, <1>7
  <2> QED
    BY <2>2, <2>3
<1>9. t = q
  <2>1. Len(t) = Len(q) /\ \A i \in 1 .. Len(t) : t[i] = q[i]
    BY <1>4, <1>7, <1>8
  <2> QED
    BY <2>1, <1>4, <1>7, SeqEqual
<1> QED
  BY <1>1, <1>6, <1>9

LEMMA GreedyGraphExists ==
  ASSUME NEW sp, NEW ids, NEW n \in Nat PROVE \E g : GreedyGraph(sp, ids, n, g)
<1>1. PICK bad : bad = {m \in Nat : ~\E g : GreedyGraph(sp, ids, m, g)}
  OBVIOUS
<1>2. SUFFICES ASSUME bad # {} PROVE FALSE
  BY <1>1
<1>3. PICK m \in bad : \A k \in bad : ~(k < m)
  BY <1>1, <1>2, LeastExists
<1>4. m \in Nat
  BY <1>1
<1>5. CASE m = 0
  <2>1. PICK g : g = [k \in 0 .. 0 |-> ids]
    OBVIOUS
  <2>2. GreedyGraph(sp, ids, 0, g)
    BY <2>1 DEF GreedyGraph
  <2> QED
    BY <2>2, <1>1, <1>5
<1>6. CASE m # 0
  <2>1. m - 1 \in Nat /\ m - 1 \notin bad
    BY <1>3, <1>4, <1>6
  <2>2. PICK g : GreedyGraph(sp, ids, m - 1, g)
    BY <2>1, <1>1
  <2>3. PICK v : v = IF m > 1 /\ g[m - 1][Len(g[m - 1])] = Eos THEN g[m - 1]
                     ELSE Append(g[m - 1], Big(sp \o g[m - 1]))
    OBVIOUS
  <2>4. PICK h : h = [k \in 0 .. m |-> IF k = m THEN v ELSE g[k]]
    OBVIOUS
  <2>5. ASSUME NEW k \in 0 .. m
        PROVE  h[k] = IF k = 0 THEN ids
                      ELSE IF k > 1 /\ h[k - 1][Len(h[k - 1])] = Eos THEN h[k - 1]
                      ELSE Append(h[k - 1], Big(sp \o h[k - 1]))
    <3>1. CASE k = m
      <4>1. k # 0 /\ k - 1 \in 0 .. m /\ k - 1 # m
        BY <3>1, <1>4, <1>6
      <4>2. h[k - 1] = g[m - 1] /\ h[k] = v
        BY <4>1, <2>4, <3>1
      <4> QED
        BY <3>1, <4>1, <4>2, <2>3
    <3>2. CASE k # m
      <4>1. k \in 0 .. m - 1 /\ (k # 0 => k - 1 \in 0 .. m /\ k - 1 # m)
        BY <3>2, <1>4
      <4>2. g[k] = IF k = 0 THEN ids
                   ELSE IF k > 1 /\ g[k - 1][Len(g[k - 1])] = Eos THEN g[k - 1]
                   ELSE Append(g[k - 1], Big(sp \o g[k - 1]))
        BY <4>1, <2>2 DEF GreedyGraph
      <4>3. h[k] = g[k] /\ (k # 0 => h[k - 1] = g[k - 1])
        BY <4>1, <3>2, <2>4
      <4> QED
        BY <4>2, <4>3
    <3> QED
      BY <3>1, <3>2
  <2>6. GreedyGraph(sp, ids, m, h)
    <3>1. h = [k \in 0 .. m |-> h[k]]
      BY <2>4
    <3> QED
      BY <3>1, <2>5 DEF GreedyGraph
  <2> QED
    BY <2>6, <1>1
<1> QED
  BY <1>5, <1>6

\* The reference, which stops at Eos, comes to the same tokens.
LEMMA GraphIsGreedy ==
  ASSUME NEW sp, NEW ids, NEW r, NEW k, Greedily(sp, ids, r, k), NEW n \in Nat, Complete(ids, r, k, n),
         NEW g, GreedyGraph(sp, ids, n, g)
  PROVE  g[n] = r
<1>1. PICK L \in Nat : L = Len(ids)
  BY LenProperties DEF Greedily
<1>2. /\ r \in Seq(Tokens) /\ k \in Nat /\ Len(r) = L + k /\ SubSeq(r, 1, L) = ids
      /\ \A i \in 1 .. k : r[L + i] = Big(sp \o SubSeq(r, 1, L + i - 1))
      /\ \A i \in 1 .. k - 1 : r[L + i] # Eos
  BY <1>1 DEF Greedily
<1>3. k <= n /\ (k < n => k >= 1 /\ r[L + k] = Eos)
  BY <1>1, <1>2 DEF Complete
<1>4. ASSUME NEW j \in 1 .. n
      PROVE  g[j] = IF j > 1 /\ g[j - 1][Len(g[j - 1])] = Eos THEN g[j - 1] ELSE Append(g[j - 1], Big(sp \o g[j - 1]))
  <2>1. g = [i \in 0 .. n |->
               IF i = 0 THEN ids
               ELSE IF i > 1 /\ g[i - 1][Len(g[i - 1])] = Eos THEN g[i - 1]
               ELSE Append(g[i - 1], Big(sp \o g[i - 1]))]
    BY DEF GreedyGraph
  <2>2. j \in 0 .. n /\ j # 0
    OBVIOUS
  <2> QED
    BY <2>1, <2>2
<1>5. g[0] = ids
  BY DEF GreedyGraph
<1>6. PICK till : till = [j \in 0 .. n |-> IF j <= k THEN L + j ELSE L + k]
  OBVIOUS
<1>7. PICK bad : bad = {j \in 0 .. n : g[j] # SubSeq(r, 1, till[j])}
  OBVIOUS
<1>8. ASSUME bad # {} PROVE FALSE
  <2>1. PICK j \in bad : \A i \in bad : ~(i < j)
    <3>1. bad \subseteq Nat
      BY <1>7
    <3> QED
      BY <3>1, <1>8, LeastExists
  <2>2. j \in 0 .. n /\ g[j] # SubSeq(r, 1, till[j])
    BY <1>7
  <2>3. j # 0
    <3>1. till[0] = L
      BY <1>2, <1>6
    <3> QED
      BY <3>1, <2>2, <1>2, <1>5
  <2>4. j \in 1 .. n /\ j - 1 \in 0 .. n /\ j - 1 < j
    BY <2>2, <2>3
  <2>5. g[j - 1] = SubSeq(r, 1, till[j - 1])
    BY <2>1, <2>4, <1>7
  <2>6. PICK s : s = g[j - 1]
    OBVIOUS
  <2>7. CASE j <= k
    <3>1. PICK m \in Nat : m = L + j - 1
      BY <2>4
    <3>2. till[j - 1] = m /\ till[j] = m + 1 /\ m < Len(r)
      BY <2>4, <2>7, <3>1, <1>2, <1>6
    <3>3. s = SubSeq(r, 1, m) /\ Len(s) = m /\ \A i \in 1 .. m : s[i] = r[i]
      BY <2>5, <2>6, <3>2, <1>2, PartOfTokens
    <3>4. ~(j > 1 /\ s[Len(s)] = Eos)
      <4>1. SUFFICES ASSUME j > 1 PROVE s[m] # Eos
        BY <3>3
      <4>2. j - 1 \in 1 .. k - 1 /\ m \in 1 .. m /\ L + (j - 1) = m
        BY <4>1, <2>4, <2>7, <3>1, <1>2
      <4> QED
        BY <4>2, <3>3, <1>2
    <3>5. g[j] = Append(s, Big(sp \o s))
      BY <2>4, <2>6, <3>4, <1>4
    <3>6. r[m + 1] = Big(sp \o s)
      <4>1. j \in 1 .. k /\ L + j = m + 1 /\ L + j - 1 = m
        BY <2>4, <2>7, <3>1
      <4> QED
        BY <4>1, <3>3, <1>2
    <3>7. g[j] = SubSeq(r, 1, m + 1)
      BY <3>2, <3>3, <3>5, <3>6, <1>2, PartGrows
    <3> QED
      BY <2>2, <3>2, <3>7
  <2>8. CASE ~(j <= k)
    <3>1. k < n /\ k >= 1 /\ r[L + k] = Eos /\ j > 1
      BY <2>4, <2>8, <1>2, <1>3
    <3>2. till[j - 1] = L + k /\ till[j] = L + k
      BY <2>4, <2>8, <1>2, <1>6
    <3>3. s = r
      <4>1. SubSeq(r, 1, Len(r)) = r
        BY <1>2, SubSeqFull
      <4> QED
        BY <4>1, <2>5, <2>6, <3>2, <1>2
    <3>4. g[j] = r
      <4>1. s[Len(s)] = Eos
        BY <3>1, <3>3, <1>2
      <4> QED
        BY <4>1, <2>4, <2>6, <3>1, <3>3, <1>4
    <3> QED
      BY <2>2, <2>5, <2>6, <3>2, <3>3, <3>4
  <2> QED
    BY <2>7, <2>8
<1>9. g[n] = SubSeq(r, 1, till[n])
  <2>1. n \in 0 .. n /\ n \notin bad
    BY <1>8
  <2> QED
    BY <2>1, <1>7
<1>10. till[n] = L + k
  BY <1>2, <1>3, <1>6
<1>11. SubSeq(r, 1, Len(r)) = r
  BY <1>2, SubSeqFull
<1> QED
  BY <1>2, <1>9, <1>10, <1>11

-----------------------------------------------------------------------------
\* What generates on generates greedily.

LEMMA TypedConcat ==
  ASSUME NEW S, NEW s \in Seq(S), NEW t \in Seq(S)
  PROVE  /\ s \o t \in Seq(S) /\ Len(s \o t) = Len(s) + Len(t) /\ Len(s) \in Nat /\ Len(t) \in Nat
         /\ \A i \in 1 .. Len(s) : (s \o t)[i] = s[i]
         /\ \A i \in 1 .. Len(t) : (s \o t)[Len(s) + i] = t[i]
<1>1. PICK c, m, n : c = s \o t /\ m = Len(s) /\ n = Len(t)
  OBVIOUS
<1>2. m \in Nat /\ n \in Nat
  BY <1>1, LenProperties
<1>3. c \in Seq(S) /\ Len(c) = m + n /\ \A i \in 1 .. m + n : c[i] = IF i <= m THEN s[i] ELSE t[i - m]
  BY <1>1, ConcatProperties
<1>4. ASSUME NEW i \in 1 .. m PROVE c[i] = s[i]
  <2>1. i \in 1 .. m + n /\ i <= m
    BY <1>2
  <2> QED
    BY <2>1, <1>3
<1>5. ASSUME NEW i \in 1 .. n PROVE c[m + i] = t[i]
  <2>1. PICK j : j = m + i
    OBVIOUS
  <2>2. j \in 1 .. m + n /\ ~(j <= m) /\ j - m = i
    BY <2>1, <1>2
  <2>3. c[j] = t[i]
    BY <2>2, <1>3
  <2> QED
    BY <2>1, <2>3
<1> QED
  BY <1>1, <1>2, <1>3, <1>4, <1>5

\* The part of a longer sequence, within the shorter.
LEMMA PartOfConcat ==
  ASSUME NEW S, NEW s \in Seq(S), NEW t \in Seq(S), NEW m \in Nat, m <= Len(s)
  PROVE  SubSeq(s \o t, 1, m) = SubSeq(s, 1, m)
<1>1. PICK c, p, q : c = s \o t /\ p = SubSeq(c, 1, m) /\ q = SubSeq(s, 1, m)
  OBVIOUS
<1>2. /\ c \in Seq(S) /\ Len(c) = Len(s) + Len(t) /\ Len(s) \in Nat /\ Len(t) \in Nat
      /\ \A i \in 1 .. Len(s) : c[i] = s[i]
  BY <1>1, TypedConcat
<1>3. m <= Len(c)
  BY <1>2
<1>4. p \in Seq(S) /\ Len(p) = m /\ \A i \in 1 .. m : p[i] = c[i]
  BY <1>1, <1>2, <1>3, PartOfTokens
<1>5. q \in Seq(S) /\ Len(q) = m /\ \A i \in 1 .. m : q[i] = s[i]
  BY <1>1, PartOfTokens
<1>6. \A i \in 1 .. m : p[i] = q[i]
  <2>1. SUFFICES ASSUME NEW i \in 1 .. m PROVE p[i] = q[i]
    OBVIOUS
  <2>2. i \in 1 .. Len(s)
    BY <1>2
  <2> QED
    BY <2>2, <1>2, <1>4, <1>5
<1> QED
  <2>1. Len(p) = Len(q) /\ \A i \in 1 .. Len(p) : p[i] = q[i]
    BY <1>4, <1>5, <1>6
  <2> QED
    BY <2>1, <1>1, <1>4, <1>5, SeqEqual

LEMMA GreedyStarts ==
  ASSUME NEW sp, NEW ids \in Seq(Tokens) PROVE Greedily(sp, ids, ids, 0)
<1>1. SubSeq(ids, 1, Len(ids)) = ids
  BY SubSeqFull
<1> QED
  BY <1>1, LenProperties DEF Greedily

LEMMA GreedyGoesOn ==
  ASSUME NEW sp, NEW ids, NEW r, NEW k, Greedily(sp, ids, r, k), k = 0 \/ r[Len(r)] # Eos,
         NEW more \in Seq(Tokens),
         \A i \in 1 .. Len(more) : more[i] = Big(sp \o SubSeq(r \o more, 1, Len(r) + i - 1)),
         \A i \in 1 .. Len(more) - 1 : more[i] # Eos
  PROVE  Greedily(sp, ids, r \o more, k + Len(more))
<1>1. PICK L \in Nat, m \in Nat, R \in Nat : L = Len(ids) /\ m = Len(more) /\ R = Len(r)
  BY LenProperties DEF Greedily
<1>2. /\ ids \in Seq(Tokens) /\ r \in Seq(Tokens) /\ k \in Nat /\ R = L + k /\ SubSeq(r, 1, L) = ids
      /\ \A i \in 1 .. k : r[L + i] = Big(sp \o SubSeq(r, 1, L + i - 1))
      /\ \A i \in 1 .. k - 1 : r[L + i] # Eos
  BY <1>1 DEF Greedily
<1>3. PICK t : t = r \o more
  OBVIOUS
<1>4. /\ t \in Seq(Tokens) /\ Len(t) = R + m
      /\ \A i \in 1 .. R : t[i] = r[i]
      /\ \A i \in 1 .. m : t[R + i] = more[i]
  <2>1. /\ r \o more \in Seq(Tokens) /\ Len(r \o more) = Len(r) + Len(more)
        /\ \A i \in 1 .. Len(r) : (r \o more)[i] = r[i]
        /\ \A i \in 1 .. Len(more) : (r \o more)[Len(r) + i] = more[i]
    BY <1>2, TypedConcat
  <2> QED
    BY <2>1, <1>1, <1>3
<1>5. \A j \in 0 .. R : SubSeq(t, 1, j) = SubSeq(r, 1, j)
  <2>1. SUFFICES ASSUME NEW j \in 0 .. R PROVE SubSeq(t, 1, j) = SubSeq(r, 1, j)
    OBVIOUS
  <2>2. j \in Nat /\ j <= Len(r)
    BY <1>1
  <2> QED
    BY <2>2, <1>2, <1>3, PartOfConcat
<1>6. SubSeq(t, 1, L) = ids
  <2>1. L \in 0 .. R
    BY <1>2
  <2> QED
    BY <2>1, <1>2, <1>5
<1>7. ASSUME NEW i \in 1 .. k + m PROVE t[L + i] = Big(sp \o SubSeq(t, 1, L + i - 1))
  <2>1. CASE i <= k
    <3>1. i \in 1 .. k /\ L + i \in 1 .. R /\ L + i - 1 \in 0 .. R
      BY <2>1, <1>2
    <3> QED
      BY <3>1, <1>2, <1>4, <1>5
  <2>2. CASE ~(i <= k)
    <3>1. PICK j \in 1 .. m : j = i - k
      BY <2>2, <1>2
    <3>2. L + i = R + j /\ L + i - 1 = R + j - 1
      BY <3>1, <1>2
    <3>3. more[j] = Big(sp \o SubSeq(t, 1, R + j - 1))
      BY <1>1, <1>3
    <3> QED
      BY <3>2, <3>3, <1>4
  <2> QED
    BY <2>1, <2>2
<1>8. ASSUME NEW i \in 1 .. k + m - 1 PROVE t[L + i] # Eos
  <2>1. CASE i < k
    <3>1. i \in 1 .. k - 1 /\ L + i \in 1 .. R
      BY <2>1, <1>2
    <3> QED
      BY <3>1, <1>2, <1>4
  <2>2. CASE i = k
    <3>1. k # 0 /\ L + i = R /\ R \in 1 .. R
      BY <2>2, <1>2
    <3> QED
      BY <3>1, <1>1, <1>4
  <2>3. CASE i > k
    <3>1. PICK j \in 1 .. m - 1 : j = i - k
      BY <2>3, <1>2
    <3>2. L + i = R + j /\ j \in 1 .. m
      BY <3>1, <1>2
    <3>3. more[j] # Eos
      BY <1>1
    <3> QED
      BY <3>2, <3>3, <1>4
  <2> QED
    BY <2>1, <2>2, <2>3, <1>2
<1>9. Len(t) = L + (k + m) /\ k + m \in Nat
  BY <1>2, <1>4
<1>10. Greedily(sp, ids, t, k + m)
  BY <1>1, <1>2, <1>4, <1>6, <1>7, <1>8, <1>9, SMTT(30) DEF Greedily
<1> QED
  BY <1>1, <1>3, <1>10

-----------------------------------------------------------------------------
\* The state of a session.

Prompted(m) == IF m.tuned THEN [i \in 1 .. PreSeqLen |-> GN!Soft] ELSE <<>>

StyleRight(m) ==
  m.mode \in {"plain", "speculative"} /\ m.tuned \in BOOLEAN /\ (m.mode = "speculative" => m.tuned = FALSE)

But1(ids) == SubSeq(ids, 1, Len(ids) - 1)

\* The caches hold the soft prompt and all of these tokens but the last; after a speculative step more may follow.
Behind(m, c, ids) ==
  IF m.mode = "plain" THEN c = Prompted(m) \o But1(ids)
  ELSE Len(ids) - 1 <= Len(c) /\ SubSeq(c, 1, Len(ids) - 1) = But1(ids)

\* What a call answers greedily: in speculative generation the first of a session, if its prompt holds no Eos.
InScope(m, out, new) == m.mode = "speculative" => out = <<>> /\ \A i \in 1 .. Len(new) : new[i] # Eos

\* Between two calls.
SessionRight(m, c, out) ==
  IF out = <<>> THEN c = <<>> ELSE m.mode = "plain" => Len(out) >= 2 /\ Behind(m, c, out)

GoesOn(g, k) == k < g.n /\ g.ids[Len(g.ids)] # Eos
Enough(m, out, g, k) == Complete(out \o g.new, g.ids, k, g.n) \/ (m.mode = "speculative" /\ k > g.n)

\* The first step of a call is to run what the session has not seen, and every later one the last token at least.
FirstRight(m, c, out, sk, g) ==
  /\ g.phase = "running" /\ g.ids = out \o g.new
  /\ SessionRight(m, c, out)
  /\ out # <<>> => sk = Len(out) - 1

\* With a soft prompt the first step of a call that resumes a session has raised.
LaterRight(m, c, out, g) ==
  /\ Len(g.ids) >= 2 /\ Behind(m, c, g.ids)
  /\ m.tuned => out = <<>>
  /\ \E k \in Nat \ {0} :
       /\ Greedily(Prompted(m), out \o g.new, g.ids, k)
       /\ IF g.phase = "running" THEN GoesOn(g, k) ELSE Enough(m, out, g, k)

Calls == [phase : {"running", "stopped"}, ids : Seq(Tokens), new : Seq(Tokens), n : Nat, first : BOOLEAN, size : Int]

GoOn(s) == \A i \in 1 .. Len(s) : s[i] # Eos

ScopeRight(m, c, out, sk, g) ==
  /\ m.mode = "speculative" /\ g.phase = "running" => GoOn(g.ids)
  /\ IF g.first THEN FirstRight(m, c, out, sk, g) ELSE LaterRight(m, c, out, g)

CallRight(m, c, out, sk, g) ==
  /\ g \in Calls /\ g.n # 0 /\ g.ids # <<>> /\ (g.first => g.phase = "running")
  /\ InScope(m, out, g.new) => ScopeRight(m, c, out, sk, g)

InCall(g) == g.phase \in {"running", "stopped"}

AnswerIs(m, a) ==
  \E r, k : /\ Greedily(Prompted(m), a.from \o a.new, r, k)
            /\ Complete(a.from \o a.new, r, k, a.n) \/ (m.mode = "speculative" /\ k > a.n)
            /\ a.got = SubSeq(r, Len(a.from) + 1, Len(r))

AnswerRight(m, a) ==
  /\ a.from \in Seq(Tokens) /\ a.new \in Seq(Tokens) /\ a.n \in Nat
  /\ InScope(m, a.from, a.new) => AnswerIs(m, a)
  /\ m.tuned => a.from = <<>>

GenerationRight ==
  /\ StyleRight(style)
  /\ held \in Seq(Cells) /\ position = Len(held) /\ kept \in Seq(Tokens) /\ skipped \in Nat
  /\ call.phase \in {"idle", "running", "stopped", "closed"}
  /\ call.phase = "idle" => SessionRight(style, held, kept)
  /\ InCall(call) => CallRight(style, held, kept, skipped, call)
  /\ AnswerRight(style, reply)

LEMMA PromptTyped ==
  ASSUME GenerationAssumption, NEW m
  PROVE  /\ Prompted(m) \in Seq(Cells)
         /\ m.tuned => Len(Prompted(m)) = PreSeqLen
         /\ ~m.tuned => Prompted(m) = <<>>
<1>1. CASE m.tuned
  <2>1. PICK p : p = [i \in 1 .. PreSeqLen |-> GN!Soft]
    OBVIOUS
  <2>2. p \in [1 .. PreSeqLen -> Cells] /\ PreSeqLen \in Nat
    BY <2>1 DEF Cells, GenerationAssumption
  <2>3. p \in Seq(Cells) /\ Len(p) = PreSeqLen
    BY <2>2
  <2> QED
    BY <1>1, <2>1, <2>3 DEF Prompted
<1>2. CASE ~m.tuned
  BY <1>2, EmptySeq DEF Prompted
<1> QED
  BY <1>1, <1>2

LEMMA TokensAreCells == ASSUME NEW s \in Seq(Tokens) PROVE s \in Seq(Cells)
<1>1. Tokens \subseteq Cells
  BY DEF Cells
<1> QED
  BY <1>1, SeqMonotonic

LEMMA EmbeddedFirst ==
  ASSUME NEW x \in Seq(Tokens) PROVE GN!Embedded(0, x) = Prompted(style) \o x
<1>1. <<>> \o x = x
  BY ConcatEmptySeq
<1> QED
  BY <1>1 DEF GN!Embedded, Prompted

LEMMA EmbeddedLater ==
  ASSUME NEW start, start # 0 \/ ~style.tuned, NEW x PROVE GN!Embedded(start, x) = x
BY DEF GN!Embedded

-----------------------------------------------------------------------------
\* Between calls.

LEMMA GenerationStarts == ASSUME GenerationAssumption, GN!InitGeneration PROVE GenerationRight
<1>1. StyleRight(style)
  <2>1. \/ \E t \in BOOLEAN : style = [mode |-> "plain", tuned |-> t]
        \/ style = [mode |-> "speculative", tuned |-> FALSE]
    BY DEF GN!InitGeneration
  <2>2. CASE \E t \in BOOLEAN : style = [mode |-> "plain", tuned |-> t]
    <3>1. PICK t \in BOOLEAN : style = [mode |-> "plain", tuned |-> t]
      BY <2>2
    <3> QED
      BY <3>1 DEF StyleRight
  <2>3. CASE style = [mode |-> "speculative", tuned |-> FALSE]
    BY <2>3 DEF StyleRight
  <2> QED
    BY <2>1, <2>2, <2>3
<1>2. /\ held = <<>> /\ position = 0 /\ kept = <<>> /\ skipped = 0
      /\ call.phase = "idle"
  BY DEF GN!InitGeneration, GN!NoCall
<1>3. reply.from = <<>> /\ reply.n = 0 /\ reply.new = <<>> /\ reply.got = <<>>
  BY DEF GN!InitGeneration, GN!NoAnswer
<1>4. AnswerRight(style, reply)
  <2>1. PICK e : e = <<>>
    OBVIOUS
  <2>2. e \in Seq(Tokens) /\ Len(e) = 0 /\ e \o e = e /\ SubSeq(e, 1, 0) = e
    BY <2>1, EmptySeq, ConcatEmptySeq
  <2>3. Greedily(Prompted(style), e, e, 0)
    BY <2>2, GreedyStarts
  <2>4. Complete(e, e, 0, 0)
    BY DEF Complete
  <2>5. reply.from \o reply.new = e /\ reply.got = SubSeq(e, Len(reply.from) + 1, Len(e))
    BY <2>1, <2>2, <1>3
  <2> QED
    BY <2>1, <2>2, <2>3, <2>4, <2>5, <1>3 DEF AnswerRight, AnswerIs
<1>5. held \in Seq(Cells) /\ position = Len(held) /\ kept \in Seq(Tokens) /\ skipped \in Nat
  BY <1>2, EmptySeq
<1>6. SessionRight(style, held, kept) /\ ~InCall(call)
  BY <1>2 DEF SessionRight, InCall
<1> QED
  BY <1>1, <1>2, <1>4, <1>5, <1>6 DEF GenerationRight

LEMMA MaxOfLength == ASSUME NEW n \in Nat PROVE GN!Max({0, n}) = n
<1>1. PICK S : S = {0, n}
  OBVIOUS
<1>2. S \subseteq 0 .. n /\ S # {} /\ n \in S
  BY <1>1
<1>3. Max(S) \in S /\ \A y \in S : Max(S) >= y
  BY <1>2, MaxRight
<1>4. PICK m : m = Max(S)
  OBVIOUS
<1>5. m \in 0 .. n /\ m >= n
  BY <1>2, <1>3, <1>4
<1>6. GN!Max(S) = m
  BY <1>4 DEF GN!Max, Max
<1> QED
  BY <1>1, <1>5, <1>6

LEMMA GenerateKeeps ==
  ASSUME GenerationAssumption, GenerationRight, NEW new \in Inputs \cup {<<>>}, NEW n \in NewTokens, GN!Generate(new, n)
  PROVE  GenerationRight'
<1>1. PICK ids : ids = kept \o new
  OBVIOUS
<1>2. new \in Seq(Tokens) /\ n \in Nat /\ n # 0 /\ DraftSize \in Int
  <2>1. NewTokens \subseteq Nat \ {0} /\ DraftSize \in Int /\ Inputs \subseteq Seq(Tokens)
    BY DEF GenerationAssumption
  <2>2. CASE new \in Inputs
    BY <2>1, <2>2
  <2>3. CASE new = <<>>
    BY <2>1, <2>3, EmptySeq
  <2> QED
    BY <2>2, <2>3
<1>3. kept \in Seq(Tokens) /\ ids \in Seq(Tokens)
  BY <1>1, <1>2, ConcatProperties DEF GenerationRight
<1>4. /\ call.phase = "idle" /\ ids # <<>>
      /\ call' = [phase |-> "running", ids |-> ids, new |-> new, n |-> n, first |-> TRUE, size |-> DraftSize]
      /\ skipped' = IF kept # <<>> THEN GN!Max({0, Len(kept) - 1}) ELSE skipped
      /\ style' = style /\ held' = held /\ position' = position /\ kept' = kept /\ reply' = reply
  BY <1>1 DEF GN!Generate
<1>5. SessionRight(style, held, kept)
  BY <1>4 DEF GenerationRight
<1>6. skipped' \in Nat /\ (kept # <<>> => skipped' = Len(kept) - 1)
  <2>1. CASE kept = <<>>
    BY <2>1, <1>4 DEF GenerationRight
  <2>2. CASE kept # <<>>
    <3>1. Len(kept) \in Nat /\ Len(kept) >= 1
      BY <2>2, <1>3, LenProperties, EmptySeq
    <3>2. PICK l \in Nat : l = Len(kept) - 1
      BY <3>1
    <3>3. GN!Max({0, l}) = l
      BY MaxOfLength
    <3> QED
      BY <2>2, <3>2, <3>3, <1>4
  <2> QED
    BY <2>1, <2>2
<1>7. PICK g : g = call'
  OBVIOUS
<1>8. /\ g.phase = "running" /\ g.ids = ids /\ g.new = new /\ g.n = n /\ g.first = TRUE /\ g.size = DraftSize
  BY <1>4, <1>7
<1>9. FirstRight(style, held, kept, skipped', g)
  BY <1>1, <1>4, <1>5, <1>6, <1>8 DEF FirstRight
<1>10. InScope(style, kept, new) => (style.mode = "speculative" => GoOn(ids))
  <2>1. SUFFICES ASSUME kept = <<>>, \A i \in 1 .. Len(new) : new[i] # Eos PROVE GoOn(ids)
    BY DEF InScope
  <2>2. ids = new
    BY <2>1, <1>1, <1>2, ConcatEmptySeq
  <2> QED
    BY <2>1, <2>2 DEF GoOn
<1>13. g \in Calls
  BY <1>2, <1>3, <1>4, <1>7 DEF Calls
<1>14. InScope(style, kept, g.new) => ScopeRight(style, held, kept, skipped', g)
  BY <1>8, <1>9, <1>10 DEF ScopeRight
<1>11. CallRight(style, held, kept, skipped', g)
  BY <1>2, <1>4, <1>8, <1>13, <1>14 DEF CallRight
<1>12. CallRight(style', held', kept', skipped', call') /\ call'.phase = "running"
  BY <1>4, <1>7, <1>8, <1>11
<1> QED
  BY <1>4, <1>6, <1>12 DEF GenerationRight

LEMMA ReturnKeeps == ASSUME GenerationAssumption, GenerationRight, GN!Return PROVE GenerationRight'
<1>1. PICK g : g = call
  OBVIOUS
<1>2. /\ g.phase = "stopped" /\ kept' = g.ids /\ call' = GN!NoCall
      /\ reply' = [from |-> kept, n |-> g.n, new |-> g.new, got |-> SubSeq(g.ids, Len(kept) + 1, Len(g.ids))]
      /\ style' = style /\ held' = held /\ position' = position /\ skipped' = skipped
  BY <1>1 DEF GN!Return, GN!But
<1>3. CallRight(style, held, kept, skipped, g) /\ kept \in Seq(Tokens) /\ StyleRight(style)
  BY <1>1, <1>2 DEF GenerationRight, InCall
<1>4. g.ids \in Seq(Tokens) /\ g.new \in Seq(Tokens) /\ g.n \in Nat /\ g.ids # <<>> /\ ~g.first
  BY <1>2, <1>3 DEF CallRight, Calls
<1>5. PICK a : a = reply'
  OBVIOUS
<1>6. a.from = kept /\ a.n = g.n /\ a.new = g.new /\ a.got = SubSeq(g.ids, Len(kept) + 1, Len(g.ids))
  BY <1>2, <1>5
<1>7. InScope(style, kept, g.new) => LaterRight(style, held, kept, g)
  BY <1>3, <1>4 DEF CallRight, ScopeRight
<1>8. ASSUME LaterRight(style, held, kept, g) PROVE AnswerIs(style, a)
  <2>1. PICK k \in Nat \ {0} : Greedily(Prompted(style), kept \o g.new, g.ids, k) /\ Enough(style, kept, g, k)
    BY <1>2, <1>8 DEF LaterRight
  <2> QED
    BY <2>1, <1>6 DEF AnswerIs, Enough
<1>9. style.mode = "plain" => InScope(style, kept, g.new) /\ LaterRight(style, held, kept, g)
  BY <1>7 DEF InScope
<1>10. AnswerRight(style, a)
  <2>1. style.tuned => style.mode = "plain"
    BY <1>3 DEF StyleRight
  <2>2. style.tuned => kept = <<>>
    BY <2>1, <1>9 DEF LaterRight
  <2> QED
    BY <2>2, <1>3, <1>4, <1>6, <1>7, <1>8 DEF AnswerRight
<1>11. SessionRight(style, held, g.ids)
  BY <1>4, <1>9 DEF LaterRight, SessionRight
<1>12. call'.phase = "idle" /\ ~InCall(call')
  BY <1>2 DEF GN!NoCall, InCall
<1> QED
  BY <1>2, <1>4, <1>5, <1>10, <1>11, <1>12 DEF GenerationRight

LEMMA RaiseKeeps == ASSUME GenerationRight, GN!Raise PROVE GenerationRight'
<1>1. call'.phase = "closed" /\ ~InCall(call')
  BY DEF GN!Raise, GN!NoCall, InCall
<1> QED
  BY <1>1 DEF GenerationRight, GN!Raise

LEMMA NewSessionKeeps == ASSUME GenerationRight, GN!NewSession PROVE GenerationRight'
<1>1. call'.phase = "idle" /\ ~InCall(call')
  BY DEF GN!NewSession, GN!NoCall, InCall
<1>2. held' = <<>> /\ position' = 0 /\ kept' = <<>>
      /\ style' = style /\ skipped' = skipped /\ reply' = reply
  BY DEF GN!NewSession
<1>3. SessionRight(style, <<>>, <<>>)
  BY DEF SessionRight
<1>4. <<>> \in Seq(Cells) /\ <<>> \in Seq(Tokens) /\ Len(<<>>) = 0
  BY EmptySeq
<1> QED
  BY <1>1, <1>2, <1>3, <1>4 DEF GenerationRight

-----------------------------------------------------------------------------
\* A step of plain generation.

LEMMA RestOfTokens ==
  ASSUME NEW S, NEW s \in Seq(S), NEW m \in Nat
  PROVE  /\ SubSeq(s, m + 1, Len(s)) \in Seq(S)
         /\ Len(SubSeq(s, m + 1, Len(s))) = IF m <= Len(s) THEN Len(s) - m ELSE 0
         /\ \A i \in 1 .. Len(s) - m : SubSeq(s, m + 1, Len(s))[i] = s[m + i]
<1>1. PICK n \in Nat : n = Len(s)
  BY LenProperties
<1>2. PICK a \in Int : a = m + 1
  OBVIOUS
<1>3. \A i \in a .. n : s[i] \in S
  <2>1. SUFFICES ASSUME NEW i \in a .. n PROVE s[i] \in S
    OBVIOUS
  <2>2. i \in 1 .. Len(s)
    BY <1>1, <1>2
  <2> QED
    BY <2>2, ElementOfSeq
<1>4. PICK p : p = SubSeq(s, a, n)
  OBVIOUS
<1>5. p \in Seq(S) /\ Len(p) = (IF a <= n THEN n - a + 1 ELSE 0) /\ \A i \in 1 .. n - a + 1 : p[i] = s[a + i - 1]
  BY <1>1, <1>3, <1>4, SubSeqProperties
<1>6. Len(p) = IF m <= n THEN n - m ELSE 0
  BY <1>1, <1>2, <1>5
<1>7. ASSUME NEW i \in 1 .. n - m PROVE p[i] = s[m + i]
  <2>1. i \in 1 .. n - a + 1 /\ a + i - 1 = m + i
    BY <1>1, <1>2
  <2> QED
    BY <2>1, <1>5
<1> QED
  BY <1>1, <1>2, <1>4, <1>5, <1>6, <1>7

\* A used session goes on where it stopped: without a soft prompt only, or transformers raises.
LEMMA FirstInputIs ==
  ASSUME NEW ids \in Seq(Tokens), NEW sk \in Nat, NEW seen \in Nat, GN!FirstInput(ids, sk, seen).ok, ids # <<>>,
         sk < Len(ids) \/ seen = 0, sk # 0 \/ seen = 0
  PROVE  GN!FirstInput(ids, sk, seen).x = SubSeq(ids, seen + 1, Len(ids)) /\ (sk = seen \/ seen = 0)
<1>1. PICK n \in Nat : n = Len(ids)
  BY LenProperties
<1>2. n # 0
  BY <1>1, EmptySeq
<1>3. PICK c, rest : c = SubSeq(ids, sk + 1, Len(ids)) /\ rest = SubSeq(ids, seen + 1, Len(ids))
  OBVIOUS
<1>4. Len(c) = IF sk <= n THEN n - sk ELSE 0
  BY <1>1, <1>3, RestOfTokens
<1>8. PICK f : f = GN!FirstInput(ids, sk, seen)
  OBVIOUS
<1>5. f = IF Len(c) = n - seen THEN [ok |-> TRUE, x |-> c] ELSE [ok |-> seen < n /\ sk = 0, x |-> rest]
  BY <1>1, <1>3, <1>8 DEF GN!FirstInput, GN!But
<1>6. CASE Len(c) = n - seen
  <2>1. sk = seen
    BY <1>1, <1>2, <1>4, <1>6
  <2>2. f.x = c
    BY <1>5, <1>6
  <2> QED
    BY <2>1, <2>2, <1>3, <1>8
<1>7. CASE Len(c) # n - seen
  <2>1. f = [ok |-> seen < n /\ sk = 0, x |-> rest]
    BY <1>5, <1>7
  <2>2. f.ok = (seen < n /\ sk = 0) /\ f.x = rest
    BY <2>1
  <2>3. sk = 0
    BY <2>2, <1>8
  <2> QED
    BY <2>2, <2>3, <1>3, <1>8
<1> QED
  BY <1>6, <1>7

LEMMA But1Typed ==
  ASSUME NEW ids \in Seq(Tokens), ids # <<>>
  PROVE  /\ But1(ids) \in Seq(Tokens) /\ Len(ids) \in Nat /\ Len(ids) >= 1 /\ Len(But1(ids)) = Len(ids) - 1
         /\ \A i \in 1 .. Len(ids) - 1 : But1(ids)[i] = ids[i]
<1>1. PICK n : n = Len(ids)
  OBVIOUS
<1>2. n \in Nat /\ n >= 1
  BY <1>1, LenProperties, EmptySeq
<1>3. PICK m \in Nat : m = n - 1
  BY <1>2
<1>4. m <= Len(ids) /\ m = Len(ids) - 1
  BY <1>1, <1>2, <1>3
<1>5. SubSeq(ids, 1, m) \in Seq(Tokens) /\ Len(SubSeq(ids, 1, m)) = m /\ \A i \in 1 .. m : SubSeq(ids, 1, m)[i] = ids[i]
  BY <1>4, PartOfTokens
<1> QED
  BY <1>1, <1>2, <1>4, <1>5 DEF But1

\* All tokens but the last, and the last.
LEMMA But1Last ==
  ASSUME NEW ids \in Seq(Tokens), ids # <<>> PROVE But1(ids) \o <<ids[Len(ids)]>> = ids
<1>1. PICK n \in Nat : n = Len(ids) - 1
  BY But1Typed
<1>2. Len(ids) = n + 1 /\ n < Len(ids) /\ Len(ids) \in 1 .. Len(ids)
  BY <1>1, But1Typed
<1>3. Append(SubSeq(ids, 1, n), ids[n + 1]) = SubSeq(ids, 1, n + 1)
  BY <1>2, PartGrows
<1>4. SubSeq(ids, 1, Len(ids)) = ids
  BY SubSeqFull
<1>5. ids[Len(ids)] \in Tokens /\ But1(ids) \in Seq(Tokens)
  BY <1>2, ElementOfSeq, But1Typed
<1>6. Append(But1(ids), ids[Len(ids)]) = But1(ids) \o <<ids[Len(ids)]>>
  BY <1>5, AppendIsConcat
<1> QED
  BY <1>1, <1>2, <1>3, <1>4, <1>6 DEF But1

LEMMA But1Append ==
  ASSUME NEW ids \in Seq(Tokens), NEW t \in Tokens
  PROVE  But1(Append(ids, t)) = ids
<1>1. PICK q, n : q = Append(ids, t) /\ n = Len(ids)
  OBVIOUS
<1>2. q \in Seq(Tokens) /\ n \in Nat /\ Len(q) = n + 1 /\ (\A i \in 1 .. n : q[i] = ids[i]) /\ q # <<>>
  BY <1>1, AppendElements
<1>6. Len(q) - 1 = n
  BY <1>2
<1>3. But1(q) \in Seq(Tokens) /\ Len(But1(q)) = n /\ \A i \in 1 .. n : But1(q)[i] = q[i]
  BY <1>2, <1>6, But1Typed
<1>4. PICK b : b = But1(q)
  OBVIOUS
<1>5. Len(b) = Len(ids) /\ \A i \in 1 .. Len(b) : b[i] = ids[i]
  BY <1>1, <1>2, <1>3, <1>4
<1> QED
  BY <1>1, <1>3, <1>4, <1>5, SeqEqual

\* The tokens of a used session, and the new ones behind the last of it.
LEMMA RestAfterBut1 ==
  ASSUME NEW out \in Seq(Tokens), NEW new \in Seq(Tokens), out # <<>>, NEW n \in Nat, n = Len(out) - 1
  PROVE  But1(out) \o SubSeq(out \o new, n + 1, Len(out \o new)) = out \o new
<1>1. PICK ids, k : ids = out \o new /\ k = Len(ids)
  OBVIOUS
<1>2. ids \in Seq(Tokens) /\ k = Len(out) + Len(new) /\ Len(out) \in Nat /\ Len(new) \in Nat
  BY <1>1, TypedConcat
<1>3. Len(out) = n + 1
  BY <1>2
<1>4. SubSeq(ids, 1, n) = But1(out)
  <2>1. n <= Len(out)
    BY <1>3
  <2> QED
    BY <2>1, <1>1, PartOfConcat DEF But1
<1>5. PICK a, b, c : a = 1 /\ b = n /\ c = k
  OBVIOUS
<1>6. a \in 1 .. Len(ids) + 1 /\ b \in a - 1 .. Len(ids) /\ c \in b .. Len(ids)
  BY <1>1, <1>2, <1>3, <1>5
<1>7. SubSeq(ids, a, b) \o SubSeq(ids, b + 1, c) = SubSeq(ids, a, c)
  BY <1>2, <1>6, ConcatAdjacentSubSeq
<1>8. SubSeq(ids, 1, Len(ids)) = ids
  BY <1>2, SubSeqFull
<1> QED
  BY <1>1, <1>4, <1>5, <1>7, <1>8

LEMMA CellsConcat ==
  ASSUME GenerationAssumption, NEW m, NEW s \in Seq(Tokens)
  PROVE  Prompted(m) \in Seq(Cells) /\ s \in Seq(Cells) /\ Prompted(m) \o s \in Seq(Cells)
         /\ Len(Prompted(m) \o s) = Len(Prompted(m)) + Len(s) /\ Len(Prompted(m)) \in Nat /\ Len(s) \in Nat
<1>1. Prompted(m) \in Seq(Cells) /\ s \in Seq(Cells)
  BY PromptTyped, TokensAreCells
<1> QED
  BY <1>1, TypedConcat

\* Where the cache ends the new positions go.
LEMMA CachedAtEnd ==
  ASSUME held \in Seq(Cells), position = Len(held), NEW x
  PROVE  GN!CachedAfter(position, x) = held \o GN!Embedded(position, x)
<1>1. SubSeq(held, 1, Len(held)) = held
  BY SubSeqFull
<1> QED
  BY <1>1 DEF GN!CachedAfter

LEMMA RunsFirst ==
  ASSUME GenerationAssumption, held \in Seq(Cells), position = Len(held), held = <<>>, NEW ids \in Seq(Tokens)
  PROVE  GN!CachedAfter(position, ids) = Prompted(style) \o ids
<1>1. position = 0
  BY EmptySeq
<1>2. GN!Embedded(position, ids) = Prompted(style) \o ids
  BY <1>1, EmbeddedFirst
<1>3. <<>> \o (Prompted(style) \o ids) = Prompted(style) \o ids
  BY CellsConcat, ConcatEmptySeq
<1> QED
  BY <1>2, <1>3, CachedAtEnd

LEMMA UsedPlace ==
  ASSUME NEW a \in Nat, NEW b \in Nat, NEW c \in Nat, a >= 2, NEW sk, sk = a - 1, NEW d, d = a + b, NEW q, q = c + sk
  PROVE  q \in Nat /\ q # 0 /\ sk # 0 /\ sk < d
OBVIOUS

LEMMA RunsUsed ==
  ASSUME GenerationAssumption, held \in Seq(Cells), position = Len(held),
         NEW out \in Seq(Tokens), NEW new \in Seq(Tokens), Len(out) >= 2, held = Prompted(style) \o But1(out),
         NEW sk \in Nat, sk = Len(out) - 1, GN!FirstInput(out \o new, sk, position).ok
  PROVE  /\ GN!CachedAfter(position, GN!FirstInput(out \o new, sk, position).x) = Prompted(style) \o (out \o new)
         /\ ~style.tuned
<1>1. PICK ids, p : ids = out \o new /\ p = Prompted(style)
  OBVIOUS
<1>2. ids \in Seq(Tokens) /\ Len(ids) = Len(out) + Len(new) /\ Len(out) \in Nat /\ Len(new) \in Nat
  BY <1>1, TypedConcat
<1>3. out # <<>> /\ ids # <<>>
  BY <1>2, EmptySeq
<1>4. But1(out) \in Seq(Tokens) /\ Len(But1(out)) = sk
  BY <1>3, But1Typed
<1>5. position = Len(p) + sk /\ Len(p) \in Nat /\ p \in Seq(Cells)
  BY <1>1, <1>4, CellsConcat
<1>15. PICK a, b, c, d : a = Len(out) /\ b = Len(new) /\ c = Len(p) /\ d = Len(ids)
  OBVIOUS
<1>16. /\ a \in Nat /\ b \in Nat /\ c \in Nat /\ a >= 2 /\ sk = a - 1 /\ d = a + b
       /\ position = c + sk
  BY <1>2, <1>5, <1>15
<1>17. position \in Nat /\ position # 0 /\ sk # 0 /\ sk < d
  <2>1. PICK q : q = position
    OBVIOUS
  <2>2. q \in Nat /\ q # 0 /\ sk # 0 /\ sk < d
    BY <2>1, <1>16, UsedPlace, ZenonT(40)
  <2> QED
    BY <2>1, <2>2
<1>6. position \in Nat /\ position # 0 /\ (sk # 0 \/ position = 0) /\ (sk < Len(ids) \/ position = 0)
  BY <1>15, <1>17
<1>18. GN!FirstInput(ids, sk, position).ok
  BY <1>1
<1>19. /\ GN!FirstInput(ids, sk, position).x = SubSeq(ids, position + 1, Len(ids))
       /\ sk = position \/ position = 0
  <2>1. PICK q, i, k : q = position /\ i = ids /\ k = sk
    OBVIOUS
  <2>2. /\ i \in Seq(Tokens) /\ k \in Nat /\ q \in Nat /\ i # <<>>
        /\ GN!FirstInput(i, k, q).ok
        /\ k < Len(i) \/ q = 0
        /\ k # 0 \/ q = 0
    BY <2>1, <1>2, <1>3, <1>6, <1>18
  <2>3. GN!FirstInput(i, k, q).x = SubSeq(i, q + 1, Len(i)) /\ (k = q \/ q = 0)
    BY <2>2, FirstInputIs
  <2> QED
    BY <2>1, <2>3
<1>7. GN!FirstInput(ids, sk, position).x = SubSeq(ids, position + 1, Len(ids)) /\ sk = position
  BY <1>6, <1>19
<1>8. p = <<>>
  BY <1>5, <1>7, EmptySeq
<1>9. held = But1(out)
  BY <1>1, <1>4, <1>8, ConcatEmptySeq
<1>10. PICK x : x = GN!FirstInput(ids, sk, position).x
  OBVIOUS
<1>11. GN!Embedded(position, x) = x
  BY <1>6, EmbeddedLater
<1>12. GN!CachedAfter(position, x) = But1(out) \o SubSeq(ids, sk + 1, Len(ids))
  BY <1>7, <1>9, <1>10, <1>11, CachedAtEnd
<1>13. But1(out) \o SubSeq(ids, sk + 1, Len(ids)) = ids
  BY <1>1, <1>3, RestAfterBut1
<1>14. p \o ids = ids
  BY <1>2, <1>8, ConcatEmptySeq
<1>20. ~style.tuned
  <2>1. style.tuned => Len(p) = PreSeqLen
    BY <1>1, PromptTyped
  <2>2. Len(p) = 0 /\ PreSeqLen # 0
    BY <1>8, EmptySeq DEF GenerationAssumption
  <2> QED
    BY <2>1, <2>2
<1> QED
  BY <1>1, <1>10, <1>12, <1>13, <1>14, <1>20

LEMMA LastOne ==
  ASSUME NEW ids \in Seq(Tokens), ids # <<>> PROVE GN!Final(1, ids) = <<ids[Len(ids)]>>
<1>1. PICK n \in Nat : n = Len(ids) - 1
  BY But1Typed
<1>2. PICK a, b : a = n + 1 /\ b = Len(ids) - 1 + 1
  OBVIOUS
<1>3. a = b /\ Len(ids) = n + 1
  BY <1>1, <1>2
<1>4. SubSeq(ids, n + 1, Len(ids)) \in Seq(Tokens) /\ Len(SubSeq(ids, n + 1, Len(ids))) = Len(ids) - n
      /\ \A i \in 1 .. Len(ids) - n : SubSeq(ids, n + 1, Len(ids))[i] = ids[n + i]
  BY <1>1, <1>3, RestOfTokens
<1>5. PICK f, e : f = GN!Final(1, ids) /\ e = ids[Len(ids)]
  OBVIOUS
<1>6. f = SubSeq(ids, n + 1, Len(ids))
  BY <1>2, <1>3, <1>5 DEF GN!Final
<1>7. f \in Seq(Tokens) /\ Len(f) = 1 /\ f[1] = e
  BY <1>3, <1>4, <1>5, <1>6
<1>8. f = <<e>>
  BY <1>7
<1> QED
  BY <1>5, <1>8

LEMMA CellsAssociate ==
  ASSUME NEW s \in Seq(Cells), NEW t \in Seq(Cells), NEW u \in Seq(Cells) PROVE (s \o t) \o u = s \o (t \o u)
BY ConcatAssociative

LEMMA RunsLast ==
  ASSUME GenerationAssumption, held \in Seq(Cells), position = Len(held),
         NEW ids \in Seq(Tokens), Len(ids) >= 2, held = Prompted(style) \o But1(ids)
  PROVE  GN!CachedAfter(position, GN!Final(1, ids)) = Prompted(style) \o ids
<1>1. PICK p, e : p = Prompted(style) /\ e = ids[Len(ids)]
  OBVIOUS
<1>2. Len(ids) \in Nat /\ ids # <<>> /\ Len(ids) \in 1 .. Len(ids)
  BY LenProperties, EmptySeq
<1>3. But1(ids) \in Seq(Tokens) /\ Len(But1(ids)) = Len(ids) - 1 /\ e \in Tokens
  BY <1>1, <1>2, But1Typed, ElementOfSeq
<1>4. position = Len(p) + (Len(ids) - 1) /\ Len(p) \in Nat /\ p \in Seq(Cells) /\ But1(ids) \in Seq(Cells)
  BY <1>1, <1>3, CellsConcat
<1>5. position # 0
  BY <1>2, <1>4
<1>6. GN!Embedded(position, <<e>>) = <<e>>
  BY <1>5, EmbeddedLater
<1>7. GN!Final(1, ids) = <<e>>
  BY <1>1, <1>2, LastOne
<1>8. GN!CachedAfter(position, <<e>>) = (p \o But1(ids)) \o <<e>>
  BY <1>1, <1>6, CachedAtEnd
<1>9. <<e>> \in Seq(Cells)
  <2>1. <<e>> \in Seq(Tokens)
    BY <1>3
  <2> QED
    BY <2>1, TokensAreCells
<1>12. PICK b, t : b = But1(ids) /\ t = <<e>>
  OBVIOUS
<1>14. b \in Seq(Cells) /\ t \in Seq(Cells)
  BY <1>4, <1>9, <1>12
<1>13. (p \o b) \o t = p \o (b \o t)
  BY <1>4, <1>14, CellsAssociate, ZenonT(40)
<1>10. (p \o But1(ids)) \o <<e>> = p \o (But1(ids) \o <<e>>)
  BY <1>12, <1>13
<1>11. But1(ids) \o <<e>> = ids
  BY <1>1, <1>2, But1Last
<1> QED
  BY <1>1, <1>7, <1>8, <1>10, <1>11

\* After every step the caches hold the soft prompt and all tokens but the one just made.
LEMMA DecodeRuns ==
  ASSUME GenerationAssumption, GenerationRight, GN!Decode
  PROVE  held' = Prompted(style) \o call.ids /\ (style.tuned => kept = <<>>)
<1>1. PICK g : g = call
  OBVIOUS
<1>2. /\ g.phase = "running" /\ style.mode = "plain"
      /\ g.first => /\ GN!FirstInput(g.ids, skipped, position).ok
                    /\ held' = GN!CachedAfter(position, GN!FirstInput(g.ids, skipped, position).x)
      /\ ~g.first => held' = GN!CachedAfter(position, GN!Final(1, g.ids))
  BY <1>1 DEF GN!Decode
<1>3. /\ CallRight(style, held, kept, skipped, g)
      /\ held \in Seq(Cells) /\ position = Len(held) /\ kept \in Seq(Tokens) /\ skipped \in Nat
  BY <1>1, <1>2 DEF GenerationRight, InCall
<1>4. /\ g.ids \in Seq(Tokens) /\ g.new \in Seq(Tokens) /\ g.ids # <<>>
      /\ ScopeRight(style, held, kept, skipped, g)
  BY <1>2, <1>3 DEF CallRight, Calls, InScope
<1>5. CASE g.first
  <2>1. FirstRight(style, held, kept, skipped, g)
    BY <1>4, <1>5 DEF ScopeRight
  <2>2. g.ids = kept \o g.new /\ g.ids # <<>> /\ SessionRight(style, held, kept) /\ (kept # <<>> => skipped = Len(kept) - 1)
    BY <2>1, <1>4 DEF FirstRight
  <2>3. PICK x : x = GN!FirstInput(g.ids, skipped, position).x
    OBVIOUS
  <2>4. held' = GN!CachedAfter(position, x) /\ GN!FirstInput(g.ids, skipped, position).ok
    BY <1>2, <1>5, <2>3
  <2>5. CASE kept = <<>>
    <3>1. held = <<>>
      BY <2>2, <2>5 DEF SessionRight
    <3>2. position = 0
      BY <3>1, <1>3, EmptySeq
    <3>6. PICK ids, sk : ids = g.ids /\ sk = skipped
      OBVIOUS
    <3>7. /\ ids \in Seq(Tokens) /\ sk \in Nat /\ position \in Nat /\ ids # <<>>
          /\ GN!FirstInput(ids, sk, position).ok
          /\ sk < Len(ids) \/ position = 0
          /\ sk # 0 \/ position = 0
      BY <3>2, <3>6, <2>2, <2>4, <1>3, <1>4
    <3>8. GN!FirstInput(ids, sk, position).x = SubSeq(ids, position + 1, Len(ids))
      BY <3>7, FirstInputIs
    <3>3. x = SubSeq(g.ids, position + 1, Len(g.ids))
      BY <3>6, <3>8, <2>3
    <3>4. SubSeq(g.ids, 1, Len(g.ids)) = g.ids /\ position + 1 = 1
      BY <3>2, <1>4, SubSeqFull
    <3>5. x = g.ids
      BY <3>3, <3>4
    <3> QED
      BY <3>1, <3>5, <2>4, <2>5, <1>1, <1>3, <1>4, RunsFirst
  <2>6. CASE kept # <<>>
    <3>1. Len(kept) >= 2 /\ held = Prompted(style) \o But1(kept) /\ skipped = Len(kept) - 1
      BY <2>2, <2>6, <1>2 DEF SessionRight, Behind
    <3>2. /\ GN!CachedAfter(position, GN!FirstInput(kept \o g.new, skipped, position).x) = Prompted(style) \o (kept \o g.new)
          /\ ~style.tuned
      BY <3>1, <2>2, <2>4, <1>3, <1>4, RunsUsed
    <3> QED
      BY <3>2, <2>2, <2>3, <2>4, <1>1
  <2> QED
    BY <2>5, <2>6
<1>6. CASE ~g.first
  <2>1. Len(g.ids) >= 2 /\ held = Prompted(style) \o But1(g.ids) /\ (style.tuned => kept = <<>>)
    BY <1>2, <1>4, <1>6 DEF ScopeRight, LaterRight, Behind
  <2> QED
    BY <2>1, <1>1, <1>2, <1>3, <1>4, <1>6, RunsLast
<1> QED
  BY <1>5, <1>6

LEMMA PreferredLast ==
  ASSUME NEW c \in Seq(Cells) PROVE GN!Preferred(1, c)[1] = Big(c)
<1>1. PICK n \in Nat : n = Len(c)
  BY LenProperties
<1>2. n - 1 + 1 = n
  BY <1>1
<1>3. SubSeq(c, 1, n) = c
  BY <1>1, SubSeqFull
<1>4. GN!Preferred(1, c) = [i \in 1 .. 1 |-> Big(SubSeq(c, 1, n - 1 + i))]
  BY <1>1 DEF GN!Preferred
<1>5. GN!Preferred(1, c)[1] = Big(SubSeq(c, 1, n - 1 + 1))
  BY <1>4
<1> QED
  BY <1>2, <1>3, <1>5

\* A call goes on for as many tokens as it was asked for, or to Eos.
LEMMA LongerMeans ==
  ASSUME kept \in Seq(Tokens), call \in Calls, NEW q, NEW k \in Nat, Len(q) = Len(kept \o call.new) + k
  PROVE  GN!Longer(q) = IF k >= call.n \/ q[Len(q)] = Eos THEN "stopped" ELSE "running"
<1>1. PICK a, b, n : a = Len(kept) /\ b = Len(call.new) /\ n = call.n
  OBVIOUS
<1>2. call.new \in Seq(Tokens) /\ n \in Nat
  BY <1>1 DEF Calls
<1>3. a \in Nat /\ b \in Nat /\ Len(kept \o call.new) = a + b
  BY <1>1, <1>2, TypedConcat
<1>4. Len(q) = a + b + k
  BY <1>3
<1>5. Len(q) >= a + b + n <=> k >= n
  BY <1>2, <1>3, <1>4
<1>6. GN!Longer(q) = IF Len(q) >= a + b + n \/ q[Len(q)] = Eos THEN "stopped" ELSE "running"
  BY <1>1 DEF GN!Longer, GN!Last
<1> QED
  BY <1>1, <1>5, <1>6

\* What a call has so far.
LEMMA Running ==
  ASSUME GenerationRight, call.phase = "running"
  PROVE  /\ call \in Calls /\ kept \in Seq(Tokens) /\ held \in Seq(Cells) /\ position = Len(held) /\ skipped \in Nat
         /\ StyleRight(style) /\ CallRight(style, held, kept, skipped, call)
         /\ call.ids \in Seq(Tokens) /\ call.new \in Seq(Tokens) /\ call.n \in Nat /\ call.n # 0 /\ call.ids # <<>>
         /\ kept \o call.new \in Seq(Tokens)
<1>1. PICK g : g = call
  OBVIOUS
<1>2. /\ kept \in Seq(Tokens) /\ held \in Seq(Cells) /\ position = Len(held) /\ skipped \in Nat
      /\ StyleRight(style) /\ CallRight(style, held, kept, skipped, g)
  BY <1>1 DEF GenerationRight, InCall
<1>3. g \in Calls /\ g.n # 0 /\ g.ids # <<>>
  BY <1>2 DEF CallRight
<1>4. g.ids \in Seq(Tokens) /\ g.new \in Seq(Tokens) /\ g.n \in Nat
  BY <1>3 DEF Calls
<1>5. kept \o g.new \in Seq(Tokens)
  BY <1>2, <1>4, TypedConcat
<1> QED
  BY <1>1, <1>2, <1>3, <1>4, <1>5

LEMMA SoFar ==
  ASSUME GenerationRight, call.phase = "running", InScope(style, kept, call.new)
  PROVE  /\ ScopeRight(style, held, kept, skipped, call)
         /\ \E k \in Nat : /\ Greedily(Prompted(style), kept \o call.new, call.ids, k)
                           /\ k < call.n
                           /\ k = 0 \/ call.ids[Len(call.ids)] # Eos
<1>1. PICK g : g = call
  OBVIOUS
<1>2. /\ g.ids \in Seq(Tokens) /\ g.n \in Nat /\ g.n # 0 /\ CallRight(style, held, kept, skipped, g)
  BY <1>1, Running
<1>3. ScopeRight(style, held, kept, skipped, g)
  BY <1>1, <1>2 DEF CallRight
<1>6. CASE g.first
  <2>1. g.ids = kept \o g.new
    BY <1>3, <1>6 DEF ScopeRight, FirstRight
  <2>2. Greedily(Prompted(style), kept \o g.new, g.ids, 0)
    BY <2>1, <1>2, GreedyStarts
  <2>3. 0 < g.n
    BY <1>2
  <2> QED
    BY <2>2, <2>3, <1>1, <1>3
<1>7. CASE ~g.first
  <2>1. LaterRight(style, held, kept, g)
    BY <1>3, <1>7 DEF ScopeRight
  <2>2. PICK k \in Nat \ {0} : Greedily(Prompted(style), kept \o g.new, g.ids, k) /\ GoesOn(g, k)
    BY <2>1, <1>1 DEF LaterRight
  <2>3. k < g.n /\ g.ids[Len(g.ids)] # Eos
    BY <2>2 DEF GoesOn
  <2> QED
    BY <2>2, <2>3, <1>1, <1>3
<1> QED
  BY <1>6, <1>7

LEMMA DecodeKeeps == ASSUME GenerationAssumption, GenerationRight, GN!Decode PROVE GenerationRight'
<1>1. PICK g, sp, base, t, q : g = call /\ sp = Prompted(style) /\ base = kept \o call.new
                               /\ t = GN!Preferred(1, held')[1] /\ q = Append(call.ids, t)
  OBVIOUS
<1>2. /\ g.phase = "running" /\ style.mode = "plain" /\ position' = Len(held')
      /\ skipped' = IF g.first THEN 0 ELSE skipped
      /\ call' = [g EXCEPT !.ids = q, !.first = FALSE, !.phase = GN!Longer(q)]
      /\ style' = style /\ kept' = kept /\ reply' = reply
  BY <1>1 DEF GN!Decode
<1>3. /\ g \in Calls /\ kept \in Seq(Tokens) /\ StyleRight(style) /\ skipped \in Nat
      /\ g.ids \in Seq(Tokens) /\ g.new \in Seq(Tokens) /\ g.n \in Nat /\ g.n # 0 /\ g.ids # <<>> /\ base \in Seq(Tokens)
  BY <1>1, <1>2, Running
<1>4. PICK k \in Nat : Greedily(sp, base, g.ids, k) /\ k < g.n /\ (k = 0 \/ g.ids[Len(g.ids)] # Eos)
  <2>1. InScope(style, kept, call.new)
    BY <1>2 DEF InScope
  <2> QED
    BY <2>1, <1>1, <1>2, SoFar
<1>5. held' = sp \o g.ids /\ (style.tuned => kept = <<>>)
  BY <1>1, DecodeRuns
<1>6. held' \in Seq(Cells)
  BY <1>1, <1>3, <1>5, CellsConcat
<1>7. t = Big(sp \o g.ids) /\ t \in Tokens
  <2>1. t = Big(held')
    BY <1>1, <1>6, PreferredLast
  <2> QED
    BY <2>1, <1>5, <1>6 DEF GenerationAssumption
<1>8. /\ q \in Seq(Tokens) /\ Len(g.ids) \in Nat /\ Len(q) = Len(g.ids) + 1 /\ q[Len(g.ids) + 1] = t
      /\ q = g.ids \o <<t>>
  <2>1. PICK s : s = g.ids
    OBVIOUS
  <2>2. s \in Seq(Tokens) /\ q = Append(s, t)
    BY <2>1, <1>1, <1>3
  <2>3. q \in Seq(Tokens) /\ Len(s) \in Nat /\ Len(q) = Len(s) + 1 /\ q[Len(s) + 1] = t
    BY <2>2, <1>7, AppendElements
  <2>4. q = s \o <<t>>
    BY <2>2, <1>7, AppendIsConcat
  <2> QED
    BY <2>1, <2>3, <2>4
<1>9. Greedily(sp, base, q, k + 1)
  <2>1. PICK more : more = <<t>>
    OBVIOUS
  <2>2. more \in Seq(Tokens) /\ Len(more) = 1 /\ more[1] = t
    BY <2>1, <1>7
  <2>3. SubSeq(g.ids \o more, 1, Len(g.ids)) = g.ids
    <3>1. SubSeq(g.ids \o more, 1, Len(g.ids)) = SubSeq(g.ids, 1, Len(g.ids))
      BY <2>2, <1>3, <1>8, PartOfConcat
    <3>2. SubSeq(g.ids, 1, Len(g.ids)) = g.ids
      BY <1>3, SubSeqFull
    <3> QED
      BY <3>1, <3>2
  <2>4. \A i \in 1 .. Len(more) : more[i] = Big(sp \o SubSeq(g.ids \o more, 1, Len(g.ids) + i - 1))
    <3>1. SUFFICES ASSUME NEW i \in 1 .. Len(more)
                   PROVE  more[i] = Big(sp \o SubSeq(g.ids \o more, 1, Len(g.ids) + i - 1))
      OBVIOUS
    <3>2. i = 1 /\ Len(g.ids) + i - 1 = Len(g.ids)
      BY <2>2, <1>8
    <3> QED
      BY <3>2, <2>2, <2>3, <1>7
  <2>5. \A i \in 1 .. Len(more) - 1 : more[i] # Eos
    BY <2>2
  <2>6. Greedily(sp, base, g.ids \o more, k + Len(more))
    BY <2>2, <2>4, <2>5, <1>4, GreedyGoesOn
  <2> QED
    BY <2>1, <2>2, <2>6, <1>8
<1>10. PICK l : l = Len(q)
  OBVIOUS
<1>11. GN!Longer(q) = IF k + 1 >= g.n \/ q[l] = Eos THEN "stopped" ELSE "running"
  <2>1. Len(q) = Len(base) + (k + 1)
    BY <1>9 DEF Greedily
  <2>2. PICK m \in Nat : m = k + 1
    OBVIOUS
  <2>3. Len(q) = Len(kept \o call.new) + m
    BY <2>1, <2>2, <1>1
  <2>4. GN!Longer(q) = IF m >= call.n \/ q[Len(q)] = Eos THEN "stopped" ELSE "running"
    BY <2>3, <1>1, <1>3, LongerMeans
  <2> QED
    BY <2>2, <2>4, <1>1, <1>10
<1>12. PICK h : h = call'
  OBVIOUS
<1>13. /\ h \in Calls /\ h.ids = q /\ h.new = g.new /\ h.n = g.n /\ h.first = FALSE
       /\ h.phase = IF k + 1 >= g.n \/ q[l] = Eos THEN "stopped" ELSE "running"
  BY <1>2, <1>3, <1>8, <1>11, <1>12 DEF Calls
<1>14. LaterRight(style, held', kept, h)
  <2>1. Len(q) >= 2
    BY <1>3, <1>8, EmptySeq
  <2>2. Behind(style, held', q)
    BY <1>1, <1>2, <1>3, <1>5, <1>7, But1Append DEF Behind
  <2>3. h.phase = "running" => GoesOn(h, k + 1)
    BY <1>3, <1>10, <1>13 DEF GoesOn
  <2>4. h.phase # "running" => Enough(style, kept, h, k + 1)
    <3>1. k + 1 <= g.n /\ (k + 1 >= g.n => k + 1 = g.n) /\ k + 1 >= 1
      BY <1>3, <1>4
    <3>2. Len(base) + (k + 1) = l
      BY <1>9, <1>10 DEF Greedily
    <3>3. h.phase # "running" => Complete(base, q, k + 1, g.n)
      BY <3>1, <3>2, <1>13 DEF Complete
    <3> QED
      BY <3>3, <1>1, <1>13 DEF Enough
  <2>5. k + 1 \in Nat \ {0} /\ Greedily(sp, kept \o h.new, h.ids, k + 1)
    BY <1>1, <1>9, <1>13
  <2> QED
    BY <2>1, <2>2, <2>3, <2>4, <2>5, <1>1, <1>5, <1>13 DEF LaterRight
<1>18. h.ids # <<>>
  BY <1>8, <1>13, EmptySeq
<1>15. CallRight(style, held', kept, skipped', h)
  BY <1>2, <1>3, <1>13, <1>14, <1>18 DEF CallRight, ScopeRight
<1>16. CallRight(style', held', kept', skipped', call') /\ InCall(call') /\ call'.phase \in {"running", "stopped"}
  BY <1>2, <1>12, <1>13, <1>15 DEF InCall
<1>17. skipped' \in Nat /\ AnswerRight(style', reply') /\ StyleRight(style') /\ kept' \in Seq(Tokens)
  BY <1>2, <1>3 DEF GenerationRight
<1> QED
  BY <1>2, <1>6, <1>16, <1>17 DEF GenerationRight

-----------------------------------------------------------------------------
\* A step of speculative generation.

\* These tokens may have come to an end.
MayEnd(s) == \A i \in 1 .. Len(s) - 1 : s[i] # Eos

\* These are among the drafted tokens, but for the last perhaps.
Follows(acc, tail) == Len(acc) \in 1 .. Len(tail) /\ \A i \in 1 .. Len(acc) - 1 : acc[i] = tail[i]

LEMMA SamePart ==
  ASSUME NEW S, NEW s \in Seq(S), NEW t \in Seq(S), NEW m \in Nat, m <= Len(s), m <= Len(t), \A i \in 1 .. m : s[i] = t[i]
  PROVE  SubSeq(s, 1, m) = SubSeq(t, 1, m)
<1>1. PICK p, q : p = SubSeq(s, 1, m) /\ q = SubSeq(t, 1, m)
  OBVIOUS
<1>2. p \in Seq(S) /\ Len(p) = m /\ \A i \in 1 .. m : p[i] = s[i]
  BY <1>1, PartOfTokens
<1>3. q \in Seq(S) /\ Len(q) = m /\ \A i \in 1 .. m : q[i] = t[i]
  BY <1>1, PartOfTokens
<1>4. Len(p) = Len(q) /\ \A i \in 1 .. Len(p) : p[i] = q[i]
  BY <1>2, <1>3
<1> QED
  BY <1>1, <1>2, <1>3, <1>4, SeqEqual

LEMMA PartOfPart ==
  ASSUME NEW S, NEW s \in Seq(S), NEW m \in Nat, NEW n \in Nat, n <= m, m <= Len(s)
  PROVE  SubSeq(SubSeq(s, 1, m), 1, n) = SubSeq(s, 1, n)
<1>1. PICK p : p = SubSeq(s, 1, m)
  OBVIOUS
<1>2. p \in Seq(S) /\ Len(p) = m /\ \A i \in 1 .. m : p[i] = s[i]
  BY <1>1, PartOfTokens
<1>3. n <= Len(p) /\ n <= Len(s) /\ \A i \in 1 .. n : p[i] = s[i]
  BY <1>2, LenProperties
<1>4. SubSeq(p, 1, n) = SubSeq(s, 1, n)
  BY <1>2, <1>3, SamePart
<1> QED
  BY <1>1, <1>4

LEMMA SizeTyped == ASSUME GenerationAssumption, call \in Calls PROVE GN!Size \in Int
<1>1. PICK a, b : a = call.size /\ b = MaxLength - Len(call.ids)
  OBVIOUS
<1>2. call.ids \in Seq(Tokens) /\ a \in Int
  BY <1>1 DEF Calls
<1>3. b \in Int
  BY <1>1, <1>2, LenProperties DEF GenerationAssumption
<1>4. Min({a, b}) \in Int
  BY <1>2, <1>3, MinOfTwo
<1>5. GN!Min({a, b}) = Min({a, b})
  BY DEF GN!Min, Min
<1> QED
  BY <1>1, <1>4, <1>5 DEF GN!Size

\* A small model stops at Eos.
LEMMA DraftTyped ==
  ASSUME NEW k \in Int, NEW draft \in GN!Drafts(k)
  PROVE  draft \in Seq(Tokens) /\ Len(draft) \in 1 .. k /\ \A i \in 1 .. Len(draft) - 1 : draft[i] # Eos
<1>1. draft \in UNION {[1 .. m -> Tokens] : m \in 1 .. k} /\ \A i \in 1 .. Len(draft) - 1 : draft[i] # Eos
  BY DEF GN!Drafts
<1>2. PICK m \in 1 .. k : draft \in [1 .. m -> Tokens]
  BY <1>1
<1>3. draft \in Seq(Tokens) /\ Len(draft) = m
  BY <1>2
<1> QED
  BY <1>1, <1>3

LEMMA PlaceInTail ==
  ASSUME NEW L \in Nat, NEW m \in Nat, NEW k \in Nat, NEW o \in Nat, o = L + m - k, NEW i \in 1 .. k - 1, NEW p, p = o + i
  PROVE  i \in 1 .. k /\ p \in 1 .. L + m - 1
OBVIOUS

\* What is run at once: the draft, or as much before it as is missing.
LEMMA TailRight ==
  ASSUME NEW ids \in Seq(Tokens), NEW draft \in Seq(Tokens), NEW k \in Nat, Len(draft) \in 1 .. k, k <= Len(ids \o draft),
         NEW tail, tail = GN!Final(k, ids \o draft)
  PROVE  tail \in Seq(Tokens) /\ Len(tail) = k /\ (GoOn(ids) /\ MayEnd(draft) => MayEnd(tail))
<1>1. PICK full, L, m : full = ids \o draft /\ L = Len(ids) /\ m = Len(draft)
  OBVIOUS
<1>2. /\ full \in Seq(Tokens) /\ Len(full) = L + m /\ L \in Nat /\ m \in Nat
      /\ \A i \in 1 .. L : full[i] = ids[i]
      /\ \A i \in 1 .. m : full[L + i] = draft[i]
  BY <1>1, TypedConcat
<1>9. k <= L + m
  BY <1>1, <1>2
<1>3. PICK o \in Nat : o = L + m - k
  <2>1. L + m - k \in Nat
    BY <1>2, <1>9
  <2> QED
    BY <2>1
<1>4. m \in 1 .. k
  BY <1>1
<1>5. Len(full) - k + 1 = o + 1 /\ o <= Len(full) /\ Len(full) - o = k
  BY <1>2, <1>3
<1>6. tail = SubSeq(full, o + 1, Len(full))
  BY <1>1, <1>5 DEF GN!Final
<1>10. /\ tail \in Seq(Tokens) /\ Len(tail) = IF o <= Len(full) THEN Len(full) - o ELSE 0
       /\ \A i \in 1 .. Len(full) - o : tail[i] = full[o + i]
  <2>1. PICK r : r = SubSeq(full, o + 1, Len(full))
    OBVIOUS
  <2>2. /\ r \in Seq(Tokens) /\ Len(r) = IF o <= Len(full) THEN Len(full) - o ELSE 0
        /\ \A i \in 1 .. Len(full) - o : r[i] = full[o + i]
    BY <2>1, <1>2, RestOfTokens
  <2> QED
    BY <2>1, <2>2, <1>6
<1>7. tail \in Seq(Tokens) /\ Len(tail) = k /\ \A i \in 1 .. k : tail[i] = full[o + i]
  BY <1>5, <1>10
<1>8. ASSUME GoOn(ids), MayEnd(draft), NEW i \in 1 .. k - 1 PROVE tail[i] # Eos
  <2>1. PICK p \in Nat : p = o + i
    OBVIOUS
  <2>6. L \in Nat /\ m \in Nat /\ i \in 1 .. k - 1
    BY <1>2
  <2>5. i \in 1 .. k /\ p \in 1 .. L + m - 1
    BY <2>1, <2>6, <1>3, PlaceInTail
  <2>2. tail[i] = full[p] /\ p \in 1 .. L + m - 1
    BY <2>1, <2>5, <1>7
  <2>3. CASE p <= L
    <3>1. p \in 1 .. L
      BY <2>2, <2>3
    <3> QED
      BY <3>1, <2>2, <1>1, <1>2, <1>8 DEF GoOn
  <2>4. CASE ~(p <= L)
    <3>1. PICK j \in 1 .. m - 1 : p = L + j
      <4>1. p - L \in 1 .. m - 1 /\ p = L + (p - L)
        BY <2>2, <2>4, <1>2
      <4> QED
        BY <4>1
    <3>2. j \in 1 .. m /\ draft[j] # Eos
      BY <1>1, <1>2, <1>8 DEF MayEnd
    <3> QED
      BY <3>1, <3>2, <2>2, <1>2
  <2> QED
    BY <2>3, <2>4
<1>11. GoOn(ids) /\ MayEnd(draft) => MayEnd(tail)
  BY <1>7, <1>8 DEF MayEnd
<1> QED
  BY <1>7, <1>11

\* The caches hold all of these tokens but the last, whether the session is new or goes on from the last token accepted.
LEMMA RunsDraft ==
  ASSUME held \in Seq(Cells), ~style.tuned, NEW ids \in Seq(Tokens), ids # <<>>, call.ids = ids,
         NEW tail \in Seq(Tokens), NEW k \in Nat, k = Len(tail), k # 0,
         IF call.first THEN held = <<>> /\ position = 0
         ELSE SubSeq(held, 1, Len(ids) - 1) = But1(ids)
  PROVE  GN!CachedAfter(GN!Rewound, GN!ToValidate(k, ids \o tail)) = But1(ids \o tail)
<1>1. PICK full : full = ids \o tail
  OBVIOUS
<1>2. PICK n \in Nat : n = Len(ids) - 1
  BY But1Typed
<1>3. full \in Seq(Tokens) /\ Len(full) = Len(ids) + k /\ Len(ids) = n + 1
  BY <1>1, <1>2, TypedConcat, But1Typed
<1>4. CASE call.first
  <2>1. GN!Rewound = 0 /\ GN!ToValidate(k, full) = But1(full)
    BY <1>4 DEF GN!Rewound, GN!ToValidate, But1
  <2>2. full # <<>>
    BY <1>3, EmptySeq
  <2>3. But1(full) \in Seq(Tokens)
    BY <2>2, <1>3, But1Typed
  <2>4. SubSeq(held, 1, 0) = <<>>
    BY SubSeqEmpty
  <2>5. <<>> \o But1(full) = But1(full)
    BY <2>3, ConcatEmptySeq
  <2>6. GN!Embedded(0, But1(full)) = But1(full)
    BY EmbeddedLater
  <2> QED
    BY <2>1, <2>4, <2>5, <2>6, <1>1 DEF GN!CachedAfter
<1>5. CASE ~call.first
  <2>1. PICK e, f : e = n + k /\ f = n + 1
    OBVIOUS
  <2>2. Len(full) - 1 = e /\ Len(full) - k = f
    BY <2>1, <1>3
  <2>3. PICK x : x = SubSeq(full, f, e)
    OBVIOUS
  <2>4. GN!Rewound = n /\ GN!ToValidate(k, full) = x
    BY <2>2, <2>3, <1>2, <1>5 DEF GN!Rewound, GN!ToValidate
  <2>5. GN!Embedded(n, x) = x
    BY EmbeddedLater
  <2>6. SubSeq(held, 1, n) = SubSeq(full, 1, n)
    <3>1. n <= Len(ids)
      BY <1>3
    <3>2. SubSeq(full, 1, n) = SubSeq(ids, 1, n)
      BY <3>1, <1>1, PartOfConcat
    <3> QED
      BY <3>2, <1>2, <1>5 DEF But1
  <2>7. SubSeq(full, 1, n) \o x = SubSeq(full, 1, e)
    <3>1. PICK a, b, c : a = 1 /\ b = n /\ c = e
      OBVIOUS
    <3>2. a \in 1 .. Len(full) + 1 /\ b \in a - 1 .. Len(full) /\ c \in b .. Len(full)
      BY <3>1, <2>1, <1>3
    <3>3. SubSeq(full, a, b) \o SubSeq(full, b + 1, c) = SubSeq(full, a, c)
      BY <3>2, <1>3, ConcatAdjacentSubSeq
    <3> QED
      BY <3>1, <3>3, <2>1, <2>3
  <2>8. SubSeq(full, 1, e) = But1(full)
    BY <2>2 DEF But1
  <2> QED
    BY <2>4, <2>5, <2>6, <2>7, <2>8, <1>1 DEF GN!CachedAfter
<1> QED
  BY <1>4, <1>5

\* The accepted tokens are those the swarm prefers, and the drafted ones but for the last.
LEMMA AcceptedRight ==
  ASSUME NEW tail \in Seq(Tokens), NEW k \in Nat, k = Len(tail), k # 0,
         NEW pref, \A i \in 1 .. k : pref[i] \in Tokens, NEW acc, acc = GN!AcceptedTokens(tail, pref)
  PROVE  /\ acc \in Seq(Tokens) /\ Len(acc) \in 1 .. k
         /\ \A i \in 1 .. Len(acc) : acc[i] = pref[i]
         /\ \A i \in 1 .. Len(acc) - 1 : acc[i] = tail[i]
<1>1. PICK R : R = {m \in 0 .. k : \A i \in 1 .. m : tail[i] = pref[i]}
  OBVIOUS
<1>2. 0 \in R /\ R \subseteq 0 .. k
  BY <1>1
<1>3. Max(R) \in R
  BY <1>2, MaxRight
<1>4. PICK r : r = Max(R)
  OBVIOUS
<1>5. r \in 0 .. k /\ \A i \in 1 .. r : tail[i] = pref[i]
  BY <1>1, <1>3, <1>4
<1>6. GN!Max(R) = r
  BY <1>4 DEF GN!Max, Max
<1>7. acc = IF r = 0 THEN <<pref[1]>> ELSE SubSeq(tail, 1, r)
  BY <1>1, <1>6 DEF GN!AcceptedTokens
<1>8. CASE r = 0
  <2>1. PICK x : x = pref[1]
    OBVIOUS
  <2>2. x \in Tokens /\ acc = <<x>>
    BY <2>1, <1>7, <1>8
  <2>3. acc \in Seq(Tokens) /\ Len(acc) = 1 /\ acc[1] = x
    BY <2>2
  <2> QED
    BY <2>1, <2>3
<1>9. CASE r # 0
  <2>1. r \in Nat /\ r <= Len(tail) /\ acc = SubSeq(tail, 1, r)
    BY <1>5, <1>7, <1>9
  <2>2. acc \in Seq(Tokens) /\ Len(acc) = r /\ \A i \in 1 .. r : acc[i] = tail[i]
    BY <2>1, PartOfTokens
  <2> QED
    BY <2>2, <1>5, <1>9
<1> QED
  BY <1>8, <1>9

\* What the model prefers after each of the tokens.
LEMMA DraftPreferred ==
  ASSUME GenerationAssumption, NEW ids \in Seq(Tokens), ids # <<>>, NEW tail \in Seq(Tokens),
         NEW k \in Nat, k = Len(tail), k # 0, NEW pref, pref = GN!Preferred(k, But1(ids \o tail)), NEW i \in 1 .. k
  PROVE  pref[i] = Big(SubSeq(ids \o tail, 1, Len(ids) + i - 1)) /\ pref[i] \in Tokens
<1>1. PICK full, c : full = ids \o tail /\ c = But1(ids \o tail)
  OBVIOUS
<1>2. PICK n \in Nat : n = Len(ids) - 1
  BY But1Typed
<1>3. full \in Seq(Tokens) /\ Len(full) = n + 1 + k /\ Len(ids) = n + 1
  <2>1. Len(ids) \in Nat
    BY LenProperties
  <2>2. Len(ids) = n + 1
    BY <2>1, <1>2
  <2>3. full \in Seq(Tokens) /\ Len(full) = Len(ids) + Len(tail)
    BY <1>1, TypedConcat
  <2> QED
    BY <2>2, <2>3
<1>4. full # <<>>
  BY <1>3, EmptySeq
<1>5. c \in Seq(Tokens) /\ Len(c) = n + k /\ c = SubSeq(full, 1, n + k)
  <2>1. But1(full) \in Seq(Tokens) /\ Len(But1(full)) = Len(full) - 1
    BY <1>3, <1>4, But1Typed
  <2>2. Len(full) - 1 = n + k
    BY <1>3
  <2> QED
    BY <2>1, <2>2, <1>1 DEF But1
<1>6. pref = [j \in 1 .. k |-> Big(SubSeq(c, 1, Len(c) - k + j))]
  BY <1>1 DEF GN!Preferred
<1>7. PICK m \in Nat : m = n + i
  OBVIOUS
<1>8. Len(c) - k + i = m /\ Len(ids) + i - 1 = m /\ m <= n + k /\ n + k <= Len(full) /\ n + k \in Nat
  BY <1>3, <1>5, <1>7
<1>9. pref[i] = Big(SubSeq(c, 1, m))
  BY <1>6, <1>8
<1>10. SubSeq(c, 1, m) = SubSeq(full, 1, m)
  <2>1. PICK e \in Nat : e = n + k
    OBVIOUS
  <2>2. SubSeq(SubSeq(full, 1, e), 1, m) = SubSeq(full, 1, m)
    BY <2>1, <1>3, <1>8, PartOfPart
  <2> QED
    BY <2>1, <2>2, <1>5
<1>11. SubSeq(full, 1, m) \in Seq(Tokens)
  BY <1>3, <1>8, PartOfTokens
<1>12. SubSeq(full, 1, m) \in Seq(Cells)
  BY <1>11, TokensAreCells
<1>13. Big(SubSeq(full, 1, m)) \in Tokens
  BY <1>12 DEF GenerationAssumption
<1> QED
  BY <1>1, <1>8, <1>9, <1>10, <1>13

\* Before the last accepted token nothing was run that is not kept.
LEMMA AcceptedPart ==
  ASSUME NEW ids \in Seq(Tokens), NEW tail \in Seq(Tokens), NEW acc \in Seq(Tokens), Follows(acc, tail),
         NEW j \in Nat, j <= Len(ids) + Len(acc) - 1
  PROVE  SubSeq(ids \o acc, 1, j) = SubSeq(ids \o tail, 1, j)
<1>1. PICK s, t, L, a, k : s = ids \o acc /\ t = ids \o tail /\ L = Len(ids) /\ a = Len(acc) /\ k = Len(tail)
  OBVIOUS
<1>2. /\ s \in Seq(Tokens) /\ Len(s) = L + a /\ L \in Nat /\ a \in Nat
      /\ \A i \in 1 .. L : s[i] = ids[i]
      /\ \A i \in 1 .. a : s[L + i] = acc[i]
  BY <1>1, TypedConcat
<1>3. /\ t \in Seq(Tokens) /\ Len(t) = L + k /\ k \in Nat
      /\ \A i \in 1 .. L : t[i] = ids[i]
      /\ \A i \in 1 .. k : t[L + i] = tail[i]
  BY <1>1, TypedConcat
<1>4. a \in 1 .. k /\ j <= L + a - 1 /\ \A i \in 1 .. a - 1 : acc[i] = tail[i]
  BY <1>1 DEF Follows
<1>5. \A i \in 1 .. j : s[i] = t[i]
  <2>1. SUFFICES ASSUME NEW i \in 1 .. j PROVE s[i] = t[i]
    OBVIOUS
  <2>2. CASE i <= L
    <3>1. i \in 1 .. L
      BY <2>2
    <3> QED
      BY <3>1, <1>2, <1>3
  <2>3. CASE ~(i <= L)
    <3>1. PICK m \in Nat : m = i - L
      <4>1. i - L \in Nat
        BY <2>3, <1>2
      <4> QED
        BY <4>1
    <3>2. i = L + m /\ m \in 1 .. a - 1 /\ m \in 1 .. a /\ m \in 1 .. k
      <4>1. i = L + m /\ 1 <= m
        BY <3>1, <2>3, <1>2
      <4>2. L + m <= L + a - 1 /\ a <= k
        BY <4>1, <1>2, <1>3, <1>4
      <4>3. m <= a - 1
        BY <4>2, <3>1, <1>2
      <4> QED
        BY <4>1, <4>2, <4>3, <3>1, <1>2, <1>3
    <3> QED
      BY <3>2, <1>2, <1>3, <1>4
  <2> QED
    BY <2>2, <2>3
<1>6. j <= Len(s) /\ j <= Len(t)
  BY <1>2, <1>3, <1>4
<1>7. SubSeq(s, 1, j) = SubSeq(t, 1, j)
  BY <1>2, <1>3, <1>5, <1>6, SamePart
<1> QED
  BY <1>1, <1>7

LEMMA AcceptedGreedily ==
  ASSUME GenerationAssumption, NEW sp, sp = <<>>, NEW base, NEW ids, NEW n \in Nat, Greedily(sp, base, ids, n),
         ids # <<>>, n = 0 \/ ids[Len(ids)] # Eos,
         NEW tail \in Seq(Tokens), NEW k \in Nat, k = Len(tail), k # 0, MayEnd(tail),
         NEW acc, acc = GN!AcceptedTokens(tail, GN!Preferred(k, But1(ids \o tail)))
  PROVE  /\ acc \in Seq(Tokens) /\ Follows(acc, tail) /\ MayEnd(acc)
         /\ Greedily(sp, base, ids \o acc, n + Len(acc))
<1>1. PICK pref : pref = GN!Preferred(k, But1(ids \o tail))
  OBVIOUS
<1>2. ids \in Seq(Tokens)
  BY DEF Greedily
<1>3. \A i \in 1 .. k : pref[i] = Big(SubSeq(ids \o tail, 1, Len(ids) + i - 1)) /\ pref[i] \in Tokens
  <2>1. SUFFICES ASSUME NEW i \in 1 .. k
                 PROVE  pref[i] = Big(SubSeq(ids \o tail, 1, Len(ids) + i - 1)) /\ pref[i] \in Tokens
    OBVIOUS
  <2> QED
    BY <1>1, <1>2, DraftPreferred
<1>4. /\ acc \in Seq(Tokens) /\ Len(acc) \in 1 .. k
      /\ \A i \in 1 .. Len(acc) : acc[i] = pref[i]
      /\ \A i \in 1 .. Len(acc) - 1 : acc[i] = tail[i] /\ acc[i] # Eos
  <2>1. \A i \in 1 .. k - 1 : tail[i] # Eos
    BY DEF MayEnd
  <2>2. \A i \in 1 .. k : pref[i] \in Tokens
    BY <1>3
  <2>3. /\ acc \in Seq(Tokens) /\ Len(acc) \in 1 .. k
        /\ \A i \in 1 .. Len(acc) : acc[i] = pref[i]
        /\ \A i \in 1 .. Len(acc) - 1 : acc[i] = tail[i]
    BY <2>2, <1>1, AcceptedRight
  <2>4. \A i \in 1 .. Len(acc) - 1 : i \in 1 .. k - 1
    BY <2>3
  <2> QED
    BY <2>1, <2>3, <2>4
<1>5. PICK L, a : L = Len(ids) /\ a = Len(acc)
  OBVIOUS
<1>6. L \in Nat /\ a \in 1 .. k
  BY <1>2, <1>4, <1>5, LenProperties
<1>7. \A i \in 1 .. a : acc[i] = Big(sp \o SubSeq(ids \o acc, 1, L + i - 1))
  <2>1. SUFFICES ASSUME NEW i \in 1 .. a PROVE acc[i] = Big(sp \o SubSeq(ids \o acc, 1, L + i - 1))
    OBVIOUS
  <2>2. PICK j \in Nat : j = L + i - 1
    <3>1. L + i - 1 \in Nat
      BY <1>6
    <3> QED
      BY <3>1
  <2>3. j <= L + a - 1 /\ i \in 1 .. k
    BY <2>2, <1>6
  <2>4. acc[i] = Big(SubSeq(ids \o tail, 1, j))
    BY <2>2, <2>3, <1>3, <1>4, <1>5
  <2>5. SubSeq(ids \o acc, 1, j) = SubSeq(ids \o tail, 1, j)
    <3>1. j <= Len(ids) + Len(acc) - 1
      BY <2>3, <1>5
    <3>2. Follows(acc, tail)
      BY <1>4 DEF Follows
    <3>3. PICK w : w = acc
      OBVIOUS
    <3>4. ids \in Seq(Tokens) /\ w \in Seq(Tokens) /\ Follows(w, tail) /\ j <= Len(ids) + Len(w) - 1
      BY <3>1, <3>2, <3>3, <1>2, <1>4
    <3>5. SubSeq(ids \o w, 1, j) = SubSeq(ids \o tail, 1, j)
      BY <3>4, AcceptedPart, ZenonT(40)
    <3> QED
      BY <3>3, <3>5
  <2>6. SubSeq(ids \o acc, 1, j) \in Seq(Tokens)
    <3>1. ids \o acc \in Seq(Tokens) /\ Len(ids \o acc) = L + a
      BY <1>2, <1>4, <1>5, TypedConcat
    <3>2. j <= Len(ids \o acc)
      BY <3>1, <2>3, <1>6
    <3> QED
      BY <3>1, <3>2, PartOfTokens
  <2>7. sp \o SubSeq(ids \o acc, 1, j) = SubSeq(ids \o acc, 1, j)
    BY <2>6, ConcatEmptySeq
  <2> QED
    BY <2>2, <2>4, <2>5, <2>7
<1>8. \A i \in 1 .. a - 1 : acc[i] # Eos
  BY <1>4, <1>5
<1>9. Greedily(sp, base, ids \o acc, n + Len(acc))
  BY <1>4, <1>5, <1>7, <1>8, GreedyGoesOn
<1>10. Follows(acc, tail) /\ MayEnd(acc)
  BY <1>4 DEF Follows, MayEnd
<1> QED
  BY <1>4, <1>9, <1>10

\* What a step runs begins where the session is, or at the last token accepted; there is something to prefer after
\* each drafted token.
LEMMA RunsSome ==
  ASSUME held \in Seq(Cells), position = Len(held), ~style.tuned, NEW ids \in Seq(Tokens), ids # <<>>, call.ids = ids,
         NEW tail \in Seq(Tokens), NEW k \in Nat, k = Len(tail), k # 0,
         GN!Fits(GN!Rewound, GN!ToValidate(k, ids \o tail)),
         NEW c, c = GN!CachedAfter(GN!Rewound, GN!ToValidate(k, ids \o tail))
  PROVE  c \in Seq(Cells) /\ k <= Len(c)
<1>1. PICK full, start, x : full = ids \o tail /\ start = GN!Rewound /\ x = GN!ToValidate(k, ids \o tail)
  OBVIOUS
<1>2. PICK n \in Nat : n = Len(ids) - 1
  BY But1Typed
<1>3. full \in Seq(Tokens) /\ Len(full) = n + 1 + k /\ Len(ids) = n + 1
  <2>1. Len(ids) = n + 1
    BY <1>2, But1Typed
  <2>2. full \in Seq(Tokens) /\ Len(full) = Len(ids) + Len(tail)
    BY <1>1, TypedConcat
  <2> QED
    BY <2>1, <2>2
<1>4. full # <<>>
  BY <1>3, EmptySeq
<1>5. But1(full) \in Seq(Tokens) /\ Len(But1(full)) = n + k
  <2>1. But1(full) \in Seq(Tokens) /\ Len(But1(full)) = Len(full) - 1
    BY <1>3, <1>4, But1Typed
  <2> QED
    BY <2>1, <1>3
<1>6. start \in Nat /\ start <= Len(held)
  <2>1. start = IF call.first THEN position ELSE Len(ids) - 1
    BY <1>1 DEF GN!Rewound
  <2>2. start \in Nat
    BY <2>1, <1>2, LenProperties
  <2>3. start <= position
    BY <1>1 DEF GN!Fits
  <2> QED
    BY <2>2, <2>3
<1>7. x \in Seq(Tokens) /\ k <= Len(x)
  <2>1. CASE call.first
    <3>1. x = But1(full)
      BY <2>1, <1>1 DEF GN!ToValidate, But1
    <3> QED
      BY <3>1, <1>5
  <2>2. CASE ~call.first
    <3>1. PICK e, f : e = n + k /\ f = n + 1
      OBVIOUS
    <3>2. Len(full) - 1 = e /\ Len(full) - k = f
      BY <3>1, <1>3
    <3>3. x = SubSeq(full, f, e)
      BY <3>2, <2>2, <1>1 DEF GN!ToValidate
    <3>4. SubSeq(full, 1, e) = But1(full)
      BY <3>2 DEF But1
    <3>5. \A i \in f .. e : full[i] \in Tokens
      <4>1. SUFFICES ASSUME NEW i \in f .. e PROVE full[i] \in Tokens
        OBVIOUS
      <4>2. i \in 1 .. Len(full)
        BY <3>1, <1>3
      <4> QED
        BY <4>2, <1>3, ElementOfSeq
    <3>6. f \in Int /\ e \in Int /\ f <= e /\ e - f + 1 = k
      BY <3>1
    <3>7. x \in Seq(Tokens) /\ Len(x) = k
      <4>1. SubSeq(full, f, e) \in Seq(Tokens) /\ Len(SubSeq(full, f, e)) = IF f <= e THEN e - f + 1 ELSE 0
        BY <3>5, <3>6, SubSeqProperties
      <4> QED
        BY <4>1, <3>3, <3>6
    <3> QED
      BY <3>7
  <2> QED
    BY <2>1, <2>2
<1>8. SubSeq(held, 1, start) \in Seq(Cells) /\ Len(SubSeq(held, 1, start)) \in Nat
  BY <1>6, PartOfTokens
<1>9. x \in Seq(Cells)
  BY <1>7, TokensAreCells
<1>10. c = SubSeq(held, 1, start) \o x
  <2>1. GN!Embedded(start, x) = x
    BY EmbeddedLater
  <2> QED
    BY <2>1, <1>1 DEF GN!CachedAfter
<1>11. /\ SubSeq(held, 1, start) \o x \in Seq(Cells)
       /\ Len(SubSeq(held, 1, start) \o x) = Len(SubSeq(held, 1, start)) + Len(x) /\ Len(x) \in Nat
  BY <1>8, <1>9, TypedConcat
<1>12. PICK a, b : a = Len(SubSeq(held, 1, start)) /\ b = Len(x)
  OBVIOUS
<1>13. Len(c) = a + b /\ a \in Nat /\ b \in Nat /\ k <= b
  BY <1>7, <1>8, <1>10, <1>11, <1>12
<1>14. k <= Len(c)
  BY <1>13
<1> QED
  BY <1>10, <1>11, <1>14

\* The model prefers some token after each of them.
LEMMA PreferredTyped ==
  ASSUME GenerationAssumption, NEW c \in Seq(Cells), NEW k \in Nat, k <= Len(c), NEW pref, pref = GN!Preferred(k, c),
         NEW i \in 1 .. k
  PROVE  pref[i] \in Tokens
<1>1. PICK n \in Nat : n = Len(c)
  BY LenProperties
<1>2. PICK m \in Nat : m = n - k + i
  <2>1. n - k + i \in Nat
    BY <1>1
  <2> QED
    BY <2>1
<1>3. m <= Len(c)
  BY <1>1, <1>2
<1>4. SubSeq(c, 1, m) \in Seq(Cells)
  BY <1>3, PartOfTokens
<1>5. pref[i] = Big(SubSeq(c, 1, n - k + i))
  BY <1>1 DEF GN!Preferred
<1> QED
  BY <1>2, <1>4, <1>5 DEF GenerationAssumption

\* Whatever the session has seen and whatever is drafted, the step goes on with tokens.
LEMMA SpeculateTyped ==
  ASSUME GenerationAssumption, GenerationRight, call.phase = "running", style.mode = "speculative",
         NEW draft \in GN!Drafts(GN!Size), GN!Speculate(draft)
  PROVE  /\ held' \in Seq(Cells) /\ call' \in Calls /\ call'.n # 0 /\ call'.ids # <<>> /\ call'.first = FALSE
         /\ call'.new = call.new
<1>1. PICK g, k : g = call /\ k = GN!Size
  OBVIOUS
<1>2. PICK ids, tail : ids = g.ids /\ tail = GN!Final(k, g.ids \o draft)
  OBVIOUS
<1>3. PICK acc, q : acc = GN!AcceptedTokens(tail, GN!Preferred(k, held')) /\ q = ids \o acc
  OBVIOUS
<1>4. /\ Len(ids \o draft) >= k
      /\ GN!Fits(GN!Rewound, GN!ToValidate(k, ids \o tail))
      /\ held' = GN!CachedAfter(GN!Rewound, GN!ToValidate(k, ids \o tail))
      /\ call' = [g EXCEPT !.ids = q, !.first = FALSE, !.size = k, !.phase = GN!Longer(q)]
  BY <1>1, <1>2, <1>3 DEF GN!Speculate
<1>5. /\ g \in Calls /\ held \in Seq(Cells) /\ position = Len(held) /\ StyleRight(style)
      /\ ids \in Seq(Tokens) /\ g.n # 0 /\ ids # <<>>
  BY <1>1, <1>2, Running
<1>6. ~style.tuned
  BY <1>5 DEF StyleRight
<1>7. k \in Nat /\ k # 0 /\ draft \in Seq(Tokens) /\ Len(draft) \in 1 .. k
  <2>1. k \in Int
    BY <1>1, <1>5, SizeTyped
  <2>2. draft \in Seq(Tokens) /\ Len(draft) \in 1 .. k
    BY <2>1, <1>1, DraftTyped
  <2>3. k \in Nat /\ k # 0
    BY <2>1, <2>2
  <2> QED
    BY <2>2, <2>3
<1>8. tail \in Seq(Tokens) /\ Len(tail) = k
  <2>1. k <= Len(ids \o draft)
    <3>1. Len(ids \o draft) \in Nat
      BY <1>5, <1>7, TypedConcat
    <3> QED
      BY <3>1, <1>4, <1>7
  <2>2. tail = GN!Final(k, ids \o draft)
    BY <1>2
  <2> QED
    BY <2>1, <2>2, <1>5, <1>7, TailRight
<1>9. held' \in Seq(Cells) /\ k <= Len(held')
  <2>1. PICK c : c = held'
    OBVIOUS
  <2>2. /\ held \in Seq(Cells) /\ position = Len(held) /\ ~style.tuned /\ ids \in Seq(Tokens) /\ ids # <<>> /\ call.ids = ids
        /\ tail \in Seq(Tokens) /\ k \in Nat /\ k = Len(tail) /\ k # 0
        /\ GN!Fits(GN!Rewound, GN!ToValidate(k, ids \o tail))
        /\ c = GN!CachedAfter(GN!Rewound, GN!ToValidate(k, ids \o tail))
    BY <2>1, <1>1, <1>2, <1>4, <1>5, <1>6, <1>7, <1>8
  <2>3. c \in Seq(Cells) /\ k <= Len(c)
    BY <2>2, RunsSome
  <2> QED
    BY <2>1, <2>3
<1>10. acc \in Seq(Tokens) /\ Len(acc) \in 1 .. k
  <2>1. PICK pref : pref = GN!Preferred(k, held')
    OBVIOUS
  <2>2. \A i \in 1 .. k : pref[i] \in Tokens
    BY <2>1, <1>7, <1>9, PreferredTyped
  <2>3. acc = GN!AcceptedTokens(tail, pref)
    BY <2>1, <1>3
  <2> QED
    BY <2>2, <2>3, <1>7, <1>8, AcceptedRight
<1>11. q \in Seq(Tokens) /\ q # <<>>
  <2>1. q \in Seq(Tokens) /\ Len(q) = Len(ids) + Len(acc) /\ Len(ids) \in Nat
    BY <1>3, <1>5, <1>10, TypedConcat
  <2>2. Len(q) # 0
    BY <2>1, <1>7, <1>10
  <2> QED
    BY <2>1, <2>2, EmptySeq
<1>12. GN!Longer(q) \in {"running", "stopped"}
  BY DEF GN!Longer
<1>13. k \in Int
  BY <1>7
<1>14. PICK h, l : h = call' /\ l = GN!Longer(q)
  OBVIOUS
<1>15. h \in Calls /\ h.ids = q /\ h.new = g.new /\ h.n = g.n /\ h.first = FALSE
  BY <1>4, <1>5, <1>11, <1>12, <1>13, <1>14 DEF Calls
<1> QED
  BY <1>1, <1>5, <1>9, <1>11, <1>14, <1>15

\* The first call of a session goes on greedily.
LEMMA SpeculateGreedily ==
  ASSUME GenerationAssumption, GenerationRight, call.phase = "running", style.mode = "speculative",
         InScope(style, kept, call.new),
         NEW draft \in GN!Drafts(GN!Size), GN!Speculate(draft)
  PROVE  ScopeRight(style, held', kept, skipped, call')
<1>1. PICK g, sp, base, k : g = call /\ sp = Prompted(style) /\ base = kept \o call.new /\ k = GN!Size
  OBVIOUS
<1>2. PICK ids, tail : ids = g.ids /\ tail = GN!Final(k, g.ids \o draft)
  OBVIOUS
<1>3. PICK acc, q : acc = GN!AcceptedTokens(tail, GN!Preferred(k, held')) /\ q = ids \o acc
  OBVIOUS
<1>4. /\ Len(ids \o draft) >= k
      /\ held' = GN!CachedAfter(GN!Rewound, GN!ToValidate(k, ids \o tail)) /\ position' = Len(held')
      /\ call' = [g EXCEPT !.ids = q, !.first = FALSE, !.size = k, !.phase = GN!Longer(q)]
      /\ style' = style /\ kept' = kept /\ skipped' = skipped /\ reply' = reply
  BY <1>1, <1>2, <1>3 DEF GN!Speculate
<1>5. /\ g \in Calls /\ kept \in Seq(Tokens) /\ held \in Seq(Cells) /\ position = Len(held) /\ skipped \in Nat
      /\ StyleRight(style) /\ CallRight(style, held, kept, skipped, g)
      /\ ids \in Seq(Tokens) /\ g.new \in Seq(Tokens) /\ g.n \in Nat /\ g.n # 0 /\ ids # <<>> /\ base \in Seq(Tokens)
  BY <1>1, <1>2, Running
<1>26. ScopeRight(style, held, kept, skipped, g)
  BY <1>1, SoFar
<1>6. PICK n \in Nat : Greedily(sp, base, ids, n) /\ n < g.n /\ (n = 0 \/ ids[Len(ids)] # Eos)
  BY <1>1, <1>2, SoFar
<1>7. ~style.tuned /\ sp = <<>>
  BY <1>1, <1>5 DEF StyleRight, Prompted
<1>8. kept = <<>> /\ \A i \in 1 .. Len(ids) : ids[i] # Eos
  BY <1>1, <1>2, <1>26 DEF ScopeRight, InScope, GoOn
<1>9. /\ k \in Nat /\ k # 0 /\ draft \in Seq(Tokens) /\ Len(draft) \in 1 .. k
      /\ MayEnd(draft)
  <2>1. k \in Int
    BY <1>1, <1>5, SizeTyped
  <2>2. draft \in Seq(Tokens) /\ Len(draft) \in 1 .. k /\ MayEnd(draft)
    BY <2>1, <1>1, DraftTyped DEF MayEnd
  <2>3. k \in Nat /\ k # 0
    BY <2>1, <2>2
  <2> QED
    BY <2>2, <2>3
<1>10. tail \in Seq(Tokens) /\ Len(tail) = k /\ MayEnd(tail)
  <2>1. k <= Len(ids \o draft)
    <3>1. Len(ids \o draft) \in Nat
      BY <1>5, <1>9, TypedConcat
    <3> QED
      BY <3>1, <1>4, <1>9
  <2>2. tail = GN!Final(k, ids \o draft)
    BY <1>2
  <2>3. GoOn(ids)
    BY <1>8 DEF GoOn
  <2> QED
    BY <2>1, <2>2, <2>3, <1>5, <1>9, TailRight
<1>11. held' = But1(ids \o tail)
  <2>1. IF call.first THEN held = <<>> /\ position = 0 ELSE SubSeq(held, 1, Len(ids) - 1) = But1(ids)
    <3>1. CASE g.first
      <4>1. held = <<>>
        BY <3>1, <1>8, <1>26 DEF ScopeRight, FirstRight, SessionRight
      <4> QED
        BY <4>1, <3>1, <1>1, <1>5, EmptySeq
    <3>2. CASE ~g.first
      <4>1. Behind(style, held, ids)
        BY <3>2, <1>2, <1>26 DEF ScopeRight, LaterRight
      <4>2. style.mode # "plain"
        OBVIOUS
      <4> QED
        BY <4>1, <4>2, <3>2, <1>1 DEF Behind
    <3> QED
      BY <3>1, <3>2
  <2>2. call.ids = ids
    BY <1>1, <1>2
  <2> QED
    BY <2>1, <2>2, <1>4, <1>5, <1>7, <1>9, <1>10, RunsDraft
<1>12. acc = GN!AcceptedTokens(tail, GN!Preferred(k, But1(ids \o tail)))
  BY <1>3, <1>11
<1>13. /\ acc \in Seq(Tokens) /\ Follows(acc, tail) /\ MayEnd(acc)
       /\ Greedily(sp, base, ids \o acc, n + Len(acc))
  <2>1. /\ sp = <<>> /\ Greedily(sp, base, ids, n) /\ ids # <<>> /\ (n = 0 \/ ids[Len(ids)] # Eos)
        /\ tail \in Seq(Tokens) /\ k = Len(tail) /\ k # 0 /\ MayEnd(tail)
    BY <1>5, <1>6, <1>7, <1>9, <1>10
  <2> QED
    BY <2>1, <1>6, <1>9, <1>12, AcceptedGreedily
<1>14. PICK L, a, m : L = Len(ids) /\ a = Len(acc) /\ m = n + Len(acc)
  OBVIOUS
<1>15. /\ q \in Seq(Tokens) /\ Len(q) = L + a /\ L \in Nat /\ L >= 1 /\ a \in 1 .. k /\ m \in Nat /\ m >= 1
       /\ \A i \in 1 .. L : q[i] = ids[i]
       /\ \A i \in 1 .. a : q[L + i] = acc[i]
  <2>1. /\ q \in Seq(Tokens) /\ Len(q) = L + a /\ L \in Nat
        /\ \A i \in 1 .. L : q[i] = ids[i]
        /\ \A i \in 1 .. a : q[L + i] = acc[i]
    BY <1>3, <1>5, <1>13, <1>14, TypedConcat
  <2>2. L >= 1
    BY <1>5, <1>14, But1Typed
  <2>3. a \in 1 .. k
    BY <1>10, <1>13, <1>14 DEF Follows
  <2>4. m \in Nat /\ m >= 1
    BY <2>3, <1>14
  <2> QED
    BY <2>1, <2>2, <2>3, <2>4
<1>16. held' \in Seq(Cells) /\ Behind(style, held', q)
  <2>1. PICK full : full = ids \o tail
    OBVIOUS
  <2>2. full \in Seq(Tokens) /\ Len(full) = L + k
    <3>1. full \in Seq(Tokens) /\ Len(full) = Len(ids) + Len(tail)
      BY <2>1, <1>5, <1>10, TypedConcat
    <3> QED
      BY <3>1, <1>10, <1>14
  <2>3. PICK e \in Nat, j \in Nat : e = L + k - 1 /\ j = L + a - 1
    <3>1. L + k - 1 \in Nat /\ L + a - 1 \in Nat
      BY <1>9, <1>15
    <3> QED
      BY <3>1
  <2>4. j <= e /\ e <= Len(full) /\ Len(full) - 1 = e /\ Len(q) - 1 = j
    BY <2>2, <2>3, <1>9, <1>15
  <2>5. full # <<>>
    BY <2>2, <1>9, <1>15, EmptySeq
  <2>6. held' = SubSeq(full, 1, e) /\ held' \in Seq(Tokens) /\ Len(held') = e
    <3>1. But1(full) \in Seq(Tokens) /\ Len(But1(full)) = Len(full) - 1
      BY <2>2, <2>5, But1Typed
    <3> QED
      BY <3>1, <2>1, <2>4, <1>11 DEF But1
  <2>7. SubSeq(SubSeq(full, 1, e), 1, j) = SubSeq(full, 1, j)
    BY <2>2, <2>4, PartOfPart
  <2>8. SubSeq(ids \o acc, 1, j) = SubSeq(ids \o tail, 1, j)
    <3>1. j <= Len(ids) + Len(acc) - 1
      BY <2>3, <1>14
    <3>2. ids \in Seq(Tokens) /\ tail \in Seq(Tokens) /\ acc \in Seq(Tokens) /\ Follows(acc, tail) /\ j \in Nat
      BY <1>5, <1>10, <1>13
    <3> QED
      BY <3>1, <3>2, AcceptedPart, ZenonT(40)
  <2>9. SubSeq(held', 1, Len(q) - 1) = But1(q)
    BY <2>1, <2>4, <2>6, <2>7, <2>8, <1>3 DEF But1
  <2>10. Len(q) - 1 <= Len(held')
    BY <2>4, <2>6
  <2>11. held' \in Seq(Cells)
    BY <2>6, TokensAreCells
  <2>12. style.mode # "plain"
    OBVIOUS
  <2> QED
    BY <2>9, <2>10, <2>11, <2>12 DEF Behind
<1>17. PICK l : l = Len(q)
  OBVIOUS
<1>18. GN!Longer(q) = IF m >= g.n \/ q[l] = Eos THEN "stopped" ELSE "running"
  <2>1. Len(q) = Len(base) + m
    BY <1>3, <1>13, <1>14 DEF Greedily
  <2>2. Len(q) = Len(kept \o call.new) + m
    BY <2>1, <1>1
  <2>3. GN!Longer(q) = IF m >= call.n \/ q[Len(q)] = Eos THEN "stopped" ELSE "running"
    BY <2>2, <1>1, <1>5, <1>15, LongerMeans
  <2> QED
    BY <2>3, <1>1, <1>17
<1>19. PICK h : h = call'
  OBVIOUS
<1>20. /\ h \in Calls /\ h.ids = q /\ h.new = g.new /\ h.n = g.n /\ h.first = FALSE
       /\ h.phase = IF m >= g.n \/ q[l] = Eos THEN "stopped" ELSE "running"
  <2>1. k \in Int
    BY <1>9
  <2> QED
    BY <2>1, <1>4, <1>5, <1>15, <1>18, <1>19 DEF Calls
<1>21. h.phase = "running" => GoOn(h.ids)
  <2>1. SUFFICES ASSUME h.phase = "running", NEW i \in 1 .. L + a PROVE q[i] # Eos
    BY <1>15, <1>20 DEF GoOn
  <2>2. q[L + a] # Eos
    BY <2>1, <1>15, <1>17, <1>20
  <2>3. CASE i <= L
    <3>1. i \in 1 .. L
      BY <2>3
    <3> QED
      BY <3>1, <1>8, <1>14, <1>15
  <2>4. CASE ~(i <= L)
    <3>1. PICK j \in Nat : j = i - L
      <4>1. i - L \in Nat
        BY <2>4, <1>15
      <4> QED
        BY <4>1
    <3>2. i = L + j /\ j \in 1 .. a
      BY <3>1, <2>4, <1>15
    <3>3. CASE j = a
      BY <3>2, <3>3, <2>2
    <3>4. CASE j # a
      <4>1. j \in 1 .. a - 1
        BY <3>2, <3>4, <1>15
      <4>2. acc[j] # Eos
        BY <4>1, <1>13, <1>14 DEF MayEnd
      <4> QED
        BY <4>2, <3>2, <1>15
    <3> QED
      BY <3>3, <3>4
  <2> QED
    BY <2>3, <2>4
<1>22. LaterRight(style, held', kept, h)
  <2>1. Len(q) >= 2
    BY <1>15
  <2>2. h.phase = "running" => GoesOn(h, m)
    <3>1. h.phase = "running" => ~(m >= g.n) /\ q[l] # Eos
      BY <1>20
    <3>2. ~(m >= g.n) => m < g.n
      BY <1>5, <1>15
    <3> QED
      BY <3>1, <3>2, <1>17, <1>20 DEF GoesOn
  <2>3. h.phase # "running" => Enough(style, kept, h, m)
    <3>1. Len(base) + m = l
      BY <1>3, <1>13, <1>14, <1>17 DEF Greedily
    <3>2. m > g.n \/ m = g.n \/ m < g.n
      BY <1>5, <1>15
    <3>3. h.phase # "running" => Complete(base, q, m, g.n) \/ m > g.n
      BY <3>1, <3>2, <1>5, <1>15, <1>20 DEF Complete
    <3> QED
      BY <3>3, <1>1, <1>20 DEF Enough
  <2>4. m \in Nat \ {0} /\ Greedily(Prompted(style), kept \o h.new, h.ids, m)
    BY <1>1, <1>3, <1>13, <1>14, <1>15, <1>20
  <2> QED
    BY <2>1, <2>2, <2>3, <2>4, <1>7, <1>16, <1>20 DEF LaterRight
<1> QED
  BY <1>19, <1>20, <1>21, <1>22 DEF ScopeRight

LEMMA SpeculateKeeps ==
  ASSUME GenerationAssumption, GenerationRight, call.phase = "running", style.mode = "speculative",
         NEW draft \in GN!Drafts(GN!Size), GN!Speculate(draft)
  PROVE  GenerationRight'
<1>1. /\ position' = Len(held') /\ style' = style /\ kept' = kept /\ skipped' = skipped /\ reply' = reply
  BY DEF GN!Speculate
<1>2. /\ held' \in Seq(Cells) /\ call' \in Calls /\ call'.n # 0 /\ call'.ids # <<>> /\ call'.first = FALSE
      /\ call'.new = call.new
  BY SpeculateTyped
<1>3. InScope(style, kept, call.new) => ScopeRight(style, held', kept, skipped, call')
  BY SpeculateGreedily
<1>4. PICK h : h = call'
  OBVIOUS
<1>5. CallRight(style, held', kept, skipped, h)
  BY <1>2, <1>3, <1>4 DEF CallRight
<1>6. h.phase \in {"running", "stopped"}
  BY <1>2, <1>4 DEF Calls
<1>7. CallRight(style', held', kept', skipped', call') /\ InCall(call') /\ call'.phase \in {"running", "stopped"}
  BY <1>1, <1>4, <1>5, <1>6 DEF InCall
<1>8. skipped' \in Nat /\ AnswerRight(style', reply') /\ StyleRight(style') /\ kept' \in Seq(Tokens)
  BY <1>1, Running DEF GenerationRight
<1> QED
  BY <1>1, <1>2, <1>7, <1>8 DEF GenerationRight

-----------------------------------------------------------------------------
\* Every answer is greedy.

LEMMA GreedyIs ==
  ASSUME NEW ids, NEW r, NEW k, Greedily(Prompted(style), ids, r, k), NEW n \in Nat, Complete(ids, r, k, n)
  PROVE  GN!Greedy(ids, n) = r
<1>1. PICK sp : sp = Prompted(style)
  OBVIOUS
<1>2. GN!SoftPrompt = sp
  BY <1>1 DEF GN!SoftPrompt, Prompted
<1>3. PICK up : up = CHOOSE g : GreedyGraph(sp, ids, n, g)
  OBVIOUS
<1>4. \E g : GreedyGraph(sp, ids, n, g)
  BY GreedyGraphExists
<1>5. GreedyGraph(sp, ids, n, up)
  BY <1>3, <1>4
<1>6. up[n] = r
  BY <1>1, <1>5, GraphIsGreedy
<1>7. GN!Greedy(ids, n) = up[n]
  BY <1>2, <1>3 DEF GN!Greedy, GN!Last, GreedyGraph
<1> QED
  BY <1>6, <1>7

LEMMA AnswersRight == ASSUME GenerationAssumption, GenerationRight, InScope(style, reply.from, reply.new) PROVE GN!FollowsGreedily
<1>1. PICK a : a = reply
  OBVIOUS
<1>2. a.from \in Seq(Tokens) /\ a.new \in Seq(Tokens) /\ a.n \in Nat /\ AnswerIs(style, a)
  BY <1>1 DEF GenerationRight, AnswerRight
<1>3. PICK r, k : /\ Greedily(Prompted(style), a.from \o a.new, r, k)
                  /\ Complete(a.from \o a.new, r, k, a.n) \/ (style.mode = "speculative" /\ k > a.n)
                  /\ a.got = SubSeq(r, Len(a.from) + 1, Len(r))
  BY <1>2 DEF AnswerIs
<1>4. PICK base, f, w : base = a.from \o a.new /\ f = Len(a.from) /\ w = Len(a.new)
  OBVIOUS
<1>5. f \in Nat /\ w \in Nat /\ Len(base) = f + w
  BY <1>2, <1>4, TypedConcat
<1>6. r \in Seq(Tokens) /\ k \in Nat /\ Len(r) = f + w + k
  <2>1. r \in Seq(Tokens) /\ k \in Nat /\ Len(r) = Len(base) + k
    BY <1>3, <1>4 DEF Greedily
  <2> QED
    BY <2>1, <1>5
<1>7. Len(a.got) = w + k
  <2>1. Len(SubSeq(r, f + 1, Len(r))) = IF f <= Len(r) THEN Len(r) - f ELSE 0
    BY <1>5, <1>6, RestOfTokens
  <2>2. Len(a.got) = IF f <= Len(r) THEN Len(r) - f ELSE 0
    BY <2>1, <1>3, <1>4
  <2> QED
    BY <2>2, <1>5, <1>6
<1>8. PICK x : x = Len(a.got) - w - a.n
  OBVIOUS
<1>9. x = k - a.n
  BY <1>2, <1>5, <1>6, <1>7, <1>8
<1>10. PICK n : n = IF style.mode = "speculative" /\ x > 0 THEN a.n + x ELSE a.n
  OBVIOUS
<1>11. n \in Nat /\ Complete(base, r, k, n)
  <2>1. CASE style.mode = "speculative" /\ x > 0
    <3>1. n = k
      BY <2>1, <1>2, <1>6, <1>9, <1>10
    <3> QED
      BY <3>1, <1>6 DEF Complete
  <2>2. CASE ~(style.mode = "speculative" /\ x > 0)
    <3>1. n = a.n
      BY <2>2, <1>10
    <3>2. x > 0 <=> k > a.n
      BY <1>2, <1>6, <1>9
    <3>3. Complete(base, r, k, a.n)
      BY <2>2, <3>2, <1>3, <1>4
    <3> QED
      BY <3>1, <3>3, <1>2
  <2> QED
    BY <2>1, <2>2
<1>12. GN!Greedy(base, n) = r
  BY <1>3, <1>4, <1>11, GreedyIs
<1>13. a.got = SubSeq(GN!Greedy(base, n), f + 1, Len(GN!Greedy(base, n)))
  BY <1>3, <1>4, <1>12
<1> QED
  BY <1>1, <1>4, <1>8, <1>10, <1>13 DEF GN!FollowsGreedily, GN!But

LEMMA GenerationNext ==
  ASSUME GenerationAssumption, GenerationRight, [GN!NextGeneration]_(GN!genVars) PROVE GenerationRight'
<1>1. CASE \E new \in Inputs \cup {<<>>}, n \in NewTokens : GN!Generate(new, n)
  BY <1>1, GenerateKeeps
<1>2. CASE GN!Decode
  BY <1>2, DecodeKeeps
<1>3. CASE call.phase = "running" /\ style.mode = "speculative" /\ \E d \in GN!Drafts(GN!Size) : GN!Speculate(d)
  BY <1>3, SpeculateKeeps
<1>4. CASE GN!Return
  BY <1>4, ReturnKeeps
<1>5. CASE GN!Raise
  BY <1>5, RaiseKeeps
<1>6. CASE GN!NewSession
  BY <1>6, NewSessionKeeps
<1>7. CASE UNCHANGED GN!genVars
  BY <1>7 DEF GN!genVars, GenerationRight
<1> QED
  BY <1>1, <1>2, <1>3, <1>4, <1>5, <1>6, <1>7 DEF GN!NextGeneration

\* Plain generation answers every call, whatever was generated in its session before and whatever the user gives,
\* by what greedy generation gives after all tokens of the session; speculative generation answers so the first call
\* of a session, whatever a small model drafts, if its prompt holds no Eos.  A model with soft prompts answers the
\* first call of a session only.
THEOREM AnswersFollowGreedily == ASSUME GenerationAssumption PROVE GN!SpecGeneration => []GN!AnswersAreGreedy
<1>1. GN!InitGeneration => GenerationRight
  BY GenerationStarts
<1>2. GenerationRight /\ [GN!NextGeneration]_(GN!genVars) => GenerationRight'
  BY GenerationNext
<1>3. GenerationRight => GN!AnswersAreGreedy
  <2>1. SUFFICES ASSUME GenerationRight PROVE GN!AnswersAreGreedy
    OBVIOUS
  <2>2. reply.new \in Seq(Tokens) /\ (style.tuned => reply.from = <<>>)
    BY <2>1 DEF GenerationRight, AnswerRight
  <2>3. GN!NoEos(reply.new) => \A i \in 1 .. Len(reply.new) : reply.new[i] # Eos
    BY <2>2, LenProperties DEF GN!NoEos
  <2>4. (style.mode = "speculative" => reply.from = <<>> /\ GN!NoEos(reply.new)) => GN!FollowsGreedily
    BY <2>1, <2>3, AnswersRight DEF InScope
  <2> QED
    BY <2>2, <2>4 DEF GN!AnswersAreGreedy
<1> QED
  BY <1>1, <1>2, <1>3, PTL DEF GN!SpecGeneration

-----------------------------------------------------------------------------
(***************************************************************************)
(* WorkloadDispatch.                                                       *)
(***************************************************************************)

CONSTANTS ChainOrder, Prompts, Datasets, DatasetOf(_), MaxDeaths
VARIABLES queue, worker, stdin, closed, stdout, pump, inflight, handed, recorded, missing, reaped, report

WD == INSTANCE WorkloadDispatch WITH ids <- handed, done <- recorded, lost <- missing

Elems(s) == {s[i] : i \in 1 .. Len(s)}
Once(s) == \A i, j \in 1 .. Len(s) : s[i] = s[j] => i = j
Names == Elems(Prompts)
Workers == Elems(ChainOrder)

\* There is a chain; the prompts of a file differ, and so do the names of the datasets it is of.
DispatchAssumption ==
  /\ ChainOrder \in Seq(Workers) /\ Once(ChainOrder) /\ ChainOrder # <<>>
  /\ Prompts \in Seq(Names) /\ Once(Prompts)
  /\ Datasets \in Seq(Elems(Datasets)) /\ Once(Datasets)
  /\ \A p \in Names : DatasetOf(p) \in Elems(Datasets)
  /\ \A p \in Names : p \notin {"none", "free", "waiting", "finished", "died"}

-----------------------------------------------------------------------------
\* Sequences without repetitions, and what they are put together from.

LEMMA ElemsAre ==
  ASSUME NEW S, NEW s \in Seq(S)
  PROVE  /\ WD!ToSet(s) = Elems(s) /\ (WD!IsInjective(s) <=> Once(s)) /\ Elems(s) \subseteq S /\ Len(s) \in Nat
         /\ DOMAIN s = 1 .. Len(s)
<1>1. DOMAIN s = 1 .. Len(s) /\ Len(s) \in Nat
  BY LenProperties
<1>2. Elems(s) \subseteq S
  BY ElementOfSeq DEF Elems
<1> QED
  BY <1>1, <1>2 DEF WD!ToSet, WD!IsInjective, Elems, Once

LEMMA ConcatElems ==
  ASSUME NEW S, NEW s \in Seq(S), NEW t \in Seq(S)
  PROVE  Elems(s \o t) = Elems(s) \cup Elems(t)
<1>1. PICK c, m, n : c = s \o t /\ m = Len(s) /\ n = Len(t)
  OBVIOUS
<1>2. /\ Len(c) = m + n /\ m \in Nat /\ n \in Nat
      /\ \A i \in 1 .. m : c[i] = s[i]
      /\ \A i \in 1 .. n : c[m + i] = t[i]
  BY <1>1, TypedConcat
<1>3. ASSUME NEW i \in 1 .. m + n PROVE c[i] \in Elems(s) \cup Elems(t)
  <2>1. CASE i <= m
    <3>1. i \in 1 .. m
      BY <2>1
    <3> QED
      BY <3>1, <1>1, <1>2 DEF Elems
  <2>2. CASE ~(i <= m)
    <3>1. PICK j \in 1 .. n : i = m + j
      <4>1. i - m \in 1 .. n /\ i = m + (i - m)
        BY <2>2, <1>2
      <4> QED
        BY <4>1
    <3> QED
      BY <3>1, <1>1, <1>2 DEF Elems
  <2> QED
    BY <2>1, <2>2
<1>4. ASSUME NEW i \in 1 .. m PROVE s[i] \in Elems(c)
  <2>1. i \in 1 .. m + n
    BY <1>2
  <2> QED
    BY <2>1, <1>2 DEF Elems
<1>5. ASSUME NEW i \in 1 .. n PROVE t[i] \in Elems(c)
  <2>1. m + i \in 1 .. m + n
    BY <1>2
  <2> QED
    BY <2>1, <1>2 DEF Elems
<1>6. Elems(c) \subseteq Elems(s) \cup Elems(t)
  BY <1>2, <1>3 DEF Elems
<1>7. Elems(s) \cup Elems(t) \subseteq Elems(c)
  BY <1>1, <1>4, <1>5 DEF Elems
<1> QED
  BY <1>1, <1>6, <1>7

LEMMA ConcatOnce ==
  ASSUME NEW S, NEW s \in Seq(S), NEW t \in Seq(S), Once(s), Once(t), Elems(s) \cap Elems(t) = {}
  PROVE  Once(s \o t)
<1>1. PICK c, m, n : c = s \o t /\ m = Len(s) /\ n = Len(t)
  OBVIOUS
<1>2. /\ Len(c) = m + n /\ m \in Nat /\ n \in Nat
      /\ \A i \in 1 .. m : c[i] = s[i]
      /\ \A i \in 1 .. n : c[m + i] = t[i]
  BY <1>1, TypedConcat
<1>3. ASSUME NEW i \in 1 .. m + n
      PROVE  \/ i \in 1 .. m /\ c[i] = s[i] /\ c[i] \in Elems(s)
             \/ \E k \in 1 .. n : i = m + k /\ c[i] = t[k] /\ c[i] \in Elems(t)
  <2>1. CASE i <= m
    <3>1. i \in 1 .. m
      BY <2>1
    <3> QED
      BY <3>1, <1>1, <1>2 DEF Elems
  <2>2. CASE ~(i <= m)
    <3>1. PICK j \in 1 .. n : i = m + j
      <4>1. i - m \in 1 .. n /\ i = m + (i - m)
        BY <2>2, <1>2
      <4> QED
        BY <4>1
    <3> QED
      BY <3>1, <1>1, <1>2 DEF Elems
  <2> QED
    BY <2>1, <2>2
<1>4. ASSUME NEW i \in 1 .. m + n, NEW j \in 1 .. m + n, c[i] = c[j] PROVE i = j
  <2>1. CASE c[i] \in Elems(s)
    <3>1. i \in 1 .. m /\ j \in 1 .. m /\ s[i] = s[j]
      BY <2>1, <1>3, <1>4
    <3> QED
      BY <3>1, <1>1 DEF Once
  <2>2. CASE c[i] \notin Elems(s)
    <3>1. PICK k \in 1 .. n, l \in 1 .. n : i = m + k /\ j = m + l /\ t[k] = t[l]
      BY <2>2, <1>3, <1>4
    <3> QED
      BY <3>1, <1>1 DEF Once
  <2> QED
    BY <2>1, <2>2
<1> QED
  BY <1>1, <1>2, <1>4 DEF Once

LEMMA OneElem == ASSUME NEW S, NEW x \in S PROVE <<x>> \in Seq(S) /\ Once(<<x>>) /\ Elems(<<x>>) = {x} /\ Len(<<x>>) = 1
<1>1. PICK s : s = <<x>>
  OBVIOUS
<1>2. s \in Seq(S) /\ Len(s) = 1 /\ s[1] = x
  BY <1>1
<1>3. Once(s) /\ Elems(s) = {x}
  BY <1>2 DEF Once, Elems
<1> QED
  BY <1>1, <1>2, <1>3

LEMMA NoElems == ASSUME NEW S PROVE <<>> \in Seq(S) /\ Once(<<>>) /\ Elems(<<>>) = {} /\ Len(<<>>) = 0
<1>1. Len(<<>>) = 0 /\ <<>> \in Seq(S)
  BY EmptySeq
<1> QED
  BY <1>1 DEF Once, Elems

LEMMA AppendElems ==
  ASSUME NEW S, NEW s \in Seq(S), NEW x \in S
  PROVE  /\ Append(s, x) \in Seq(S) /\ Elems(Append(s, x)) = Elems(s) \cup {x}
         /\ Once(s) /\ x \notin Elems(s) => Once(Append(s, x))
<1>1. Append(s, x) = s \o <<x>> /\ Append(s, x) \in Seq(S)
  BY AppendIsConcat, AppendProperties
<1>2. PICK o : o = <<x>>
  OBVIOUS
<1>3. o \in Seq(S) /\ Once(o) /\ Elems(o) = {x}
  BY <1>2, OneElem
<1>4. Elems(s \o o) = Elems(s) \cup {x}
  BY <1>3, ConcatElems
<1>5. ASSUME Once(s), x \notin Elems(s) PROVE Once(s \o o)
  <2>1. Elems(s) \cap Elems(o) = {}
    BY <1>3, <1>5
  <2> QED
    BY <2>1, <1>3, <1>5, ConcatOnce
<1> QED
  BY <1>1, <1>2, <1>4, <1>5

LEMMA AppendGrows ==
  ASSUME NEW S, NEW s \in Seq(S), NEW x \in S
  PROVE  Append(s, x) \in Seq(S) /\ Elems(s) \subseteq Elems(Append(s, x))
<1>1. Append(s, x) \in Seq(S) /\ Elems(Append(s, x)) = Elems(s) \cup {x}
  BY AppendElems
<1> QED
  BY <1>1

-----------------------------------------------------------------------------
\* Flattened sequences.

FlatGraph(ss, n, f) == f = [i \in 1 .. n |-> IF i = 1 THEN ss[i] ELSE f[i - 1] \o ss[i]]

LEMMA FlatGraphExists == ASSUME NEW ss, NEW n \in Nat PROVE \E f : FlatGraph(ss, n, f)
<1>1. PICK bad : bad = {m \in Nat : ~\E f : FlatGraph(ss, m, f)}
  OBVIOUS
<1>2. SUFFICES ASSUME bad # {} PROVE FALSE
  BY <1>1
<1>3. PICK m \in bad : \A k \in bad : ~(k < m)
  BY <1>1, <1>2, LeastExists
<1>4. m \in Nat
  BY <1>1
<1>5. CASE m = 0
  <2>1. PICK f : f = [i \in 1 .. 0 |-> ss]
    OBVIOUS
  <2>2. FlatGraph(ss, 0, f)
    BY <2>1 DEF FlatGraph
  <2> QED
    BY <2>2, <1>1, <1>5
<1>6. CASE m # 0
  <2>1. m - 1 \in Nat /\ m - 1 \notin bad
    BY <1>3, <1>4, <1>6
  <2>2. PICK f : FlatGraph(ss, m - 1, f)
    BY <2>1, <1>1
  <2>3. PICK h : h = [i \in 1 .. m |-> IF i < m THEN f[i] ELSE IF m = 1 THEN ss[m] ELSE f[m - 1] \o ss[m]]
    OBVIOUS
  <2>4. ASSUME NEW i \in 1 .. m PROVE h[i] = IF i = 1 THEN ss[i] ELSE h[i - 1] \o ss[i]
    <3>1. CASE i < m
      <4>1. i \in 1 .. m - 1 /\ (i # 1 => i - 1 \in 1 .. m /\ i - 1 < m)
        BY <3>1, <1>4
      <4>2. f[i] = IF i = 1 THEN ss[i] ELSE f[i - 1] \o ss[i]
        BY <4>1, <2>2 DEF FlatGraph
      <4>3. h[i] = f[i] /\ (i # 1 => h[i - 1] = f[i - 1])
        BY <4>1, <3>1, <2>3
      <4> QED
        BY <4>2, <4>3
    <3>2. CASE ~(i < m)
      <4>1. i = m /\ (i # 1 => i - 1 \in 1 .. m /\ i - 1 < m)
        BY <3>2, <1>4
      <4>2. h[i] = (IF m = 1 THEN ss[m] ELSE f[m - 1] \o ss[m]) /\ (i # 1 => h[i - 1] = f[m - 1])
        BY <4>1, <3>2, <2>3
      <4> QED
        BY <4>1, <4>2
    <3> QED
      BY <3>1, <3>2
  <2>5. FlatGraph(ss, m, h)
    <3>1. h = [i \in 1 .. m |-> h[i]]
      BY <2>3
    <3> QED
      BY <3>1, <2>4 DEF FlatGraph
  <2> QED
    BY <2>5, <1>1
<1> QED
  BY <1>5, <1>6

\* What a part of the sequences comes to.
Flat(S, ss, m, t) ==
  /\ t \in Seq(S)
  /\ Elems(t) = UNION {Elems(ss[i]) : i \in 1 .. m}
  /\ (\A i \in 1 .. m : Once(ss[i])) /\ (\A i, j \in 1 .. m : i # j => Elems(ss[i]) \cap Elems(ss[j]) = {}) => Once(t)

LEMMA FlatGoesOn ==
  ASSUME NEW S, NEW ss \in Seq(Seq(S)), NEW m \in Nat, m + 1 <= Len(ss), NEW t, Flat(S, ss, m, t)
  PROVE  Flat(S, ss, m + 1, t \o ss[m + 1])
<1>1. PICK n, u, e : n = m + 1 /\ u = ss[m + 1] /\ e = t \o ss[m + 1]
  OBVIOUS
<1>2. Len(ss) \in Nat /\ n \in 1 .. Len(ss)
  BY <1>1, LenProperties
<1>3. u \in Seq(S) /\ t \in Seq(S) /\ Elems(t) = UNION {Elems(ss[i]) : i \in 1 .. m}
  BY <1>1, <1>2, ElementOfSeq DEF Flat
<1>4. e \in Seq(S) /\ Elems(e) = Elems(t) \cup Elems(u)
  BY <1>1, <1>3, ConcatElems, ConcatProperties
<1>5. 1 .. n = (1 .. m) \cup {n} /\ n \notin 1 .. m
  BY <1>1
<1>6. Elems(e) = UNION {Elems(ss[i]) : i \in 1 .. n}
  BY <1>1, <1>3, <1>4, <1>5
<1>7. ASSUME \A i \in 1 .. n : Once(ss[i]), \A i, j \in 1 .. n : i # j => Elems(ss[i]) \cap Elems(ss[j]) = {} PROVE Once(e)
  <2>1. Once(t)
    BY <1>5, <1>7 DEF Flat
  <2>2. Once(u)
    BY <1>1, <1>5, <1>7
  <2>3. Elems(t) \cap Elems(u) = {}
    <3>1. SUFFICES ASSUME NEW i \in 1 .. m PROVE Elems(ss[i]) \cap Elems(u) = {}
      BY <1>3
    <3>2. i \in 1 .. n /\ n \in 1 .. n /\ i # n
      BY <1>5
    <3> QED
      BY <3>2, <1>1, <1>7
  <2> QED
    BY <2>1, <2>2, <2>3, <1>1, <1>3, ConcatOnce
<1> QED
  BY <1>1, <1>4, <1>6, <1>7 DEF Flat

LEMMA FlattenRight == ASSUME NEW S, NEW ss \in Seq(Seq(S)) PROVE Flat(S, ss, Len(ss), WD!FlattenSeq(ss))
<1>1. PICK n : n = Len(ss)
  OBVIOUS
<1>2. n \in Nat
  BY <1>1, LenProperties
<1>3. CASE n = 0
  <2>1. ss = <<>>
    BY <1>1, <1>3, EmptySeq
  <2>2. WD!FlattenSeq(ss) = <<>>
    BY <2>1, <1>1, <1>3 DEF WD!FlattenSeq
  <2>3. Flat(S, ss, 0, <<>>)
    <3>1. <<>> \in Seq(S) /\ Once(<<>>) /\ Elems(<<>>) = {}
      BY NoElems
    <3>2. {Elems(ss[i]) : i \in 1 .. 0} = {}
      OBVIOUS
    <3> QED
      BY <3>1, <3>2 DEF Flat
  <2> QED
    BY <2>2, <2>3, <1>1, <1>3
<1>4. CASE n # 0
  <2>1. PICK f : f = CHOOSE g : FlatGraph(ss, n, g)
    OBVIOUS
  <2>2. FlatGraph(ss, n, f)
    BY <2>1, <1>2, FlatGraphExists
  <2>3. WD!FlattenSeq(ss) = f[n]
    BY <2>1, <1>1, <1>4 DEF WD!FlattenSeq, FlatGraph
  <2>4. \A i \in 1 .. n : f[i] = IF i = 1 THEN ss[i] ELSE f[i - 1] \o ss[i]
    BY <2>2 DEF FlatGraph
  <2>5. PICK bad : bad = {m \in 1 .. n : ~Flat(S, ss, m, f[m])}
    OBVIOUS
  <2>6. ASSUME bad # {} PROVE FALSE
    <3>1. PICK m \in bad : \A k \in bad : ~(k < m)
      <4>1. bad \subseteq Nat
        BY <2>5
      <4> QED
        BY <4>1, <2>6, LeastExists
    <3>2. m \in 1 .. n /\ ~Flat(S, ss, m, f[m])
      BY <2>5
    <3>3. CASE m = 1
      <4>1. f[1] = ss[1] /\ ss[1] \in Seq(S)
        BY <3>2, <3>3, <2>4, <1>1, ElementOfSeq
      <4>2. 1 .. 1 = {1}
        OBVIOUS
      <4>3. Flat(S, ss, 1, ss[1])
        BY <4>1, <4>2 DEF Flat
      <4> QED
        BY <4>1, <4>3, <3>2, <3>3
    <3>4. CASE m # 1
      <4>1. PICK k \in Nat : k = m - 1
        BY <3>2
      <4>2. k \in 1 .. n /\ k < m /\ m = k + 1 /\ k + 1 <= Len(ss)
        BY <4>1, <3>2, <3>4, <1>1, <1>2
      <4>3. Flat(S, ss, k, f[k])
        BY <4>2, <3>1, <2>5
      <4>4. Flat(S, ss, k + 1, f[k] \o ss[k + 1])
        BY <4>2, <4>3, FlatGoesOn
      <4>5. f[m] = f[k] \o ss[k + 1]
        BY <4>1, <4>2, <3>2, <3>4, <2>4
      <4> QED
        BY <4>2, <4>4, <4>5, <3>2
    <3> QED
      BY <3>3, <3>4
  <2>7. n \in 1 .. n /\ n \notin bad
    BY <2>6, <1>2, <1>4
  <2> QED
    BY <2>3, <2>5, <2>7, <1>1
<1> QED
  BY <1>3, <1>4

-----------------------------------------------------------------------------
\* The order of the queue.

GroupGraph(prompts, d, n, g) ==
  g = [i \in 0 .. n |-> IF i = 0 THEN <<>>
                        ELSE IF DatasetOf(prompts[i]) = d THEN Append(g[i - 1], prompts[i])
                        ELSE g[i - 1]]

LEMMA GroupGraphExists == ASSUME NEW prompts, NEW d, NEW n \in Nat PROVE \E g : GroupGraph(prompts, d, n, g)
<1>1. PICK bad : bad = {m \in Nat : ~\E g : GroupGraph(prompts, d, m, g)}
  OBVIOUS
<1>2. SUFFICES ASSUME bad # {} PROVE FALSE
  BY <1>1
<1>3. PICK m \in bad : \A k \in bad : ~(k < m)
  BY <1>1, <1>2, LeastExists
<1>4. m \in Nat
  BY <1>1
<1>5. CASE m = 0
  <2>1. PICK g : g = [i \in 0 .. 0 |-> <<>>]
    OBVIOUS
  <2>2. GroupGraph(prompts, d, 0, g)
    BY <2>1 DEF GroupGraph
  <2> QED
    BY <2>2, <1>1, <1>5
<1>6. CASE m # 0
  <2>1. m - 1 \in Nat /\ m - 1 \notin bad
    BY <1>3, <1>4, <1>6
  <2>2. PICK g : GroupGraph(prompts, d, m - 1, g)
    BY <2>1, <1>1
  <2>3. PICK v : v = IF DatasetOf(prompts[m]) = d THEN Append(g[m - 1], prompts[m]) ELSE g[m - 1]
    OBVIOUS
  <2>4. PICK h : h = [i \in 0 .. m |-> IF i = m THEN v ELSE g[i]]
    OBVIOUS
  <2>5. ASSUME NEW i \in 0 .. m
        PROVE  h[i] = IF i = 0 THEN <<>>
                      ELSE IF DatasetOf(prompts[i]) = d THEN Append(h[i - 1], prompts[i])
                      ELSE h[i - 1]
    <3>1. CASE i = m
      <4>1. i # 0 /\ i - 1 \in 0 .. m /\ i - 1 # m
        BY <3>1, <1>4, <1>6
      <4>2. h[i - 1] = g[m - 1] /\ h[i] = v
        BY <4>1, <2>4, <3>1
      <4> QED
        BY <3>1, <4>1, <4>2, <2>3
    <3>2. CASE i # m
      <4>1. i \in 0 .. m - 1 /\ (i # 0 => i - 1 \in 0 .. m /\ i - 1 # m)
        BY <3>2, <1>4
      <4>2. g[i] = IF i = 0 THEN <<>>
                   ELSE IF DatasetOf(prompts[i]) = d THEN Append(g[i - 1], prompts[i])
                   ELSE g[i - 1]
        BY <4>1, <2>2 DEF GroupGraph
      <4>3. h[i] = g[i] /\ (i # 0 => h[i - 1] = g[i - 1])
        BY <4>1, <3>2, <2>4
      <4> QED
        BY <4>2, <4>3
    <3> QED
      BY <3>1, <3>2
  <2>6. GroupGraph(prompts, d, m, h)
    <3>1. h = [i \in 0 .. m |-> h[i]]
      BY <2>4
    <3> QED
      BY <3>1, <2>5 DEF GroupGraph
  <2> QED
    BY <2>6, <1>1
<1> QED
  BY <1>5, <1>6

\* The prompts of a dataset among the first m.
Grouped(d, m, t) ==
  /\ t \in Seq(Names) /\ Once(t) /\ Len(t) <= m
  /\ Elems(t) = {p \in {Prompts[i] : i \in 1 .. m} : DatasetOf(p) = d}

LEMMA GroupRight == ASSUME DispatchAssumption, NEW d PROVE Grouped(d, Len(Prompts), WD!Group(Prompts, d))
<1>1. PICK n : n = Len(Prompts)
  OBVIOUS
<1>2. n \in Nat /\ Prompts \in Seq(Names) /\ Once(Prompts)
  BY <1>1, LenProperties DEF DispatchAssumption
<1>3. PICK g : g = CHOOSE h : GroupGraph(Prompts, d, n, h)
  OBVIOUS
<1>4. GroupGraph(Prompts, d, n, g)
  BY <1>2, <1>3, GroupGraphExists
<1>5. WD!Group(Prompts, d) = g[n]
  BY <1>1, <1>3 DEF WD!Group, GroupGraph
<1>6. \A i \in 0 .. n : g[i] = IF i = 0 THEN <<>>
                               ELSE IF DatasetOf(Prompts[i]) = d THEN Append(g[i - 1], Prompts[i])
                               ELSE g[i - 1]
  BY <1>4 DEF GroupGraph
<1>7. PICK bad : bad = {m \in 0 .. n : ~Grouped(d, m, g[m])}
  OBVIOUS
<1>8. ASSUME bad # {} PROVE FALSE
  <2>1. PICK m \in bad : \A k \in bad : ~(k < m)
    <3>1. bad \subseteq Nat
      BY <1>7
    <3> QED
      BY <3>1, <1>8, LeastExists
  <2>2. m \in 0 .. n /\ ~Grouped(d, m, g[m])
    BY <1>7
  <2>3. CASE m = 0
    <3>1. g[0] = <<>>
      BY <1>2, <1>6
    <3>2. <<>> \in Seq(Names) /\ Once(<<>>) /\ Elems(<<>>) = {} /\ Len(<<>>) = 0
      BY NoElems
    <3>3. {Prompts[i] : i \in 1 .. 0} = {}
      OBVIOUS
    <3>4. Grouped(d, 0, <<>>)
      BY <3>2, <3>3 DEF Grouped
    <3> QED
      BY <3>1, <3>4, <2>2, <2>3
  <2>4. CASE m # 0
    <3>1. PICK k \in Nat : k = m - 1
      BY <2>2, <2>4
    <3>2. k \in 0 .. n /\ k < m /\ m \in 1 .. n /\ 1 .. m = (1 .. k) \cup {m} /\ m \notin 1 .. k /\ 1 .. k \subseteq 1 .. n
      <4>1. m = k + 1 /\ k < n
        BY <3>1, <2>2, <1>2
      <4>2. k \in 0 .. n /\ k < m /\ m \in 1 .. n
        BY <4>1, <1>2
      <4>3. 1 .. m = (1 .. k) \cup {m} /\ m \notin 1 .. k
        BY <4>1
      <4>4. 1 .. k \subseteq 1 .. n
        BY <4>1, <1>2
      <4> QED
        BY <4>2, <4>3, <4>4
    <3>3. Grouped(d, k, g[k])
      BY <3>2, <2>1, <1>7
    <3>4. PICK x, t : x = Prompts[m] /\ t = g[k]
      OBVIOUS
    <3>5. x \in Names /\ x \notin {Prompts[i] : i \in 1 .. k}
      <4>1. x \in Names
        BY <3>2, <3>4, <1>1, <1>2, ElementOfSeq
      <4>2. ASSUME NEW i \in 1 .. k PROVE Prompts[i] # x
        BY <3>2, <3>4, <1>1, <1>2 DEF Once
      <4> QED
        BY <4>1, <4>2
    <3>6. {Prompts[i] : i \in 1 .. m} = {Prompts[i] : i \in 1 .. k} \cup {x}
      BY <3>2, <3>4
    <3>7. /\ t \in Seq(Names) /\ Once(t) /\ Len(t) <= k
          /\ Elems(t) = {p \in {Prompts[i] : i \in 1 .. k} : DatasetOf(p) = d}
      BY <3>3, <3>4 DEF Grouped
    <3>8. g[m] = IF DatasetOf(x) = d THEN Append(t, x) ELSE t
      BY <3>1, <3>2, <3>4, <2>2, <2>4, <1>6
    <3>9. CASE DatasetOf(x) = d
      <4>1. PICK u : u = Append(t, x)
        OBVIOUS
      <4>2. u \in Seq(Names) /\ Elems(u) = Elems(t) \cup {x} /\ Once(u)
        BY <4>1, <3>5, <3>7, AppendElems
      <4>3. Len(u) <= m
        <5>1. Len(u) = Len(t) + 1 /\ Len(t) \in Nat
          BY <4>1, <3>5, <3>7, AppendElements
        <5> QED
          BY <5>1, <3>1, <3>7, <2>2
      <4>4. Grouped(d, m, u)
        BY <4>2, <4>3, <3>6, <3>7, <3>9 DEF Grouped
      <4> QED
        BY <4>1, <4>4, <3>8, <3>9, <2>2
    <3>10. CASE DatasetOf(x) # d
      <4>1. Len(t) <= m
        BY <3>1, <3>7, <2>2, LenProperties
      <4>2. Grouped(d, m, t)
        BY <4>1, <3>6, <3>7, <3>10 DEF Grouped
      <4> QED
        BY <4>2, <3>8, <3>10, <2>2
    <3> QED
      BY <3>9, <3>10
  <2> QED
    BY <2>3, <2>4
<1>9. n \in 0 .. n /\ n \notin bad
  BY <1>2, <1>8
<1> QED
  BY <1>1, <1>5, <1>7, <1>9

\* The i-th prompt of its dataset.
Ith(i, p) == i <= Len(WD!Group(Prompts, DatasetOf(p))) /\ p = WD!Group(Prompts, DatasetOf(p))[i]

LEMMA GroupsAre ==
  ASSUME DispatchAssumption, NEW d
  PROVE  /\ WD!Group(Prompts, d) \in Seq(Names) /\ Once(WD!Group(Prompts, d))
         /\ Len(WD!Group(Prompts, d)) \in Nat /\ Len(WD!Group(Prompts, d)) <= Len(Prompts)
         /\ Elems(WD!Group(Prompts, d)) = {p \in Names : DatasetOf(p) = d}
<1>1. PICK t : t = WD!Group(Prompts, d)
  OBVIOUS
<1>2. Grouped(d, Len(Prompts), t)
  BY <1>1, GroupRight
<1>3. /\ t \in Seq(Names) /\ Once(t) /\ Len(t) <= Len(Prompts)
      /\ Elems(t) = {p \in Names : DatasetOf(p) = d}
  BY <1>2 DEF Grouped, Names, Elems
<1>4. Len(t) \in Nat
  BY <1>3, LenProperties
<1> QED
  BY <1>1, <1>3, <1>4

LEMMA RoundRight ==
  ASSUME DispatchAssumption, NEW i \in Nat \ {0}
  PROVE  /\ WD!Round(Prompts, i) \in Seq(Names) /\ Once(WD!Round(Prompts, i))
         /\ Elems(WD!Round(Prompts, i)) = {p \in Names : Ith(i, p)}
<1>1. PICK n : n = Len(Datasets)
  OBVIOUS
<1>2. Datasets \in Seq(Elems(Datasets)) /\ Once(Datasets) /\ n \in Nat /\ DOMAIN Datasets = 1 .. n
  BY <1>1, LenProperties DEF DispatchAssumption
<1>3. PICK ss : ss = [d \in 1 .. n |-> IF i <= Len(WD!Group(Prompts, Datasets[d]))
                                       THEN <<WD!Group(Prompts, Datasets[d])[i]>> ELSE <<>>]
  OBVIOUS
<1>4. ASSUME NEW d \in 1 .. n
      PROVE  /\ ss[d] \in Seq(Names) /\ Once(ss[d])
             /\ Elems(ss[d]) = {p \in Names : DatasetOf(p) = Datasets[d] /\ Ith(i, p)}
  <2>1. PICK t : t = WD!Group(Prompts, Datasets[d])
    OBVIOUS
  <2>2. /\ t \in Seq(Names) /\ Once(t) /\ Len(t) \in Nat
        /\ Elems(t) = {p \in Names : DatasetOf(p) = Datasets[d]}
    BY <2>1, GroupsAre
  <2>3. CASE i <= Len(t)
    <3>1. i \in 1 .. Len(t)
      BY <2>2, <2>3
    <3>2. PICK x : x = t[i]
      OBVIOUS
    <3>3. x \in Names /\ DatasetOf(x) = Datasets[d]
      <4>1. x \in Elems(t)
        BY <3>1, <3>2 DEF Elems
      <4> QED
        BY <4>1, <2>2
    <3>4. ss[d] = <<x>>
      BY <3>2, <2>1, <2>3, <1>3
    <3>5. \A p \in Names : DatasetOf(p) = Datasets[d] => (Ith(i, p) <=> p = x)
      BY <3>2, <2>1, <2>3 DEF Ith
    <3>6. {p \in Names : DatasetOf(p) = Datasets[d] /\ Ith(i, p)} = {x}
      BY <3>3, <3>5
    <3> QED
      BY <3>3, <3>4, <3>6, OneElem
  <2>4. CASE ~(i <= Len(t))
    <3>1. ss[d] = <<>>
      BY <2>1, <2>4, <1>3
    <3>2. {p \in Names : DatasetOf(p) = Datasets[d] /\ Ith(i, p)} = {}
      BY <2>1, <2>4 DEF Ith
    <3> QED
      BY <3>1, <3>2, NoElems
  <2> QED
    BY <2>3, <2>4
<1>5. ss \in Seq(Seq(Names)) /\ Len(ss) = n
  <2>1. ss \in [1 .. n -> Seq(Names)]
    BY <1>3, <1>4
  <2> QED
    BY <2>1, <1>2
<1>6. PICK r : r = WD!FlattenSeq(ss)
  OBVIOUS
<1>7. Flat(Names, ss, n, r)
  BY <1>5, <1>6, FlattenRight
<1>8. WD!Round(Prompts, i) = r
  BY <1>2, <1>3, <1>6 DEF WD!Round
<1>9. \A d, e \in 1 .. n : d # e => Elems(ss[d]) \cap Elems(ss[e]) = {}
  <2>1. SUFFICES ASSUME NEW d \in 1 .. n, NEW e \in 1 .. n, d # e PROVE Elems(ss[d]) \cap Elems(ss[e]) = {}
    OBVIOUS
  <2>2. Datasets[d] # Datasets[e]
    BY <2>1, <1>1, <1>2 DEF Once
  <2> QED
    BY <2>2, <1>4
<1>10. r \in Seq(Names) /\ Once(r) /\ Elems(r) = UNION {Elems(ss[d]) : d \in 1 .. n}
  BY <1>4, <1>7, <1>9 DEF Flat
<1>11. \A p \in Names : \E d \in 1 .. n : DatasetOf(p) = Datasets[d]
  BY <1>1 DEF DispatchAssumption, Elems
<1>12. Elems(r) = {p \in Names : Ith(i, p)}
  BY <1>4, <1>10, <1>11
<1> QED
  BY <1>8, <1>10, <1>12

\* The queue holds each prompt of the file once.
LEMMA InterleavedRight ==
  ASSUME DispatchAssumption
  PROVE  /\ WD!Interleaved(Prompts) \in Seq(Names) /\ Once(WD!Interleaved(Prompts))
         /\ Elems(WD!Interleaved(Prompts)) = Names
<1>1. PICK n : n = Len(Prompts)
  OBVIOUS
<1>2. Prompts \in Seq(Names) /\ n \in Nat /\ DOMAIN Prompts = 1 .. n
  BY <1>1, LenProperties DEF DispatchAssumption
<1>3. PICK ss : ss = [i \in 1 .. n |-> WD!Round(Prompts, i)]
  OBVIOUS
<1>4. ASSUME NEW i \in 1 .. n
      PROVE  ss[i] \in Seq(Names) /\ Once(ss[i]) /\ Elems(ss[i]) = {p \in Names : Ith(i, p)}
  <2>1. i \in Nat \ {0}
    OBVIOUS
  <2> QED
    BY <2>1, <1>3, RoundRight
<1>5. ss \in Seq(Seq(Names)) /\ Len(ss) = n
  <2>1. ss \in [1 .. n -> Seq(Names)]
    BY <1>3, <1>4
  <2> QED
    BY <2>1, <1>2
<1>6. PICK r : r = WD!FlattenSeq(ss)
  OBVIOUS
<1>7. Flat(Names, ss, n, r)
  BY <1>5, <1>6, FlattenRight
<1>8. WD!Interleaved(Prompts) = r
  BY <1>2, <1>3, <1>6 DEF WD!Interleaved
<1>9. ASSUME NEW p \in Names, NEW i \in 1 .. n, NEW j \in 1 .. n, Ith(i, p), Ith(j, p) PROVE i = j
  <2>1. PICK t : t = WD!Group(Prompts, DatasetOf(p))
    OBVIOUS
  <2>2. Once(t) /\ Len(t) \in Nat
    BY <2>1, GroupsAre
  <2>3. i \in 1 .. Len(t) /\ j \in 1 .. Len(t) /\ t[i] = t[j]
    BY <2>1, <2>2, <1>9 DEF Ith
  <2> QED
    BY <2>2, <2>3 DEF Once
<1>10. \A i, j \in 1 .. n : i # j => Elems(ss[i]) \cap Elems(ss[j]) = {}
  BY <1>4, <1>9
<1>11. r \in Seq(Names) /\ Once(r) /\ Elems(r) = UNION {Elems(ss[i]) : i \in 1 .. n}
  BY <1>4, <1>7, <1>10 DEF Flat
<1>12. ASSUME NEW p \in Names PROVE \E i \in 1 .. n : Ith(i, p)
  <2>1. PICK t : t = WD!Group(Prompts, DatasetOf(p))
    OBVIOUS
  <2>2. Len(t) \in Nat /\ Len(t) <= n /\ p \in Elems(t)
    BY <2>1, <1>1, GroupsAre
  <2>3. PICK i \in 1 .. Len(t) : p = t[i]
    BY <2>2 DEF Elems
  <2>4. i \in 1 .. n /\ i <= Len(t)
    BY <2>2, <1>2
  <2> QED
    BY <2>1, <2>3, <2>4 DEF Ith
<1>13. Elems(r) = Names
  BY <1>4, <1>11, <1>12
<1> QED
  BY <1>8, <1>11, <1>13

-----------------------------------------------------------------------------
\* A chain: the pipes of its worker, and the books of the dispatcher about it.

Words == {"none", "free", "waiting", "finished", "died"}

\* Every prompt handed over has been recorded.
Quiet(w, in, out, cl, fl, hs, ds) ==
  /\ hs = ds /\ fl = "none"
  /\ \/ w = "free" /\ in = <<>> /\ out = <<>> /\ ~cl
     \/ w = "waiting" /\ in = <<>> /\ out = <<"WORKER READY">> /\ ~cl
     \/ w = "waiting" /\ in = <<>> /\ out = <<>> /\ cl
     \/ w = "finished" /\ in = <<>> /\ out = <<>> /\ cl
     \/ w = "died" /\ (out = <<>> \/ out = <<"WORKER READY">>)

\* Every prompt handed over but the last has been recorded; the main thread has found that one, or will.
Busy(p, w, in, out, cl, fl, hs, ds, ls, over) ==
  /\ hs = Append(ds, p) /\ fl = (IF over THEN "none" ELSE p) /\ (over => p \in Elems(ls))
  /\ \/ w = "free" /\ in = <<>> /\ out = <<"REC">> /\ ~cl
     \/ w = "waiting" /\ in = <<>> /\ out = <<"REC", "WORKER READY">> /\ ~cl
     \/ w = "waiting" /\ in = <<p>> /\ out = <<>> /\ ~cl
     \/ w = p /\ in = <<>> /\ out = <<>> /\ ~cl
     \/ w = "died" /\ (out = <<>> \/ out = <<"REC">> \/ out = <<"REC", "WORKER READY">>)

ChainRight(w, in, out, cl, fl, hs, ds, ls, over) ==
  /\ hs \in Seq(Names) /\ ds \in Seq(Names) /\ ls \in Seq(Names) /\ Elems(ls) \subseteq Elems(hs)
  /\ over => w \in {"finished", "died"}
  /\ ls # <<>> => w = "died"
  /\ Quiet(w, in, out, cl, fl, hs, ds) \/ \E p \in Names : Busy(p, w, in, out, cl, fl, hs, ds, ls, over)

LEMMA WordsDiffer == ASSUME DispatchAssumption, NEW p \in Names PROVE p \notin Words
BY DEF DispatchAssumption, Words

\* The lines a worker prints.
LEMMA TwoLines ==
  ASSUME NEW x, NEW y
  PROVE  /\ Append(<<x>>, y) = <<x, y>> /\ Append(<<>>, x) = <<x>> /\ Tail(<<x, y>>) = <<y>> /\ Tail(<<x>>) = <<>>
         /\ Head(<<x>>) = x /\ Head(<<x, y>>) = x
<1>1. PICK S : S = {x, y}
  OBVIOUS
<1>2. PICK s, t : s = <<x>> /\ t = <<x, y>>
  OBVIOUS
<1>3. /\ s \in Seq(S) /\ Len(s) = 1 /\ s[1] = x
      /\ t \in Seq(S) /\ Len(t) = 2 /\ t[1] = x /\ t[2] = y
  BY <1>1, <1>2
<1>4. PICK a : a = Append(s, y)
  OBVIOUS
<1>5. y \in S
  BY <1>1
<1>6. a \in Seq(S) /\ Len(a) = 2 /\ a[1] = x /\ a[2] = y
  <2>1. a \in Seq(S) /\ Len(a) = Len(s) + 1 /\ (\A i \in 1 .. Len(s) : a[i] = s[i]) /\ a[Len(s) + 1] = y
    BY <1>3, <1>4, <1>5, AppendProperties
  <2> QED
    BY <2>1, <1>3
<1>7. \A i \in 1 .. 2 : a[i] = t[i]
  <2>1. \A i \in 1 .. 2 : i = 1 \/ i = 2
    OBVIOUS
  <2> QED
    BY <2>1, <1>3, <1>6
<1>8. a = t
  BY <1>3, <1>6, <1>7, SeqEqual
<1>9. Append(<<>>, x) = <<x>> /\ Append(<<>>, y) = <<y>> /\ Tail(<<x>>) = <<>> /\ Head(<<x>>) = x /\ Head(<<x, y>>) = x
  OBVIOUS
<1>10. Tail(a) = Append(Tail(s), y)
  <2>1. Tail(Append(s, y)) = IF s = <<>> THEN <<>> ELSE Append(Tail(s), y)
    BY <1>3, HeadTailAppend
  <2>2. s # <<>>
    BY <1>2
  <2> QED
    BY <2>1, <2>2, <1>4
<1> QED
  BY <1>2, <1>4, <1>8, <1>9, <1>10

LEMMA ChainGetsReady ==
  ASSUME DispatchAssumption, NEW in, NEW out, NEW cl, NEW fl, NEW hs, NEW ds, NEW ls, NEW over,
         ChainRight("free", in, out, cl, fl, hs, ds, ls, over)
  PROVE  ChainRight("waiting", in, Append(out, "WORKER READY"), cl, fl, hs, ds, ls, over)
<1>1. /\ hs \in Seq(Names) /\ ds \in Seq(Names) /\ ls \in Seq(Names) /\ Elems(ls) \subseteq Elems(hs)
      /\ ~over /\ ls = <<>>
  BY DEF ChainRight
<1>2. PICK r : r = Append(out, "WORKER READY")
  OBVIOUS
<1>3. CASE Quiet("free", in, out, cl, fl, hs, ds)
  <2>1. r = <<"WORKER READY">>
    BY <1>2, <1>3, TwoLines DEF Quiet
  <2>2. Quiet("waiting", in, r, cl, fl, hs, ds)
    BY <2>1, <1>3 DEF Quiet
  <2> QED
    BY <2>2, <1>1, <1>2 DEF ChainRight
<1>4. ASSUME NEW p \in Names, Busy(p, "free", in, out, cl, fl, hs, ds, ls, over)
      PROVE  Busy(p, "waiting", in, r, cl, fl, hs, ds, ls, over)
  <2>1. p # "free"
    BY WordsDiffer DEF Words
  <2>2. r = <<"REC", "WORKER READY">>
    BY <2>1, <1>2, <1>4, TwoLines DEF Busy
  <2> QED
    BY <2>1, <2>2, <1>4 DEF Busy
<1> QED
  BY <1>1, <1>2, <1>3, <1>4 DEF ChainRight

LEMMA ChainReads ==
  ASSUME DispatchAssumption, NEW in, NEW out, NEW cl, NEW fl, NEW hs, NEW ds, NEW ls, NEW over,
         ChainRight("waiting", in, out, cl, fl, hs, ds, ls, over), in # <<>>
  PROVE  ChainRight(Head(in), Tail(in), out, cl, fl, hs, ds, ls, over)
<1>1. /\ hs \in Seq(Names) /\ ds \in Seq(Names) /\ ls \in Seq(Names) /\ Elems(ls) \subseteq Elems(hs)
      /\ ~over /\ ls = <<>>
  BY DEF ChainRight
<1>2. PICK p \in Names : Busy(p, "waiting", in, out, cl, fl, hs, ds, ls, over)
  BY DEF ChainRight, Quiet
<1>3. p # "waiting"
  BY WordsDiffer DEF Words
<1>4. in = <<p>>
  BY <1>2, <1>3 DEF Busy
<1>5. Head(in) = p /\ Tail(in) = <<>>
  BY <1>4
<1>6. Busy(p, p, <<>>, out, cl, fl, hs, ds, ls, over)
  BY <1>2, <1>3, <1>4 DEF Busy
<1> QED
  BY <1>1, <1>5, <1>6 DEF ChainRight

LEMMA ChainFinishes ==
  ASSUME DispatchAssumption, NEW out, NEW cl, NEW fl, NEW hs, NEW ds, NEW ls, NEW over,
         ChainRight("waiting", <<>>, out, cl, fl, hs, ds, ls, over), cl
  PROVE  ChainRight("finished", <<>>, out, cl, fl, hs, ds, ls, over)
<1>1. /\ hs \in Seq(Names) /\ ds \in Seq(Names) /\ ls \in Seq(Names) /\ Elems(ls) \subseteq Elems(hs)
      /\ ~over /\ ls = <<>>
  BY DEF ChainRight
<1>2. ASSUME NEW p \in Names, Busy(p, "waiting", <<>>, out, cl, fl, hs, ds, ls, over) PROVE FALSE
  BY <1>2, WordsDiffer DEF Busy, Words
<1>3. Quiet("finished", <<>>, out, cl, fl, hs, ds)
  BY <1>2 DEF ChainRight, Quiet
<1> QED
  BY <1>1, <1>3 DEF ChainRight

LEMMA ChainRecords ==
  ASSUME DispatchAssumption, NEW w \in Names, NEW in, NEW out, NEW cl, NEW fl, NEW hs, NEW ds, NEW ls, NEW over,
         ChainRight(w, in, out, cl, fl, hs, ds, ls, over)
  PROVE  ChainRight("free", in, Append(out, "REC"), cl, fl, hs, ds, ls, over)
<1>1. w \notin Words
  BY WordsDiffer
<1>2. /\ hs \in Seq(Names) /\ ds \in Seq(Names) /\ ls \in Seq(Names) /\ Elems(ls) \subseteq Elems(hs)
      /\ ~over /\ ls = <<>>
  BY <1>1 DEF ChainRight, Words
<1>3. PICK p \in Names : Busy(p, w, in, out, cl, fl, hs, ds, ls, over)
  BY <1>1 DEF ChainRight, Quiet, Words
<1>4. PICK r : r = Append(out, "REC")
  OBVIOUS
<1>5. r = <<"REC">>
  BY <1>1, <1>3, <1>4, TwoLines DEF Busy, Words
<1>6. Busy(p, "free", in, r, cl, fl, hs, ds, ls, over)
  BY <1>1, <1>3, <1>5 DEF Busy, Words
<1> QED
  BY <1>2, <1>4, <1>6 DEF ChainRight

LEMMA ChainDies ==
  ASSUME DispatchAssumption, NEW w, NEW in, NEW out, NEW cl, NEW fl, NEW hs, NEW ds, NEW ls, NEW over,
         ChainRight(w, in, out, cl, fl, hs, ds, ls, over), w \notin {"finished", "died"}
  PROVE  ChainRight("died", in, out, cl, fl, hs, ds, ls, over)
<1>1. Quiet(w, in, out, cl, fl, hs, ds) => Quiet("died", in, out, cl, fl, hs, ds)
  BY DEF Quiet
<1>2. ASSUME NEW p \in Names, Busy(p, w, in, out, cl, fl, hs, ds, ls, over)
      PROVE  Busy(p, "died", in, out, cl, fl, hs, ds, ls, over)
  BY <1>2 DEF Busy
<1> QED
  BY <1>1, <1>2 DEF ChainRight

\* hand_next with nothing left to hand over.
LEMMA ChainCloses ==
  ASSUME DispatchAssumption, NEW w, NEW in, NEW out, NEW cl, NEW fl, NEW hs, NEW ds, NEW ls, NEW over,
         ChainRight(w, in, out, cl, fl, hs, ds, ls, over), out # <<>>, Head(out) = "WORKER READY"
  PROVE  ChainRight(w, in, Tail(out), TRUE, fl, hs, ds, ls, over)
<1>1. /\ hs \in Seq(Names) /\ ds \in Seq(Names) /\ ls \in Seq(Names) /\ Elems(ls) \subseteq Elems(hs)
      /\ (over => w \in {"finished", "died"}) /\ (ls # <<>> => w = "died")
  BY DEF ChainRight
<1>2. ASSUME NEW p \in Names, Busy(p, w, in, out, cl, fl, hs, ds, ls, over) PROVE FALSE
  <2>1. out = <<"REC">> \/ out = <<"REC", "WORKER READY">>
    BY <1>2 DEF Busy
  <2>2. Head(out) = "REC"
    BY <2>1, TwoLines
  <2> QED
    BY <2>2
<1>3. Quiet(w, in, out, cl, fl, hs, ds) /\ out = <<"WORKER READY">>
  BY <1>2 DEF ChainRight, Quiet
<1>4. Tail(out) = <<>>
  BY <1>3, TwoLines
<1>5. Quiet(w, in, <<>>, TRUE, fl, hs, ds)
  BY <1>3 DEF Quiet
<1> QED
  BY <1>1, <1>4, <1>5 DEF ChainRight

\* hand_next for a worker that has ended: the prompt stays in the queue.
LEMMA ChainKeepsBack ==
  ASSUME DispatchAssumption, NEW w \in {"finished", "died"}, NEW in, NEW out, NEW cl, NEW fl, NEW hs, NEW ds, NEW ls, NEW over,
         ChainRight(w, in, out, cl, fl, hs, ds, ls, over), out # <<>>, Head(out) = "WORKER READY"
  PROVE  ChainRight(w, in, Tail(out), cl, fl, hs, ds, ls, over)
<1>1. /\ hs \in Seq(Names) /\ ds \in Seq(Names) /\ ls \in Seq(Names) /\ Elems(ls) \subseteq Elems(hs)
      /\ (over => w \in {"finished", "died"}) /\ (ls # <<>> => w = "died")
  BY DEF ChainRight
<1>2. ASSUME NEW p \in Names, Busy(p, w, in, out, cl, fl, hs, ds, ls, over) PROVE FALSE
  <2>1. out = <<"REC">> \/ out = <<"REC", "WORKER READY">>
    BY <1>2 DEF Busy
  <2>2. Head(out) = "REC"
    BY <2>1, TwoLines
  <2> QED
    BY <2>2
<1>3. Quiet(w, in, out, cl, fl, hs, ds) /\ out = <<"WORKER READY">>
  BY <1>2 DEF ChainRight, Quiet
<1>4. Tail(out) = <<>>
  BY <1>3, TwoLines
<1>5. Quiet(w, in, <<>>, cl, fl, hs, ds)
  BY <1>3 DEF Quiet
<1> QED
  BY <1>1, <1>4, <1>5 DEF ChainRight

\* hand_next for a worker that waits.
LEMMA ChainGets ==
  ASSUME DispatchAssumption, NEW w, w \notin {"finished", "died"}, NEW in, NEW out, NEW cl, NEW fl, NEW hs, NEW ds,
         NEW ls, NEW over, NEW p \in Names,
         ChainRight(w, in, out, cl, fl, hs, ds, ls, over), out # <<>>, Head(out) = "WORKER READY"
  PROVE  ChainRight(w, Append(in, p), Tail(out), cl, p, Append(hs, p), ds, ls, over)
<1>1. /\ hs \in Seq(Names) /\ ds \in Seq(Names) /\ ls \in Seq(Names) /\ Elems(ls) \subseteq Elems(hs)
      /\ ~over /\ ls = <<>>
  BY DEF ChainRight
<1>2. ASSUME NEW q \in Names, Busy(q, w, in, out, cl, fl, hs, ds, ls, over) PROVE FALSE
  <2>1. out = <<"REC">> \/ out = <<"REC", "WORKER READY">>
    BY <1>2 DEF Busy
  <2>2. Head(out) = "REC"
    BY <2>1, TwoLines
  <2> QED
    BY <2>2
<1>3. Quiet(w, in, out, cl, fl, hs, ds) /\ out = <<"WORKER READY">>
  BY <1>2 DEF ChainRight, Quiet
<1>4. w = "waiting" /\ in = <<>> /\ ~cl /\ hs = ds
  BY <1>3 DEF Quiet
<1>5. PICK hh, ii, oo : hh = Append(hs, p) /\ ii = Append(in, p) /\ oo = Tail(out)
  OBVIOUS
<1>6. ii = <<p>> /\ oo = <<>>
  BY <1>3, <1>4, <1>5, TwoLines
<1>7. hh \in Seq(Names) /\ Elems(hs) \subseteq Elems(hh)
  <2>1. hs \in Seq(Names)
    BY <1>1
  <2>2. Append(hs, p) \in Seq(Names) /\ Elems(hs) \subseteq Elems(Append(hs, p))
    BY <2>1, AppendGrows
  <2> QED
    BY <2>2, <1>5
<1>8. Busy(p, w, ii, oo, cl, p, hh, ds, ls, over)
  BY <1>1, <1>4, <1>5, <1>6 DEF Busy
<1> QED
  BY <1>1, <1>5, <1>7, <1>8 DEF ChainRight

LEMMA ChainIsRecorded ==
  ASSUME DispatchAssumption, NEW w, NEW in, NEW out, NEW cl, NEW fl, NEW hs, NEW ds, NEW ls, NEW over,
         ChainRight(w, in, out, cl, fl, hs, ds, ls, over), out # <<>>, Head(out) = "REC"
  PROVE  ChainRight(w, in, Tail(out), cl, "none", hs, Append(ds, hs[Len(hs)]), ls, over)
<1>1. /\ hs \in Seq(Names) /\ ds \in Seq(Names) /\ ls \in Seq(Names) /\ Elems(ls) \subseteq Elems(hs)
      /\ (over => w \in {"finished", "died"}) /\ (ls # <<>> => w = "died")
  BY DEF ChainRight
<1>2. ASSUME Quiet(w, in, out, cl, fl, hs, ds) PROVE FALSE
  <2>1. out = <<"WORKER READY">>
    BY <1>2 DEF Quiet
  <2>2. Head(out) = "WORKER READY"
    BY <2>1, TwoLines
  <2> QED
    BY <2>2
<1>3. PICK p \in Names : Busy(p, w, in, out, cl, fl, hs, ds, ls, over)
  BY <1>2 DEF ChainRight
<1>4. p \notin Words
  BY WordsDiffer
<1>5. hs = Append(ds, p)
  BY <1>3 DEF Busy
<1>6. hs[Len(hs)] = p
  BY <1>1, <1>5, AppendProperties
<1>7. PICK dd, oo : dd = Append(ds, hs[Len(hs)]) /\ oo = Tail(out)
  OBVIOUS
<1>8. dd = hs
  BY <1>5, <1>6, <1>7
<1>9. \/ out = <<"REC">> /\ oo = <<>>
      \/ out = <<"REC", "WORKER READY">> /\ oo = <<"WORKER READY">>
  <2>1. out = <<"REC">> \/ out = <<"REC", "WORKER READY">>
    BY <1>3 DEF Busy
  <2>2. Tail(<<"REC">>) = <<>>
    BY TwoLines
  <2>3. Tail(<<"REC", "WORKER READY">>) = <<"WORKER READY">>
    BY TwoLines
  <2>4. CASE out = <<"REC">>
    BY <2>2, <2>4, <1>7
  <2>5. CASE out = <<"REC", "WORKER READY">>
    BY <2>3, <2>5, <1>7
  <2> QED
    BY <2>1, <2>4, <2>5
<1>10. Quiet(w, in, oo, cl, "none", hs, dd)
  <2>2. \/ w = "free" /\ in = <<>> /\ out = <<"REC">> /\ ~cl
        \/ w = "waiting" /\ in = <<>> /\ out = <<"REC", "WORKER READY">> /\ ~cl
        \/ w = "died"
    BY <1>3 DEF Busy
  <2>3. <<"REC">> # <<"REC", "WORKER READY">>
    OBVIOUS
  <2> QED
    BY <2>2, <2>3, <1>8, <1>9 DEF Quiet
<1> QED
  BY <1>1, <1>7, <1>8, <1>10 DEF ChainRight

\* The main thread looks what was in flight.
LEMMA ChainIsReaped ==
  ASSUME DispatchAssumption, NEW w \in {"finished", "died"}, NEW in, NEW out, NEW cl, NEW fl, NEW hs, NEW ds, NEW ls, NEW over,
         ChainRight(w, in, out, cl, fl, hs, ds, ls, over)
  PROVE  ChainRight(w, in, out, cl, "none", hs, ds, IF fl = "none" THEN ls ELSE Append(ls, fl), TRUE)
<1>1. /\ hs \in Seq(Names) /\ ds \in Seq(Names) /\ ls \in Seq(Names) /\ Elems(ls) \subseteq Elems(hs)
      /\ (ls # <<>> => w = "died")
  BY DEF ChainRight
<1>2. PICK ll : ll = IF fl = "none" THEN ls ELSE Append(ls, fl)
  OBVIOUS
<1>3. CASE Quiet(w, in, out, cl, fl, hs, ds)
  <2>1. ll = ls /\ Quiet(w, in, out, cl, "none", hs, ds)
    BY <1>2, <1>3 DEF Quiet
  <2> QED
    BY <2>1, <1>1, <1>2 DEF ChainRight
<1>4. ASSUME NEW p \in Names, Busy(p, w, in, out, cl, fl, hs, ds, ls, over)
      PROVE  ChainRight(w, in, out, cl, "none", hs, ds, ll, TRUE)
  <2>1. p \notin Words
    BY WordsDiffer
  <2>2. w = "died"
    BY <2>1, <1>4 DEF Busy, Words
  <2>3. p \in Elems(hs)
    <3>1. Elems(Append(ds, p)) = Elems(ds) \cup {p}
      BY <1>1, AppendElems
    <3> QED
      BY <3>1, <1>4 DEF Busy
  <2>4. ll \in Seq(Names) /\ p \in Elems(ll) /\ Elems(ll) \subseteq Elems(hs)
    <3>1. CASE over
      <4>1. ll = ls /\ p \in Elems(ls)
        BY <3>1, <1>2, <1>4 DEF Busy
      <4> QED
        BY <4>1, <1>1
    <3>2. CASE ~over
      <4>1. fl = p
        BY <3>2, <1>4 DEF Busy
      <4>2. ll = Append(ls, p)
        BY <4>1, <2>1, <1>2 DEF Words
      <4>3. ll \in Seq(Names) /\ Elems(ll) = Elems(ls) \cup {p}
        BY <4>2, <1>1, AppendElems
      <4> QED
        BY <4>3, <2>3, <1>1
    <3> QED
      BY <3>1, <3>2
  <2>5. Busy(p, w, in, out, cl, "none", hs, ds, ll, TRUE)
    BY <2>2, <2>4, <1>4 DEF Busy
  <2> QED
    BY <2>2, <2>4, <2>5, <1>1 DEF ChainRight
<1> QED
  BY <1>2, <1>3, <1>4 DEF ChainRight

-----------------------------------------------------------------------------
\* The dispatcher as a whole.

\* The main thread has waited for the chain.
Reaped(c, r) == \E i \in 1 .. r : ChainOrder[i] = c

\* Each of a chain's variables has a value for it.
ByChain ==
  /\ DOMAIN worker = Workers /\ DOMAIN stdin = Workers /\ DOMAIN stdout = Workers /\ DOMAIN closed = Workers
  /\ DOMAIN inflight = Workers /\ DOMAIN handed = Workers /\ DOMAIN recorded = Workers /\ DOMAIN missing = Workers

ThisChain(c) ==
  ChainRight(worker[c], stdin[c], stdout[c], closed[c], inflight[c], handed[c], recorded[c], missing[c], Reaped(c, reaped))

\* A prompt is in the queue or was handed to one chain, and only once.
Shares(q, hs) ==
  /\ q \in Seq(Names) /\ Once(q)
  /\ \A c \in Workers : hs[c] \in Seq(Names) /\ Once(hs[c]) /\ Elems(hs[c]) \cap Elems(q) = {}
  /\ \A c, d \in Workers : c # d => Elems(hs[c]) \cap Elems(hs[d]) = {}
  /\ Names = Elems(q) \cup UNION {Elems(hs[c]) : c \in Workers}

\* A pipe is closed when nothing is left, and the report comes last.
ReportRight ==
  /\ \A c \in Workers : closed[c] => queue = <<>>
  /\ reaped \in 0 .. Len(ChainOrder)
  /\ report # "none" => reaped = Len(ChainOrder)
  /\ report = "0" => \A c \in Workers : worker[c] = "finished"

DispatchRight == ByChain /\ (\A c \in Workers : ThisChain(c)) /\ Shares(queue, handed) /\ ReportRight

LEMMA ChainsAre == ASSUME DispatchAssumption PROVE WD!Chains = Workers /\ WD!ToSet(Prompts) = Names
<1>1. ChainOrder \in Seq(Workers) /\ Prompts \in Seq(Names)
  BY DEF DispatchAssumption
<1>2. WD!ToSet(ChainOrder) = Elems(ChainOrder)
  BY <1>1, ElemsAre
<1>3. WD!ToSet(Prompts) = Elems(Prompts)
  BY <1>1, ElemsAre
<1> QED
  BY <1>2, <1>3 DEF WD!Chains, Workers, Names

LEMMA DispatchStarts == ASSUME DispatchAssumption, WD!InitDispatch PROVE DispatchRight
<1>1. WD!Chains = Workers
  BY ChainsAre
<1>2. /\ queue = WD!Interleaved(Prompts) /\ reaped = 0 /\ report = "none"
      /\ worker = [c \in Workers |-> "free"] /\ stdin = [c \in Workers |-> <<>>] /\ closed = [c \in Workers |-> FALSE]
      /\ stdout = [c \in Workers |-> <<>>] /\ inflight = [c \in Workers |-> "none"] /\ handed = [c \in Workers |-> <<>>]
      /\ recorded = [c \in Workers |-> <<>>] /\ missing = [c \in Workers |-> <<>>]
  BY <1>1 DEF WD!InitDispatch, WD!None
<1>3. ByChain
  BY <1>2 DEF ByChain
<1>4. <<>> \in Seq(Names) /\ Once(<<>>) /\ Elems(<<>>) = {}
  BY NoElems
<1>5. ASSUME NEW c \in Workers PROVE ThisChain(c)
  <2>1. ~Reaped(c, 0)
    BY DEF Reaped
  <2>2. Quiet("free", <<>>, <<>>, FALSE, "none", <<>>, <<>>)
    BY DEF Quiet
  <2>3. ChainRight("free", <<>>, <<>>, FALSE, "none", <<>>, <<>>, <<>>, Reaped(c, 0))
    BY <2>1, <2>2, <1>4 DEF ChainRight
  <2> QED
    BY <2>3, <1>2 DEF ThisChain
<1>6. Shares(queue, handed)
  <2>1. queue \in Seq(Names) /\ Once(queue) /\ Elems(queue) = Names
    BY <1>2, InterleavedRight
  <2>2. \A c \in Workers : handed[c] = <<>>
    BY <1>2
  <2> QED
    BY <2>1, <2>2, <1>4 DEF Shares
<1>7. ReportRight
  <2>1. Len(ChainOrder) \in Nat
    BY LenProperties DEF DispatchAssumption
  <2> QED
    BY <2>1, <1>2 DEF ReportRight
<1> QED
  BY <1>3, <1>5, <1>6, <1>7 DEF DispatchRight

\* A step of one chain.
OtherChains(c) ==
  /\ ByChain'
  /\ \A d \in Workers \ {c} :
       /\ worker'[d] = worker[d] /\ stdin'[d] = stdin[d] /\ stdout'[d] = stdout[d] /\ closed'[d] = closed[d]
       /\ inflight'[d] = inflight[d] /\ handed'[d] = handed[d] /\ recorded'[d] = recorded[d] /\ missing'[d] = missing[d]
       /\ Reaped(d, reaped') = Reaped(d, reaped)

LEMMA OneChain ==
  ASSUME DispatchRight, NEW c \in Workers, OtherChains(c), ThisChain(c)', Shares(queue', handed'), ReportRight'
  PROVE  DispatchRight'
<1>1. ASSUME NEW d \in Workers PROVE ThisChain(d)'
  <2>1. CASE d = c
    BY <2>1
  <2>2. CASE d # c
    <3>1. ThisChain(d)
      BY DEF DispatchRight
    <3> QED
      BY <3>1, <2>2 DEF ThisChain, OtherChains
  <2> QED
    BY <2>1, <2>2
<1> QED
  BY <1>1 DEF DispatchRight, OtherChains

\* What one chain's action leaves to show, given what it sets for the chain.
LEMMA ReportStays ==
  ASSUME DispatchRight, reaped' = reaped, report' = report, queue' = queue \/ (queue # <<>> /\ closed' = closed),
         NEW c \in Workers, (closed'[c] /\ ~closed[c] => queue' = <<>>), \A d \in Workers \ {c} : closed'[d] = closed[d],
         \A d \in Workers : worker'[d] = worker[d] \/ worker[d] # "finished"
  PROVE  ReportRight'
<1>1. \A d \in Workers : closed'[d] => queue' = <<>>
  <2>1. CASE queue' = queue
    <3>1. SUFFICES ASSUME NEW d \in Workers, closed'[d] PROVE queue' = <<>>
      OBVIOUS
    <3>2. closed[d] => queue = <<>>
      BY DEF DispatchRight, ReportRight
    <3>3. d # c => closed[d]
      BY <3>1
    <3>4. d = c => closed[d] \/ queue' = <<>>
      BY <3>1
    <3> QED
      BY <3>2, <3>3, <3>4, <2>1
  <2>2. CASE queue # <<>> /\ closed' = closed
    BY <2>2 DEF DispatchRight, ReportRight
  <2> QED
    BY <2>1, <2>2
<1>2. reaped' \in 0 .. Len(ChainOrder) /\ (report' # "none" => reaped' = Len(ChainOrder))
  BY DEF DispatchRight, ReportRight
<1>3. ASSUME report' = "0", NEW d \in Workers PROVE worker'[d] = "finished"
  <2>1. worker[d] = "finished"
    BY <1>3 DEF DispatchRight, ReportRight
  <2> QED
    BY <2>1
<1> QED
  BY <1>1, <1>2, <1>3 DEF ReportRight

LEMMA StepWorkerReady == ASSUME DispatchAssumption, DispatchRight, NEW c \in Workers, WD!WorkerReady(c) PROVE DispatchRight'
<1>1. /\ worker[c] = "free" /\ stdout' = [stdout EXCEPT ![c] = Append(@, "WORKER READY")]
      /\ worker' = [worker EXCEPT ![c] = "waiting"]
      /\ queue' = queue /\ stdin' = stdin /\ closed' = closed /\ inflight' = inflight /\ handed' = handed
      /\ recorded' = recorded /\ missing' = missing /\ reaped' = reaped /\ report' = report
  BY DEF WD!WorkerReady, WD!Prints, WD!Becomes, WD!bookVars
<1>2. ByChain
  BY DEF DispatchRight
<1>3. OtherChains(c)
  BY <1>1, <1>2 DEF OtherChains, ByChain
<1>4. worker'[c] = "waiting" /\ stdout'[c] = Append(stdout[c], "WORKER READY")
  BY <1>1, <1>2 DEF ByChain
<1>5. ChainRight("free", stdin[c], stdout[c], closed[c], inflight[c], handed[c], recorded[c], missing[c], Reaped(c, reaped))
  BY <1>1 DEF DispatchRight, ThisChain
<1>6. ThisChain(c)'
  <2>1. ChainRight("waiting", stdin[c], Append(stdout[c], "WORKER READY"), closed[c], inflight[c], handed[c], recorded[c], missing[c], Reaped(c, reaped))
    BY <1>5, ChainGetsReady
  <2> QED
    BY <2>1, <1>1, <1>4 DEF ThisChain
<1>7. Shares(queue', handed')
  BY <1>1 DEF DispatchRight
<1>8. ReportRight'
  BY <1>1, <1>3, <1>4, ReportStays DEF OtherChains
<1> QED
  BY <1>3, <1>6, <1>7, <1>8, OneChain

LEMMA StepWorkerReads == ASSUME DispatchAssumption, DispatchRight, NEW c \in Workers, WD!WorkerReads(c) PROVE DispatchRight'
<1>1. /\ worker[c] = "waiting"
      /\ \/ stdin[c] # <<>> /\ worker' = [worker EXCEPT ![c] = Head(stdin[c])] /\ stdin' = [stdin EXCEPT ![c] = Tail(@)]
         \/ stdin[c] = <<>> /\ closed[c] /\ worker' = [worker EXCEPT ![c] = "finished"] /\ stdin' = stdin
      /\ queue' = queue /\ stdout' = stdout /\ closed' = closed /\ inflight' = inflight /\ handed' = handed
      /\ recorded' = recorded /\ missing' = missing /\ reaped' = reaped /\ report' = report
  BY DEF WD!WorkerReads, WD!Becomes, WD!bookVars
<1>2. ByChain
  BY DEF DispatchRight
<1>3. OtherChains(c)
  BY <1>1, <1>2 DEF OtherChains, ByChain
<1>4. ChainRight("waiting", stdin[c], stdout[c], closed[c], inflight[c], handed[c], recorded[c], missing[c], Reaped(c, reaped))
  BY <1>1 DEF DispatchRight, ThisChain
<1>5. ThisChain(c)'
  <2>1. CASE stdin[c] # <<>>
    <3>1. worker'[c] = Head(stdin[c]) /\ stdin'[c] = Tail(stdin[c])
      BY <2>1, <1>1, <1>2 DEF ByChain
    <3>2. ChainRight(Head(stdin[c]), Tail(stdin[c]), stdout[c], closed[c], inflight[c], handed[c], recorded[c], missing[c], Reaped(c, reaped))
      BY <2>1, <1>4, ChainReads
    <3> QED
      BY <3>1, <3>2, <1>1 DEF ThisChain
  <2>2. CASE stdin[c] = <<>>
    <3>1. worker'[c] = "finished" /\ stdin'[c] = stdin[c] /\ closed[c]
      BY <2>2, <1>1, <1>2 DEF ByChain
    <3>2. ChainRight("finished", <<>>, stdout[c], closed[c], inflight[c], handed[c], recorded[c], missing[c], Reaped(c, reaped))
      BY <3>1, <2>2, <1>4, ChainFinishes
    <3> QED
      BY <3>1, <3>2, <2>2, <1>1 DEF ThisChain
  <2> QED
    BY <2>1, <2>2
<1>6. Shares(queue', handed')
  BY <1>1 DEF DispatchRight
<1>7. ReportRight'
  BY <1>1, <1>3, ReportStays DEF OtherChains
<1> QED
  BY <1>3, <1>5, <1>6, <1>7, OneChain

LEMMA StepWorkerRecords == ASSUME DispatchAssumption, DispatchRight, NEW c \in Workers, WD!WorkerRecords(c) PROVE DispatchRight'
<1>1. /\ worker[c] \in Names /\ stdout' = [stdout EXCEPT ![c] = Append(@, "REC")]
      /\ worker' = [worker EXCEPT ![c] = "free"]
      /\ queue' = queue /\ stdin' = stdin /\ closed' = closed /\ inflight' = inflight /\ handed' = handed
      /\ recorded' = recorded /\ missing' = missing /\ reaped' = reaped /\ report' = report
  BY ChainsAre DEF WD!WorkerRecords, WD!Prints, WD!Becomes, WD!bookVars
<1>2. ByChain
  BY DEF DispatchRight
<1>3. OtherChains(c)
  BY <1>1, <1>2 DEF OtherChains, ByChain
<1>4. worker'[c] = "free" /\ stdout'[c] = Append(stdout[c], "REC")
  BY <1>1, <1>2 DEF ByChain
<1>5. ThisChain(c)'
  <2>1. ChainRight(worker[c], stdin[c], stdout[c], closed[c], inflight[c], handed[c], recorded[c], missing[c], Reaped(c, reaped))
    BY DEF DispatchRight, ThisChain
  <2>2. ChainRight("free", stdin[c], Append(stdout[c], "REC"), closed[c], inflight[c], handed[c], recorded[c], missing[c], Reaped(c, reaped))
    BY <2>1, <1>1, ChainRecords
  <2> QED
    BY <2>2, <1>1, <1>4 DEF ThisChain
<1>6. Shares(queue', handed')
  BY <1>1 DEF DispatchRight
<1>7. ReportRight'
  <2>1. worker[c] # "finished"
    BY <1>1, WordsDiffer DEF Words
  <2> QED
    BY <2>1, <1>1, <1>3, ReportStays DEF OtherChains
<1> QED
  BY <1>3, <1>5, <1>6, <1>7, OneChain

LEMMA StepWorkerDies == ASSUME DispatchAssumption, DispatchRight, NEW c \in Workers, WD!WorkerDies(c) PROVE DispatchRight'
<1>1. /\ worker[c] \notin {"finished", "died"} /\ worker' = [worker EXCEPT ![c] = "died"]
      /\ queue' = queue /\ stdin' = stdin /\ stdout' = stdout /\ closed' = closed /\ inflight' = inflight /\ handed' = handed
      /\ recorded' = recorded /\ missing' = missing /\ reaped' = reaped /\ report' = report
  BY DEF WD!WorkerDies, WD!Becomes, WD!bookVars, WD!pipeVars, WD!Ended
<1>2. ByChain
  BY DEF DispatchRight
<1>3. OtherChains(c)
  BY <1>1, <1>2 DEF OtherChains, ByChain
<1>4. worker'[c] = "died"
  BY <1>1, <1>2 DEF ByChain
<1>5. ThisChain(c)'
  <2>1. ChainRight(worker[c], stdin[c], stdout[c], closed[c], inflight[c], handed[c], recorded[c], missing[c], Reaped(c, reaped))
    BY DEF DispatchRight, ThisChain
  <2>2. ChainRight("died", stdin[c], stdout[c], closed[c], inflight[c], handed[c], recorded[c], missing[c], Reaped(c, reaped))
    BY <2>1, <1>1, ChainDies
  <2> QED
    BY <2>2, <1>1, <1>4 DEF ThisChain
<1>6. Shares(queue', handed')
  BY <1>1 DEF DispatchRight
<1>7. ReportRight'
  BY <1>1, <1>3, ReportStays DEF OtherChains
<1> QED
  BY <1>3, <1>5, <1>6, <1>7, OneChain

LEMMA StepStop == ASSUME DispatchAssumption, DispatchRight, WD!Stop PROVE DispatchRight'
<1>1. /\ report = "none"
      /\ worker' = [c \in Workers |-> IF worker[c] \in {"finished", "died"} THEN worker[c] ELSE "died"]
      /\ queue' = queue /\ stdin' = stdin /\ stdout' = stdout /\ closed' = closed /\ inflight' = inflight /\ handed' = handed
      /\ recorded' = recorded /\ missing' = missing /\ reaped' = reaped /\ report' = report
  BY ChainsAre DEF WD!Stop, WD!bookVars, WD!pipeVars, WD!Ended
<1>2. ByChain'
  BY <1>1 DEF DispatchRight, ByChain
<1>3. ASSUME NEW c \in Workers PROVE ThisChain(c)'
  <2>1. ChainRight(worker[c], stdin[c], stdout[c], closed[c], inflight[c], handed[c], recorded[c], missing[c], Reaped(c, reaped))
    BY DEF DispatchRight, ThisChain
  <2>2. ChainRight(worker'[c], stdin[c], stdout[c], closed[c], inflight[c], handed[c], recorded[c], missing[c], Reaped(c, reaped))
    <3>1. CASE worker[c] \in {"finished", "died"}
      <4>1. worker'[c] = worker[c]
        BY <3>1, <1>1
      <4> QED
        BY <4>1, <2>1
    <3>2. CASE worker[c] \notin {"finished", "died"}
      <4>1. worker'[c] = "died"
        BY <3>2, <1>1
      <4>2. ChainRight("died", stdin[c], stdout[c], closed[c], inflight[c], handed[c], recorded[c], missing[c], Reaped(c, reaped))
        BY <3>2, <2>1, ChainDies
      <4> QED
        BY <4>1, <4>2
    <3> QED
      BY <3>1, <3>2
  <2> QED
    BY <2>2, <1>1 DEF ThisChain
<1>4. Shares(queue', handed')
  BY <1>1 DEF DispatchRight
<1>5. ReportRight'
  BY <1>1 DEF DispatchRight, ReportRight
<1> QED
  BY <1>2, <1>3, <1>4, <1>5 DEF DispatchRight

LEMMA HeadTailElems ==
  ASSUME NEW S, NEW s \in Seq(S), s # <<>>, Once(s)
  PROVE  /\ Head(s) \in S /\ Tail(s) \in Seq(S) /\ Once(Tail(s))
         /\ Elems(s) = Elems(Tail(s)) \cup {Head(s)} /\ Head(s) \notin Elems(Tail(s))
<1>1. PICK n, h, t : n = Len(s) /\ h = Head(s) /\ t = Tail(s)
  OBVIOUS
<1>2. /\ h \in S /\ t \in Seq(S) /\ n \in Nat /\ n >= 1 /\ h = s[1] /\ Len(t) = n - 1
      /\ \A i \in 1 .. n - 1 : t[i] = s[i + 1]
  <2>1. n \in Nat /\ n # 0
    BY <1>1, LenProperties, EmptySeq
  <2>2. h \in S /\ t \in Seq(S) /\ Len(t) = n - 1 /\ \A i \in 1 .. Len(t) : t[i] = s[i + 1]
    BY <1>1, HeadTailProperties
  <2>3. h = s[1]
    BY <1>1
  <2> QED
    BY <2>1, <2>2, <2>3
<1>3. \A i, j \in 1 .. n : s[i] = s[j] => i = j
  BY <1>1 DEF Once
<1>4. Once(t)
  <2>1. SUFFICES ASSUME NEW i \in 1 .. n - 1, NEW j \in 1 .. n - 1, t[i] = t[j] PROVE i = j
    BY <1>2 DEF Once
  <2>2. i + 1 \in 1 .. n /\ j + 1 \in 1 .. n
    BY <1>2
  <2>3. i + 1 = j + 1
    BY <2>1, <2>2, <1>2, <1>3
  <2> QED
    BY <2>3
<1>5. h \notin Elems(t)
  <2>1. SUFFICES ASSUME NEW i \in 1 .. n - 1, h = t[i] PROVE FALSE
    BY <1>2 DEF Elems
  <2>2. i + 1 \in 1 .. n /\ 1 \in 1 .. n /\ i + 1 # 1
    BY <1>2
  <2> QED
    BY <2>1, <2>2, <1>2, <1>3
<1>6. Elems(s) = Elems(t) \cup {h}
  <2>1. ASSUME NEW i \in 1 .. n PROVE s[i] \in Elems(t) \cup {h}
    <3>1. CASE i = 1
      BY <3>1, <1>2
    <3>2. CASE i # 1
      <4>1. PICK j \in 1 .. n - 1 : i = j + 1
        <5>1. i - 1 \in 1 .. n - 1 /\ i = (i - 1) + 1
          BY <3>2, <1>2
        <5> QED
          BY <5>1
      <4> QED
        BY <4>1, <1>2 DEF Elems
    <3> QED
      BY <3>1, <3>2
  <2>2. ASSUME NEW i \in 1 .. n - 1 PROVE t[i] \in Elems(s)
    <3>1. i + 1 \in 1 .. n
      BY <1>2
    <3> QED
      BY <3>1, <1>1, <1>2 DEF Elems
  <2>3. h \in Elems(s)
    <3>1. 1 \in 1 .. n
      BY <1>2
    <3> QED
      BY <3>1, <1>1, <1>2 DEF Elems
  <2>4. Elems(s) \subseteq Elems(t) \cup {h}
    BY <2>1, <1>1 DEF Elems
  <2>5. Elems(t) \cup {h} \subseteq Elems(s)
    <3>1. Elems(t) \subseteq Elems(s)
      <4>1. \A x \in Elems(t) : \E i \in 1 .. n - 1 : x = t[i]
        BY <1>2 DEF Elems
      <4> QED
        BY <4>1, <2>2
    <3> QED
      BY <3>1, <2>3
  <2> QED
    BY <2>4, <2>5
<1> QED
  BY <1>1, <1>2, <1>4, <1>5, <1>6

LEMMA SharesMove ==
  ASSUME NEW q, NEW hs, Shares(q, hs), DOMAIN hs = Workers, q # <<>>, NEW c \in Workers,
         NEW h2, h2 = [hs EXCEPT ![c] = Append(@, Head(q))]
  PROVE  Shares(Tail(q), h2)
<1>1. PICK t, p, u : t = Tail(q) /\ p = Head(q) /\ u = Append(hs[c], p)
  OBVIOUS
<1>2. q \in Seq(Names) /\ Once(q)
  BY DEF Shares
<1>3. p \in Names /\ t \in Seq(Names) /\ Once(t) /\ Elems(q) = Elems(t) \cup {p} /\ p \notin Elems(t)
  BY <1>1, <1>2, HeadTailElems
<1>4. \A d \in Workers : hs[d] \in Seq(Names) /\ Once(hs[d]) /\ Elems(hs[d]) \cap Elems(q) = {}
  BY DEF Shares
<1>5. hs[c] \in Seq(Names) /\ Once(hs[c]) /\ p \notin Elems(hs[c])
  BY <1>3, <1>4
<1>6. u \in Seq(Names) /\ Elems(u) = Elems(hs[c]) \cup {p} /\ Once(u)
  <2>1. u \in Seq(Names)
    BY <1>1, <1>3, <1>5, AppendProperties
  <2>2. Elems(u) = Elems(hs[c]) \cup {p}
    BY <1>1, <1>3, <1>5, AppendElems
  <2>3. Once(u)
    BY <1>1, <1>3, <1>5, AppendElems
  <2> QED
    BY <2>1, <2>2, <2>3
<1>7. h2[c] = u /\ \A d \in Workers \ {c} : h2[d] = hs[d]
  BY <1>1
<1>8. ASSUME NEW d \in Workers PROVE h2[d] \in Seq(Names) /\ Once(h2[d]) /\ Elems(h2[d]) \cap Elems(t) = {}
  <2>1. CASE d = c
    <3>1. Elems(hs[c]) \cap Elems(q) = {}
      BY <1>4
    <3>2. Elems(u) \cap Elems(t) = {}
      BY <3>1, <1>3, <1>6
    <3> QED
      BY <3>2, <2>1, <1>6, <1>7
  <2>2. CASE d # c
    <3>1. h2[d] = hs[d] /\ Elems(hs[d]) \cap Elems(q) = {}
      BY <2>2, <1>4, <1>7
    <3>2. Elems(hs[d]) \cap Elems(t) = {}
      BY <3>1, <1>3
    <3> QED
      BY <3>1, <3>2, <1>4
  <2> QED
    BY <2>1, <2>2
<1>9. \A d, e \in Workers : d # e => Elems(h2[d]) \cap Elems(h2[e]) = {}
  <2>1. SUFFICES ASSUME NEW d \in Workers, NEW e \in Workers, d # e, NEW x \in Elems(h2[d]), x \in Elems(h2[e]) PROVE FALSE
    OBVIOUS
  <2>2. Elems(hs[d]) \cap Elems(hs[e]) = {}
    BY <2>1 DEF Shares
  <2>3. p \notin Elems(hs[d]) /\ p \notin Elems(hs[e])
    BY <1>3, <1>4
  <2>4. Elems(h2[d]) = Elems(hs[d]) \/ (d = c /\ Elems(h2[d]) = Elems(hs[d]) \cup {p})
    BY <1>6, <1>7
  <2>5. Elems(h2[e]) = Elems(hs[e]) \/ (e = c /\ Elems(h2[e]) = Elems(hs[e]) \cup {p})
    BY <1>6, <1>7
  <2> QED
    BY <2>1, <2>2, <2>3, <2>4, <2>5
<1>10. Names = Elems(t) \cup UNION {Elems(h2[d]) : d \in Workers}
  <2>1. Names = Elems(q) \cup UNION {Elems(hs[d]) : d \in Workers}
    BY DEF Shares
  <2>2. \A d \in Workers : Elems(h2[d]) = IF d = c THEN Elems(hs[d]) \cup {p} ELSE Elems(hs[d])
    BY <1>6, <1>7
  <2>3. ASSUME NEW x \in Names PROVE x \in Elems(t) \cup UNION {Elems(h2[d]) : d \in Workers}
    <3>1. CASE x = p
      <4>1. x \in Elems(h2[c])
        BY <3>1, <2>2
      <4> QED
        BY <4>1
    <3>2. CASE x # p
      <4>1. x \in Elems(t) \/ \E d \in Workers : x \in Elems(hs[d])
        BY <3>2, <2>1, <1>3
      <4>2. x \in Elems(t) \/ \E d \in Workers : x \in Elems(h2[d])
        BY <4>1, <2>2
      <4> QED
        BY <4>2
    <3> QED
      BY <3>1, <3>2
  <2>4. Elems(t) \subseteq Names
    BY <1>3, ElemsAre
  <2>5. ASSUME NEW d \in Workers PROVE Elems(h2[d]) \subseteq Names
    BY <1>8, ElemsAre
  <2> QED
    BY <2>3, <2>4, <2>5
<1> QED
  BY <1>1, <1>3, <1>8, <1>9, <1>10 DEF Shares

LEMMA StepPumpReady == ASSUME DispatchAssumption, DispatchRight, NEW c \in Workers, WD!PumpReady(c) PROVE DispatchRight'
<1>1. /\ stdout[c] # <<>> /\ Head(stdout[c]) = "WORKER READY"
      /\ stdout' = [stdout EXCEPT ![c] = Tail(@)] /\ WD!HandNext(c)
      /\ worker' = worker /\ recorded' = recorded /\ missing' = missing /\ reaped' = reaped /\ report' = report
  BY DEF WD!PumpReady
<1>2. ByChain
  BY DEF DispatchRight
<1>3. ChainRight(worker[c], stdin[c], stdout[c], closed[c], inflight[c], handed[c], recorded[c], missing[c], Reaped(c, reaped))
  BY DEF DispatchRight, ThisChain
<1>4. stdout'[c] = Tail(stdout[c])
  BY <1>1, <1>2 DEF ByChain
<1>5. CASE queue = <<>>
  <2>1. /\ closed' = [closed EXCEPT ![c] = TRUE]
        /\ queue' = queue /\ stdin' = stdin /\ inflight' = inflight /\ handed' = handed
    BY <1>1, <1>5 DEF WD!HandNext
  <2>2. OtherChains(c)
    BY <2>1, <1>1, <1>2 DEF OtherChains, ByChain
  <2>3. closed'[c] = TRUE
    BY <2>1, <1>2 DEF ByChain
  <2>4. ThisChain(c)'
    <3>1. ChainRight(worker[c], stdin[c], Tail(stdout[c]), TRUE, inflight[c], handed[c], recorded[c], missing[c], Reaped(c, reaped))
      BY <1>1, <1>3, ChainCloses
    <3> QED
      BY <3>1, <2>1, <2>3, <1>1, <1>4 DEF ThisChain
  <2>5. Shares(queue', handed')
    BY <2>1 DEF DispatchRight
  <2>6. ReportRight'
    <3>1. queue' = <<>> /\ \A d \in Workers \ {c} : closed'[d] = closed[d]
      BY <2>1, <2>2, <1>5 DEF OtherChains
    <3> QED
      BY <3>1, <2>1, <1>1, ReportStays
  <2> QED
    BY <2>2, <2>4, <2>5, <2>6, OneChain
<1>6. CASE queue # <<>> /\ worker[c] \in {"finished", "died"}
  <2>1. queue' = queue /\ stdin' = stdin /\ inflight' = inflight /\ handed' = handed /\ closed' = closed
    BY <1>1, <1>6 DEF WD!HandNext, WD!Ended
  <2>2. OtherChains(c)
    BY <2>1, <1>1, <1>2 DEF OtherChains, ByChain
  <2>3. ThisChain(c)'
    <3>1. ChainRight(worker[c], stdin[c], Tail(stdout[c]), closed[c], inflight[c], handed[c], recorded[c], missing[c], Reaped(c, reaped))
      BY <1>1, <1>3, <1>6, ChainKeepsBack
    <3> QED
      BY <3>1, <2>1, <1>1, <1>4 DEF ThisChain
  <2>4. Shares(queue', handed')
    BY <2>1 DEF DispatchRight
  <2>5. ReportRight'
    BY <2>1, <1>1, ReportStays
  <2> QED
    BY <2>2, <2>3, <2>4, <2>5, OneChain
<1>7. CASE queue # <<>> /\ worker[c] \notin {"finished", "died"}
  <2>1. PICK p : p = Head(queue)
    OBVIOUS
  <2>2. /\ queue' = Tail(queue) /\ closed' = closed
        /\ stdin' = [stdin EXCEPT ![c] = Append(@, p)] /\ inflight' = [inflight EXCEPT ![c] = p]
        /\ handed' = [handed EXCEPT ![c] = Append(@, p)]
    BY <2>1, <1>1, <1>7 DEF WD!HandNext, WD!Hand, WD!Ended
  <2>3. Shares(queue, handed) /\ DOMAIN handed = Workers
    BY DEF DispatchRight, ByChain
  <2>4. p \in Names
    <3>1. queue \in Seq(Names)
      BY <2>3 DEF Shares
    <3> QED
      BY <3>1, <2>1, <1>7, HeadTailProperties
  <2>5. OtherChains(c)
    BY <2>2, <1>1, <1>2 DEF OtherChains, ByChain
  <2>6. stdin'[c] = Append(stdin[c], p) /\ inflight'[c] = p /\ handed'[c] = Append(handed[c], p)
    BY <2>2, <1>2 DEF ByChain
  <2>7. ThisChain(c)'
    <3>1. ChainRight(worker[c], Append(stdin[c], p), Tail(stdout[c]), closed[c], p, Append(handed[c], p), recorded[c], missing[c], Reaped(c, reaped))
      BY <2>4, <1>1, <1>3, <1>7, ChainGets
    <3> QED
      BY <3>1, <2>2, <2>6, <1>1, <1>4 DEF ThisChain
  <2>8. Shares(queue', handed')
    BY <2>1, <2>2, <2>3, <1>7, SharesMove
  <2>9. ReportRight'
    BY <2>2, <1>1, <1>7, ReportStays
  <2> QED
    BY <2>5, <2>7, <2>8, <2>9, OneChain
<1> QED
  BY <1>5, <1>6, <1>7

LEMMA StepPumpRecord == ASSUME DispatchAssumption, DispatchRight, NEW c \in Workers, WD!PumpRecord(c) PROVE DispatchRight'
<1>1. /\ stdout[c] # <<>> /\ Head(stdout[c]) = "REC"
      /\ stdout' = [stdout EXCEPT ![c] = Tail(@)] /\ inflight' = [inflight EXCEPT ![c] = "none"]
      /\ recorded' = [recorded EXCEPT ![c] = Append(@, handed[c][Len(handed[c])])]
      /\ queue' = queue /\ worker' = worker /\ stdin' = stdin /\ closed' = closed /\ handed' = handed
      /\ missing' = missing /\ reaped' = reaped /\ report' = report
  BY DEF WD!PumpRecord, WD!None
<1>2. ByChain
  BY DEF DispatchRight
<1>3. OtherChains(c)
  BY <1>1, <1>2 DEF OtherChains, ByChain
<1>4. /\ stdout'[c] = Tail(stdout[c]) /\ inflight'[c] = "none"
      /\ recorded'[c] = Append(recorded[c], handed[c][Len(handed[c])])
  BY <1>1, <1>2 DEF ByChain
<1>5. ThisChain(c)'
  <2>1. ChainRight(worker[c], stdin[c], stdout[c], closed[c], inflight[c], handed[c], recorded[c], missing[c], Reaped(c, reaped))
    BY DEF DispatchRight, ThisChain
  <2>2. ChainRight(worker[c], stdin[c], Tail(stdout[c]), closed[c], "none", handed[c],
                   Append(recorded[c], handed[c][Len(handed[c])]), missing[c], Reaped(c, reaped))
    BY <2>1, <1>1, ChainIsRecorded
  <2> QED
    BY <2>2, <1>1, <1>4 DEF ThisChain
<1>6. Shares(queue', handed')
  BY <1>1 DEF DispatchRight
<1>7. ReportRight'
  BY <1>1, ReportStays
<1> QED
  BY <1>3, <1>5, <1>6, <1>7, OneChain

LEMMA StepReap == ASSUME DispatchAssumption, DispatchRight, WD!Reap PROVE DispatchRight'
<1>1. PICK c : c = ChainOrder[reaped + 1]
  OBVIOUS
<1>2. /\ reaped < Len(ChainOrder) /\ worker[c] \in {"finished", "died"}
      /\ IF inflight[c] = "none" THEN inflight' = inflight /\ missing' = missing
         ELSE missing' = [missing EXCEPT ![c] = Append(@, inflight[c])] /\ inflight' = [inflight EXCEPT ![c] = "none"]
      /\ reaped' = reaped + 1
      /\ queue' = queue /\ worker' = worker /\ stdin' = stdin /\ closed' = closed /\ stdout' = stdout
      /\ handed' = handed /\ recorded' = recorded /\ report' = report
  BY <1>1 DEF WD!Reap, WD!None, WD!Ended, WD!pipeVars
<1>3. ReportRight
  BY DEF DispatchRight
<1>4. reaped \in Nat /\ reaped + 1 \in 1 .. Len(ChainOrder) /\ Len(ChainOrder) \in Nat
  <2>1. Len(ChainOrder) \in Nat
    BY LenProperties DEF DispatchAssumption
  <2> QED
    BY <2>1, <1>2, <1>3 DEF ReportRight
<1>5. c \in Workers
  BY <1>1, <1>4 DEF Workers, Elems
<1>6. ByChain
  BY DEF DispatchRight
<1>7. Reaped(c, reaped') /\ \A d \in Workers \ {c} : Reaped(d, reaped') = Reaped(d, reaped)
  <2>1. 1 .. reaped' = (1 .. reaped) \cup {reaped + 1}
    BY <1>2, <1>4
  <2> QED
    BY <2>1, <1>1 DEF Reaped
<1>8. OtherChains(c)
  BY <1>2, <1>6, <1>7 DEF OtherChains, ByChain
<1>9. inflight'[c] = "none" /\ missing'[c] = IF inflight[c] = "none" THEN missing[c] ELSE Append(missing[c], inflight[c])
  BY <1>2, <1>5, <1>6 DEF ByChain
<1>10. ThisChain(c)'
  <2>1. ChainRight(worker[c], stdin[c], stdout[c], closed[c], inflight[c], handed[c], recorded[c], missing[c], Reaped(c, reaped))
    BY <1>5 DEF DispatchRight, ThisChain
  <2>2. ChainRight(worker[c], stdin[c], stdout[c], closed[c], "none", handed[c], recorded[c],
                   IF inflight[c] = "none" THEN missing[c] ELSE Append(missing[c], inflight[c]), TRUE)
    BY <2>1, <1>2, ChainIsReaped
  <2>3. Reaped(c, reaped') = TRUE
    BY <1>7 DEF Reaped
  <2> QED
    BY <2>2, <2>3, <1>2, <1>9 DEF ThisChain
<1>11. Shares(queue', handed')
  BY <1>2 DEF DispatchRight
<1>12. ReportRight'
  <2>1. report = "none"
    BY <1>2, <1>3, <1>4 DEF ReportRight
  <2> QED
    BY <2>1, <1>2, <1>3, <1>4 DEF ReportRight
<1> QED
  BY <1>5, <1>8, <1>10, <1>11, <1>12, OneChain

LEMMA StepReport == ASSUME DispatchAssumption, DispatchRight, WD!Report PROVE DispatchRight'
<1>1. /\ reaped = Len(ChainOrder) /\ (report' = "0" => \A c \in Workers : worker[c] = "finished")
      /\ queue' = queue /\ worker' = worker /\ stdin' = stdin /\ closed' = closed /\ stdout' = stdout /\ inflight' = inflight
      /\ handed' = handed /\ recorded' = recorded /\ missing' = missing /\ reaped' = reaped
  BY ChainsAre DEF WD!Report, WD!pipeVars, WD!bookVars
<1>2. ByChain' /\ Shares(queue', handed')
  BY <1>1 DEF DispatchRight, ByChain
<1>3. ASSUME NEW c \in Workers PROVE ThisChain(c)'
  BY <1>1 DEF DispatchRight, ThisChain
<1>4. ReportRight'
  BY <1>1 DEF DispatchRight, ReportRight
<1> QED
  BY <1>2, <1>3, <1>4 DEF DispatchRight

LEMMA DispatchGoesOn == ASSUME DispatchAssumption, DispatchRight, [WD!NextDispatch]_(WD!dispatchVars) PROVE DispatchRight'
<1>1. WD!Chains = Workers
  BY ChainsAre
<1>2. ASSUME NEW c \in Workers, WD!PumpEnds(c) PROVE DispatchRight'
  BY <1>2 DEF WD!PumpEnds, WD!pipeVars, WD!bookVars, DispatchRight, ByChain, ThisChain, ReportRight
<1>3. CASE UNCHANGED WD!dispatchVars
  BY <1>3 DEF WD!dispatchVars, DispatchRight, ByChain, ThisChain, ReportRight
<1>4. ASSUME NEW c \in Workers, WD!Pump(c) PROVE DispatchRight'
  BY <1>2, <1>4, StepPumpReady, StepPumpRecord DEF WD!Pump
<1>5. ASSUME NEW c \in Workers, WD!WorkerReady(c) \/ WD!WorkerReads(c) \/ WD!WorkerRecords(c) \/ WD!WorkerDies(c)
      PROVE  DispatchRight'
  BY <1>5, StepWorkerReady, StepWorkerReads, StepWorkerRecords, StepWorkerDies
<1>6. CASE WD!Stop
  BY <1>6, StepStop
<1>7. CASE WD!Reap
  BY <1>7, StepReap
<1>8. CASE WD!Report
  BY <1>8, StepReport
<1> QED
  BY <1>1, <1>3, <1>4, <1>5, <1>6, <1>7, <1>8 DEF WD!NextDispatch

-----------------------------------------------------------------------------
\* What the lists of the chains come to.

Lists(f) == \A c \in Workers : f[c] \in Seq(Names)
Apart(f) == (\A c \in Workers : Once(f[c])) /\ \A c, d \in Workers : c # d => Elems(f[c]) \cap Elems(f[d]) = {}

LEMMA ByOrder ==
  ASSUME DispatchAssumption, NEW f, Lists(f), NEW t, t = WD!FlattenSeq([i \in DOMAIN ChainOrder |-> f[ChainOrder[i]]])
  PROVE  t \in Seq(Names) /\ Elems(t) = UNION {Elems(f[c]) : c \in Workers} /\ (Apart(f) => Once(t))
<1>1. PICK n : n = Len(ChainOrder)
  OBVIOUS
<1>2. ChainOrder \in Seq(Workers) /\ Once(ChainOrder) /\ n \in Nat /\ DOMAIN ChainOrder = 1 .. n
  BY <1>1, LenProperties DEF DispatchAssumption
<1>3. Workers = {ChainOrder[i] : i \in 1 .. n}
  BY <1>1 DEF Workers, Elems
<1>4. PICK ss : ss = [i \in 1 .. n |-> f[ChainOrder[i]]]
  OBVIOUS
<1>5. ss \in Seq(Seq(Names)) /\ Len(ss) = n
  <2>1. ss \in [1 .. n -> Seq(Names)]
    BY <1>3, <1>4 DEF Lists
  <2> QED
    BY <2>1, <1>2
<1>6. Flat(Names, ss, n, t)
  <2>1. t = WD!FlattenSeq(ss)
    BY <1>2, <1>4
  <2> QED
    BY <2>1, <1>5, FlattenRight
<1>7. Elems(t) = UNION {Elems(f[c]) : c \in Workers}
  <2>1. Elems(t) = UNION {Elems(ss[i]) : i \in 1 .. n}
    BY <1>6 DEF Flat
  <2>2. \A i \in 1 .. n : Elems(ss[i]) = Elems(f[ChainOrder[i]])
    BY <1>4
  <2>3. {Elems(ss[i]) : i \in 1 .. n} = {Elems(f[c]) : c \in Workers}
    BY <2>2, <1>3
  <2> QED
    BY <2>1, <2>3
<1>8. ASSUME Apart(f) PROVE Once(t)
  <2>1. \A i \in 1 .. n : Once(ss[i])
    BY <1>3, <1>4, <1>8 DEF Apart
  <2>2. \A i, j \in 1 .. n : i # j => Elems(ss[i]) \cap Elems(ss[j]) = {}
    <3>1. SUFFICES ASSUME NEW i \in 1 .. n, NEW j \in 1 .. n, i # j PROVE Elems(ss[i]) \cap Elems(ss[j]) = {}
      OBVIOUS
    <3>2. ChainOrder[i] # ChainOrder[j] /\ ChainOrder[i] \in Workers /\ ChainOrder[j] \in Workers
      BY <3>1, <1>1, <1>2, <1>3 DEF Once
    <3> QED
      BY <3>2, <1>4, <1>8 DEF Apart
  <2> QED
    BY <2>1, <2>2, <1>6 DEF Flat
<1> QED
  BY <1>6, <1>7, <1>8 DEF Flat

\* The records of a chain are of the prompts handed to it, and what they lack it reports.
LEMMA ChainBooks ==
  ASSUME DispatchAssumption, NEW w, NEW in, NEW out, NEW cl, NEW fl, NEW hs, NEW ds, NEW ls, NEW over,
         ChainRight(w, in, out, cl, fl, hs, ds, ls, over), Once(hs)
  PROVE  /\ Once(ds) /\ Elems(ds) \subseteq Elems(hs) /\ Elems(ls) \subseteq Elems(hs)
         /\ over => Elems(hs) = Elems(ds) \cup Elems(ls)
         /\ w = "finished" => cl /\ hs = ds /\ ls = <<>>
<1>1. /\ hs \in Seq(Names) /\ ds \in Seq(Names) /\ ls \in Seq(Names) /\ Elems(ls) \subseteq Elems(hs)
      /\ (ls # <<>> => w = "died")
  BY DEF ChainRight
<1>2. CASE Quiet(w, in, out, cl, fl, hs, ds)
  <2>1. hs = ds /\ (w = "finished" => cl)
    BY <1>2 DEF Quiet
  <2> QED
    BY <2>1, <1>1
<1>3. ASSUME NEW p \in Names, Busy(p, w, in, out, cl, fl, hs, ds, ls, over)
      PROVE  /\ Once(ds) /\ Elems(hs) = Elems(ds) \cup {p} /\ (over => p \in Elems(ls)) /\ w # "finished"
  <2>1. hs = Append(ds, p) /\ (over => p \in Elems(ls))
    BY <1>3 DEF Busy
  <2>2. w # "finished"
    BY <1>3, WordsDiffer DEF Busy, Words
  <2>3. Elems(hs) = Elems(ds) \cup {p}
    BY <2>1, <1>1, AppendElems
  <2>4. Once(ds)
    <3>1. SUFFICES ASSUME NEW i \in 1 .. Len(ds), NEW j \in 1 .. Len(ds), ds[i] = ds[j] PROVE i = j
      BY DEF Once
    <3>2. /\ Len(hs) = Len(ds) + 1 /\ Len(ds) \in Nat /\ \A k \in 1 .. Len(ds) : hs[k] = ds[k]
      BY <2>1, <1>1, AppendProperties, LenProperties
    <3>3. i \in 1 .. Len(hs) /\ j \in 1 .. Len(hs) /\ hs[i] = hs[j]
      BY <3>1, <3>2
    <3> QED
      BY <3>3 DEF Once
  <2> QED
    BY <2>1, <2>2, <2>3, <2>4
<1>4. CASE \E p \in Names : Busy(p, w, in, out, cl, fl, hs, ds, ls, over)
  <2>1. PICK p \in Names : Busy(p, w, in, out, cl, fl, hs, ds, ls, over)
    BY <1>4
  <2>2. /\ Once(ds) /\ Elems(hs) = Elems(ds) \cup {p} /\ (over => p \in Elems(ls)) /\ w # "finished"
    BY <2>1, <1>3
  <2> QED
    BY <2>2, <1>1
<1> QED
  BY <1>2, <1>4 DEF ChainRight

LEMMA DispatchIsSound == ASSUME DispatchAssumption, DispatchRight PROVE WD!EveryPromptOnce
<1>1. /\ queue \in Seq(Names) /\ Once(queue)
      /\ \A c \in Workers : handed[c] \in Seq(Names) /\ Once(handed[c]) /\ Elems(handed[c]) \cap Elems(queue) = {}
      /\ \A c, d \in Workers : c # d => Elems(handed[c]) \cap Elems(handed[d]) = {}
      /\ Names = Elems(queue) \cup UNION {Elems(handed[c]) : c \in Workers}
  BY DEF DispatchRight, Shares
<1>2. ASSUME NEW c \in Workers
      PROVE  /\ recorded[c] \in Seq(Names) /\ missing[c] \in Seq(Names)
             /\ Once(recorded[c]) /\ Elems(recorded[c]) \subseteq Elems(handed[c]) /\ Elems(missing[c]) \subseteq Elems(handed[c])
             /\ Reaped(c, reaped) => Elems(handed[c]) = Elems(recorded[c]) \cup Elems(missing[c])
             /\ worker[c] = "finished" => closed[c] /\ handed[c] = recorded[c] /\ missing[c] = <<>>
  <2>1. ChainRight(worker[c], stdin[c], stdout[c], closed[c], inflight[c], handed[c], recorded[c], missing[c], Reaped(c, reaped))
    BY DEF DispatchRight, ThisChain
  <2>2. Once(handed[c])
    BY <1>1
  <2>3. recorded[c] \in Seq(Names) /\ missing[c] \in Seq(Names)
    BY <2>1 DEF ChainRight
  <2> QED
    BY <2>1, <2>2, <2>3, ChainBooks
<1>3. PICK h : h = WD!Handed
  OBVIOUS
<1>4. PICK r : r = WD!Recorded
  OBVIOUS
<1>5. PICK l : l = WD!ReportedLost
  OBVIOUS
<1>6. h \in Seq(Names) /\ Elems(h) = UNION {Elems(handed[c]) : c \in Workers} /\ Once(h)
  <2>1. Lists(handed) /\ Apart(handed)
    BY <1>1 DEF Lists, Apart
  <2> QED
    BY <2>1, <1>3, ByOrder DEF WD!Handed
<1>7. r \in Seq(Names) /\ Elems(r) = UNION {Elems(recorded[c]) : c \in Workers} /\ Once(r)
  <2>1. Lists(recorded)
    BY <1>2 DEF Lists
  <2>2. Apart(recorded)
    <3>1. SUFFICES ASSUME NEW c \in Workers, NEW d \in Workers, c # d PROVE Elems(recorded[c]) \cap Elems(recorded[d]) = {}
      BY <1>2 DEF Apart
    <3>2. Elems(handed[c]) \cap Elems(handed[d]) = {}
      BY <3>1, <1>1
    <3> QED
      BY <3>2, <1>2
  <2> QED
    BY <2>1, <2>2, <1>4, ByOrder DEF WD!Recorded
<1>8. l \in Seq(Names) /\ Elems(l) = UNION {Elems(missing[c]) : c \in Workers}
  <2>1. Lists(missing)
    BY <1>2 DEF Lists
  <2> QED
    BY <2>1, <1>5, ByOrder DEF WD!ReportedLost
<1>9. WD!ToSet(Prompts) = Names /\ WD!ToSet(h) = Elems(h) /\ WD!ToSet(r) = Elems(r) /\ WD!ToSet(l) = Elems(l)
      /\ (WD!IsInjective(r) <=> Once(r))
  <2>1. WD!ToSet(Prompts) = Names
    BY ChainsAre
  <2>2. WD!ToSet(h) = Elems(h)
    BY <1>6, ElemsAre
  <2>3. WD!ToSet(r) = Elems(r) /\ (WD!IsInjective(r) <=> Once(r))
    BY <1>7, ElemsAre
  <2>4. WD!ToSet(l) = Elems(l)
    BY <1>8, ElemsAre
  <2> QED
    BY <2>1, <2>2, <2>3, <2>4
<1>10. WD!IsInjective(queue \o h) /\ WD!ToSet(queue \o h) = Names
  <2>1. PICK a : a = queue \o h
    OBVIOUS
  <2>2. Elems(queue) \cap Elems(h) = {}
    BY <1>1, <1>6
  <2>3. Once(a)
    BY <2>1, <2>2, <1>1, <1>6, ConcatOnce
  <2>4. Elems(a) = Elems(queue) \cup Elems(h)
    BY <2>1, <1>1, <1>6, ConcatElems
  <2>5. a \in Seq(Names)
    BY <2>1, <1>1, <1>6, ConcatProperties
  <2>6. WD!ToSet(a) = Elems(a) /\ (WD!IsInjective(a) <=> Once(a))
    BY <2>5, ElemsAre
  <2>7. Elems(a) = Names
    BY <2>4, <1>1, <1>6
  <2> QED
    BY <2>1, <2>3, <2>6, <2>7
<1>11. Elems(r) \subseteq Elems(h)
  BY <1>2, <1>6, <1>7
<1>12. ASSUME report # "none" PROVE Elems(h) = Elems(r) \cup Elems(l)
  <2>1. ASSUME NEW c \in Workers PROVE Elems(handed[c]) = Elems(recorded[c]) \cup Elems(missing[c])
    <3>1. PICK i \in 1 .. Len(ChainOrder) : c = ChainOrder[i]
      BY DEF Workers, Elems
    <3>2. reaped = Len(ChainOrder)
      BY <1>12 DEF DispatchRight, ReportRight
    <3>3. Reaped(c, reaped)
      BY <3>1, <3>2 DEF Reaped
    <3> QED
      BY <3>3, <1>2
  <2>2. Elems(h) \subseteq Elems(r) \cup Elems(l)
    BY <2>1, <1>6, <1>7, <1>8
  <2>3. Elems(l) \subseteq Elems(h)
    BY <1>2, <1>6, <1>8
  <2> QED
    BY <2>2, <2>3, <1>11
<1>13. ASSUME report = "0" PROVE Elems(r) = Names /\ l = <<>>
  <2>1. \A c \in Workers : worker[c] = "finished"
    BY <1>13 DEF DispatchRight, ReportRight
  <2>2. \A c \in Workers : closed[c] /\ handed[c] = recorded[c] /\ missing[c] = <<>>
    BY <2>1, <1>2
  <2>3. queue = <<>>
    <3>1. \E c : c \in Workers
      <4>1. ChainOrder \in Seq(Workers) /\ ChainOrder # <<>>
        BY DEF DispatchAssumption
      <4>2. Head(ChainOrder) \in Workers
        BY <4>1, HeadTailProperties
      <4> QED
        BY <4>2
    <3> QED
      BY <3>1, <2>2 DEF DispatchRight, ReportRight
  <2>4. Elems(r) = Names
    <3>1. Elems(queue) = {}
      BY <2>3, NoElems
    <3>2. UNION {Elems(handed[c]) : c \in Workers} = UNION {Elems(recorded[c]) : c \in Workers}
      BY <2>2
    <3> QED
      BY <3>1, <3>2, <1>1, <1>7
  <2>5. Elems(l) = {}
    <3>1. \A c \in Workers : Elems(missing[c]) = {}
      BY <2>2, NoElems
    <3> QED
      BY <3>1, <1>8
  <2>6. l = <<>>
    <3>1. Len(l) \in Nat
      BY <1>8, LenProperties
    <3>2. Len(l) = 0
      <4>1. SUFFICES ASSUME Len(l) >= 1 PROVE FALSE
        BY <3>1
      <4>2. 1 \in 1 .. Len(l)
        BY <4>1, <3>1
      <4>3. l[1] \in Elems(l)
        BY <4>2 DEF Elems
      <4> QED
        BY <4>3, <2>5
    <3> QED
      BY <3>2, <1>8, EmptySeq
  <2> QED
    BY <2>4, <2>6
<1>14. WD!EveryPromptOnce <=>
         /\ WD!IsInjective(queue \o h) /\ WD!ToSet(queue \o h) = WD!ToSet(Prompts)
         /\ WD!IsInjective(r) /\ WD!ToSet(r) \subseteq WD!ToSet(h)
         /\ report # "none" => WD!ToSet(h) = WD!ToSet(r) \cup WD!ToSet(l)
         /\ report = "0" => WD!ToSet(r) = WD!ToSet(Prompts) /\ l = <<>>
  BY <1>3, <1>4, <1>5 DEF WD!EveryPromptOnce
<1> QED
  BY <1>7, <1>9, <1>10, <1>11, <1>12, <1>13, <1>14

\* Whichever chains die, and whenever: a prompt waits in the queue or was handed to one chain, once; the
\* dispatcher reports when every prompt it handed over was recorded or is called lost, and exits with 0
\* only when each was recorded.
THEOREM EachPromptRunsOnce == ASSUME DispatchAssumption PROVE WD!SpecDispatch => []WD!EveryPromptOnce
<1>1. WD!InitDispatch => DispatchRight
  BY DispatchStarts
<1>2. DispatchRight /\ [WD!NextDispatch]_(WD!dispatchVars) => DispatchRight'
  BY DispatchGoesOn
<1>3. DispatchRight => WD!EveryPromptOnce
  BY DispatchIsSound
<1> QED
  BY <1>1, <1>2, <1>3, PTL DEF WD!SpecDispatch
=============================================================================
