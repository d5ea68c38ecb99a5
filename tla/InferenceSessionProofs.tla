----------------------- MODULE InferenceSessionProofs -----------------------
(***************************************************************************)
(* Proofs about InferenceSession: whatever hops fail and are replaced, the *)
(* hops tile the blocks, and between two steps every hop stands at the     *)
(* position of the session, with the tokens the caller kept in its history *)
(* and in its server's cache.                                              *)
(*                                                                         *)
(* Inside a step the hops before server have taken in the new chunk and    *)
(* those from server on have not.  A hop that replaced another one stands  *)
(* at position 0: it only gets past the first assertion of a request when  *)
(* the session does too, and then it has nothing to rebuild.               *)
(***************************************************************************)
EXTENDS InferenceSession, TLAPS, SequenceTheorems, NaturalsInduction, WellFoundedInduction

\* What the caller keeps if the step that runs gets its answer.
Kept == accepted \o chunk

\* The cache holds these tokens from its first slot on.
Agrees(cache, tokens) == \A k \in 1 .. Len(tokens) : cache[k] = tokens[k]

\* A hop between two steps.
HopIdle(h) ==
  /\ h.position = position /\ h.history = accepted /\ h.stepped
  /\ h.served => Agrees(h.cache, accepted)

\* A hop that has answered the step that runs.
HopAfter(h) ==
  /\ h.position = position + Len(chunk) /\ h.history = Kept /\ h.stepped
  /\ h.served => Agrees(h.cache, Kept)

\* A hop that has not.
HopBefore(h) ==
  /\ h.position \in {0, position}
  /\ h.position = position =>
       /\ h.history \in {accepted, Kept}
       /\ h.served => Agrees(h.cache, accepted)
       /\ position > 0 => h.stepped

HopsIdle == phase = "idle" => \A i \in DOMAIN sessions : HopIdle(sessions[i])

HopsInStep ==
  Stepping => \A i \in DOMAIN sessions :
                IF i < server THEN HopAfter(sessions[i]) ELSE HopBefore(sessions[i])

\* Where a step is: at the first hop as long as there is none.
StepRight ==
  /\ phase \in {"idle", "route", "send"} => position = Len(accepted)
  /\ Stepping => inputs = chunk /\ position + Len(chunk) <= MaxLength
  /\ Stepping /\ sessions = <<>> => phase = "route" /\ server = 1 /\ block = 0

IInv == TypeOK /\ HopsTile /\ StepRight /\ HopsIdle /\ HopsInStep

-----------------------------------------------------------------------------
\* Sequences of hops that tile the blocks.

Within(h) ==
  /\ h.start < h.end
  /\ Serves[h.peer].start <= h.start /\ h.end <= Serves[h.peer].end

\* These hops cover the blocks from b to e, each once and in order.
Tiles(ss, b, e) ==
  /\ ss # <<>> /\ ss[1].start = b /\ ss[Len(ss)].end = e
  /\ \A i \in 1 .. Len(ss) : Within(ss[i])
  /\ \A i \in 1 .. Len(ss) : i > 1 => ss[i].start = ss[i - 1].end

LEMMA NextTile ==
  ASSUME NEW ss, NEW b, NEW e, Tiles(ss, b, e), NEW k \in 1 .. Len(ss), k > 1
  PROVE  ss[k].start = ss[k - 1].end
BY DEF Tiles

LEMMA HopTyped ==
  ASSUME NEW h \in Sessions
  PROVE  /\ h.peer \in Peers
         /\ h.start \in 0 .. NumBlocks - 1 /\ h.end \in 1 .. NumBlocks
         /\ h.start \in Int /\ h.end \in Int
         /\ h.position \in 0 .. MaxLength /\ h.history \in Seq(Tokens)
         /\ h.stepped \in BOOLEAN /\ h.served \in BOOLEAN /\ h.cache \in Caches
BY SessionAssumption DEF Sessions

LEMMA SessionsTile ==
  ASSUME sessions \in Seq(Sessions)
  PROVE  HopsTile <=> (sessions # <<>> =>
                         /\ Tiles(sessions, 0, NumBlocks)
                         /\ Stepping => server \in 1 .. Len(sessions) /\ sessions[server].start = block)
<1>1. DOMAIN sessions = 1 .. Len(sessions)
  BY LenProperties
<1> QED
  BY <1>1 DEF HopsTile, Tiles, Within, Last

LEMMA TilesHold ==
  ASSUME sessions' \in Seq(Sessions),
         sessions' # <<>> =>
           /\ Tiles(sessions', 0, NumBlocks)
           /\ Stepping' => server' \in 1 .. Len(sessions') /\ sessions'[server'].start = block'
  PROVE  HopsTile'
<1>1. DOMAIN sessions' = 1 .. Len(sessions')
  BY LenProperties
<1> QED
  BY <1>1 DEF HopsTile, Tiles, Within, Last

LEMMA LeastExists ==
  ASSUME NEW S, S \subseteq Nat, S # {} PROVE \E x \in S : \A y \in S : ~(y < x)
<1>1. PICK x \in S : \A y \in S : ~(<<y, x>> \in OpToRel(<, Nat))
  BY NatLessThanWellFounded, WFMin, Zenon
<1>2. \A y \in S : y < x => <<y, x>> \in OpToRel(<, Nat)
  BY DEF OpToRel
<1> QED
  BY <1>1, <1>2

\* Every hop is at least one block long, so there are no more hops than blocks.
LEMMA TilesShort ==
  ASSUME NEW ss \in Seq(Sessions), Tiles(ss, 0, NumBlocks)
  PROVE  Len(ss) \in 1 .. NumBlocks
<1>1. Len(ss) \in Nat /\ Len(ss) # 0
  BY LenProperties, EmptySeq DEF Tiles
<1>2. \A i \in 1 .. Len(ss) : ss[i].start \in Int /\ ss[i].end \in Int /\ ss[i].start <= NumBlocks - 1
  BY ElementOfSeq, HopTyped, SessionAssumption
<1>3. \A i \in 1 .. Len(ss) : ss[i].start >= i - 1
  <2> DEFINE Low == {i \in 1 .. Len(ss) : ~(ss[i].start >= i - 1)}
  <2> SUFFICES ASSUME Low # {} PROVE FALSE
    OBVIOUS
  <2>1. PICK i \in Low : \A j \in Low : ~(j < i)
    <3>1. Low \subseteq Nat
      BY <1>1
    <3> HIDE DEF Low
    <3> QED
      BY <3>1, LeastExists
  <2>2. i \in 1 .. Len(ss) /\ ~(ss[i].start >= i - 1)
    OBVIOUS
  <2>3. i # 1
    BY <2>2, <1>1, <1>2 DEF Tiles
  <2>4. i - 1 \in 1 .. Len(ss) /\ i - 1 \notin Low
    BY <2>1, <2>2, <2>3, <1>1
  <2>5. ss[i - 1].start >= i - 2
    BY <2>4, <1>1, <1>2
  <2>6. ss[i].start = ss[i - 1].end /\ ss[i - 1].start < ss[i - 1].end
    BY <2>2, <2>3, <2>4, <1>1 DEF Tiles, Within
  <2> QED
    BY <2>2, <2>4, <2>5, <2>6, <1>1, <1>2
<1>4. ss[Len(ss)].start >= Len(ss) - 1 /\ ss[Len(ss)].start <= NumBlocks - 1
  BY <1>1, <1>2, <1>3
<1> QED
  BY <1>1, <1>2, <1>4, SessionAssumption

\* The hop that ends at the last block is the last hop.
LEMMA LastHop ==
  ASSUME NEW ss \in Seq(Sessions), Tiles(ss, 0, NumBlocks), NEW i \in 1 .. Len(ss)
  PROVE  /\ ss[i].end >= NumBlocks => i = Len(ss)
         /\ ss[i].end < NumBlocks => i + 1 \in 1 .. Len(ss) /\ ss[i + 1].start = ss[i].end
<1>1. Len(ss) \in Nat
  BY LenProperties
<1>2. ss[i].end \in Int /\ (i + 1 \in 1 .. Len(ss) => ss[i + 1].start \in 0 .. NumBlocks - 1)
  BY ElementOfSeq, HopTyped
<1>3. i + 1 \in 1 .. Len(ss) => ss[i + 1].start = ss[(i + 1) - 1].end
  BY <1>1 DEF Tiles
<1>4. (i + 1) - 1 = i
  BY <1>1
<1> QED
  BY <1>1, <1>2, <1>3, <1>4, SessionAssumption DEF Tiles

\* The hops with new ones in the place of hop n.
Spliced(ss, n, new) == SubSeq(ss, 1, n - 1) \o new \o SubSeq(ss, n + 1, Len(ss))

\* Its elements, where they come from.
SplicedAt(tt, ss, n, new) ==
  /\ Len(tt) = n - 1 + Len(new) + (Len(ss) - n)
  /\ \A i \in 1 .. n - 1 : tt[i] = ss[i]
  /\ \A i \in n .. n - 1 + Len(new) : tt[i] = new[i - (n - 1)]
  /\ \A i \in n + Len(new) .. Len(tt) : tt[i] = ss[i - Len(new) + 1]

\* Every hop is an old one before n, or from n on a new one or an old one after n.
SplicedFrom(tt, ss, n, new) ==
  \A i \in 1 .. Len(tt) :
    \/ i < n /\ i \in 1 .. Len(ss) /\ tt[i] = ss[i]
    \/ i >= n /\ \E j \in 1 .. Len(new) : tt[i] = new[j]
    \/ i >= n /\ \E j \in n + 1 .. Len(ss) : tt[i] = ss[j]

\* The elements of tt are those of x, then those of y, then those of z.
Joined(tt, x, y, z) ==
  /\ Len(tt) = Len(x) + Len(y) + Len(z)
  /\ \A i \in 1 .. Len(x) : tt[i] = x[i]
  /\ \A i \in 1 .. Len(y) : tt[Len(x) + i] = y[i]
  /\ \A i \in 1 .. Len(z) : tt[Len(x) + Len(y) + i] = z[i]

LEMMA ThreeParts ==
  ASSUME NEW x \in Seq(Sessions), NEW y \in Seq(Sessions), NEW z \in Seq(Sessions),
         NEW tt, tt = x \o y \o z
  PROVE  tt \in Seq(Sessions) /\ Joined(tt, x, y, z)
<1>1. PICK u : u = x \o y
  OBVIOUS
<1>2. /\ u \in Seq(Sessions) /\ Len(u) = Len(x) + Len(y)
      /\ \A i \in 1 .. Len(x) + Len(y) : u[i] = IF i <= Len(x) THEN x[i] ELSE y[i - Len(x)]
  BY <1>1, ConcatProperties
<1>3. PICK v : v = u \o z
  OBVIOUS
<1>4. /\ v \in Seq(Sessions) /\ Len(v) = Len(u) + Len(z)
      /\ \A i \in 1 .. Len(u) + Len(z) : v[i] = IF i <= Len(u) THEN u[i] ELSE z[i - Len(u)]
  <2>1. u \in Seq(Sessions)
    BY <1>2
  <2> QED
    BY <2>1, <1>3, ConcatProperties
<1>5. Len(x) \in Nat /\ Len(y) \in Nat /\ Len(z) \in Nat
  BY LenProperties
<1>6. \A i \in 1 .. Len(x) : v[i] = x[i]
  BY <1>2, <1>4, <1>5
<1>7. \A i \in 1 .. Len(y) : v[Len(x) + i] = y[i]
  BY <1>2, <1>4, <1>5
<1>8. ASSUME NEW i \in 1 .. Len(z) PROVE v[Len(x) + Len(y) + i] = z[i]
  <2>1. PICK k : k = Len(x) + Len(y) + i
    OBVIOUS
  <2>2. k \in 1 .. Len(u) + Len(z) /\ ~(k <= Len(u)) /\ k - Len(u) = i
    BY <2>1, <1>2, <1>5
  <2> QED
    BY <2>1, <2>2, <1>4
<1>9. v = tt
  BY <1>1, <1>3
<1>10. Len(v) = Len(x) + Len(y) + Len(z)
  BY <1>2, <1>4
<1> QED
  BY <1>4, <1>6, <1>7, <1>8, <1>9, <1>10 DEF Joined

LEMMA SpliceParts ==
  ASSUME NEW S, NEW ss \in Seq(S), NEW n \in 1 .. Len(ss), NEW x, NEW z,
         x = SubSeq(ss, 1, n - 1), z = SubSeq(ss, n + 1, Len(ss))
  PROVE  /\ x \in Seq(S) /\ Len(x) = n - 1 /\ \A i \in 1 .. n - 1 : x[i] = ss[i]
         /\ z \in Seq(S) /\ Len(z) = Len(ss) - n /\ \A i \in 1 .. Len(ss) - n : z[i] = ss[n + i]
<1>1. Len(ss) \in Nat /\ \A i \in 1 .. Len(ss) : ss[i] \in S
  BY LenProperties, ElementOfSeq
<1>3. x \in Seq(S) /\ Len(x) = n - 1 /\ \A i \in 1 .. n - 1 : x[i] = ss[i]
  <2>1. \A i \in 1 .. n - 1 : ss[i] \in S
    BY <1>1
  <2>2. /\ x \in Seq(S)
        /\ Len(x) = IF 1 <= n - 1 THEN (n - 1) - 1 + 1 ELSE 0
        /\ \A i \in 1 .. (n - 1) - 1 + 1 : x[i] = ss[1 + i - 1]
    BY <2>1, <1>1, SubSeqProperties
  <2> QED
    BY <2>2, <1>1
<1>5. z \in Seq(S) /\ Len(z) = Len(ss) - n /\ \A i \in 1 .. Len(ss) - n : z[i] = ss[n + i]
  <2>1. \A i \in n + 1 .. Len(ss) : ss[i] \in S
    BY <1>1
  <2>2. /\ z \in Seq(S)
        /\ Len(z) = IF n + 1 <= Len(ss) THEN Len(ss) - (n + 1) + 1 ELSE 0
        /\ \A i \in 1 .. Len(ss) - (n + 1) + 1 : z[i] = ss[n + 1 + i - 1]
    BY <2>1, <1>1, SubSeqProperties
  <2>3. Len(z) = Len(ss) - n
    BY <2>2, <1>1
  <2>4. ASSUME NEW i \in 1 .. Len(ss) - n PROVE z[i] = ss[n + i]
    <3>1. i \in 1 .. Len(ss) - (n + 1) + 1 /\ n + 1 + i - 1 = n + i
      BY <1>1
    <3> QED
      BY <2>2, <3>1
  <2> QED
    BY <2>2, <2>3, <2>4
<1> QED
  BY <1>3, <1>5

LEMMA SpliceElements ==
  ASSUME NEW ss \in Seq(Sessions), NEW n \in 1 .. Len(ss), NEW new \in Seq(Sessions)
  PROVE  Spliced(ss, n, new) \in Seq(Sessions) /\ SplicedAt(Spliced(ss, n, new), ss, n, new)
<1>1. PICK x : x = SubSeq(ss, 1, n - 1)
  OBVIOUS
<1>2. PICK z : z = SubSeq(ss, n + 1, Len(ss))
  OBVIOUS
<1>3. /\ x \in Seq(Sessions) /\ Len(x) = n - 1 /\ \A i \in 1 .. n - 1 : x[i] = ss[i]
      /\ z \in Seq(Sessions) /\ Len(z) = Len(ss) - n /\ \A i \in 1 .. Len(ss) - n : z[i] = ss[n + i]
  BY <1>1, <1>2, SpliceParts
<1>4. PICK tt : tt = x \o new \o z
  OBVIOUS
<1>5. /\ tt \in Seq(Sessions) /\ Len(tt) = Len(x) + Len(new) + Len(z)
      /\ \A i \in 1 .. Len(x) : tt[i] = x[i]
      /\ \A i \in 1 .. Len(new) : tt[Len(x) + i] = new[i]
      /\ \A i \in 1 .. Len(z) : tt[Len(x) + Len(new) + i] = z[i]
  <2>1. x \in Seq(Sessions) /\ new \in Seq(Sessions) /\ z \in Seq(Sessions)
    BY <1>3
  <2>2. tt \in Seq(Sessions) /\ Joined(tt, x, new, z)
    BY <2>1, <1>4, ThreeParts
  <2> QED
    BY <2>2 DEF Joined
<1>6. Len(ss) \in Nat /\ Len(new) \in Nat /\ n \in Nat /\ 1 <= n /\ n <= Len(ss)
  BY LenProperties
<1>7. Len(tt) = n - 1 + Len(new) + (Len(ss) - n) /\ \A i \in 1 .. n - 1 : tt[i] = ss[i]
  BY <1>3, <1>5
<1>8. ASSUME NEW i \in n .. n - 1 + Len(new) PROVE tt[i] = new[i - (n - 1)]
  <2>1. PICK k : k = i - (n - 1)
    OBVIOUS
  <2>2. k \in 1 .. Len(new) /\ (n - 1) + k = i
    BY <2>1, <1>6
  <2>3. Len(x) + k = i
    BY <2>2, <1>3
  <2>4. tt[Len(x) + k] = new[k]
    BY <2>2, <1>5
  <2> QED
    BY <2>1, <2>3, <2>4
<1>9. ASSUME NEW i \in n + Len(new) .. Len(tt) PROVE tt[i] = ss[i - Len(new) + 1]
  <2>1. PICK k : k = i - (n - 1 + Len(new))
    OBVIOUS
  <2>2. k \in 1 .. Len(ss) - n
    BY <2>1, <1>6, <1>7
  <2>3. (n - 1) + Len(new) + k = i /\ n + k = i - Len(new) + 1
    BY <2>1, <1>6, <1>7
  <2>4. tt[(n - 1) + Len(new) + k] = z[k] /\ z[k] = ss[n + k]
    BY <2>2, <1>3, <1>5
  <2> QED
    BY <2>3, <2>4
<1> QED
  BY <1>1, <1>2, <1>4, <1>5, <1>7, <1>8, <1>9 DEF Spliced, SplicedAt

LEMMA PieceEnd ==
  ASSUME NEW i \in Nat, NEW n \in Nat, NEW m \in Nat, m # 0, i = n + m
  PROVE  i - 1 \in n .. n - 1 + m /\ (i - 1) - (n - 1) = m
OBVIOUS

LEMMA BeforePiece ==
  ASSUME NEW i \in Nat, NEW n \in Nat, i = n, i > 1 PROVE i - 1 \in 1 .. n - 1 /\ i - 1 = n - 1
OBVIOUS

LEMMA FivePlaces ==
  ASSUME NEW i \in Nat, NEW n \in Nat, NEW m \in Nat
  PROVE  i < n \/ i = n \/ i \in n + 1 .. n - 1 + m \/ i = n + m \/ i > n + m
OBVIOUS

\* A piece that covers the blocks of one hop can take its place.
LEMMA PieceTiles ==
  ASSUME NEW ss \in Seq(Sessions), NEW n \in 1 .. Len(ss), NEW new \in Seq(Sessions),
         Tiles(ss, 0, NumBlocks), Tiles(new, ss[n].start, ss[n].end),
         NEW tt \in Seq(Sessions), SplicedAt(tt, ss, n, new)
  PROVE  /\ Tiles(tt, 0, NumBlocks)
         /\ n \in 1 .. Len(tt) /\ tt[n] = new[1]
         /\ SplicedFrom(tt, ss, n, new)
<1>1. PICK len \in Nat : len = Len(ss) /\ n <= len
  BY LenProperties
<1>2. PICK m \in Nat : m = Len(new) /\ m # 0
  BY LenProperties, EmptySeq DEF Tiles
<1> n \in Nat /\ 1 <= n /\ n <= len /\ m # 0
  BY <1>1, <1>2
<1> /\ Len(tt) = n - 1 + m + (len - n)
    /\ \A i \in 1 .. n - 1 : tt[i] = ss[i]
    /\ \A i \in n .. n - 1 + m : tt[i] = new[i - (n - 1)]
    /\ \A i \in n + m .. Len(tt) : tt[i] = ss[i - m + 1]
  BY <1>1, <1>2 DEF SplicedAt
<1>8. n \in 1 .. Len(tt) /\ tt[n] = new[1] /\ tt # <<>>
  <2>1. n \in n .. n - 1 + m /\ n - (n - 1) = 1 /\ n \in 1 .. Len(tt)
    OBVIOUS
  <2>2. tt[n] = new[n - (n - 1)]
    BY <2>1
  <2>3. tt # <<>>
    BY <2>1, EmptySeq
  <2> QED
    BY <2>1, <2>2, <2>3
<1>9. ASSUME NEW i \in 1 .. Len(tt)
      PROVE  \/ i < n /\ i \in 1 .. len /\ tt[i] = ss[i]
             \/ i >= n /\ \E j \in 1 .. m : tt[i] = new[j]
             \/ i >= n /\ \E j \in n + 1 .. len : tt[i] = ss[j]
  <2>1. CASE i < n
    BY <2>1
  <2>2. CASE i \in n .. n - 1 + m
    <3>1. i - (n - 1) \in 1 .. m /\ i >= n
      BY <2>2
    <3>2. tt[i] = new[i - (n - 1)]
      BY <2>2
    <3> QED
      BY <3>1, <3>2
  <2>3. CASE i \in n + m .. Len(tt)
    <3>1. i - m + 1 \in n + 1 .. len
      BY <2>3
    <3> QED
      BY <2>3, <3>1
  <2> QED
    BY <2>1, <2>2, <2>3
<1>10. Tiles(tt, 0, NumBlocks)
  <2>1. tt[1].start = 0
    <3>1. CASE n = 1
      BY <3>1, <1>8, <1>1, <1>2 DEF Tiles
    <3>2. CASE n > 1
      <4>1. 1 \in 1 .. n - 1
        BY <3>2
      <4> QED
        BY <4>1, <1>1, <1>2 DEF Tiles
    <3> QED
      BY <3>1, <3>2
  <2>2. tt[Len(tt)].end = NumBlocks
    <3>1. CASE n = len
      <4>1. Len(tt) \in n .. n - 1 + m /\ Len(tt) - (n - 1) = m
        BY <3>1
      <4> QED
        BY <4>1, <3>1, <1>1, <1>2 DEF Tiles
    <3>2. CASE n < len
      <4>1. Len(tt) \in n + m .. Len(tt) /\ Len(tt) - m + 1 = len
        BY <3>2
      <4> QED
        BY <4>1, <1>1, <1>2 DEF Tiles
    <3> QED
      BY <3>1, <3>2
  <2>3. ASSUME NEW i \in 1 .. Len(tt) PROVE Within(tt[i])
    <3>1. /\ \A j \in 1 .. len : Within(ss[j])
          /\ \A j \in 1 .. m : Within(new[j])
          /\ n + 1 .. len \subseteq 1 .. len
      BY <1>1, <1>2 DEF Tiles
    <3> QED
      BY <3>1, <1>9
  <2>4. ASSUME NEW i \in 1 .. Len(tt), i > 1 PROVE tt[i].start = tt[i - 1].end
    <3>6. i \in Nat /\ i <= Len(tt)
      OBVIOUS
    <3>1. CASE i < n
      <4>1. i \in 1 .. n - 1 /\ i - 1 \in 1 .. n - 1 /\ i \in 1 .. len
        BY <3>1, <2>4
      <4> QED
        BY <4>1, <2>4, <1>1, <1>2 DEF Tiles
    <3>2. CASE i = n
      <4>3. i - 1 \in 1 .. n - 1 /\ i - 1 = n - 1
        BY <3>2, <3>6, <2>4, BeforePiece
      <4>1. i - 1 \in 1 .. n - 1 /\ tt[i - 1] = ss[n - 1]
        BY <4>3
      <4>2. ss[n].start = ss[n - 1].end
        BY <3>2, <2>4, <1>1, <1>2 DEF Tiles
      <4> QED
        BY <4>1, <4>2, <3>2, <1>8, <1>1, <1>2 DEF Tiles
    <3>3. CASE i \in n + 1 .. n - 1 + m
      <4>1. PICK k : k = i - (n - 1)
        OBVIOUS
      <4>2. k \in 1 .. m /\ k > 1
        BY <3>3, <4>1
      <4>3. i - 1 \in n .. n - 1 + m /\ (i - 1) - (n - 1) = k - 1
        BY <3>3, <4>1
      <4>4. tt[i] = new[k] /\ tt[i - 1] = new[k - 1]
        BY <3>3, <4>1, <4>3
      <4>5. new[k].start = new[k - 1].end
        BY <4>2, <1>2, NextTile
      <4> QED
        BY <4>4, <4>5
    <3>4. CASE i = n + m
      <4>a. i - 1 \in n .. n - 1 + m /\ (i - 1) - (n - 1) = m
        BY <3>4, <3>6, PieceEnd
      <4>b. i - m + 1 = n + 1 /\ i \in n + m .. Len(tt)
        BY <3>4, <3>6
      <4>4. n + 1 \in 1 .. len /\ (n + 1) - 1 = n /\ n + 1 > 1
        BY <3>4, <3>6
      <4>2. tt[i] = ss[n + 1] /\ tt[i - 1] = new[m]
        BY <4>a, <4>b
      <4>3. ss[n + 1].start = ss[n].end
        BY <4>4, <1>1, <1>2 DEF Tiles
      <4> QED
        BY <4>2, <4>3, <1>1, <1>2 DEF Tiles
    <3>5. CASE i > n + m
      <4>1. i \in n + m .. Len(tt) /\ i - 1 \in n + m .. Len(tt)
        BY <3>5, <3>6
      <4>3. (i - 1) - m + 1 = (i - m + 1) - 1
        BY <3>6
      <4>4. i - m + 1 \in 1 .. len /\ i - m + 1 > 1
        BY <3>5, <3>6
      <4>2. tt[i] = ss[i - m + 1] /\ tt[i - 1] = ss[(i - m + 1) - 1]
        BY <4>1, <4>3
      <4> QED
        BY <4>2, <4>4, <1>1, <1>2 DEF Tiles
    <3> QED
      <4>1. i < n \/ i = n \/ i \in n + 1 .. n - 1 + m \/ i = n + m \/ i > n + m
        BY <3>6, FivePlaces
      <4> QED
        BY <4>1, <3>1, <3>2, <3>3, <3>4, <3>5
  <2> QED
    BY <2>1, <2>2, <2>3, <2>4, <1>8, <1>1, <1>2 DEF Tiles
<1> QED
  BY <1>8, <1>9, <1>10, <1>1, <1>2 DEF SplicedFrom

LEMMA SpliceTiles ==
  ASSUME NEW ss \in Seq(Sessions), NEW n \in 1 .. Len(ss), NEW new \in Seq(Sessions),
         Tiles(ss, 0, NumBlocks), Tiles(new, ss[n].start, ss[n].end),
         NEW tt, tt = Spliced(ss, n, new)
  PROVE  /\ tt \in Seq(Sessions)
         /\ Tiles(tt, 0, NumBlocks)
         /\ n \in 1 .. Len(tt) /\ tt[n] = new[1]
         /\ SplicedFrom(tt, ss, n, new)
<1>1. tt \in Seq(Sessions) /\ SplicedAt(tt, ss, n, new)
  BY SpliceElements
<1> QED
  BY <1>1, PieceTiles

\* Changes that leave every hop its blocks leave the tiling.
SamePlaces(tt, ss) ==
  /\ Len(tt) = Len(ss)
  /\ \A i \in 1 .. Len(ss) :
       tt[i].peer = ss[i].peer /\ tt[i].start = ss[i].start /\ tt[i].end = ss[i].end

LEMMA SamePlacesTile ==
  ASSUME NEW ss \in Seq(Sessions), NEW tt \in Seq(Sessions), NEW b, NEW e,
         Tiles(ss, b, e), SamePlaces(tt, ss)
  PROVE  Tiles(tt, b, e)
<1>1. Len(ss) \in Nat /\ Len(ss) # 0 /\ Len(tt) = Len(ss)
  BY LenProperties, EmptySeq DEF Tiles, SamePlaces
<1>2. tt # <<>>
  BY <1>1, EmptySeq
<1>3. tt[1].start = b /\ tt[Len(tt)].end = e
  BY <1>1 DEF Tiles, SamePlaces
<1>4. \A i \in 1 .. Len(tt) : Within(tt[i])
  BY <1>1 DEF Tiles, SamePlaces, Within
<1>5. ASSUME NEW i \in 1 .. Len(tt), i > 1 PROVE tt[i].start = tt[i - 1].end
  <2>1. i \in 1 .. Len(ss) /\ i - 1 \in 1 .. Len(ss)
    BY <1>1, <1>5
  <2> QED
    BY <2>1, <1>5 DEF Tiles, SamePlaces
<1> QED
  BY <1>2, <1>3, <1>4, <1>5 DEF Tiles

LEMMA FunctionSeq ==
  ASSUME NEW S, NEW n \in Nat, NEW f \in [1 .. n -> S]
  PROVE  f \in Seq(S) /\ Len(f) = n
OBVIOUS

-----------------------------------------------------------------------------
\* What one attempt of a step does to the hop it is sent to.

LEMMA KeptTyped ==
  ASSUME accepted \in Seq(Tokens), chunk \in Seq(Tokens)
  PROVE  /\ Kept \in Seq(Tokens) /\ Len(Kept) = Len(accepted) + Len(chunk)
         /\ \A k \in 1 .. Len(accepted) : Kept[k] = accepted[k]
         /\ \A k \in Len(accepted) + 1 .. Len(Kept) : Kept[k] = chunk[k - Len(accepted)]
         /\ accepted = <<>> => Kept = chunk
         /\ chunk = <<>> => Kept = accepted
<1>1. Len(accepted) \in Nat /\ Len(chunk) \in Nat
  BY LenProperties
<1>2. /\ Kept \in Seq(Tokens) /\ Len(Kept) = Len(accepted) + Len(chunk)
      /\ \A i \in 1 .. Len(accepted) + Len(chunk) :
           Kept[i] = IF i <= Len(accepted) THEN accepted[i] ELSE chunk[i - Len(accepted)]
  BY ConcatProperties DEF Kept
<1>3. (accepted = <<>> => Kept = chunk) /\ (chunk = <<>> => Kept = accepted)
  BY ConcatEmptySeq DEF Kept
<1> QED
  BY <1>1, <1>2, <1>3

\* A hop at the position of the session passes both assertions, and is sent the
\* chunk, whether or not it has been used before.
LEMMA RequestRight ==
  ASSUME TypeOK, StepRight, Stepping, sessions # <<>>, server \in 1 .. Len(sessions),
         HopBefore(Current), PositionHolds
  PROVE  Extended = Kept /\ HistoryHolds /\ Message = chunk
<1>1. /\ accepted \in Seq(Tokens) /\ chunk \in Seq(Tokens) /\ inputs = chunk /\ position = Len(accepted)
      /\ Len(accepted) \in Nat /\ Len(chunk) \in Nat
  BY LenProperties DEF TypeOK, StepRight, Stepping
<1>2. Current.position = position /\ Current.history \in {accepted, Kept}
  BY DEF HopBefore, PositionHolds
<1>3. Len(Kept) = Len(accepted) + Len(chunk)
  BY <1>1, KeptTyped
<1>4. Extended = Kept
  <2>1. CASE Current.history = accepted
    BY <2>1, <1>1, <1>2 DEF Extended, Kept
  <2>2. CASE Current.history = Kept /\ Len(chunk) # 0
    BY <2>2, <1>1, <1>2, <1>3 DEF Extended
  <2>3. CASE Current.history = Kept /\ Len(chunk) = 0
    <3>1. chunk = <<>>
      BY <2>3, <1>1, EmptySeq
    <3>2. Kept = accepted
      BY <3>1, <1>1, KeptTyped
    <3> QED
      BY <2>1, <2>3, <3>2
  <2> QED
    BY <2>1, <2>2, <2>3, <1>2
<1>5. HistoryHolds
  BY <1>1, <1>2, <1>3, <1>4 DEF HistoryHolds
<1>6. Message = chunk
  <2>1. CASE Current.stepped
    BY <2>1, <1>1 DEF Message
  <2>2. CASE ~Current.stepped
    <3>1. ~(position > 0)
      BY <2>2, <1>2 DEF HopBefore
    <3>2. accepted = <<>>
      BY <3>1, <1>1, EmptySeq
    <3>3. Kept = chunk
      BY <3>2, <1>1, KeptTyped
    <3> QED
      BY <2>2, <3>3, <1>4 DEF Message
  <2> QED
    BY <2>1, <2>2
<1> QED
  BY <1>4, <1>5, <1>6

\* The server writes the chunk behind what the caller kept.
LEMMA WrittenRight ==
  ASSUME accepted \in Seq(Tokens), chunk \in Seq(Tokens), position = Len(accepted),
         position + Len(chunk) <= MaxLength,
         NEW cache \in Caches, NEW after, after = Written(cache, position, chunk)
  PROVE  /\ after \in Caches
         /\ Agrees(cache, accepted) => Agrees(after, accepted) /\ Agrees(after, Kept)
<1>1. /\ Len(accepted) \in Nat /\ Len(chunk) \in Nat /\ MaxLength \in Nat
      /\ DOMAIN chunk = 1 .. Len(chunk) /\ DOMAIN cache = 1 .. MaxLength
      /\ cache \in [1 .. MaxLength -> Tokens \cup {Garbage}]
  BY LenProperties, SessionAssumption DEF Caches
<1>2. after = [i \in 1 .. MaxLength |->
                 IF i - position \in 1 .. Len(chunk) THEN chunk[i - position] ELSE cache[i]]
  BY <1>1 DEF Written
<1>3. \A i \in 1 .. Len(chunk) : chunk[i] \in Tokens
  BY ElementOfSeq
<1>4. after \in Caches
  BY <1>1, <1>2, <1>3 DEF Caches
<1>5. /\ Len(Kept) = Len(accepted) + Len(chunk)
      /\ \A k \in 1 .. Len(accepted) : Kept[k] = accepted[k]
      /\ \A k \in Len(accepted) + 1 .. Len(Kept) : Kept[k] = chunk[k - Len(accepted)]
  BY KeptTyped
<1>6. ASSUME Agrees(cache, accepted), NEW k \in 1 .. Len(accepted) PROVE after[k] = accepted[k]
  <2>1. k \in 1 .. MaxLength /\ k - position \notin 1 .. Len(chunk)
    BY <1>1
  <2>2. after[k] = cache[k]
    BY <2>1, <1>2
  <2> QED
    BY <2>2, <1>6 DEF Agrees
<1>7. ASSUME NEW k \in Len(accepted) + 1 .. Len(Kept) PROVE after[k] = Kept[k]
  <2>1. k \in 1 .. MaxLength /\ k - position \in 1 .. Len(chunk)
    BY <1>1, <1>5
  <2>2. after[k] = chunk[k - position]
    BY <2>1, <1>2
  <2> QED
    BY <2>2, <1>5
<1>8. \A k \in 1 .. Len(Kept) : k \in 1 .. Len(accepted) \/ k \in Len(accepted) + 1 .. Len(Kept)
  BY <1>1, <1>5
<1> QED
  BY <1>4, <1>5, <1>6, <1>7, <1>8 DEF Agrees

-----------------------------------------------------------------------------
\* Steps that leave the hops where they are.

LEMMA SessionsTyped ==
  ASSUME sessions \in Seq(Sessions)
  PROVE  /\ Len(sessions) \in Nat /\ DOMAIN sessions = 1 .. Len(sessions)
         /\ \A i \in 1 .. Len(sessions) : sessions[i] \in Sessions
         /\ sessions = <<>> <=> Len(sessions) = 0
         /\ sessions \in [1 .. Len(sessions) -> Sessions]
BY LenProperties, ElementOfSeq, EmptySeq

\* The hops as the invariant sees them: the next one is up, as long as there is one.
LEMMA StepTiled ==
  ASSUME IInv, Stepping, sessions # <<>>
  PROVE  /\ Tiles(sessions, 0, NumBlocks)
         /\ server \in 1 .. Len(sessions) /\ sessions[server].start = block
         /\ server \in 1 .. NumBlocks
<1>1. /\ Tiles(sessions, 0, NumBlocks)
      /\ server \in 1 .. Len(sessions) /\ sessions[server].start = block
  BY SessionsTile DEF IInv, TypeOK
<1>2. Len(sessions) \in 1 .. NumBlocks
  BY <1>1, TilesShort DEF IInv, TypeOK
<1> QED
  BY <1>1, <1>2, SessionAssumption

LEMMA KeepInv ==
  ASSUME IInv, sessions' \in Seq(Sessions), SamePlaces(sessions', sessions),
         UNCHANGED <<position, server, block, inputs, chunk, accepted, retries>>,
         up' \subseteq Peers, faults' \in 0 .. MaxFaults, attempt' \in Nat,
         phase' = phase \/ (Stepping /\ phase' \in {"route", "raised"}),
         \A i \in 1 .. Len(sessions) :
           /\ phase = "idle" /\ HopIdle(sessions[i]) => HopIdle(sessions'[i])
           /\ Stepping /\ i < server /\ HopAfter(sessions[i]) => HopAfter(sessions'[i])
           /\ Stepping /\ i >= server /\ HopBefore(sessions[i]) => HopBefore(sessions'[i])
  PROVE  IInv'
<1>1. TypeOK'
  BY DEF IInv, TypeOK, Stepping
<1>2. Len(sessions') = Len(sessions) /\ Len(sessions) \in Nat
      /\ DOMAIN sessions' = 1 .. Len(sessions) /\ DOMAIN sessions = 1 .. Len(sessions)
  BY LenProperties DEF SamePlaces, IInv, TypeOK
<1>3. Stepping' => Stepping
  BY DEF Stepping
<1>4. HopsTile'
  <2>1. SUFFICES ASSUME sessions' # <<>>
                 PROVE  /\ Tiles(sessions', 0, NumBlocks)
                        /\ Stepping' => server' \in 1 .. Len(sessions') /\ sessions'[server'].start = block'
    BY TilesHold
  <2>2. sessions # <<>>
    BY <2>1, <1>2, EmptySeq DEF IInv, TypeOK
  <2>3. Tiles(sessions, 0, NumBlocks)
        /\ (Stepping => server \in 1 .. Len(sessions) /\ sessions[server].start = block)
    BY <2>2, SessionsTile DEF IInv, TypeOK
  <2>4. Tiles(sessions', 0, NumBlocks)
    BY <2>3, SamePlacesTile DEF IInv, TypeOK
  <2> QED
    BY <2>3, <2>4, <1>2, <1>3 DEF SamePlaces
<1>5. StepRight'
  <2>1. phase' \in {"idle", "route", "send"} => phase \in {"idle", "route", "send"}
    BY DEF Stepping
  <2>2. position' \in {position} /\ (phase' \in {"idle", "route", "send"} => position' = Len(accepted'))
    BY <2>1 DEF IInv, StepRight
  <2>3. Stepping' => inputs' = chunk' /\ position' + Len(chunk') <= MaxLength
    BY <1>3 DEF IInv, StepRight
  <2>4. ASSUME Stepping', sessions' = <<>> PROVE phase' = "route" /\ server' = 1 /\ block' = 0
    <3>1. sessions = <<>> /\ Stepping
      BY <2>4, <1>2, <1>3, EmptySeq DEF IInv, TypeOK
    <3>2. phase = "route" /\ server = 1 /\ block = 0
      BY <3>1 DEF IInv, StepRight
    <3> QED
      BY <2>4, <3>2 DEF Stepping
  <2> QED
    BY <2>2, <2>3, <2>4 DEF StepRight
<1>6. HopsIdle'
  <2>1. SUFFICES ASSUME phase' = "idle", NEW i \in 1 .. Len(sessions) PROVE HopIdle(sessions[i])'
    BY <1>2 DEF HopsIdle
  <2>2. phase = "idle" /\ HopIdle(sessions[i])
    BY <2>1, <1>2 DEF IInv, HopsIdle
  <2>3. HopIdle(sessions'[i])
    BY <2>2
  <2> QED
    BY <2>3 DEF HopIdle
<1>7. HopsInStep'
  <2>1. SUFFICES ASSUME Stepping', NEW i \in 1 .. Len(sessions)
                 PROVE  IF i < server THEN HopAfter(sessions[i])' ELSE HopBefore(sessions[i])'
    BY <1>2 DEF HopsInStep
  <2>2. IF i < server THEN HopAfter(sessions[i]) ELSE HopBefore(sessions[i])
    BY <2>1, <1>2, <1>3 DEF IInv, HopsInStep
  <2>3. i < server \/ i >= server
    BY DEF IInv, TypeOK
  <2>4. CASE i < server
    <3>1. HopAfter(sessions'[i])
      BY <2>1, <2>2, <2>4, <1>3
    <3> QED
      BY <3>1, <2>4 DEF HopAfter, Kept
  <2>5. CASE ~(i < server)
    <3>1. HopBefore(sessions'[i])
      BY <2>1, <2>2, <2>3, <2>5, <1>3
    <3> QED
      BY <3>1, <2>5 DEF HopBefore, Kept
  <2> QED
    BY <2>4, <2>5
<1> QED
  BY <1>1, <1>4, <1>5, <1>6, <1>7 DEF IInv

LEMMA FailMoves ==
  ASSUME TypeOK, Stepping, Fail
  PROVE  attempt' \in Nat /\ phase' \in {"route", "raised"}
BY DEF Fail, TypeOK

\* The server's side of a hop ends.
LEMMA EndedHop ==
  ASSUME NEW h \in Sessions, NEW g, g = h \/ g = [h EXCEPT !.served = FALSE]
  PROVE  /\ g \in Sessions
         /\ g.peer = h.peer /\ g.start = h.start /\ g.end = h.end
         /\ HopIdle(h) => HopIdle(g)
         /\ HopAfter(h) => HopAfter(g)
         /\ HopBefore(h) => HopBefore(g)
<1>1. CASE g = h
  BY <1>1
<1>2. CASE g = [h EXCEPT !.served = FALSE]
  <2>1. /\ g.peer = h.peer /\ g.start = h.start /\ g.end = h.end /\ g.position = h.position
        /\ g.history = h.history /\ g.stepped = h.stepped /\ g.served = FALSE
        /\ g \in Sessions
    BY <1>2 DEF Sessions
  <2> QED
    BY <2>1 DEF HopIdle, HopAfter, HopBefore
<1> QED
  BY <1>1, <1>2

\* So do the sides of several.
LEMMA EndedKeep ==
  ASSUME IInv, NEW D,
         sessions' = [i \in DOMAIN sessions |->
                        IF i \in D THEN [sessions[i] EXCEPT !.served = FALSE] ELSE sessions[i]],
         UNCHANGED <<position, server, block, inputs, chunk, accepted, retries>>,
         up' \subseteq Peers, faults' \in 0 .. MaxFaults, attempt' \in Nat,
         phase' = phase \/ (Stepping /\ phase' \in {"route", "raised"})
  PROVE  IInv'
<1>1. /\ Len(sessions) \in Nat /\ DOMAIN sessions = 1 .. Len(sessions)
      /\ \A i \in 1 .. Len(sessions) : sessions[i] \in Sessions
  BY SessionsTyped DEF IInv, TypeOK
<1>2. \A i \in 1 .. Len(sessions) :
        sessions'[i] = sessions[i] \/ sessions'[i] = [sessions[i] EXCEPT !.served = FALSE]
  BY <1>1
<1>3. \A i \in 1 .. Len(sessions) :
        /\ sessions'[i] \in Sessions
        /\ sessions'[i].peer = sessions[i].peer /\ sessions'[i].start = sessions[i].start
        /\ sessions'[i].end = sessions[i].end
        /\ HopIdle(sessions[i]) => HopIdle(sessions'[i])
        /\ HopAfter(sessions[i]) => HopAfter(sessions'[i])
        /\ HopBefore(sessions[i]) => HopBefore(sessions'[i])
  BY <1>1, <1>2, EndedHop
<1>4. sessions' \in [1 .. Len(sessions) -> Sessions]
  BY <1>1, <1>3
<1>5. sessions' \in Seq(Sessions) /\ Len(sessions') = Len(sessions)
  BY <1>1, <1>4, FunctionSeq
<1>6. SamePlaces(sessions', sessions)
  BY <1>3, <1>5 DEF SamePlaces
<1> QED
  BY <1>3, <1>5, <1>6, KeepInv

LEMMA StepCrash ==
  ASSUME IInv, NEW p \in Peers, Crash(p) PROVE IInv'
<1>1. PICK D : D = {i \in DOMAIN sessions : sessions[i].peer = p}
  OBVIOUS
<1>2. sessions' = [i \in DOMAIN sessions |->
                     IF i \in D THEN [sessions[i] EXCEPT !.served = FALSE] ELSE sessions[i]]
  BY <1>1 DEF Crash
<1>3. up \subseteq Peers /\ faults \in 0 .. MaxFaults /\ attempt \in Nat
  BY DEF IInv, TypeOK
<1>4. up' = up \ {p} /\ faults' = faults + 1 /\ faults < MaxFaults /\ attempt' = attempt
  BY DEF Crash
<1>5. up' \subseteq Peers /\ faults' \in 0 .. MaxFaults /\ attempt' \in Nat
  BY <1>3, <1>4, SessionAssumption
<1>6. UNCHANGED <<position, server, block, inputs, chunk, accepted, retries>> /\ phase' = phase
  BY DEF Crash
<1> QED
  BY <1>2, <1>5, <1>6, EndedKeep

LEMMA StepRestart ==
  ASSUME IInv, NEW p \in Peers, Restart(p) PROVE IInv'
<1> PICK D : D = {}
  OBVIOUS
<1>1. sessions' = [i \in DOMAIN sessions |->
                     IF i \in D THEN [sessions[i] EXCEPT !.served = FALSE] ELSE sessions[i]]
  BY SessionsTyped DEF Restart, IInv, TypeOK
<1>2. up' \subseteq Peers /\ faults' \in 0 .. MaxFaults /\ attempt' \in Nat
  BY DEF Restart, IInv, TypeOK
<1> QED
  BY <1>1, <1>2, EndedKeep DEF Restart

LEMMA StepGiveUp ==
  ASSUME IInv, NEW i, GiveUp(i) PROVE IInv'
<1>1. /\ sessions \in [1 .. Len(sessions) -> Sessions] /\ DOMAIN sessions = 1 .. Len(sessions)
      /\ i \in DOMAIN sessions
  BY SessionsTyped DEF GiveUp, IInv, TypeOK
<1>2. sessions' = [j \in DOMAIN sessions |->
                     IF j \in {i} THEN [sessions[j] EXCEPT !.served = FALSE] ELSE sessions[j]]
  BY <1>1 DEF GiveUp
<1>3. up' \subseteq Peers /\ faults' \in 0 .. MaxFaults /\ attempt' \in Nat
  BY SessionAssumption DEF GiveUp, IInv, TypeOK
<1> QED
  BY <1>2, <1>3, EndedKeep DEF GiveUp

LEMMA StepRerouteFails ==
  ASSUME IInv, RerouteFails PROVE IInv'
<1>1. sessions' = [i \in DOMAIN sessions |->
                     IF i \in {server} THEN [sessions[i] EXCEPT !.served = FALSE] ELSE sessions[i]]
  BY DEF RerouteFails, Closed
<1>2. Stepping /\ up' \subseteq Peers /\ faults' \in 0 .. MaxFaults
  BY DEF RerouteFails, Stepping, IInv, TypeOK
<1>3. attempt' \in Nat /\ phase' \in {"route", "raised"}
  BY <1>2, FailMoves DEF RerouteFails, IInv
<1> QED
  BY <1>1, <1>2, <1>3, EndedKeep DEF RerouteFails

\* The hop that is up next.
LEMMA CurrentRight ==
  ASSUME IInv, phase = "send"
  PROVE  /\ Stepping /\ sessions # <<>>
         /\ server \in 1 .. Len(sessions) /\ server \in 1 .. NumBlocks
         /\ Current \in Sessions /\ HopBefore(Current)
<1>1. Stepping /\ sessions # <<>>
  BY DEF Stepping, IInv, StepRight
<1>2. server \in 1 .. Len(sessions) /\ server \in 1 .. NumBlocks
  BY <1>1, StepTiled
<1>3. Current \in Sessions /\ DOMAIN sessions = 1 .. Len(sessions)
  BY <1>2, SessionsTyped DEF Current, IInv, TypeOK
<1>4. ~(server < server)
  BY DEF IInv, TypeOK
<1> QED
  BY <1>1, <1>2, <1>3, <1>4 DEF Current, IInv, HopsInStep

\* An assertion fails: it is the first one, and the session is left as it is.
LEMMA StepSendRefused ==
  ASSUME IInv, SendRefused PROVE IInv'
<1>1. /\ Stepping /\ sessions # <<>> /\ server \in 1 .. Len(sessions) /\ HopBefore(Current)
  BY CurrentRight DEF SendRefused
<1>2. ~PositionHolds
  BY <1>1, RequestRight DEF IInv, SendRefused
<1>3. sessions' = sessions
  BY <1>2 DEF SendRefused
<1> PICK D : D = {}
  OBVIOUS
<1>4. sessions' = [i \in DOMAIN sessions |->
                     IF i \in D THEN [sessions[i] EXCEPT !.served = FALSE] ELSE sessions[i]]
  BY <1>3, SessionsTyped DEF IInv, TypeOK
<1>5. up' \subseteq Peers /\ faults' \in 0 .. MaxFaults
  BY DEF SendRefused, IInv, TypeOK
<1>6. attempt' \in Nat /\ phase' \in {"route", "raised"}
  BY <1>1, FailMoves DEF SendRefused, IInv
<1> QED
  BY <1>1, <1>4, <1>5, <1>6, EndedKeep DEF SendRefused

\* A request that went out but brought no answer: the history holds the chunk,
\* the cache may hold it too, and the hop is still one that has not answered.
LEMMA UnansweredKeeps ==
  ASSUME IInv, phase = "send", PositionHolds,
         NEW cache \in Caches, cache = Current.cache \/ cache = Written(Current.cache, Current.position, Message),
         sessions' = [sessions EXCEPT ![server] =
                        [Current EXCEPT !.history = Extended, !.stepped = TRUE, !.cache = cache]],
         UNCHANGED <<position, server, block, inputs, chunk, accepted, retries>>,
         up' \subseteq Peers, faults' \in 0 .. MaxFaults, Fail
  PROVE  IInv'
<1>1. /\ Stepping /\ sessions # <<>> /\ server \in 1 .. Len(sessions)
      /\ Current \in Sessions /\ HopBefore(Current)
  BY CurrentRight
<1>2. Extended = Kept /\ Message = chunk /\ Current.position = position
  BY <1>1, RequestRight DEF IInv, PositionHolds
<1>3. /\ accepted \in Seq(Tokens) /\ chunk \in Seq(Tokens) /\ position = Len(accepted)
      /\ position + Len(chunk) <= MaxLength
  BY <1>1 DEF IInv, TypeOK, StepRight, Stepping
<1>4. PICK g : g = [Current EXCEPT !.history = Extended, !.stepped = TRUE, !.cache = cache]
  OBVIOUS
<1>5. /\ g.peer = Current.peer /\ g.start = Current.start /\ g.end = Current.end
      /\ g.position = Current.position /\ g.history = Kept /\ g.stepped = TRUE
      /\ g.served = Current.served /\ g.cache = cache
  BY <1>1, <1>2, <1>4 DEF Sessions
<1>6. g \in Sessions
  BY <1>1, <1>2, <1>3, <1>4, KeptTyped DEF Sessions
<1>7. Current.cache \in Caches /\ (Agrees(Current.cache, accepted) => Agrees(cache, accepted))
  BY <1>1, <1>2, <1>3, WrittenRight, HopTyped
<1>8. HopBefore(g)
  BY <1>1, <1>2, <1>5, <1>7 DEF HopBefore
<1>9. /\ sessions' \in Seq(Sessions) /\ Len(sessions') = Len(sessions)
      /\ \A j \in 1 .. Len(sessions) : sessions'[j] = IF j = server THEN g ELSE sessions[j]
  BY <1>1, <1>4, <1>6, ExceptSeq DEF IInv, TypeOK
<1>10. SamePlaces(sessions', sessions)
  BY <1>5, <1>9 DEF SamePlaces, Current
<1>11. ASSUME NEW i \in 1 .. Len(sessions)
       PROVE  /\ phase = "idle" /\ HopIdle(sessions[i]) => HopIdle(sessions'[i])
              /\ Stepping /\ i < server /\ HopAfter(sessions[i]) => HopAfter(sessions'[i])
              /\ Stepping /\ i >= server /\ HopBefore(sessions[i]) => HopBefore(sessions'[i])
  <2>1. ~(server < server) /\ phase # "idle"
    BY DEF IInv, TypeOK
  <2> QED
    BY <2>1, <1>8, <1>9
<1>12. attempt' \in Nat /\ phase' \in {"route", "raised"}
  BY <1>1, FailMoves DEF IInv
<1> QED
  BY <1>1, <1>9, <1>10, <1>11, <1>12, KeepInv

LEMMA StepLost ==
  ASSUME IInv, Lost PROVE IInv'
<1>7. phase = "send" /\ PositionHolds /\ Fail /\ up' = up
      /\ (faults' = faults \/ (faults < MaxFaults /\ faults' = faults + 1))
  BY DEF Lost
<1>8. up \subseteq Peers /\ faults \in 0 .. MaxFaults /\ MaxFaults \in Nat
  BY SessionAssumption DEF IInv, TypeOK
<1>1. phase = "send" /\ PositionHolds /\ Fail /\ up' \subseteq Peers /\ faults' \in 0 .. MaxFaults
  BY <1>7, <1>8
<1>2. server \in 1 .. Len(sessions) /\ Current \in Sessions
  BY <1>1, CurrentRight
<1>3. Current.cache \in Caches
  BY <1>2, HopTyped
<1>4. [Current EXCEPT !.history = Extended, !.stepped = TRUE, !.cache = Current.cache]
        = [Current EXCEPT !.history = Extended, !.stepped = TRUE]
  BY <1>2 DEF Sessions
<1>5. sessions' = [sessions EXCEPT ![server] =
                     [Current EXCEPT !.history = Extended, !.stepped = TRUE, !.cache = Current.cache]]
  BY <1>4 DEF Lost, Current
<1> QED
  BY <1>1, <1>3, <1>5, UnansweredKeeps DEF Lost

LEMMA StepAnswerLost ==
  ASSUME IInv, AnswerLost PROVE IInv'
<1>7. phase = "send" /\ PositionHolds /\ Fail /\ up' = up
      /\ faults < MaxFaults /\ faults' = faults + 1
  BY DEF AnswerLost
<1>8. up \subseteq Peers /\ faults \in 0 .. MaxFaults /\ MaxFaults \in Nat
  BY SessionAssumption DEF IInv, TypeOK
<1>1. phase = "send" /\ PositionHolds /\ Fail /\ up' \subseteq Peers /\ faults' \in 0 .. MaxFaults
  BY <1>7, <1>8
<1>2. /\ server \in 1 .. Len(sessions) /\ Current \in Sessions
      /\ Stepping /\ sessions # <<>> /\ HopBefore(Current)
  BY <1>1, CurrentRight
<1>3. PICK cache : cache = Written(Current.cache, Current.position, Message)
  OBVIOUS
<1>4. Message = chunk /\ Current.position = position
  BY <1>1, <1>2, RequestRight DEF IInv, PositionHolds
<1>5. cache \in Caches
  <2>1. /\ accepted \in Seq(Tokens) /\ chunk \in Seq(Tokens) /\ position = Len(accepted)
        /\ position + Len(chunk) <= MaxLength
    BY <1>2 DEF IInv, TypeOK, StepRight, Stepping
  <2>2. Current.cache \in Caches
    BY <1>2, HopTyped
  <2> QED
    BY <2>1, <2>2, <1>3, <1>4, WrittenRight
<1>6. sessions' = [sessions EXCEPT ![server] =
                     [Current EXCEPT !.history = Extended, !.stepped = TRUE, !.cache = cache]]
  <2>1. PICK g : g = [Current EXCEPT !.history = Extended, !.stepped = TRUE,
                        !.cache = Written(@, Current.position, Message)]
    OBVIOUS
  <2>2. sessions' = [sessions EXCEPT ![server] = g]
    BY <2>1 DEF AnswerLost, Current
  <2>3. g = [Current EXCEPT !.history = Extended, !.stepped = TRUE, !.cache = cache]
    BY <2>1, <1>2, <1>3 DEF Sessions
  <2> QED
    BY <2>2, <2>3
<1> QED
  BY <1>1, <1>3, <1>5, <1>6, UnansweredKeeps DEF AnswerLost

-----------------------------------------------------------------------------
\* Steps that get on.

\* The hop that answered, and the others as they were.
LEMMA AnsweredHops ==
  ASSUME IInv, Answered
  PROVE  /\ sessions' \in Seq(Sessions) /\ Len(sessions') = Len(sessions)
         /\ SamePlaces(sessions', sessions)
         /\ HopAfter(sessions'[server])
         /\ \A i \in 1 .. Len(sessions) : i # server => sessions'[i] = sessions[i]
<1>1. /\ Stepping /\ sessions # <<>> /\ server \in 1 .. Len(sessions)
      /\ Current \in Sessions /\ HopBefore(Current) /\ PositionHolds
  BY CurrentRight DEF Answered
<1>2. Extended = Kept /\ Message = chunk /\ Current.position = position
  BY <1>1, RequestRight DEF IInv, PositionHolds
<1>3. /\ accepted \in Seq(Tokens) /\ chunk \in Seq(Tokens) /\ position = Len(accepted)
      /\ position + Len(chunk) <= MaxLength /\ inputs = chunk
      /\ Len(accepted) \in Nat /\ Len(chunk) \in Nat
  BY <1>1, LenProperties DEF IInv, TypeOK, StepRight, Stepping
<1>4. PICK cache : cache = Written(Current.cache, Current.position, Message)
  OBVIOUS
<1>5. PICK g : g = [Current EXCEPT !.history = Extended, !.stepped = TRUE,
                      !.cache = Written(@, Current.position, Message),
                      !.position = @ + Len(inputs)]
  OBVIOUS
<1>6. sessions' = [sessions EXCEPT ![server] = g]
  BY <1>5 DEF Answered
<1>7. /\ g.peer = Current.peer /\ g.start = Current.start /\ g.end = Current.end
      /\ g.position = position + Len(chunk) /\ g.history = Kept /\ g.stepped = TRUE
      /\ g.served = Current.served /\ g.cache = cache
  BY <1>1, <1>2, <1>3, <1>4, <1>5 DEF Sessions
<1>8. Current.cache \in Caches
  BY <1>1, HopTyped
<1>9. cache \in Caches /\ (Agrees(Current.cache, accepted) => Agrees(cache, Kept))
  BY <1>2, <1>3, <1>4, <1>8, WrittenRight
<1>10. g \in Sessions
  <2>1. g = [peer |-> Current.peer, start |-> Current.start, end |-> Current.end,
             position |-> position + Len(chunk), history |-> Kept, stepped |-> TRUE,
             served |-> Current.served, cache |-> cache]
    BY <1>1, <1>2, <1>3, <1>4, <1>5 DEF Sessions
  <2>2. Kept \in Seq(Tokens)
    BY <1>3, KeptTyped
  <2>3. position + Len(chunk) \in 0 .. MaxLength
    BY <1>3
  <2> QED
    BY <2>1, <2>2, <2>3, <1>1, <1>9, HopTyped DEF Sessions
<1>11. HopAfter(g)
  BY <1>1, <1>2, <1>7, <1>9 DEF HopAfter, HopBefore
<1>12. /\ sessions' \in Seq(Sessions) /\ Len(sessions') = Len(sessions)
       /\ \A j \in 1 .. Len(sessions) : sessions'[j] = IF j = server THEN g ELSE sessions[j]
  BY <1>1, <1>6, <1>10, ExceptSeq DEF IInv, TypeOK
<1>13. SamePlaces(sessions', sessions)
  BY <1>7, <1>12 DEF SamePlaces, Current
<1> QED
  BY <1>1, <1>11, <1>12, <1>13

LEMMA StepAnswered ==
  ASSUME IInv, Answered PROVE IInv'
<1>1. /\ Stepping /\ phase = "send" /\ sessions # <<>> /\ server \in 1 .. Len(sessions)
      /\ server \in 1 .. NumBlocks /\ Current \in Sessions /\ Message = chunk
  BY CurrentRight, RequestRight DEF Answered, IInv
<1>2. /\ sessions' \in Seq(Sessions) /\ Len(sessions') = Len(sessions)
      /\ SamePlaces(sessions', sessions)
      /\ HopAfter(sessions'[server])
      /\ \A i \in 1 .. Len(sessions) : i # server => sessions'[i] = sessions[i]
  BY AnsweredHops
<1>3. /\ Len(sessions) \in Nat /\ sessions \in Seq(Sessions)
      /\ DOMAIN sessions = 1 .. Len(sessions) /\ DOMAIN sessions' = 1 .. Len(sessions)
  BY <1>2, LenProperties DEF IInv, TypeOK
<1>4. /\ accepted \in Seq(Tokens) /\ chunk \in Seq(Tokens) /\ position = Len(accepted)
      /\ position + Len(chunk) <= MaxLength /\ inputs = chunk
      /\ Len(accepted) \in Nat /\ Len(chunk) \in Nat /\ MaxLength \in Nat /\ NumBlocks \in Nat
  BY <1>1, LenProperties, SessionAssumption DEF IInv, TypeOK, StepRight, Stepping
<1>5. Tiles(sessions, 0, NumBlocks) /\ Tiles(sessions', 0, NumBlocks)
  BY <1>1, <1>2, <1>3, StepTiled, SamePlacesTile
<1>6. /\ Current.end \in 1 .. NumBlocks /\ Current.end = sessions[server].end
      /\ server' = server + 1 /\ block' = Current.end /\ attempt' = 0 /\ inputs' = chunk /\ chunk' = chunk
      /\ UNCHANGED <<retries, up, faults>>
  BY <1>1, HopTyped DEF Current, Answered, Advance
<1>7. /\ Current.end >= NumBlocks => server = Len(sessions)
      /\ Current.end < NumBlocks => server + 1 \in 1 .. Len(sessions) /\ sessions[server + 1].start = Current.end
  BY <1>1, <1>3, <1>5, <1>6, LastHop
<1>8. \A i \in 1 .. Len(sessions) : i < server => HopAfter(sessions'[i])
  BY <1>1, <1>2, <1>3 DEF IInv, HopsInStep
<1>9. \A i \in 1 .. Len(sessions) : i > server => sessions'[i] = sessions[i] /\ HopBefore(sessions[i])
  BY <1>1, <1>2, <1>3 DEF IInv, HopsInStep
<1>10. /\ block' \in 0 .. NumBlocks /\ server' \in 1 .. NumBlocks + 1
       /\ inputs' \in Seq(Tokens) /\ chunk' \in Seq(Tokens) /\ attempt' \in Nat
       /\ retries' \in RetryLimits /\ up' \subseteq Peers /\ faults' \in 0 .. MaxFaults
  BY <1>1, <1>4, <1>6 DEF IInv, TypeOK
<1>11. CASE Current.end < NumBlocks
  <2>1. /\ phase' = "send" /\ position' = position /\ accepted' = accepted
        /\ server' \in 1 .. Len(sessions') /\ sessions'[server'].start = block'
    <3>1. sessions'[server + 1].start = sessions[server + 1].start
      BY <1>2, <1>7, <1>11 DEF SamePlaces
    <3> QED
      BY <3>1, <1>2, <1>6, <1>7, <1>11 DEF Answered, Advance
  <2>2. TypeOK'
    BY <2>1, <1>2, <1>10 DEF IInv, TypeOK
  <2>3. HopsTile'
    BY <2>1, <1>2, <1>5, TilesHold
  <2>4. StepRight'
    <3>1. sessions' # <<>>
      BY <1>5 DEF Tiles
    <3> QED
      BY <2>1, <3>1, <1>4, <1>6 DEF StepRight, Stepping
  <2>5. HopsIdle'
    BY <2>1 DEF HopsIdle
  <2>6. HopsInStep'
    <3>1. SUFFICES ASSUME NEW i \in 1 .. Len(sessions)
                   PROVE  IF i < server + 1 THEN HopAfter(sessions[i])' ELSE HopBefore(sessions[i])'
      BY <1>3, <1>6 DEF HopsInStep
    <3>2. CASE i < server + 1
      <4>1. HopAfter(sessions'[i])
        BY <3>2, <1>1, <1>2, <1>8
      <4> QED
        BY <3>2, <4>1, <2>1, <1>6 DEF HopAfter, Kept
    <3>3. CASE ~(i < server + 1)
      <4>1. HopBefore(sessions'[i])
        BY <3>3, <1>1, <1>9
      <4> QED
        BY <3>3, <4>1, <2>1, <1>6 DEF HopBefore, Kept
    <3> QED
      BY <3>2, <3>3
  <2> QED
    BY <2>2, <2>3, <2>4, <2>5, <2>6 DEF IInv
<1>12. CASE ~(Current.end < NumBlocks)
  <2>1. /\ phase' = "idle" /\ position' = position + Len(chunk) /\ accepted' = Kept
        /\ server = Len(sessions)
    BY <1>4, <1>6, <1>7, <1>12 DEF Answered, Advance, Kept
  <2>2. Kept \in Seq(Tokens) /\ Len(Kept) = position + Len(chunk) /\ position + Len(chunk) \in 0 .. MaxLength
    BY <1>4, KeptTyped
  <2>3. TypeOK'
    BY <2>1, <2>2, <1>2, <1>10 DEF IInv, TypeOK
  <2>4. HopsTile'
    BY <2>1, <1>2, <1>5, TilesHold DEF Stepping
  <2>5. StepRight'
    BY <2>1, <2>2 DEF StepRight, Stepping
  <2>6. HopsIdle'
    <3>1. SUFFICES ASSUME NEW i \in 1 .. Len(sessions) PROVE HopIdle(sessions[i])'
      BY <1>3 DEF HopsIdle
    <3>2. HopAfter(sessions'[i])
      BY <2>1, <1>1, <1>2, <1>8
    <3> QED
      BY <2>1, <3>2 DEF HopAfter, HopIdle
  <2>7. HopsInStep'
    BY <2>1 DEF HopsInStep, Stepping
  <2> QED
    BY <2>3, <2>4, <2>5, <2>6, <2>7 DEF IInv
<1> QED
  BY <1>11, <1>12

LEMMA StepBegin ==
  ASSUME IInv, NEW c \in Chunks, BeginStep(c) PROVE IInv'
<1>1. /\ c \in Seq(Tokens) /\ NumBlocks \in Nat \ {0} /\ phase = "idle"
      /\ chunk' = c /\ inputs' = c /\ server' = 1 /\ block' = 0 /\ attempt' = 0
      /\ position + Len(c) <= MaxLength /\ position = Len(accepted)
      /\ UNCHANGED <<position, sessions, retries, accepted, up, faults>>
      /\ phase' \in {"route", "send"} /\ (sessions = <<>> => phase' = "route")
  BY SessionAssumption DEF BeginStep, IInv, StepRight
<1>2. /\ Len(sessions) \in Nat /\ DOMAIN sessions = 1 .. Len(sessions) /\ sessions \in Seq(Sessions)
      /\ (sessions = <<>> <=> Len(sessions) = 0)
  BY SessionsTyped DEF IInv, TypeOK
<1>3. TypeOK'
  BY <1>1 DEF IInv, TypeOK
<1>4. HopsTile'
  <2>1. sessions # <<>> => Tiles(sessions, 0, NumBlocks) /\ 1 \in 1 .. Len(sessions) /\ sessions[1].start = 0
    BY <1>2, SessionsTile DEF IInv, Tiles
  <2> QED
    BY <1>1, <1>2, <2>1, TilesHold
<1>5. StepRight'
  BY <1>1 DEF StepRight, Stepping
<1>6. HopsIdle'
  BY <1>1 DEF HopsIdle
<1>7. HopsInStep'
  <2>1. SUFFICES ASSUME NEW i \in 1 .. Len(sessions)
                 PROVE  ~(i < 1) /\ HopBefore(sessions[i])'
    BY <1>1, <1>2 DEF HopsInStep
  <2>2. HopIdle(sessions[i])
    BY <1>1, <1>2 DEF IInv, HopsIdle
  <2> QED
    BY <1>1, <1>2, <2>2 DEF HopIdle, HopBefore
<1> QED
  BY <1>3, <1>4, <1>5, <1>6, <1>7 DEF IInv

LEMMA StepClose ==
  ASSUME IInv, Close PROVE IInv'
<1>1. sessions' = <<>> /\ sessions' \in Seq(Sessions) /\ DOMAIN sessions' = {}
  BY DEF Close
<1>2. TypeOK'
  BY <1>1 DEF Close, IInv, TypeOK
<1> QED
  BY <1>1, <1>2 DEF Close, IInv, HopsTile, StepRight, HopsIdle, HopsInStep, Stepping

LEMMA CutTokens ==
  ASSUME NEW k \in Nat, accepted \in Seq(Tokens), k < Len(accepted)
  PROVE  /\ SubSeq(accepted, 1, k) \in Seq(Tokens) /\ Len(SubSeq(accepted, 1, k)) = k
         /\ \A i \in 1 .. k : SubSeq(accepted, 1, k)[i] = accepted[i]
<1>1. \A i \in 1 .. k : accepted[i] \in Tokens
  BY ElementOfSeq, LenProperties
<1>2. PICK u : u = SubSeq(accepted, 1, k)
  OBVIOUS
<1>3. /\ u \in Seq(Tokens) /\ Len(u) = IF 1 <= k THEN k - 1 + 1 ELSE 0
      /\ \A i \in 1 .. k - 1 + 1 : u[i] = accepted[1 + i - 1]
  BY <1>1, <1>2, SubSeqProperties
<1> QED
  BY <1>2, <1>3

\* The position is set back: every hop loses the same tokens.
LEMMA StepRollback ==
  ASSUME IInv, NEW k \in 0 .. MaxLength, Rollback(k) PROVE IInv'
<1>1. /\ phase = "idle" /\ phase' = "idle" /\ position' = k /\ k < position /\ k \in Nat
      /\ accepted \in Seq(Tokens) /\ position = Len(accepted) /\ MaxLength \in Nat
      /\ UNCHANGED <<server, block, attempt, inputs, chunk, retries, up, faults>>
  <2>1. /\ phase = "idle" /\ phase' = "idle" /\ position' = k /\ k < position
        /\ UNCHANGED <<server, block, attempt, inputs, chunk, retries, up, faults>>
    BY DEF Rollback
  <2>2. accepted \in Seq(Tokens) /\ MaxLength \in Nat
    BY SessionAssumption DEF IInv, TypeOK
  <2>3. position = Len(accepted)
    BY <2>1 DEF IInv, StepRight
  <2> QED
    BY <2>1, <2>2, <2>3
<1>2. PICK kept : kept = SubSeq(accepted, 1, k)
  OBVIOUS
<1>3. /\ accepted' = kept /\ kept \in Seq(Tokens) /\ Len(kept) = k
      /\ \A i \in 1 .. k : kept[i] = accepted[i]
  BY <1>1, <1>2, CutTokens DEF Rollback
<1>4. /\ Len(sessions) \in Nat /\ DOMAIN sessions = 1 .. Len(sessions) /\ sessions \in Seq(Sessions)
      /\ \A i \in 1 .. Len(sessions) : sessions[i] \in Sessions
  BY SessionsTyped DEF IInv, TypeOK
<1>5. ASSUME NEW i \in 1 .. Len(sessions)
      PROVE  /\ sessions'[i] \in Sessions
             /\ sessions'[i].peer = sessions[i].peer
             /\ sessions'[i].start = sessions[i].start /\ sessions'[i].end = sessions[i].end
             /\ sessions'[i].position = k /\ sessions'[i].history = kept /\ sessions'[i].stepped
             /\ sessions'[i].served => Agrees(sessions'[i].cache, kept)
  <2>1. PICK h \in Sessions : h = sessions[i]
    BY <1>4
  <2>2. h.history = accepted /\ h.stepped /\ (h.served => Agrees(h.cache, accepted))
    BY <1>1, <1>4, <2>1 DEF IInv, HopsIdle, HopIdle
  <2>3. Truncated(h.history, k) = kept
    BY <1>1, <1>2, <2>2 DEF Truncated
  <2>4. sessions'[i] = [h EXCEPT !.position = k, !.history = kept]
    BY <1>4, <2>1, <2>3 DEF Rollback
  <2>5. sessions'[i] \in Sessions
    BY <2>4, <1>3 DEF Sessions
  <2>6. /\ sessions'[i].peer = h.peer
        /\ sessions'[i].start = h.start /\ sessions'[i].end = h.end
        /\ sessions'[i].position = k /\ sessions'[i].history = kept /\ sessions'[i].stepped = h.stepped
        /\ sessions'[i].served = h.served /\ sessions'[i].cache = h.cache
    BY <2>4 DEF Sessions
  <2>7. Agrees(h.cache, accepted) => Agrees(h.cache, kept)
    BY <1>1, <1>3 DEF Agrees
  <2> QED
    BY <2>1, <2>2, <2>5, <2>6, <2>7
<1>6. DOMAIN sessions' = 1 .. Len(sessions) /\ sessions' \in [1 .. Len(sessions) -> Sessions]
  <2>1. PICK f : f = [i \in 1 .. Len(sessions) |-> sessions'[i]]
    OBVIOUS
  <2>2. sessions' = f
    BY <2>1, <1>4 DEF Rollback
  <2> QED
    BY <2>1, <2>2, <1>5
<1>7. sessions' \in Seq(Sessions) /\ Len(sessions') = Len(sessions)
  BY <1>4, <1>6, FunctionSeq
<1>8. TypeOK'
  BY <1>1, <1>3, <1>7 DEF IInv, TypeOK
<1>9. HopsTile'
  <2>1. SUFFICES ASSUME sessions' # <<>> PROVE Tiles(sessions', 0, NumBlocks)
    BY <1>1, <1>7, TilesHold DEF Stepping
  <2>2. sessions # <<>>
    BY <2>1, <1>4, <1>7, EmptySeq
  <2>3. Tiles(sessions, 0, NumBlocks)
    BY <2>2, <1>4, SessionsTile DEF IInv
  <2>4. SamePlaces(sessions', sessions)
    BY <1>5, <1>7 DEF SamePlaces
  <2> QED
    BY <2>3, <2>4, <1>4, <1>7, SamePlacesTile
<1>10. StepRight'
  BY <1>1, <1>3 DEF StepRight, Stepping
<1>11. HopsIdle'
  BY <1>1, <1>3, <1>5, <1>6 DEF HopsIdle, HopIdle
<1>12. HopsInStep'
  BY <1>1 DEF HopsInStep, Stepping
<1> QED
  BY <1>8, <1>9, <1>10, <1>11, <1>12 DEF IInv

-----------------------------------------------------------------------------
\* A new route takes the place of the hop that failed.

\* What _update_sequence opens covers the blocks it was asked for; only its
\* first hop has a history, that of the hop it replaces.
OpenedAt(new) ==
  \A i \in 1 .. Len(new) :
    /\ new[i].position = 0
    /\ new[i].history = IF i = 1 /\ Failed THEN sessions[server].history ELSE <<>>

LEMMA RouteTyped ==
  ASSUME NEW b, NEW e, NEW r \in Routes(b, e)
  PROVE  /\ r \in Seq(Hops) /\ r # <<>> /\ r[1].start = b /\ r[Len(r)].start < e /\ e <= r[Len(r)].end
         /\ \A i \in 1 .. Len(r) - 1 : r[i].end = r[i + 1].start
<1>1. r \in AllRoutes /\ r[1].start = b /\ r[Len(r)].start < e /\ e <= r[Len(r)].end
  BY DEF Routes, Last
<1>2. /\ r \in UNION {[1 .. m -> Hops] : m \in 0 .. NumBlocks} /\ r # <<>>
      /\ \A i \in 1 .. Len(r) - 1 : r[i].end = r[i + 1].start
  BY <1>1 DEF AllRoutes, BoundedSeq, SeqOf, Chained
<1>3. PICK m \in 0 .. NumBlocks : r \in [1 .. m -> Hops]
  BY <1>2
<1>4. m \in Nat
  BY SessionAssumption
<1> QED
  BY <1>1, <1>2, <1>3, <1>4, FunctionSeq

LEMMA OpenedRight ==
  ASSUME IInv, phase = "route", NEW r \in Routes(block, UpdateEnd)
  PROVE  /\ Opened(Cut(r)) \in Seq(Sessions)
         /\ Tiles(Opened(Cut(r)), block, UpdateEnd)
         /\ OpenedAt(Opened(Cut(r)))
<1>1. /\ r \in Seq(Hops) /\ r # <<>> /\ r[1].start = block
      /\ r[Len(r)].start < UpdateEnd /\ UpdateEnd <= r[Len(r)].end
      /\ \A i \in 1 .. Len(r) - 1 : r[i].end = r[i + 1].start
  BY RouteTyped
<1>2. PICK m \in Nat : m = Len(r) /\ m # 0 /\ DOMAIN r = 1 .. m
  BY <1>1, LenProperties, EmptySeq
<1>3. \A i \in 1 .. m : r[i] \in Hops
  BY <1>1, <1>2, ElementOfSeq
<1>4. /\ UpdateEnd \in 1 .. NumBlocks /\ NumBlocks \in Nat
      /\ Failed => sessions[server].history \in Seq(Tokens)
  <2>1. NumBlocks \in Nat \ {0} /\ server \in Nat /\ 1 <= server /\ Len(sessions) \in Nat
    BY SessionAssumption, SessionsTyped DEF IInv, TypeOK
  <2>2. Failed => sessions[server] \in Sessions
    BY <2>1, SessionsTyped DEF Failed, IInv, TypeOK
  <2> QED
    BY <2>1, <2>2, HopTyped DEF UpdateEnd
<1>5. PICK u : u = Cut(r)
  OBVIOUS
<1>6. /\ DOMAIN u = 1 .. m
      /\ \A i \in 1 .. m : u[i] = IF i = m THEN [r[i] EXCEPT !.end = UpdateEnd] ELSE r[i]
  BY <1>2, <1>5 DEF Cut
<1>7. \A i \in 1 .. m :
        /\ r[i].peer \in Peers /\ r[i].start \in 0 .. NumBlocks - 1 /\ r[i].end \in 1 .. NumBlocks
        /\ Serves[r[i].peer].start <= r[i].start /\ r[i].start < r[i].end
        /\ r[i].end = Serves[r[i].peer].end
  BY <1>3 DEF Hops
<1>8. \A i \in 1 .. m :
        /\ u[i].peer = r[i].peer /\ u[i].start = r[i].start
        /\ u[i].end = IF i = m THEN UpdateEnd ELSE r[i].end
  BY <1>3, <1>6 DEF Hops
<1>9. PICK new : new = Opened(u)
  OBVIOUS
<1>10. /\ DOMAIN new = 1 .. m
       /\ \A i \in 1 .. m : new[i] =
            IF i = 1 /\ Failed THEN [NewSession(u[i]) EXCEPT !.history = sessions[server].history]
                               ELSE NewSession(u[i])
  BY <1>6, <1>9 DEF Opened
<1>11. ASSUME NEW i \in 1 .. m
       PROVE  new[i] = [peer |-> u[i].peer, start |-> u[i].start, end |-> u[i].end, position |-> 0,
                        history |-> IF i = 1 /\ Failed THEN sessions[server].history ELSE <<>>,
                        stepped |-> FALSE, served |-> TRUE, cache |-> EmptyCache]
  BY <1>10 DEF NewSession
<1>12. EmptyCache \in Caches /\ 0 \in 0 .. MaxLength
  BY SessionAssumption DEF EmptyCache, Caches
<1>13. ASSUME NEW i \in 1 .. m
       PROVE  /\ new[i] \in Sessions
              /\ new[i].peer = r[i].peer /\ new[i].start = r[i].start
              /\ new[i].end = IF i = m THEN UpdateEnd ELSE r[i].end
              /\ new[i].position = 0
              /\ new[i].history = IF i = 1 /\ Failed THEN sessions[server].history ELSE <<>>
  <2>1. PICK hist \in Seq(Tokens) : hist = IF i = 1 /\ Failed THEN sessions[server].history ELSE <<>>
    <3>1. <<>> \in Seq(Tokens)
      BY EmptySeq
    <3>2. CASE i = 1 /\ Failed
      BY <3>2, <1>4
    <3>3. CASE ~(i = 1 /\ Failed)
      BY <3>1, <3>3
    <3> QED
      BY <3>2, <3>3
  <2>2. new[i] = [peer |-> u[i].peer, start |-> u[i].start, end |-> u[i].end, position |-> 0,
                  history |-> hist, stepped |-> FALSE, served |-> TRUE, cache |-> EmptyCache]
    BY <2>1, <1>11
  <2>3. u[i].peer \in Peers /\ u[i].start \in 0 .. NumBlocks - 1 /\ u[i].end \in 1 .. NumBlocks
    BY <1>4, <1>7, <1>8
  <2>4. new[i] \in Sessions
    BY <2>2, <2>3, <1>12 DEF Sessions
  <2> QED
    BY <2>1, <2>2, <2>4, <1>8
<1>14. new \in [1 .. m -> Sessions]
  <2>1. PICK f : f = [i \in 1 .. m |-> new[i]]
    OBVIOUS
  <2>2. new = f
    BY <2>1, <1>6, <1>9 DEF Opened
  <2> QED
    BY <2>1, <2>2, <1>13
<1>15. new \in Seq(Sessions) /\ Len(new) = m
  BY <1>14, FunctionSeq
<1>16. OpenedAt(new)
  BY <1>13, <1>15 DEF OpenedAt
<1>17. Tiles(new, block, UpdateEnd)
  <2>1. new # <<>>
    BY <1>2, <1>15, EmptySeq
  <2>2. new[1].start = block /\ new[Len(new)].end = UpdateEnd
    BY <1>1, <1>2, <1>13, <1>15
  <2>3. ASSUME NEW i \in 1 .. Len(new) PROVE Within(new[i])
    <3>1. CASE i = m
      BY <3>1, <1>1, <1>2, <1>4, <1>7, <1>13, <1>15 DEF Within
    <3>2. CASE i # m
      BY <3>2, <1>7, <1>13, <1>15 DEF Within
    <3> QED
      BY <3>1, <3>2
  <2>4. ASSUME NEW i \in 1 .. Len(new), i > 1 PROVE new[i].start = new[i - 1].end
    <3>1. i - 1 \in 1 .. m - 1 /\ (i - 1) + 1 = i /\ i - 1 \in 1 .. m /\ i - 1 # m
      BY <2>4, <1>15
    <3>2. r[i - 1].end = r[i].start
      BY <3>1, <1>1, <1>2
    <3> QED
      BY <3>1, <3>2, <1>13, <1>15
  <2> QED
    BY <2>1, <2>2, <2>3, <2>4 DEF Tiles
<1> QED
  BY <1>5, <1>9, <1>15, <1>16, <1>17

\* The hops after a new route was opened: those before server as they were, from
\* server on hops that stand at 0 or have not answered yet.
LEMMA ReroutedHops ==
  ASSUME IInv, phase = "route", NEW r \in Routes(block, UpdateEnd), sessions' = Splice(Opened(Cut(r)))
  PROVE  /\ sessions' \in Seq(Sessions)
         /\ Tiles(sessions', 0, NumBlocks)
         /\ server \in 1 .. Len(sessions') /\ sessions'[server].start = block
         /\ \A i \in 1 .. Len(sessions') :
              IF i < server THEN HopAfter(sessions'[i]) ELSE HopBefore(sessions'[i])
<1>1. PICK new : new = Opened(Cut(r))
  OBVIOUS
<1>2. new \in Seq(Sessions) /\ Tiles(new, block, UpdateEnd) /\ OpenedAt(new)
  BY <1>1, OpenedRight
<1>3. /\ Stepping /\ server \in Nat /\ position \in Nat /\ position = Len(accepted)
      /\ accepted \in Seq(Tokens) /\ Len(sessions) \in Nat /\ sessions \in Seq(Sessions)
      /\ DOMAIN sessions = 1 .. Len(sessions)
      /\ (sessions = <<>> <=> Len(sessions) = 0)
  BY SessionsTyped, SessionAssumption DEF Stepping, IInv, TypeOK, StepRight
<1>4. position = 0 => accepted = <<>>
  BY <1>3, EmptySeq
<1>5. ASSUME NEW h, h.position = 0, position = 0 => h.history \in {accepted, Kept}
      PROVE  HopBefore(h)
  BY <1>3, <1>5 DEF HopBefore, Agrees
<1>6. CASE sessions = <<>>
  <2>1. server = 1 /\ block = 0 /\ UpdateEnd = NumBlocks /\ ~Failed
    BY <1>3, <1>6 DEF IInv, StepRight, UpdateEnd, Failed
  <2>2. sessions' = new
    <3>1. SubSeq(sessions, 1, server - 1) = <<>> /\ SubSeq(sessions, server + 1, Len(sessions)) = <<>>
      BY <2>1, <1>3, <1>6, SubSeqEmpty
    <3>2. sessions' = <<>> \o new \o <<>>
      BY <3>1, <1>1 DEF Splice
    <3> QED
      BY <3>2, <1>2, ConcatEmptySeq
  <2>3. 1 \in 1 .. Len(new) /\ new[1].start = block
    BY <1>2, LenProperties, EmptySeq DEF Tiles
  <2>4. ASSUME NEW i \in 1 .. Len(new) PROVE ~(i < server) /\ HopBefore(new[i])
    <3>1. new[i].position = 0 /\ new[i].history = <<>>
      BY <2>1, <1>2 DEF OpenedAt
    <3> QED
      BY <3>1, <2>1, <1>4, <1>5
  <2> QED
    BY <2>1, <2>2, <2>3, <2>4, <1>2
<1>7. CASE sessions # <<>>
  <2>1. /\ Tiles(sessions, 0, NumBlocks) /\ server \in 1 .. Len(sessions)
        /\ sessions[server].start = block
    BY <1>3, <1>7, StepTiled
  <2>2. Failed /\ UpdateEnd = sessions[server].end
    BY <2>1, <1>3 DEF Failed, UpdateEnd
  <2>3. sessions' = Spliced(sessions, server, new)
    BY <1>1 DEF Splice, Spliced
  <2>4. /\ sessions' \in Seq(Sessions) /\ Tiles(sessions', 0, NumBlocks)
        /\ server \in 1 .. Len(sessions') /\ sessions'[server] = new[1]
        /\ SplicedFrom(sessions', sessions, server, new)
    <3>1. Tiles(new, sessions[server].start, sessions[server].end)
      BY <2>1, <2>2, <1>2
    <3> QED
      BY <2>1, <2>3, <3>1, <1>2, <1>3, SpliceTiles
  <2>5. sessions'[server].start = block
    BY <2>4, <1>2 DEF Tiles
  <2>6. /\ \A i \in 1 .. Len(sessions) : i < server => HopAfter(sessions[i])
        /\ \A i \in 1 .. Len(sessions) : i >= server => HopBefore(sessions[i])
    BY <1>3 DEF IInv, HopsInStep
  <2>7. ASSUME NEW j \in 1 .. Len(new) PROVE HopBefore(new[j])
    <3>1. new[j].position = 0
          /\ (new[j].history = sessions[server].history \/ new[j].history = <<>>)
      BY <1>2 DEF OpenedAt
    <3>2. HopBefore(sessions[server])
      BY <2>1, <2>6, <1>3
    <3>3. position = 0 => sessions[server].history \in {accepted, Kept}
      BY <3>2 DEF HopBefore
    <3> QED
      BY <3>1, <3>3, <1>4, <1>5
  <2>8. ASSUME NEW i \in 1 .. Len(sessions')
        PROVE  IF i < server THEN HopAfter(sessions'[i]) ELSE HopBefore(sessions'[i])
    <3>1. \/ i < server /\ i \in 1 .. Len(sessions) /\ sessions'[i] = sessions[i]
          \/ i >= server /\ \E j \in 1 .. Len(new) : sessions'[i] = new[j]
          \/ i >= server /\ \E j \in server + 1 .. Len(sessions) : sessions'[i] = sessions[j]
      BY <2>4 DEF SplicedFrom
    <3>2. CASE i < server /\ i \in 1 .. Len(sessions) /\ sessions'[i] = sessions[i]
      BY <3>2, <2>6
    <3>3. CASE i >= server /\ \E j \in 1 .. Len(new) : sessions'[i] = new[j]
      BY <3>3, <2>7, <1>3
    <3>4. CASE i >= server /\ \E j \in server + 1 .. Len(sessions) : sessions'[i] = sessions[j]
      <4>1. PICK j \in server + 1 .. Len(sessions) : sessions'[i] = sessions[j]
        BY <3>4
      <4>2. j \in 1 .. Len(sessions) /\ j >= server /\ ~(i < server)
        BY <3>4, <1>3
      <4> QED
        BY <4>1, <4>2, <2>6
    <3> QED
      BY <3>1, <3>2, <3>3, <3>4
  <2> QED
    BY <2>4, <2>5, <2>8
<1> QED
  BY <1>6, <1>7

LEMMA StepReroute ==
  ASSUME IInv, NEW r \in Routes(block, UpdateEnd), Reroute(r) PROVE IInv'
<1>1. /\ phase = "route" /\ phase' = "send" /\ sessions' = Splice(Opened(Cut(r)))
      /\ UNCHANGED <<position, server, block, attempt, inputs, chunk, retries, accepted, up, faults>>
  BY DEF Reroute
<1>2. /\ sessions' \in Seq(Sessions)
      /\ Tiles(sessions', 0, NumBlocks)
      /\ server \in 1 .. Len(sessions') /\ sessions'[server].start = block
      /\ \A i \in 1 .. Len(sessions') :
           IF i < server THEN HopAfter(sessions'[i]) ELSE HopBefore(sessions'[i])
  BY <1>1, ReroutedHops
<1>3. TypeOK'
  BY <1>1, <1>2 DEF IInv, TypeOK
<1>4. HopsTile'
  BY <1>1, <1>2, TilesHold
<1>5. StepRight'
  <2>1. sessions' # <<>> /\ Stepping
    BY <1>1, <1>2 DEF Tiles, Stepping
  <2> QED
    BY <1>1, <2>1 DEF IInv, StepRight, Stepping
<1>6. HopsIdle'
  BY <1>1 DEF HopsIdle
<1>7. HopsInStep'
  <2>1. DOMAIN sessions' = 1 .. Len(sessions')
    BY <1>2, LenProperties
  <2>2. SUFFICES ASSUME NEW i \in 1 .. Len(sessions')
                 PROVE  IF i < server THEN HopAfter(sessions[i])' ELSE HopBefore(sessions[i])'
    BY <1>1, <2>1 DEF HopsInStep
  <2>3. CASE i < server
    <3>1. HopAfter(sessions'[i])
      BY <2>3, <1>2
    <3> QED
      BY <2>3, <3>1, <1>1 DEF HopAfter, Kept
  <2>4. CASE ~(i < server)
    <3>1. HopBefore(sessions'[i])
      BY <2>4, <1>2
    <3> QED
      BY <2>4, <3>1, <1>1 DEF HopBefore, Kept
  <2> QED
    BY <2>3, <2>4
<1> QED
  BY <1>3, <1>4, <1>5, <1>6, <1>7 DEF IInv

-----------------------------------------------------------------------------
\* The invariant holds from the first state on.

LEMMA InitInv == Init => IInv
<1> SUFFICES ASSUME Init PROVE IInv
  OBVIOUS
<1>1. <<>> \in Seq(Sessions) /\ <<>> \in Seq(Tokens) /\ Len(<<>>) = 0 /\ DOMAIN <<>> = {}
  BY EmptySeq
<1>2. TypeOK
  BY <1>1, SessionAssumption DEF Init, TypeOK
<1> QED
  BY <1>1, <1>2 DEF Init, IInv, HopsTile, StepRight, HopsIdle, HopsInStep, Stepping

LEMMA StepInv == IInv /\ [Next]_vars => IInv'
<1> SUFFICES ASSUME IInv, [Next]_vars PROVE IInv'
  OBVIOUS
<1>1. ASSUME NEW c \in Chunks, BeginStep(c) PROVE IInv'
  BY <1>1, StepBegin
<1>2. ASSUME NEW k \in 0 .. MaxLength, Rollback(k) PROVE IInv'
  BY <1>2, StepRollback
<1>3. CASE Close
  BY <1>3, StepClose
<1>4. CASE Attempt
  <2>1. ASSUME NEW r \in Routes(block, UpdateEnd), Reroute(r) PROVE IInv'
    BY <2>1, StepReroute
  <2>2. CASE RerouteFails
    BY <2>2, StepRerouteFails
  <2>3. CASE SendRefused
    BY <2>3, StepSendRefused
  <2>4. CASE Answered
    BY <2>4, StepAnswered
  <2>5. CASE Lost
    BY <2>5, StepLost
  <2>6. CASE AnswerLost
    BY <2>6, StepAnswerLost
  <2> QED
    BY <1>4, <2>1, <2>2, <2>3, <2>4, <2>5, <2>6 DEF Attempt
<1>5. ASSUME NEW p \in Peers, Crash(p) \/ Restart(p) PROVE IInv'
  BY <1>5, StepCrash, StepRestart
<1>6. ASSUME NEW i \in 1 .. NumBlocks, GiveUp(i) PROVE IInv'
  BY <1>6, StepGiveUp
<1>7. CASE UNCHANGED vars
  BY <1>7 DEF vars, IInv, TypeOK, HopsTile, StepRight, HopsIdle, HopsInStep, Stepping, HopIdle, HopAfter,
              HopBefore, Kept
<1> QED
  BY <1>1, <1>2, <1>3, <1>4, <1>5, <1>6, <1>7 DEF Next

\* The inductive invariant: what a hop holds, before and after it has answered.
THEOREM SpecInv == Spec => []IInv
  BY InitInv, StepInv, PTL DEF Spec

\* Whatever hops fail and are replaced, the hops cover every block once and in
\* order and stand at one position between two steps.
THEOREM HopsStayConsistent == Spec => []HopsConsistent
<1>1. IInv => HopsConsistent
  <2> SUFFICES ASSUME IInv PROVE HopsConsistent
    OBVIOUS
  <2>1. TypeOK /\ HopsTile
    BY DEF IInv
  <2>2. PositionsAgree
    BY DEF IInv, StepRight, HopsIdle, HopIdle, PositionsAgree
  <2> QED
    BY <2>1, <2>2 DEF HopsConsistent
<1> QED
  BY <1>1, SpecInv, PTL

\* Between two steps every history and every cache that is left holds the tokens
\* the caller kept.
THEOREM TokensStayKept == Spec => []TokensKept
<1>1. IInv => TokensKept
  <2> SUFFICES ASSUME IInv PROVE TokensKept
    OBVIOUS
  <2>1. phase = "idle" => position = Len(accepted) /\ \A i \in DOMAIN sessions : HopIdle(sessions[i])
    BY DEF IInv, StepRight, HopsIdle
  <2>2. CachesAgree
    BY <2>1 DEF HopIdle, Agrees, CachesAgree
  <2>3. HistoriesAgree
    BY <2>1 DEF HopIdle, HistoriesAgree
  <2> QED
    BY <2>2, <2>3 DEF TokensKept
<1> QED
  BY <1>1, SpecInv, PTL
=============================================================================
