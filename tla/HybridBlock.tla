---------------------------- MODULE HybridBlock ----------------------------
(***************************************************************************)
(* The arithmetic of a hybrid block (src/petals/models/qwen3_5_moe/ops.py  *)
(* and block.py) where it can be exact: the gated delta rule, its chunked  *)
(* form, the causal convolution before it, the sparse experts after it and *)
(* the table of rotary embeddings.                                         *)
(*                                                                         *)
(* Tensors hold integers; a decay exp(g) is a positive integer, of which   *)
(* the code only ever forms products over a range of positions.  A block   *)
(* is fed its tokens a few at a time; it should not matter how many.       *)
(***************************************************************************)
EXTENDS Integers, Sequences, FiniteSets, SequencesExt, FiniteSetsExt, Functions

CONSTANTS
  Rows,       \* the tokens: [q, k, v, beta, decay, top], q and k functions on Dims
  Dims,       \* the dimensions of a key
  Kernel,     \* linear_conv_kernel_dim
  ChunkSize,  \* chunk_size of the chunked rule
  MinTable,   \* ROPE_CACHE_MIN_LENGTH
  Batches,    \* the inputs of the forward passes with gradients
  MaxFeed,    \* the tokens of one call
  MaxTokens   \* bound on the tokens of a session

VARIABLES
  fed,        \* the tokens fed so far
  recurrent,  \* the recurrent state: a function on Dims
  window,     \* conv_state: the last Kernel tokens, padded with Zero
  table,      \* the length of the rotary table, and the mode it was made in
  call        \* the last call: all tokens up to it, its mode and its results

blockVars == <<fed, recurrent, window, table, call>>

Zero == [q |-> [d \in Dims |-> 0], k |-> [d \in Dims |-> 0], v |-> 0, beta |-> 0, decay |-> 1,
         top |-> <<>>]

NoState == [d \in Dims |-> 0]

Over(n, f) == FoldFunction(+, 0, [i \in 1..n |-> f[i]])
Product(f, from, to) == FoldFunction(LAMBDA a, b : a * b, 1, [i \in from..to |-> f[i]])
Dot(x, y) == FoldFunction(+, 0, [d \in Dims |-> x[d] * y[d]])
Scale(x, a) == [d \in Dims |-> a * x[d]]
Plus(x, y) == [d \in Dims |-> x[d] + y[d]]

-----------------------------------------------------------------------------
(* torch_recurrent_gated_delta_rule: one token after another.              *)

Absorb(s, x) ==
  LET decayed == Scale(s, x.decay)
      delta == (x.v - Dot(decayed, x.k)) * x.beta
  IN  Plus(decayed, Scale(x.k, delta))

RecurrentRule(s, xs) ==
  LET after[i \in 0..Len(xs)] == IF i = 0 THEN s ELSE Absorb(after[i - 1], xs[i])
  IN  [out |-> [i \in 1..Len(xs) |-> Dot(after[i], xs[i].q)], state |-> after[Len(xs)]]

-----------------------------------------------------------------------------
(* torch_chunk_gated_delta_rule: a chunk at a time, by matrix products.    *)

\* Rows of zeros, with no decay, fill the last chunk.
Pad(xs) ==
  xs \o [i \in 1..((ChunkSize - (Len(xs) % ChunkSize)) % ChunkSize) |-> Zero]

\* Mutant of Decay: the decay of position j itself is counted in.
DecayFromOwn(xs, i, j) == Product([k \in 1..Len(xs) |-> xs[k].decay], Max({j, 1}), i)

\* decay_mask: what is left at position i of what was there at position j.
Decay(xs, i, j) == Product([k \in 1..Len(xs) |-> xs[k].decay], j + 1, i)

\* Forward substitution in the strictly lower triangular matrix of a chunk.
Solved(xs) ==
  LET raw(i, j) == IF j < i THEN -(xs[i].beta * Dot(xs[i].k, xs[j].k) * Decay(xs, i, j)) ELSE 0
      row[i \in 1..Len(xs)] ==
        [j \in 1..Len(xs) |->
           raw(i, j) + Over(i - 1, [m \in 1..(i - 1) |-> raw(i, m) * row[m][j]])]
  IN  [i \in 1..Len(xs) |-> [j \in 1..Len(xs) |-> row[i][j] + (IF i = j THEN 1 ELSE 0)]]

\* One chunk: the rows it adds to the state, its outputs, the next state.
RunChunk(run, xs) ==
  LET n == Len(xs)
      s == run.state
      inverse == Solved(xs)
      value == [i \in 1..n |-> Over(n, [j \in 1..n |-> inverse[i][j] * xs[j].v * xs[j].beta])]
      prime == [i \in 1..n |->
                  Over(n, [j \in 1..n |->
                             inverse[i][j] * xs[j].beta * Decay(xs, j, 0) * Dot(xs[j].k, s)])]
      new == [i \in 1..n |-> value[i] - prime[i]]
      read(i) == Decay(xs, i, 0) * Dot(xs[i].q, s)
                 + Over(i, [j \in 1..i |-> Dot(xs[i].q, xs[j].k) * Decay(xs, i, j) * new[j]])
  IN  [out |-> run.out \o [i \in 1..n |-> read(i)],
       state |-> [d \in Dims |->
                    s[d] * Decay(xs, n, 0)
                    + Over(n, [j \in 1..n |-> xs[j].k[d] * Decay(xs, n, j) * new[j]])]]

ChunkRule(s, xs) ==
  LET padded == Pad(xs)
      chunks == [c \in 1..(Len(padded) \div ChunkSize) |->
                   SubSeq(padded, (c - 1) * ChunkSize + 1, c * ChunkSize)]
      run == FoldLeft(RunChunk, [out |-> <<>>, state |-> s], chunks)
  IN  [out |-> SubSeq(run.out, 1, Len(xs)), state |-> run.state]

Rule(s, xs) == IF Len(xs) = 1 THEN RecurrentRule(s, xs) ELSE ChunkRule(s, xs)

-----------------------------------------------------------------------------
(* The causal convolution, the experts, the rotary table.                  *)

LastOf(n, xs) == SubSeq(xs, Len(xs) - n + 1, Len(xs))

\* The convolution sees, for each of the last n tokens, the Kernel tokens that
\* end with it.
Convolved(history, n) ==
  [i \in 1..n |-> SubSeq(history, Len(history) - n + i - Kernel + 1, Len(history) - n + i)]

Expert(e, x) == e * (x.v + 1)

\* The experts that were hit, one after another, each add to the rows of the
\* tokens routed to them; top holds the routed experts and their weights.
Experts(xs) ==
  LET hit == UNION {{xs[i].top[p][1] : p \in 1..Len(xs[i].top)} : i \in 1..Len(xs)}
      add(e, acc) ==
        [i \in 1..Len(xs) |->
           acc[i] + FoldSet(LAMBDA p, sum : sum + xs[i].top[p][2] * Expert(e, xs[i]), 0,
                            {p \in 1..Len(xs[i].top) : xs[i].top[p][1] = e})]
  IN  FoldSet(add, [i \in 1..Len(xs) |-> 0], hit)

\* The table grows when it is too short, and is made anew when one made under
\* inference mode is needed with gradients.
Stale(inference) == table.inference /\ ~ inference

TableFor(end, inference) ==
  IF table.length >= end /\ ~ Stale(inference) THEN table
  ELSE [length |-> Max({end, 2 * table.length, MinTable}), inference |-> inference]

-----------------------------------------------------------------------------

InitBlock ==
  /\ fed = <<>>
  /\ recurrent = NoState
  /\ window = [i \in 1..Kernel |-> Zero]
  /\ table = [length |-> 0, inference |-> FALSE]
  /\ call = [tokens |-> <<>>, inference |-> TRUE, out |-> <<>>, rotated |-> <<>>]

\* QwenGatedDeltaNet.forward, the experts and rotary, on xs after `before`.
Forward(before, s, w, xs, inference) ==
  LET history == w \o xs
      run == Rule(s, xs)
      conv == Convolved(history, Len(xs))
      mixed == Experts(xs)
      end == Len(before) + Len(xs)
  IN  /\ table' = TableFor(end, inference)
      /\ call' = [tokens |-> before \o xs, inference |-> inference,
                  out |-> [i \in 1..Len(xs) |-> <<run.out[i], conv[i], mixed[i]>>],
                  rotated |-> [i \in 1..(Min({end, table'.length}) - Len(before)) |-> Len(before) + i]]

\* A step of the session: the block goes on from the state it kept.
Feed(xs) ==
  /\ Len(fed) + Len(xs) <= MaxTokens
  /\ Forward(fed, recurrent, window, xs, TRUE)
  /\ fed' = fed \o xs
  /\ recurrent' = Rule(recurrent, xs).state
  /\ window' = LastOf(Kernel, window \o xs)

\* A forward pass with gradients: no state is given or kept, but the rotary
\* table is that of the block.
Train(xs) ==
  /\ Forward(<<>>, NoState, [i \in 1..Kernel |-> Zero], xs, FALSE)
  /\ UNCHANGED <<fed, recurrent, window>>

NextBlock ==
  \/ \E n \in 1..MaxFeed : \E xs \in [1..n -> Rows] : Feed(xs)
  \/ \E xs \in Batches : Train(xs)

-----------------------------------------------------------------------------

\* What the last of some tokens should compute, when they are taken one by one.
Reference(xs) ==
  LET x == xs[Len(xs)]
  IN  <<Dot(RecurrentRule(NoState, xs).state, x.q),
        LastOf(Kernel, [k \in 1..Kernel |-> Zero] \o xs),
        FoldFunction(+, 0, [p \in 1..Len(x.top) |-> x.top[p][2] * Expert(x.top[p][1], x)])>>

(***************************************************************************)
(* However a session is cut into calls, and whichever of the two rules     *)
(* runs a call, every token gets the output, and the session the state,    *)
(* that feeding the tokens one by one gives; every token is rotated by its *)
(* own position, and a pass with gradients never by a table that was made  *)
(* under inference mode.                                                   *)
(***************************************************************************)
CutsDoNotMatter ==
  LET n == Len(call.out)
      at(i) == Len(call.tokens) - n + i
  IN  /\ recurrent = RecurrentRule(NoState, fed).state
      /\ \A i \in 1..n : call.out[i] = Reference(SubSeq(call.tokens, 1, at(i)))
      /\ call.rotated = [i \in 1..n |-> at(i)]
      /\ call.inference \/ ~ table.inference
=============================================================================
