----------------------------- MODULE BlockCache -----------------------------
(***************************************************************************)
(* What the attention caches of a session hold while its steps run:        *)
(* iterate_rpc_inference (src/petals/server/block_functions.py),           *)
(* TransformerBackend.inference_step (server/backend.py) and the hybrid    *)
(* blocks of models/qwen3_5_moe/block.py, which keep a recurrent state     *)
(* instead of keys and values.                                             *)
(*                                                                         *)
(* A step may rewind the session, reorder its beams and be run in chunks.  *)
(* The hidden state of a token is the sequence of tokens it depends on, so *)
(* the hidden state of position p of a beam should be the first p tokens   *)
(* of that beam.  A block that attends to anything else computes Wrong.    *)
(***************************************************************************)
EXTENDS Integers, Sequences, FiniteSets, SequencesExt, FiniteSetsExt, Functions

CONSTANTS
  Beams,        \* the rows of a batch
  Orders,       \* the hypo_ids a client may send: functions from rows to rows
  MaxLength,    \* max_length: the positions the caches were allocated for
  ChunkBudget,  \* max_chunk_size_bytes, in units of one token attending to one
  Layers,       \* the kinds of the blocks of the chain: "attention" or "linear"
  MaxSteps      \* bound on the steps of a session

\* Hidden states of tokens that no step ever has.
Wrong == <<<<-1, 0>>>>     \* depends on the wrong tokens
Junk == <<<<-2, 0>>>>      \* memory that was never written

VARIABLES
  history,  \* beam -> the tokens of the session, as the client knows them
  prefix,   \* prefix_length of iterate_rpc_inference
  slots,    \* layer, beam -> what its cache holds for each position
  state,    \* layer, beam -> the tokens its recurrent state has absorbed
  position, \* layer -> how many tokens its recurrent state has absorbed
  answer,   \* beam -> the hidden states the last step returned
  steps     \* the steps made so far

cacheVars == <<history, prefix, slots, state, position, answer, steps>>

LayerIds == 1..Len(Layers)
AnyBeam == CHOOSE b \in Beams : TRUE   \* all rows of a batch are equally long

InitCache ==
  /\ history = [b \in Beams |-> <<>>]
  /\ prefix = 0
  /\ slots = [l \in LayerIds |-> [b \in Beams |-> [p \in 1..MaxLength |-> Junk]]]
  /\ state = [l \in LayerIds |-> [b \in Beams |-> <<Junk>>]]
  /\ position \in [LayerIds -> {0, MaxLength}]  \* uninitialized memory
  /\ answer = [b \in Beams |-> <<>>]
  /\ steps = 0

-----------------------------------------------------------------------------
(* The mixers.                                                             *)

\* What a token computes when the tokens up to it, itself last, are attended.
Attend(seen) ==
  LET h == Last(seen)
  IN  IF \A i \in 1..Len(seen) : seen[i] = SubSeq(h, 1, i) THEN h ELSE Wrong

\* A chunk is run after the tokens already absorbed; the causal mask hides from
\* a token the later ones of its chunk.
RunChunk(run, xs) ==
  [seen |-> run.seen \o xs,
   out  |-> run.out \o [i \in 1..Len(xs) |-> Attend(run.seen \o SubSeq(xs, 1, i))]]

\* How many tokens fit a chunk when the last of them attends to `length`.  The
\* limit of 256 of the hybrid blocks is above every length used here.
ChunkLength(length) == Max({1, ChunkBudget \div length})

Chunks(xs, size) ==
  [k \in 1..((Len(xs) + size - 1) \div size) |->
     SubSeq(xs, (k - 1) * size + 1, Min({k * size, Len(xs)}))]

RunAll(seen, xs, size) == FoldLeft(RunChunk, [seen |-> seen, out |-> <<>>], Chunks(xs, size))

-----------------------------------------------------------------------------
(* One block, one beam.  A cell is what the block's cache holds for a beam. *)

\* _select_layer_past, or the slice a hybrid block takes: the first positions.
Past(cell, from) == SubSeq(cell.slots, 1, from)

\* Mutant of Replayed: a rewound block goes on from the state it has.
ReplayedNever(cell, from, size) == IF from = 0 THEN <<>> ELSE cell.state

\* The recurrent state at `from`.  It cannot be cut back like keys and values:
\* when the session was rewound the block inputs are replayed into it.  It
\* cannot be advanced either: there the code raises, and no answer is right.
Replayed(cell, from, size) ==
  CASE from = 0 -> <<>>
    [] from > 0 /\ cell.position = from -> cell.state
    [] from > 0 /\ cell.position < from -> <<Wrong>>
    [] OTHER -> RunAll(<<>>, Past(cell, from), size).seen

Fill(old, from, xs) ==
  [p \in 1..MaxLength |-> IF from < p /\ p <= from + Len(xs) THEN xs[p - from] ELSE old[p]]

\* _update_cache_inplace, or the copies at the end of inference_with_cache:
\* positions from the prefix on are written.
RunLayer(kind, cell, from, xs, size) ==
  IF kind = "linear"
  THEN LET run == RunAll(Replayed(cell, from, size), xs, size)
       IN  [out |-> run.out, slots |-> Fill(cell.slots, from, xs),
            state |-> run.seen, position |-> from + Len(xs)]
  ELSE LET run == RunAll(Past(cell, from), xs, size)
       IN  [out |-> run.out, slots |-> Fill(cell.slots, from, SubSeq(run.seen, from + 1, Len(run.seen))),
            state |-> cell.state, position |-> cell.position]

\* Every tensor of the cache takes its rows from those that hypo_ids names.
Reordered(cache, hypo) == [b \in Beams |-> cache[hypo[b]]]

Cell(l, b, hypo) ==
  [slots |-> Reordered(slots[l], hypo)[b], state |-> Reordered(state[l], hypo)[b],
   position |-> position[l]]

\* The chain of blocks: the inputs of a block are the outputs of the one before.
RunChain(b, hypo, from, xs, size) ==
  LET run[l \in LayerIds] ==
        RunLayer(Layers[l], Cell(l, b, hypo), from, IF l = 1 THEN xs ELSE run[l - 1].out, size)
  IN  run

-----------------------------------------------------------------------------
(* A step of the session: start_from_position, hypo_ids and the new tokens. *)

\* The client's position setter lets a session only go back (inference_session.py:105).  The
\* assertion of the server meant for this (block_functions.py:165) is a tuple, so it always holds.
MayRewindTo(from) == from \in 0..prefix

\* The tokens of a step are unlike those of every other step and beam.
Token(b) == <<steps, b>>

Step(from, n, hypo) ==
  LET size == ChunkLength(from + n)
      \* what the client sends: the hidden states of the new tokens
      inputs(b) == [i \in 1..n |-> SubSeq(history'[b], 1, from + i)]
      run == [b \in Beams |-> RunChain(b, hypo, from, inputs(b), size)]
  IN  /\ steps < MaxSteps
      /\ MayRewindTo(from) /\ from + n <= MaxLength
      /\ history' = [b \in Beams |-> SubSeq(history[hypo[b]], 1, from) \o [i \in 1..n |-> Token(b)]]
      /\ slots' = [l \in LayerIds |-> [b \in Beams |-> run[b][l].slots]]
      /\ state' = [l \in LayerIds |-> [b \in Beams |-> run[b][l].state]]
      /\ position' = [l \in LayerIds |-> run[AnyBeam][l].position]
      /\ answer' = [b \in Beams |-> run[b][Len(Layers)].out]
      /\ prefix' = from + n
      /\ steps' = steps + 1

\* A step without tokens checks that the cache can be had: no block runs, and
\* hypo_ids are not looked at.
EmptyStep(from) ==
  /\ steps < MaxSteps /\ MayRewindTo(from)
  /\ history' = [b \in Beams |-> SubSeq(history[b], 1, from)]
  /\ prefix' = from
  /\ answer' = [b \in Beams |-> <<>>]
  /\ steps' = steps + 1
  /\ UNCHANGED <<slots, state, position>>

NextCache ==
  \E from \in 0..MaxLength :
    \/ EmptyStep(from)
    \/ \E n \in 1..MaxLength, hypo \in Orders : Step(from, n, hypo)

-----------------------------------------------------------------------------

TypeOKCache ==
  /\ prefix \in 0..MaxLength
  /\ \A b \in Beams : history[b] \in Seq((0..MaxSteps) \X Beams) /\ Len(history[b]) = prefix
  /\ \A l \in LayerIds : position[l] \in 0..MaxLength

(***************************************************************************)
(* Whatever was rewound, reordered or cut into chunks before, every hidden *)
(* state a step returns was computed from the tokens of its own beam up to *)
(* its own position, in order, in every block of the chain: no block reads *)
(* a stale position, another beam's rows or memory that was never written  *)
(* (inference_step, inference_with_cache).                                 *)
(***************************************************************************)
AnswersSeeTheirPrefix ==
  /\ TypeOKCache
  /\ \A b \in Beams : \A i \in 1..Len(answer[b]) :
       answer[b][i] = SubSeq(history[b], 1, prefix - Len(answer[b]) + i)
=============================================================================
