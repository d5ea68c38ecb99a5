--------------------------- MODULE AttentionBlock ---------------------------
(***************************************************************************)
(* One transformer block of a server as inference sessions use it: the     *)
(* wrappers that turn the attention cache of a session, kept in the layout *)
(* of BLOOM, into the layout of the model's own attention and back, and    *)
(* the CUDA graphs that Falcon and LLaMA replay for steps of one token.    *)
(*                                                                         *)
(* A block is shared by all sessions.  What a graph captures is shared     *)
(* too: the tensors of the first one-token call become the surface every   *)
(* later call copies its inputs into.  For Falcon the cosines of that call *)
(* are a slice of the rotary table (type() to the same dtype returns the   *)
(* tensor itself), so that every replay writes into the table.             *)
(*                                                                         *)
(* A key or value is abstracted to where it comes from: the row of the     *)
(* batch, the head, the position of its token and the angle it was rotated *)
(* by (values are not rotated; they take the same way through the layouts  *)
(* and are not kept apart).  Falcon stands for the new decoder             *)
(* architecture (40B, 180B).  Only calls of inference sessions on a GPU    *)
(* are modelled: those always come with a cache, if an empty one.          *)
(***************************************************************************)
EXTENDS Integers, Sequences

CONSTANTS
    Families,       \* the model families to run, of "bloom", "falcon", "llama", "mixtral", "qwen3_moe"
    Sessions,       \* inference sessions of one block
    Batch(_),       \* the batch size of each
    KVHeads,        \* heads of the keys
    Groups,         \* query heads for each of them
    TableLength,    \* INFERENCE_MAX_LENGTH of Falcon
    ChunkLength,    \* max_chunk_size_bytes of Qwen3-MoE, in tokens
    MaxLength,      \* the longest sequence of a session
    Feeds           \* how many tokens one call may bring

VARIABLES
    family,     \* the model of the block
    table,      \* angle by position: cos_cached and sin_cached of Falcon
    graph,      \* the captured graph: batch, position of the first call, does it alias the table
    caches,     \* the cache of each session: rows of keys, in the layout the server keeps
    answer      \* the last call: what it rotated its queries by and the keys each head was given

attentionVars == <<family, table, graph, caches, answer>>

Heads == KVHeads * Groups
NoGraph == [batch |-> 0, position |-> 0, aliased |-> FALSE]
NoAnswer == [session |-> 0]

Optimized(f) == f \in {"falcon", "llama"}

\* The first dimension of the cached tensors: BLOOM has no groups, Qwen3-MoE no merged rows.
CacheRows(f, B) ==
    CASE f = "bloom" -> 0 .. (B * Heads - 1)
      [] f = "qwen3_moe" -> (0 .. (B - 1)) \X (0 .. (KVHeads - 1))
      [] OTHER -> 0 .. (B * KVHeads - 1)

EmptyCache(f, B) == [r \in CacheRows(f, B) |-> <<>>]

Prefix(cache) == Len(cache[CHOOSE r \in DOMAIN cache : TRUE])

\* The keys of head k for the tokens of this call.
Projected(b, k, angles, prefix) ==
    [i \in 1 .. Len(angles) |-> [row |-> b, head |-> k, position |-> prefix + i - 1, angle |-> angles[i]]]

-----------------------------------------------------------------------------
(* Layouts. Each family's forward takes the cache of the session and       *)
(* returns the new one and, for every row and query head, its keys.        *)

ByHead(B, keys(_, _)) == [bh \in (0 .. (B - 1)) \X (0 .. (Heads - 1)) |-> keys(bh[1], bh[2])]

\* split_heads broadcasts the key of a group to the query heads of the group.
SplitHeads(B, angles, prefix) ==
    [r \in 0 .. (B * Heads - 1) |-> Projected(r \div Heads, (r % Heads) \div Groups, angles, prefix)]

\* Mutant of ExpandStates: the heads of the cache repeated as a whole instead of one by one.
ExpandStatesTiled(B, cache) ==
    [r \in 0 .. (B * Heads - 1) |-> cache[(r \div Heads) * KVHeads + ((r % Heads) % KVHeads)]]

ExpandStates(B, cache) ==
    [r \in 0 .. (B * Heads - 1) |-> cache[(r \div Heads) * KVHeads + ((r % Heads) \div Groups)]]

CollapseStates(B, states) ==
    [r \in 0 .. (B * KVHeads - 1) |-> states[(r \div KVHeads) * Heads + ((r % KVHeads) * Groups)]]

FalconAttention(B, past, angles, prefix) ==
    LET split == SplitHeads(B, angles, prefix)
    IN  [r \in DOMAIN past |-> past[r] \o split[r]]

FalconBlock(B, cache, angles, prefix) ==
    LET keys == FalconAttention(B, ExpandStates(B, cache), angles, prefix)
        Key(b, h) == keys[b * Heads + h]
    IN  [cache |-> CollapseStates(B, keys), keys |-> ByHead(B, Key)]

FromBloom(B, cache) == [bk \in (0 .. (B - 1)) \X (0 .. (KVHeads - 1)) |-> cache[bk[1] * KVHeads + bk[2]]]

ToBloom(B, keys) == [r \in 0 .. (B * KVHeads - 1) |-> keys[<<r \div KVHeads, r % KVHeads>>]]

LlamaAttention(past, angles, prefix) ==
    [bk \in DOMAIN past |-> past[bk] \o Projected(bk[1], bk[2], angles, prefix)]

RepeatKV(B, keys) == LET Key(b, h) == keys[<<b, h \div Groups>>] IN ByHead(B, Key)

LlamaBlock(B, cache, angles, prefix) ==
    LET keys == LlamaAttention(FromBloom(B, cache), angles, prefix)
    IN  [cache |-> ToBloom(B, keys), keys |-> RepeatKV(B, keys)]

\* The wrapper of Mixtral hands the cache to the library as a DynamicCache, which concatenates.
MixtralBlock(B, cache, angles, prefix) ==
    LET keys == [bk \in (0 .. (B - 1)) \X (0 .. (KVHeads - 1)) |->
                    FromBloom(B, cache)[bk] \o Projected(bk[1], bk[2], angles, prefix)]
    IN  [cache |-> ToBloom(B, keys), keys |-> RepeatKV(B, keys)]

BloomBlock(B, cache, angles, prefix) ==
    LET keys == [r \in DOMAIN cache |-> cache[r] \o Projected(r \div Heads, r % Heads, angles, prefix)]
        Key(b, h) == keys[b * Heads + h]
    IN  [cache |-> keys, keys |-> ByHead(B, Key)]

\* inference_with_cache: the chunks one after the other, the cache written once at the end.
Qwen3MoeBlock(B, cache, angles, prefix) ==
    LET chunk[c \in 0 .. Len(angles)] ==
            IF c = 0 THEN cache
            ELSE LET from == (c - 1) * ChunkLength
                     part == SubSeq(angles, from + 1, IF c * ChunkLength < Len(angles)
                                                      THEN c * ChunkLength ELSE Len(angles))
                 IN  LlamaAttention(chunk[c - 1], part, prefix + from)
        keys == chunk[(Len(angles) + ChunkLength - 1) \div ChunkLength]
    IN  [cache |-> keys, keys |-> RepeatKV(B, keys)]

Block(B, cache, angles, prefix) ==
    CASE family = "falcon" -> FalconBlock(B, cache, angles, prefix)
      [] family = "llama" -> LlamaBlock(B, cache, angles, prefix)
      [] family = "mixtral" -> MixtralBlock(B, cache, angles, prefix)
      [] family = "bloom" -> BloomBlock(B, cache, angles, prefix)
      [] family = "qwen3_moe" -> Qwen3MoeBlock(B, cache, angles, prefix)

-----------------------------------------------------------------------------
(* Angles.                                                                 *)

\* The angle of position p: none in BLOOM, which biases by distance instead.
Angle(p) == IF family = "bloom" THEN 0 ELSE p

\* cos_sin of Falcon keeps a table and makes a new one when it is too short.
Grown(length) ==
    IF table = <<>> \/ length > Len(table)
    THEN [p \in 1 .. (IF table = <<>> /\ length < TableLength THEN TableLength ELSE length) |-> p - 1]
    ELSE table

Regrown(length) == table # <<>> /\ length > Len(table)

Angles(rows, prefix, n) ==
    IF family = "falcon" THEN SubSeq(rows, prefix + 1, prefix + n)
    ELSE [i \in 1 .. n |-> Angle(prefix + i - 1)]

\* What a replay leaves in the table: its own angle, at the position of the first call.
Overwritten(rows, angle) ==
    IF graph.aliased THEN [rows EXCEPT ![graph.position + 1] = angle] ELSE rows

InitAttention ==
    /\ family \in Families
    /\ table = <<>>
    /\ graph = NoGraph
    /\ caches = [s \in Sessions |-> EmptyCache(family, Batch(s))]
    /\ answer = NoAnswer

Forward(s, angles) ==
    LET prefix == Prefix(caches[s])
        out == Block(Batch(s), caches[s], angles, prefix)
    IN  /\ caches' = [caches EXCEPT ![s] = out.cache]
        /\ answer' = [session |-> s, from |-> prefix, rotated |-> angles, keys |-> out.keys]

Reading(length) ==
    /\ graph' = [graph EXCEPT !.aliased = @ /\ ~Regrown(length)]
    /\ UNCHANGED family

\* More than one token, or a family without graphs.
Eager(s, n) ==
    LET prefix == Prefix(caches[s])
        rows == IF family = "falcon" THEN Grown(prefix + n) ELSE table
    IN  /\ prefix + n <= MaxLength
        /\ ~(n = 1 /\ Optimized(family))
        /\ Forward(s, Angles(rows, prefix, n))
        /\ table' = rows
        /\ Reading(prefix + n)

\* The first one-token call is warmed up, captured and replayed on its own tensors.
Capture(s) ==
    LET prefix == Prefix(caches[s])
        rows == IF family = "falcon" THEN Grown(prefix + 1) ELSE table
    IN  /\ prefix + 1 <= MaxLength
        /\ Optimized(family)
        /\ graph = NoGraph
        /\ Forward(s, Angles(rows, prefix, 1))
        /\ table' = rows
        /\ graph' = [batch |-> Batch(s), position |-> prefix, aliased |-> family = "falcon"]
        /\ UNCHANGED family

\* Later ones copy their inputs to the captured surface; of another batch size they fail,
\* the larger in the first copy, a single row (which copy_ repeats) where the cache is appended.
Replay(s) ==
    LET prefix == Prefix(caches[s])
        rows == IF family = "falcon" THEN Grown(prefix + 1) ELSE table
        angles == Angles(rows, prefix, 1)
    IN  /\ prefix + 1 <= MaxLength
        /\ Optimized(family)
        /\ graph # NoGraph
        /\ IF Batch(s) = graph.batch
           THEN Forward(s, angles)
           ELSE /\ answer' = NoAnswer
                /\ UNCHANGED caches
        /\ table' = IF Batch(s) \notin {1, graph.batch} THEN table
                    ELSE IF Regrown(prefix + 1) THEN rows
                    ELSE Overwritten(rows, angles[1])
        /\ IF Batch(s) \notin {1, graph.batch} THEN UNCHANGED <<family, graph>>
           ELSE Reading(prefix + 1)

\* The session ends and another one takes its place.
Close(s) ==
    /\ Prefix(caches[s]) > 0
    /\ caches' = [caches EXCEPT ![s] = EmptyCache(family, Batch(s))]
    /\ answer' = NoAnswer
    /\ UNCHANGED <<family, table, graph>>

NextAttention ==
    \E s \in Sessions :
        \/ \E n \in Feeds : Eager(s, n)
        \/ Capture(s)
        \/ Replay(s)
        \/ Close(s)

SpecAttention == InitAttention /\ [][NextAttention]_attentionVars

-----------------------------------------------------------------------------
(* What a head is given: keys of its own row and group, in the order of    *)
(* the tokens, all tokens up to its own.                                   *)

RightKey(key, b, h, p) ==
    /\ key.row = b
    /\ key.head = IF family = "bloom" THEN h ELSE h \div Groups
    /\ key.position = p

MatchesBut(drifted) ==
    answer # NoAnswer =>
        LET n == Len(answer.rotated)
        IN  /\ \A i \in 1 .. n : LET p == answer.from + i - 1
                                 IN  p \in drifted \/ answer.rotated[i] = Angle(p)
            /\ DOMAIN answer.keys = (0 .. (Batch(answer.session) - 1)) \X (0 .. (Heads - 1))
            /\ \A bh \in DOMAIN answer.keys :
                 LET keys == answer.keys[bh]
                 IN  /\ Len(keys) = answer.from + n
                     /\ \A i \in DOMAIN keys :
                          /\ RightKey(keys[i], bh[1], bh[2], i - 1)
                          /\ i - 1 \in drifted \/ keys[i].angle = Angle(i - 1)

\* tests/test_optimized_layers.py: the block answers as the unoptimized one does, for every call
\* of every session.
OptimizedBlockMatches == MatchesBut({})

\* What does hold of every family: heads and rows never mix, whatever the sizes, and an answer differs
\* from that of the unoptimized block by the angle of one position at most, in Falcon only: that of the
\* first one-token call the block ever had.
OnlyTheCapturedPositionDrifts ==
    MatchesBut(IF family = "falcon" /\ graph # NoGraph THEN {graph.position} ELSE {})
=============================================================================
