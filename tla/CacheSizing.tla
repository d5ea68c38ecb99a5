---------------------------- MODULE CacheSizing ----------------------------
(***************************************************************************)
(* How many blocks a server holds and what it promises about its cache.    *)
(*                                                                         *)
(* A host is sized either by the planner (examples/plan_blocks.py, from a  *)
(* preflight report of what is free) or by the server itself (from the     *)
(* memory of the device).  The server then sets the budget of its          *)
(* attention cache, advertises how many tokens are left in it, in the unit *)
(* of the client, and sessions of one sequence each are opened by clients  *)
(* that trust the number.                                                  *)
(*                                                                         *)
(* A hybrid model has two kinds of blocks: linear attention keeps a state  *)
(* of fixed size besides its history, full attention only keys and values. *)
(* Sizes are small integers.                                               *)
(***************************************************************************)
EXTENDS Integers, Sequences, FiniteSetsExt

CONSTANTS
    Models,         \* records: custom, layers (kinds of its blocks), hidden, groups, weight, perToken and
                    \* fixed (bytes by kind), disk (what the planner tabulated for 1, 2, ... blocks)
    Reports,        \* what a preflight may find: records vram, disk
    Memories,       \* the memory a device may have
    Tokens,         \* attn_cache_tokens
    Autograd,       \* memory for a backward pass
    Headroom,       \* HEADROOM_GIB of the planner
    DiskMargin,     \* DISK_MARGIN_GB of the planner
    MaxDisk,        \* --max-disk-gb
    Cap,            \* --cap
    Lengths,        \* the max_length of sessions
    MaxSessions     \* bound: sessions open at once

VARIABLES
    model,      \* the model being served
    line,       \* the line of the host: Auto, Pinned, Skipped or a number of blocks
    free,       \* the last preflight report, or Unknown
    server,     \* the running server: first block, number of blocks, memory, who sized it
    left,       \* bytes left in the cache
    tokensLeft, \* cache_tokens_left as advertised
    basis,      \* the bytes that were left when it was
    sessions    \* max_length of the open sessions

sizingVars == <<model, line, free, server, left, tokensLeft, basis, sessions>>

Unknown == [vram |-> -1, disk |-> -1]
Off == [blocks |-> 0]
Auto == -1
Pinned == -2
Skipped == 0
Kinds == {model.layers[i] : i \in DOMAIN model.layers}

-----------------------------------------------------------------------------
(* What blocks take.                                                       *)

\* Bytes of the tensors cache_specs (or the plain descriptors) lists for one sequence.
SessionBytes(kind, length) == model.fixed[kind] + model.perToken[kind] * length

\* get_block_size prices the largest kind of block.
BlockSize == Max({model.weight[k] : k \in Kinds})

CacheBytesPerBlock ==
    IF model.custom THEN Max({SessionBytes(k, Tokens) : k \in Kinds})
    ELSE (2 * model.hidden * Tokens) \div model.groups

Span == {i \in DOMAIN model.layers : server.first <= i /\ i < server.first + server.blocks}

SpanBytes(length) == MapThenSumSet(LAMBDA i : SessionBytes(model.layers[i], length), Span)

WeightBytes == MapThenSumSet(LAMBDA i : model.weight[model.layers[i]], Span)

AttnCacheBytes == CacheBytesPerBlock * server.blocks

\* The log of a server that can outgrow its device.
Warned == server.memory - BlockSize * server.blocks < AttnCacheBytes

ChooseNumBlocks(memory) ==
    Min({(memory - Autograd) \div (BlockSize + CacheBytesPerBlock), Len(model.layers)})

-----------------------------------------------------------------------------
(* The planner.                                                            *)

PlannedPerBlock == BlockSize + CacheBytesPerBlock

BlocksFromVram(vram) == Max({0, (vram - Autograd - Headroom) \div PlannedPerBlock})

\* A number of blocks beyond the table is taken to need what its last line says.
DiskFor(n) == model.disk[Min({n, Len(model.disk)})]

BlocksFromDisk(disk) ==
    Max({0} \union {n \in DOMAIN model.layers : DiskFor(n) <= Min({disk - DiskMargin, MaxDisk})})

Allowed(report) == Min({BlocksFromVram(report.vram), BlocksFromDisk(report.disk), Cap})

InitSizing ==
    /\ model \in Models
    /\ line \in {Auto, Pinned}
    /\ free = Unknown
    /\ server = Off
    /\ left = 0
    /\ tokensLeft = -1
    /\ basis = 0
    /\ sessions = <<>>

Preflight ==
    /\ server = Off
    /\ free' \in Reports \union {Unknown}
    /\ UNCHANGED <<model, line, server, left, tokensLeft, basis, sessions>>

\* A pinned host and one that did not report are left as they are; a host that can hold nothing is
\* commented out (Skipped is 0), and a comment is never looked at again.
Plan ==
    /\ server = Off
    /\ line' = IF line \in {Pinned, Skipped} \/ free = Unknown THEN line
               ELSE Allowed(free)
    /\ UNCHANGED <<model, free, server, left, tokensLeft, basis, sessions>>

-----------------------------------------------------------------------------
(* The server and its clients.                                             *)

Started(first, blocks, memory, sizedBy) ==
    /\ server' = [first |-> first, blocks |-> blocks, memory |-> memory, sizedBy |-> sizedBy]
    /\ left' = CacheBytesPerBlock * blocks
    /\ UNCHANGED <<model, line, free, tokensLeft, basis, sessions>>

\* A server is given a range, a number of blocks, or fills its device.
Start ==
    /\ server = Off
    /\ \E memory \in Memories, first \in DOMAIN model.layers :
         \/ /\ line = Pinned
            /\ \E last \in first .. Len(model.layers) : Started(first, last - first + 1, memory, "hand")
         \/ /\ line = Auto
            /\ ChooseNumBlocks(memory) >= 1
            /\ first + ChooseNumBlocks(memory) - 1 <= Len(model.layers)
            /\ Started(first, ChooseNumBlocks(memory), memory, "server")
         \/ /\ line > 0 /\ free # Unknown /\ free.vram <= memory
            /\ first + line - 1 <= Len(model.layers)
            /\ Started(first, line, memory, IF line = Allowed(free) THEN "planner" ELSE "hand")

FixedBytes ==
    IF model.custom THEN Max({0, 2 * SpanBytes(1) - SpanBytes(2)}) ELSE 0

\* Mutant of BytesPerToken: rounded down.
BytesPerTokenDown ==
    IF model.custom
    THEN Max({1, (SpanBytes(2) - SpanBytes(1)) \div (2 * server.blocks)})
    ELSE model.hidden \div model.groups

\* Per token, per block, per side: the unit of upstream. Rounded up.
BytesPerToken ==
    IF model.custom
    THEN Max({1, (SpanBytes(2) - SpanBytes(1) + 2 * server.blocks - 1) \div (2 * server.blocks)})
    ELSE model.hidden \div model.groups

Announce ==
    /\ server # Off
    /\ tokensLeft' = Max({0, left - FixedBytes}) \div BytesPerToken
    /\ basis' = left
    /\ UNCHANGED <<model, line, free, server, left, sessions>>

HasCacheFor(length) == length * 2 * server.blocks <= tokensLeft

\* A client that finds room asks for it; the cache grants what it has.
Open(length) ==
    /\ server # Off /\ tokensLeft >= 0
    /\ Len(sessions) < MaxSessions
    /\ HasCacheFor(length)
    /\ SpanBytes(length) <= left
    /\ sessions' = Append(sessions, length)
    /\ left' = left - SpanBytes(length)
    /\ UNCHANGED <<model, line, free, server, tokensLeft, basis>>

End ==
    /\ sessions # <<>>
    /\ sessions' = Tail(sessions)
    /\ left' = left + SpanBytes(Head(sessions))
    /\ UNCHANGED <<model, line, free, server, tokensLeft, basis>>

Stop ==
    /\ server # Off
    /\ server' = Off
    /\ left' = 0 /\ tokensLeft' = -1 /\ basis' = 0 /\ sessions' = <<>>
    /\ UNCHANGED <<model, line, free>>

NextSizing ==
    \/ Preflight \/ Plan \/ Start \/ Announce \/ End \/ Stop
    \/ \E length \in Lengths : Open(length)

SpecSizing == InitSizing /\ [][NextSizing]_sizingVars

-----------------------------------------------------------------------------
\* Properties.

\* A server advertises zero "instead of a number the next allocation cannot honour" (server.py): as long
\* as the cache holds what it held at the announcement, every session a client believes it can open there
\* is granted, for every span of a hybrid model and whatever the rounding.
PromisesHold ==
    server # Off /\ tokensLeft >= 0 /\ left >= basis =>
        \A length \in Lengths : HasCacheFor(length) => SpanBytes(length) <= left

\* Blocks of any kind, the whole cache budget and a backward pass fit the memory they were sized for: all
\* of the device when the server chose, what the preflight found free when the planner did (and its disk
\* as far as the table goes), and the device without the backward pass when nothing was logged. The
\* budget of a server that no session uses admits one sequence of attn_cache_tokens on all its blocks.
BudgetsFit ==
    server # Off =>
        LET taken == WeightBytes + AttnCacheBytes
        IN  /\ server.sizedBy = "server" => taken + Autograd <= server.memory
            /\ server.sizedBy = "planner" =>
                 /\ taken + Autograd + Headroom <= free.vram
                 /\ server.blocks <= Len(model.disk) /\ model.disk[server.blocks] + DiskMargin <= free.disk
            /\ ~Warned => taken <= server.memory
            /\ sessions = <<>> => SpanBytes(Tokens) <= left

\* What was sized fits, and what is promised is held.
SizesHold == PromisesHold /\ BudgetsFit
=============================================================================
