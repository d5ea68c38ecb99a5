# Petals in TLA+

Petals runs a large language model over a swarm of servers: each server holds a
span of consecutive transformer blocks, a client finds a chain of servers that
covers the model, and pushes hidden states through it token by token. The code
is Python on top of *hivemind* (DHT, libp2p, the Runtime process). This
directory holds TLA+ modules of its own core logic, the TLC configurations that
model-check them on small instances, and proofs that hold for all instances.

Paths below are under `src/petals/` of the repository.

## 1. Inventory

| Part | State | Operations | What makes it hard |
|---|---|---|---|
| Attention cache `server/memory_cache.py` | two shared counters, a handle counter, two locks, an event, a pipe, a table of tensors | `allocate_cache`, `_free`, `use_cache` | several handler processes, executor threads that outlive cancelled coroutines, deadlines at every await, a pipe that may be full |
| Task pools `server/task_pool.py`, `task_prioritizer.py` | two queues per pool, a pipe of tokens, an advertised priority of two shared words | `submit_task`, the pool thread, `load_batch_to_runtime`, results, `shutdown` | tasks and tokens travel separately; priorities are updated by everybody without a lock |
| Handler `server/handler.py` | session queues, each handler's view of who runs which session | `rpc_inference`, `rpc_push`, event queues; `rpc_forward`, `rpc_backward` | a step arrives twice, from the client and from the previous server; handlers are processes |
| Server `server/server.py` | phase of the container, a `ServerInfo` shared with a thread | `run`, `create`, `shutdown`, `ModuleAnnouncerThread` | announcements race with changes of state; crashes; records outlive their server |
| Block choice `server/block_selection.py` | none (pure) | `choose_best_blocks`, `should_choose_other_blocks` | several servers decide on the same stale records |
| DHT records `utils/dht.py`, `data_structures.py` | records per block and peer, with expiry | `declare_active_modules`, `get_remote_module_infos`, `compute_spans` | keys are stored one by one and expire one by one |
| Client session `client/inference_session.py` | position, a list of hops with positions and histories | `step`, `position` setter, `_update_sequence`, `close` | servers fail between or within steps and are replaced; caches must be rebuilt |
| Routing `client/routing/` | known spans, bans, pings, a readiness event | `make_sequence`, `update`, `on_request_failure/success` | an update thread; a route on spans that are gone |
| Forward/backward `client/sequential_autograd.py`, `remote_*` | intermediate inputs, a list of spans | `sequential_forward`, `sequential_backward` | a backward pass whose server is gone recomputes the forward pass |
| Execution of a step `server/block_functions.py`, `backend.py` | prefix length, what the caches of the session hold | `run_rpc_*`, `iterate_rpc_inference`, `inference_step` | chained tasks of several requests in one Runtime; rewinds, reordered beams, chunks |
| Hybrid blocks `models/qwen3_5_moe/` | recurrent and convolution states, a history of inputs | the recurrence, its chunked form, the convolution, the experts | two algorithms for one function; a state that cannot go back |
| Attention blocks `models/{bloom,falcon,llama,mixtral,qwen3_moe}/block.py`, `utils/cuda_graphs.py` | captured graphs and their input surfaces, a rotary table | `forward` with the cache of a session | four layouts of one cache; graphs shared by all sessions |
| Generation `client/remote_generation.py`, `models/llama/` | tokens generated so far, the position, a counter transformers reads | `generate`, speculative generation, soft prompts | a session outlives the call; drafts are rolled back |
| Disk cache `utils/disk_cache.py`, `server/from_pretrained.py`, `utils/peft.py` | files, lock files | `allow_cache_reads/writes`, `free_disk_space_for`, the loading loops | several processes; shards removed while others load |
| Sizes `server/server.py`, `block_utils.py`, `examples/plan_blocks.py` | bytes of a device, of a block, of the cache | the planner, `_choose_num_blocks`, `custom_cache_accounting`, the announced tokens | units of client, server and planner; hybrid models |
| Load on a swarm `examples/workload_dispatch.py`, `workload_bench.py` | a queue of prompts, what is in flight, records | the dispatcher, its readers, the workers | workers die between a hand-over and a record |
| Other models' wiring, quantisation, CLI, utilities | | | numerics and I/O |

How they interact: a client's **routing** reads **DHT records** that the
**servers** announce; its **session** calls `rpc_inference` of one **handler**
of each server on its route; the handler asks the **attention cache** for
memory and submits one task per step to a **task pool**; the Runtime process
takes tasks from the pools in order of priority and reads the cache through
handles. What each part has to guarantee is stated at its module below.

`PROJECT.json` lists every part with its status, every hazard with the line
where it bites and the property that covers it, and the lines of the source each
definition translates.

## 2. What is modelled

Each component module declares its variables, one action per operation or per
stretch of code between two points at which another process, thread or coroutine
can run, and its properties. A definition whose comment says *Mutant of X* is a
plausible bug in `X`; no next-state relation uses it. It is there so that each
property can be shown to notice a bug: substituted for `X`, it makes the
property fail.

### `MemoryCache`, contract `CacheContract`

`pc[r]` is the place of session `r` in `allocate_cache`, `thread[r]` that of the
executor thread that waits for the lock or for memory on its behalf. An event
loop runs one coroutine between two awaits (`CanRun`); everything else
interleaves at each access to shared memory. `Expire` is the deadline of
`async_timeout`, which cancels the coroutine but not its thread. `SendCreate`,
`SendDelete`, `Receive` and `Lookup` are the pipe to the Runtime and the two
halves of `use_cache`.

`CacheContract` is what `allocate_cache` promises the sessions of one handler: a
session is granted its bytes once and only while they fit, or refused, and gives
back what it was granted.

### `TaskPool`

`submit_task` is five accesses to shared memory (`stage[t]`), the pool thread is
`Move`, the Runtime is a loader (select a pool, get its first task, take a token,
update the advertised pair in two writes), a processor and the senders. The
Runtime's read of the two advertised words is one step. `closing` follows
`ModuleContainer.shutdown` through pools and Runtime.

### `SessionQueues`

`stream[s]` is what the client sends, `pushes[s]` the steps a previous server may
still push, to any handler, at any later time or never. `view[h]` is
`_session_handlers` of handler `h`, fed by its queue of `events`. `Look`,
`TakeOwn`, `TakePush`, `Respond` and `Abandon` are `_iterate_inference_steps`
with its set of processed step ids and its timeout.

### `InferenceSession`

One generation: hops with their positions and histories, and with each hop the
cache its server holds, so that the properties can compare what the client
believes with what the servers have. `BeginStep`, `SendRefused`, `Answered`,
`Lost`, `AnswerLost`, `Reroute`, `RerouteFails`, `GiveUp`, `Rollback` and `Close`
translate `step`, its retry loop, `_update_sequence` and the position setter.
Servers crash, restart empty, lose
a request before or after the cache was written, and end a session, up to
`MaxFaults` times. The routing is external here: any chain of servers from the
asked block to the end, which is what `make_sequence` returns.

### `ServerLifecycle`

The main thread (`Server.run`, `ModuleContainer.create` and `shutdown`) and one
announcer thread per container. `Declare` copies the shared `server_info` as
`run_coroutine` does when it sends the call to the DHT process; `Store` writes it
under one key; `Check` looks at `server_info` again; `Wake`/`PeriodEnds` and
`Clear` are the wait on the event. Records carry the number of the container that
wrote them. A record whose announcer is gone may expire at any time; one that is
refreshed does not, since `expiration >= 2 * update_period` (`server.py:126`).

### `Swarm`

The servers of a swarm with their records (`span`) and what each does (`phase`):
`Choose` reads the DHT and picks the worst served span (`BestStart`), `Announce`
publishes it, `Decide` is `should_choose_other_blocks` on a later reading, `Leave`
the shutdown that follows. Between a reading and what comes of it others read and
publish; `stale` has the servers whose reading was overtaken (`Overtaken`). A leaving
server's OFFLINE record may never be stored (`LeaveUnseen`, the finding of
`lifecycle_offline`): the old record then stays until it expires. `Settled` is the
simulation, a loop until nobody moves, over every shuffle of every round.
Throughputs are in thousandths, so that `eps` of the code is one unit and `T * (1
+ eps)` is exact. Crashed servers leave their record until it expires; they may be
restarted with the same identity before that. Crashes and departures that are not
stored share the bound `MaxCrashes`: without one, a server could chase its own old
record for ever, and no swarm would come to rest.

### `BlockRequests`, `BlockCache`, `HybridBlock`, `AttentionBlock`

What a server computes for a request, from four sides:

* `BlockRequests` runs `rpc_forward`, `rpc_backward`, their streams and
  `rpc_inference` as chains of tasks that meet in the Runtime: a handler submits the
  task of a block, awaits it, submits that of the next. A hidden state is the
  sequence of prompts and blocks applied to an input, a gradient the sequence of
  backward passes with the inputs they were taken at, so an answer that skipped,
  repeated or reordered something shows. A call has a number of prompts, which may be
  other than the number of its blocks: a forward pass then ends with the shorter of the
  two (`zip`, `Reach`), a backward pass fails on its assertion after its forward part
  (`PoolOf`), an inference step before anything runs (`Begin`). The client's timeouts are
  three, each where the code arms it: `ConnectTimeout` while a stream is being opened,
  `CallTimeout` over a unary call or an inference step from end to end, `PartTimeout`
  while the next part of a stream is awaited, armed anew for each; the server's is
  `ServerTimeout`. What they cut leaves its task in the pool. Nothing says that a call
  ends: that rests on the clocks alone.
* `BlockCache` runs the steps of one session over a softmax block and a recurrent
  block: rewinds by position, beams reordered by `hypo_ids`, chunks. A hidden state
  is the sequence of tokens it depends on, and a block that attends to a stale
  position, to another beam or to unwritten memory computes `Wrong`. A recurrent
  block takes its state from the session, replays its history when the session went
  back, and writes both again. That a session only goes back (`MayRewindTo`) is the
  client's check (`inference_session.py:105`); the assertion of the server
  (`block_functions.py:165`) is of a tuple, which is always true.
* `HybridBlock` has the arithmetic of such a block where it can be exact: the delta
  rule one token at a time and in padded chunks, the convolution with its window, the
  experts, the rotary table, over small integers.
* `AttentionBlock` has the wrappers of five families: the cache comes in the
  layout of BLOOM, is permuted into that of the model and back, repeated for grouped
  heads or not; and the CUDA graphs, captured by the first one-token call and
  replayed by all others. A key is where it comes from (row, head, position) and the
  angle it was rotated by.

### `Generation`

`Generate` and the steps it makes over a session: `output` is `session.output_ids`,
`position` the position of the session, `skip` the context variable
`_skipped_tokens`, which outlives the session; `cached` is what the servers hold.
Speculative calls draft with any small model (a free choice of tokens), verify, keep
the matching prefix and set the position back, except in the first iteration of a call,
which runs all tokens from wherever the session stands (`Rewound`, `ToValidate`). Soft
prompts are put before the first tokens of a session. Any call may resume a session, and
a prompt may hold the ending token. What holds is `AnswersAreGreedy`: for plain calls
without conditions; for speculative ones if the call is the first of its session and its
prompt has no ending token; and a tuned model answers no call that resumes one (it
raises). What the docstring says is `ResumedAnswersAreGreedy`, which fails.

### `DiskCache`

The processes of one host that load shards and adapters through one directory:
`step[s]` is the place in the loops of `from_pretrained.py` and `peft.py`, and a
process holds the shared or exclusive lock by its place. A shard whose size the hub
reports asks for room (`FreeSpace`): what is available is the less of what
`max_disk_space` leaves and what the volume has beyond `os_quota`, where other programs
may at times have taken more (`Spares`, counted as troubles); files are removed until
it suffices, in any order, as the times of last access that order them are not kept by
every file system. A shard of unknown size is downloaded without asking
(`SkipFreeing`), and so is an adapter. The table of measured throughputs has a lock of its own.

### `CacheSizing`

A host is planned (`plan_blocks.py`) or sizes itself (`_choose_num_blocks`), sets
the budget of its attention cache, announces the tokens left in it, and clients
open sessions on that promise. Bytes are small integers; the roundings, caps and
margins are those of the code.

### `WorkloadDispatch`

The dispatcher's main thread, one reader thread per chain, and the workers, with
the two pipes of each. A worker may die between any two messages; a signal stops
all.

### `SequenceManager`, and `SequentialAutograd` which uses it

`SequenceManager` has the swarm as a client sees it (`dht`, a set of records per
peer and block, and what servers have loaded, `serves`), the update thread
(`Fetch`, `Filter`, `Publish`, `SetReady`, `Wake`) with what it publishes
(`infos` is `block_infos`, `known` is `spans_by_priority`), the bans, and the two
events. `make_sequence` and the reports of failures and successes are operators
that a caller composes with its own state. `make_sequence` reads the spans
without the lock, so `PlanHop` takes one span at a time and an update may come
between two. Any span with the block may be taken: the weights are left out, as are
pings, the mode `min_latency`, allow and block lists and `rpc_info`.

`SequentialAutograd` is that caller: one coroutine per batch of a training step
(`at[c]`), which runs `sequential_forward` and then, when every batch has its
outputs, `sequential_backward`, whose retries run `sequential_forward` again over
the span that failed (`Recover`, `Recovered`). A tensor is the number of the block
it is the input of, so that `EveryBlockOnce` can say that each server was given
the right one. A server stops, forgets its blocks and later loads another span,
while its old records remain until they expire; `compute_spans` then believes in a
span that reaches from one place to the other (`SpanOf`), and requests to it fail.

### Instances that share a run

Three MC modules hold several small instances side by side: `MCHandler`
(`MCSessionQueues` with `BlockRequests`, `BlockCache`, `HybridBlock`, `AttentionBlock`
and `WorkloadDispatch`), `MCClient` (`MCInferenceSession` with `Generation` and
`SequentialAutograd`) and `MCServer` (`ServerLifecycle` with `DiskCache`, `Swarm` and
`CacheSizing`). A variable `part` is chosen in the initial state and never changes;
the instance it names runs by its own `Init` and `Next`, the variables of the others
are 0. The instances share no state and do not interact: a state of the run is a
state of one of them. A property of an instance is guarded by its part, and so is
its fairness (`WF_v(part = "swarm" /\ A)`), which asks nothing of the others.

## 3. Runs

All runs take from seconds to less than four minutes on two cores.

| Run | Instance | What it shows |
|---|---|---|
| `cache_shared` | 2 handlers, 3 sessions of 2, 2 and 3 bytes under a budget of 4, 2 devices, no deadline passes | the counters account for every session; a live session finds its tensors; no wake-up is lost; every session is served or refused |
| `cache_single` | 1 handler, a fourth session of 5 bytes, deadlines at any await, a pipe of 3 messages | the budget holds; buffers of the Runtime stay within it too; the cache implements `CacheContract` |
| `cache_race` (violation) | as `cache_shared` | two handlers oversell the cache: `WithinBudget` fails |
| `cache_ghost` (violation) | as `cache_shared` with deadlines | a cancelled wait leaves the lock taken for ever: `EveryRequestSettles` fails |
| `task_pool` | 2 handlers, an inference pool with 1 task, a forward pool with 2, one raising | tokens agree with tasks; each task is in one place; inference goes first; every task is answered; a shutdown ends |
| `session_queues` (188,060 states) | 3 handlers, 1 session of 3 steps, every order of requests and pushes | steps apply once and in order and are answered so; no request outlives its session; every step is answered; views forget |
| – `requests` | two of nine calls: every method, whole or in parts, over 3 blocks, with 3 prompts, with none, with too few or too many, by an unknown adapter, beyond the served blocks | an answer is what the chain of blocks named computes, whole and in order, whichever timeout passes; a forward call with too few prompts ends with them, any other misfit fails |
| – `cache` | 2 beams, a linear and a softmax block, chunks | a step sees exactly its own prefix in every block |
| – `hybrid` | a linear and a softmax block fed 1 to 3 tokens at a time, chunks of 2 | neither outputs nor state depend on where a session is cut |
| – `attention` | 3 sessions of two batch sizes on one block of each family, 2 query heads per key head | rows, heads and positions are kept apart, and angles are right but for what Falcon's graph overwrites |
| – `dispatch` | 3 prompts of 2 datasets, 2 chains, one of which may die by itself | every prompt runs on one chain, once, or is reported lost; the dispatcher ends |
| `session` (270,741 states) | 3 blocks, 3 servers that overlap, chunks of 1 and 2 tokens, 3 positions, 2 faults, retries limited or not | hops tile the model; positions, caches and histories agree between steps; the first step is answered |
| – `generation` | 3 calls in sessions of 9 positions, plain, tuned with 2 soft prompts or speculative, 3 tokens, a prompt that holds the ending token among them | a plain answer is greedy generation after all tokens of the session; so is that of a first speculative call of a prompt without the ending token; a tuned model answers only first calls |
| – `training` | 3 blocks, servers of blocks 0-1, 1-2 and of either 0 or 2; one batch; a server that stops, an answer that is lost or an update that fails; 2 attempts or no limit | passes apply every block once, in order, whatever is replaced; without a limit a step ends |
| `generation_resumed` (violation) | as `session`, its part `generation` | a speculative call that resumes a session answers after a prefix that repeats itself: `ResumedAnswersAreGreedy` fails |
| `session_failover` (violation) | as `session` | a later step whose server fails is never answered: `EveryStepAnswered` fails |
| `lifecycle` (284,361 states) | 3 blocks, spans of 2, 3 containers | records say ONLINE only of loaded blocks, name their block, get newer only; an announcement is not lost; shutdowns end; a stopped server vanishes |
| – `disk` | 2 servers that load 2 shards, or an adapter and a shard of unknown size, through a cache too small for two files and the index; one trouble, among them a full volume | no file is removed while another process reads it; shards of known size keep within `max_disk_space`; every loading ends |
| – `swarm` | 4 servers of 2, 1, 1 and 2 blocks, of speeds 2, 1, 3 and 1, on a model of 3; one crash or departure that is not stored; one reading while another acts | the simulation ends; a move on a true reading leaves no hole; the swarm becomes whole for ever |
| – `sizing` | a model of 3 equal blocks and a hybrid one, on devices from too small to ample, 2 sessions | what was planned fits, and what is promised of the cache can be granted |
| `lifecycle_offline` (violation) | as `lifecycle` | a shutdown can leave JOINING or ONLINE records: `OfflineAnnounced` fails |
| `falcon_rotary` (violation) | Falcon: 2 sessions of one row, one of two, a rotary table of 3 positions | the optimised block differs from the plain one: `OptimizedBlockMatches` fails |

**Why these bounds.** Two handlers are the least that race on shared memory, and
a session that shares its loop with another is the least that is blocked by it.
Sizes 2, 2, 3 under 4 let two sessions in, block a third, and make a compare on a
stale counter visible. Two tasks in one pool from two handlers and one in another
make torn priorities matter. Three steps let a push of an early step arrive
during a later one, between two, and after the end. Three overlapping servers let
a hop be replaced by one or by two others, and a new hop serve more blocks than
it is asked for; two faults let the replacement fail too. Three containers let an
announcement meet its successor and the one after a restart. In `training` the
middle block has two servers and each end two or one, a recovered span may be cut
or split, and one fault is enough for a chain of failures, because the records of
a server that stopped stay; batches share nothing but the manager and the loop, and
one of them is what five minutes allow (more are a matter of `Batches`). In `swarm`
any three servers can cover the model, so that a crash leaves a swarm that can heal;
the speeds are such that a server that alone has a block would gain by moving, which
is the case the guard of `should_choose_other_blocks` is for; two rounds of the
simulation are enough for these servers (`SimulationEnds` checks it). In `cache` and
`hybrid` a chunk is two tokens, so that a step has a whole chunk, a rest, or both;
in `attention` the third session grows the rotary table. Two calls are the least
whose tasks mix in the Runtime. In `disk` one shard must go before the other comes.
The bounds in guards are `MaxFaults`, `MaxLength` (the code's own `max_length`),
`MaxSteps`, `MaxLives`, `MaxCalls`, `MaxCrashes`, `MaxRaces`, `MaxRounds`,
`MaxTroubles`, `MaxSessions`; other state is finite by itself.

**Deadlock checking** is off: sessions close, tasks are all answered, servers
stop, and then nothing is left to do. What must not stop is stated as liveness.

**Fairness**, and why the code justifies it:

* `MemoryCache`: coroutines, executor threads, the Runtime and finite deadlines
  run on. A session may hold its cache only until `session_timeout`.
* `TaskPool`: pool threads, the Runtime's loop, its senders and a running
  `submit_task` run on; nobody is obliged to submit.
* `SessionQueues`: the owner's loop and the tasks that read event queues run on.
  Neither the client nor the previous server is obliged to send anything; a
  session that gets nothing ends by its timeout.
* `InferenceSession`: a step under way goes on (timeouts of requests make every
  wait end), and a crashed server comes back. Nobody is obliged to begin a step.
* `ServerLifecycle`: the shutdown and the announcer go on, stale records expire.
  Loading may take for ever, the update period may be as long as one likes, so
  that `BecomesOnline` and `ShutdownEnds` rest on the event alone.
* `BlockRequests` has none: whether a server answers, and when a timeout passes, is
  open.
* `WorkloadDispatch`: threads and workers that live run on, and a dead worker's pipe
  is closed by the system.
* `DiskCache`: a process goes on when it can have the lock it waits for, and its
  sleep between two attempts ends; the volume is short of room a bounded number of
  times only.
* `Swarm`: a running server goes on, checks the balance now and then, and a move
  that stays worth making for some shuffle is made (shuffles are random); a dead
  server's record expires. Nobody has to restart a dead server.
* `SequentialAutograd`: the update thread and its period, the loop and the retry
  delays go on, records and bans run out, and a server that stopped joins again:
  without it a block may stay without a server, and the code retries for ever.
  Which of the spans is taken is not fair.

## 4. Findings

* **The cache is oversold** (`cache_race`, `memory_cache.py:158`). The counter is
  compared under one lock and raised under another, and the first is released in
  between. With one handler process this cannot happen, which is proved.
* **A ghost takes the lock** (`cache_ghost`, `memory_cache.py:147`). A deadline
  that cancels a coroutine waiting for the lock leaves a thread that acquires it
  for nobody; from then on every allocation hangs.
* **Failover after the first step** (`session_failover`,
  `inference_session.py:346`). A replacement hop starts at position 0 while the
  session stands elsewhere; an assertion then fails on each attempt, and each
  failure is blamed on the healthy new server.
* **Not announced as offline** (`lifecycle_offline`, `server.py:837`). An
  announcer that is storing when the state becomes OFFLINE sees the new state
  afterwards and ends without declaring it.
* **A replay rewrites the rotary table** (`falcon_rotary`, `falcon/block.py:60`).
  The cosines of the first one-token call are a slice of the table of angles; that
  slice becomes the input of the captured graph, and each later replay copies its own
  angles into it. The next call that covers that position is rotated wrongly, in any
  session. LLaMA's block copies its inputs first and is right
  (`OnlyTheCapturedPositionDrifts`).
* **A speculative call cannot resume a session** (`generation_resumed`,
  `speculative_model.py:59`). Its first iteration runs all tokens, those of the calls
  before too, from the position the session has reached, so the caches hold the prefix
  twice and the model answers after that. The docstring promises "multiple `.generate()`
  calls inside one InferenceSession" (`remote_generation.py:63`).

Seen while modelling, without a run of their own: with soft prompts the session is
ahead of its tokens, so a second `generate` of a tuned model finds nothing left to run
and raises (stated as the second part of `AnswersAreGreedy`); a forward call with fewer
prompts than blocks is answered by the hidden states after the last prompt
(`block_functions.py:63`), while the docstring (line 46) says "after the last layer" (no
client of the repository sends such a call); a shard of unknown size may exceed
`max_disk_space` (`from_pretrained.py:198`, which warns of it);
`_skipped_tokens` keeps its value after a call that raises
(`remote_generation.py:130`); a speculative call ignores `pre_seq_len`, and it may run
past the ending token when its prompt holds one (section 5); the planner
extrapolates its table by its last entry (`plan_blocks.py:32`); a prompt the
dispatcher reports lost may be recorded as well, when the record was still in the
pipe. These are no contradictions of a documented promise, or lie at the edge of what
the repository uses, so they are hazards and notes rather than findings.

## 5. Proofs

The theorems hold for every value of the constants that the named assumptions of
the component modules allow: any number of handlers, sessions, tasks, blocks and
peers, every size, budget and capacity, any number of failures. An assumption that
a theorem needs beyond those is in its statement. Each is proved from an inductive
invariant: it holds initially, every action keeps it, and it implies the property.
The properties by themselves are not inductive; what is added to them is said
below. A module of proofs is about one component, or about several small ones, each
an instance whose constants and variables are renamed where two components share a
name.

`SumProofs`, the lemmas on sums that the byte counters need. `MapThenSumSet` of
the community modules adds the elements of a set up by a recursive function, one
after another in the order of a `CHOOSE`. That such a function exists
(`SumExists`) and that the order does not matter (`SumRemove`) is shown by a least
counterexample among the finite subsets; `SumAdd`, `SumSplit`, `SumMonotone`,
`SumConstant`, `SumBounded` and `SumLinear` follow, and so does that a finite set of
numbers has a largest (`MaxFinite`).

`MemoryCacheProofs`:

* `TypeCorrect`: `TypeOK` is inductive as it stands.
* `BudgetHolds`, for one handler (`OneLoop`). `WithinBudget` is not inductive: a
  session that has passed the comparison is not yet charged. `BudgetInv` adds
  that only the holder of the lock is between `CheckMemory` and the release
  (`InsideHoldsLock`), that one loop runs one coroutine between awaits
  (`OneRuns`), that no thread is past its test while a passed coroutine is not
  charged (`NoWaiterBehindPass`), and that the comparison still stands until the
  charge (`ComparisonStands`). `cache_race` shows that `OneLoop` is needed.
* `ContractKept`, for one handler: initial states map to initial states, and each
  step maps to a step of `CacheContract` or a stutter; the grant uses `BudgetInv`.
* `WakeupsArrive`, when no deadline can pass (`NoDeadlines`), for any number of
  handlers: a waiting thread holds the lock, so it is the only one, and only it
  clears the event, before it tests again. `cache_ghost` is what happens with
  deadlines.
* `CountersAccounted`, for any number of handlers: `Accounting`, with the two sets
  finite at any time (sessions join them one by one), is inductive, because every
  path moves a session into or out of a set and changes its counter by the size of
  that session in one step.
* `LiveFindsItsTensors`, for any number of handlers. Handles come from a counter
  that only grows, so no two sessions share one; a deletion in the pipe is of a
  session that asked for it; the creation for a session in use has been received or
  is in the pipe, before anything its Runtime tasks could meet (`PipeInv`).
* `BytesAreAccounted`, for one handler: with `CountersAccounted`, that the buffers
  of the Runtime fit on every device. They lag behind the counter by the messages in
  the pipe, so `BufferInv` bounds the buffers there would be after every prefix of
  the pipe (`PrefixesFit`). At its end these are of sessions that are charged
  (`GoneAtEnd`), whose total `BudgetInv` bounds; to receive a message is to go on
  from one prefix to the next, which takes that the Runtime only hears of handles
  that were given out (`HandlesKnown`) and that no creation follows the deletion of
  the same buffers (`CreatesFirst`).

`ServerLifecycleProofs`: `RecordsSound` is the invariant that one announcer is
alive, that of the current container and its blocks (`OneAnnouncer`), that the copy
it stores is its own (`CopyIsOwn`), that nothing says ONLINE while blocks load
(`JoiningWhileLoading`) and that no record is from the future
(`RecordsOfThePast`). `RecordsTrue`, `RecordsOfTheServer` and `RecordsGetNewer`
follow: what the DHT says is true, every record names a span with its block, and news
only get newer, because `announce(OFFLINE)` joins the thread
before the next container is made.

`HandlerProofs`, on the queues of a session: `StepsAreAnsweredOnce` and
`QueuesStayConsistent`. A step may reach its handler several times, from the client
and from pushes that any handler forwards. Every copy, wherever it travels, is of a
step that began (`CopiesBegan`, `EventsRight`), at most one step has begun and is not
answered, and the owner remembers exactly the steps it applied (`Progress`), so a copy
that is not in `processed` is of the next step. A handler knows of no owner of a
session but the right one (`ViewsRight`), so no other one touches its queue.

`TaskPoolProofs`: `TasksStayConsistent` and `InferenceGoesFirst`. A task goes through
six places (`PlacesRight`: it is in exactly one of them once it was put), no queue
holds it twice (`QueuesRight`), the loader has a token of the pool it chose until it
takes the task (`LoaderRight`), and the Runtime knows every task it took
(`DispatchedRight`); a pool's tokens are then the tasks announced in its two queues.
For the action property `InferenceFirst`, `UrgencyInv` adds what a pool
advertises while others overwrite its two words: of what kind, not of which time.

`InferenceSessionProofs`: `HopsStayConsistent` and `TokensStayKept`. Within a step
the hops before the current one have taken in the chunk (`HopAfter`) and the others
have not; a hop that replaced another stands at position 0, or where the session
does with the same history (`HopBefore`). That the hops tile the blocks survives a
replacement because a new chain of hops covers what the failed ones did.

`ClientPartsProofs`, on a training step: `StepStaysConsistent`. A batch has four lists
of spans: the rest of its route, those behind it in the forward pass, those its backward pass
has yet to visit, and the pieces of one that failed. Each leads from one block to
another without a gap, and `BatchRight` says which two, at every place of a batch;
nothing is assumed of what the update thread publishes but that it is made of spans,
so stale routes and bans cannot matter.

`ServerPartsProofs`, on the disk cache: `FilesInUseAreKept`, if no shard is an adapter
or an index (`DiskAssumption`). Who has the exclusive lock has it alone
(`LocksApart`), so nobody reads while files are removed; and a shard of known size
that is being downloaded fits beside the others of known size (`RoomMade`), because
whatever set of files was removed, what remains of these shards is no more than what
remains of all files, adapters, indices and shards of unknown size included, which the
code counts when it frees space although it did not ask for theirs.

`HandlerProofs`, on the batched execution of a step:

* `ChainsAreWhole` (`BlockRequests`; `CallsAssumption`: the first block of a call is not
  after its last). Whatever is lost, refused, late or cut by a timeout, a reply that is
  accepted is what the whole chain computes, each block once and in order, backwards for
  the gradients; the exception, a forward call with fewer prompts than blocks, is in the
  statement.
  `HandlerRight` says what a request has computed at every place of its chain of tasks,
  `RequestRight` that nothing is answered before the end of it. The input of a block is
  defined by recursion over the chain; that such a function exists is shown by a least
  counterexample.
* `AnswersAreOfTheirPrefix` (`BlockCache`). For each layer and beam `CellRight` relates
  the cache to the history of the beam: the slots of the prefix hold the hidden states
  of that history, and a recurrent layer stands at the end of the prefix with the state
  these come to, or behind it, when the session went back and it has to replay. A chunk
  goes on from there (`Reached`), so chunks of any sizes come to what one pass would.
* `OneAngleDrifts` (`AttentionBlock`). `TableRight`: every angle of the table is that of
  its position, except at the position where Falcon's graph was captured;
  `CachesRight`: the rows of a cache are the heads of the streams in the layout of the
  session, rotated by their own angles but for that position; `OutputRight`: the last
  answer is of such rows. The conversions of layouts are inverse to one another
  because indices of rows and heads are quotients and remainders by the group size.

`ServerPartsProofs`, on the sizes and the choice of blocks:

* `SizesAreRight` (`CacheSizing`). What a server loads fits its memory together with its
  cache, sessions never owe more than the cache has, and an announced number of tokens
  was there: the quotients are rounded down, and a session of the announced length
  takes at most the bytes that were divided. `ModelAssumption` says what a model is: a
  layer has a known size, and the planner's table does not fall and reaches as far as
  the model or past `--max-disk-gb`.
* `DecisionsAreSound` (`Swarm`), the action property: a server that moves on a reading
  no other server has overtaken leaves no block without a server. The test of
  `should_choose_other_blocks` subtracts a little more than the server's own throughput
  from a sum over servers; it is exact nevertheless, because speeds are positive
  (`NobodyIsAlone`). `DecisionsHold` carries what it found to the moment the server
  leaves, since only another server's record could change it.

`ClientPartsProofs`, on what a client does with the swarm:

* `AnswersFollowGreedily` (`Generation`). Between calls the caches of the servers hold
  the soft prompt and all tokens of the session but the last (`SessionRight`); within
  one, a first step feeds what they lack (`FirstRight`) and each later one the last
  token, or a draft after it, of which what was not accepted is rolled back
  (`LaterRight`); so the answer goes on as the model would that reads every prefix
  anew (`AnswerRight`). `GenerationAssumption` is of types only: the model prefers a
  token of the vocabulary, prompts are sequences of tokens, and `max_new_tokens` and
  `pre_seq_len` are positive. The two conditions on speculative calls are in the
  statement itself, since the code needs both. That a resumed one goes wrong is the run
  `generation_resumed`. That a prompt with the ending token does was found by the proof: a
  draft that comes out short is filled up from the left with tokens of the sequence
  before it, so an ending token of the prompt can be accepted in the middle of a draft,
  where nobody looks for it, and the text runs on past it (prompt `<<0, 1>>`, ending
  token 0, a model that answers it with 0 and everything else with 1: the call returns 0
  and then 1). What has to hold at every place of a call under these conditions is
  `InScope`.
* `EachPromptRunsOnce` (`WorkloadDispatch`). `ChainRight` has two cases for a chain.
  Either all prompts handed to it were recorded (`Quiet`), or all but the last (`Busy`),
  which is in the pipe to the worker, with the worker, in the pipe back or gone with
  it, and is in flight until it is recorded or the main thread has reported it lost.
  `Shares` says that the queue and the chains hold every prompt once, which starts
  with the round-robin of the datasets being a permutation of the file
  (`InterleavedRight`). `DispatchAssumption`: there is a chain, and the prompts of a
  file differ, as the dispatcher demands.

What the named assumptions of the statements ask of the constants is what the code
enforces or takes for granted, and the checked instances satisfy them. Those worth
knowing: a peer has at least one place it may serve, and limits on retries are numbers
(`ManagerAssumption`, `AutogradAssumption`: hypotheses of the theorems on a training
step, which `MCClient` evaluates for its instance); each session of the allocator has,
among the devices, one where it takes the most bytes (`CacheAssumption` of
`MemoryCache`); a block has layers and beams (`CacheAssumption` of `HandlerProofs`);
the sizes of a block's tensors are positive (`AttentionAssumption`); servers are
finitely many, with a positive speed and no more blocks than the model
(`SwarmAssumption`); sizes are natural numbers and lengths of sessions positive
(`SizingAssumption`).

Only model-checked: all liveness (temporal reasoning under fairness is out of the
prover's reach); `CutsDoNotMatter` of `HybridBlock`, an identity between two forms of a
recurrence by sums of products over a triangular system, which would need an algebra of
matrices first; and `SimulationEnds` of `Swarm`, whose bound on the rounds is one of
the checked instance and no claim about every swarm.

## 6. Not modelled

Numerics: a tensor is abstracted to where it comes from, except in `HybridBlock`,
where small integers stand for the reals and a decay is a product of integers.
Quantisation, conversion of weights and measurements of a device; routes of mode
`min_latency` with the pings they are computed from, allow and block lists, spending
points; prompts in a training step; serialisation, compression and packing of
messages; relays and reachability; the command line; notebooks. hivemind and
transformers are external: the DHT keeps a record until it expires or is replaced,
pipes and queues deliver in order, the Runtime polls pools as `TaskPool` says,
`prepare_inputs_for_generation` crops by the length of the cache it is told. Real
time is left out: a timeout may pass at any point where the code waits under one.

Simplifications to know of: a forward, backward or inference call is not shown to end
(section 2); a training step has one batch in its run, so that others blocked on the
same loop do not show; simultaneous decisions to move are excluded from
`MovesKeepTheSwarmWhole` and only their healing is checked; the planner's
extrapolation beyond its table is outside the instance of `CacheSizing`; what adapters
take of the disk is bounded by nothing; and a prompt reported as lost may have been
recorded. Further, a server that is up and connected but never ends a
session (`inference_session.py:218`) does not occur, and the pipes to the Runtime are
large enough for every session (`cache_shared`) or drained by steps (`cache_single`).
`PROJECT.json` gives the reason for each part and for each hazard that no property
covers.

## 7. Plan

The modules of section 2 are built. What is left, in this order:

1. The identity of `HybridBlock`, with lemmas on sums and products over ranges, and a
   bound on the rounds of `Swarm`'s simulation that holds for every swarm.
2. The abstract specification of a session, steps applied once and in order, and
   that client and queues implement it.
3. Routes of mode `min_latency` and the ban list: a failed peer is not chosen while
   it is banned unless nothing else is left, which `on_request_failure`
   (`sequence_manager.py:388`) says and the spans do not follow.
