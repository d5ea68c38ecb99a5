------------------------------ MODULE MCHandler ------------------------------
(***************************************************************************)
(* What a server does with the calls of its clients, and the script that   *)
(* runs many clients: six small instances side by side, which share no     *)
(* state.  An initial state picks one of them, part, and a behaviour stays *)
(* in it; the others are off.  The handlers and their session queues are   *)
(* MCSessionQueues; the rest is                                            *)
(*   requests   two calls, of any method, whole or in parts, three blocks  *)
(*              each, with a prompt for each, with none, with too few or   *)
(*              too many, by an unknown adapter, beyond the blocks that    *)
(*              are served,                                                *)
(*   cache      a session of two beams over a linear and a softmax block,  *)
(*              attended in chunks,                                        *)
(*   hybrid     one linear and one softmax block of a hybrid model fed in  *)
(*              pieces of one to three tokens (two are a chunk),           *)
(*   attention  three sessions of two batch sizes on one block of each     *)
(*              family, two query heads per key head,                      *)
(*   dispatch   three prompts of two datasets over two chains, one of     *)
(*              which may die by itself, both by a signal.                 *)
(* Fairness is that of MCSessionQueues and WorkloadDispatch, asked of      *)
(* their parts.                                                            *)
(***************************************************************************)
EXTENDS MCSessionQueues

VARIABLES
  part,
  inferenceOnly, call, caller, received, work, pool, reply,     \* requests
  history, prefix, slots, state, position, answer, steps,       \* cache
  fed, recurrent, window, rotary, lastCall,                     \* hybrid
  family, table, graph, caches, output,                         \* attention
  queue, worker, stdin, closed, stdout, pump, inflight, ids, done, lost, reaped, report   \* dispatch

Call(m, f, p, a, n) ==
  [method |-> m, first |-> f, last |-> f + 2, prompts |-> p, adapter |-> a, parts |-> n]
MCCalls ==
  {Call("forward", 1, 3, "a", 2), Call("backward", 1, 3, "a", 2), Call("inference", 1, 3, "a", 1),
   Call("inference", 1, 0, "none", 2), Call("backward", 1, 0, "unknown", 1),
   Call("inference", 2, 3, "a", 1),
   Call("forward", 1, 2, "a", 1), Call("backward", 1, 2, "a", 1), Call("inference", 1, 4, "a", 1)}

RQ == INSTANCE BlockRequests WITH
  client <- caller, sent <- received,
  Requests <- {"r1", "r2"}, Calls <- MCCalls, Served <- {1, 2, 3}, Adapters <- {"a"}, MaxParts <- 2

CA == INSTANCE BlockCache WITH
  Beams <- {1, 2}, Orders <- {<<1, 2>>, <<2, 1>>, <<2, 2>>}, MaxLength <- 4, ChunkBudget <- 4,
  Layers <- <<"linear", "attention">>, MaxSteps <- 3

Token(q, k, v, b, d, t) == [q |-> q, k |-> k, v |-> v, beta |-> b, decay |-> d, top |-> t]
Token1 == Token(<<1, 2>>, <<1, -1>>, 3, 1, 2, <<<<1, 2>>, <<3, 1>>>>)
Token2 == Token(<<2, -1>>, <<2, 1>>, -1, 2, 1, <<<<3, 1>>, <<2, 2>>>>)

HY == INSTANCE HybridBlock WITH
  table <- rotary, call <- lastCall,
  Rows <- {Token1, Token2}, Batches <- {<<Token1>>, <<Token1, Token2, Token2>>}, Dims <- {1, 2},
  Kernel <- 2, ChunkSize <- 2, MinTable <- 2, MaxFeed <- 3, MaxTokens <- 4

MCBatch(s) == IF s = 2 THEN 2 ELSE 1

AT == INSTANCE AttentionBlock WITH
  answer <- output,
  Families <- {"bloom", "falcon", "llama", "mixtral", "qwen3_moe"}, Sessions <- {1, 2, 3},
  Batch <- MCBatch, KVHeads <- 2, Groups <- 2, TableLength <- 3, ChunkLength <- 1, MaxLength <- 4,
  Feeds <- {1, 3}

MCDatasetOf(p) == IF p \in {"p1", "p2"} THEN "a" ELSE "b"

DI == INSTANCE WorkloadDispatch WITH
  ChainOrder <- <<"A", "B">>, Prompts <- <<"p1", "p2", "p3">>, Datasets <- <<"a", "b">>,
  DatasetOf <- MCDatasetOf, MaxDeaths <- 1

requestVars == <<inferenceOnly, call, caller, received, work, pool, reply>>
cacheVars == <<history, prefix, slots, state, position, answer, steps>>
hybridVars == <<fed, recurrent, window, rotary, lastCall>>
attentionVars == <<family, table, graph, caches, output>>
dispatchVars == <<queue, worker, stdin, closed, stdout, pump, inflight, ids, done, lost, reaped, report>>
everything == <<part, vars, requestVars, cacheVars, hybridVars, attentionVars, dispatchVars>>

RequestsOff ==
  /\ inferenceOnly = 0 /\ call = 0 /\ caller = 0 /\ received = 0 /\ work = 0 /\ pool = 0 /\ reply = 0
CacheOff ==
  /\ history = 0 /\ prefix = 0 /\ slots = 0 /\ state = 0 /\ position = 0 /\ answer = 0 /\ steps = 0
HybridOff == fed = 0 /\ recurrent = 0 /\ window = 0 /\ rotary = 0 /\ lastCall = 0
AttentionOff == family = 0 /\ table = 0 /\ graph = 0 /\ caches = 0 /\ output = 0
DispatchOff ==
  /\ queue = 0 /\ worker = 0 /\ stdin = 0 /\ closed = 0 /\ stdout = 0 /\ pump = 0
  /\ inflight = 0 /\ ids = 0 /\ done = 0 /\ lost = 0 /\ reaped = 0 /\ report = 0

MCInit ==
  /\ part \in {"sessions", "requests", "cache", "hybrid", "attention", "dispatch"}
  /\ Init
  /\ IF part = "requests" THEN RQ!InitRequests ELSE RequestsOff
  /\ IF part = "cache" THEN CA!InitCache ELSE CacheOff
  /\ IF part = "hybrid" THEN HY!InitBlock ELSE HybridOff
  /\ IF part = "attention" THEN AT!InitAttention ELSE AttentionOff
  /\ IF part = "dispatch" THEN DI!InitDispatch ELSE DispatchOff

MCNext ==
  /\ UNCHANGED part
  /\ IF part = "sessions" THEN Next ELSE UNCHANGED vars
  /\ IF part = "requests" THEN RQ!NextRequests ELSE UNCHANGED requestVars
  /\ IF part = "cache" THEN CA!NextCache ELSE UNCHANGED cacheVars
  /\ IF part = "hybrid" THEN HY!NextBlock ELSE UNCHANGED hybridVars
  /\ IF part = "attention" THEN AT!NextAttention ELSE UNCHANGED attentionVars
  /\ IF part = "dispatch" THEN DI!NextDispatch ELSE UNCHANGED dispatchVars

MCFairness ==
  /\ \A s \in Sessions : WF_vars(part = "sessions" /\ Serve(s))
  /\ \A h \in Handlers : WF_vars(part = "sessions" /\ Listen(h))
  /\ \A c \in {"A", "B"} :
       /\ WF_dispatchVars(part = "dispatch" /\ DI!WorkerReady(c))
       /\ WF_dispatchVars(part = "dispatch" /\ DI!WorkerReads(c))
       /\ WF_dispatchVars(part = "dispatch" /\ DI!WorkerRecords(c))
       /\ WF_dispatchVars(part = "dispatch" /\ DI!Pump(c))
  /\ WF_dispatchVars(part = "dispatch" /\ DI!Reap)
  /\ WF_dispatchVars(part = "dispatch" /\ DI!Report)

MCSpec == MCInit /\ [][MCNext]_everything /\ MCFairness

-----------------------------------------------------------------------------
\* Properties of the parts beside MCSessionQueues.

\* BlockRequests: an answer of rpc_forward, rpc_backward or an inference step is what the blocks
\* it named compute, in order, whole and under its adapter, but for a forward call with too few prompts.
AnswersAreTheWholeChain == part = "requests" => RQ!AnswersAreTheWholeChain

\* BlockCache: no block of a step reads a stale position, another beam or unwritten memory.
AnswersSeeTheirPrefix == part = "cache" => CA!AnswersSeeTheirPrefix

\* HybridBlock: the cuts of a session into calls do not change its outputs or its state.
CutsDoNotMatter == part = "hybrid" => HY!CutsDoNotMatter

\* AttentionBlock: the layouts keep rows and heads apart, and the angles are right but for those a
\* replay of Falcon's graph overwrites.
OnlyTheCapturedPositionDrifts == part = "attention" => AT!OnlyTheCapturedPositionDrifts

\* WorkloadDispatch: every prompt runs exactly once, on one chain, or is reported as lost.
EveryPromptOnce == part = "dispatch" => DI!EveryPromptOnce

\* WorkloadDispatch: the dispatcher comes to its report, whichever workers die.
DispatchEnds == <>(part = "dispatch" => report # "none")
=============================================================================
