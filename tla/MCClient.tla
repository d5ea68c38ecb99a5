------------------------------- MODULE MCClient -------------------------------
(***************************************************************************)
(* What a client does with a swarm: three small instances side by side,    *)
(* which share no state.  An initial state picks one of them, part, and a  *)
(* behaviour stays in it; the others are off.  The inference session is    *)
(* MCInferenceSession; the rest is                                         *)
(*   generation  three calls in sessions of nine positions, two of them   *)
(*               soft prompts of a tuned model, greedy or speculative, by  *)
(*               a model of three tokens whose choice depends on all       *)
(*               tokens and their order,                                   *)
(*   training    one batch over three blocks: p serves the first two, q    *)
(*               the last two, and r one block at either end, so that it   *)
(*               may come back on the other side of a block it never had.  *)
(* Fairness is that of each part, asked of the part that runs.             *)
(***************************************************************************)
EXTENDS MCInferenceSession, SequencesExt

CONSTANTS NoPeer, Down   \* training

VARIABLES
  part,
  model, cached, length, output, skip, gen, last, calls,                 \* generation
  tServes, dht, tFaults, tBanned, infos, known, thread, got, ready, trigger, tRetries, at, tBlock, goal, feed,
  tAttempt, sequences, hop, done, tInputs, spans, saved, span, given, grad, tries        \* training

MCBig(s) == (7 * Len(s) + FoldLeft(LAMBDA sum, x : 2 * sum + x, 0, s) + 16) % 3

GE == INSTANCE Generation WITH
  position <- length,
  Big <- MCBig, Tokens <- {0, 1, 2}, Eos <- 0, Inputs <- {<<1>>, <<2, 1>>, <<0, 2>>}, NewTokens <- {1, 3},
  MaxLength <- 9, PreSeqLen <- 2, DraftSize <- 3, MaxCalls <- 3

TrainingPeers == {"p", "q", "r"}
From(i, j) == [start |-> i, end |-> j]
TrainingPlacements == [p |-> {From(0, 2)}, q |-> {From(1, 3)}, r |-> {From(0, 1), From(2, 3)}]
OneBatch == {"b1"}
TrainingLimits == {0, 2}

SA == INSTANCE SequentialAutograd WITH
  serves <- tServes, faults <- tFaults, banned <- tBanned, retries <- tRetries, block <- tBlock,
  attempt <- tAttempt, inputs <- tInputs,
  Peers <- TrainingPeers, Placements <- TrainingPlacements, Batches <- OneBatch, NumBlocks <- 3,
  MaxFaults <- 1, RetryLimits <- TrainingLimits

\* What ClientPartsProofs assumes of the constants of a training step.
ASSUME TrainingAssumption == SA!ManagerAssumption /\ SA!AutogradAssumption

genVars == <<model, cached, length, output, skip, gen, last, calls>>
stepVars == <<tRetries, at, tBlock, goal, feed, tAttempt, sequences, hop, done, tInputs,
              spans, saved, span, given, grad, tries>>
trainingVars == <<tServes, dht, tFaults, tBanned, infos, known, thread, got, ready, trigger, stepVars>>
everything == <<part, vars, genVars, trainingVars>>

GenerationOff ==
  /\ model = 0 /\ cached = 0 /\ length = 0 /\ output = 0 /\ skip = 0 /\ gen = 0 /\ last = 0 /\ calls = 0
TrainingOff ==
  /\ tServes = 0 /\ dht = 0 /\ tFaults = 0 /\ tBanned = 0 /\ infos = 0 /\ known = 0 /\ thread = 0 /\ got = 0
  /\ ready = 0 /\ trigger = 0 /\ tRetries = 0 /\ at = 0 /\ tBlock = 0 /\ goal = 0 /\ feed = 0 /\ tAttempt = 0
  /\ sequences = 0 /\ hop = 0 /\ done = 0 /\ tInputs = 0 /\ spans = 0 /\ saved = 0 /\ span = 0 /\ given = 0
  /\ grad = 0 /\ tries = 0

MCInit ==
  /\ Init
  /\ part \in IF retries = 0 THEN {"session", "generation", "training"} ELSE {"session"}
  /\ IF part = "generation" THEN GE!InitGeneration ELSE GenerationOff
  /\ IF part = "training" THEN SA!Init ELSE TrainingOff

MCNext ==
  /\ UNCHANGED part
  /\ IF part = "session" THEN Next ELSE UNCHANGED vars
  /\ IF part = "generation" THEN GE!NextGeneration ELSE UNCHANGED genVars
  /\ IF part = "training" THEN SA!Next ELSE UNCHANGED trainingVars

MCFairness ==
  /\ WF_vars(part = "session" /\ Attempt)
  /\ \A x \in Peers : WF_vars(part = "session" /\ Restart(x))
  /\ WF_trainingVars(part = "training" /\ SA!Thread /\ UNCHANGED stepVars)
  /\ \A x \in TrainingPeers :
       /\ WF_trainingVars(part = "training" /\ SA!Swarm(x) /\ UNCHANGED stepVars)
       /\ WF_trainingVars(part = "training" /\ SA!Unban(x) /\ UNCHANGED stepVars)
  /\ WF_trainingVars(part = "training" /\ SA!Forward("b1"))
  /\ WF_trainingVars(part = "training" /\ SA!Backward("b1"))

MCSpec == MCInit /\ [][MCNext]_everything /\ MCFairness

-----------------------------------------------------------------------------
\* Properties of the parts beside MCInferenceSession.

\* Generation: the answer to a call is its input and what greedy generation gives after all tokens of
\* the session, whatever was generated before and whatever a small model drafts.
AnswersAreGreedy == part = "generation" => GE!AnswersAreGreedy

\* Generation: what the docstring of RemoteGenerationMixin says of calls that share a session.
ResumedAnswersAreGreedy == part = "generation" => GE!ResumedAnswersAreGreedy

\* SequentialAutograd: the lists a training step keeps apply every block once, whatever the routes
\* and however a span that failed is split.
StepConsistent == part = "training" => SA!StepConsistent

\* SequentialAutograd: without a limit on retries, a forward or backward pass that has begun ends.
StepEnds ==
  (part = "training" /\ tRetries = 0 /\ at["b1"] \in {"forward", "begun"}) ~>
    (part = "training" => at["b1"] \in {"between", "finished"})
=============================================================================
