----------------------------- MODULE Generation -----------------------------
(***************************************************************************)
(* Generation over an inference session: RemoteGenerationMixin.generate    *)
(* (src/petals/client/remote_generation.py), speculative generation        *)
(* (models/llama/speculative_model.py) and DistributedLlamaModel.forward   *)
(* (models/llama/model.py) with its soft prompts (client/ptune.py).        *)
(*                                                                         *)
(* Three things must agree on how many tokens the servers have seen: the   *)
(* position of the session, output_ids, which several calls of .generate() *)
(* in one session share, and the counter RemotePastKeyValues keeps for     *)
(* transformers.                                                           *)
(***************************************************************************)
EXTENDS Integers, Sequences, FiniteSetsExt, SequencesExt

CONSTANTS
  Big(_),       \* the next token the model of the swarm prefers after some tokens
  Tokens, Eos,  \* the vocabulary; Eos ends a sequence
  Inputs,       \* what a user may give to a call
  NewTokens,    \* the values of max_new_tokens
  MaxLength,    \* max_length of a session
  PreSeqLen,    \* pre_seq_len of a tuned model
  DraftSize,    \* speculative_inference_iteration_size
  MaxCalls      \* bound on the calls

Soft == -1            \* an embedding of the soft prompt, no token

VARIABLES
  model,     \* how the model generates, and whether it has soft prompts
  cached,    \* what the attention caches of the servers hold
  position,  \* InferenceSession._position
  output,    \* session.output_ids; <<>> for None
  skip,      \* _skipped_tokens: a context variable, it outlives a session
  gen,       \* the call being made
  last,      \* the last answer, and what it answers
  calls      \* the calls made so far

genVars == <<model, cached, position, output, skip, gen, last, calls>>

NoCall == [phase |-> "idle", ids |-> <<>>, new |-> <<>>, n |-> 0, first |-> FALSE, size |-> 0]
NoAnswer == [from |-> <<>>, n |-> 0, new |-> <<>>, got |-> <<>>]

InitGeneration ==
  /\ model \in {[mode |-> "plain", tuned |-> t] : t \in BOOLEAN}
               \cup {[mode |-> "speculative", tuned |-> FALSE]}
  /\ cached = <<>> /\ position = 0 /\ output = <<>>
  /\ skip = 0
  /\ gen = NoCall
  /\ last = NoAnswer
  /\ calls = 0

Final(n, s) == SubSeq(s, Len(s) - n + 1, Len(s))
But(n, s) == SubSeq(s, n + 1, Len(s))      \* s[:, n:]

-----------------------------------------------------------------------------
(* DistributedLlamaModel.forward and InferenceSession.step.                *)

\* The soft prompts go before the first tokens of a session.
Embedded(start, x) ==
  IF model.tuned /\ start = 0 THEN [i \in 1..PreSeqLen |-> Soft] \o x ELSE x

Fits(start, x) == start <= position /\ start + Len(Embedded(start, x)) <= MaxLength

\* The caches after the tokens x were run from position `start`.
CachedAfter(start, x) == SubSeq(cached, 1, start) \o Embedded(start, x)

\* What the model prefers after the last k positions of the cache, in order.
Preferred(k, cache) == [i \in 1..k |-> Big(SubSeq(cache, 1, Len(cache) - k + i))]

-----------------------------------------------------------------------------
(* The tokens a call runs first.  transformers computes how many tokens    *)
(* its cache has not seen; if the ids it gets back from                    *)
(* prepare_inputs_for_generation are not that many, it takes those that    *)
(* are at the unseen positions, which raises when there are none.          *)

\* Mutant of FirstInput: all previous tokens are skipped.
FirstInputSkippingAll(ids, skipped, seen) ==
  LET cropped == But(IF skipped > 0 THEN skipped + 1 ELSE 0, ids)
  IN  [ok |-> cropped # <<>>, x |-> cropped]

FirstInput(ids, skipped, seen) ==
  LET cropped == But(skipped, ids)
  IN  IF Len(cropped) = Len(ids) - seen THEN [ok |-> TRUE, x |-> cropped]
      ELSE [ok |-> seen < Len(ids) /\ skipped = 0, x |-> But(seen, ids)]

\* .generate(): the tokens of the calls before go before the new ones.
Generate(new, n) ==
  LET ids == output \o new
  IN  /\ gen.phase = "idle" /\ calls < MaxCalls
      /\ ids # <<>>
      /\ gen' = [phase |-> "running", ids |-> ids, new |-> new, n |-> n, first |-> TRUE,
                 size |-> DraftSize]
      /\ skip' = IF output # <<>> THEN Max({0, Len(output) - 1}) ELSE skip
      /\ calls' = calls + 1
      /\ UNCHANGED <<model, cached, position, output, last>>

Longer(ids) ==
  IF Len(ids) >= Len(output) + Len(gen.new) + gen.n \/ Last(ids) = Eos THEN "stopped" ELSE "running"

\* One token of greedy generation.
Decode ==
  LET input == IF gen.first THEN FirstInput(gen.ids, skip, position)
               ELSE [ok |-> TRUE, x |-> Final(1, gen.ids)]
      ids == Append(gen.ids, Preferred(1, cached')[1])
  IN  /\ gen.phase = "running" /\ model.mode = "plain"
      /\ input.ok /\ Fits(position, input.x)
      /\ cached' = CachedAfter(position, input.x)
      /\ position' = Len(cached')
      /\ skip' = IF gen.first THEN 0 ELSE skip
      /\ gen' = [gen EXCEPT !.ids = ids, !.first = FALSE, !.phase = Longer(ids)]
      /\ UNCHANGED <<model, output, last, calls>>

-----------------------------------------------------------------------------
(* Speculative generation: a small model drafts some tokens, the swarm     *)
(* runs them at once.                                                      *)

Size == Min({gen.size, MaxLength - Len(gen.ids)})

\* A small model stops at Eos.
Drafts(k) ==
  {d \in UNION {[1..m -> Tokens] : m \in 1..k} :
     /\ \A i \in 1..(Len(d) - 1) : d[i] # Eos
     /\ Len(d) = k \/ Last(d) = Eos}

\* Where the session must go on from: the last token it accepted was not run.  The
\* first step of a call is left where the session is, be it a used one.
Rewound == IF gen.first THEN position ELSE Len(gen.ids) - 1

\* The first step of a call feeds all its tokens, those of the calls before too.
ToValidate(k, full) == SubSeq(full, IF gen.first THEN 1 ELSE Len(full) - k, Len(full) - 1)

\* Mutant of AcceptedTokens: the token after the first wrong one is kept.
AcceptedTokensAndOne(draft, preferred) ==
  LET right == Max({m \in 0..Len(draft) : \A i \in 1..m : draft[i] = preferred[i]})
  IN  SubSeq(draft, 1, Min({right + 1, Len(draft)}))

\* The drafted tokens up to the first one the swarm does not prefer; if that is
\* the first of all, the preferred token instead.
AcceptedTokens(draft, preferred) ==
  LET right == Max({m \in 0..Len(draft) : \A i \in 1..m : draft[i] = preferred[i]})
  IN  IF right = 0 THEN <<preferred[1]>> ELSE SubSeq(draft, 1, right)

Speculate(draft) ==
  LET k == Size
      tail == Final(k, gen.ids \o draft)   \* a short draft is filled up from the left
      x == ToValidate(k, gen.ids \o tail)
      ids == gen.ids \o AcceptedTokens(tail, Preferred(k, cached'))
  IN  /\ Len(gen.ids \o draft) >= k   \* or the assertion on full_sequence fails
      /\ Fits(Rewound, x)
      /\ cached' = CachedAfter(Rewound, x)
      /\ position' = Len(cached')
      /\ gen' = [gen EXCEPT !.ids = ids, !.first = FALSE, !.size = k, !.phase = Longer(ids)]
      /\ UNCHANGED <<model, output, skip, last, calls>>

-----------------------------------------------------------------------------

\* The call returns: its tokens are kept for the next call, those of the calls
\* before are cropped from the answer.
Return ==
  /\ gen.phase = "stopped"
  /\ output' = gen.ids
  /\ last' = [from |-> output, n |-> gen.n, new |-> gen.new, got |-> But(Len(output), gen.ids)]
  /\ gen' = NoCall
  /\ UNCHANGED <<model, cached, position, skip, calls>>

\* Anything may raise, the checks of transformers before the first step
\* included; the exception leaves the block that opened the session.  output_ids
\* were not updated, the context variable is not reset.
Raise ==
  /\ gen.phase = "running"
  /\ gen' = [NoCall EXCEPT !.phase = "closed"]
  /\ UNCHANGED <<model, cached, position, output, skip, last, calls>>

\* The user opens another session.
NewSession ==
  /\ gen.phase = "closed" \/ (gen.phase = "idle" /\ output # <<>>)
  /\ cached' = <<>> /\ position' = 0 /\ output' = <<>>
  /\ gen' = NoCall
  /\ UNCHANGED <<model, skip, last, calls>>

NextGeneration ==
  \/ \E new \in Inputs \cup {<<>>}, n \in NewTokens : Generate(new, n)
  \/ Decode
  \/ gen.phase = "running" /\ model.mode = "speculative" /\ \E d \in Drafts(Size) : Speculate(d)
  \/ Return \/ Raise \/ NewSession

SpecGeneration == InitGeneration /\ [][NextGeneration]_genVars

-----------------------------------------------------------------------------

SoftPrompt == IF model.tuned THEN [i \in 1..PreSeqLen |-> Soft] ELSE <<>>

\* n tokens of greedy generation after ids by a model that runs every prefix anew.
Greedy(ids, n) ==
  LET upTo[k \in 0..n] ==
        IF k = 0 THEN ids
        ELSE IF k > 1 /\ Last(upTo[k - 1]) = Eos THEN upTo[k - 1]
        ELSE Append(upTo[k - 1], Big(SoftPrompt \o upTo[k - 1]))
  IN  upTo[n]

NoEos(s) == \A i \in DOMAIN s : s[i] # Eos

\* The last answer is its input followed by the tokens greedy generation gives after
\* all tokens of the session: max_new_tokens of them or up to Eos.  A speculative
\* call looks at how many it has between two iterations, and may return more.
FollowsGreedily ==
  LET extra == Len(last.got) - Len(last.new) - last.n
      n == IF model.mode = "speculative" /\ extra > 0 THEN last.n + extra ELSE last.n
  IN  last.got = But(Len(last.from), Greedy(last.from \o last.new, n))

(***************************************************************************)
(* The answer to a call follows greedily: in plain generation whatever the *)
(* session has seen before, with Eos among it or not; in speculative       *)
(* generation whatever a small model drafts, for the first call of a       *)
(* session and a prompt without Eos, which a short draft may take over     *)
(* from the prompt (speculative_model.py:54).  A model with soft prompts   *)
(* answers only the first call of a session: its positions are ahead of    *)
(* its tokens, and a call that resumes raises.                             *)
(***************************************************************************)
AnswersAreGreedy ==
  /\ (model.mode = "speculative" => last.from = <<>> /\ NoEos(last.new)) => FollowsGreedily
  /\ model.tuned => last.from = <<>>

(***************************************************************************)
(* What the docstring of RemoteGenerationMixin says of every model:        *)
(* several calls of .generate() may share a session                        *)
(* (remote_generation.py:63).  A call that resumes one is answered by what *)
(* greedy generation gives after all tokens of the session, none of which  *)
(* is Eos here.                                                            *)
(***************************************************************************)
ResumedAnswersAreGreedy ==
  last.from # <<>> /\ NoEos(last.from \o last.new) => FollowsGreedily
=============================================================================
