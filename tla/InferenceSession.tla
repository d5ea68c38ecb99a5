-------------------------- MODULE InferenceSession --------------------------
(***************************************************************************)
(* petals.client.inference_session: one generation, as its client sees it. *)
(* An InferenceSession keeps one _ServerInferenceSession per hop of a      *)
(* route; a step sends its tokens through the hops in order.  When a hop   *)
(* fails, _update_sequence closes it, asks the sequence manager for a new  *)
(* route between the blocks it covered, splices the new hops in its place  *)
(* and hands the first of them the history of inputs, from which the new   *)
(* server is to rebuild its attention cache.                               *)
(*                                                                         *)
(* A hidden state is identified with the token it was computed from: what  *)
(* matters is which tokens, at which positions, a cache was filled with.   *)
(* A history of None is the empty sequence.  The direct server-to-server   *)
(* links (next_session) are left out: the client never sends them, because *)
(* _position is never None.  Callers leave the session after an exception, *)
(* as a with block does.                                                   *)
(***************************************************************************)
EXTENDS Integers, FiniteSets, SequencesExt

CONSTANTS
  Peers,        \* servers
  Serves,       \* Serves[p]: [start, end) of the blocks p serves
  NumBlocks,    \* blocks of the model
  Tokens,       \* tokens a caller may feed
  Chunks,       \* what one call of step may feed: sequences of tokens
  MaxLength,    \* max_length of the session
  RetryLimits,  \* possible values of config.max_retries; 0 stands for None
  MaxFaults,    \* bound: crashes, lost messages and servers that give up
  Garbage       \* a cache slot that was never written

ASSUME SessionAssumption ==
  /\ NumBlocks \in Nat \ {0} /\ MaxLength \in Nat /\ MaxFaults \in Nat
  /\ Serves \in [Peers -> [start : 0 .. NumBlocks - 1, end : 1 .. NumBlocks]]
  /\ \A p \in Peers : Serves[p].start < Serves[p].end
  /\ Chunks \subseteq Seq(Tokens)
  /\ RetryLimits \subseteq Nat
  /\ Garbage \notin Tokens

VARIABLES
  phase,     \* "idle", inside step: "route" or "send", after it: "raised" or "closed"
  position,  \* InferenceSession._position
  sessions,  \* _server_sessions, each with the server's side of it
  server,    \* server_idx, from 1
  block,     \* block_idx
  attempt,   \* attempt_no, which without a limit only matters as 0 or not
  inputs,    \* inputs: what the next hop is given
  chunk,     \* the argument of the step
  retries,   \* config.max_retries
  accepted,  \* history variable: the tokens the caller has fed and kept
  up,        \* servers that run
  faults     \* faults so far

vars == <<phase, position, sessions, server, block, attempt, inputs, chunk,
          retries, accepted, up, faults>>

\* A server-side cache: the slots that the session's max_length reserves.
Caches == [1 .. MaxLength -> Tokens \cup {Garbage}]
EmptyCache == [i \in 1 .. MaxLength |-> Garbage]

\* Mutant of Written: the server appends to what it holds.
WrittenAtEnd(cache, from, seq) ==
  LET held == Cardinality({i \in DOMAIN cache : cache[i] # Garbage}) IN
  [i \in DOMAIN cache |-> IF i - held \in DOMAIN seq THEN seq[i - held] ELSE cache[i]]

\* iterate_rpc_inference: a chunk is written from start_from_position on.
Written(cache, from, seq) ==
  [i \in DOMAIN cache |-> IF i - from \in DOMAIN seq THEN seq[i - from] ELSE cache[i]]

\* make_sequence: hops that follow one another from b to e.  A hop runs to the
\* end of its server's blocks, so the last one may run past e.
Hops == {h \in [peer : Peers, start : 0 .. NumBlocks - 1, end : 1 .. NumBlocks] :
           /\ Serves[h.peer].start <= h.start /\ h.start < Serves[h.peer].end
           /\ h.end = Serves[h.peer].end}
Chained(r) == \A i \in 1 .. Len(r) - 1 : r[i].end = r[i + 1].start
AllRoutes == {r \in BoundedSeq(Hops, NumBlocks) : r # <<>> /\ Chained(r)}
Routes(b, e) == {r \in AllRoutes : r[1].start = b /\ Last(r).start < e /\ e <= Last(r).end}

\* _ServerInferenceSession.create; served is the server's side of the session:
\* FALSE once its handler is gone.
NewSession(hop) ==
  [peer |-> hop.peer, start |-> hop.start, end |-> hop.end, position |-> 0,
   history |-> <<>>, stepped |-> FALSE, served |-> TRUE, cache |-> EmptyCache]

Init ==
  /\ phase = "idle" /\ position = 0 /\ sessions = <<>>
  /\ server = 1 /\ block = 0 /\ attempt = 0 /\ inputs = <<>> /\ chunk = <<>>
  /\ retries \in RetryLimits
  /\ accepted = <<>>
  /\ up = Peers /\ faults = 0

-----------------------------------------------------------------------------
\* The caller.

\* Mutant of BeginStep: the check of max_length is gone.
BeginStepUnchecked(c) ==
  /\ phase = "idle"
  /\ chunk' = c /\ inputs' = c
  /\ server' = 1 /\ block' = 0 /\ attempt' = 0
  /\ phase' = IF sessions = <<>> THEN "route" ELSE "send"
  /\ UNCHANGED <<position, sessions, retries, accepted, up, faults>>

\* step up to the first attempt.
BeginStep(c) ==
  /\ phase = "idle"
  /\ position + Len(c) <= MaxLength
  /\ chunk' = c /\ inputs' = c
  /\ server' = 1 /\ block' = 0 /\ attempt' = 0
  /\ phase' = IF sessions = <<>> THEN "route" ELSE "send"
  /\ UNCHANGED <<position, sessions, retries, accepted, up, faults>>

Truncated(history, k) == IF Len(history) >= k THEN SubSeq(history, 1, k) ELSE history

\* Mutant of Rollback: only the last hop's history is cut.
RollbackOneHop(k) ==
  /\ phase = "idle" /\ k < position
  /\ position' = k
  /\ sessions' = [i \in DOMAIN sessions |->
       [sessions[i] EXCEPT !.position = k,
          !.history = IF i = Len(sessions) THEN Truncated(@, k) ELSE @]]
  /\ accepted' = SubSeq(accepted, 1, k)
  /\ UNCHANGED <<phase, server, block, attempt, inputs, chunk, retries, up, faults>>

\* The position setter: a caller (speculative decoding) drops its last tokens.
Rollback(k) ==
  /\ phase = "idle"
  /\ k < position
  /\ position' = k
  /\ sessions' = [i \in DOMAIN sessions |->
       [sessions[i] EXCEPT !.position = k, !.history = Truncated(@, k)]]
  /\ accepted' = SubSeq(accepted, 1, k)
  /\ UNCHANGED <<phase, server, block, attempt, inputs, chunk, retries, up, faults>>

Close ==
  /\ phase \in {"idle", "raised"}
  /\ phase' = "closed"
  /\ sessions' = <<>>
  /\ UNCHANGED <<position, server, block, attempt, inputs, chunk, retries, accepted, up, faults>>

-----------------------------------------------------------------------------
\* The attempts of a step.

\* Mutant of Fail: a hop that failed is tried again as it is.
FailInPlace ==
  IF attempt + 1 = retries
    THEN phase' = "raised" /\ UNCHANGED attempt
    ELSE /\ phase' = IF sessions = <<>> THEN "route" ELSE "send"
         /\ attempt' = IF retries = 0 THEN 1 ELSE attempt + 1

\* An attempt has raised: give up at max_retries, or try again on a new route.
Fail ==
  IF attempt + 1 = retries
    THEN phase' = "raised" /\ UNCHANGED attempt
    ELSE phase' = "route" /\ attempt' = IF retries = 0 THEN 1 ELSE attempt + 1

Failed == server <= Len(sessions)
UpdateEnd == IF Failed THEN sessions[server].end ELSE NumBlocks

\* _update_sequence opens by closing the hop that failed.
Closed(ss) ==
  [i \in DOMAIN ss |-> IF i = server THEN [ss[i] EXCEPT !.served = FALSE] ELSE ss[i]]

\* min(updated_spans[-1].end, update_end)
Cut(r) == [i \in DOMAIN r |-> IF i = Len(r) THEN [r[i] EXCEPT !.end = UpdateEnd] ELSE r[i]]

Opened(r) ==
  [i \in DOMAIN r |->
     IF i = 1 /\ Failed THEN [NewSession(r[i]) EXCEPT !.history = sessions[server].history]
                        ELSE NewSession(r[i])]

Splice(new) == SubSeq(sessions, 1, server - 1) \o new \o SubSeq(sessions, server + 1, Len(sessions))

\* Mutant of Reroute: make_sequence "could return a longer sequence" is forgotten.
RerouteUncut(r) ==
  /\ phase = "route"
  /\ r \in Routes(block, UpdateEnd) /\ \A i \in DOMAIN r : r[i].peer \in up
  /\ sessions' = Splice(Opened(r))
  /\ phase' = "send"
  /\ UNCHANGED <<position, server, block, attempt, inputs, chunk, retries, accepted, up, faults>>

\* _update_sequence reaches every server of the route it was given.
Reroute(r) ==
  /\ phase = "route"
  /\ r \in Routes(block, UpdateEnd)
  /\ \A i \in DOMAIN r : r[i].peer \in up
  /\ sessions' = Splice(Opened(Cut(r)))
  /\ phase' = "send"
  /\ UNCHANGED <<position, server, block, attempt, inputs, chunk, retries, accepted, up, faults>>

\* There is no route, or a connection of it fails: the sessions opened so far are
\* closed again, the failed hop stays in its place.
RerouteFails ==
  /\ phase = "route"
  /\ \/ Routes(block, UpdateEnd) = {}
     \/ \E r \in Routes(block, UpdateEnd) : \E i \in DOMAIN r : r[i].peer \notin up
  /\ sessions' = Closed(sessions)
  /\ Fail
  /\ UNCHANGED <<position, server, block, inputs, chunk, retries, accepted, up, faults>>

Current == sessions[server]

\* The history after this attempt's inputs are added to it.
Extended ==
  IF Len(Current.history) = Current.position THEN Current.history \o inputs ELSE Current.history

\* A new server is sent the whole history, a known one the new tokens.
Message == IF Current.stepped THEN inputs ELSE Extended

PositionHolds == Current.position = position
HistoryHolds == Len(Extended) = Current.position + Len(inputs)

\* One of the two assertions before the request is sent fails.  The first leaves
\* the session alone, the second has changed its history already.
SendRefused ==
  /\ phase = "send"
  /\ ~(PositionHolds /\ HistoryHolds)
  /\ sessions' = IF PositionHolds THEN [sessions EXCEPT ![server].history = Extended] ELSE sessions
  /\ Fail
  /\ UNCHANGED <<position, server, block, inputs, chunk, retries, accepted, up, faults>>

Served == Current.peer \in up /\ Current.served

\* The end of the loop over hops: the last answer ends the step.
Advance ==
  /\ server' = server + 1 /\ block' = Current.end /\ attempt' = 0
  /\ inputs' = Message
  /\ IF Current.end < NumBlocks
       THEN phase' = "send" /\ UNCHANGED <<position, accepted>>
       ELSE /\ phase' = "idle"
            /\ position' = position + Len(chunk)
            /\ accepted' = accepted \o chunk

\* Mutant of Answered: the hop's own position is not advanced.
AnsweredInPlace ==
  /\ phase = "send" /\ PositionHolds /\ HistoryHolds /\ Served
  /\ sessions' = [sessions EXCEPT ![server] =
       [Current EXCEPT !.history = Extended, !.stepped = TRUE,
                       !.cache = Written(@, Current.position, Message)]]
  /\ Advance
  /\ UNCHANGED <<chunk, retries, up, faults>>

\* The server processes the request and the answer arrives.
Answered ==
  /\ phase = "send" /\ PositionHolds /\ HistoryHolds
  /\ Served
  /\ sessions' = [sessions EXCEPT ![server] =
       [Current EXCEPT !.history = Extended, !.stepped = TRUE,
                       !.cache = Written(@, Current.position, Message),
                       !.position = @ + Len(inputs)]]
  /\ Advance
  /\ UNCHANGED <<chunk, retries, up, faults>>

\* The request is lost, the server refuses it, or it is gone.
Lost ==
  /\ phase = "send" /\ PositionHolds /\ HistoryHolds
  /\ IF Served THEN faults < MaxFaults /\ faults' = faults + 1 ELSE UNCHANGED faults
  /\ sessions' = [sessions EXCEPT ![server] = [Current EXCEPT !.history = Extended, !.stepped = TRUE]]
  /\ Fail
  /\ UNCHANGED <<position, server, block, inputs, chunk, retries, accepted, up>>

\* The server processes the request but request_timeout passes first.
AnswerLost ==
  /\ phase = "send" /\ PositionHolds /\ HistoryHolds
  /\ Served /\ faults < MaxFaults
  /\ faults' = faults + 1
  /\ sessions' = [sessions EXCEPT ![server] =
       [Current EXCEPT !.history = Extended, !.stepped = TRUE,
                       !.cache = Written(@, Current.position, Message)]]
  /\ Fail
  /\ UNCHANGED <<position, server, block, inputs, chunk, retries, accepted, up>>

-----------------------------------------------------------------------------
\* The servers.

\* A server stops, and with it its side of every session.
Crash(p) ==
  /\ p \in up /\ faults < MaxFaults
  /\ faults' = faults + 1
  /\ up' = up \ {p}
  /\ sessions' = [i \in DOMAIN sessions |->
       IF sessions[i].peer = p THEN [sessions[i] EXCEPT !.served = FALSE] ELSE sessions[i]]
  /\ UNCHANGED <<phase, position, server, block, attempt, inputs, chunk, retries, accepted>>

Restart(p) ==
  /\ p \notin up
  /\ up' = up \cup {p}
  /\ UNCHANGED <<phase, position, sessions, server, block, attempt, inputs, chunk,
                 retries, accepted, faults>>

\* step_timeout or session_timeout ends a session that the client still holds.
GiveUp(i) ==
  /\ i \in DOMAIN sessions /\ sessions[i].served /\ faults < MaxFaults
  /\ faults' = faults + 1
  /\ sessions' = [sessions EXCEPT ![i].served = FALSE]
  /\ UNCHANGED <<phase, position, server, block, attempt, inputs, chunk, retries, accepted, up>>

-----------------------------------------------------------------------------
Attempt ==
  \/ (\E r \in Routes(block, UpdateEnd) : Reroute(r)) \/ RerouteFails
  \/ SendRefused \/ Answered \/ Lost \/ AnswerLost

Next ==
  \/ \E c \in Chunks : BeginStep(c)
  \/ \E k \in 0 .. MaxLength : Rollback(k)
  \/ Close
  \/ Attempt
  \/ \E p \in Peers : Crash(p) \/ Restart(p)
  \/ \E i \in 1 .. NumBlocks : GiveUp(i)

Spec == Init /\ [][Next]_vars

\* The client's loop runs on; a server that stopped is replaced in the end.  The
\* caller need do nothing.
Fairness ==
  /\ WF_vars(Attempt)
  /\ \A p \in Peers : WF_vars(Restart(p))

FairSpec == Spec /\ Fairness

-----------------------------------------------------------------------------
\* Properties.

Stepping == phase \in {"route", "send"}

Sessions == [peer : Peers, start : 0 .. NumBlocks - 1, end : 1 .. NumBlocks,
             position : 0 .. MaxLength, history : Seq(Tokens),
             stepped : BOOLEAN, served : BOOLEAN, cache : Caches]

\* Every variable keeps its type through failures, splices and rollbacks.
TypeOK ==
  /\ phase \in {"idle", "route", "send", "raised", "closed"}
  /\ position \in 0 .. MaxLength
  /\ sessions \in Seq(Sessions)
  /\ server \in 1 .. NumBlocks + 1
  /\ block \in 0 .. NumBlocks
  /\ attempt \in Nat
  /\ inputs \in Seq(Tokens) /\ chunk \in Seq(Tokens) /\ accepted \in Seq(Tokens)
  /\ retries \in RetryLimits
  /\ up \subseteq Peers
  /\ faults \in 0 .. MaxFaults

\* However often a hop is replaced, the hops cover every block exactly once and
\* in order, each within the blocks its server has, and the hop that is up next
\* starts at the block that is up next.
HopsTile ==
  sessions # <<>> =>
    /\ sessions[1].start = 0 /\ Last(sessions).end = NumBlocks
    /\ \A i \in DOMAIN sessions :
         /\ sessions[i].start < sessions[i].end
         /\ Serves[sessions[i].peer].start <= sessions[i].start
         /\ sessions[i].end <= Serves[sessions[i].peer].end
         /\ i > 1 => sessions[i].start = sessions[i - 1].end
    /\ Stepping => server \in DOMAIN sessions /\ sessions[server].start = block

\* Between two steps all hops stand at the position of the session, which is the
\* number of tokens the caller kept.
PositionsAgree ==
  phase = "idle" =>
    /\ position = Len(accepted)
    /\ \A i \in DOMAIN sessions : sessions[i].position = position

\* The list of hops, after any number of replacements: of its type, tiling the blocks, at one position.
HopsConsistent == TypeOK /\ HopsTile /\ PositionsAgree

\* Between two steps every attention cache that still exists holds the tokens
\* the caller kept, in their places, also on servers that joined after a failure.
CachesAgree ==
  phase = "idle" =>
    \A i \in DOMAIN sessions : sessions[i].served =>
      \A k \in 1 .. position : sessions[i].cache[k] = accepted[k]

\* Between two steps the history each hop keeps "to regenerate attention caches"
\* is the kept tokens: a failure in the next step finds what it needs.
HistoriesAgree ==
  phase = "idle" =>
    \A i \in DOMAIN sessions : sessions[i].history = accepted

\* Between two steps what servers cached and what hops would send again are the tokens the caller kept.
TokensKept == CachesAgree /\ HistoriesAgree

\* With no limit on retries the first step gets its answer, whatever servers fail
\* on the way.
FirstStepAnswered ==
  Stepping /\ position = 0 /\ retries = 0 ~> phase = "idle"

\* The same of every step: the histories are "Used in case of server failures to
\* regenerate attention caches on new servers".
EveryStepAnswered ==
  Stepping /\ retries = 0 ~> phase = "idle"
=============================================================================
