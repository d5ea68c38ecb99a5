--------------------------- MODULE SequenceManager ---------------------------
(***************************************************************************)
(* petals.client.routing: what a client knows of the swarm.  A thread      *)
(* reads the DHT records of all blocks, leaves out banned peers, and       *)
(* publishes block_infos and the spans computed from them; callers make    *)
(* routes of these spans, report failures and successes, and may ask for   *)
(* an update and wait until the thread is ready.  Actions of the swarm and *)
(* of the thread are here; the operations of callers are operators, which  *)
(* SequentialAutograd composes with its own state.                         *)
(*                                                                         *)
(* A record is the server_info of a peer under the key of one block.  A    *)
(* server that stops leaves its records behind until they expire; when it  *)
(* comes back elsewhere before that, records of both places are found.     *)
(* Latency and throughput are left out: any span that has the block may be *)
(* chosen for it.                                                          *)
(***************************************************************************)
EXTENDS Integers, FiniteSetsExt, Sequences

CONSTANTS
  Peers,       \* servers
  NumBlocks,   \* blocks of the model
  Placements,  \* Placements[p]: the spans server p may choose
  MaxFaults,   \* bound: servers that stop, lost answers and failed updates
  NoPeer,      \* peer_id = None
  Down         \* a server that serves nothing

Places == [start : 0 .. NumBlocks - 1, end : 1 .. NumBlocks]

ManagerAssumption ==
  /\ NumBlocks \in Nat \ {0} /\ MaxFaults \in Nat
  /\ Placements \in [Peers -> SUBSET Places]
  /\ \A p \in Peers : Placements[p] # {} /\ \A s \in Placements[p] : s.start < s.end
  /\ NoPeer \notin Peers /\ Down \notin Places

VARIABLES
  serves,  \* serves[p]: the span server p has loaded, or Down
  dht,     \* records in the DHT
  faults,  \* faults so far
  banned,  \* banned_peers
  infos,   \* block_infos, a set of records
  known,   \* spans_by_priority, without their order
  thread,  \* where the update thread is
  got,     \* new_block_infos, a set of records
  ready, trigger  \* events of the update thread

swarm == <<serves, dht>>
routing == <<banned, infos, known, ready, trigger>>
manager == <<serves, dht, faults, banned, infos, known, thread, got, ready, trigger>>

Blocks == 0 .. NumBlocks - 1
BlocksOf(s) == s.start .. s.end - 1
Records == [peer : Peers, block : Blocks, place : Places, state : {"JOINING", "ONLINE"}]
Spans == [peer : Peers, start : Blocks, end : 1 .. NumBlocks]

Declared(p, s, state) ==
  {[peer |-> p, block |-> b, place |-> s, state |-> state] : b \in BlocksOf(s)}

InitManager ==
  /\ serves = [p \in Peers |-> CHOOSE s \in Placements[p] : TRUE]
  /\ dht = UNION {Declared(p, serves[p], "ONLINE") : p \in Peers}
  /\ faults = 0
  /\ banned = {} /\ infos = {} /\ known = {}
  /\ thread = "fetch" /\ got = {}
  /\ ready = FALSE /\ trigger = FALSE

-----------------------------------------------------------------------------
\* The swarm.

\* declare_active_modules: new records replace those under the same keys.
Store(p, s, state) ==
  dht' = {r \in dht : r.peer = p => r.block \notin BlocksOf(s)} \cup Declared(p, s, state)

Stop(p) ==
  /\ serves[p] # Down /\ faults < MaxFaults
  /\ faults' = faults + 1
  /\ serves' = [serves EXCEPT ![p] = Down]
  /\ UNCHANGED <<dht, routing, thread, got>>

Joining(p) == {r \in dht : r.peer = p /\ r.state = "JOINING"}

Join(p, s) ==
  /\ serves[p] = Down /\ s \in Placements[p] /\ Joining(p) = {}
  /\ Store(p, s, "JOINING")
  /\ UNCHANGED <<serves, faults, routing, thread, got>>

Load(p) ==
  /\ serves[p] = Down
  /\ \E r \in Joining(p) :
       /\ serves' = [serves EXCEPT ![p] = r.place]
       /\ Store(p, r.place, "ONLINE")
  /\ UNCHANGED <<faults, routing, thread, got>>

Stale(p) == {r \in dht : r.peer = p /\ r.state = "ONLINE" /\ r.place # serves[p]}

Expire(p) ==
  /\ Stale(p) # {}
  /\ dht' = dht \ Stale(p)
  /\ UNCHANGED <<serves, faults, routing, thread, got>>

Swarm(p) == (\E s \in Places : Join(p, s)) \/ Load(p) \/ Expire(p)

-----------------------------------------------------------------------------
\* The update thread.

Fetch ==
  /\ thread = "fetch"
  /\ thread' = "filter"
  /\ got' = dht
  /\ UNCHANGED <<swarm, faults, routing>>

\* An exception is logged, and the thread waits without being ready.
FetchFails ==
  /\ thread = "fetch" /\ faults < MaxFaults
  /\ faults' = faults + 1
  /\ thread' = "wait"
  /\ UNCHANGED <<swarm, routing, got>>

\* Banned peers are removed from a block unless no other peer is left there.
Kept(rs) ==
  {r \in rs : r.peer \in banned => \A q \in rs : q.block = r.block => q.peer \in banned}

Filter ==
  /\ thread = "filter"
  /\ thread' = "publish"
  /\ got' = Kept(got)
  /\ UNCHANGED <<swarm, faults, routing>>

\* compute_spans: the first record of a peer says where its span is, later ones
\* only extend it.
SpanOf(p, rs) ==
  LET first == CHOOSE r \in rs : \A q \in rs : r.block <= q.block IN
    [peer |-> p, start |-> first.place.start,
     end |-> Max({first.place.end} \cup {r.block + 1 : r \in rs})]

ComputeSpans(rs) ==
  LET online(p) == {r \in rs : r.peer = p /\ r.state = "ONLINE"} IN
    {SpanOf(p, online(p)) : p \in {p \in Peers : online(p) # {}}}

\* update_, under lock_changes.
Publish ==
  /\ thread = "publish"
  /\ thread' = "ping"
  /\ infos' = got /\ known' = ComputeSpans(got)
  /\ got' = {}
  /\ UNCHANGED <<swarm, faults, banned, ready, trigger>>

SetReady ==
  /\ thread = "ping"
  /\ thread' = "wait"
  /\ ready' = TRUE
  /\ UNCHANGED <<swarm, faults, banned, infos, known, got, trigger>>

\* Mutant of Wake: without an update period.
WakeWhenAsked ==
  /\ thread = "wait" /\ trigger
  /\ thread' = "fetch"
  /\ trigger' = FALSE
  /\ UNCHANGED <<swarm, faults, banned, infos, known, got, ready>>

\* trigger.wait returns: an update was asked for, or the update period is over.
Wake ==
  /\ thread = "wait"
  /\ thread' = "fetch"
  /\ trigger' = FALSE
  /\ UNCHANGED <<swarm, faults, banned, infos, known, got, ready>>

Thread == Fetch \/ Filter \/ Publish \/ SetReady \/ Wake

\* A ban runs out.
Unban(p) ==
  /\ p \in banned
  /\ banned' = banned \ {p}
  /\ UNCHANGED <<swarm, faults, infos, known, ready, trigger, thread, got>>

-----------------------------------------------------------------------------
\* Operations of callers.

\* The spans a route may continue with at block b.
Candidates(b) == {s \in known : s.start <= b /\ b < s.end}

\* update, which may be followed by a wait until ready.
Update == ready' = FALSE /\ trigger' = TRUE

\* Mutant of OnRequestFailure: a failure of nobody is registered too.
BanWhoever(p) ==
  /\ banned' = banned \cup {p}
  /\ infos' = {r \in infos : r.peer # p}
  /\ IF {r.block : r \in infos'} = Blocks THEN UNCHANGED <<ready, trigger>> ELSE Update
  /\ UNCHANGED known

OnRequestFailure(p) ==
  /\ banned' = banned \cup ({p} \ {NoPeer})
  /\ infos' = {r \in infos : r.peer # p}
  /\ IF {r.block : r \in infos'} = Blocks THEN UNCHANGED <<ready, trigger>> ELSE Update
  /\ UNCHANGED known

OnRequestSuccess(p) ==
  /\ banned' = banned \ {p}
  /\ UNCHANGED <<infos, known, ready, trigger>>
=============================================================================
