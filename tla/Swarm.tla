------------------------------- MODULE Swarm -------------------------------
(***************************************************************************)
(* How the servers of a swarm choose their blocks.  A server that starts   *)
(* reads the records of the DHT and takes the span whose blocks are served *)
(* worst (server.py, _choose_blocks); from time to time a running server   *)
(* reads them again, simulates how all the servers would rearrange, and if *)
(* the swarm is far from that balance it stops serving its blocks and      *)
(* chooses again (_should_choose_other_blocks and the loop of run).        *)
(* Between the reading and the announcement other servers read and         *)
(* announce too; servers crash, or leave and end before that is stored,    *)
(* and their records outlive them until they expire.                       *)
(*                                                                         *)
(* Throughputs are in thousandths, so that eps = 1e-3 of the code is one   *)
(* unit and T * (1 + eps) is 1001 times the speed.                         *)
(***************************************************************************)
EXTENDS Naturals, Integers, Sequences, FiniteSets, SequencesExt, FiniteSetsExt

CONSTANTS
    Servers,      \* the peers
    NumBlocks,    \* blocks of the model
    Length,       \* num_blocks of a server
    Speed,        \* throughput of a server, in requests per second
    Quality,      \* balance_quality, in thousandths
    MaxRounds,    \* bound: rounds of the simulation (SimulationEnds says it is enough)
    MaxCrashes,   \* bound: servers that crash or leave without their departure being stored
    MaxRaces      \* bound: readings while another server acts upon its own

VARIABLES
    span,     \* the records of the DHT: where the blocks of a server start, or NoSpan
    phase,    \* what each server does
    pick,     \* the start a server has chosen and not announced yet
    stale,    \* servers whose last reading is no longer what the DHT says
    crashes,  \* how often a record has outlived what it says
    races

swarmVars == <<span, phase, pick, stale, crashes, races>>

NoSpan == NumBlocks
Phases == {"away", "chosen", "serving", "leaving", "down"}
Pending == {"chosen", "leaving"}

BlocksFrom(start, s) == start .. start + Length[s] - 1

Recorded(spans) == {s \in Servers : spans[s] # NoSpan}

Throughputs(spans) ==
    [b \in 0 .. NumBlocks - 1 |->
        1000 * MapThenSumSet(LAMBDA s : Speed[s],
                             {s \in Recorded(spans) : b \in BlocksFrom(spans[s], s)})]

Lowest(throughputs) == Min({throughputs[b] : b \in DOMAIN throughputs})

\* The worst served window: the windows are compared by their sorted throughputs, then by start.
Before(a, b) ==
    \E i \in 1 .. Len(a) : a[i] < b[i] /\ \A j \in 1 .. i - 1 : a[j] = b[j]

BestStart(throughputs, length) ==
    LET options == {Append(SortSeq([j \in 1 .. length |-> throughputs[i + j - 1]], <), i) :
                        i \in 0 .. NumBlocks - length}
    IN  Last(CHOOSE a \in options : \A b \in options \ {a} : Before(a, b))

\* An arrangement of the swarm says where every server starts, if it serves blocks.
Arrangements == [Servers -> 0 .. NumBlocks]

\* The throughputs without server s, and a little less, so that it prefers to stay.
Without(spans, s) ==
    LET throughputs == Throughputs(spans)
        own         == BlocksFrom(spans[s], s)
    IN  [b \in DOMAIN throughputs |-> throughputs[b] - (IF b \in own THEN 1001 * Speed[s] ELSE 0)]

MoveUnsubtracted ==
    [spans \in Arrangements, s \in Servers |->
        [spans EXCEPT ![s] = BestStart(Throughputs(spans), Length[s])]]

\* What the simulation does with one server: it goes where it would be best.
Move ==
    [spans \in Arrangements, s \in Servers |->
        [spans EXCEPT ![s] = BestStart(Without(spans, s), Length[s])]]

\* A round that moves nobody: the flag `moved` stays False.
AtRest(spans) == \A s \in Recorded(spans) : Move[spans, s] = spans

\* One round moves every server once, in any order: the arrangements it may end with.
Round ==
    [spans \in Arrangements |->
        LET Moved[n \in 0 .. Cardinality(Servers)] ==
                IF n = 0
                THEN {<<spans, Recorded(spans)>>}
                ELSE UNION {{<<Move[m[1], s], m[2] \ {s}>> : s \in m[2]} : m \in Moved[n - 1]}
        IN  {m[1] : m \in Moved[Cardinality(Recorded(spans))]}]

\* Where the rounds end, over every shuffle: a round that moves nobody is the last.
Settled ==
    [spans \in Arrangements |->
        LET After[n \in 0 .. MaxRounds] ==
                IF n = 0 THEN {spans}
                ELSE UNION {IF AtRest(m) THEN {m} ELSE Round[m] : m \in After[n - 1]}
        IN  After[MaxRounds]]

LeavesAHoleIgnored(spans, s) == FALSE

\* The span is all that some of its blocks have.
LeavesAHole(spans, s) ==
    Lowest(Throughputs(spans)) > 1 /\ Lowest(Without(spans, s)) <= 0

WorthMovingInverted(spans, target) ==
    LET initial == Lowest(Throughputs(spans))
        new     == Lowest(Throughputs(target))
    IN  new >= initial /\ new >= 1 /\ 1000 * new < (Quality - 1) * initial

\* The arrangement `target` is enough better to be worth the move.
WorthMoving(spans, target) ==
    LET initial == Lowest(Throughputs(spans))
        new     == Lowest(Throughputs(target))
    IN  new >= initial /\ new >= 1 /\ 1000 * initial < (Quality - 1) * new

ShouldMove(spans, s) ==
    /\ ~LeavesAHole(spans, s)
    /\ Move[spans, s] # spans
    /\ \E target \in Settled[Move[spans, s]] : WorthMoving(spans, target)

-----------------------------------------------------------------------------
InitSwarm ==
    /\ span = [s \in Servers |-> NoSpan]
    /\ phase = [s \in Servers |-> "away"]
    /\ pick = [s \in Servers |-> NoSpan]
    /\ stale = {}
    /\ crashes = 0
    /\ races = 0

\* A server reads the records, perhaps while others act upon a reading of theirs.
Read(s) ==
    /\ races' = races + (IF \E t \in Servers \ {s} : phase[t] \in Pending THEN 1 ELSE 0)
    /\ races' <= MaxRaces

\* A record changes: what was read and not yet acted upon is no longer so.
Overtaken == stale \cup {t \in Servers : phase[t] \in Pending}

Publish(s, start) ==
    /\ span' = [span EXCEPT ![s] = start]
    /\ stale' = Overtaken \ {s}

\* _choose_blocks: a start, or a start over, with the records as they are.
Choose(s) ==
    /\ phase[s] = "away"
    /\ Read(s)
    /\ pick' = [pick EXCEPT ![s] = BestStart(Throughputs(span), Length[s])]
    /\ phase' = [phase EXCEPT ![s] = "chosen"]
    /\ UNCHANGED <<span, stale, crashes>>

\* ModuleContainer.create announces the blocks (JOINING) and loads them.
Announce(s) ==
    /\ phase[s] = "chosen"
    /\ Publish(s, pick[s])
    /\ phase' = [phase EXCEPT ![s] = "serving"]
    /\ pick' = [pick EXCEPT ![s] = NoSpan]
    /\ UNCHANGED <<crashes, races>>

\* _should_choose_other_blocks says yes.
Decide(s) ==
    /\ phase[s] = "serving"
    /\ Read(s)
    /\ ShouldMove(span, s)
    /\ phase' = [phase EXCEPT ![s] = "leaving"]
    /\ UNCHANGED <<span, pick, stale, crashes>>

\* The old record stays: the announcement that the blocks are OFFLINE was not stored.
LeaveUnseen(s) ==
    /\ crashes < MaxCrashes /\ crashes' = crashes + 1
    /\ stale' = stale \ {s}
    /\ UNCHANGED span

\* module_container.shutdown() declares the blocks OFFLINE, or ends before that is stored.
Leave(s) ==
    /\ phase[s] = "leaving"
    /\ \/ Publish(s, NoSpan) /\ UNCHANGED crashes
       \/ LeaveUnseen(s)
    /\ phase' = [phase EXCEPT ![s] = "away"]
    /\ UNCHANGED <<pick, races>>

\* The process is killed: its record stays.
Crash(s) ==
    /\ crashes < MaxCrashes
    /\ phase[s] \in {"chosen", "serving", "leaving"}
    /\ phase' = [phase EXCEPT ![s] = "down"]
    /\ pick' = [pick EXCEPT ![s] = NoSpan]
    /\ crashes' = crashes + 1
    /\ stale' = stale \ {s}
    /\ UNCHANGED <<span, races>>

\* The record of a server that does not renew it expires.
Expire(s) ==
    /\ phase[s] \in {"down", "away", "chosen"}
    /\ span[s] # NoSpan
    /\ span' = [span EXCEPT ![s] = NoSpan]
    /\ stale' = Overtaken
    /\ UNCHANGED <<phase, pick, crashes, races>>

\* It is started again with the same identity, perhaps before its old record expired.
Restart(s) ==
    /\ phase[s] = "down"
    /\ phase' = [phase EXCEPT ![s] = "away"]
    /\ UNCHANGED <<span, pick, stale, crashes, races>>

Step(s) == Choose(s) \/ Announce(s) \/ Decide(s) \/ Leave(s) \/ Expire(s)

NextSwarm == \E s \in Servers : Step(s) \/ Crash(s) \/ Restart(s)

\* A server that runs keeps on, checks the balance now and then, and the shuffles are random:
\* a move that stays worth making for some shuffle is made.  The record of a dead server expires;
\* a living one may announce its next span first.  Nothing says that a dead server is started again.
FairSwarm == \A s \in Servers : WF_swarmVars(Step(s))

SpecSwarm == InitSwarm /\ [][NextSwarm]_swarmVars /\ FairSwarm

-----------------------------------------------------------------------------
TypeOKSwarm ==
    /\ \A s \in Servers : span[s] \in 0 .. NumBlocks - Length[s] \cup {NoSpan}
    /\ \A s \in Servers : pick[s] \in 0 .. NumBlocks - Length[s] \cup {NoSpan}
    /\ phase \in [Servers -> Phases]
    /\ stale \subseteq {s \in Servers : phase[s] \in Pending}
    /\ crashes \in 0 .. MaxCrashes
    /\ races \in 0 .. MaxRaces

Whole ==
    \A b \in 0 .. NumBlocks - 1 :
        \E s \in Servers : span[s] # NoSpan /\ b \in BlocksFrom(span[s], s)

MoveKeepsWhole == \A s \in Servers : Leave(s) /\ s \notin stale /\ Whole => Whole'

\* A server that moves on a reading that is still so leaves no block of a whole swarm without a
\* server (the comment "Switching blocks would make the swarm disjoint"): only readings that
\* another server overtook, or crashes, can make a hole.
MovesKeepTheSwarmWhole == [][MoveKeepsWhole]_swarmVars

\* In the end every block has a server for ever, whatever the order in which the servers come,
\* and although some of them crash or leave unseen and some of their readings are overtaken.
SwarmBecomesWhole == <>[]Whole

\* The simulation of the code, a loop that runs until nobody moves, ends whatever the shuffles.
SimulationEnds ==
    \A s \in Recorded(span) :
        \A end \in Settled[Move[span, s]] : AtRest(end)
=============================================================================
