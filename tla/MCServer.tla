------------------------------- MODULE MCServer -------------------------------
(***************************************************************************)
(* What a server does besides answering: four small instances side by      *)
(* side, which share no state.  An initial state picks one of them, part,  *)
(* and a behaviour stays in it; the others are off.  The life of one       *)
(* server is ServerLifecycle; the rest is                                  *)
(*   disk    two servers of one host that load two shards, or an adapter   *)
(*           and a shard whose size the hub does not report, through a     *)
(*           cache too small for two files,                                *)
(*   swarm   four servers of two, one, one and two blocks and unequal      *)
(*           speed on a model of three, one of which may crash and one     *)
(*           of which may act upon what is no longer so,                   *)
(*   sizing  a model of three equal blocks and a hybrid one, planned, run  *)
(*           and used on devices from too small to ample.                  *)
(* Fairness is that of each part, asked of the part that runs.             *)
(***************************************************************************)
EXTENDS ServerLifecycle, TLC

VARIABLES
  part,
  files, throughputs, step, file, todo, key, known, troubles,      \* disk
  span, status, pick, stale, crashes, races,                       \* swarm
  model, line, free, server, room, tokensLeft, basis, sessions     \* sizing

MCSize(f) == CASE f = "index" -> 1 [] f = "w1" -> 3 [] OTHER -> 2

DC == INSTANCE DiskCache WITH
  table <- throughputs, phase <- step, left <- todo,
  Servers <- {"A", "B"}, Shards <- {"w1", "w2", "w3"}, SizedShards <- {"w1", "w2"}, Index <- "index", Adapters <- {"lora"},
  Size <- MCSize, Spares <- {0},
  Loads <- {{"w1", "w2"}, {"w3", "lora"}}, MaxSpace <- 4, Keys <- {"k"}, MaxTroubles <- 1

SW == INSTANCE Swarm WITH
  phase <- status,
  Servers <- 1 .. 4, NumBlocks <- 3, Length <- <<2, 1, 1, 2>>, Speed <- <<2, 1, 3, 1>>, Quality <- 750,
  MaxRounds <- 2, MaxCrashes <- 1, MaxRaces <- 1

Dense == [custom |-> FALSE, layers |-> <<"full", "full", "full">>, hidden |-> 4, groups |-> 2,
          weight |-> [full |-> 5], perToken |-> [full |-> 4], fixed |-> [full |-> 0], disk |-> <<3, 5, 7>>]
Hybrid == [custom |-> TRUE, layers |-> <<"linear", "linear", "full">>, hidden |-> 3, groups |-> 1,
           weight |-> [linear |-> 4, full |-> 5], perToken |-> [linear |-> 3, full |-> 2],
           fixed |-> [linear |-> 5, full |-> 0], disk |-> <<3, 6>>]

SZ == INSTANCE CacheSizing WITH
  left <- room,
  Models <- {Dense, Hybrid}, Reports <- [vram : {8, 30, 80}, disk : {2, 5, 12}],
  Memories <- {20, 45, 90}, Tokens <- 4, Autograd <- 2, Headroom <- 3, DiskMargin <- 1, MaxDisk <- 5,
  Cap <- 3, Lengths <- 1 .. 4, MaxSessions <- 2

diskVars == <<files, throughputs, step, file, todo, key, known, troubles>>
swarmVars == <<span, status, pick, stale, crashes, races>>
sizingVars == <<model, line, free, server, room, tokensLeft, basis, sessions>>
everything == <<part, vars, diskVars, swarmVars, sizingVars>>

DiskOff ==
  /\ files = 0 /\ throughputs = 0 /\ step = 0 /\ file = 0 /\ todo = 0 /\ key = 0 /\ known = 0 /\ troubles = 0
SwarmOff == span = 0 /\ status = 0 /\ pick = 0 /\ stale = 0 /\ crashes = 0 /\ races = 0
SizingOff ==
  /\ model = 0 /\ line = 0 /\ free = 0 /\ server = 0 /\ room = 0 /\ tokensLeft = 0 /\ basis = 0 /\ sessions = 0

MCInit ==
  /\ Init
  /\ part \in {"life", "disk", "swarm", "sizing"}
  /\ IF part = "disk" THEN DC!InitDisk ELSE DiskOff
  /\ IF part = "swarm" THEN SW!InitSwarm ELSE SwarmOff
  /\ IF part = "sizing" THEN SZ!InitSizing ELSE SizingOff

MCNext ==
  /\ UNCHANGED part
  /\ IF part = "life" THEN Next ELSE UNCHANGED vars
  /\ IF part = "disk" THEN DC!NextDisk ELSE UNCHANGED diskVars
  /\ IF part = "swarm" THEN SW!NextSwarm ELSE UNCHANGED swarmVars
  /\ IF part = "sizing" THEN SZ!NextSizing ELSE UNCHANGED sizingVars

MCFairness ==
  /\ WF_vars(part = "life" /\ Shutdown)
  /\ \A l \in Lives : WF_vars(part = "life" /\ Announcer(l))
  /\ \A b \in AllBlocks : WF_vars(part = "life" /\ Expire(b))
  /\ \A s \in {"A", "B"} : WF_diskVars(part = "disk" /\ DC!LoadStep(s))
  /\ \A s \in 1 .. 4 : WF_swarmVars(part = "swarm" /\ SW!Step(s))

MCSpec == MCInit /\ [][MCNext]_everything /\ MCFairness

-----------------------------------------------------------------------------
\* Properties of the parts beside ServerLifecycle.

\* DiskCache: no server removes a file another one reads, and shards stay within max_disk_space.
FilesInUseStay == part = "disk" => DC!FilesInUseStay

\* DiskCache: every server comes to the end of its loading, or to its error.
EveryLoadEnds == \A s \in {"A", "B"} : <>(part = "disk" => step[s] \in DC!Ended)

\* Swarm: the simulation of should_choose_other_blocks ends, whatever the shuffles.
SimulationEnds == part = "swarm" => SW!TypeOKSwarm /\ SW!SimulationEnds

\* Swarm: a move on a reading that is still so leaves no block of a whole swarm without a server.
MovesKeepTheSwarmWhole == [][part = "swarm" => SW!MoveKeepsWhole]_swarmVars

\* Swarm: in the end every block has a server for ever.
SwarmBecomesWhole == <>[](part = "swarm" => SW!Whole)

\* CacheSizing: what a server was given fits its device, and what it promises its cache holds.
SizesHold == part = "sizing" => SZ!SizesHold
=============================================================================
