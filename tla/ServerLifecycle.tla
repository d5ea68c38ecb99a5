-------------------------- MODULE ServerLifecycle --------------------------
(***************************************************************************)
(* petals.server.server: the life of one server and what the DHT says of   *)
(* it.  The main thread (Server.run, ModuleContainer) chooses blocks, loads*)
(* them, serves, and leaves to stop or to serve other blocks; it talks to  *)
(* the ModuleAnnouncerThread through a shared server_info and an event.    *)
(* The announcer stores a snapshot of server_info under the key of each    *)
(* block, key by key, then looks at server_info again.                     *)
(*                                                                         *)
(* A container is one "life", with an announcer of its own; the server_info *)
(* is one for all of them.  Records name the life that wrote them, so that *)
(* a property can tell old news from new.  A record that nobody       *)
(* refreshes expires; a refreshed one does not, since the expiration time  *)
(* is at least twice the update period.                                    *)
(***************************************************************************)
EXTENDS Integers, FiniteSets

CONSTANTS
  NumBlocks,  \* blocks of the model
  Length,     \* num_blocks of this server
  MaxLives,   \* bound: containers this server makes
  Absent      \* no record under a key

ASSUME LifecycleAssumption ==
  /\ NumBlocks \in Nat \ {0} /\ Length \in 1 .. NumBlocks
  /\ MaxLives \in Nat \ {0}

VARIABLES
  phase,      \* where Server.run is
  life,       \* number of the container
  first,      \* server_info.start_block (end_block is Length further)
  state,      \* server_info.state
  reason,     \* why the container is shut down: "stop" or "other"
  trigger,    \* the announcer's event
  announcer,  \* announcer[l]: where ModuleAnnouncerThread.run of life l is
  uids,       \* uids[l]: first of the thread's module_uids
  snapshot,   \* snapshot[l]: the server_info being declared
  left,       \* left[l]: keys still to be stored
  dht         \* dht[b]: this server's record under block b

main == <<phase, life, first, state, reason>>
thread == <<announcer, uids, snapshot, left>>
vars == <<phase, life, first, state, reason, trigger, announcer, uids, snapshot, left, dht>>

AllBlocks == 0 .. NumBlocks - 1
Lives == 1 .. MaxLives
States == {"OFFLINE", "JOINING", "ONLINE"}

\* Mutant of Own: end_block is taken for the last block.
OwnToTheEnd(f) == f .. f + Length

\* The blocks of a span that starts at f.
Own(f) == f .. f + Length - 1

Infos == [state : States, first : 0 .. NumBlocks - Length, life : Lives]

Init ==
  /\ phase = "choosing" /\ life = 1 /\ first = 0 /\ state = "JOINING" /\ reason = "other"
  /\ trigger = FALSE
  /\ announcer = [l \in Lives |-> "dead"] /\ uids = [l \in Lives |-> 0]
  /\ snapshot = [l \in Lives |-> Absent] /\ left = [l \in Lives |-> {}]
  /\ dht = [b \in AllBlocks |-> Absent]

-----------------------------------------------------------------------------
\* The main thread.

\* _choose_blocks, then ModuleContainer.create up to the start of the announcer.
Choose(f) ==
  /\ phase = "choosing"
  /\ phase' = "loading"
  /\ first' = f /\ state' = "JOINING"
  /\ announcer' = [announcer EXCEPT ![life] = "top"]
  /\ uids' = [uids EXCEPT ![life] = f]
  /\ trigger' = FALSE
  /\ UNCHANGED <<life, reason, snapshot, left, dht>>

\* announce: the new state, then the event.
Announce(s) == state' = s /\ trigger' = TRUE

\* Mutant of Loaded: blocks are announced as they begin to load.
LoadedTooEarly ==
  /\ phase = "loading" /\ state # "ONLINE"
  /\ Announce("ONLINE")
  /\ UNCHANGED <<phase, life, first, reason, thread, dht>>

\* Mutant of Loaded: the state never becomes ONLINE.
LoadedSilently ==
  /\ phase = "loading"
  /\ phase' = "serving"
  /\ trigger' = TRUE
  /\ UNCHANGED <<life, first, state, reason, thread, dht>>

\* The blocks are loaded and the container is made.
Loaded ==
  /\ phase = "loading"
  /\ phase' = "serving"
  /\ Announce("ONLINE")
  /\ UNCHANGED <<life, first, reason, thread, dht>>

\* The except clause of create.
LoadFails ==
  /\ phase = "loading"
  /\ phase' = "failing"
  /\ Announce("OFFLINE")
  /\ UNCHANGED <<life, first, reason, thread, dht>>

\* stop is set; or a handler or pool died, or the swarm is imbalanced.
Leave(why) ==
  /\ phase = "serving"
  /\ phase' = "leaving"
  /\ reason' = why
  /\ Announce("OFFLINE")
  /\ UNCHANGED <<life, first, thread, dht>>

\* Mutant of Joined: shutdown does not wait for the announcer.
JoinedAtOnce ==
  /\ phase \in {"leaving", "failing"}
  /\ phase' = IF phase = "leaving" THEN "down" ELSE "failed"
  /\ UNCHANGED <<life, first, state, reason, trigger, thread, dht>>

\* announce(OFFLINE) joins the thread, then the rest of the shutdown.
Joined ==
  /\ phase \in {"leaving", "failing"}
  /\ announcer[life] = "dead"
  /\ phase' = IF phase = "leaving" THEN "down" ELSE "failed"
  /\ UNCHANGED <<life, first, state, reason, trigger, thread, dht>>

\* The loop of Server.run goes round, or the server returns.
GoOn ==
  /\ phase = "down"
  /\ IF reason = "stop"
       THEN phase' = "exited" /\ UNCHANGED life
       ELSE life < MaxLives /\ life' = life + 1 /\ phase' = "choosing"
  /\ UNCHANGED <<first, state, reason, trigger, thread, dht>>

\* The process is killed, and its threads with it.
Crash ==
  /\ phase \notin {"exited", "failed", "crashed"}
  /\ phase' = "crashed"
  /\ announcer' = [l \in Lives |-> "dead"]
  /\ snapshot' = [l \in Lives |-> Absent] /\ left' = [l \in Lives |-> {}]
  /\ UNCHANGED <<life, first, state, reason, trigger, uids, dht>>

\* Somebody starts the server again under the same identity.
Restart ==
  /\ phase \in {"crashed", "failed", "exited"} /\ life < MaxLives
  /\ life' = life + 1 /\ phase' = "choosing" /\ state' = "JOINING"
  /\ UNCHANGED <<first, reason, trigger, thread, dht>>

-----------------------------------------------------------------------------
\* The announcer of life l.

Move(l, from, to) == announcer[l] = from /\ announcer' = [announcer EXCEPT ![l] = to]

\* declare_active_modules copies server_info, which every container writes to.
Declare(l) ==
  /\ Move(l, "top", "storing")
  /\ snapshot' = [snapshot EXCEPT ![l] = [state |-> state, first |-> first, life |-> l]]
  /\ left' = [left EXCEPT ![l] = Own(uids[l])]
  /\ UNCHANGED <<main, trigger, uids, dht>>

\* store_many: every key on its own.
Store(l, b) ==
  /\ announcer[l] = "storing" /\ b \in left[l]
  /\ dht' = [dht EXCEPT ![b] = snapshot[l]]
  /\ left' = [left EXCEPT ![l] = @ \ {b}]
  /\ UNCHANGED <<main, trigger, announcer, uids, snapshot>>

Declared(l, next) ==
  /\ left[l] = {}
  /\ Move(l, "storing", next)
  /\ snapshot' = [snapshot EXCEPT ![l] = Absent]
  /\ UNCHANGED <<main, uids, left, dht>>

OfflineEnds == IF state = "OFFLINE" THEN "dead" ELSE "waiting"

\* Mutant of Check: the thread stays when the server is offline.
CheckNothing(l) == Declared(l, "waiting") /\ UNCHANGED trigger

\* Mutant of Check: the event is cleared before the wait, not after it.
CheckClearing(l) == Declared(l, OfflineEnds) /\ trigger' = FALSE

Check(l) == Declared(l, OfflineEnds) /\ UNCHANGED trigger

Wait(l) ==
  /\ Move(l, "waiting", "woken")
  /\ UNCHANGED <<main, trigger, uids, snapshot, left, dht>>

\* trigger.wait returns since the event is set, or since the update period is over.
Wake(l) == trigger /\ Wait(l)
PeriodEnds(l) == ~trigger /\ Wait(l)

Clear(l) ==
  /\ Move(l, "woken", "top")
  /\ trigger' = FALSE
  /\ UNCHANGED <<main, uids, snapshot, left, dht>>

\* A record that is not refreshed any more runs out.
Expire(b) ==
  /\ dht[b] # Absent
  /\ \A l \in Lives : announcer[l] = "dead" \/ b \notin Own(uids[l])
  /\ dht' = [dht EXCEPT ![b] = Absent]
  /\ UNCHANGED <<main, trigger, thread>>

-----------------------------------------------------------------------------
Announcer(l) ==
  \/ Declare(l) \/ Check(l) \/ Wake(l) \/ Clear(l)
  \/ \E b \in AllBlocks : Store(l, b)
Shutdown == Joined \/ GoOn

Next ==
  \/ \E f \in 0 .. NumBlocks - Length : Choose(f)
  \/ Loaded \/ LoadFails \/ \E why \in {"stop", "other"} : Leave(why)
  \/ Shutdown \/ Crash \/ Restart
  \/ \E l \in Lives : Announcer(l) \/ PeriodEnds(l)
  \/ \E b \in AllBlocks : Expire(b)

Spec == Init /\ [][Next]_vars

\* Threads run on, the DHT forgets.  Loading may take for ever, the update period
\* may be as long as one likes, nobody need stop, kill or restart the server.
Fairness ==
  /\ WF_vars(Shutdown)
  /\ \A l \in Lives : WF_vars(Announcer(l))
  /\ \A b \in AllBlocks : WF_vars(Expire(b))

FairSpec == Spec /\ Fairness

-----------------------------------------------------------------------------
\* Properties.

\* Every variable keeps its type.
TypeOK ==
  /\ phase \in {"choosing", "loading", "serving", "leaving", "failing", "down",
                "failed", "exited", "crashed"}
  /\ life \in Lives
  /\ first \in 0 .. NumBlocks - Length
  /\ state \in States
  /\ reason \in {"stop", "other"}
  /\ trigger \in BOOLEAN
  /\ announcer \in [Lives -> {"top", "storing", "waiting", "woken", "dead"}]
  /\ uids \in [Lives -> 0 .. NumBlocks - Length]
  /\ snapshot \in [Lives -> Infos \cup {Absent}]
  /\ left \in [Lives -> SUBSET AllBlocks]
  /\ dht \in [AllBlocks -> Infos \cup {Absent}]

\* A record of the container that is running says ONLINE only once its blocks are
\* loaded, although server_info and the event are shared without a lock.
OnlineWhenLoaded ==
  \A b \in AllBlocks :
    dht[b] # Absent /\ dht[b].life = life /\ dht[b].state = "ONLINE"
      => phase \notin {"choosing", "loading"}

\* What is stored under a block names a span that has the block: the announcer of
\* one container never publishes the blocks of the next under its own keys.
RecordsNameTheirBlock ==
  \A b \in AllBlocks : dht[b] # Absent => b \in Own(dht[b].first)

\* The records of a server: of their types, and each with a span that has its block.
RecordsConsistent == TypeOK /\ RecordsNameTheirBlock

\* Records only get newer: an old container's news does not replace a new one's.
NewsOnly ==
  [][\A b \in AllBlocks : dht[b] # Absent /\ dht'[b] # Absent => dht[b].life <= dht'[b].life]_vars

\* A container that is up gets its blocks announced as ONLINE, unless it leaves
\* first: the event is set and cleared by two threads and no announcement is lost,
\* not even until the update period ends.
BecomesOnline ==
  phase = "serving" ~>
    phase # "serving" \/ \A b \in Own(first) : dht[b] # Absent /\ dht[b].state = "ONLINE"

\* A shutdown ends: the announcer that is joined stops.
ShutdownEnds == phase \in {"leaving", "failing"} ~> phase \notin {"leaving", "failing"}

\* A server that is told to stop disappears from the DHT, unless it is restarted:
\* no announcer lives on and refreshes its records.
GoneInTheEnd ==
  phase = "leaving" /\ reason = "stop" ~>
    phase \notin {"leaving", "down", "exited"} \/ \A b \in AllBlocks : dht[b] = Absent

\* "Announced that blocks ... are offline", which shutdown logs once the announcer
\* is joined: no record of this container says otherwise.
OfflineAnnounced ==
  phase \in {"down", "failed"} =>
    \A b \in AllBlocks : dht[b] # Absent /\ dht[b].life = life => dht[b].state = "OFFLINE"
=============================================================================
