----------------------- MODULE ServerLifecycleProofs -----------------------
(***************************************************************************)
(* What the records of a server say, for every number of blocks, length of *)
(* span and number of containers.                                          *)
(***************************************************************************)
EXTENDS ServerLifecycle, TLAPS

\* The only announcer alive is that of the current container, with its blocks.
OneAnnouncer ==
  \A l \in Lives : announcer[l] # "dead" =>
    l = life /\ uids[l] = first /\ phase \in {"loading", "serving", "leaving", "failing"}

\* The copy that an announcer stores is of its own container, under its own keys.
CopyIsOwn ==
  \A l \in Lives :
    /\ announcer[l] = "storing" =>
         /\ snapshot[l] \in Infos
         /\ snapshot[l].life = l /\ snapshot[l].first = uids[l]
         /\ left[l] \subseteq Own(uids[l])
    /\ announcer[l] # "storing" => left[l] = {}

\* Nothing says ONLINE while blocks load.
JoiningWhileLoading ==
  phase = "loading" =>
    /\ state = "JOINING"
    /\ \A l \in Lives : announcer[l] = "storing" => snapshot[l].state = "JOINING"

\* No record is from the future; before its announcer starts, none is the container's.
RecordsOfThePast ==
  \A b \in AllBlocks : dht[b] # Absent =>
    /\ dht[b].life <= life
    /\ phase = "choosing" => dht[b].life < life

RecordParts ==
  /\ OneAnnouncer
  /\ CopyIsOwn
  /\ JoiningWhileLoading
  /\ RecordsOfThePast
  /\ OnlineWhenLoaded
  /\ RecordsNameTheirBlock

RecordInv == TypeOK /\ RecordParts

-----------------------------------------------------------------------------
LEMMA OwnInRange ==
  ASSUME NEW f \in 0 .. NumBlocks - Length
  PROVE  Own(f) \subseteq AllBlocks
BY LifecycleAssumption DEF Own, AllBlocks

LEMMA RecordInvInit == Init => RecordInv
<1> SUFFICES ASSUME Init PROVE RecordInv
  OBVIOUS
<1> USE DEF Init
<1>1. life \in Lives /\ 0 \in 0 .. NumBlocks - Length
  BY LifecycleAssumption DEF Lives
<1>2. TypeOK
  BY <1>1 DEF TypeOK, States
<1>3. OneAnnouncer /\ CopyIsOwn /\ JoiningWhileLoading
  BY DEF OneAnnouncer, CopyIsOwn, JoiningWhileLoading
<1>4. RecordsOfThePast /\ OnlineWhenLoaded /\ RecordsNameTheirBlock
  BY DEF RecordsOfThePast, OnlineWhenLoaded, RecordsNameTheirBlock
<1> QED
  BY <1>2, <1>3, <1>4 DEF RecordInv, RecordParts

-----------------------------------------------------------------------------
\* A step of the main thread that starts no loading, makes no container and
\* leaves the announcers and the DHT alone.
LEMMA MainMoves ==
  ASSUME RecordInv, UNCHANGED <<life, first, thread, dht>>,
         phase' # "choosing", phase' # "loading",
         phase' \in {"serving", "leaving", "failing"} \/ announcer[life] = "dead"
  PROVE  RecordParts'
<1> USE DEF RecordInv, RecordParts, thread
<1>1. OneAnnouncer'
  BY DEF OneAnnouncer
<1>2. CopyIsOwn'
  BY DEF CopyIsOwn
<1>3. JoiningWhileLoading' /\ RecordsOfThePast'
  BY DEF JoiningWhileLoading, RecordsOfThePast
<1>4. OnlineWhenLoaded' /\ RecordsNameTheirBlock'
  BY DEF OnlineWhenLoaded, RecordsNameTheirBlock
<1> QED
  BY <1>1, <1>2, <1>3, <1>4

\* The container after this one has no record and no announcer yet.
LEMMA NextContainer ==
  ASSUME RecordInv, UNCHANGED <<first, thread, dht>>,
         life' = life + 1, phase' = "choosing",
         \A l \in Lives : announcer[l] = "dead"
  PROVE  RecordParts'
<1> USE DEF RecordInv, RecordParts, thread
<1>1. OneAnnouncer' /\ CopyIsOwn' /\ JoiningWhileLoading'
  BY DEF OneAnnouncer, CopyIsOwn, JoiningWhileLoading
<1>2. \A b \in AllBlocks : dht[b] # Absent => dht[b] \in Infos
  BY DEF TypeOK
<1>3. \A b \in AllBlocks : dht[b] # Absent => dht[b].life < life'
  <2>1. \A b \in AllBlocks : dht[b] # Absent => dht[b].life \in Nat
    BY <1>2 DEF Infos, Lives
  <2>2. life \in Nat
    BY DEF TypeOK, Lives
  <2> QED
    BY <2>1, <2>2 DEF RecordsOfThePast
<1>4. RecordsOfThePast'
  <2>1. \A b \in AllBlocks : dht[b] # Absent => dht[b].life \in Nat
    BY <1>2 DEF Infos, Lives
  <2>2. life \in Nat
    BY DEF TypeOK, Lives
  <2> QED
    BY <1>3, <2>1, <2>2 DEF RecordsOfThePast
<1>5. OnlineWhenLoaded'
  <2> SUFFICES ASSUME NEW b \in AllBlocks, dht[b] # Absent, dht[b].life = life'
               PROVE  FALSE
    BY DEF OnlineWhenLoaded
  <2>1. dht[b].life \in Nat
    BY <1>2 DEF Infos, Lives
  <2> QED
    BY <1>3, <2>1
<1>6. RecordsNameTheirBlock'
  BY DEF RecordsNameTheirBlock
<1> QED
  BY <1>1, <1>4, <1>5, <1>6

\* A step of an announcer that stores nothing and copies nothing.
LEMMA AnnouncerMoves ==
  ASSUME RecordInv, UNCHANGED <<main, uids, left, dht>>, NEW l \in Lives,
         NEW from, NEW to, Move(l, from, to), from # "dead", to # "storing",
         \A m \in Lives : m # l => snapshot'[m] = snapshot[m],
         left[l] = {}
  PROVE  RecordParts'
<1> USE DEF RecordInv, RecordParts, main
<1>1. \A m \in Lives : announcer'[m] = IF m = l THEN to ELSE announcer[m]
  BY DEF Move, TypeOK
<1>2. announcer[l] # "dead"
  BY DEF Move
<1>3. OneAnnouncer'
  BY <1>1, <1>2 DEF OneAnnouncer
<1>4. CopyIsOwn'
  BY <1>1 DEF CopyIsOwn
<1>5. JoiningWhileLoading'
  BY <1>1 DEF JoiningWhileLoading
<1>6. RecordsOfThePast' /\ OnlineWhenLoaded' /\ RecordsNameTheirBlock'
  BY DEF RecordsOfThePast, OnlineWhenLoaded, RecordsNameTheirBlock
<1> QED
  BY <1>3, <1>4, <1>5, <1>6

LEMMA ChooseStep ==
  ASSUME RecordInv, NEW f \in 0 .. NumBlocks - Length, Choose(f)
  PROVE  RecordParts'
<1> USE DEF RecordInv, RecordParts, Choose
<1>1. \A l \in Lives : announcer'[l] = IF l = life THEN "top" ELSE announcer[l]
  BY DEF TypeOK
<1>2. \A l \in Lives : uids'[l] = IF l = life THEN f ELSE uids[l]
  BY DEF TypeOK
<1>3. \A l \in Lives : announcer[l] = "dead"
  BY DEF OneAnnouncer
<1>4. OneAnnouncer'
  BY <1>1, <1>2, <1>3 DEF OneAnnouncer
<1>5. CopyIsOwn' /\ JoiningWhileLoading'
  BY <1>1, <1>3 DEF CopyIsOwn, JoiningWhileLoading
<1>6. \A b \in AllBlocks : dht[b] # Absent => dht[b].life # life
  <2>1. \A b \in AllBlocks : dht[b] # Absent => dht[b].life \in Nat
    BY DEF TypeOK, Infos, Lives
  <2>2. life \in Nat
    BY DEF TypeOK, Lives
  <2> QED
    BY <2>1, <2>2 DEF RecordsOfThePast
<1>7. RecordsOfThePast' /\ OnlineWhenLoaded' /\ RecordsNameTheirBlock'
  BY <1>6 DEF RecordsOfThePast, OnlineWhenLoaded, RecordsNameTheirBlock
<1> QED
  BY <1>4, <1>5, <1>7

LEMMA DeclareStep ==
  ASSUME RecordInv, NEW l \in Lives, Declare(l)
  PROVE  RecordParts'
<1> USE DEF RecordInv, RecordParts, Declare, main
<1>1. \A m \in Lives : announcer'[m] = IF m = l THEN "storing" ELSE announcer[m]
  BY DEF Move, TypeOK
<1>2. l = life /\ uids[l] = first
  BY DEF Move, OneAnnouncer
<1>3. \A m \in Lives :
        snapshot'[m] = IF m = l THEN [state |-> state, first |-> first, life |-> l] ELSE snapshot[m]
  BY DEF TypeOK
<1>4. \A m \in Lives : left'[m] = IF m = l THEN Own(uids[l]) ELSE left[m]
  BY DEF TypeOK
<1>5. [state |-> state, first |-> first, life |-> l] \in Infos
  BY DEF TypeOK, Infos
<1>6. OneAnnouncer'
  BY <1>1 DEF OneAnnouncer, Move
<1>7. CopyIsOwn'
  BY <1>1, <1>2, <1>3, <1>4, <1>5 DEF CopyIsOwn
<1>8. JoiningWhileLoading'
  BY <1>1, <1>3 DEF JoiningWhileLoading
<1>9. RecordsOfThePast' /\ OnlineWhenLoaded' /\ RecordsNameTheirBlock'
  BY DEF RecordsOfThePast, OnlineWhenLoaded, RecordsNameTheirBlock
<1> QED
  BY <1>6, <1>7, <1>8, <1>9

\* What an announcer stores is of the container that runs, under a key of its own.
LEMMA StoreOwn ==
  ASSUME RecordInv, NEW l \in Lives, NEW b \in AllBlocks, Store(l, b)
  PROVE  /\ l = life /\ phase # "choosing"
         /\ snapshot[l] \in Infos /\ snapshot[l].life = l
         /\ b \in Own(snapshot[l].first)
         /\ \A c \in AllBlocks : dht'[c] = IF c = b THEN snapshot[l] ELSE dht[c]
<1> USE DEF RecordInv, RecordParts, Store
<1>1. l = life /\ phase # "choosing"
  BY DEF OneAnnouncer
<1>2. snapshot[l] \in Infos /\ snapshot[l].life = l /\ b \in Own(snapshot[l].first)
  BY DEF CopyIsOwn
<1>3. \A c \in AllBlocks : dht'[c] = IF c = b THEN snapshot[l] ELSE dht[c]
  BY DEF TypeOK
<1> QED
  BY <1>1, <1>2, <1>3

LEMMA StoreStep ==
  ASSUME RecordInv, NEW l \in Lives, NEW b \in AllBlocks, Store(l, b)
  PROVE  RecordParts'
<1> USE DEF RecordInv, RecordParts
<1>1. UNCHANGED <<main, announcer, uids, snapshot>>
  BY DEF Store
<1> USE DEF main
<1>2. \A m \in Lives : left'[m] = IF m = l THEN left[l] \ {b} ELSE left[m]
  BY DEF Store, TypeOK
<1>3. OneAnnouncer' /\ JoiningWhileLoading'
  BY <1>1 DEF OneAnnouncer, JoiningWhileLoading
<1>4. CopyIsOwn'
  BY <1>1, <1>2 DEF CopyIsOwn, Store
<1>5. life \in Nat
  BY DEF TypeOK, Lives
<1>6. RecordsOfThePast'
  BY <1>1, <1>5, StoreOwn DEF RecordsOfThePast
<1>7. phase = "loading" => snapshot[l].state = "JOINING"
  BY DEF JoiningWhileLoading, Store
<1>8. OnlineWhenLoaded'
  BY <1>1, <1>7, StoreOwn DEF OnlineWhenLoaded
<1>9. RecordsNameTheirBlock'
  BY StoreOwn DEF RecordsNameTheirBlock
<1> QED
  BY <1>3, <1>4, <1>6, <1>8, <1>9

LEMMA ExpireStep ==
  ASSUME RecordInv, NEW b \in AllBlocks, Expire(b)
  PROVE  RecordParts'
<1> USE DEF RecordInv, RecordParts
<1>1. UNCHANGED <<main, thread>>
  BY DEF Expire
<1>2. \A c \in AllBlocks : dht'[c] = IF c = b THEN Absent ELSE dht[c]
  BY DEF Expire, TypeOK
<1> USE <1>1 DEF main, thread
<1>3. OneAnnouncer' /\ JoiningWhileLoading' /\ CopyIsOwn'
  BY DEF OneAnnouncer, JoiningWhileLoading, CopyIsOwn
<1>4. RecordsOfThePast' /\ OnlineWhenLoaded' /\ RecordsNameTheirBlock'
  BY <1>2 DEF RecordsOfThePast, OnlineWhenLoaded, RecordsNameTheirBlock
<1> QED
  BY <1>3, <1>4

LEMMA CrashStep ==
  ASSUME RecordInv, Crash
  PROVE  RecordParts'
<1> USE DEF RecordInv, RecordParts, Crash
<1>1. OneAnnouncer' /\ CopyIsOwn' /\ JoiningWhileLoading'
  BY DEF OneAnnouncer, CopyIsOwn, JoiningWhileLoading
<1>2. RecordsOfThePast' /\ OnlineWhenLoaded' /\ RecordsNameTheirBlock'
  BY DEF RecordsOfThePast, OnlineWhenLoaded, RecordsNameTheirBlock
<1> QED
  BY <1>1, <1>2

-----------------------------------------------------------------------------
LEMMA TypeStep == TypeOK /\ [Next]_vars => TypeOK'
<1> SUFFICES ASSUME TypeOK, [Next]_vars PROVE TypeOK'
  OBVIOUS
<1> USE DEF TypeOK, main, thread
<1>1. ASSUME NEW f \in 0 .. NumBlocks - Length, Choose(f) PROVE TypeOK'
  BY <1>1 DEF Choose, States
<1>2. CASE Loaded \/ LoadFails \/ \E why \in {"stop", "other"} : Leave(why)
  BY <1>2 DEF Loaded, LoadFails, Leave, Announce, States
<1> life < MaxLives => life + 1 \in Lives
  BY LifecycleAssumption DEF Lives
<1>3. CASE Joined \/ GoOn
  BY <1>3 DEF Joined, GoOn
<1>4. CASE Crash
  BY <1>4 DEF Crash
<1>5. CASE Restart
  BY <1>5 DEF Restart, States
<1>6. ASSUME NEW l \in Lives, Announcer(l) \/ PeriodEnds(l) PROVE TypeOK'
  <2>1. CASE Declare(l)
    <3>1. [state |-> state, first |-> first, life |-> l] \in Infos
      BY DEF Infos
    <3>2. Own(uids[l]) \subseteq AllBlocks
      BY OwnInRange
    <3> QED
      BY <2>1, <3>1, <3>2 DEF Declare, Move
  <2>2. CASE Check(l)
    BY <2>2 DEF Check, Declared, OfflineEnds, Move
  <2>3. CASE Wake(l) \/ PeriodEnds(l) \/ Clear(l)
    BY <2>3 DEF Wake, PeriodEnds, Wait, Clear, Move
  <2>4. ASSUME NEW b \in AllBlocks, Store(l, b) PROVE TypeOK'
    BY <2>4 DEF Store
  <2> QED
    BY <1>6, <2>1, <2>2, <2>3, <2>4 DEF Announcer
<1>7. ASSUME NEW b \in AllBlocks, Expire(b) PROVE TypeOK'
  BY <1>7 DEF Expire
<1>8. CASE UNCHANGED vars
  BY <1>8 DEF vars
<1> QED
  BY <1>1, <1>2, <1>3, <1>4, <1>5, <1>6, <1>7, <1>8 DEF Next, Shutdown

LEMMA RecordStep == RecordInv /\ [Next]_vars => RecordInv'
<1> SUFFICES ASSUME RecordInv, [Next]_vars PROVE RecordParts'
  BY TypeStep DEF RecordInv
<1>1. ASSUME NEW f \in 0 .. NumBlocks - Length, Choose(f) PROVE RecordParts'
  BY <1>1, ChooseStep
<1>2. CASE Loaded \/ LoadFails \/ \E why \in {"stop", "other"} : Leave(why)
  BY <1>2, MainMoves DEF Loaded, LoadFails, Leave
<1>3. CASE Joined
  BY <1>3, MainMoves DEF Joined
<1>4. \A l \in Lives : phase \in {"down", "crashed", "failed", "exited"} => announcer[l] = "dead"
  BY DEF RecordInv, RecordParts, OneAnnouncer
<1>5. CASE GoOn
  <2>1. CASE reason = "stop"
    <3>1. announcer[life] = "dead"
      BY <1>4, <1>5 DEF GoOn, RecordInv, TypeOK
    <3> QED
      BY <1>5, <2>1, <3>1, MainMoves DEF GoOn
  <2>2. CASE reason # "stop"
    BY <1>4, <1>5, <2>2, NextContainer DEF GoOn
  <2> QED
    BY <2>1, <2>2
<1>6. CASE Crash
  BY <1>6, CrashStep
<1>7. CASE Restart
  BY <1>4, <1>7, NextContainer DEF Restart
<1>8. ASSUME NEW l \in Lives, Announcer(l) \/ PeriodEnds(l) PROVE RecordParts'
  <2>1. CASE Check(l)
    <3>1. OfflineEnds # "storing"
      BY DEF OfflineEnds
    <3>2. \A m \in Lives : m # l => snapshot'[m] = snapshot[m]
      BY <2>1 DEF Check, Declared, RecordInv, TypeOK
    <3> QED
      BY <2>1, <3>1, <3>2, AnnouncerMoves DEF Check, Declared
  <2>2. left[l] = {} \/ announcer[l] = "storing"
    BY DEF RecordInv, RecordParts, CopyIsOwn
  <2>3. CASE Wake(l) \/ PeriodEnds(l)
    <3>1. Move(l, "waiting", "woken") /\ UNCHANGED <<main, uids, left, dht, snapshot>>
      BY <2>3 DEF Wake, PeriodEnds, Wait
    <3>2. left[l] = {}
      BY <2>2, <3>1 DEF Move
    <3> QED
      BY <3>1, <3>2, AnnouncerMoves
  <2>4. CASE Clear(l)
    <3>1. Move(l, "woken", "top") /\ UNCHANGED <<main, uids, left, dht, snapshot>>
      BY <2>4 DEF Clear
    <3>2. left[l] = {}
      BY <2>2, <3>1 DEF Move
    <3> QED
      BY <3>1, <3>2, AnnouncerMoves
  <2>5. CASE Declare(l)
    BY <2>5, DeclareStep
  <2>6. ASSUME NEW b \in AllBlocks, Store(l, b) PROVE RecordParts'
    BY <2>6, StoreStep
  <2> QED
    BY <1>8, <2>1, <2>3, <2>4, <2>5, <2>6 DEF Announcer
<1>9. ASSUME NEW b \in AllBlocks, Expire(b) PROVE RecordParts'
  BY <1>9, ExpireStep
<1>10. CASE UNCHANGED vars
  BY <1>10 DEF vars, RecordInv, RecordParts, OneAnnouncer, CopyIsOwn, JoiningWhileLoading,
               RecordsOfThePast, OnlineWhenLoaded, RecordsNameTheirBlock
<1> QED
  BY <1>1, <1>2, <1>3, <1>5, <1>6, <1>7, <1>8, <1>9, <1>10 DEF Next, Shutdown

\* RecordInv is inductive.
THEOREM RecordsSound == Spec => []RecordInv
<1> QED
  BY RecordInvInit, RecordStep, PTL DEF Spec

\* Whatever the main thread and the announcer do between two of each other's steps,
\* a record says ONLINE only of a container whose blocks are loaded, and names a
\* span that has the block it is stored under.
THEOREM RecordsTrue == Spec => [](OnlineWhenLoaded /\ RecordsNameTheirBlock)
<1>1. RecordInv => OnlineWhenLoaded /\ RecordsNameTheirBlock
  BY DEF RecordInv, RecordParts
<1> QED
  BY RecordsSound, <1>1, PTL

\* What a run checks of the records: they are of their types, and the span each of
\* them names has the block, however announcements, crashes and expiries interleave.
THEOREM RecordsOfTheServer == Spec => []RecordsConsistent
<1>1. RecordInv => RecordsConsistent
  BY DEF RecordInv, RecordParts, RecordsConsistent
<1> QED
  BY RecordsSound, <1>1, PTL

\* A record is only replaced by one of the same container or of a later one: the
\* announcer is joined before the next container is made.
THEOREM RecordsGetNewer == Spec => NewsOnly
<1> DEFINE Newer ==
      \A b \in AllBlocks : dht[b] # Absent /\ dht'[b] # Absent => dht[b].life <= dht'[b].life
<1>1. RecordInv /\ RecordInv' /\ [Next]_vars => [Newer]_vars
  <2> SUFFICES ASSUME RecordInv, [Next]_vars PROVE Newer \/ UNCHANGED vars
    OBVIOUS
  <2>1. \A b \in AllBlocks : dht[b] # Absent => dht[b].life \in Nat /\ dht[b].life <= life
    BY DEF RecordInv, RecordParts, RecordsOfThePast, TypeOK, Infos, Lives
  <2>2. CASE UNCHANGED dht
    BY <2>1, <2>2
  <2>3. ASSUME NEW l \in Lives, NEW b \in AllBlocks, Store(l, b) PROVE Newer
    BY <2>1, <2>3, StoreOwn
  <2>4. ASSUME NEW b \in AllBlocks, Expire(b) PROVE Newer
    <3>1. \A c \in AllBlocks : dht'[c] = IF c = b THEN Absent ELSE dht[c]
      BY <2>4 DEF Expire, RecordInv, TypeOK
    <3> QED
      BY <2>1, <3>1
  <2>5. \/ UNCHANGED dht
        \/ \E l \in Lives, b \in AllBlocks : Store(l, b)
        \/ \E b \in AllBlocks : Expire(b)
    BY DEF Next, vars, Choose, Loaded, LoadFails, Leave, Shutdown, Joined, GoOn, Crash, Restart,
           Announcer, Declare, Check, Declared, Wake, PeriodEnds, Wait, Clear
  <2> QED
    BY <2>2, <2>3, <2>4, <2>5
<1> QED
  BY RecordsSound, <1>1, PTL DEF Spec, NewsOnly
=============================================================================
