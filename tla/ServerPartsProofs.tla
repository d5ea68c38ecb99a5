-------------------------- MODULE ServerPartsProofs --------------------------
(***************************************************************************)
(* Theorems about what a server does besides answering, which MCServer     *)
(* checks side by side on small instances:                                 *)
(*   DiskCache    for any number of servers, shards and adapters, whatever *)
(*                their sizes and however many of them fail or die, a file *)
(*                in use stays, and the shards whose size the hub reports  *)
(*                fit into max_disk_space,                                 *)
(*   Swarm        for any number of servers, blocks and speeds, a decision *)
(*                to move that nobody overtook leaves no block without a   *)
(*                server,                                                  *)
(*   CacheSizing  for any models, devices and sessions, what was sized     *)
(*                fits and what was promised is held.                      *)
(***************************************************************************)
EXTENDS DiskCache, SumProofs

-----------------------------------------------------------------------------
(* The disk cache.                                                         *)

\* A shard is a file of the model: neither its index nor an adapter.
DiskAssumption ==
  /\ Loads \subseteq SUBSET (Shards \cup Adapters)
  /\ Shards \cap (Adapters \cup {Index}) = {} /\ SizedShards \subseteq Shards
  /\ \A f \in Shards \cup Adapters \cup {Index} : Size(f) \in Nat
  /\ MaxSpace \in Nat /\ Spares \subseteq Int

Weights == Shards \cup Adapters
Files == Weights \cup {Index}

DiskTyped ==
  /\ phase \in [Servers -> Phases]
  /\ file \in [Servers -> Weights \cup {NoFile}]
  /\ left \in [Servers -> SUBSET Weights]
  /\ files \subseteq Files /\ IsFiniteSet(files)

\* A server that wants a lock, or has it, knows what for.
Loading == Shared \cup Exclusive \cup {"wantShared", "wantExclusive", "sleep"}
FileKnown == \A s \in Servers : phase[s] \in Loading => file[s] \in Weights

\* Who has the exclusive lock has it alone.
LocksApart ==
  \A r, s \in Servers : phase[s] \in Exclusive /\ phase[r] \in Shared \cup Exclusive => r = s

InUse == {"reading", "readNew"}
ReadersHaveFiles == \A s \in Servers : phase[s] \in InUse => file[s] \in files

\* The shards of a reported size fit, and so does such a one while it is downloaded.
ShardsFit == Used(files \cap SizedShards) <= MaxSpace
RoomMade ==
  \A s \in Servers :
    phase[s] = "download" /\ file[s] \in SizedShards => Used(files \cap SizedShards) + Size(file[s]) <= MaxSpace

DiskParts ==
  /\ DiskTyped
  /\ FileKnown
  /\ LocksApart
  /\ ReadersHaveFiles
  /\ ShardsFit
  /\ RoomMade
-----------------------------------------------------------------------------
\* What files take up is their sum, in whatever order they are added up.

Sizes == [f \in Files |-> Size(f)]

LEMMA UsedIsSum ==
  ASSUME NEW S, S \subseteq Files, IsFiniteSet(S) PROVE Used(S) = Sum(Sizes, S)
<1>1. PICK g : SumGraph(Sizes, S, g)
  BY SumExists
<1>2. \A s \in SUBSET S : s # {} => Sizes[First(s)] = Size(First(s))
  BY FirstIn DEF Sizes
<1>3. g = [s \in SUBSET S |-> IF s = {} THEN 0 ELSE Size(First(s)) + g[s \ {First(s)}]]
  BY <1>1, <1>2 DEF SumGraph
<1>4. PICK iter : iter = CHOOSE h :
        h = [s \in SUBSET S |-> IF s = {} THEN 0 ELSE Size(First(s)) + h[s \ {First(s)}]]
  OBVIOUS
<1>5. Used(S) = iter[S]
  BY <1>4 DEF Used, MapThenSumSet, MapThenFoldSet, First
<1>6. iter = [s \in SUBSET S |-> IF s = {} THEN 0 ELSE Size(First(s)) + iter[s \ {First(s)}]]
  BY <1>3, <1>4
<1>7. SumGraph(Sizes, S, iter)
  BY <1>2, <1>6 DEF SumGraph
<1> QED
  BY <1>5, <1>7, SumOfGraph

LEMMA SizesTyped == ASSUME DiskAssumption PROVE Sizes \in [Files -> Nat]
BY DEF DiskAssumption, Sizes, Files, Weights

LEMMA UsedTyped ==
  ASSUME DiskAssumption, NEW S, S \subseteq Files, IsFiniteSet(S) PROVE Used(S) \in Nat
BY UsedIsSum, SizesTyped, SumTyped

LEMMA UsedAdd ==
  ASSUME DiskAssumption, NEW S, S \subseteq Files, IsFiniteSet(S), NEW f \in Files, f \notin S
  PROVE  Used(S \cup {f}) = Used(S) + Size(f)
<1>1. PICK T : T = S \cup {f}
  OBVIOUS
<1>2. T \subseteq Files /\ IsFiniteSet(T)
  BY <1>1, FS_AddElement
<1>3. Used(T) = Sum(Sizes, T) /\ Used(S) = Sum(Sizes, S)
  BY <1>2, UsedIsSum
<1>4. Sum(Sizes, S \cup {f}) = Sum(Sizes, S) + Sizes[f]
  BY SizesTyped, SumAdd
<1> QED
  BY <1>1, <1>3, <1>4 DEF Sizes

LEMMA UsedSplit ==
  ASSUME DiskAssumption, NEW S, S \subseteq Files, IsFiniteSet(S), NEW T, T \subseteq S
  PROVE  Used(S) = Used(T) + Used(S \ T)
<1>1. PICK R : R = S \ T
  OBVIOUS
<1>2. R \subseteq Files /\ T \subseteq Files /\ IsFiniteSet(R) /\ IsFiniteSet(T)
  BY <1>1, FS_Subset
<1>3. Used(S) = Sum(Sizes, S) /\ Used(T) = Sum(Sizes, T) /\ Used(R) = Sum(Sizes, R)
  BY <1>2, UsedIsSum
<1>4. Sum(Sizes, S) = Sum(Sizes, T) + Sum(Sizes, S \ T)
  BY SizesTyped, SumSplit
<1> QED
  BY <1>1, <1>3, <1>4

LEMMA UsedMonotone ==
  ASSUME DiskAssumption, NEW S, S \subseteq Files, IsFiniteSet(S), NEW T, T \subseteq S
  PROVE  Used(T) <= Used(S)
<1>1. PICK R : R = S \ T
  OBVIOUS
<1>2. R \subseteq Files /\ T \subseteq Files /\ IsFiniteSet(R) /\ IsFiniteSet(T)
  BY <1>1, FS_Subset
<1>3. Used(S) = Used(T) + Used(R)
  BY <1>1, UsedSplit
<1>4. Used(T) \in Nat /\ Used(R) \in Nat
  BY <1>2, UsedTyped
<1>5. PICK x, y \in Nat : x = Used(T) /\ y = Used(R)
  BY <1>4
<1>6. Used(S) = x + y
  BY <1>3, <1>5
<1> QED
  BY <1>5, <1>6
-----------------------------------------------------------------------------
\* A server moves on without touching a file.
LEMMA DiskMove ==
  ASSUME DiskParts, NEW s \in Servers, NEW p \in Phases, GoTo(s, p), UNCHANGED <<files, left>>,
         NEW f \in Weights \cup {NoFile}, file' = [file EXCEPT ![s] = f],
         p \in Loading => f \in Weights,
         p \in Shared => phase[s] \in Shared \/ \A r \in Servers : phase[r] \notin Exclusive,
         p \in Exclusive =>
           phase[s] \in Exclusive \/ \A r \in Servers : phase[r] \notin Shared \cup Exclusive,
         p \in InUse => f \in files,
         p = "download" /\ f \in SizedShards => Used(files \cap SizedShards) + Size(f) <= MaxSpace
  PROVE  DiskParts'
<1>1. \A r \in Servers : /\ phase'[r] = IF r = s THEN p ELSE phase[r]
                         /\ file'[r] = IF r = s THEN f ELSE file[r]
  BY DEF DiskParts, DiskTyped, GoTo
<1>2. DiskTyped'
  BY DEF DiskParts, DiskTyped, GoTo
<1>3. FileKnown' /\ ReadersHaveFiles'
  BY <1>1 DEF DiskParts, FileKnown, ReadersHaveFiles
<1>4. LocksApart'
  BY <1>1 DEF DiskParts, LocksApart
<1>5. ShardsFit' /\ RoomMade'
  BY <1>1 DEF DiskParts, ShardsFit, RoomMade
<1> QED
  BY <1>2, <1>3, <1>4, <1>5 DEF DiskParts

\* A server moves on with its file.
LEMMA DiskGo ==
  ASSUME DiskParts, NEW s \in Servers, NEW p \in Phases, GoTo(s, p), UNCHANGED <<files, left, file>>,
         p \in Loading => phase[s] \in Loading,
         p \in Shared => phase[s] \in Shared \/ \A r \in Servers : phase[r] \notin Exclusive,
         p \in Exclusive =>
           phase[s] \in Exclusive \/ \A r \in Servers : phase[r] \notin Shared \cup Exclusive,
         p \in InUse => file[s] \in files,
         p = "download" /\ file[s] \in SizedShards => Used(files \cap SizedShards) + Size(file[s]) <= MaxSpace
  PROVE  DiskParts'
<1>1. file' = [file EXCEPT ![s] = file[s]] /\ file[s] \in Weights \cup {NoFile}
  BY DEF DiskParts, DiskTyped
<1>2. p \in Loading => file[s] \in Weights
  BY DEF DiskParts, FileKnown
<1> QED
  BY <1>1, <1>2, DiskMove

\* A server adds a file that the bound does not count, or one there is room for.
LEMMA DiskAdd ==
  ASSUME DiskAssumption, DiskParts, NEW s \in Servers, NEW p \in Phases, GoTo(s, p), UNCHANGED <<left, file>>,
         NEW f \in Files, files' = files \cup {f},
         p \in Loading => phase[s] \in Loading,
         p \in Shared => phase[s] \in Shared,
         p \in Exclusive => phase[s] \in Exclusive,
         p \in InUse => file[s] = f,
         p # "download",
         f \in SizedShards => phase[s] = "download" /\ file[s] = f
  PROVE  DiskParts'
<1>1. \A r \in Servers : phase'[r] = IF r = s THEN p ELSE phase[r]
  BY DEF DiskParts, DiskTyped, GoTo
<1>2. DiskTyped'
  <2>1. files' \subseteq Files /\ IsFiniteSet(files')
    BY FS_AddElement DEF DiskParts, DiskTyped
  <2> QED
    BY <2>1 DEF DiskParts, DiskTyped, GoTo
<1>3. FileKnown' /\ ReadersHaveFiles' /\ LocksApart'
  BY <1>1 DEF DiskParts, FileKnown, ReadersHaveFiles, LocksApart
<1>4. CASE f \notin SizedShards \/ f \in files
  <2>1. files' \cap SizedShards = files \cap SizedShards
    BY <1>4
  <2>2. ShardsFit'
    BY <2>1 DEF DiskParts, ShardsFit
  <2>3. RoomMade'
    BY <2>1, <1>1 DEF DiskParts, RoomMade
  <2> QED
    BY <2>2, <2>3, <1>2, <1>3 DEF DiskParts
<1>5. CASE f \in SizedShards /\ f \notin files
  <2>1. PICK S : S = files \cap SizedShards
    OBVIOUS
  <2>2. S \subseteq Files /\ IsFiniteSet(S) /\ f \notin S /\ files' \cap SizedShards = S \cup {f}
    BY <2>1, <1>5, FS_Intersection DEF DiskParts, DiskTyped
  <2>3. Used(S \cup {f}) = Used(S) + Size(f)
    BY <2>2, UsedAdd
  <2>4. Used(S) + Size(f) <= MaxSpace
    BY <2>1, <1>5 DEF DiskParts, RoomMade
  <2>5. ShardsFit'
    BY <2>2, <2>3, <2>4 DEF ShardsFit
  <2>6. \A r \in Servers \ {s} : phase[r] # "download"
    BY <1>5 DEF DiskParts, LocksApart, Exclusive
  <2>7. RoomMade'
    BY <2>6, <1>1 DEF RoomMade
  <2> QED
    BY <2>5, <2>7, <1>2, <1>3 DEF DiskParts
<1> QED
  BY <1>4, <1>5

\* Whatever files are removed, room is made if it was found enough.
LEMMA DiskFree ==
  ASSUME DiskAssumption, DiskParts, NEW s \in Servers, phase[s] = "space", UNCHANGED <<file, left>>,
         NEW size \in Nat, size = Size(file[s]), NEW space \in Int, space <= MaxSpace - Used(files),
         NEW needed, needed = size - space, MakeRoom(s, needed)
  PROVE  DiskParts'
<1>1. phase[s] \in Exclusive /\ phase[s] \in Loading /\ needed \in Int
  BY DEF Exclusive, Loading
<1>2. PICK total \in Nat : total = Used(files) /\ needed + MaxSpace >= size + total
  <2>1. Used(files) \in Nat /\ MaxSpace \in Nat
    BY UsedTyped DEF DiskParts, DiskTyped, DiskAssumption
  <2> QED
    BY <2>1
<1>3. "download" \in Phases /\ "sleep" \in Phases
  BY DEF Phases, Exclusive
<1>4. PICK kept : kept = files \cap SizedShards
  OBVIOUS
<1>5. files \subseteq Files /\ IsFiniteSet(files) /\ MaxSpace \in Nat
  BY DEF DiskParts, DiskTyped, DiskAssumption
<1>6. CASE needed <= 0 /\ UNCHANGED files /\ GoTo(s, "download")
  <2>1. Used(kept) <= Used(files)
    BY <1>4, <1>5, UsedMonotone
  <2>2. Used(kept) \in Nat /\ Used(files) \in Nat
    <3>1. kept \subseteq Files /\ IsFiniteSet(kept)
      BY <1>4, <1>5, FS_Subset
    <3> QED
      BY <3>1, <1>5, UsedTyped
  <2>3. Used(kept) + size <= MaxSpace
    BY <2>1, <2>2, <1>1, <1>2, <1>5, <1>6
  <2> QED
    BY <2>3, <1>1, <1>2, <1>3, <1>4, <1>6, DiskGo DEF Loading, Exclusive, Shared, InUse
<1>7. CASE \E gone \in Removals(needed) :
             /\ files' = files \ gone
             /\ GoTo(s, IF Used(gone) >= needed THEN "download" ELSE "sleep")
  <2>1. PICK gone \in SUBSET files :
          /\ files' = files \ gone
          /\ GoTo(s, IF Used(gone) >= needed THEN "download" ELSE "sleep")
    BY <1>7 DEF Removals
  <2>2. PICK p \in {"download", "sleep"} : GoTo(s, p) /\ (p = "download" => Used(gone) >= needed)
    BY <2>1
  <2>3. \A r \in Servers : phase'[r] = IF r = s THEN p ELSE phase[r]
    BY <2>2 DEF DiskParts, DiskTyped, GoTo
  <2>4. PICK rest : rest = files \ gone
    OBVIOUS
  <2>5. PICK now : now = rest \cap SizedShards
    OBVIOUS
  <2>6. /\ rest \subseteq Files /\ IsFiniteSet(rest) /\ gone \subseteq Files /\ IsFiniteSet(gone)
        /\ now \subseteq Files /\ IsFiniteSet(now) /\ kept \subseteq Files /\ IsFiniteSet(kept)
        /\ now \subseteq rest /\ now \subseteq kept
    BY <2>4, <2>5, <1>4, <1>5, FS_Subset
  <2>7. files' = rest /\ files' \cap SizedShards = now
    BY <2>1, <2>4, <2>5
  <2>8. DiskTyped'
    BY <2>2, <2>6, <2>7, <1>1, <1>3 DEF DiskParts, DiskTyped, GoTo
  <2>9. \A r \in Servers \ {s} : phase[r] \notin Shared \cup Exclusive
    BY <1>1 DEF DiskParts, LocksApart
  <2>10. FileKnown'
    BY <2>3, <1>1 DEF DiskParts, FileKnown
  <2>11. LocksApart'
    BY <2>3, <2>9 DEF LocksApart
  <2>12. ReadersHaveFiles'
    BY <2>3, <2>9, <1>1 DEF ReadersHaveFiles, InUse, Shared, Exclusive
  <2>13. Used(now) \in Nat /\ Used(kept) \in Nat /\ Used(rest) \in Nat /\ Used(gone) \in Nat
    BY <2>6, UsedTyped
  <2>14. ShardsFit'
    <3>1. Used(now) <= Used(kept)
      BY <2>6, UsedMonotone
    <3>2. Used(kept) <= MaxSpace
      BY <1>4 DEF DiskParts, ShardsFit
    <3> QED
      BY <3>1, <3>2, <2>7, <2>13, <1>5 DEF ShardsFit
  <2>15. RoomMade'
    <3>1. Used(files) = Used(gone) + Used(rest)
      BY <2>4, <1>5, UsedSplit
    <3>2. Used(now) <= Used(rest)
      BY <2>6, UsedMonotone
    <3>3. p = "download" => Used(now) + size <= MaxSpace
      BY <3>1, <3>2, <2>2, <2>13, <1>1, <1>2, <1>5
    <3>4. \A r \in Servers \ {s} : phase'[r] # "download"
      BY <2>3, <2>9 DEF Exclusive
    <3> QED
      BY <3>3, <3>4, <2>3, <2>7, <1>1, <1>2 DEF RoomMade
  <2> QED
    BY <2>8, <2>10, <2>11, <2>12, <2>14, <2>15 DEF DiskParts
<1> QED
  BY <1>6, <1>7 DEF MakeRoom

\* The volume never offers more than max_disk_space allows.
LEMMA LesserOf ==
  ASSUME NEW x \in Int, NEW y \in Int PROVE Min({x, y}) \in Int /\ Min({x, y}) <= y
BY DEF Min

LEMMA DiskStep ==
  ASSUME DiskAssumption, DiskParts, [NextDisk]_diskVars PROVE DiskParts'
<1> USE DEF Loading, Shared, Exclusive, InUse, Phases, Measuring, Ended
<1>1. ASSUME NEW s \in Servers,
             \/ ReadTable(s) \/ Measure(s) \/ SaveTable(s) \/ OpenIndex(s) \/ Wake(s)
             \/ LockShared(s) \/ LockExclusive(s) \/ Fail(s) \/ Die(s)
      PROVE  DiskParts'
  <2>1. phase[s] \in Phases
    BY DEF DiskParts, DiskTyped
  <2> QED
    BY <2>1, <1>1, DiskGo DEF ReadTable, Measure, SaveTable, OpenIndex, Wake, LockShared, LockExclusive, Fail, Die
<1>2. ASSUME NEW s \in Servers, FetchIndex(s) PROVE DiskParts'
  <2>1. Index \in Files /\ Index \notin SizedShards
    BY DEF Files, DiskAssumption
  <2> QED
    BY <2>1, <1>2, DiskAdd DEF FetchIndex
<1>3. ASSUME NEW s \in Servers, NextFile(s) PROVE DiskParts'
  <2>1. CASE GoTo(s, "loaded") /\ UNCHANGED file
    BY <2>1, <1>3, DiskGo DEF NextFile
  <2>2. CASE GoTo(s, "wantShared") /\ \E f \in left[s] : file' = [file EXCEPT ![s] = f]
    <3>1. PICK f \in Weights : file' = [file EXCEPT ![s] = f]
      BY <2>2 DEF DiskParts, DiskTyped
    <3>2. "wantShared" \in Phases /\ f \in Weights \cup {NoFile} /\ UNCHANGED <<files, left>>
      BY <1>3 DEF NextFile
    <3> QED
      BY <3>1, <3>2, <2>2, DiskMove
  <2> QED
    BY <2>1, <2>2, <1>3 DEF NextFile
<1>4. ASSUME NEW s \in Servers, LookUp(s) PROVE DiskParts'
  <2>1. phase[s] = "lookup" /\ UNCHANGED <<left, file>>
    BY <1>4 DEF LookUp
  <2>2. file[s] \in Weights /\ file[s] \in Files
    BY <2>1 DEF DiskParts, FileKnown, Files
  <2>3. CASE file[s] \in Adapters
    <3>1. file[s] \notin SizedShards
      BY <2>3 DEF DiskAssumption
    <3>2. files' = files \cup {file[s]} /\ GoTo(s, "reading")
      BY <2>3, <1>4 DEF LookUp
    <3> QED
      BY <3>1, <3>2, <2>1, <2>2, DiskAdd
  <2>4. CASE file[s] \notin Adapters
    <3>1. UNCHANGED files /\ GoTo(s, IF file[s] \in files THEN "reading" ELSE "wantExclusive")
      BY <2>4, <1>4 DEF LookUp
    <3> QED
      BY <3>1, <2>1, DiskGo
  <2> QED
    BY <2>3, <2>4
<1>5. ASSUME NEW s \in Servers, Loaded(s) PROVE DiskParts'
  <2>1. /\ file' = [file EXCEPT ![s] = NoFile] /\ GoTo(s, "next") /\ files' = files
        /\ left' = [left EXCEPT ![s] = left[s] \ {file[s]}]
    BY <1>5 DEF Loaded
  <2>2. \A r \in Servers : /\ phase'[r] = IF r = s THEN "next" ELSE phase[r]
                           /\ file'[r] = IF r = s THEN NoFile ELSE file[r]
    BY <2>1 DEF DiskParts, DiskTyped, GoTo
  <2>3. DiskTyped'
    <3>1. phase' \in [Servers -> Phases]
      BY <2>1 DEF DiskParts, DiskTyped, GoTo
    <3>2. file' \in [Servers -> Weights \cup {NoFile}] /\ left' \in [Servers -> SUBSET Weights]
      BY <2>1 DEF DiskParts, DiskTyped
    <3> QED
      BY <3>1, <3>2, <2>1 DEF DiskParts, DiskTyped
  <2>4. FileKnown' /\ ReadersHaveFiles' /\ LocksApart'
    BY <2>1, <2>2 DEF DiskParts, FileKnown, ReadersHaveFiles, LocksApart
  <2>5. ShardsFit' /\ RoomMade'
    BY <2>1, <2>2 DEF DiskParts, ShardsFit, RoomMade
  <2> QED
    BY <2>3, <2>4, <2>5 DEF DiskParts
<1>6. ASSUME NEW s \in Servers, FreeSpace(s) PROVE DiskParts'
  <2>1. PICK spare \in Spares \cup {MaxSpace} : MakeRoom(s, Size(file[s]) - Available(spare))
    BY <1>6 DEF FreeSpace
  <2>2. phase[s] = "space" /\ UNCHANGED <<file, left>>
    BY <1>6 DEF FreeSpace
  <2>3. Size(file[s]) \in Nat
    BY <2>2 DEF DiskParts, FileKnown, DiskAssumption, Weights
  <2>4. Used(files) \in Nat /\ MaxSpace \in Nat /\ spare \in Int
    BY UsedTyped DEF DiskParts, DiskTyped, DiskAssumption
  <2>5. PICK size \in Nat, limit \in Int : size = Size(file[s]) /\ limit = MaxSpace - Used(files)
    BY <2>3, <2>4
  <2>6. PICK space : space = Available(spare)
    OBVIOUS
  <2>7. space \in Int /\ space <= limit
    BY <2>4, <2>5, <2>6, LesserOf DEF Available
  <2>8. MakeRoom(s, size - space)
    BY <2>1, <2>5, <2>6
  <2> QED
    BY <2>2, <2>5, <2>7, <2>8, DiskFree
<1>7. ASSUME NEW s \in Servers, Download(s) PROVE DiskParts'
  <2>1. phase[s] = "download" /\ UNCHANGED <<left, file>> /\ files' = files \cup {file[s]} /\ GoTo(s, "readNew")
    BY <1>7 DEF Download
  <2>2. file[s] \in Files
    BY <2>1 DEF DiskParts, FileKnown, Files
  <2> QED
    BY <2>1, <2>2, DiskAdd
<1>8. ASSUME NEW s \in Servers, SkipFreeing(s) PROVE DiskParts'
  <2>1. phase[s] = "space" /\ file[s] \notin SizedShards /\ GoTo(s, "download") /\ UNCHANGED <<files, left, file>>
    BY <1>8 DEF SkipFreeing
  <2> QED
    BY <2>1, DiskGo
<1>9. CASE UNCHANGED diskVars
  BY <1>9 DEF diskVars, DiskParts, DiskTyped, FileKnown, LocksApart, ReadersHaveFiles, ShardsFit, RoomMade
<1> QED
  BY <1>1, <1>2, <1>3, <1>4, <1>5, <1>6, <1>7, <1>8, <1>9 DEF NextDisk, LoadStep

LEMMA DiskInit == ASSUME DiskAssumption, InitDisk PROVE DiskParts
<1>1. /\ files = {} /\ phase = [s \in Servers |-> "start"] /\ file = [s \in Servers |-> NoFile]
      /\ left \in [Servers -> Loads]
  BY DEF InitDisk
<1>2. DiskTyped
  <2>1. left \in [Servers -> SUBSET Weights]
    BY <1>1 DEF DiskAssumption, Weights
  <2>2. phase \in [Servers -> Phases]
    BY <1>1 DEF Phases
  <2> QED
    BY <2>1, <2>2, <1>1, FS_EmptySet DEF DiskTyped
<1>3. FileKnown /\ LocksApart /\ ReadersHaveFiles /\ RoomMade
  BY <1>1 DEF FileKnown, LocksApart, ReadersHaveFiles, RoomMade, Loading, Shared, Exclusive, InUse
<1>4. ShardsFit
  <2>1. IsFiniteSet({}) /\ {} \subseteq Files
    BY FS_EmptySet
  <2>2. Used({}) = 0
    BY <2>1, UsedIsSum, SumEmpty
  <2>3. files \cap SizedShards = {}
    BY <1>1
  <2>4. MaxSpace \in Nat
    BY DEF DiskAssumption
  <2> QED
    BY <2>2, <2>3, <2>4 DEF ShardsFit
<1> QED
  BY <1>2, <1>3, <1>4 DEF DiskParts

\* However many servers share the cache directory, fail and die: no file is removed
\* while a server reads it, and those shards whose size the hub reports never take more
\* than max_disk_space, although the other shards, indices and adapters are saved without
\* asking and the volume may be short of space.
THEOREM FilesInUseAreKept ==
  ASSUME DiskAssumption PROVE SpecDisk => []FilesInUseStay
<1>1. DiskParts => FilesInUseStay
  BY DEF DiskParts, DiskTyped, ReadersHaveFiles, ShardsFit, FilesInUseStay, InUse
<1>2. InitDisk => DiskParts
  BY DiskInit
<1>3. DiskParts /\ [NextDisk]_diskVars => DiskParts'
  BY DiskStep
<1> QED
  BY <1>1, <1>2, <1>3, PTL DEF SpecDisk

-----------------------------------------------------------------------------
(* The choice of blocks in a swarm.                                        *)

CONSTANTS Peers, NumBlocks, Length, Speed, Quality, MaxRounds, MaxCrashes, MaxRaces
VARIABLES span, status, pick, stale, crashes, races

SW == INSTANCE Swarm WITH Servers <- Peers, phase <- status

\* Every server has a speed and a number of blocks the model has.
SwarmAssumption ==
  /\ IsFiniteSet(Peers)
  /\ NumBlocks \in Nat \ {0}
  /\ Length \in [Peers -> 1 .. NumBlocks]
  /\ Speed \in [Peers -> Nat \ {0}]

LEMMA MinOfIntegers ==
  ASSUME NEW S, S \subseteq Int, S # {}, NEW K \in Nat, \A x \in S : x + K >= 0
  PROVE  SW!Min(S) \in S /\ \A y \in S : SW!Min(S) <= y
<1>1. PICK N : N = {x + K : x \in S}
  OBVIOUS
<1>2. \A x \in S : x \in Int /\ x + K \in Nat
  OBVIOUS
<1>3. N \subseteq Nat /\ N # {}
  BY <1>1, <1>2
<1>4. PICK n \in N : \A m \in N : ~(m < n)
  BY <1>3, LeastNumber
<1>5. PICK x \in S : n = x + K
  BY <1>1, <1>4
<1>6. ASSUME NEW y \in S PROVE x <= y
  <2>1. y + K \in N /\ ~(y + K < x + K)
    BY <1>1, <1>4, <1>5
  <2> QED
    BY <2>1, <1>2
<1> QED
  BY <1>5, <1>6 DEF SW!Min

\* The servers that have a block, and what they can do for it together.
Holders(spans, b) == {s \in SW!Recorded(spans) : b \in SW!BlocksFrom(spans[s], s)}
Together(S) == SW!MapThenSumSet(LAMBDA s : Speed[s], S)

LEMMA HoldersFinite ==
  ASSUME SwarmAssumption, NEW spans, NEW b
  PROVE  Holders(spans, b) \subseteq Peers /\ IsFiniteSet(Holders(spans, b)) /\ Speed \in [Peers -> Nat]
<1>1. Holders(spans, b) \subseteq Peers
  BY DEF Holders, SW!Recorded
<1> QED
  BY <1>1, FS_Subset DEF SwarmAssumption

LEMMA SpeedsAddUp ==
  ASSUME NEW S, IsFiniteSet(S) PROVE Together(S) = Sum(Speed, S)
<1>1. PICK g : SumGraph(Speed, S, g)
  BY SumExists
<1>2. PICK iter : iter = CHOOSE h :
        h = [s \in SUBSET S |-> IF s = {} THEN 0 ELSE Speed[First(s)] + h[s \ {First(s)}]]
  OBVIOUS
<1>3. Together(S) = iter[S]
  BY <1>2 DEF Together, SW!MapThenSumSet, SW!MapThenFoldSet, First
<1>4. SumGraph(Speed, S, iter)
  BY <1>1, <1>2 DEF SumGraph
<1> QED
  BY <1>3, <1>4, <1>1, SumOfGraph

LEMMA ThroughputIs ==
  ASSUME SwarmAssumption, NEW spans
  PROVE  /\ DOMAIN SW!Throughputs(spans) = 0 .. NumBlocks - 1
         /\ \A b \in 0 .. NumBlocks - 1 : SW!Throughputs(spans)[b] = 1000 * Sum(Speed, Holders(spans, b))
<1>1. SW!Throughputs(spans) = [b \in 0 .. NumBlocks - 1 |-> 1000 * Together(Holders(spans, b))]
  BY DEF SW!Throughputs, Holders, Together
<1>2. \A b : Together(Holders(spans, b)) = Sum(Speed, Holders(spans, b))
  BY HoldersFinite, SpeedsAddUp
<1> QED
  BY <1>1, <1>2

LEMMA WithoutIs ==
  ASSUME SwarmAssumption, NEW spans, NEW s \in Peers
  PROVE  /\ DOMAIN SW!Without(spans, s) = 0 .. NumBlocks - 1
         /\ \A b \in 0 .. NumBlocks - 1 :
              SW!Without(spans, s)[b] = 1000 * Sum(Speed, Holders(spans, b))
                                          - (IF b \in SW!BlocksFrom(spans[s], s) THEN 1001 * Speed[s] ELSE 0)
<1>1. PICK t : t = SW!Throughputs(spans)
  OBVIOUS
<1>2. SW!Without(spans, s) =
        [b \in DOMAIN t |-> t[b] - (IF b \in SW!BlocksFrom(spans[s], s) THEN 1001 * Speed[s] ELSE 0)]
  BY <1>1 DEF SW!Without
<1>3. DOMAIN t = 0 .. NumBlocks - 1 /\ \A b \in 0 .. NumBlocks - 1 : t[b] = 1000 * Sum(Speed, Holders(spans, b))
  BY <1>1, ThroughputIs
<1> QED
  BY <1>2, <1>3

LEMMA SpeedsTyped ==
  ASSUME SwarmAssumption, NEW spans, NEW b
  PROVE  /\ Sum(Speed, Holders(spans, b)) \in Nat
         /\ Holders(spans, b) # {} => Sum(Speed, Holders(spans, b)) >= 1
         /\ \A s : Holders(spans, b) = {s} => Sum(Speed, Holders(spans, b)) = Speed[s]
<1>1. PICK S : S = Holders(spans, b)
  OBVIOUS
<1>2. S \subseteq Peers /\ IsFiniteSet(S) /\ Speed \in [Peers -> Nat]
  BY <1>1, HoldersFinite
<1>3. Sum(Speed, S) \in Nat
  BY <1>2, SumTyped
<1>4. ASSUME NEW s \in S
      PROVE  Sum(Speed, S) = Speed[s] + Sum(Speed, S \ {s}) /\ Sum(Speed, S \ {s}) \in Nat /\ Speed[s] \in Nat \ {0}
  <2>1. S \ {s} \subseteq Peers /\ IsFiniteSet(S \ {s})
    BY <1>2, FS_Subset
  <2> QED
    BY <2>1, <1>2, SumRemove, SumTyped DEF SwarmAssumption
<1>5. S # {} => Sum(Speed, S) >= 1
  <2>1. SUFFICES ASSUME NEW s \in S PROVE Sum(Speed, S) >= 1
    OBVIOUS
  <2>2. PICK m : m = Sum(Speed, S \ {s})
    OBVIOUS
  <2>3. Sum(Speed, S) = Speed[s] + m /\ m \in Nat /\ Speed[s] \in Nat \ {0}
    BY <1>4, <2>2
  <2> QED
    BY <2>3
<1>6. \A s : S = {s} => Sum(Speed, S) = Speed[s]
  <2>1. SUFFICES ASSUME NEW s, S = {s} PROVE Sum(Speed, S) = Speed[s]
    OBVIOUS
  <2>2. S \ {s} = {} /\ Sum(Speed, {}) = 0
    BY <2>1, SumEmpty
  <2>3. s \in S
    BY <2>1
  <2>4. Sum(Speed, S \ {s}) = 0
    BY <2>2
  <2>5. Sum(Speed, S) = Speed[s] + 0 /\ Speed[s] \in Nat
    BY <2>3, <2>4, <1>4
  <2> QED
    BY <2>5
<1> QED
  BY <1>1, <1>3, <1>5, <1>6

\* The lowest throughput of a swarm whose blocks are all served is above eps.
LEMMA WholeIsServed ==
  ASSUME SwarmAssumption, NEW spans, \A b \in 0 .. NumBlocks - 1 : Holders(spans, b) # {}
  PROVE  SW!Lowest(SW!Throughputs(spans)) > 1
<1>1. PICK t : t = SW!Throughputs(spans)
  OBVIOUS
<1>2. PICK T : T = {t[b] : b \in DOMAIN t}
  OBVIOUS
<1>3. ASSUME NEW b \in 0 .. NumBlocks - 1 PROVE t[b] \in Nat /\ t[b] >= 1000
  <2>1. PICK m : m = Sum(Speed, Holders(spans, b))
    OBVIOUS
  <2>2. m \in Nat /\ m >= 1
    BY <2>1, SpeedsTyped
  <2>3. t[b] = 1000 * m
    BY <1>1, <2>1, ThroughputIs
  <2> QED
    BY <2>2, <2>3
<1>4. DOMAIN t = 0 .. NumBlocks - 1 /\ 0 \in DOMAIN t
  BY <1>1, ThroughputIs DEF SwarmAssumption
<1>5. T # {} /\ \A x \in T : x \in Int /\ x >= 1000
  BY <1>2, <1>3, <1>4
<1>6. T \subseteq Int /\ 0 \in Nat /\ \A x \in T : x + 0 >= 0
  BY <1>5
<1>7. SW!Min(T) \in T
  BY <1>5, <1>6, MinOfIntegers
<1>8. SW!Lowest(SW!Throughputs(spans)) = SW!Min(T)
  BY <1>1, <1>2 DEF SW!Lowest
<1> QED
  BY <1>5, <1>7, <1>8

\* No block is left below what the others have for it.
LEMMA LowestIsLowest ==
  ASSUME SwarmAssumption, NEW spans, NEW s \in Peers, NEW b \in 0 .. NumBlocks - 1
  PROVE  SW!Lowest(SW!Without(spans, s)) \in Int /\ SW!Lowest(SW!Without(spans, s)) <= SW!Without(spans, s)[b]
<1>1. PICK t : t = SW!Without(spans, s)
  OBVIOUS
<1>2. PICK T : T = {t[c] : c \in DOMAIN t}
  OBVIOUS
<1>3. Speed[s] \in Nat
  BY DEF SwarmAssumption
<1>4. PICK K : K = 1001 * Speed[s]
  OBVIOUS
<1>5. K \in Nat
  BY <1>3, <1>4
<1>6. ASSUME NEW c \in 0 .. NumBlocks - 1 PROVE t[c] \in Int /\ t[c] + K >= 0
  <2>1. PICK m : m = Sum(Speed, Holders(spans, c))
    OBVIOUS
  <2>2. m \in Nat
    BY <2>1, SpeedsTyped
  <2>3. t[c] = 1000 * m - K \/ t[c] = 1000 * m - 0
    BY <1>1, <1>4, <2>1, WithoutIs
  <2> QED
    BY <1>5, <2>2, <2>3
<1>7. T \subseteq Int /\ t[b] \in T /\ \A x \in T : x + K >= 0
  <2>1. DOMAIN t = 0 .. NumBlocks - 1
    BY <1>1, WithoutIs
  <2> QED
    BY <2>1, <1>2, <1>6
<1>8. SW!Min(T) \in T /\ \A y \in T : SW!Min(T) <= y
  <2>1. T # {}
    BY <1>7
  <2> QED
    BY <2>1, <1>5, <1>7, MinOfIntegers
<1> QED
  BY <1>1, <1>2, <1>7, <1>8 DEF SW!Lowest

\* What _should_choose_other_blocks finds out when it says yes: each block has somebody else.
LEMMA NobodyIsAlone ==
  ASSUME SwarmAssumption, NEW spans, NEW s \in Peers,
         \A b \in 0 .. NumBlocks - 1 : Holders(spans, b) # {},
         ~SW!LeavesAHole(spans, s),
         NEW b \in 0 .. NumBlocks - 1
  PROVE  \E t \in Holders(spans, b) : t # s
<1>1. SUFFICES ASSUME Holders(spans, b) = {s} PROVE FALSE
  OBVIOUS
<1>2. ~(SW!Lowest(SW!Without(spans, s)) <= 0)
  BY WholeIsServed DEF SW!LeavesAHole
<1>3. Speed[s] \in Nat \ {0}
  BY DEF SwarmAssumption
<1>4. s \in Holders(spans, b)
  BY <1>1
<1>5. b \in SW!BlocksFrom(spans[s], s)
  BY <1>4 DEF Holders
<1>6. Sum(Speed, Holders(spans, b)) = Speed[s]
  BY <1>1, SpeedsTyped
<1>7. SW!Without(spans, s)[b] = 1000 * Speed[s] - 1001 * Speed[s]
  BY <1>5, <1>6, WithoutIs
<1> QED
  BY <1>2, <1>3, <1>7, LowestIsLowest

-----------------------------------------------------------------------------
\* The invariant: a decision to leave that no other server overtook is still right.

Decided == \A s \in Peers : status[s] = "leaving" /\ s \notin stale => ~SW!LeavesAHole(span, s)

DecisionsHold ==
  /\ span = [s \in Peers |-> span[s]]
  /\ status = [s \in Peers |-> status[s]]
  /\ stale \subseteq {s \in Peers : status[s] \in SW!Pending}
  /\ Decided

\* A record that changes makes every reading stale that is not acted upon yet.
LEMMA PublishHolds ==
  ASSUME DecisionsHold, NEW s \in Peers, NEW start, NEW p, SW!Publish(s, start),
         status' = [status EXCEPT ![s] = p], p \notin SW!Pending
  PROVE  DecisionsHold'
<1>1. span' = [t \in Peers |-> span'[t]] /\ status' = [t \in Peers |-> status'[t]]
  BY DEF DecisionsHold, SW!Publish
<1>2. status'[s] = p /\ \A t \in Peers : t # s => status'[t] = status[t]
  BY DEF DecisionsHold
<1>3. stale' = (stale \cup {t \in Peers : status[t] \in SW!Pending}) \ {s}
  BY DEF SW!Publish, SW!Overtaken
<1>4. stale' \subseteq {t \in Peers : status'[t] \in SW!Pending}
  BY <1>2, <1>3 DEF DecisionsHold
<1>5. \A t \in Peers : status'[t] = "leaving" => t \in stale'
  BY <1>2, <1>3 DEF SW!Pending
<1> QED
  BY <1>1, <1>4, <1>5 DEF DecisionsHold, Decided

LEMMA InitHolds == SW!InitSwarm => DecisionsHold
BY DEF SW!InitSwarm, DecisionsHold, Decided, SW!Pending

LEMMA StepHolds ==
  ASSUME DecisionsHold, NEW s \in Peers, SW!Step(s) \/ SW!Crash(s) \/ SW!Restart(s)
  PROVE  DecisionsHold'
<1>1. CASE SW!Choose(s)
  <2>1. /\ span' = span /\ stale' = stale /\ status[s] = "away"
        /\ status' = [status EXCEPT ![s] = "chosen"]
    BY <1>1 DEF SW!Choose
  <2> QED
    BY <2>1 DEF DecisionsHold, Decided, SW!Pending, SW!LeavesAHole
<1>2. CASE SW!Announce(s)
  <2>1. SW!Publish(s, pick[s]) /\ status' = [status EXCEPT ![s] = "serving"]
    BY <1>2 DEF SW!Announce
  <2>2. "serving" \notin SW!Pending
    BY DEF SW!Pending
  <2> QED
    BY <2>1, <2>2, PublishHolds
<1>3. CASE SW!Decide(s)
  <2>1. /\ span' = span /\ stale' = stale /\ status[s] = "serving"
        /\ status' = [status EXCEPT ![s] = "leaving"]
        /\ ~SW!LeavesAHole(span, s)
    BY <1>3 DEF SW!Decide, SW!ShouldMove
  <2> QED
    BY <2>1 DEF DecisionsHold, Decided, SW!Pending, SW!LeavesAHole
<1>4. CASE SW!Leave(s)
  <2>1. status' = [status EXCEPT ![s] = "away"] /\ "away" \notin SW!Pending
    BY <1>4 DEF SW!Leave, SW!Pending
  <2>2. CASE SW!Publish(s, SW!NoSpan)
    BY <2>1, <2>2, PublishHolds
  <2>3. CASE SW!LeaveUnseen(s)
    <3>1. span' = span /\ stale' = stale \ {s}
      BY <2>3 DEF SW!LeaveUnseen
    <3> QED
      BY <3>1, <2>1 DEF DecisionsHold, Decided, SW!Pending, SW!LeavesAHole
  <2> QED
    BY <2>2, <2>3, <1>4 DEF SW!Leave
<1>5. CASE SW!Expire(s)
  <2>1. /\ span' = [span EXCEPT ![s] = SW!NoSpan] /\ status' = status
        /\ stale' = stale \cup {t \in Peers : status[t] \in SW!Pending}
    BY <1>5 DEF SW!Expire, SW!Overtaken
  <2>2. stale' \subseteq {t \in Peers : status'[t] \in SW!Pending}
    BY <2>1 DEF DecisionsHold
  <2>3. \A t \in Peers : status'[t] = "leaving" => t \in stale'
    BY <2>1 DEF SW!Pending
  <2>4. span' = [t \in Peers |-> span'[t]] /\ status' = [t \in Peers |-> status'[t]]
    BY <2>1 DEF DecisionsHold
  <2> QED
    BY <2>2, <2>3, <2>4 DEF DecisionsHold, Decided
<1>6. CASE SW!Crash(s)
  <2>1. span' = span /\ stale' = stale \ {s} /\ status' = [status EXCEPT ![s] = "down"]
    BY <1>6 DEF SW!Crash
  <2> QED
    BY <2>1 DEF DecisionsHold, Decided, SW!Pending, SW!LeavesAHole
<1>7. CASE SW!Restart(s)
  <2>1. span' = span /\ stale' = stale /\ status[s] = "down" /\ status' = [status EXCEPT ![s] = "away"]
    BY <1>7 DEF SW!Restart
  <2> QED
    BY <2>1 DEF DecisionsHold, Decided, SW!Pending, SW!LeavesAHole
<1> QED
  BY <1>1, <1>2, <1>3, <1>4, <1>5, <1>6, <1>7 DEF SW!Step

LEMMA StutterHolds == DecisionsHold /\ UNCHANGED SW!swarmVars => DecisionsHold'
BY DEF DecisionsHold, Decided, SW!swarmVars, SW!LeavesAHole

LEMMA WholeMeans == SW!Whole <=> \A b \in 0 .. NumBlocks - 1 : Holders(span, b) # {}
BY DEF SW!Whole, Holders, SW!Recorded

LEMMA LeaveKeepsWhole ==
  ASSUME SwarmAssumption, DecisionsHold, NEW s \in Peers, SW!Leave(s), s \notin stale, SW!Whole
  PROVE  SW!Whole'
<1>1. ~SW!LeavesAHole(span, s)
  BY DEF SW!Leave, DecisionsHold, Decided
<1>2. span' = [span EXCEPT ![s] = SW!NoSpan] \/ span' = span
  BY DEF SW!Leave, SW!Publish, SW!LeaveUnseen
<1>3. \A b \in 0 .. NumBlocks - 1 : \E t \in Holders(span, b) : t # s
  BY <1>1, WholeMeans, NobodyIsAlone
<1>4. \A t \in Peers : t # s => span'[t] = span[t]
  BY <1>2 DEF DecisionsHold
<1> QED
  BY <1>3, <1>4 DEF SW!Whole, Holders, SW!Recorded

\* A server that leaves its blocks because _should_choose_other_blocks said so, and whose
\* reading of the records no other server overtook, leaves no block of a whole swarm
\* without a server: the test for a disjoint swarm, which subtracts a little more than the
\* server's own throughput, is exact, whatever the number of servers and their speeds.
THEOREM DecisionsAreSound ==
  ASSUME SwarmAssumption PROVE SW!SpecSwarm => SW!MovesKeepTheSwarmWhole
<1>1. SW!InitSwarm => DecisionsHold
  BY InitHolds
<1>2. DecisionsHold /\ [SW!NextSwarm]_SW!swarmVars => DecisionsHold'
  BY StepHolds, StutterHolds DEF SW!NextSwarm
<1>3. DecisionsHold /\ [SW!NextSwarm]_SW!swarmVars => [SW!MoveKeepsWhole]_SW!swarmVars
  BY LeaveKeepsWhole DEF SW!MoveKeepsWhole
<1> QED
  BY <1>1, <1>2, <1>3, PTL DEF SW!SpecSwarm, SW!MovesKeepTheSwarmWhole

-----------------------------------------------------------------------------
(* Sizes and promises.                                                     *)

CONSTANTS Models, Reports, Memories, Tokens, Autograd, Headroom, DiskMargin, MaxDisk, Cap, Lengths, MaxSessions
VARIABLES model, line, free, server, room, tokensLeft, basis, sessions

SZ == INSTANCE CacheSizing WITH left <- room

-----------------------------------------------------------------------------
\* The largest and the smallest element of a finite set.

LEMMA MaxOfFinite ==
  ASSUME NEW S, S \subseteq Int, S # {}, IsFiniteSet(S)
  PROVE  SZ!Max(S) \in S /\ \A y \in S : SZ!Max(S) >= y
BY MaxFinite DEF SZ!Max, Max

LEMMA MaxOfTwo == ASSUME NEW a \in Int, NEW b \in Int PROVE SZ!Max({a, b}) = IF a >= b THEN a ELSE b
BY DEF SZ!Max

LEMMA MinOfTwo == ASSUME NEW a \in Int, NEW b \in Int PROVE SZ!Min({a, b}) = IF a <= b THEN a ELSE b
BY DEF SZ!Min

LEMMA MinOfThree ==
  ASSUME NEW a \in Int, NEW b \in Int, NEW c \in Int
  PROVE  /\ SZ!Min({a, b, c}) \in {a, b, c}
         /\ SZ!Min({a, b, c}) <= a /\ SZ!Min({a, b, c}) <= b /\ SZ!Min({a, b, c}) <= c
<1>1. \E m \in {a, b, c} : \A y \in {a, b, c} : m <= y
  OBVIOUS
<1>2. PICK m : m = SZ!Min({a, b, c})
  OBVIOUS
<1>3. m \in {a, b, c} /\ \A y \in {a, b, c} : m <= y
  BY <1>1, <1>2 DEF SZ!Min
<1> QED
  BY <1>2, <1>3

\* What a sequence of values is made of is finite.
LEMMA ValuesFinite ==
  ASSUME NEW f, IsFiniteSet(DOMAIN f), f = [i \in DOMAIN f |-> f[i]]
  PROVE  IsFiniteSet({f[i] : i \in DOMAIN f})
<1>1. PICK T : T = {f[i] : i \in DOMAIN f}
  OBVIOUS
<1>2. f \in Surjection(DOMAIN f, T)
  BY <1>1 DEF Surjection
<1> QED
  BY <1>1, <1>2, FS_Surjection

-----------------------------------------------------------------------------
\* Quotients and products.

LEMMA Quotient ==
  ASSUME NEW a \in Int, NEW n \in Nat \ {0} PROVE a \div n \in Int /\ (a \div n) * n <= a /\ a < (a \div n) * n + n
OBVIOUS

LEMMA QuotientOfNatural == ASSUME NEW a \in Nat, NEW n \in Nat \ {0} PROVE a \div n \in Nat
OBVIOUS

LEMMA ProductMonotone ==
  ASSUME NEW a \in Int, NEW b \in Int, NEW n \in Nat, a <= b PROVE a * n <= b * n
OBVIOUS

LEMMA ProductAssociates ==
  ASSUME NEW a \in Int, NEW b \in Int, NEW n \in Int
  PROVE  (a * b) * n = a * (b * n) /\ a * b = b * a /\ a * b \in Int /\ b * n \in Int
OBVIOUS

\* What covers a product covers each of the factors.
LEMMA ProductIsLarger ==
  ASSUME NEW a \in Nat \ {0}, NEW n \in Nat \ {0} PROVE a * n \in Nat \ {0}
OBVIOUS

\* Tokens that fit an announcement fit the bytes it was computed from.
LEMMA TokensAreHonest ==
  ASSUME NEW fixed \in Nat, NEW perToken \in Nat, NEW blocks \in Nat \ {0}, NEW each \in Nat \ {0}, NEW bytes \in Int,
         NEW length \in Nat \ {0}, perToken <= each * (2 * blocks),
         NEW tokens, tokens = SZ!Max({0, bytes - fixed}) \div each, length * 2 * blocks <= tokens
  PROVE  fixed + perToken * length <= bytes
<1>1. PICK most : most = SZ!Max({0, bytes - fixed})
  OBVIOUS
<1>2. most = IF 0 >= bytes - fixed THEN 0 ELSE bytes - fixed
  BY <1>1, MaxOfTwo
<1>3. most \in Nat /\ tokens = most \div each
  BY <1>1, <1>2
<1>4. tokens \in Int /\ tokens * each <= most
  BY <1>3, Quotient
<1>5. PICK w : w = length * (2 * blocks)
  OBVIOUS
<1>6. w \in Nat \ {0} /\ w <= tokens
  <2>1. 2 * blocks \in Nat \ {0} /\ length * 2 * blocks = length * (2 * blocks)
    BY ProductAssociates
  <2> QED
    BY <2>1, <1>5, ProductIsLarger
<1>7. w * each <= tokens * each
  BY <1>4, <1>6, ProductMonotone
<1>8. w * each \in Nat \ {0}
  BY <1>6, ProductIsLarger
<1>9. most >= 1 /\ w * each <= most
  BY <1>3, <1>4, <1>7, <1>8
<1>10. perToken * length <= w * each
  <2>1. perToken * length <= (each * (2 * blocks)) * length
    <3>1. each * (2 * blocks) \in Int
      BY ProductAssociates
    <3> QED
      BY <3>1, ProductMonotone
  <2>2. (each * (2 * blocks)) * length = w * each
    <3>1. PICK d \in Nat : d = 2 * blocks
      OBVIOUS
    <3>2. (each * d) * length = each * (d * length) /\ d * length = length * d /\ d * length \in Int
      BY ProductAssociates
    <3>3. each * (length * d) = (length * d) * each
      BY <3>2, ProductAssociates
    <3> QED
      BY <1>5, <3>1, <3>2, <3>3
  <2> QED
    BY <2>1, <2>2
<1>11. most = bytes - fixed
  BY <1>2, <1>9
<1>12. perToken * length \in Int
  BY ProductAssociates
<1> QED
  BY <1>8, <1>9, <1>10, <1>11, <1>12

-----------------------------------------------------------------------------
\* Models, and the servers that hold a part of one.

KindsOf(m) == {m.layers[i] : i \in DOMAIN m.layers}

\* A model has layers of kinds whose sizes are known.  A model without descriptors of its own keeps keys and
\* values only, of the size bytes_per_token says.  The planner's table goes up, and goes as far as the
\* model does or past what --max-disk-gb allows (the last line of the table is 30.5 GB, the limit 30).
ModelAssumption(m) ==
  /\ m.custom \in BOOLEAN
  /\ m.layers \in Seq(KindsOf(m)) /\ m.layers # <<>>
  /\ m.hidden \in Nat /\ m.groups \in Nat \ {0} /\ m.groups <= m.hidden
  /\ \A k \in KindsOf(m) : m.weight[k] \in Nat \ {0} /\ m.perToken[k] \in Nat /\ m.fixed[k] \in Nat
  /\ ~m.custom => \A k \in KindsOf(m) : m.perToken[k] = 2 * (m.hidden \div m.groups) /\ m.fixed[k] = 0
  /\ m.disk \in Seq(Nat) /\ m.disk # <<>>
  /\ \A i, j \in DOMAIN m.disk : i <= j => m.disk[i] <= m.disk[j]
  /\ Len(m.layers) <= Len(m.disk) \/ MaxDisk < m.disk[Len(m.disk)]

SizingAssumption ==
  /\ \A m \in Models : ModelAssumption(m)
  /\ \A r \in Reports : r.vram \in Nat /\ r.disk \in Nat
  /\ Memories \subseteq Nat
  /\ Tokens \in Nat /\ Autograd \in Nat /\ Headroom \in Nat /\ DiskMargin \in Nat /\ MaxDisk \in Nat /\ Cap \in Nat
  /\ Lengths \subseteq Nat \ {0}

LEMMA LayersTyped ==
  ASSUME NEW m, ModelAssumption(m)
  PROVE  /\ Len(m.layers) \in Nat \ {0} /\ DOMAIN m.layers = 1 .. Len(m.layers)
         /\ IsFiniteSet(DOMAIN m.layers) /\ IsFiniteSet(KindsOf(m)) /\ KindsOf(m) # {}
         /\ \A i \in DOMAIN m.layers : m.layers[i] \in KindsOf(m)
<1>1. m.layers \in Seq(KindsOf(m)) /\ m.layers # <<>>
  BY DEF ModelAssumption
<1>2. PICK l : l = m.layers
  OBVIOUS
<1>3. Len(l) \in Nat \ {0} /\ DOMAIN l = 1 .. Len(l) /\ l = [i \in DOMAIN l |-> l[i]]
  BY <1>1, <1>2
<1>4. IsFiniteSet(DOMAIN l)
  BY <1>3, FS_Interval
<1>5. IsFiniteSet({l[i] : i \in DOMAIN l})
  BY <1>3, <1>4, ValuesFinite
<1>6. KindsOf(m) = {l[i] : i \in DOMAIN l}
  BY <1>2 DEF KindsOf
<1>7. 1 \in DOMAIN l
  BY <1>3
<1>8. KindsOf(m) # {} /\ \A i \in DOMAIN l : l[i] \in KindsOf(m)
  BY <1>6, <1>7
<1>9. IsFiniteSet(KindsOf(m))
  BY <1>5, <1>6
<1> QED
  BY <1>2, <1>3, <1>4, <1>8, <1>9

\* The bytes of a block's weights, and of the cache that is set aside for it.
BlockOf(m) == SZ!Max({m.weight[k] : k \in KindsOf(m)})
CacheOf(m) ==
  IF m.custom THEN SZ!Max({m.fixed[k] + m.perToken[k] * Tokens : k \in KindsOf(m)})
  ELSE (2 * m.hidden * Tokens) \div m.groups

LEMMA LargestKind ==
  ASSUME NEW K, IsFiniteSet(K), K # {}, NEW f \in [K -> Nat]
  PROVE  LET most == SZ!Max({f[k] : k \in K}) IN most \in Nat /\ \A k \in K : f[k] <= most
<1>1. PICK T : T = {f[k] : k \in K}
  OBVIOUS
<1>2. f = [k \in DOMAIN f |-> f[k]] /\ DOMAIN f = K
  OBVIOUS
<1>3. IsFiniteSet(T)
  BY <1>1, <1>2, ValuesFinite
<1>4. T \subseteq Nat /\ T \subseteq Int /\ T # {}
  BY <1>1
<1>5. SZ!Max(T) \in T /\ \A y \in T : SZ!Max(T) >= y
  BY <1>3, <1>4, MaxOfFinite
<1>6. \A k \in K : f[k] <= SZ!Max(T)
  BY <1>1, <1>4, <1>5
<1> QED
  BY <1>1, <1>4, <1>5, <1>6

LEMMA BlockCovers ==
  ASSUME NEW m, ModelAssumption(m)
  PROVE  BlockOf(m) \in Nat \ {0} /\ \A i \in DOMAIN m.layers : m.weight[m.layers[i]] <= BlockOf(m)
<1>1. PICK f : f = [k \in KindsOf(m) |-> m.weight[k]]
  OBVIOUS
<1>2. f \in [KindsOf(m) -> Nat] /\ \A k \in KindsOf(m) : f[k] = m.weight[k] /\ f[k] \in Nat \ {0}
  BY <1>1 DEF ModelAssumption
<1>3. {f[k] : k \in KindsOf(m)} = {m.weight[k] : k \in KindsOf(m)}
  BY <1>2
<1>4. IsFiniteSet(KindsOf(m)) /\ KindsOf(m) # {}
  BY LayersTyped
<1>5. BlockOf(m) \in Nat /\ \A k \in KindsOf(m) : f[k] <= BlockOf(m)
  BY <1>2, <1>3, <1>4, LargestKind DEF BlockOf
<1>6. PICK k \in KindsOf(m) : TRUE
  BY <1>4
<1>7. BlockOf(m) # 0
  BY <1>2, <1>5, <1>6
<1> QED
  BY <1>2, <1>5, <1>7, LayersTyped

LEMMA CacheCovers ==
  ASSUME SizingAssumption, NEW m, ModelAssumption(m)
  PROVE  /\ CacheOf(m) \in Nat
         /\ \A i \in DOMAIN m.layers : m.fixed[m.layers[i]] + m.perToken[m.layers[i]] * Tokens <= CacheOf(m)
<1>1. Tokens \in Nat
  BY DEF SizingAssumption
<1>2. CASE m.custom
  <2>1. PICK f : f = [k \in KindsOf(m) |-> m.fixed[k] + m.perToken[k] * Tokens]
    OBVIOUS
  <2>2. ASSUME NEW k \in KindsOf(m) PROVE m.fixed[k] + m.perToken[k] * Tokens \in Nat
    <3>1. m.fixed[k] \in Nat /\ m.perToken[k] \in Nat
      BY DEF ModelAssumption
    <3> QED
      BY <3>1, <1>1
  <2>3. f \in [KindsOf(m) -> Nat]
    BY <2>1, <2>2
  <2>4. {f[k] : k \in KindsOf(m)} = {m.fixed[k] + m.perToken[k] * Tokens : k \in KindsOf(m)}
    BY <2>1
  <2>5. CacheOf(m) = SZ!Max({f[k] : k \in KindsOf(m)})
    BY <2>4, <1>2 DEF CacheOf
  <2>6. CacheOf(m) \in Nat /\ \A k \in KindsOf(m) : f[k] <= CacheOf(m)
    BY <2>3, <2>5, LargestKind, LayersTyped
  <2> QED
    BY <2>1, <2>6, LayersTyped
<1>3. CASE ~m.custom
  <2>1. PICK h, g, q : h = m.hidden /\ g = m.groups /\ q = h \div g
    OBVIOUS
  <2>2. h \in Nat /\ g \in Nat \ {0}
    BY <2>1 DEF ModelAssumption
  <2>3. q \in Nat /\ q * g <= h
    BY <2>1, <2>2, Quotient, QuotientOfNatural
  <2>4. PICK a : a = 2 * h * Tokens
    OBVIOUS
  <2>5. a \in Nat
    BY <1>1, <2>2, <2>4
  <2>6. PICK c : c = a \div g
    OBVIOUS
  <2>7. c \in Nat /\ a < c * g + g
    BY <2>2, <2>5, <2>6, Quotient, QuotientOfNatural
  <2>8. PICK d : d = 2 * q * Tokens
    OBVIOUS
  <2>9. d \in Nat /\ d * g <= a
    <3>1. PICK t \in Nat : t = 2 * Tokens
      BY <1>1
    <3>2. (q * g) * t <= h * t
      BY <2>2, <2>3, <3>1, ProductMonotone
    <3>3. d = q * t /\ a = h * t
      BY <1>1, <2>2, <2>3, <2>4, <2>8, <3>1
    <3>4. (q * g) * t = (q * t) * g
      BY <2>2, <2>3, <3>1
    <3> QED
      BY <2>3, <3>1, <3>2, <3>3, <3>4
  <2>10. d <= c
    <3>1. SUFFICES ASSUME c + 1 <= d PROVE FALSE
      BY <2>7, <2>9
    <3>2. (c + 1) * g <= d * g
      BY <2>2, <2>7, <2>9, <3>1, ProductMonotone
    <3>3. (c + 1) * g = c * g + g
      BY <2>2, <2>7
    <3>4. c * g \in Nat /\ d * g \in Nat
      BY <2>2, <2>7, <2>9
    <3> QED
      BY <2>2, <2>5, <2>7, <2>9, <3>2, <3>3, <3>4
  <2>11. CacheOf(m) = c
    BY <1>3, <2>1, <2>4, <2>6 DEF CacheOf
  <2>12. ASSUME NEW k \in KindsOf(m) PROVE m.fixed[k] + m.perToken[k] * Tokens = d
    <3>1. m.perToken[k] = 2 * q /\ m.fixed[k] = 0
      BY <1>3, <2>1 DEF ModelAssumption
    <3> QED
      BY <1>1, <2>3, <2>8, <2>9, <3>1
  <2> QED
    BY <2>7, <2>10, <2>11, <2>12, LayersTyped
<1>4. m.custom \in BOOLEAN
  BY DEF ModelAssumption
<1> QED
  BY <1>2, <1>3, <1>4

-----------------------------------------------------------------------------
\* What a server's blocks take together.

Held(sv) == sv.first .. sv.first + sv.blocks - 1

Fits(m, sv) ==
  /\ sv.first \in Nat \ {0} /\ sv.blocks \in Nat \ {0}
  /\ sv.first + sv.blocks - 1 <= Len(m.layers)

FixedBy(m) == [i \in DOMAIN m.layers |-> m.fixed[m.layers[i]]]
PerTokenBy(m) == [i \in DOMAIN m.layers |-> m.perToken[m.layers[i]]]
BytesBy(m, length) == [i \in DOMAIN m.layers |-> m.fixed[m.layers[i]] + m.perToken[m.layers[i]] * length]
WeightBy(m) == [i \in DOMAIN m.layers |-> m.weight[m.layers[i]]]

SessionOn(m, sv, length) == Sum(BytesBy(m, length), Held(sv))

LEMMA ByTyped ==
  ASSUME NEW m, ModelAssumption(m)
  PROVE  /\ FixedBy(m) \in [DOMAIN m.layers -> Nat]
         /\ PerTokenBy(m) \in [DOMAIN m.layers -> Nat]
         /\ WeightBy(m) \in [DOMAIN m.layers -> Nat]
         /\ \A length \in Nat : BytesBy(m, length) \in [DOMAIN m.layers -> Nat]
<1>1. \A i \in DOMAIN m.layers :
        m.fixed[m.layers[i]] \in Nat /\ m.perToken[m.layers[i]] \in Nat /\ m.weight[m.layers[i]] \in Nat
  BY LayersTyped DEF ModelAssumption
<1>2. ASSUME NEW length \in Nat, NEW i \in DOMAIN m.layers
      PROVE  m.fixed[m.layers[i]] + m.perToken[m.layers[i]] * length \in Nat
  BY <1>1
<1> QED
  BY <1>1, <1>2 DEF FixedBy, PerTokenBy, WeightBy, BytesBy

LEMMA HeldFits ==
  ASSUME NEW m, ModelAssumption(m), NEW sv, Fits(m, sv)
  PROVE  /\ Held(sv) \subseteq DOMAIN m.layers /\ IsFiniteSet(Held(sv)) /\ Cardinality(Held(sv)) = sv.blocks
         /\ Held(sv) = {i \in DOMAIN m.layers : sv.first <= i /\ i < sv.first + sv.blocks}
<1>1. PICK a, b, n : a = sv.first /\ b = sv.blocks /\ n = Len(m.layers)
  OBVIOUS
<1>2. a \in Nat \ {0} /\ b \in Nat \ {0} /\ a + b - 1 <= n /\ n \in Nat /\ DOMAIN m.layers = 1 .. n
  BY <1>1, LayersTyped DEF Fits
<1>3. Held(sv) = a .. a + b - 1
  BY <1>1 DEF Held
<1>4. IsFiniteSet(a .. a + b - 1) /\ Cardinality(a .. a + b - 1) = b
  <2>1. PICK z : z = a + b - 1
    OBVIOUS
  <2>2. a \in Int /\ z \in Int /\ ~(a > z) /\ z - a + 1 = b
    BY <1>2, <2>1
  <2>3. IsFiniteSet(a .. z) /\ Cardinality(a .. z) = z - a + 1
    BY <2>2, FS_Interval
  <2> QED
    BY <2>1, <2>2, <2>3
<1> QED
  BY <1>1, <1>2, <1>3, <1>4

\* The length of a session is multiplied by what a token takes on all the blocks.
LEMMA SessionIsLinear ==
  ASSUME NEW m, ModelAssumption(m), NEW sv, Fits(m, sv)
  PROVE  /\ Sum(FixedBy(m), Held(sv)) \in Nat /\ Sum(PerTokenBy(m), Held(sv)) \in Nat
         /\ \A length \in Nat :
              SessionOn(m, sv, length) = Sum(FixedBy(m), Held(sv)) + Sum(PerTokenBy(m), Held(sv)) * length
<1>1. PICK D : D = DOMAIN m.layers
  OBVIOUS
<1>2. Held(sv) \subseteq D /\ IsFiniteSet(Held(sv))
  BY <1>1, HeldFits
<1>3. FixedBy(m) \in [D -> Nat] /\ PerTokenBy(m) \in [D -> Nat]
  BY <1>1, ByTyped
<1>4. ASSUME NEW length \in Nat
      PROVE  SessionOn(m, sv, length) = Sum(FixedBy(m), Held(sv)) + Sum(PerTokenBy(m), Held(sv)) * length
  <2>1. BytesBy(m, length) \in [D -> Nat]
    BY <1>1, ByTyped
  <2>2. \A i \in D : BytesBy(m, length)[i] = FixedBy(m)[i] + PerTokenBy(m)[i] * length
    BY <1>1 DEF BytesBy, FixedBy, PerTokenBy
  <2>3. PICK f, g, h : f = FixedBy(m) /\ g = PerTokenBy(m) /\ h = BytesBy(m, length)
    OBVIOUS
  <2>4. PICK S : S = Held(sv)
    OBVIOUS
  <2>5. Linear(D, f, g, h, length)
    BY <1>3, <2>1, <2>2, <2>3 DEF Linear
  <2>6. S \subseteq D /\ IsFiniteSet(S)
    BY <1>2, <2>4
  <2>7. Sum(h, S) = Sum(f, S) + Sum(g, S) * length
    BY <2>5, <2>6, SumLinear
  <2> QED
    BY <2>3, <2>4, <2>7 DEF SessionOn
<1> QED
  BY <1>2, <1>3, <1>4, SumTyped

\* What is set aside for the cache holds one sequence of attn_cache_tokens on all the blocks.
LEMMA CacheHoldsOne ==
  ASSUME SizingAssumption, NEW m, ModelAssumption(m), NEW sv, Fits(m, sv)
  PROVE  SessionOn(m, sv, Tokens) <= CacheOf(m) * sv.blocks
<1>1. Tokens \in Nat
  BY DEF SizingAssumption
<1>2. BytesBy(m, Tokens) \in [DOMAIN m.layers -> Nat]
  BY <1>1, ByTyped
<1>3. CacheOf(m) \in Nat
  BY CacheCovers
<1>4. Held(sv) \subseteq DOMAIN m.layers /\ IsFiniteSet(Held(sv)) /\ Cardinality(Held(sv)) = sv.blocks
  BY HeldFits
<1>5. \A i \in Held(sv) : BytesBy(m, Tokens)[i] <= CacheOf(m)
  BY <1>4, CacheCovers DEF BytesBy
<1>6. Sum(BytesBy(m, Tokens), Held(sv)) <= CacheOf(m) * Cardinality(Held(sv))
  BY <1>2, <1>3, <1>4, <1>5, SumBounded
<1> QED
  BY <1>4, <1>6 DEF SessionOn

\* The weights of the blocks are not more than as many times the largest.
LEMMA WeightsFit ==
  ASSUME NEW m, ModelAssumption(m), NEW sv, Fits(m, sv)
  PROVE  Sum(WeightBy(m), Held(sv)) \in Nat /\ Sum(WeightBy(m), Held(sv)) <= BlockOf(m) * sv.blocks
<1>1. WeightBy(m) \in [DOMAIN m.layers -> Nat] /\ BlockOf(m) \in Nat
  BY ByTyped, BlockCovers
<1>2. Held(sv) \subseteq DOMAIN m.layers /\ IsFiniteSet(Held(sv)) /\ Cardinality(Held(sv)) = sv.blocks
  BY HeldFits
<1>3. \A i \in Held(sv) : WeightBy(m)[i] <= BlockOf(m)
  BY <1>2, BlockCovers DEF WeightBy
<1>4. Sum(WeightBy(m), Held(sv)) <= BlockOf(m) * Cardinality(Held(sv))
  BY <1>1, <1>2, <1>3, SumBounded
<1> QED
  BY <1>1, <1>2, <1>4, SumTyped

-----------------------------------------------------------------------------
\* What is announced is held: the rounding of bytes_per_token is upwards.

Honest(m, sv, tokens, bytes) ==
  \A length \in Lengths : length * 2 * sv.blocks <= tokens => SessionOn(m, sv, length) <= bytes

FixedOn(m, sv) ==
  IF m.custom THEN SZ!Max({0, 2 * SessionOn(m, sv, 1) - SessionOn(m, sv, 2)}) ELSE 0
EachOn(m, sv) ==
  IF m.custom
  THEN SZ!Max({1, (SessionOn(m, sv, 2) - SessionOn(m, sv, 1) + 2 * sv.blocks - 1) \div (2 * sv.blocks)})
  ELSE m.hidden \div m.groups

LEMMA PricesRight ==
  ASSUME NEW m, ModelAssumption(m), NEW sv, Fits(m, sv)
  PROVE  /\ FixedOn(m, sv) = Sum(FixedBy(m), Held(sv))
         /\ EachOn(m, sv) \in Nat \ {0}
         /\ Sum(PerTokenBy(m), Held(sv)) <= EachOn(m, sv) * (2 * sv.blocks)
<1>1. PICK f, p : f = Sum(FixedBy(m), Held(sv)) /\ p = Sum(PerTokenBy(m), Held(sv))
  OBVIOUS
<1>2. f \in Nat /\ p \in Nat /\ \A length \in Nat : SessionOn(m, sv, length) = f + p * length
  BY <1>1, SessionIsLinear
<1>3. PICK n : n = 2 * sv.blocks
  OBVIOUS
<1>4. n \in Nat \ {0} /\ sv.blocks \in Nat \ {0}
  BY <1>3 DEF Fits
<1>5. CASE m.custom
  <2>1. SessionOn(m, sv, 1) = f + p /\ SessionOn(m, sv, 2) = f + 2 * p
    <3>1. p * 1 = p /\ p * 2 = 2 * p
      BY <1>2
    <3> QED
      BY <3>1, <1>2
  <2>2. 2 * SessionOn(m, sv, 1) - SessionOn(m, sv, 2) = f
    BY <2>1, <1>2
  <2>3. FixedOn(m, sv) = f
    <3>1. FixedOn(m, sv) = SZ!Max({0, f})
      BY <1>5, <2>2 DEF FixedOn
    <3> QED
      BY <3>1, <1>2, MaxOfTwo
  <2>4. PICK q : q = (p + n - 1) \div n
    OBVIOUS
  <2>5. p + n - 1 \in Int
    BY <1>2, <1>4
  <2>6. q \in Int /\ p + n - 1 < q * n + n
    BY <2>4, <2>5, <1>4, Quotient
  <2>7. p <= q * n
    <3>1. PICK z : z = q * n
      OBVIOUS
    <3>2. z \in Int
      BY <3>1, <2>6, <1>4
    <3>3. p + n - 1 < z + n
      BY <3>1, <2>6
    <3> QED
      BY <3>1, <3>2, <3>3, <1>2, <1>4
  <2>8. EachOn(m, sv) = SZ!Max({1, q})
    <3>1. SessionOn(m, sv, 2) - SessionOn(m, sv, 1) + 2 * sv.blocks - 1 = p + n - 1
      BY <2>1, <1>2, <1>3, <1>4
    <3> QED
      BY <3>1, <1>3, <1>5, <2>4 DEF EachOn
  <2>9. EachOn(m, sv) = IF 1 >= q THEN 1 ELSE q
    BY <2>6, <2>8, MaxOfTwo
  <2>10. PICK e : e = EachOn(m, sv)
    OBVIOUS
  <2>11. e \in Nat \ {0} /\ q <= e
    BY <2>6, <2>9, <2>10
  <2>12. q * n <= e * n
    BY <2>6, <2>11, <1>4, ProductMonotone
  <2>13. p <= e * n
    BY <2>6, <2>7, <2>11, <2>12, <1>2, <1>4
  <2> QED
    BY <1>1, <1>3, <2>3, <2>10, <2>11, <2>13
<1>6. CASE ~m.custom
  <2>1. PICK q : q = m.hidden \div m.groups
    OBVIOUS
  <2>2. q \in Nat \ {0}
    <3>1. PICK h, g : h = m.hidden /\ g = m.groups
      OBVIOUS
    <3>2. h \in Nat /\ g \in Nat \ {0} /\ g <= h
      BY <3>1 DEF ModelAssumption
    <3>3. h \div g \in Nat /\ h < (h \div g) * g + g
      BY <3>2, Quotient, QuotientOfNatural
    <3>4. h \div g # 0
      BY <3>2, <3>3
    <3> QED
      BY <2>1, <3>1, <3>3, <3>4
  <2>3. PICK D : D = DOMAIN m.layers
    OBVIOUS
  <2>4. Held(sv) \subseteq D /\ IsFiniteSet(Held(sv)) /\ Cardinality(Held(sv)) = sv.blocks
    BY <2>3, HeldFits
  <2>5. FixedBy(m) \in [D -> Nat] /\ PerTokenBy(m) \in [D -> Nat]
    BY <2>3, ByTyped
  <2>6. \A i \in Held(sv) : FixedBy(m)[i] = 0 /\ PerTokenBy(m)[i] = 2 * q
    BY <1>6, <2>1, <2>3, <2>4, LayersTyped DEF ModelAssumption, FixedBy, PerTokenBy
  <2>7. f = 0 * sv.blocks
    BY <1>1, <2>4, <2>5, <2>6, SumConstant
  <2>8. p = (2 * q) * sv.blocks
    <3>1. 2 * q \in Nat
      BY <2>2
    <3> QED
      BY <3>1, <1>1, <2>4, <2>5, <2>6, SumConstant
  <2>9. EachOn(m, sv) = q /\ FixedOn(m, sv) = 0
    BY <1>6, <2>1 DEF EachOn, FixedOn
  <2>10. f = 0 /\ p = q * (2 * sv.blocks)
    BY <2>2, <2>7, <2>8, <1>4
  <2>11. p <= q * (2 * sv.blocks)
    BY <2>10, <1>2
  <2> QED
    BY <1>1, <2>2, <2>9, <2>10, <2>11
<1>7. m.custom \in BOOLEAN
  BY DEF ModelAssumption
<1> QED
  BY <1>5, <1>6, <1>7

LEMMA AnnouncementIsHonest ==
  ASSUME SizingAssumption, NEW m, ModelAssumption(m), NEW sv, Fits(m, sv), NEW bytes \in Int
  PROVE  Honest(m, sv, SZ!Max({0, bytes - FixedOn(m, sv)}) \div EachOn(m, sv), bytes)
<1>1. PICK tokens : tokens = SZ!Max({0, bytes - FixedOn(m, sv)}) \div EachOn(m, sv)
  OBVIOUS
<1>2. SUFFICES ASSUME NEW length \in Lengths, length * 2 * sv.blocks <= tokens
               PROVE  SessionOn(m, sv, length) <= bytes
  BY <1>1 DEF Honest
<1>3. PICK f, p, e, b : f = Sum(FixedBy(m), Held(sv)) /\ p = Sum(PerTokenBy(m), Held(sv)) /\ e = EachOn(m, sv) /\ b = sv.blocks
  OBVIOUS
<1>4. f \in Nat /\ p \in Nat /\ b \in Nat \ {0} /\ length \in Nat \ {0}
  BY <1>3, SessionIsLinear DEF Fits, SizingAssumption
<1>5. e \in Nat \ {0} /\ p <= e * (2 * b) /\ FixedOn(m, sv) = f
  BY <1>3, PricesRight
<1>6. tokens = SZ!Max({0, bytes - f}) \div e /\ length * 2 * b <= tokens
  BY <1>1, <1>2, <1>3, <1>5
<1>7. f + p * length <= bytes
  BY <1>4, <1>5, <1>6, TokensAreHonest
<1>8. SessionOn(m, sv, length) = f + p * length
  BY <1>3, <1>4, SessionIsLinear
<1> QED
  BY <1>7, <1>8

-----------------------------------------------------------------------------
\* What a server of this many blocks may take.

Takes(m, sv) == sv.blocks * (BlockOf(m) + CacheOf(m))

DiskOf(m, n) == m.disk[SZ!Min({n, Len(m.disk)})]

Sized(m, report, sv) ==
  /\ Fits(m, sv) /\ sv.memory \in Int
  /\ sv.sizedBy = "server" => Takes(m, sv) + Autograd <= sv.memory
  /\ sv.sizedBy = "planner" =>
       /\ Takes(m, sv) + Autograd + Headroom <= report.vram
       /\ sv.blocks <= Len(m.disk) /\ m.disk[sv.blocks] + DiskMargin <= report.disk

\* A division that rounds down fits.
LEMMA DivisionFits ==
  ASSUME SizingAssumption, NEW m, ModelAssumption(m), NEW room0 \in Int, NEW n \in Nat \ {0},
         n <= room0 \div (BlockOf(m) + CacheOf(m))
  PROVE  n * (BlockOf(m) + CacheOf(m)) <= room0
<1>1. PICK d : d = BlockOf(m) + CacheOf(m)
  OBVIOUS
<1>2. d \in Nat \ {0}
  <2>1. BlockOf(m) \in Nat \ {0} /\ CacheOf(m) \in Nat
    BY BlockCovers, CacheCovers
  <2> QED
    BY <2>1, <1>1
<1>3. PICK q : q = room0 \div d
  OBVIOUS
<1>4. q \in Int /\ q * d <= room0 /\ n <= q
  BY <1>1, <1>2, <1>3, Quotient
<1>5. n * d <= q * d
  BY <1>2, <1>4, ProductMonotone
<1>6. n * d \in Int /\ q * d \in Int
  BY <1>2, <1>4, ProductAssociates
<1> QED
  BY <1>1, <1>4, <1>5, <1>6

\* A number of blocks the planner finds disk for is a line of its table.
LEMMA DiskFits ==
  ASSUME SizingAssumption, NEW m, ModelAssumption(m), NEW disk \in Int, NEW n \in DOMAIN m.layers,
         DiskOf(m, n) <= SZ!Min({disk - DiskMargin, MaxDisk}),
         NEW k \in Nat \ {0}, k <= n
  PROVE  k <= Len(m.disk) /\ m.disk[k] + DiskMargin <= disk
<1>1. PICK t, e, most : t = m.disk /\ e = Len(t) /\ most = SZ!Min({disk - DiskMargin, MaxDisk})
  OBVIOUS
<1>2. /\ t \in Seq(Nat) /\ e \in Nat \ {0} /\ DOMAIN t = 1 .. e
      /\ \A i, j \in DOMAIN t : i <= j => t[i] <= t[j]
      /\ Len(m.layers) <= e \/ MaxDisk < t[e]
  BY <1>1 DEF ModelAssumption
<1>3. n \in Nat \ {0} /\ n <= Len(m.layers) /\ Len(m.layers) \in Nat
  BY LayersTyped
<1>4. MaxDisk \in Nat /\ DiskMargin \in Nat
  BY DEF SizingAssumption
<1>5. most \in Int /\ most <= disk - DiskMargin /\ most <= MaxDisk
  <2>1. disk - DiskMargin \in Int /\ MaxDisk \in Int
    BY <1>4
  <2>2. most = IF disk - DiskMargin <= MaxDisk THEN disk - DiskMargin ELSE MaxDisk
    BY <1>1, <2>1, MinOfTwo
  <2> QED
    BY <2>1, <2>2
<1>6. DiskOf(m, n) = t[IF n <= e THEN n ELSE e]
  <2>1. DiskOf(m, n) = t[SZ!Min({n, e})]
    BY <1>1 DEF DiskOf
  <2>2. n \in Int /\ e \in Int
    BY <1>2, <1>3
  <2>3. SZ!Min({n, e}) = IF n <= e THEN n ELSE e
    BY <2>2, MinOfTwo
  <2> QED
    BY <2>1, <2>3
<1>7. n <= e
  <2>1. SUFFICES ASSUME ~(n <= e) PROVE FALSE
    OBVIOUS
  <2>2. t[e] \in Nat /\ t[e] <= most
    BY <1>1, <1>2, <1>6, <2>1
  <2>3. MaxDisk < t[e]
    BY <1>2, <1>3, <2>1
  <2> QED
    BY <1>4, <1>5, <2>2, <2>3
<1>8. t[n] <= most /\ n \in DOMAIN t /\ k \in DOMAIN t
  BY <1>1, <1>2, <1>3, <1>6, <1>7
<1>9. t[k] <= t[n] /\ t[k] \in Nat /\ t[n] \in Nat
  BY <1>2, <1>8
<1>10. PICK v \in Nat : v = t[k]
  BY <1>9
<1>11. v <= disk - DiskMargin
  BY <1>4, <1>5, <1>8, <1>9, <1>10
<1>12. v + DiskMargin <= disk
  BY <1>4, <1>11
<1>13. k <= e
  BY <1>2, <1>3, <1>7
<1> QED
  BY <1>1, <1>10, <1>12, <1>13

-----------------------------------------------------------------------------
\* The account of the cache: bal[i] is what is left when the first i sessions have ended.

Account(m, sv, bytes, open, bal) ==
  /\ bal \in [0 .. Len(open) -> Int]
  /\ bal[0] = bytes
  /\ \A i \in 1 .. Len(open) : bal[i] = bal[i - 1] + SessionOn(m, sv, open[i])
  /\ bal[Len(open)] = CacheOf(m) * sv.blocks

LEMMA AccountOpen ==
  ASSUME NEW m, NEW sv, NEW bytes \in Int, NEW open \in Seq(Lengths), NEW bal, Account(m, sv, bytes, open, bal),
         NEW length \in Lengths, \A l \in Lengths : SessionOn(m, sv, l) \in Int
  PROVE  \E b : Account(m, sv, bytes - SessionOn(m, sv, length), Append(open, length), b)
<1>1. PICK x, n, new : x = SessionOn(m, sv, length) /\ n = Len(open) /\ new = Append(open, length)
  OBVIOUS
<1>2. n \in Nat /\ x \in Int /\ Len(new) = n + 1 /\ new[n + 1] = length /\ \A i \in 1 .. n : new[i] = open[i]
  BY <1>1
<1>3. /\ bal \in [0 .. n -> Int] /\ bal[0] = bytes /\ bal[n] = CacheOf(m) * sv.blocks
      /\ \A i \in 1 .. n : bal[i] = bal[i - 1] + SessionOn(m, sv, open[i])
  BY <1>1 DEF Account
<1>4. PICK b : b = [i \in 0 .. n + 1 |-> IF i <= n THEN bal[i] - x ELSE bal[n]]
  OBVIOUS
<1>5. b \in [0 .. n + 1 -> Int] /\ b[0] = bytes - x /\ b[n + 1] = CacheOf(m) * sv.blocks
  BY <1>2, <1>3, <1>4
<1>6. ASSUME NEW i \in 1 .. n + 1 PROVE b[i] = b[i - 1] + SessionOn(m, sv, new[i])
  <2>1. CASE i \in 1 .. n
    <3>1. b[i] = bal[i] - x /\ b[i - 1] = bal[i - 1] - x /\ bal[i] \in Int /\ bal[i - 1] \in Int
      BY <1>2, <1>3, <1>4, <2>1
    <3>2. PICK y : y = SessionOn(m, sv, open[i])
      OBVIOUS
    <3>3. bal[i] = bal[i - 1] + y /\ y = SessionOn(m, sv, new[i])
      BY <1>2, <1>3, <2>1, <3>2
    <3>4. i \in 0 .. n + 1 /\ ~(i = n + 1)
      BY <1>2, <2>1
    <3>5. (bal[i - 1] + y) - x = (bal[i - 1] - x) + y
      <4>1. open[i] \in Lengths
        BY <1>1, <2>1
      <4>2. y \in Int
        BY <3>2, <4>1
      <4> QED
        BY <1>2, <3>1, <4>2
    <3> QED
      BY <3>1, <3>3, <3>5
  <2>2. CASE i = n + 1
    <3>1. b[i] = bal[n] /\ b[i - 1] = bal[n] - x /\ bal[n] \in Int
      BY <1>2, <1>3, <1>4, <2>2
    <3>2. SessionOn(m, sv, new[i]) = x
      BY <1>1, <1>2, <2>2
    <3> QED
      BY <1>2, <3>1, <3>2
  <2> QED
    BY <1>2, <2>1, <2>2
<1>7. Account(m, sv, bytes - x, new, b)
  BY <1>2, <1>5, <1>6 DEF Account
<1> QED
  BY <1>1, <1>7

LEMMA AccountEnd ==
  ASSUME NEW m, NEW sv, NEW bytes \in Int, NEW open \in Seq(Lengths), NEW bal, Account(m, sv, bytes, open, bal),
         open # <<>>
  PROVE  \E b : Account(m, sv, bytes + SessionOn(m, sv, Head(open)), Tail(open), b)
<1>1. PICK x, n, new : x = SessionOn(m, sv, Head(open)) /\ n = Len(open) /\ new = Tail(open)
  OBVIOUS
<1>2. n \in Nat \ {0} /\ Len(new) = n - 1 /\ Head(open) = open[1] /\ \A i \in 1 .. n - 1 : new[i] = open[i + 1]
  BY <1>1
<1>3. /\ bal \in [0 .. n -> Int] /\ bal[0] = bytes /\ bal[n] = CacheOf(m) * sv.blocks
      /\ \A i \in 1 .. n : bal[i] = bal[i - 1] + SessionOn(m, sv, open[i])
  BY <1>1 DEF Account
<1>4. PICK b : b = [i \in 0 .. n - 1 |-> bal[i + 1]]
  OBVIOUS
<1>5. b \in [0 .. n - 1 -> Int] /\ b[n - 1] = CacheOf(m) * sv.blocks
  BY <1>2, <1>3, <1>4
<1>6. b[0] = bytes + x
  <2>1. 1 \in 1 .. n /\ 0 \in 0 .. n - 1
    BY <1>2
  <2>2. bal[1] = bal[1 - 1] + SessionOn(m, sv, open[1])
    BY <1>3, <2>1
  <2>3. 1 - 1 = 0 /\ 0 + 1 = 1
    OBVIOUS
  <2>4. b[0] = bal[1]
    BY <1>4, <2>1, <2>3
  <2> QED
    BY <1>1, <1>2, <1>3, <2>2, <2>3, <2>4
<1>7. ASSUME NEW i \in 1 .. n - 1 PROVE b[i] = b[i - 1] + SessionOn(m, sv, new[i])
  <2>1. PICK j \in Nat : j = i + 1
    BY <1>2
  <2>2. j \in 1 .. n /\ i \in 0 .. n - 1 /\ i - 1 \in 0 .. n - 1 /\ (i - 1) + 1 = i /\ j - 1 = i
    BY <1>2, <2>1
  <2>3. b[i] = bal[j] /\ b[i - 1] = bal[i] /\ new[i] = open[j]
    BY <1>2, <1>4, <2>1, <2>2
  <2>4. bal[j] = bal[j - 1] + SessionOn(m, sv, open[j])
    BY <1>3, <2>2
  <2> QED
    BY <2>2, <2>3, <2>4
<1>8. Account(m, sv, bytes + x, new, b)
  BY <1>2, <1>5, <1>6, <1>7 DEF Account
<1> QED
  BY <1>1, <1>8

-----------------------------------------------------------------------------
\* The module's operators about the model and the server that are, in those terms.

LEMMA SumsAre ==
  ASSUME NEW m, ModelAssumption(m), model = m, NEW sv, Fits(m, sv), server = sv
  PROVE  /\ SZ!BlockSize = BlockOf(m) /\ SZ!CacheBytesPerBlock = CacheOf(m)
         /\ \A length \in Nat : SZ!SpanBytes(length) = SessionOn(m, sv, length)
         /\ SZ!WeightBytes = Sum(WeightBy(m), Held(sv))
<1>1. SZ!Kinds = KindsOf(m) /\ SZ!BlockSize = BlockOf(m) /\ SZ!CacheBytesPerBlock = CacheOf(m)
  BY DEF SZ!Kinds, KindsOf, SZ!BlockSize, BlockOf, SZ!CacheBytesPerBlock, CacheOf, SZ!SessionBytes
<1>2. PICK D, S : D = DOMAIN m.layers /\ S = Held(sv)
  OBVIOUS
<1>3. S \subseteq D /\ IsFiniteSet(S) /\ SZ!Span = S
  BY <1>2, HeldFits DEF SZ!Span
<1>4. ASSUME NEW length \in Nat PROVE SZ!SpanBytes(length) = SessionOn(m, sv, length)
  <2>1. PICK w : w = BytesBy(m, length)
    OBVIOUS
  <2>2. PICK g : SumGraph(w, S, g)
    BY <1>3, SumExists
  <2>3. PICK iter : iter = CHOOSE h :
          h = [s \in SUBSET S |-> IF s = {} THEN 0
                                  ELSE (m.fixed[m.layers[First(s)]] + m.perToken[m.layers[First(s)]] * length)
                                         + h[s \ {First(s)}]]
    OBVIOUS
  <2>4. SZ!SpanBytes(length) = iter[S]
    BY <1>3, <2>3 DEF SZ!SpanBytes, SZ!SessionBytes, SZ!MapThenSumSet, SZ!MapThenFoldSet, First
  <2>5. \A s \in SUBSET S : s # {} =>
          w[First(s)] = m.fixed[m.layers[First(s)]] + m.perToken[m.layers[First(s)]] * length
    BY <1>2, <1>3, <2>1, FirstIn DEF BytesBy
  <2>6. \A h : SumGraph(w, S, h) <=>
          h = [s \in SUBSET S |-> IF s = {} THEN 0
                                  ELSE (m.fixed[m.layers[First(s)]] + m.perToken[m.layers[First(s)]] * length)
                                         + h[s \ {First(s)}]]
    BY <2>5 DEF SumGraph
  <2>7. SumGraph(w, S, iter)
    BY <2>2, <2>3, <2>6
  <2>8. Sum(w, S) = iter[S]
    BY <1>3, <2>7, SumOfGraph
  <2> QED
    BY <1>2, <2>1, <2>4, <2>8 DEF SessionOn
<1>5. SZ!WeightBytes = Sum(WeightBy(m), S)
  <2>1. PICK w : w = WeightBy(m)
    OBVIOUS
  <2>2. PICK g : SumGraph(w, S, g)
    BY <1>3, SumExists
  <2>3. PICK iter : iter = CHOOSE h :
          h = [s \in SUBSET S |-> IF s = {} THEN 0 ELSE m.weight[m.layers[First(s)]] + h[s \ {First(s)}]]
    OBVIOUS
  <2>4. SZ!WeightBytes = iter[S]
    BY <1>3, <2>3 DEF SZ!WeightBytes, SZ!MapThenSumSet, SZ!MapThenFoldSet, First
  <2>5. \A s \in SUBSET S : s # {} => w[First(s)] = m.weight[m.layers[First(s)]]
    BY <1>2, <1>3, <2>1, FirstIn DEF WeightBy
  <2>6. \A h : SumGraph(w, S, h) <=>
          h = [s \in SUBSET S |-> IF s = {} THEN 0 ELSE m.weight[m.layers[First(s)]] + h[s \ {First(s)}]]
    BY <2>5 DEF SumGraph
  <2>7. SumGraph(w, S, iter)
    BY <2>2, <2>3, <2>6
  <2>8. Sum(w, S) = iter[S]
    BY <1>3, <2>7, SumOfGraph
  <2> QED
    BY <2>1, <2>4, <2>8
<1> QED
  BY <1>1, <1>2, <1>4, <1>5

\* What the planner allows fits what it was told, and what the server chooses fits its device.
LEMMA AllowedFits ==
  ASSUME SizingAssumption, NEW m, ModelAssumption(m), model = m, NEW report \in Reports
  PROVE  /\ SZ!Allowed(report) \in Int
         /\ SZ!Allowed(report) > 0 =>
              /\ SZ!Allowed(report) * (BlockOf(m) + CacheOf(m)) + Autograd + Headroom <= report.vram
              /\ SZ!Allowed(report) <= Len(m.disk)
              /\ m.disk[SZ!Allowed(report)] + DiskMargin <= report.disk
<1>1. PICK v, d, n : v = report.vram /\ d = report.disk /\ n = SZ!Allowed(report)
  OBVIOUS
<1>2. v \in Nat /\ d \in Nat /\ Autograd \in Nat /\ Headroom \in Nat /\ Cap \in Nat
  BY <1>1 DEF SizingAssumption
<1>3. PICK p : p = BlockOf(m) + CacheOf(m)
  OBVIOUS
<1>4. p \in Nat \ {0}
  <2>1. BlockOf(m) \in Nat \ {0} /\ CacheOf(m) \in Nat
    BY BlockCovers, CacheCovers
  <2> QED
    BY <2>1, <1>3
<1>5. SZ!PlannedPerBlock = p
  BY <1>3 DEF SZ!PlannedPerBlock, SZ!BlockSize, BlockOf, SZ!CacheBytesPerBlock, CacheOf, SZ!Kinds, KindsOf, SZ!SessionBytes
<1>6. PICK q : q = (v - Autograd - Headroom) \div p
  OBVIOUS
<1>7. q \in Int
  <2>1. v - Autograd - Headroom \in Int
    BY <1>2
  <2> QED
    BY <2>1, <1>4, <1>6, Quotient
<1>8. SZ!BlocksFromVram(v) = IF 0 >= q THEN 0 ELSE q
  <2>1. SZ!BlocksFromVram(v) = SZ!Max({0, q})
    BY <1>5, <1>6 DEF SZ!BlocksFromVram
  <2> QED
    BY <2>1, <1>7, MaxOfTwo
<1>9. PICK a : a = SZ!BlocksFromDisk(d)
  OBVIOUS
<1>10. PICK F : F = {i \in DOMAIN m.layers : DiskOf(m, i) <= SZ!Min({d - DiskMargin, MaxDisk})}
  OBVIOUS
<1>11. a = SZ!Max({0} \union F)
  BY <1>9, <1>10 DEF SZ!BlocksFromDisk, SZ!DiskFor, DiskOf
<1>12. a \in {0} \union F
  <2>1. F \subseteq DOMAIN m.layers /\ IsFiniteSet(DOMAIN m.layers) /\ DOMAIN m.layers \subseteq Nat
    BY <1>10, LayersTyped
  <2>2. IsFiniteSet(F)
    BY <2>1, FS_Subset
  <2>3. IsFiniteSet(F \union {0})
    BY <2>2, FS_AddElement
  <2>4. PICK T : T = {0} \union F
    OBVIOUS
  <2>5. T \subseteq Int /\ T # {} /\ IsFiniteSet(T)
    <3>1. F \union {0} = T
      BY <2>4
    <3> QED
      BY <3>1, <2>1, <2>3, <2>4
  <2> QED
    BY <1>11, <2>4, <2>5, MaxOfFinite
<1>13. a \in Nat
  BY <1>10, <1>12, LayersTyped
<1>14. n = SZ!Min({SZ!BlocksFromVram(v), a, Cap})
  BY <1>1, <1>9 DEF SZ!Allowed
<1>15. n \in Int /\ n <= SZ!BlocksFromVram(v) /\ n <= a
  <2>1. PICK b : b = SZ!BlocksFromVram(v)
    OBVIOUS
  <2>2. b \in Int /\ a \in Int /\ Cap \in Int
    BY <2>1, <1>2, <1>7, <1>8, <1>13
  <2>3. SZ!Min({b, a, Cap}) \in {b, a, Cap} /\ SZ!Min({b, a, Cap}) <= b /\ SZ!Min({b, a, Cap}) <= a
    BY <2>2, MinOfThree
  <2> QED
    BY <1>14, <2>1, <2>2, <2>3
<1>16. ASSUME n > 0
       PROVE  n * (BlockOf(m) + CacheOf(m)) + Autograd + Headroom <= v /\ n <= Len(m.disk) /\ m.disk[n] + DiskMargin <= d
  <2>1. n \in Nat \ {0} /\ n <= q
    BY <1>7, <1>8, <1>15, <1>16
  <2>2. PICK x : x = v - Autograd - Headroom
    OBVIOUS
  <2>3. x \in Int /\ n <= x \div (BlockOf(m) + CacheOf(m))
    BY <1>2, <1>3, <1>6, <2>1, <2>2
  <2>4. n * (BlockOf(m) + CacheOf(m)) <= x
    BY <2>1, <2>3, DivisionFits
  <2>5. n * (BlockOf(m) + CacheOf(m)) \in Int
    BY <1>3, <1>4, <2>1
  <2>6. a \in DOMAIN m.layers /\ DiskOf(m, a) <= SZ!Min({d - DiskMargin, MaxDisk})
    BY <1>10, <1>12, <1>13, <1>15, <2>1
  <2>7. d \in Int
    BY <1>2
  <2>8. n <= Len(m.disk) /\ m.disk[n] + DiskMargin <= d
    BY <1>15, <2>1, <2>6, <2>7, DiskFits
  <2> QED
    BY <1>2, <2>2, <2>4, <2>5, <2>8
<1> QED
  BY <1>1, <1>15, <1>16

LEMMA ChosenFits ==
  ASSUME SizingAssumption, NEW m, ModelAssumption(m), model = m, NEW memory \in Nat
  PROVE  /\ SZ!ChooseNumBlocks(memory) \in Int
         /\ SZ!ChooseNumBlocks(memory) >= 1 =>
              SZ!ChooseNumBlocks(memory) * (BlockOf(m) + CacheOf(m)) + Autograd <= memory
<1>1. PICK n : n = SZ!ChooseNumBlocks(memory)
  OBVIOUS
<1>2. Autograd \in Nat
  BY DEF SizingAssumption
<1>3. PICK p : p = BlockOf(m) + CacheOf(m)
  OBVIOUS
<1>4. p \in Nat \ {0}
  <2>1. BlockOf(m) \in Nat \ {0} /\ CacheOf(m) \in Nat
    BY BlockCovers, CacheCovers
  <2> QED
    BY <2>1, <1>3
<1>5. SZ!BlockSize + SZ!CacheBytesPerBlock = p
  BY <1>3 DEF SZ!BlockSize, BlockOf, SZ!CacheBytesPerBlock, CacheOf, SZ!Kinds, KindsOf, SZ!SessionBytes
<1>6. PICK q, x : x = memory - Autograd /\ q = x \div p
  OBVIOUS
<1>7. x \in Int /\ q \in Int
  BY <1>2, <1>4, <1>6, Quotient
<1>8. n = SZ!Min({q, Len(m.layers)})
  BY <1>1, <1>5, <1>6 DEF SZ!ChooseNumBlocks
<1>9. n \in Int /\ n <= q
  <2>1. PICK l \in Nat : l = Len(m.layers)
    BY LayersTyped
  <2>2. n = IF q <= l THEN q ELSE l
    BY <1>7, <1>8, <2>1, MinOfTwo
  <2> QED
    BY <1>7, <2>1, <2>2
<1>10. ASSUME n >= 1 PROVE n * (BlockOf(m) + CacheOf(m)) + Autograd <= memory
  <2>1. n \in Nat \ {0} /\ n <= x \div (BlockOf(m) + CacheOf(m))
    BY <1>3, <1>6, <1>9, <1>10
  <2>2. n * (BlockOf(m) + CacheOf(m)) <= x
    BY <1>7, <2>1, DivisionFits
  <2>3. n * (BlockOf(m) + CacheOf(m)) \in Int
    BY <1>3, <1>4, <2>1
  <2> QED
    BY <1>2, <1>6, <2>2, <2>3
<1> QED
  BY <1>1, <1>9, <1>10

-----------------------------------------------------------------------------
\* The invariant.

SizesRight ==
  /\ model \in Models /\ line \in Int /\ free \in Reports \union {SZ!Unknown}
  /\ sessions \in Seq(Lengths) /\ tokensLeft \in Int /\ basis \in Int /\ room \in Int
  /\ server = SZ!Off => tokensLeft = -1 /\ sessions = <<>>
  /\ server # SZ!Off =>
       /\ Sized(model, free, server)
       /\ \E bal : Account(model, server, room, sessions, bal)
       /\ tokensLeft >= 0 => Honest(model, server, tokensLeft, basis)

LEMMA InitRight == ASSUME SizingAssumption, SZ!InitSizing PROVE SizesRight
<1>1. sessions = <<>> /\ tokensLeft = -1 /\ room = 0 /\ basis = 0 /\ server = SZ!Off
  BY DEF SZ!InitSizing
<1>2. model \in Models /\ line \in {-1, -2} /\ free = SZ!Unknown
  BY DEF SZ!InitSizing, SZ!Auto, SZ!Pinned
<1>3. line \in Int /\ sessions \in Seq(Lengths) /\ -1 \in Int
  BY <1>1, <1>2
<1> QED
  BY <1>1, <1>2, <1>3 DEF SizesRight

LEMMA SessionTyped ==
  ASSUME SizingAssumption, NEW m \in Models, NEW sv, Fits(m, sv)
  PROVE  \A l \in Lengths : l \in Nat /\ SessionOn(m, sv, l) \in Int
<1>1. ModelAssumption(m) /\ \A l \in Lengths : l \in Nat
  BY DEF SizingAssumption
<1>2. ASSUME NEW l \in Nat PROVE SessionOn(m, sv, l) \in Int
  <2>1. Sum(FixedBy(m), Held(sv)) \in Nat /\ Sum(PerTokenBy(m), Held(sv)) \in Nat
    BY <1>1, SessionIsLinear
  <2>2. PICK f \in Nat, p \in Nat : f = Sum(FixedBy(m), Held(sv)) /\ p = Sum(PerTokenBy(m), Held(sv))
    BY <2>1
  <2>3. SessionOn(m, sv, l) = f + p * l
    BY <1>1, <2>2, SessionIsLinear
  <2> QED
    BY <2>3
<1> QED
  BY <1>1, <1>2

LEMMA StartedRight ==
  ASSUME SizingAssumption, SizesRight, server = SZ!Off, NEW sv, Sized(model, free, sv),
         server' = sv, room' = SZ!CacheBytesPerBlock * sv.blocks, UNCHANGED <<model, line, free, tokensLeft, basis, sessions>>
  PROVE  SizesRight'
<1>1. sessions = <<>> /\ tokensLeft = -1 /\ model \in Models
  BY DEF SizesRight
<1>2. ModelAssumption(model) /\ Fits(model, sv)
  BY <1>1 DEF SizingAssumption, Sized
<1>3. SZ!CacheBytesPerBlock = CacheOf(model)
  BY DEF SZ!CacheBytesPerBlock, CacheOf, SZ!Kinds, KindsOf, SZ!SessionBytes
<1>4. PICK c : c = CacheOf(model) * sv.blocks
  OBVIOUS
<1>5. c \in Int
  <2>1. CacheOf(model) \in Nat /\ sv.blocks \in Nat
    BY <1>2, CacheCovers DEF Fits
  <2> QED
    BY <2>1, <1>4
<1>6. Account(model, sv, c, <<>>, [i \in {0} |-> c])
  <2>1. Len(<<>>) = 0 /\ 0 .. 0 = {0} /\ 1 .. 0 = {}
    OBVIOUS
  <2> QED
    BY <2>1, <1>4, <1>5 DEF Account
<1>7. room' = c /\ model' = model /\ free' = free /\ tokensLeft' = -1 /\ sessions' = <<>>
  BY <1>1, <1>3, <1>4
<1>8. \E bal : Account(model', server', room', sessions', bal)
  BY <1>6, <1>7
<1>9. /\ model' \in Models /\ line' \in Int /\ free' \in Reports \union {SZ!Unknown}
      /\ sessions' \in Seq(Lengths) /\ basis' \in Int /\ room' \in Int
  BY <1>5, <1>7 DEF SizesRight
<1>10. Sized(model', free', server')
  BY <1>7
<1>11. tokensLeft' \in Int /\ ~(tokensLeft' >= 0)
  BY <1>7
<1> QED
  BY <1>7, <1>8, <1>9, <1>10, <1>11 DEF SizesRight

LEMMA RunningIs ==
  ASSUME SizingAssumption, SizesRight, server # SZ!Off
  PROVE  /\ ModelAssumption(model) /\ Sized(model, free, server) /\ Fits(model, server)
         /\ \A l \in Lengths : l \in Nat /\ SessionOn(model, server, l) \in Int /\ SZ!SpanBytes(l) = SessionOn(model, server, l)
<1>1. model \in Models /\ Sized(model, free, server)
  BY DEF SizesRight
<1>2. ModelAssumption(model) /\ Fits(model, server)
  BY <1>1 DEF SizingAssumption, Sized
<1>3. \A l \in Lengths : l \in Nat /\ SessionOn(model, server, l) \in Int
  BY <1>1, <1>2, SessionTyped
<1>4. \A l \in Nat : SZ!SpanBytes(l) = SessionOn(model, server, l)
  BY <1>2, SumsAre
<1> QED
  BY <1>1, <1>2, <1>3, <1>4

LEMMA StartRight == ASSUME SizingAssumption, SizesRight, SZ!Start PROVE SizesRight'
<1>1. PICK memory \in Memories, first \in DOMAIN model.layers :
         \/ /\ line = SZ!Pinned
            /\ \E last \in first .. Len(model.layers) : SZ!Started(first, last - first + 1, memory, "hand")
         \/ /\ line = SZ!Auto
            /\ SZ!ChooseNumBlocks(memory) >= 1
            /\ first + SZ!ChooseNumBlocks(memory) - 1 <= Len(model.layers)
            /\ SZ!Started(first, SZ!ChooseNumBlocks(memory), memory, "server")
         \/ /\ line > 0 /\ free # SZ!Unknown /\ free.vram <= memory
            /\ first + line - 1 <= Len(model.layers)
            /\ SZ!Started(first, line, memory, IF line = SZ!Allowed(free) THEN "planner" ELSE "hand")
  BY DEF SZ!Start
<1>2. server = SZ!Off
  BY DEF SZ!Start
<1>3. model \in Models /\ ModelAssumption(model) /\ memory \in Nat /\ line \in Int /\ free \in Reports \union {SZ!Unknown}
  BY <1>1 DEF SizesRight, SizingAssumption
<1>4. Len(model.layers) \in Nat /\ DOMAIN model.layers = 1 .. Len(model.layers) /\ first \in Nat \ {0}
  BY <1>3, LayersTyped
<1>5. ASSUME NEW blocks \in Nat \ {0}, first + blocks - 1 <= Len(model.layers), NEW sizedBy,
             SZ!Started(first, blocks, memory, sizedBy),
             sizedBy = "server" => blocks * (BlockOf(model) + CacheOf(model)) + Autograd <= memory,
             sizedBy = "planner" =>
               /\ blocks * (BlockOf(model) + CacheOf(model)) + Autograd + Headroom <= free.vram
               /\ blocks <= Len(model.disk) /\ model.disk[blocks] + DiskMargin <= free.disk
      PROVE  SizesRight'
  <2>1. PICK sv : sv = [first |-> first, blocks |-> blocks, memory |-> memory, sizedBy |-> sizedBy]
    OBVIOUS
  <2>2. sv.first = first /\ sv.blocks = blocks /\ sv.memory = memory /\ sv.sizedBy = sizedBy
    BY <2>1
  <2>3. Sized(model, free, sv)
    BY <1>3, <1>4, <1>5, <2>2 DEF Sized, Fits, Takes
  <2>4. /\ server' = sv /\ room' = SZ!CacheBytesPerBlock * sv.blocks
        /\ UNCHANGED <<model, line, free, tokensLeft, basis, sessions>>
    BY <1>5, <2>1, <2>2 DEF SZ!Started
  <2> QED
    BY <1>2, <2>3, <2>4, StartedRight
<1>6. CASE \E last \in first .. Len(model.layers) : SZ!Started(first, last - first + 1, memory, "hand")
  <2>1. PICK last \in first .. Len(model.layers) : SZ!Started(first, last - first + 1, memory, "hand")
    BY <1>6
  <2>2. last - first + 1 \in Nat \ {0} /\ first + (last - first + 1) - 1 <= Len(model.layers)
    BY <1>4, <2>1
  <2> QED
    BY <2>1, <2>2, <1>5
<1>7. CASE /\ SZ!ChooseNumBlocks(memory) >= 1
           /\ first + SZ!ChooseNumBlocks(memory) - 1 <= Len(model.layers)
           /\ SZ!Started(first, SZ!ChooseNumBlocks(memory), memory, "server")
  <2>1. PICK n : n = SZ!ChooseNumBlocks(memory)
    OBVIOUS
  <2>2. n \in Int /\ n >= 1 /\ n * (BlockOf(model) + CacheOf(model)) + Autograd <= memory
    BY <1>3, <1>7, <2>1, ChosenFits
  <2>3. n \in Nat \ {0} /\ SZ!Started(first, n, memory, "server") /\ first + n - 1 <= Len(model.layers)
    BY <1>7, <2>1, <2>2
  <2> QED
    BY <2>2, <2>3, <1>5
<1>8. CASE /\ line > 0 /\ free # SZ!Unknown
           /\ first + line - 1 <= Len(model.layers)
           /\ SZ!Started(first, line, memory, IF line = SZ!Allowed(free) THEN "planner" ELSE "hand")
  <2>1. PICK sizedBy : sizedBy = IF line = SZ!Allowed(free) THEN "planner" ELSE "hand"
    OBVIOUS
  <2>2. line \in Nat \ {0} /\ free \in Reports
    BY <1>3, <1>8
  <2>3. sizedBy = "planner" => line = SZ!Allowed(free)
    BY <2>1
  <2>4. sizedBy # "server"
    BY <2>1
  <2>5. sizedBy = "planner" =>
               /\ line * (BlockOf(model) + CacheOf(model)) + Autograd + Headroom <= free.vram
               /\ line <= Len(model.disk) /\ model.disk[line] + DiskMargin <= free.disk
    <3>1. SUFFICES ASSUME line = SZ!Allowed(free)
                   PROVE  /\ line * (BlockOf(model) + CacheOf(model)) + Autograd + Headroom <= free.vram
                          /\ line <= Len(model.disk) /\ model.disk[line] + DiskMargin <= free.disk
      BY <2>3
    <3>2. line > 0
      BY <1>8
    <3> QED
      BY <1>3, <2>2, <3>1, <3>2, AllowedFits
  <2>6. SZ!Started(first, line, memory, sizedBy) /\ first + line - 1 <= Len(model.layers)
    BY <1>8, <2>1
  <2> QED
    BY <2>2, <2>4, <2>5, <2>6, <1>5
<1> QED
  BY <1>1, <1>6, <1>7, <1>8

LEMMA AnnounceRight == ASSUME SizingAssumption, SizesRight, SZ!Announce PROVE SizesRight'
<1>1. server # SZ!Off /\ basis' = room /\ UNCHANGED <<model, line, free, server, room, sessions>>
  BY DEF SZ!Announce
<1>2. ModelAssumption(model) /\ Fits(model, server)
  BY <1>1, RunningIs
<1>3. \A length \in Nat : SZ!SpanBytes(length) = SessionOn(model, server, length)
  BY <1>2, SumsAre
<1>4. SZ!SpanBytes(1) = SessionOn(model, server, 1) /\ SZ!SpanBytes(2) = SessionOn(model, server, 2)
  BY <1>3
<1>5. SZ!FixedBytes = FixedOn(model, server) /\ SZ!BytesPerToken = EachOn(model, server)
  BY <1>4 DEF SZ!FixedBytes, FixedOn, SZ!BytesPerToken, EachOn
<1>6. tokensLeft' = SZ!Max({0, room - FixedOn(model, server)}) \div EachOn(model, server)
  BY <1>5 DEF SZ!Announce
<1>7. room \in Int
  BY DEF SizesRight
<1>8. Honest(model, server, tokensLeft', room)
  BY <1>2, <1>6, <1>7, AnnouncementIsHonest
<1>9. tokensLeft' \in Int
  <2>1. EachOn(model, server) \in Nat \ {0} /\ FixedOn(model, server) \in Nat
    BY <1>2, PricesRight, SessionIsLinear
  <2>2. PICK y : y = SZ!Max({0, room - FixedOn(model, server)})
    OBVIOUS
  <2>3. y \in Int
    <3>1. 0 \in Int /\ room - FixedOn(model, server) \in Int
      BY <1>7, <2>1
    <3> QED
      BY <2>2, <3>1, MaxOfTwo
  <2> QED
    BY <1>6, <2>1, <2>2, <2>3, Quotient
<1>10. /\ model' = model /\ line' = line /\ free' = free /\ server' = server /\ room' = room
       /\ sessions' = sessions /\ basis' = room
  BY <1>1
<1>11. Honest(model', server', tokensLeft', basis')
  BY <1>8, <1>10
<1> QED
  BY <1>1, <1>7, <1>9, <1>10, <1>11 DEF SizesRight

LEMMA OpenRight ==
  ASSUME SizingAssumption, SizesRight, NEW length \in Lengths, SZ!Open(length) PROVE SizesRight'
<1>1. /\ server # SZ!Off /\ sessions' = Append(sessions, length) /\ room' = room - SZ!SpanBytes(length)
      /\ model' = model /\ line' = line /\ free' = free /\ server' = server /\ tokensLeft' = tokensLeft /\ basis' = basis
  BY DEF SZ!Open
<1>2. /\ SZ!SpanBytes(length) = SessionOn(model, server, length)
      /\ \A l \in Lengths : SessionOn(model, server, l) \in Int
  BY <1>1, RunningIs
<1>3. PICK bal : Account(model, server, room, sessions, bal)
  BY <1>1 DEF SizesRight
<1>4. room \in Int /\ sessions \in Seq(Lengths)
  BY DEF SizesRight
<1>5. PICK b : Account(model, server, room - SessionOn(model, server, length), Append(sessions, length), b)
  BY <1>2, <1>3, <1>4, AccountOpen
<1>6. Account(model', server', room', sessions', b)
  BY <1>1, <1>2, <1>5
<1>7. room' \in Int /\ sessions' \in Seq(Lengths)
  BY <1>1, <1>2, <1>4
<1> QED
  BY <1>1, <1>6, <1>7 DEF SizesRight

LEMMA EndRight == ASSUME SizingAssumption, SizesRight, SZ!End PROVE SizesRight'
<1>1. /\ sessions # <<>> /\ sessions' = Tail(sessions) /\ room' = room + SZ!SpanBytes(Head(sessions))
      /\ model' = model /\ line' = line /\ free' = free /\ server' = server /\ tokensLeft' = tokensLeft /\ basis' = basis
  BY DEF SZ!End
<1>2. server # SZ!Off
  BY <1>1 DEF SizesRight
<1>3. room \in Int /\ sessions \in Seq(Lengths)
  BY DEF SizesRight
<1>4. Head(sessions) \in Lengths /\ Tail(sessions) \in Seq(Lengths)
  BY <1>1, <1>3
<1>5. /\ SZ!SpanBytes(Head(sessions)) = SessionOn(model, server, Head(sessions))
      /\ SessionOn(model, server, Head(sessions)) \in Int
  BY <1>2, <1>4, RunningIs
<1>6. PICK bal : Account(model, server, room, sessions, bal)
  BY <1>2 DEF SizesRight
<1>7. PICK b : Account(model, server, room + SessionOn(model, server, Head(sessions)), Tail(sessions), b)
  BY <1>1, <1>3, <1>6, AccountEnd
<1>8. Account(model', server', room', sessions', b)
  BY <1>1, <1>5, <1>7
<1>9. room' \in Int /\ sessions' \in Seq(Lengths)
  BY <1>1, <1>3, <1>4, <1>5
<1> QED
  BY <1>1, <1>2, <1>8, <1>9 DEF SizesRight

LEMMA StepRight ==
  ASSUME SizingAssumption, SizesRight, [SZ!NextSizing]_SZ!sizingVars PROVE SizesRight'
<1>1. CASE SZ!Preflight
  <2>1. server = SZ!Off /\ free' \in Reports \union {SZ!Unknown}
    BY <1>1 DEF SZ!Preflight
  <2>2. model' = model /\ line' = line /\ server' = server /\ room' = room /\ tokensLeft' = tokensLeft
        /\ basis' = basis /\ sessions' = sessions
    BY <1>1 DEF SZ!Preflight
  <2> QED
    BY <2>1, <2>2 DEF SizesRight
<1>2. CASE SZ!Plan
  <2>1. server = SZ!Off /\ line' = IF line \in {SZ!Pinned, SZ!Skipped} \/ free = SZ!Unknown THEN line ELSE SZ!Allowed(free)
    BY <1>2 DEF SZ!Plan
  <2>2. model' = model /\ free' = free /\ server' = server /\ room' = room /\ tokensLeft' = tokensLeft
        /\ basis' = basis /\ sessions' = sessions
    BY <1>2 DEF SZ!Plan
  <2>3. free # SZ!Unknown => SZ!Allowed(free) \in Int
    BY AllowedFits DEF SizesRight, SizingAssumption
  <2>4. line' \in Int
    BY <2>1, <2>3 DEF SizesRight
  <2> QED
    BY <2>1, <2>2, <2>4 DEF SizesRight
<1>3. CASE SZ!Stop
  <2>1. /\ server' = SZ!Off /\ room' = 0 /\ tokensLeft' = -1 /\ basis' = 0 /\ sessions' = <<>>
        /\ model' = model /\ line' = line /\ free' = free
    BY <1>3 DEF SZ!Stop
  <2>2. sessions' \in Seq(Lengths)
    BY <2>1
  <2> QED
    BY <2>1, <2>2 DEF SizesRight
<1>4. CASE UNCHANGED SZ!sizingVars
  <2>1. model' = model /\ line' = line /\ free' = free /\ server' = server /\ room' = room /\ tokensLeft' = tokensLeft
        /\ basis' = basis /\ sessions' = sessions
    BY <1>4 DEF SZ!sizingVars
  <2> QED
    BY <2>1 DEF SizesRight
<1> QED
  BY <1>1, <1>2, <1>3, <1>4, StartRight, AnnounceRight, OpenRight, EndRight DEF SZ!NextSizing

-----------------------------------------------------------------------------
\* What the invariant says.

LEMMA RightPromises == ASSUME SizingAssumption, SizesRight PROVE SZ!PromisesHold
<1>1. SUFFICES ASSUME server # SZ!Off, tokensLeft >= 0, room >= basis,
                      NEW length \in Lengths, length * 2 * server.blocks <= tokensLeft
               PROVE  SZ!SpanBytes(length) <= room
  BY DEF SZ!PromisesHold, SZ!HasCacheFor
<1>2. SZ!SpanBytes(length) = SessionOn(model, server, length) /\ SessionOn(model, server, length) \in Int
  BY <1>1, RunningIs
<1>3. Honest(model, server, tokensLeft, basis)
  BY <1>1 DEF SizesRight
<1>4. SessionOn(model, server, length) <= basis
  BY <1>1, <1>3 DEF Honest
<1>5. basis \in Int /\ room \in Int
  BY DEF SizesRight
<1> QED
  BY <1>1, <1>2, <1>4, <1>5

LEMMA RightBudgets == ASSUME SizingAssumption, SizesRight PROVE SZ!BudgetsFit
<1>1. SUFFICES ASSUME server # SZ!Off PROVE SZ!BudgetsFit
  BY DEF SZ!BudgetsFit
<1>2. ModelAssumption(model) /\ Sized(model, free, server) /\ Fits(model, server)
  BY <1>1, RunningIs
<1>3. PICK n, b, c, w : /\ n = server.blocks /\ b = BlockOf(model) /\ c = CacheOf(model)
                        /\ w = Sum(WeightBy(model), Held(server))
  OBVIOUS
<1>4. n \in Nat \ {0} /\ b \in Nat /\ c \in Nat /\ w \in Nat /\ w <= b * n
  BY <1>2, <1>3, BlockCovers, CacheCovers, WeightsFit DEF Fits
<1>5. SZ!WeightBytes = w /\ SZ!BlockSize = b /\ SZ!AttnCacheBytes = c * n
  BY <1>2, <1>3, SumsAre DEF SZ!AttnCacheBytes
<1>6. n * (b + c) = b * n + c * n /\ b * n \in Nat /\ c * n \in Nat
  BY <1>4
<1>7. Takes(model, server) = b * n + c * n
  BY <1>3, <1>6 DEF Takes
<1>8. PICK x, y \in Nat : x = b * n /\ y = c * n
  BY <1>6
<1>9. w <= x /\ SZ!WeightBytes + SZ!AttnCacheBytes = w + y /\ Takes(model, server) = x + y
  BY <1>4, <1>5, <1>7, <1>8
<1>10. Autograd \in Nat /\ Headroom \in Nat /\ server.memory \in Int
  BY <1>2 DEF SizingAssumption, Sized
<1>11. server.sizedBy = "server" => SZ!WeightBytes + SZ!AttnCacheBytes + Autograd <= server.memory
  <2>1. SUFFICES ASSUME x + y + Autograd <= server.memory PROVE (w + y) + Autograd <= server.memory
    BY <1>2, <1>9 DEF Sized
  <2> QED
    BY <2>1, <1>4, <1>8, <1>9, <1>10
<1>12. server.sizedBy = "planner" =>
         /\ SZ!WeightBytes + SZ!AttnCacheBytes + Autograd + Headroom <= free.vram
         /\ server.blocks <= Len(model.disk) /\ model.disk[server.blocks] + DiskMargin <= free.disk
  <2>1. SUFFICES ASSUME server.sizedBy = "planner"
                 PROVE  SZ!WeightBytes + SZ!AttnCacheBytes + Autograd + Headroom <= free.vram
    BY <1>2 DEF Sized
  <2>2. x + y + Autograd + Headroom <= free.vram
    BY <1>2, <1>9, <2>1 DEF Sized
  <2>3. free.vram \in Int
    <3>1. free \in Reports \/ free = SZ!Unknown
      BY DEF SizesRight
    <3> QED
      BY <3>1 DEF SizingAssumption, SZ!Unknown
  <2>4. w + y + Autograd + Headroom <= free.vram
    BY <2>2, <2>3, <1>4, <1>8, <1>9, <1>10
  <2> QED
    BY <2>4, <1>9
<1>13. ~SZ!Warned => SZ!WeightBytes + SZ!AttnCacheBytes <= server.memory
  <2>1. SUFFICES ASSUME ~(server.memory - x < y) PROVE w + y <= server.memory
    BY <1>3, <1>5, <1>8, <1>9 DEF SZ!Warned
  <2> QED
    BY <2>1, <1>4, <1>8, <1>9, <1>10
<1>14. sessions = <<>> => SZ!SpanBytes(Tokens) <= room
  <2>1. SUFFICES ASSUME sessions = <<>> PROVE SZ!SpanBytes(Tokens) <= room
    OBVIOUS
  <2>2. Tokens \in Nat
    BY DEF SizingAssumption
  <2>3. SZ!SpanBytes(Tokens) = SessionOn(model, server, Tokens)
    BY <1>2, <2>2, SumsAre
  <2>4. PICK bal : Account(model, server, room, sessions, bal)
    BY <1>1 DEF SizesRight
  <2>5. Len(sessions) = 0
    BY <2>1
  <2>6. room = CacheOf(model) * server.blocks
    BY <2>4, <2>5 DEF Account
  <2> QED
    BY <1>2, <2>3, <2>6, CacheHoldsOne
<1> QED
  BY <1>11, <1>12, <1>13, <1>14 DEF SZ!BudgetsFit

\* For every model and device: a session that a client believes to fit into the tokens that
\* are advertised is granted as long as the cache holds what it held then, although
\* bytes_per_token rounds and linear attention has a fixed state; and the weights and the
\* cache of the blocks that the server or the planner chose fit what they were sized for.
THEOREM SizesAreRight == ASSUME SizingAssumption PROVE SZ!SpecSizing => []SZ!SizesHold
<1>1. SZ!InitSizing => SizesRight
  BY InitRight
<1>2. SizesRight /\ [SZ!NextSizing]_SZ!sizingVars => SizesRight'
  BY StepRight
<1>3. SizesRight => SZ!SizesHold
  BY RightPromises, RightBudgets DEF SZ!SizesHold
<1> QED
  BY <1>1, <1>2, <1>3, PTL DEF SZ!SpecSizing
===============================================================================
