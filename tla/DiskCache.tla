------------------------------ MODULE DiskCache ------------------------------
(***************************************************************************)
(* The servers of one host load their blocks and adapters through one      *)
(* cache directory: the file locks and the removal of files of             *)
(* src/petals/utils/disk_cache.py, the loops of server/from_pretrained.py  *)
(* and utils/peft.py around them, and the throughput table of              *)
(* server/throughput.py with a lock of its own.                            *)
(*                                                                         *)
(* A process holds a lock while it is in some phases; the system drops the *)
(* locks of a process that dies.                                           *)
(***************************************************************************)
EXTENDS Integers, FiniteSets, SequencesExt, FiniteSetsExt

CONSTANTS
  Servers,     \* server processes of the host
  Shards,      \* weight files of the model, downloaded under the exclusive lock
  SizedShards, \* those whose size the hub reports
  Index,       \* its index file
  Adapters,    \* weight files of adapters
  Size(_),     \* the size of a file
  Loads,       \* the sets of files a server may have to load
  MaxSpace,    \* max_disk_space; if that is None, more than all files together
  Spares,      \* what the volume may have left beyond os_quota when it is short of space
  Keys,        \* keys of the throughput table: model, device and dtype
  MaxTroubles  \* bound on failures, crashes and shortages

NoFile == "none"

VARIABLES
  files,     \* files in the cache directory
  table,     \* keys in the throughput table, {} while the file cannot be parsed
  phase,     \* where the server is: see Phases
  file,      \* the file it loads
  left,      \* the files it has yet to load
  key,       \* its throughput key, and whether it was told to measure again
  known,     \* the throughput entries it holds in memory
  troubles   \* failures, crashes and shortages so far

diskVars == <<files, table, phase, file, left, key, known, troubles>>

Measuring == {"measure", "save"}                  \* phases under throughput.lock
Shared == {"lookup", "reading"}                   \* phases under a shared blocks.lock
Exclusive == {"space", "download", "readNew"}     \* phases under an exclusive one
Ended == {"loaded", "raised", "dead"}
Phases == Measuring \cup Shared \cup Exclusive \cup Ended
          \cup {"start", "index", "open", "next", "wantShared", "wantExclusive", "sleep"}

InitDisk ==
  /\ files = {}
  /\ table = {}
  /\ phase = [s \in Servers |-> "start"]
  /\ file = [s \in Servers |-> NoFile]
  /\ left \in [Servers -> Loads]
  /\ key \in [Servers -> [name : Keys, force : BOOLEAN]]
  /\ known = [s \in Servers |-> {}]
  /\ troubles = 0

Used(set) == MapThenSumSet(Size, set)

GoTo(s, p) == phase' = [phase EXCEPT ![s] = p]

-----------------------------------------------------------------------------
(* get_server_throughput.                                                  *)

MayMeasure(s) == \A r \in Servers : phase[r] \notin Measuring

\* Under the lock the table is read, and used if the server's key is in it.
ReadTable(s) ==
  LET cache == IF key[s].force THEN {} ELSE table
  IN  /\ phase[s] = "start" /\ MayMeasure(s)
      /\ IF key[s].name \in cache
         THEN GoTo(s, "index") /\ UNCHANGED known
         ELSE GoTo(s, "measure") /\ known' = [known EXCEPT ![s] = cache]
      /\ UNCHANGED <<files, table, file, left, key, troubles>>

\* The file is opened for writing, which empties it.
Measure(s) ==
  /\ phase[s] = "measure"
  /\ known' = [known EXCEPT ![s] = @ \cup {key[s].name}]
  /\ table' = {}
  /\ GoTo(s, "save")
  /\ UNCHANGED <<files, file, left, key, troubles>>

\* A failure to save is logged.
SaveTable(s) ==
  /\ phase[s] = "save"
  /\ table' \in {known[s], {}}
  /\ known' = [known EXCEPT ![s] = {}]
  /\ GoTo(s, "index")
  /\ UNCHANGED <<files, file, left, key, troubles>>

-----------------------------------------------------------------------------
(* load_pretrained_block: the index and the shards it names.               *)

\* No lock is held while the index is found and, if need be, downloaded ...
FetchIndex(s) ==
  /\ phase[s] = "index"
  /\ files' = files \cup {Index}
  /\ GoTo(s, "open")
  /\ UNCHANGED <<table, file, left, key, known, troubles>>

\* ... nor when it is opened: by then another server may have removed it.
OpenIndex(s) ==
  /\ phase[s] = "open"
  /\ GoTo(s, IF Index \in files THEN "next" ELSE "raised")
  /\ UNCHANGED <<files, table, file, left, key, known, troubles>>

NextFile(s) ==
  /\ phase[s] = "next"
  /\ IF left[s] = {} THEN GoTo(s, "loaded") /\ UNCHANGED file
     ELSE /\ GoTo(s, "wantShared")
          /\ \E f \in left[s] : file' = [file EXCEPT ![s] = f]
  /\ UNCHANGED <<files, table, left, key, known, troubles>>

LockShared(s) ==
  /\ phase[s] = "wantShared" /\ \A r \in Servers : phase[r] \notin Exclusive
  /\ GoTo(s, "lookup")
  /\ UNCHANGED <<files, table, file, left, key, known, troubles>>

\* Mutant of LockExclusive: the lock of a writer does not wait for readers.
LockAmongWriters(s) ==
  /\ phase[s] = "wantExclusive" /\ \A r \in Servers : phase[r] \notin Exclusive
  /\ GoTo(s, "space")
  /\ UNCHANGED <<files, table, file, left, key, known, troubles>>

LockExclusive(s) ==
  /\ phase[s] = "wantExclusive" /\ \A r \in Servers : phase[r] \notin Shared \cup Exclusive
  /\ GoTo(s, "space")
  /\ UNCHANGED <<files, table, file, left, key, known, troubles>>

\* Mutant of LookUp: a file that is missing is downloaded at once, as for adapters.
LookUpAll(s) ==
  /\ phase[s] = "lookup"
  /\ files' = files \cup {file[s]}
  /\ GoTo(s, "reading")
  /\ UNCHANGED <<table, file, left, key, known, troubles>>

\* A file that is there is read.  A missing shard is left to the second part; a
\* missing adapter is downloaded here, under the shared lock and whatever space
\* there is.
LookUp(s) ==
  /\ phase[s] = "lookup"
  /\ files' = IF file[s] \in Adapters THEN files \cup {file[s]} ELSE files
  /\ GoTo(s, IF file[s] \in files' THEN "reading" ELSE "wantExclusive")
  /\ UNCHANGED <<table, file, left, key, known, troubles>>

\* The tensors are in memory; the lock is released.
Loaded(s) ==
  /\ phase[s] \in {"reading", "readNew"}
  /\ left' = [left EXCEPT ![s] = @ \ {file[s]}]
  /\ file' = [file EXCEPT ![s] = NoFile]
  /\ GoTo(s, "next")
  /\ UNCHANGED <<files, table, key, known, troubles>>

-----------------------------------------------------------------------------
(* free_disk_space_for.                                                    *)

Available(spare) == Min({spare, MaxSpace - Used(files)})

\* The first files that free as much as needed, in any order (the time of the last access, which
\* file systems need not keep up to date), or all of them if even those do not.
Removals(needed) ==
  {gone \in SUBSET files :
     \/ Used(gone) >= needed /\ \E f \in gone : Used(gone \ {f}) < needed
     \/ gone = files /\ Used(files) < needed}

\* If all files were removed and it is not enough, the loop tries again later.
MakeRoom(s, needed) ==
  IF needed <= 0
  THEN UNCHANGED files /\ GoTo(s, "download")
  ELSE \E gone \in Removals(needed) :
         /\ files' = files \ gone
         /\ GoTo(s, IF Used(gone) >= needed THEN "download" ELSE "sleep")

\* The rest of the volume belongs to other programs, and now and then they leave less than
\* max_disk_space would allow.
FreeSpace(s) ==
  /\ phase[s] = "space" /\ file[s] \in SizedShards
  /\ \E spare \in Spares \cup {MaxSpace} :
       /\ IF spare < MaxSpace - Used(files)
          THEN troubles < MaxTroubles /\ troubles' = troubles + 1 ELSE UNCHANGED troubles
       /\ MakeRoom(s, Size(file[s]) - Available(spare))
  /\ UNCHANGED <<table, file, left, key, known>>

\* Without a reported size the file is downloaded all the same, after a warning.
SkipFreeing(s) ==
  /\ phase[s] = "space" /\ file[s] \notin SizedShards
  /\ GoTo(s, "download")
  /\ UNCHANGED <<files, table, file, left, key, known, troubles>>

Download(s) ==
  /\ phase[s] = "download"
  /\ files' = files \cup {file[s]}
  /\ GoTo(s, "readNew")
  /\ UNCHANGED <<table, file, left, key, known, troubles>>

-----------------------------------------------------------------------------

\* Any exception under a lock releases it: the first part is given up for the
\* second, which is tried again after a delay.
Fail(s) ==
  /\ phase[s] \in Shared \cup Exclusive /\ troubles < MaxTroubles
  /\ GoTo(s, IF phase[s] \in Shared THEN "wantExclusive" ELSE "sleep")
  /\ troubles' = troubles + 1
  /\ UNCHANGED <<files, table, file, left, key, known>>

\* Mutant of Wake: the second part is tried once.
WakeAndStay(s) == phase[s] = "sleep" /\ UNCHANGED diskVars

Wake(s) ==
  /\ phase[s] = "sleep"
  /\ GoTo(s, "wantExclusive")
  /\ UNCHANGED <<files, table, file, left, key, known, troubles>>

Die(s) ==
  /\ phase[s] \notin Ended /\ troubles < MaxTroubles
  /\ GoTo(s, "dead")
  /\ troubles' = troubles + 1
  /\ UNCHANGED <<files, table, file, left, key, known>>

LoadStep(s) ==
  \/ ReadTable(s) \/ Measure(s) \/ SaveTable(s)
  \/ FetchIndex(s) \/ OpenIndex(s) \/ NextFile(s)
  \/ LockShared(s) \/ LookUp(s) \/ Loaded(s)
  \/ LockExclusive(s) \/ FreeSpace(s) \/ SkipFreeing(s) \/ Download(s) \/ Wake(s)

NextDisk == \E s \in Servers : LoadStep(s) \/ Fail(s) \/ Die(s)

\* Processes run on, and a lock that is free is had in the end.
FairDisk == \A s \in Servers : WF_diskVars(LoadStep(s))

SpecDisk == InitDisk /\ [][NextDisk]_diskVars /\ FairDisk

-----------------------------------------------------------------------------

(***************************************************************************)
(* A server that reads a file finds it there to the end: whatever other    *)
(* servers remove to make room, it is none of the files in use             *)
(* (allow_cache_reads).  And however servers come and go, those shards     *)
(* whose size the hub reports never take more than max_disk_space          *)
(* (free_disk_space_for): the other shards, adapters and indices are saved *)
(* without asking, so nothing more can be said of those.                   *)
(***************************************************************************)
FilesInUseStay ==
  /\ \A s \in Servers : phase[s] \in Phases
  /\ \A s \in Servers : phase[s] \in {"reading", "readNew"} => file[s] \in files
  /\ Used(files \cap SizedShards) <= MaxSpace

\* Every server loads all its files, dies, or raises because its index went away,
\* if every shard fits by itself and the volume is not short of space for ever.
EveryLoadEnds == \A s \in Servers : <>(phase[s] \in Ended)
=============================================================================
