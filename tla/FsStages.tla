------------------------------ MODULE FsStages ------------------------------
(***************************************************************************)
(* One file-system stage of a full scan (the scan files of recovery):      *)
(* find the volumes, walk each of them, append every file to the stage's   *)
(* list, keep its recovery source in the engine's map and report it.       *)
(* FAT, ext, NTFS and Btrfs walk all volumes with one pool of goroutines,  *)
(* APFS has a pool for each container, exFAT and HFS+ walk one volume      *)
(* after the other; `rounds' is the list of these batches.  A volume is    *)
(* sound, broken (its walk fails somewhere) or skipped (an encrypted APFS  *)
(* volume without a key, a volume without a root tree).                    *)
(***************************************************************************)
EXTENDS Naturals, Sequences, FiniteSets

CONSTANTS
  Kinds,      \* the stages of this instance, among the seven
  Containers, \* containers of a disk; each is a set of volumes
  Fast,       \* volumes where the fast look examines the disk; the others
              \* are found only by a search block by block
  Workers,    \* goroutines of a pool: at most four
  NbFiles,    \* files of a volume
  None

Volumes == UNION Containers

ASSUME StagesAssumption ==
  /\ Kinds \subseteq {"ntfs", "exfat", "fat", "ext", "apfs", "hfsplus", "btrfs"}
  /\ NbFiles \in Nat /\ Fast \subseteq Volumes
  /\ IsFiniteSet(Workers) /\ Workers # {}     \* runtime.NumCPU() is at least 1
  /\ IsFiniteSet(Containers) /\ \A c \in Containers : IsFiniteSet(c)
  /\ \A c, d \in Containers : c = d \/ c \cap d = {}

VARIABLES
  kind, cond,  \* the stage, and the condition of each volume
  cancelled,   \* the context
  found,       \* the volumes of the search
  rounds,      \* batches of volumes still to be walked
  jobs,        \* the closed channel of the batch under way
  worker,      \* of each goroutine: [pc, vol, n, own]
  files,       \* the stage's result list
  cached,      \* e.fatSources, e.ntfsSources, ...: from an ID to the file
  reported,    \* files handed to onFound when their source should be kept
  live,        \* NTFS: files handed to onFound by the first pass over the MFT
  hints,       \* NTFS: volumes whose change journal named files that are gone:
               \* shown and listed, and marked as not recoverable
  scannedOk, lastErr, \* NTFS: a partition was scanned; a partition failed
  outcome      \* "searching", "walking", then "ok" or "error"

vars == <<kind, cond, cancelled, found, rounds, jobs, worker, files, cached, reported,
          live, hints, scannedOk, lastErr, outcome>>

(* What the stages do differently:                                          *)
(*   batch    the volumes one goroutine pool walks: all, the ones of a      *)
(*            container, or one (no pool); the context is looked at before  *)
(*            each batch unless there is only one, and by every goroutine   *)
(*            before each volume of a pool                                  *)
(*   streams  files are reported while the walk goes on                     *)
(*   looks    the walk looks at the context; leaves: its goroutine then     *)
(*            leaves, otherwise it comes back for the next volume           *)
(*   none     what the stage returns if there is no volume                  *)
Rule(batch, streams, looks, leaves) ==
  [batch |-> batch, streams |-> streams, looks |-> looks, leaves |-> leaves]

runEXFATScan == Rule("one", TRUE, TRUE, FALSE)
runFATScan == Rule("all", TRUE, TRUE, FALSE)
runEXTScan == Rule("all", TRUE, TRUE, FALSE)
runNTFSScan == Rule("all", FALSE, TRUE, FALSE)
runAPFSScan == Rule("container", FALSE, FALSE, FALSE)
runHFSPlusScan == Rule("one", FALSE, FALSE, FALSE)
runBtrfsScan == Rule("all", FALSE, TRUE, TRUE)

rule ==
  CASE kind = "exfat" -> runEXFATScan [] kind = "fat" -> runFATScan
    [] kind = "ext" -> runEXTScan [] kind = "ntfs" -> runNTFSScan
    [] kind = "apfs" -> runAPFSScan [] kind = "hfsplus" -> runHFSPlusScan
    [] kind = "btrfs" -> runBtrfsScan

File == Volumes \X (1 .. NbFiles)

(* The ID of an APFS file names its container and its object, not its       *)
(* volume.                                                                  *)
Id(f) == IF kind = "apfs" THEN <<CHOOSE c \in Containers : f[1] \in c, f[2]>> ELSE f

Idle == [pc |-> "idle", vol |-> None, n |-> 0, own |-> {}]

TypeOK ==
  /\ kind \in Kinds /\ cond \in [Volumes -> {"sound", "broken", "skipped"}]
  /\ worker \in [Workers -> [pc : {"off", "idle", "live", "walk", "cache", "report", "left"},
                             vol : Volumes \cup {None}, n : 0 .. NbFiles, own : SUBSET File]]
  /\ files \subseteq File /\ reported \subseteq File
  /\ live \subseteq File /\ hints \subseteq Volumes
  /\ outcome \in {"searching", "walking", "ok", "error"}

Init ==
  /\ kind \in Kinds
  /\ cond \in [Volumes -> {"sound", "broken", "skipped"}]
  /\ kind # "apfs" => \A v \in Volumes : cond[v] # "skipped"
  /\ cancelled = FALSE
  /\ found = {} /\ rounds = <<>> /\ jobs = {}
  /\ worker = [w \in Workers |-> [Idle EXCEPT !.pc = "off"]]
  /\ files = {} /\ cached = [i \in {} |-> None] /\ reported = {}
  /\ live = {} /\ hints = {}
  /\ scannedOk = FALSE /\ lastErr = FALSE
  /\ outcome = "searching"

Cancel ==
  /\ ~cancelled /\ outcome \in {"searching", "walking"}
  /\ cancelled' = TRUE
  /\ UNCHANGED <<kind, cond, found, rounds, jobs, worker, files, cached, reported,
                 live, hints, scannedOk, lastErr, outcome>>

-----------------------------------------------------------------------------
(* Finding the volumes *)

Return(result) ==
  /\ outcome' = result
  /\ UNCHANGED <<kind, cond, cancelled, found, rounds, jobs, worker, files, cached, reported,
                 live, hints, scannedOk, lastErr>>

(* A fast look and, if the user asked for it (deep), a search block by      *)
(* block, in which a block that cannot be read is passed over.  NTFS, exFAT *)
(* and FAT drop the hits of a cancelled search and keep the fast look, ext  *)
(* keeps both, and all four fail without a volume; a cancelled search of    *)
(* the others fails, and without a volume they succeed with nothing.        *)
OrFail(vols) == IF vols = {} THEN None ELSE vols

NtfsFindPartitions(fast, hits) == OrFail(IF cancelled THEN fast ELSE fast \cup hits)
ExfatFindPartitions(fast, hits) == OrFail(IF cancelled THEN fast ELSE fast \cup hits)
FatFindPartitions(fast, hits) == OrFail(IF cancelled THEN fast ELSE fast \cup hits)
ExtFindPartitions(fast, hits) == OrFail(fast \cup hits)
ApfsFindContainers(fast, hits, deep) == IF deep /\ cancelled THEN None ELSE fast \cup hits
HfsFindVolumes(fast, hits, deep) == IF deep /\ cancelled THEN None ELSE fast \cup hits
BtrfsFindVolumes(fast, hits, deep) == IF deep /\ cancelled THEN None ELSE fast \cup hits

Search(fast, hits, deep) ==
  CASE kind = "ntfs" -> NtfsFindPartitions(fast, hits)
    [] kind = "exfat" -> ExfatFindPartitions(fast, hits)
    [] kind = "fat" -> FatFindPartitions(fast, hits)
    [] kind = "ext" -> ExtFindPartitions(fast, hits)
    [] kind = "apfs" -> ApfsFindContainers(fast, hits, deep)
    [] kind = "hfsplus" -> HfsFindVolumes(fast, hits, deep)
    [] kind = "btrfs" -> BtrfsFindVolumes(fast, hits, deep)

(* The batches a stage makes of the volumes it found.                       *)
Batches(vols) ==
  CASE rule.batch = "one" -> {{v} : v \in vols}
    [] rule.batch = "container" -> {c \cap vols : c \in Containers} \ {{}}
    [] rule.batch = "all" -> {vols}

FindVolumes(fast, hits, deep) ==
  /\ outcome = "searching" /\ (deep \/ hits = {})
  /\ LET vols == Search(fast, hits, deep)
     IN IF vols \in {None, {}}
        THEN Return(IF vols = None THEN "error" ELSE "ok")
        ELSE /\ outcome' = "walking" /\ found' = vols
             /\ rounds' \in {s \in [1 .. Cardinality(Batches(vols)) -> Batches(vols)] :
                               {s[i] : i \in DOMAIN s} = Batches(vols)}
             /\ UNCHANGED <<kind, cond, cancelled, jobs, worker, files, cached, reported,
                            live, hints, scannedOk, lastErr>>

-----------------------------------------------------------------------------
(* A batch: start the goroutines, wait for all of them *)

AllLeft == \A w \in Workers : worker[w].pc \in {"off", "left"}

StartBatch ==
  /\ outcome = "walking" /\ AllLeft /\ rounds # <<>>
  /\ ~(rule.batch # "all" /\ cancelled)
  /\ jobs' = Head(rounds) /\ rounds' = Tail(rounds)
  /\ \E pool \in SUBSET Workers :
       /\ Cardinality(pool) = IF rule.batch = "one" THEN 1
                              ELSE IF Cardinality(jobs') < Cardinality(Workers)
                              THEN Cardinality(jobs') ELSE Cardinality(Workers)
       /\ worker' = [w \in Workers |-> IF w \in pool THEN Idle ELSE [Idle EXCEPT !.pc = "off"]]
  /\ UNCHANGED <<kind, cond, cancelled, found, files, cached, reported, live, hints,
                 scannedOk, lastErr, outcome>>

StopBetween ==
  /\ outcome = "walking" /\ AllLeft /\ rounds # <<>>
  /\ rule.batch # "all" /\ cancelled
  /\ Return("error")

(* NTFS alone reports a failure, and only if no partition could be scanned. *)
ReturnFiles ==
  /\ outcome = "walking" /\ rounds = <<>> /\ AllLeft
  /\ Return(IF kind = "ntfs" /\ ~scannedOk /\ lastErr THEN "error" ELSE "ok")

-----------------------------------------------------------------------------
(* A goroutine of the pool *)

Step(w, r) == worker' = [worker EXCEPT ![w] = r]

KeepStage ==
  UNCHANGED <<kind, cond, cancelled, found, rounds, live, hints, scannedOk, lastErr, outcome>>

Take(w, v) ==
  /\ worker[w].pc = "idle" /\ v \in jobs
  /\ jobs' = jobs \ {v}
  /\ IF cancelled /\ rule.batch # "one"
     THEN Step(w, [Idle EXCEPT !.pc = "left"])
     ELSE Step(w, [Idle EXCEPT !.pc = IF kind = "ntfs" THEN "live" ELSE "walk", !.vol = v])
  /\ KeepStage /\ UNCHANGED <<files, cached, reported>>

NoMoreJobs(w) ==
  /\ worker[w].pc = "idle" /\ jobs = {}
  /\ Step(w, [Idle EXCEPT !.pc = "left"])
  /\ KeepStage /\ UNCHANGED <<jobs, files, cached, reported>>

Current(w) == <<worker[w].vol, worker[w].n>>

(* The volume is not done: the walk, or the first pass of NTFS, may end.    *)
Underway(w) ==
  worker[w].pc = "live" \/ (worker[w].pc = "walk" /\ worker[w].n < NbFiles)

(* The next file of the walk: emit appends it first.  HFS+ and APFS do not  *)
(* look at the context inside a volume.  An NTFS goroutine has a list of    *)
(* its own until the partition is done.                                     *)
Emit(w) ==
  /\ worker[w].pc = "walk" /\ worker[w].n < NbFiles
  /\ ~(cancelled /\ rule.looks)
  /\ ~rule.streams => cond[worker[w].vol] = "sound"
  /\ LET f == <<worker[w].vol, worker[w].n + 1>>
         next == [worker[w] EXCEPT !.n = @ + 1, !.pc = "cache"]
     IN IF kind = "ntfs"
        THEN /\ Step(w, [next EXCEPT !.own = @ \cup {f}])
             /\ UNCHANGED files
        ELSE /\ Step(w, next)
             /\ files' = files \cup {f}
  /\ KeepStage /\ UNCHANGED <<jobs, cached, reported>>

CacheSource(w) ==
  /\ worker[w].pc = "cache"
  /\ cached' = [i \in DOMAIN cached \cup {Id(Current(w))} |->
                  IF i = Id(Current(w)) THEN Current(w) ELSE cached[i]]
  /\ Step(w, [worker[w] EXCEPT !.pc = "report"])
  /\ KeepStage /\ UNCHANGED <<jobs, files, reported>>

(* Mutant: a file is handed to the front end before its source is kept.     *)
ReportTooSoon(w) ==
  /\ worker[w].pc \in {"cache", "report"}
  /\ reported' = reported \cup {Current(w)}
  /\ Step(w, [worker[w] EXCEPT !.pc = IF @ = "report" THEN "walk" ELSE "cache"])
  /\ KeepStage /\ UNCHANGED <<jobs, files, cached>>

Report(w) ==
  /\ worker[w].pc = "report"
  /\ reported' = reported \cup {Current(w)}
  /\ Step(w, [worker[w] EXCEPT !.pc = "walk"])
  /\ KeepStage /\ UNCHANGED <<jobs, files, cached>>

(* NTFS, first pass over the MFT: a deleted file is shown at once, when     *)
(* nothing is known yet of its source, and comes again in the second pass.  *)
(* The context is looked at between two reads, not between two entries.     *)
LiveFile(w) ==
  /\ worker[w].pc = "live" /\ worker[w].n < NbFiles
  /\ live' = live \cup {<<worker[w].vol, worker[w].n + 1>>}
  /\ Step(w, [worker[w] EXCEPT !.n = @ + 1])
  /\ UNCHANGED <<kind, cond, cancelled, found, rounds, jobs, files, cached, reported, hints,
                 scannedOk, lastErr, outcome>>

LivePassEnds(w) ==
  /\ worker[w].pc = "live" /\ worker[w].n = NbFiles
  /\ cond[worker[w].vol] = "sound" /\ ~cancelled
  /\ Step(w, [worker[w] EXCEPT !.pc = "walk", !.n = 0])
  /\ KeepStage /\ UNCHANGED <<jobs, files, cached, reported>>

(* The walk comes to its end.  An NTFS goroutine shows the names that only  *)
(* the change journal still has, and adds them and its list to the stage's. *)
VolumeDone(w) ==
  /\ worker[w].pc = "walk" /\ worker[w].n = NbFiles
  /\ files' = files \cup worker[w].own
  /\ hints' \in IF kind = "ntfs" THEN {hints, hints \cup {worker[w].vol}} ELSE {hints}
  /\ scannedOk' = (scannedOk \/ kind = "ntfs")
  /\ Step(w, Idle)
  /\ UNCHANGED <<kind, cond, cancelled, found, rounds, jobs, cached, reported, live,
                 lastErr, outcome>>

(* Mutant: the goroutine gives up with the volume it could not walk.        *)
FailedWalkEndsWorker(w) ==
  /\ Underway(w)
  /\ cond[worker[w].vol] # "sound"
  /\ lastErr' = (lastErr \/ (kind = "ntfs" /\ ~cancelled))
  /\ Step(w, [Idle EXCEPT !.pc = "left"])
  /\ UNCHANGED <<kind, cond, cancelled, found, rounds, jobs, files, cached, reported, live, hints,
                 scannedOk, outcome>>

(* The walk fails or the volume is passed over: the goroutine takes the     *)
(* next one.  What a streaming stage reported stays in the list; the files  *)
(* of an NTFS partition are dropped, and stay where they were shown.        *)
WalkFails(w) ==
  /\ Underway(w)
  /\ cond[worker[w].vol] # "sound"
  /\ lastErr' = (lastErr \/ (kind = "ntfs" /\ ~cancelled))
  /\ Step(w, Idle)
  /\ UNCHANGED <<kind, cond, cancelled, found, rounds, jobs, files, cached, reported, live, hints,
                 scannedOk, outcome>>

(* Mutant: the deferred Done is missed when the context ends the walk.      *)
CancelledWithoutDone(w) ==
  /\ Underway(w) /\ cancelled
  /\ rule.looks
  /\ IF rule.leaves THEN UNCHANGED worker ELSE Step(w, Idle)
  /\ KeepStage /\ UNCHANGED <<jobs, files, cached, reported>>

(* The walk sees the cancelled context: a Btrfs goroutine leaves, the       *)
(* others come back for the next volume.                                    *)
WalkCancelled(w) ==
  /\ Underway(w) /\ cancelled
  /\ rule.looks
  /\ Step(w, IF rule.leaves THEN [Idle EXCEPT !.pc = "left"] ELSE Idle)
  /\ KeepStage /\ UNCHANGED <<jobs, files, cached, reported>>

-----------------------------------------------------------------------------
Work(w) ==
  \/ \E v \in Volumes : Take(w, v)
  \/ NoMoreJobs(w) \/ Emit(w) \/ CacheSource(w) \/ Report(w)
  \/ LiveFile(w) \/ LivePassEnds(w) \/ VolumeDone(w) \/ WalkFails(w) \/ WalkCancelled(w)

Stage ==
  \/ \E fast \in SUBSET Fast, hits \in SUBSET Volumes, deep \in BOOLEAN :
       FindVolumes(fast, hits, deep)
  \/ StartBatch \/ StopBetween \/ ReturnFiles

Next ==
  \/ Cancel \/ Stage
  \/ \E w \in Workers : Work(w)
  \/ outcome \in {"ok", "error"} /\ UNCHANGED vars

Spec == Init /\ [][Next]_vars

(* The scan goroutine and its pool are scheduled; nobody has to cancel.     *)
FairSpec == Spec /\ WF_vars(Stage) /\ \A w \in Workers : WF_vars(Work(w))

-----------------------------------------------------------------------------
(* The engine's map has the file's own source under its ID, or that of      *)
(* another file of the list that has the same ID.                           *)
Sourced(f) ==
  /\ Id(f) \in DOMAIN cached
  /\ cached[Id(f)] = f \/ \E g \in files \ {f} : Id(g) = Id(f) /\ cached[Id(f)] = g

(* Which files a recovery can ask for (emit in every scan file, the third   *)
(* contract of scanner.go): every file reported by the second pass or by a  *)
(* stage with one pass, from its report on, and every file of a returned    *)
(* list; what the first pass of NTFS shows, only once the stage has         *)
(* returned, was not cancelled and could walk the volume.  The source is    *)
(* the file's own unless another file was listed under the same ID.         *)
SourceBeforeReport ==
  /\ \A f \in reported : Sourced(f)
  /\ outcome = "ok" => \A f \in files : Sourced(f)
  /\ outcome = "ok" /\ ~cancelled =>
       \A f \in live : cond[f[1]] = "sound" => Sourced(f)

(* What the contract says: Scan keeps the source of each file it shows, as  *)
(* Recover cannot find the file's data without it.  The code shows NTFS     *)
(* files before, and two volumes of an APFS container share their IDs: this *)
(* does not hold.                                                           *)
ShownHasSource ==
  \A f \in reported \cup live : Id(f) \in DOMAIN cached /\ cached[Id(f)] = f

(* A stage that returns without an error has handed over what it showed:    *)
(* except for NTFS its list is exactly what was reported, whatever failed   *)
(* or was cancelled; and unless it was cancelled no volume that can be      *)
(* walked lost a file because of another volume (or of another goroutine).  *)
OkStageComplete ==
  outcome = "ok" =>
    /\ kind # "ntfs" => files = reported
    /\ ~cancelled =>
         \A v \in found : cond[v] = "sound" => {v} \X (1 .. NbFiles) \subseteq files

(* However the walks go, the stage returns: no goroutine is waited for that *)
(* does not come.                                                           *)
StageEnds == <>(outcome \in {"ok", "error"})
=============================================================================
