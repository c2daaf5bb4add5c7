---------------------------- MODULE FsStagesProofs ----------------------------
(***************************************************************************)
(* The safety of a file-system stage, proved for each of the seven stages, *)
(* any disk, any pool of goroutines and any number of files.               *)
(***************************************************************************)
EXTENDS FsStages, FiniteSetTheorems, TLAPS

Active == {"live", "walk", "cache", "report"}

(* The type invariant is not inductive on its own: a goroutine gets its     *)
(* volumes from the channel, which gets them from the batches.              *)
Typed ==
  /\ TypeOK
  /\ jobs \subseteq Volumes
  /\ rounds \in Seq(SUBSET Volumes)
  /\ found \subseteq Volumes
  /\ \A w \in Workers :
       /\ worker[w].pc \in Active => worker[w].vol \in Volumes
       /\ worker[w].pc \in {"cache", "report"} => worker[w].n \in 1 .. NbFiles

Record == [pc : {"off", "idle", "live", "walk", "cache", "report", "left"},
           vol : Volumes \cup {None}, n : 0 .. NbFiles, own : SUBSET File]

LEMMA IdleIsRecord ==
  /\ Idle \in Record /\ Idle.pc = "idle" /\ Idle.own = {} /\ Idle.vol = None /\ Idle.n = 0
  /\ [Idle EXCEPT !.pc = "left"] \in Record /\ [Idle EXCEPT !.pc = "off"] \in Record
BY StagesAssumption DEF Idle, Record

LEMMA NextFileIsRecord ==
  ASSUME NEW r \in Record, r.n + 1 \in 1 .. NbFiles
  PROVE  LET next == [r EXCEPT !.n = @ + 1, !.pc = "cache"]
         IN /\ next \in Record /\ next.own \subseteq File /\ next.own = r.own
            /\ next.pc = "cache" /\ next.vol = r.vol /\ next.n = r.n + 1
<1> DEFINE next == [r EXCEPT !.n = @ + 1, !.pc = "cache"]
<1>1. r.vol \in Volumes \cup {None} /\ r.own \subseteq File /\ r.n + 1 \in 0 .. NbFiles
  BY StagesAssumption DEF Record
<1>2. next \in Record
  BY <1>1 DEF Record
<1>3. next.own = r.own /\ next.vol = r.vol
  BY DEF Record
<1>4. next.pc = "cache" /\ next.n = r.n + 1
  BY DEF Record
<1> QED
  BY <1>1, <1>2, <1>3, <1>4

(* The records that the steps of the first pass over an MFT leave.          *)
LEMMA LiveRecord ==
  ASSUME NEW r \in Record, NEW k \in 0 .. NbFiles
  PROVE  /\ [r EXCEPT !.n = k] \in Record /\ [r EXCEPT !.n = k].n = k
         /\ [r EXCEPT !.n = k].pc = r.pc /\ [r EXCEPT !.n = k].vol = r.vol
         /\ [r EXCEPT !.n = k].own = r.own
BY DEF Record

LEMMA SecondPassRecord ==
  ASSUME NEW r \in Record
  PROVE  LET x == [r EXCEPT !.pc = "walk", !.n = 0]
         IN x \in Record /\ x.n = 0 /\ x.pc = "walk" /\ x.vol = r.vol /\ x.own = r.own
<1> DEFINE x == [r EXCEPT !.pc = "walk", !.n = 0]
<1>1. 0 \in 0 .. NbFiles
  BY StagesAssumption
<1>2. x \in Record
  BY <1>1 DEF Record
<1>3. x.n = 0 /\ x.pc = "walk"
  BY DEF Record
<1>4. x.vol = r.vol /\ x.own = r.own
  BY DEF Record
<1> QED
  BY <1>2, <1>3, <1>4

(* What a step of the first pass does to its goroutine, and to no other.    *)
LEMMA LivePassIs ==
  ASSUME worker \in [Workers -> Record], NEW w \in Workers, LiveFile(w) \/ LivePassEnds(w)
  PROVE  /\ worker[w].pc = "live" /\ worker'[w] \in Record
         /\ worker'[w].vol = worker[w].vol /\ worker'[w].own = worker[w].own
         /\ \/ worker'[w].pc = "live" /\ worker'[w].n = worker[w].n + 1 /\ worker[w].n < NbFiles
            \/ worker'[w].pc = "walk" /\ worker'[w].n = 0 /\ worker[w].n = NbFiles
         /\ \A u \in Workers \ {w} : worker'[u] = worker[u]
         /\ UNCHANGED <<kind, cond, cancelled, found, rounds, jobs, files, cached, reported,
                        hints, outcome>>
<1>0. worker[w] \in Record /\ worker[w].n \in 0 .. NbFiles /\ NbFiles \in Nat
  BY StagesAssumption DEF Record
<1>1. CASE LiveFile(w)
  <2>1. worker[w].n < NbFiles /\ worker[w].n + 1 \in 0 .. NbFiles
    BY <1>0, <1>1 DEF LiveFile
  <2>2. worker'[w] = [worker[w] EXCEPT !.n = worker[w].n + 1]
        /\ \A u \in Workers \ {w} : worker'[u] = worker[u]
    BY <1>1 DEF LiveFile, Step
  <2>3. worker[w].pc = "live"
        /\ UNCHANGED <<kind, cond, cancelled, found, rounds, jobs, files, cached, reported,
                       hints, outcome>>
    BY <1>1 DEF LiveFile
  <2> DEFINE x == [worker[w] EXCEPT !.n = worker[w].n + 1]
  <2>4. /\ x \in Record /\ x.n = worker[w].n + 1 /\ x.pc = worker[w].pc
        /\ x.vol = worker[w].vol /\ x.own = worker[w].own
    BY <1>0, <2>1, LiveRecord
  <2>5. worker'[w] = x
    BY <2>2
  <2> HIDE DEF x
  <2> QED
    BY <2>1, <2>2, <2>3, <2>4, <2>5
<1>2. CASE LivePassEnds(w)
  <2>1. worker[w].n = NbFiles /\ 0 \in 0 .. NbFiles
    BY <1>0, <1>2 DEF LivePassEnds
  <2>2. worker'[w] = [worker[w] EXCEPT !.pc = "walk", !.n = 0]
        /\ \A u \in Workers \ {w} : worker'[u] = worker[u]
    BY <1>2 DEF LivePassEnds, Step
  <2>3. worker[w].pc = "live"
        /\ UNCHANGED <<kind, cond, cancelled, found, rounds, jobs, files, cached, reported,
                       hints, outcome>>
    BY <1>2 DEF LivePassEnds, KeepStage
  <2> DEFINE x == [worker[w] EXCEPT !.pc = "walk", !.n = 0]
  <2>4. /\ x \in Record /\ x.n = 0 /\ x.pc = "walk"
        /\ x.vol = worker[w].vol /\ x.own = worker[w].own
    BY <1>0, SecondPassRecord
  <2>5. worker'[w] = x
    BY <2>2
  <2> HIDE DEF x
  <2> QED
    BY <2>1, <2>2, <2>3, <2>4, <2>5
<1> QED
  BY <1>1, <1>2

(* A step of one goroutine is typed if the record it leaves is.             *)
LEMMA StepTyped ==
  ASSUME Typed, NEW w \in Workers, NEW r \in Record, Step(w, r),
         r.pc \in Active => r.vol \in Volumes,
         r.pc \in {"cache", "report"} => r.n \in 1 .. NbFiles,
         jobs' \subseteq Volumes, files' \subseteq File, reported' \subseteq File,
         live' \subseteq File, hints' \subseteq Volumes,
         UNCHANGED <<kind, cond, found, rounds, outcome>>
  PROVE  Typed'
<1>0. worker \in [Workers -> Record]
  BY DEF Typed, TypeOK, Record
<1>1. /\ worker' \in [Workers -> Record] /\ worker'[w] = r
      /\ \A u \in Workers \ {w} : worker'[u] = worker[u]
  BY <1>0 DEF Step
<1>2. TypeOK'
  BY <1>1 DEF Typed, TypeOK, Record
<1>3. \A u \in Workers :
        /\ worker'[u].pc \in Active => worker'[u].vol \in Volumes
        /\ worker'[u].pc \in {"cache", "report"} => worker'[u].n \in 1 .. NbFiles
  BY <1>1 DEF Typed
<1>4. jobs' \subseteq Volumes /\ rounds' \in Seq(SUBSET Volumes) /\ found' \subseteq Volumes
  BY DEF Typed
<1> QED
  BY <1>2, <1>3, <1>4 DEF Typed

LEMMA TypedInit == Init => Typed
<1> SUFFICES ASSUME Init PROVE Typed
  OBVIOUS
<1>1. worker \in [Workers -> Record] /\ \A w \in Workers : worker[w].pc = "off"
  BY IdleIsRecord DEF Init, Idle
<1>2. jobs \subseteq Volumes /\ rounds \in Seq(SUBSET Volumes) /\ found \subseteq Volumes
  BY DEF Init
<1>3. TypeOK
  BY <1>1 DEF Init, TypeOK, Record
<1> QED
  BY <1>1, <1>2, <1>3 DEF Typed, Active

(* The batches of a stage are sets of volumes of the disk.                  *)
LEMMA BatchesAreVolumes ==
  ASSUME NEW vols \in SUBSET Volumes, kind \in Kinds
  PROVE Batches(vols) \subseteq SUBSET Volumes
<1>1. rule.batch \in {"one", "container", "all"}
  BY StagesAssumption DEF rule, Rule, runEXFATScan, runFATScan, runEXTScan, runNTFSScan,
     runAPFSScan, runHFSPlusScan, runBtrfsScan
<1>2. CASE rule.batch = "one"
  BY <1>2 DEF Batches
<1>3. CASE rule.batch = "container"
  BY <1>3 DEF Batches
<1>4. CASE rule.batch = "all"
  BY <1>4 DEF Batches
<1> QED
  BY <1>1, <1>2, <1>3, <1>4

LEMMA SearchFindsVolumes ==
  ASSUME NEW fast \in SUBSET Fast, NEW hits \in SUBSET Volumes, NEW deep \in BOOLEAN,
         kind \in Kinds, Search(fast, hits, deep) # None
  PROVE Search(fast, hits, deep) \subseteq Volumes
BY StagesAssumption
   DEF Search, OrFail, NtfsFindPartitions, ExfatFindPartitions, FatFindPartitions,
       ExtFindPartitions, ApfsFindContainers, HfsFindVolumes, BtrfsFindVolumes

LEMMA DiskIsFinite == IsFiniteSet(SUBSET Volumes)
BY StagesAssumption, FS_UNION, FS_SUBSET DEF Volumes

LEMMA TypedNext == Typed /\ [Next]_vars => Typed'
<1> SUFFICES ASSUME Typed, [Next]_vars PROVE Typed'
  OBVIOUS
<1> USE DEF Typed, TypeOK, Active
<1>0. worker \in [Workers -> Record]
  BY DEF Record
<1>i. /\ Idle \in Record /\ Idle.pc = "idle"
      /\ [Idle EXCEPT !.pc = "left"] \in Record /\ [Idle EXCEPT !.pc = "left"].pc = "left"
  BY IdleIsRecord DEF Idle
<1>1. ASSUME Cancel PROVE Typed'
  BY <1>1 DEF Cancel
<1>2. ASSUME NEW fast \in SUBSET Fast, NEW hits \in SUBSET Volumes, NEW deep \in BOOLEAN,
             FindVolumes(fast, hits, deep)
      PROVE Typed'
  <2> DEFINE vols == Search(fast, hits, deep)
  <2>1. CASE vols \in {None, {}}
    BY <1>2, <2>1 DEF FindVolumes, Return
  <2>2. CASE vols \notin {None, {}}
    <3>1. vols \subseteq Volumes
      BY <2>2, SearchFindsVolumes
    <3>2. Batches(vols) \subseteq SUBSET Volumes
      BY <3>1, BatchesAreVolumes
    <3> DEFINE card == Cardinality(Batches(vols))
    <3>3. PICK s \in [1 .. card -> Batches(vols)] : rounds' = s
      BY <1>2, <2>2 DEF FindVolumes
    <3>4. card \in Nat
      BY <3>2, DiskIsFinite, FS_Subset, FS_CardinalityType
    <3>5. rounds' \in Seq(SUBSET Volumes)
      BY <3>2, <3>3, <3>4
    <3>6. found' = vols /\ outcome' = "walking"
          /\ UNCHANGED <<kind, cond, jobs, worker, files, cached, reported, live, hints>>
      BY <1>2, <2>2 DEF FindVolumes
    <3> HIDE DEF vols
    <3> QED
      BY <3>1, <3>5, <3>6
  <2> QED
    BY <2>1, <2>2
<1>3. ASSUME StartBatch PROVE Typed'
  <2>1. jobs' \subseteq Volumes /\ rounds' \in Seq(SUBSET Volumes)
    BY <1>3 DEF StartBatch
  <2>2. worker' \in [Workers -> Record]
        /\ \A w \in Workers : worker'[w].pc \in {"off", "idle"}
    BY <1>3, IdleIsRecord DEF StartBatch, Idle
  <2> QED
    BY <1>3, <2>1, <2>2 DEF StartBatch, Record
<1>4. ASSUME StopBetween \/ ReturnFiles PROVE Typed'
  BY <1>4 DEF StopBetween, ReturnFiles, Return
<1>d. /\ jobs \subseteq Volumes /\ files \subseteq File /\ reported \subseteq File
      /\ live \subseteq File /\ hints \subseteq Volumes
  OBVIOUS
<1>w. \A w \in Workers :
        /\ worker[w].pc \in {"live", "walk", "cache", "report"} => worker[w].vol \in Volumes
        /\ worker[w].pc \in {"cache", "report"} => worker[w].n \in 1 .. NbFiles
  OBVIOUS
<1> HIDE DEF Typed, TypeOK
<1>5. ASSUME NEW w \in Workers, NEW v \in Volumes, Take(w, v) PROVE Typed'
  <2>1. PICK r \in {[Idle EXCEPT !.pc = "left"],
                    [Idle EXCEPT !.pc = IF kind = "ntfs" THEN "live" ELSE "walk", !.vol = v]} :
          Step(w, r)
    BY <1>5 DEF Take
  <2>2. r \in Record /\ r.pc \in {"left", "live", "walk"} /\ (r.pc # "left" => r.vol = v)
    <3>1. CASE r = [Idle EXCEPT !.pc = "left"]
      BY <1>i, <3>1
    <3>2. CASE r # [Idle EXCEPT !.pc = "left"]
      BY <2>1, <3>2, IdleIsRecord DEF Idle, Record
    <3> QED
      BY <3>1, <3>2
  <2>3. /\ jobs' \subseteq Volumes /\ files' \subseteq File /\ reported' \subseteq File
 /\ live' \subseteq File /\ hints' \subseteq Volumes
        /\ UNCHANGED <<kind, cond, found, rounds, outcome>>
    BY <1>5, <1>d DEF Take, KeepStage
  <2> QED
    BY <2>1, <2>2, <2>3, StepTyped
<1>6. ASSUME NEW w \in Workers, NoMoreJobs(w) PROVE Typed'
  <2>1. /\ Step(w, [Idle EXCEPT !.pc = "left"])
        /\ jobs' \subseteq Volumes /\ files' \subseteq File /\ reported' \subseteq File
        /\ live' \subseteq File /\ hints' \subseteq Volumes
        /\ UNCHANGED <<kind, cond, found, rounds, outcome>>
    BY <1>6, <1>d DEF NoMoreJobs, KeepStage
  <2> QED
    BY <1>i, <2>1, StepTyped
<1>7. ASSUME NEW w \in Workers, Emit(w) PROVE Typed'
  <2>1. worker[w].n + 1 \in 1 .. NbFiles /\ worker[w].vol \in Volumes
    BY <1>0, <1>7, <1>w, StagesAssumption DEF Emit, Record
  <2> DEFINE f == <<worker[w].vol, worker[w].n + 1>>
             next == [worker[w] EXCEPT !.n = @ + 1, !.pc = "cache"]
  <2>2. f \in File
    BY <2>1 DEF File
  <2>3. PICK r \in {[next EXCEPT !.own = @ \cup {f}], next} : Step(w, r)
    BY <1>7 DEF Emit
  <2>4. r \in Record /\ r.pc = "cache" /\ r.vol \in Volumes /\ r.n \in 1 .. NbFiles
    <3>1. /\ next \in Record /\ next.own \subseteq File
          /\ next.pc = "cache" /\ next.vol \in Volumes /\ next.n \in 1 .. NbFiles
      BY <1>0, <2>1, NextFileIsRecord
    <3> HIDE DEF next
    <3>2. [next EXCEPT !.own = @ \cup {f}] \in Record
      BY <3>1, <2>2 DEF Record
    <3> HIDE DEF f
    <3> QED
      BY <3>1, <3>2, <2>3 DEF Record
  <2>5. /\ jobs' \subseteq Volumes /\ files' \subseteq File /\ reported' \subseteq File
 /\ live' \subseteq File /\ hints' \subseteq Volumes
        /\ UNCHANGED <<kind, cond, found, rounds, outcome>>
    BY <1>7, <1>d, <2>2 DEF Emit, KeepStage
  <2> QED
    BY <2>3, <2>4, <2>5, StepTyped
<1>8. ASSUME NEW w \in Workers, NEW s \in {"walk", "report"}, worker[w].pc \in Active,
             Step(w, [worker[w] EXCEPT !.pc = s]), s = "report" => worker[w].pc = "cache",
             jobs' \subseteq Volumes, files' \subseteq File, reported' \subseteq File,
         live' \subseteq File, hints' \subseteq Volumes,
             UNCHANGED <<kind, cond, found, rounds, outcome>>
      PROVE Typed'
  <2> DEFINE r == [worker[w] EXCEPT !.pc = s]
  <2>0. /\ worker[w] \in Record
        /\ s \in {"off", "idle", "live", "walk", "cache", "report", "left"}
    BY <1>0
  <2>1. r \in Record /\ r.pc = s /\ r.vol = worker[w].vol /\ r.n = worker[w].n
    <3>1. r \in Record
      BY <2>0 DEF Record
    <3>2. r.pc = s /\ r.vol = worker[w].vol /\ r.n = worker[w].n
      BY <2>0 DEF Record
    <3> QED
      BY <3>1, <3>2
  <2>2. worker[w].vol \in Volumes /\ (s = "report" => worker[w].n \in 1 .. NbFiles)
    BY <1>8, <1>w
  <2>3. Step(w, r)
    BY <1>8
  <2> HIDE DEF r
  <2> QED
    BY <1>8, <2>1, <2>2, <2>3, StepTyped
<1>9. ASSUME NEW w \in Workers, CacheSource(w) \/ Report(w) PROVE Typed'
  <2>1. CASE CacheSource(w)
    BY <1>8, <1>d, <2>1 DEF CacheSource, KeepStage
  <2>2. CASE Report(w)
    <3>1. Current(w) \in File /\ worker[w].pc = "report"
      BY <1>w, <2>2 DEF Report, Current, File
    <3>2. /\ jobs' \subseteq Volumes /\ files' \subseteq File /\ reported' \subseteq File
 /\ live' \subseteq File /\ hints' \subseteq Volumes
          /\ UNCHANGED <<kind, cond, found, rounds, outcome>>
      BY <1>d, <2>2, <3>1 DEF Report, KeepStage
    <3>3. Step(w, [worker[w] EXCEPT !.pc = "walk"])
      BY <2>2 DEF Report
    <3> QED
      BY <1>8, <3>1, <3>2, <3>3
  <2> QED
    BY <1>9, <2>1, <2>2
<1>11. ASSUME NEW w \in Workers, LiveFile(w) \/ LivePassEnds(w) PROVE Typed'
  <2>1. /\ worker[w].pc = "live" /\ worker'[w] \in Record /\ worker'[w].pc \in {"live", "walk"}
        /\ worker'[w].vol = worker[w].vol
        /\ \A u \in Workers \ {w} : worker'[u] = worker[u]
        /\ UNCHANGED <<kind, cond, cancelled, found, rounds, jobs, files, cached, reported,
                       hints, outcome>>
    BY <1>0, <1>11, LivePassIs
  <2>2. worker[w].vol \in Volumes
    BY <1>w, <2>1
  <2>3. live' \subseteq File
    <3>1. CASE LiveFile(w)
      <4>1. worker[w].n \in 0 .. NbFiles /\ worker[w].n < NbFiles
        BY <1>0, <3>1 DEF LiveFile, Record
      <4>2. <<worker[w].vol, worker[w].n + 1>> \in File
        BY <2>2, <4>1, StagesAssumption DEF File
      <4> QED
        BY <1>d, <3>1, <4>2 DEF LiveFile
    <3>2. CASE LivePassEnds(w)
      BY <1>d, <3>2 DEF LivePassEnds, KeepStage
    <3> QED
      BY <1>11, <3>1, <3>2
  <2>4. worker' \in [Workers -> Record]
    <3>1. PICK x : worker' = [worker EXCEPT ![w] = x]
      BY <1>11 DEF LiveFile, LivePassEnds, Step
    <3>2. x = worker'[w]
      BY <1>0, <3>1
    <3> QED
      BY <1>0, <2>1, <3>1, <3>2
  <2>5. Step(w, worker'[w])
    BY <1>0, <2>1, <2>4 DEF Step
  <2>6. worker'[w].pc \in Active => worker'[w].vol \in Volumes
    BY <2>1, <2>2
  <2>7. /\ jobs' \subseteq Volumes /\ files' \subseteq File /\ reported' \subseteq File
        /\ live' \subseteq File /\ hints' \subseteq Volumes
    BY <1>d, <2>1, <2>3
  <2> QED
    BY <2>1, <2>5, <2>6, <2>7, StepTyped
<1>10. ASSUME NEW w \in Workers, VolumeDone(w) \/ WalkFails(w) \/ WalkCancelled(w) PROVE Typed'
  <2>0. hints' \subseteq Volumes
    BY <1>d, <1>w, <1>10 DEF VolumeDone, WalkFails, WalkCancelled, KeepStage
  <2>1. Step(w, Idle) \/ Step(w, [Idle EXCEPT !.pc = "left"])
    BY <1>10 DEF VolumeDone, WalkFails, WalkCancelled
  <2>2. worker[w].own \subseteq File
    BY <1>0 DEF Record
  <2>3. /\ jobs' \subseteq Volumes /\ files' \subseteq File /\ reported' \subseteq File
 /\ live' \subseteq File /\ hints' \subseteq Volumes
        /\ UNCHANGED <<kind, cond, found, rounds, outcome>>
    BY <1>10, <1>d, <2>0, <2>2 DEF VolumeDone, WalkFails, WalkCancelled, KeepStage
  <2> QED
    BY <1>i, <2>1, <2>3, StepTyped
<1>14. CASE UNCHANGED vars
  BY <1>14 DEF vars, Typed, TypeOK
<1> QED
  BY <1>1, <1>2, <1>3, <1>4, <1>5, <1>6, <1>7, <1>9, <1>10, <1>11, <1>14 DEF Next, Stage, Work

(* Every reachable state of a stage is well typed.                          *)
THEOREM TypeCorrect == Spec => []TypeOK
<1>1. Typed => TypeOK
  BY DEF Typed
<1> QED
  BY <1>1, TypedInit, TypedNext, PTL DEF Spec

-----------------------------------------------------------------------------
Has(f) == Id(f) \in DOMAIN cached

(* A file is on its way to the map while a goroutine has appended it and    *)
(* not yet kept its source.                                                 *)
OnItsWay(f) == \E w \in Workers : worker[w].pc = "cache" /\ Current(w) = f

(* Why a returned list has all its sources: a file of the list, or of a     *)
(* goroutine's own list, has a source or is on its way, and outside the walks  *)
(* no goroutine is left.                                                    *)
Kept ==
  /\ \A f \in reported : Has(f)
  /\ \A w \in Workers : worker[w].pc = "report" => Has(Current(w))
  /\ \A f \in files : Has(f) \/ OnItsWay(f)
  /\ \A w \in Workers : \A f \in worker[w].own :
       Has(f) \/ (worker[w].pc = "cache" /\ Current(w) = f)
  /\ outcome # "walking" => AllLeft

LEMMA KeptInit == Init => Kept
BY DEF Init, Kept, Has, AllLeft, Idle

LEMMA KeptNext == Typed /\ Kept /\ [Next]_vars => Kept'
<1> SUFFICES ASSUME Typed, Kept, [Next]_vars PROVE Kept'
  OBVIOUS
<1>a. worker \in [Workers -> Record]
  BY DEF Typed, TypeOK, Record
<1>b. kind' = kind => \A f : Id(f)' = Id(f)
  BY DEF Id
<1> USE DEF Kept, Has, OnItsWay, AllLeft
<1>1. ASSUME Cancel PROVE Kept'
  BY <1>b, <1>1 DEF Cancel, Current
<1>2. ASSUME NEW fast \in SUBSET Fast, NEW hits \in SUBSET Volumes, NEW deep \in BOOLEAN,
             FindVolumes(fast, hits, deep)
      PROVE Kept'
  BY <1>b, <1>2 DEF FindVolumes, Return, Current
<1>3. ASSUME StartBatch PROVE Kept'
  <2>1. worker' \in [Workers -> Record]
        /\ \A w \in Workers : worker'[w].pc \in {"off", "idle"} /\ worker'[w].own = {}
    BY <1>3, IdleIsRecord DEF StartBatch, Idle, Record
  <2>2. \A f \in files : Has(f)
    BY <1>3 DEF StartBatch
  <2> QED
    BY <1>b, <1>3, <2>1, <2>2 DEF StartBatch
<1>4. ASSUME StopBetween \/ ReturnFiles PROVE Kept'
  BY <1>b, <1>4 DEF StopBetween, ReturnFiles, Return, Current
<1>5. ASSUME NEW w \in Workers, NEW v \in Volumes, Take(w, v) PROVE Kept'
  <2>1. worker'[w].pc \in {"left", "live", "walk"} /\ worker'[w].own = {}
        /\ \A u \in Workers \ {w} : worker'[u] = worker[u]
    <3>1. PICK r \in {[Idle EXCEPT !.pc = "left"],
                      [Idle EXCEPT !.pc = IF kind = "ntfs" THEN "live" ELSE "walk", !.vol = v]} :
            worker' = [worker EXCEPT ![w] = r]
      BY <1>5 DEF Take, Step
    <3>2. r.pc \in {"left", "live", "walk"} /\ r.own = {}
      BY DEF Idle
    <3> QED
      BY <1>a, <3>1, <3>2
  <2>2. \A u \in Workers : worker[u].pc \in {"cache", "report"} => u # w
    BY <1>5 DEF Take
  <2>3. UNCHANGED <<kind, files, cached, reported, outcome>> /\ ~AllLeft
    BY <1>5 DEF Take, KeepStage
  <2> QED
    BY <1>b, <2>1, <2>2, <2>3 DEF Current
<1>6. ASSUME NEW w \in Workers, NoMoreJobs(w) PROVE Kept'
  <2>1. worker'[w].pc = "left" /\ worker'[w].own = {}
        /\ \A u \in Workers \ {w} : worker'[u] = worker[u]
    BY <1>a, <1>6, IdleIsRecord DEF NoMoreJobs, Step, Idle, Record
  <2>2. \A u \in Workers : worker[u].pc \in {"cache", "report"} => u # w
    BY <1>6 DEF NoMoreJobs
  <2>3. UNCHANGED <<kind, files, cached, reported, outcome>> /\ ~AllLeft
    BY <1>6 DEF NoMoreJobs, KeepStage
  <2> QED
    BY <1>b, <2>1, <2>2, <2>3 DEF Current
<1>7. ASSUME NEW w \in Workers, Emit(w) PROVE Kept'
  <2> DEFINE f == <<worker[w].vol, worker[w].n + 1>>
  <2> DEFINE next == [worker[w] EXCEPT !.n = @ + 1, !.pc = "cache"]
  <2>1. PICK r \in {[next EXCEPT !.own = @ \cup {f}], next} :
          worker' = [worker EXCEPT ![w] = r] /\ files' \subseteq files \cup {f}
    BY <1>7 DEF Emit, Step
  <2>2. r.pc = "cache" /\ r.vol = worker[w].vol /\ r.n = worker[w].n + 1
        /\ r.own \subseteq worker[w].own \cup {f}
    <3>1. worker[w].n + 1 \in 1 .. NbFiles
      BY <1>a, <1>7, StagesAssumption DEF Emit, Record
    <3>2. /\ next \in Record /\ next.own = worker[w].own
          /\ next.pc = "cache" /\ next.vol = worker[w].vol /\ next.n = worker[w].n + 1
      BY <1>a, <3>1, NextFileIsRecord
    <3> HIDE DEF next, f
    <3> QED
      BY <2>1, <3>2 DEF Record
  <2>3. worker'[w] = r /\ \A u \in Workers \ {w} : worker'[u] = worker[u]
    BY <1>a, <2>1
  <2>4. UNCHANGED <<kind, cached, reported, outcome>> /\ ~AllLeft /\ worker[w].pc = "walk"
    BY <1>7 DEF Emit, KeepStage
  <2> QED
    BY <1>b, <2>1, <2>2, <2>3, <2>4 DEF Current
<1>8. ASSUME NEW w \in Workers, CacheSource(w) PROVE Kept'
  <2>1. DOMAIN cached' = DOMAIN cached \cup {Id(Current(w))}
    BY <1>8 DEF CacheSource
  <2>2. worker'[w] = [worker[w] EXCEPT !.pc = "report"] /\ worker[w] \in Record
        /\ \A u \in Workers \ {w} : worker'[u] = worker[u]
    BY <1>a, <1>8 DEF CacheSource, Step
  <2>3. /\ worker'[w].pc = "report" /\ worker'[w].own = worker[w].own
        /\ worker'[w].vol = worker[w].vol /\ worker'[w].n = worker[w].n
        /\ \A u \in Workers \ {w} : worker'[u] = worker[u]
    BY <2>2 DEF Record
  <2>4. UNCHANGED <<kind, files, reported, outcome>> /\ ~AllLeft /\ worker[w].pc = "cache"
    BY <1>8 DEF CacheSource, KeepStage
  <2>5. \A u \in Workers : Current(u)' = Current(u)
    BY <2>3 DEF Current
  <2>6. \A f : Has(f) => Has(f)'
    BY <1>b, <2>1, <2>4
  <2>7. Has(Current(w))'
    BY <1>b, <2>1, <2>4, <2>5
  <2>8. \A f \in files : Has(f)' \/ OnItsWay(f)'
    BY <2>3, <2>5, <2>6, <2>7
  <2> QED
    BY <2>3, <2>4, <2>5, <2>6, <2>7, <2>8
<1>9. ASSUME NEW w \in Workers, Report(w) PROVE Kept'
  <2>1. worker'[w] = [worker[w] EXCEPT !.pc = "walk"] /\ worker[w] \in Record
        /\ \A u \in Workers \ {w} : worker'[u] = worker[u]
    BY <1>a, <1>9 DEF Report, Step
  <2>2. worker'[w].pc = "walk" /\ worker'[w].own = worker[w].own
        /\ \A u \in Workers \ {w} : worker'[u] = worker[u]
    BY <2>1 DEF Record
  <2>3. UNCHANGED <<kind, files, cached, outcome>> /\ ~AllLeft /\ worker[w].pc = "report"
        /\ reported' = reported \cup {Current(w)}
    BY <1>9 DEF Report, KeepStage
  <2>4. \A f : Has(f)' = Has(f)
    BY <1>b, <2>3
  <2>5. \A u \in Workers \ {w} : Current(u)' = Current(u)
    BY <2>2 DEF Current
  <2>6. \A f \in files : Has(f)' \/ OnItsWay(f)'
    BY <2>2, <2>3, <2>4, <2>5
  <2> QED
    BY <2>2, <2>3, <2>4, <2>5, <2>6
<1>10. ASSUME NEW w \in Workers, LiveFile(w) \/ LivePassEnds(w) PROVE Kept'
  <2>1. /\ worker[w].pc = "live" /\ worker'[w].pc \in {"live", "walk"}
        /\ worker'[w].own = worker[w].own
        /\ \A u \in Workers \ {w} : worker'[u] = worker[u]
        /\ UNCHANGED <<kind, files, cached, reported, outcome>>
    BY <1>a, <1>10, LivePassIs
  <2>3. ~AllLeft
    BY <2>1
  <2>4. \A f : Has(f)' = Has(f)
    BY <1>b, <2>1
  <2>5. \A u \in Workers \ {w} : Current(u)' = Current(u)
    BY <2>1 DEF Current
  <2>6. \A f \in files : Has(f)' \/ OnItsWay(f)'
    BY <2>1, <2>3, <2>4, <2>5
  <2> QED
    BY <2>1, <2>3, <2>4, <2>5, <2>6
<1>11. ASSUME NEW w \in Workers, VolumeDone(w) PROVE Kept'
  <2>1. worker'[w] = Idle /\ \A u \in Workers \ {w} : worker'[u] = worker[u]
    BY <1>a, <1>11 DEF VolumeDone, Step
  <2>2. UNCHANGED <<kind, cached, reported, outcome>> /\ ~AllLeft /\ worker[w].pc = "walk"
        /\ files' = files \cup worker[w].own
    BY <1>11 DEF VolumeDone
  <2> QED
    BY <1>b, <2>1, <2>2, IdleIsRecord DEF Current
<1>12. ASSUME NEW w \in Workers, WalkFails(w) PROVE Kept'
  <2>1. worker'[w] = Idle /\ \A u \in Workers \ {w} : worker'[u] = worker[u]
    BY <1>a, <1>12 DEF WalkFails, Step
  <2>2. UNCHANGED <<kind, files, cached, reported, outcome>> /\ ~AllLeft
        /\ worker[w].pc \in {"walk", "live"}
    BY <1>12 DEF WalkFails, Underway
  <2> QED
    BY <1>b, <2>1, <2>2, IdleIsRecord DEF Current
<1>13. ASSUME NEW w \in Workers, WalkCancelled(w) PROVE Kept'
  <2>1. /\ worker'[w].pc \in {"left", "idle"} /\ worker'[w].own = {}
        /\ \A u \in Workers \ {w} : worker'[u] = worker[u]
    BY <1>a, <1>13, IdleIsRecord DEF WalkCancelled, Step, Idle
  <2>2. UNCHANGED <<kind, files, cached, reported, outcome>> /\ ~AllLeft
        /\ worker[w].pc \in {"walk", "live"}
    BY <1>13 DEF WalkCancelled, KeepStage, Underway
  <2> QED
    BY <1>b, <2>1, <2>2 DEF Current
<1>14. CASE UNCHANGED vars
  BY <1>b, <1>14 DEF vars, Current
<1> QED
  BY <1>1, <1>2, <1>3, <1>4, <1>5, <1>6, <1>7, <1>8, <1>9, <1>10, <1>11, <1>12, <1>13, <1>14
  DEF Next, Stage, Work

-----------------------------------------------------------------------------
Between == {"cache", "report"}

(* Except for NTFS the list and the reports go together: a file is in both, *)
(* or a goroutine is between appending and reporting it.                    *)
Shown ==
  kind # "ntfs" =>
    /\ reported \subseteq files
    /\ \A w \in Workers : worker[w].own = {}
    /\ \A w \in Workers : worker[w].pc \in Between => Current(w) \in files
    /\ \A f \in files :
         f \in reported \/ \E w \in Workers : worker[w].pc \in Between /\ Current(w) = f

(* No step changes the stage or shortens its list, and one keeps sources.   *)
LEMMA ListOnlyGrows ==
  ASSUME [Next]_vars
  PROVE  /\ kind' = kind /\ files \subseteq files'
         /\ cached' = cached \/ \E w \in Workers : CacheSource(w)
<1>1. CASE Cancel \/ UNCHANGED vars
  BY <1>1 DEF Cancel, vars
<1>2. CASE Stage
  BY <1>2 DEF Stage, FindVolumes, Return, StartBatch, StopBetween, ReturnFiles
<1>3. ASSUME NEW w \in Workers, NEW v \in Volumes, Take(w, v)
      PROVE kind' = kind /\ files \subseteq files' /\ cached' = cached
  BY <1>3 DEF Take, KeepStage
<1>4. ASSUME NEW w \in Workers, CacheSource(w) PROVE kind' = kind /\ files \subseteq files'
  BY <1>4 DEF CacheSource, KeepStage
<1>5. ASSUME NEW w \in Workers, NoMoreJobs(w) \/ Report(w) \/ LiveFile(w) \/ LivePassEnds(w)
      PROVE kind' = kind /\ files \subseteq files' /\ cached' = cached
  BY <1>5 DEF NoMoreJobs, Report, LiveFile, LivePassEnds, KeepStage
<1>6. ASSUME NEW w \in Workers, Emit(w) \/ VolumeDone(w) \/ WalkFails(w) \/ WalkCancelled(w)
      PROVE kind' = kind /\ files \subseteq files' /\ cached' = cached
  BY <1>6 DEF Emit, VolumeDone, WalkFails, WalkCancelled, KeepStage
<1> QED
  BY <1>1, <1>2, <1>3, <1>4, <1>5, <1>6 DEF Next, Work

LEMMA ShownInit == Init => Shown
BY DEF Init, Shown, Between, Idle

LEMMA ShownNext == Typed /\ Kept /\ Shown /\ [Next]_vars => Shown'
<1> SUFFICES ASSUME Typed, Kept, Shown, [Next]_vars, kind' # "ntfs"
             PROVE  /\ reported' \subseteq files'
                    /\ \A w \in Workers : worker'[w].own = {}
                    /\ \A w \in Workers : worker'[w].pc \in Between => Current(w)' \in files'
                    /\ \A f \in files' : f \in reported' \/ \E w \in Workers :
                         worker'[w].pc \in Between /\ Current(w)' = f
  BY DEF Shown
<1>a. worker \in [Workers -> Record]
  BY DEF Typed, TypeOK, Record
<1> USE DEF Between, Current
<1>b. kind' = kind
  BY ListOnlyGrows
<1>s. /\ reported \subseteq files
      /\ \A w \in Workers : worker[w].own = {}
      /\ \A w \in Workers : worker[w].pc \in Between => Current(w) \in files
      /\ \A f \in files :
           f \in reported \/ \E w \in Workers : worker[w].pc \in Between /\ Current(w) = f
  BY <1>b DEF Shown
<1>0. ASSUME NEW w \in Workers, worker[w].pc \notin Between,
             worker'[w].pc \notin Between, worker'[w].own = {},
             \A u \in Workers \ {w} : worker'[u] = worker[u], files' = files, reported' = reported
      PROVE  Shown'
  BY <1>s, <1>0 DEF Shown
<1>1. CASE Cancel \/ StopBetween \/ ReturnFiles \/ UNCHANGED vars
  BY <1>s, <1>1 DEF Cancel, StopBetween, ReturnFiles, Return, vars
<1>2. ASSUME NEW fast \in SUBSET Fast, NEW hits \in SUBSET Volumes, NEW deep \in BOOLEAN,
             FindVolumes(fast, hits, deep)
      PROVE Shown'
  BY <1>s, <1>2 DEF FindVolumes, Return, Shown
<1>3. CASE StartBatch
  <2>1. \A w \in Workers : worker'[w].pc \in {"off", "idle"} /\ worker'[w].own = {}
    BY <1>3, IdleIsRecord DEF StartBatch, Idle, Record
  <2>2. /\ UNCHANGED <<files, reported>>
        /\ \A w \in Workers : worker[w].pc \notin Between
    BY <1>3 DEF StartBatch, AllLeft
  <2> QED
    BY <1>s, <2>1, <2>2
<1>4. ASSUME NEW w \in Workers, NEW v \in Volumes, Take(w, v) PROVE Shown'
  <2>1. PICK r \in {[Idle EXCEPT !.pc = "left"],
                    [Idle EXCEPT !.pc = IF kind = "ntfs" THEN "live" ELSE "walk", !.vol = v]} :
          worker' = [worker EXCEPT ![w] = r]
    BY <1>4 DEF Take, Step
  <2>2. r.pc \notin Between /\ r.own = {}
    BY DEF Idle
  <2>3. worker[w].pc \notin Between /\ UNCHANGED <<files, reported>>
    BY <1>4 DEF Take
  <2> QED
    BY <1>0, <1>a, <2>1, <2>2, <2>3
<1>5. ASSUME NEW w \in Workers, NoMoreJobs(w) PROVE Shown'
  BY <1>0, <1>a, <1>5, IdleIsRecord DEF NoMoreJobs, Step, Idle, Record
<1>6. ASSUME NEW w \in Workers, Emit(w) PROVE Shown'
  <2> DEFINE f == <<worker[w].vol, worker[w].n + 1>>
             r == [worker[w] EXCEPT !.n = @ + 1, !.pc = "cache"]
  <2>1. worker' = [worker EXCEPT ![w] = r] /\ files' = files \cup {f} /\ reported' = reported
        /\ worker[w].pc = "walk"
    BY <1>6, <1>b DEF Emit, Step
  <2>2. r.pc = "cache" /\ r.vol = worker[w].vol /\ r.n = worker[w].n + 1 /\ r.own = worker[w].own
    <3>1. worker[w].n + 1 \in 1 .. NbFiles
      BY <1>a, <1>6, StagesAssumption DEF Emit, Record
    <3> QED
      BY <1>a, <3>1, NextFileIsRecord
  <2>3. worker'[w] = r /\ \A u \in Workers \ {w} : worker'[u] = worker[u]
    BY <1>a, <2>1
  <2> HIDE DEF r
  <2> QED
    BY <1>s, <2>1, <2>2, <2>3 DEF Shown
<1>7. ASSUME NEW w \in Workers, CacheSource(w) PROVE Shown'
  <2>1. worker'[w] = [worker[w] EXCEPT !.pc = "report"] /\ worker[w] \in Record
        /\ \A u \in Workers \ {w} : worker'[u] = worker[u]
    BY <1>a, <1>7 DEF CacheSource, Step
  <2>2. /\ worker'[w].pc = "report" /\ worker'[w].own = worker[w].own
        /\ worker'[w].vol = worker[w].vol /\ worker'[w].n = worker[w].n
    BY <2>1 DEF Record
  <2>3. UNCHANGED <<files, reported>> /\ worker[w].pc = "cache"
    BY <1>7 DEF CacheSource
  <2>4. \A u \in Workers : /\ Current(u)' = Current(u) /\ worker'[u].own = worker[u].own
                           /\ worker'[u].pc \in Between <=> worker[u].pc \in Between
    BY <2>1, <2>2, <2>3
  <2> QED
    BY <1>s, <2>3, <2>4 DEF Shown
<1>8. ASSUME NEW w \in Workers, Report(w) PROVE Shown'
  <2>1. worker'[w] = [worker[w] EXCEPT !.pc = "walk"] /\ worker[w] \in Record
        /\ \A u \in Workers \ {w} : worker'[u] = worker[u]
    BY <1>a, <1>8 DEF Report, Step
  <2>2. worker'[w].pc = "walk" /\ worker'[w].own = worker[w].own
    BY <2>1 DEF Record
  <2>3. files' = files /\ reported' = reported \cup {Current(w)} /\ worker[w].pc = "report"
    BY <1>8 DEF Report
  <2>4. reported' \subseteq files' /\ \A u \in Workers : worker'[u].own = {}
    BY <1>s, <2>1, <2>2, <2>3
  <2>5. \A u \in Workers : worker'[u].pc \in Between => u # w /\ worker[u].pc \in Between
    BY <2>1, <2>2
  <2>6. \A u \in Workers : worker'[u].pc \in Between => Current(u)' \in files'
    BY <1>s, <2>1, <2>3, <2>5
  <2>7. ASSUME NEW f \in files'
        PROVE  f \in reported' \/ \E u \in Workers : worker'[u].pc \in Between /\ Current(u)' = f
    <3>1. CASE f \in reported \/ f = Current(w)
      BY <2>3, <3>1
    <3>2. CASE f \notin reported /\ f # Current(w)
      <4>1. PICK u \in Workers : worker[u].pc \in Between /\ Current(u) = f
        BY <1>s, <2>3, <2>7, <3>2
      <4>2. u # w
        BY <3>2, <4>1
      <4>3. worker'[u] = worker[u]
        BY <2>1, <4>2
      <4> QED
        BY <4>1, <4>3
    <3> QED
      BY <3>1, <3>2
  <2> QED
    BY <2>4, <2>6, <2>7 DEF Shown
<1>9. ASSUME NEW w \in Workers, LiveFile(w) \/ LivePassEnds(w) PROVE Shown'
  <2>1. /\ worker[w].pc = "live" /\ worker'[w].pc \in {"live", "walk"}
        /\ worker'[w].own = worker[w].own
        /\ \A u \in Workers \ {w} : worker'[u] = worker[u]
        /\ UNCHANGED <<files, reported>>
    BY <1>a, <1>9, LivePassIs
  <2> QED
    BY <1>0, <1>s, <2>1
<1>10. ASSUME NEW w \in Workers, VolumeDone(w) PROVE Shown'
  <2>1. worker'[w] = Idle /\ \A u \in Workers \ {w} : worker'[u] = worker[u]
    BY <1>a, <1>10 DEF VolumeDone, Step
  <2>2. reported' = reported /\ files' = files \cup worker[w].own /\ worker[w].pc = "walk"
    BY <1>10 DEF VolumeDone
  <2> QED
    BY <1>0, <1>s, <2>1, <2>2, IdleIsRecord
<1>11. ASSUME NEW w \in Workers, WalkFails(w) \/ WalkCancelled(w) PROVE Shown'
  <2>1. /\ worker'[w].pc \in {"left", "idle"} /\ worker'[w].own = {}
        /\ \A u \in Workers \ {w} : worker'[u] = worker[u]
    BY <1>a, <1>11, IdleIsRecord DEF WalkFails, WalkCancelled, Step, Idle
  <2>2. UNCHANGED <<files, reported>> /\ worker[w].pc \in {"walk", "live"}
    BY <1>11 DEF WalkFails, WalkCancelled, Underway
  <2> QED
    BY <1>0, <2>1, <2>2
<1> QED
  BY <1>1, <1>2, <1>3, <1>4, <1>5, <1>6, <1>7, <1>8, <1>9, <1>10, <1>11
  DEF Next, Stage, Work, Shown

-----------------------------------------------------------------------------
Walked(v) == {v} \X (1 .. NbFiles) \subseteq files

(* A volume is still to be walked: in the channel, in a later batch or with *)
(* a goroutine.                                                             *)
Pending(v) ==
  \/ v \in jobs
  \/ \E i \in DOMAIN rounds : v \in rounds[i]
  \/ \E w \in Workers : worker[w].pc \in Active /\ worker[w].vol = v

(* Where a goroutine's files are: in its own list, or in the stage's.       *)
Listed(w) == IF kind = "ntfs" THEN worker[w].own ELSE files

(* Why nothing is lost: each file up to the goroutine's count is listed     *)
(* (after the first pass of NTFS, which has a count of its own), a          *)
(* pool only ends with the channel empty, and a volume that was found and   *)
(* can be walked has been walked or is still to be.                         *)
Complete ==
  /\ outcome = "searching" => found = {}
  /\ \A w \in Workers : worker[w].pc \in Active \ {"live"} =>
       {worker[w].vol} \X (1 .. worker[w].n) \subseteq Listed(w)
  /\ ~cancelled /\ AllLeft => jobs = {}
  /\ ~cancelled => \A v \in found : cond[v] = "sound" =>
       Walked(v) \/ (outcome # "ok" /\ Pending(v))

LEMMA CompleteInit == Init => Complete
BY DEF Init, Complete, Active, Idle

(* The batches hold every volume that was found.                            *)
LEMMA BatchesCover ==
  ASSUME NEW vols \in SUBSET Volumes, NEW v \in vols, kind \in Kinds
  PROVE  \E b \in Batches(vols) : v \in b
<1>1. rule.batch \in {"one", "container", "all"}
  BY StagesAssumption DEF rule, Rule, runEXFATScan, runFATScan, runEXTScan, runNTFSScan,
     runAPFSScan, runHFSPlusScan, runBtrfsScan
<1>2. CASE rule.batch = "one"
  <2>1. {v} \in {{x} : x \in vols}
    OBVIOUS
  <2> QED
    BY <1>2, <2>1 DEF Batches
<1>3. CASE rule.batch = "container"
  <2>1. PICK c \in Containers : v \in c
    BY DEF Volumes
  <2>2. c \cap vols \in {d \cap vols : d \in Containers} \ {{}}
    BY <2>1
  <2> QED
    BY <1>3, <2>1, <2>2 DEF Batches
<1>4. CASE rule.batch = "all"
  BY <1>4 DEF Batches
<1> QED
  BY <1>1, <1>2, <1>3, <1>4

(* A pool for at least one volume has at least one goroutine.               *)
LEMMA PoolIsNotEmpty ==
  ASSUME Typed, StartBatch, jobs' # {}
  PROVE  \E w \in Workers : worker'[w].pc = "idle"
<1>1. jobs' \subseteq Volumes
  BY DEF StartBatch, Typed
<1>2. IsFiniteSet(jobs') /\ IsFiniteSet(Workers)
  BY <1>1, StagesAssumption, FS_UNION, FS_Subset DEF Volumes
<1>3. Cardinality(jobs') \in Nat \ {0} /\ Cardinality(Workers) \in Nat \ {0}
  BY <1>2, StagesAssumption, FS_CardinalityType, FS_EmptySet
<1>4. PICK pool \in SUBSET Workers :
        /\ Cardinality(pool) = IF rule.batch = "one" THEN 1
                               ELSE IF Cardinality(jobs') < Cardinality(Workers)
                               THEN Cardinality(jobs') ELSE Cardinality(Workers)
        /\ worker' = [w \in Workers |-> IF w \in pool THEN Idle ELSE [Idle EXCEPT !.pc = "off"]]
  BY DEF StartBatch
<1>5. Cardinality(pool) # 0
  BY <1>3, <1>4
<1>6. PICK w \in pool : TRUE
  BY <1>5, FS_EmptySet
<1> QED
  BY <1>4, <1>6, IdleIsRecord

LEMMA CompleteNext == Typed /\ Kept /\ Complete /\ [Next]_vars => Complete'
<1> SUFFICES ASSUME Typed, Kept, Complete, [Next]_vars PROVE Complete'
  OBVIOUS
<1>a. worker \in [Workers -> Record]
  BY DEF Typed, TypeOK, Record
<1>0. ASSUME NEW w \in Workers, worker[w].pc \notin {"off", "left"},
             UNCHANGED <<kind, cond, cancelled, found, rounds, outcome>>, files \subseteq files',
             \A u \in Workers \ {w} : worker'[u] = worker[u],
             worker'[w].pc \in Active \ {"live"} =>
               {worker'[w].vol} \X (1 .. worker'[w].n) \subseteq Listed(w)',
             ~cancelled => worker'[w].pc \notin {"off", "left"} \/ jobs' = {},
             ~cancelled => \A v \in jobs :
               v \in jobs' \/ (worker'[w].pc \in Active /\ worker'[w].vol = v),
             ~cancelled /\ worker[w].pc \in Active => \A v \in {worker[w].vol} :
               \/ cond[v] # "sound" \/ Walked(v)'
               \/ worker'[w].pc \in Active /\ worker'[w].vol = v
      PROVE  Complete'
  <2>1. outcome = "walking"
    BY <1>0 DEF Kept, AllLeft
  <2>2. ASSUME NEW u \in Workers, worker'[u].pc \in Active \ {"live"}
        PROVE  {worker'[u].vol} \X (1 .. worker'[u].n) \subseteq Listed(u)'
    <3>1. CASE u = w
      BY <1>0, <2>2, <3>1
    <3>2. CASE u # w
      <4>1. {worker[u].vol} \X (1 .. worker[u].n) \subseteq Listed(u)
        BY <1>0, <2>2, <3>2 DEF Complete
      <4>2. Listed(u) \subseteq Listed(u)'
        BY <1>0, <3>2 DEF Listed
      <4> QED
        BY <1>0, <3>2, <4>1, <4>2
    <3> QED
      BY <3>1, <3>2
  <2>3. ~cancelled' /\ AllLeft' => jobs' = {}
    BY <1>0 DEF AllLeft
  <2>4. ASSUME ~cancelled', NEW v \in found', cond'[v] = "sound"
        PROVE  Walked(v)' \/ Pending(v)'
    <3>1. Walked(v) \/ Pending(v)
      BY <1>0, <2>4 DEF Complete
    <3>2. CASE Walked(v)
      BY <1>0, <3>2 DEF Walked
    <3>3. CASE v \in jobs
      BY <1>0, <2>4, <3>3 DEF Pending
    <3>4. CASE \E k \in DOMAIN rounds : v \in rounds[k]
      BY <1>0, <3>4 DEF Pending
    <3>5. ASSUME NEW u \in Workers, worker[u].pc \in Active, worker[u].vol = v
          PROVE  Walked(v)' \/ Pending(v)'
      <4>1. CASE u = w
        <5>1. Walked(v)' \/ (worker'[w].pc \in Active /\ worker'[w].vol = v)
          BY <1>0, <2>4, <3>5, <4>1
        <5> QED
          BY <4>1, <5>1 DEF Pending
      <4>2. CASE u # w
        BY <1>0, <3>5, <4>2 DEF Pending
      <4> QED
        BY <4>1, <4>2
    <3> QED
      BY <3>1, <3>2, <3>3, <3>4, <3>5 DEF Pending
  <2> QED
    BY <1>0, <2>1, <2>2, <2>3, <2>4 DEF Complete
<1>1. CASE Cancel \/ UNCHANGED vars
  BY <1>1 DEF Complete, Cancel, AllLeft, Walked, Pending, Listed, vars
<1>2. ASSUME NEW fast \in SUBSET Fast, NEW hits \in SUBSET Volumes, NEW deep \in BOOLEAN,
             FindVolumes(fast, hits, deep)
      PROVE Complete'
  <2> DEFINE vols == Search(fast, hits, deep)
  <2>1. outcome = "searching" /\ found = {}
    BY <1>2 DEF FindVolumes, Complete
  <2>2. UNCHANGED <<kind, cond, cancelled, jobs, worker, files>>
    BY <1>2 DEF FindVolumes, Return
  <2>3. CASE vols \in {None, {}}
    <3>1. UNCHANGED <<found, rounds>> /\ outcome' # "searching"
      BY <1>2, <2>3 DEF FindVolumes, Return
    <3> QED
      BY <2>1, <2>2, <3>1 DEF Complete, AllLeft, Listed
  <2>4. CASE vols \notin {None, {}}
    <3>1. vols \in SUBSET Volumes
      BY <2>4, SearchFindsVolumes DEF Typed, TypeOK
    <3>2. /\ found' = vols /\ outcome' = "walking"
          /\ {rounds'[k] : k \in DOMAIN rounds'} = Batches(vols)
      BY <1>2, <2>4 DEF FindVolumes
    <3> HIDE DEF vols
    <3>3. ASSUME NEW v \in found' PROVE Pending(v)'
      <4>1. PICK b \in Batches(vols) : v \in b
        BY <3>1, <3>2, BatchesCover DEF Typed, TypeOK
      <4>2. PICK k \in DOMAIN rounds' : rounds'[k] = b
        BY <3>2
      <4> QED
        BY <4>1, <4>2 DEF Pending
    <3> QED
      BY <2>2, <3>2, <3>3 DEF Complete, AllLeft, Listed
  <2> QED
    BY <2>3, <2>4
<1>3. CASE StartBatch
  <2>1. /\ UNCHANGED <<kind, cond, cancelled, found, files, outcome>> /\ outcome = "walking"
        /\ AllLeft /\ rounds # <<>> /\ jobs' = Head(rounds) /\ rounds' = Tail(rounds)
    BY <1>3 DEF StartBatch
  <2>2. \A w \in Workers : worker'[w].pc \in {"off", "idle"}
    BY <1>3, IdleIsRecord DEF StartBatch, Idle, Record
  <2>3. ~cancelled' /\ AllLeft' => jobs' = {}
    BY <1>3, PoolIsNotEmpty DEF AllLeft
  <2>4. ASSUME NEW k \in DOMAIN rounds, NEW v \in rounds[k]
        PROVE  v \in jobs' \/ \E j \in DOMAIN rounds' : v \in rounds'[j]
    <3>1. k \in 1 .. Len(rounds) /\ rounds \in Seq(SUBSET Volumes)
      BY DEF Typed
    <3>2. CASE k = 1
      BY <2>1, <2>4, <3>1, <3>2
    <3>3. CASE k # 1
      <4>1. k - 1 \in DOMAIN rounds' /\ rounds'[k - 1] = rounds[k]
        BY <2>1, <3>1, <3>3
      <4> QED
        BY <2>4, <4>1
    <3> QED
      BY <3>2, <3>3
  <2>5. ASSUME ~cancelled, NEW v \in found, cond[v] = "sound"
        PROVE  Walked(v)' \/ Pending(v)'
    <3>1. jobs = {} /\ (Walked(v) \/ Pending(v))
      BY <2>1, <2>5 DEF Complete
    <3>2. \A w \in Workers : worker[w].pc \notin Active
      BY <2>1 DEF AllLeft, Active
    <3>3. Walked(v) \/ \E k \in DOMAIN rounds : v \in rounds[k]
      BY <3>1, <3>2 DEF Pending
    <3> QED
      BY <2>1, <2>4, <3>3 DEF Walked, Pending
  <2> QED
    BY <2>1, <2>2, <2>3, <2>5 DEF Complete, Active
<1>4. CASE StopBetween
  BY <1>4 DEF StopBetween, Return, Complete, AllLeft, Listed
<1>5. CASE ReturnFiles
  <2>1. /\ UNCHANGED <<kind, cond, cancelled, found, rounds, jobs, worker, files>>
        /\ rounds = <<>> /\ AllLeft /\ outcome' # "searching"
    BY <1>5 DEF ReturnFiles, Return
  <2>2. ~cancelled => \A v \in found : ~Pending(v)
    BY <2>1 DEF Complete, Pending, AllLeft, Active
  <2> QED
    BY <2>1, <2>2 DEF Complete, AllLeft, Listed, Walked
<1>6. ASSUME NEW w \in Workers, NEW v \in Volumes, Take(w, v) PROVE Complete'
  <2>1. UNCHANGED <<kind, cond, cancelled, found, rounds, outcome, files>> /\ jobs' = jobs \ {v}
        /\ worker[w].pc = "idle" /\ \A u \in Workers \ {w} : worker'[u] = worker[u]
    BY <1>a, <1>6 DEF Take, KeepStage, Step
  <2>2. CASE cancelled /\ rule.batch # "one"
    <3>1. worker'[w].pc = "left"
      BY <1>a, <1>6, <2>2, IdleIsRecord DEF Take, Step, Idle
    <3> QED
      BY <1>0, <2>1, <2>2, <3>1 DEF Active
  <2>3. CASE ~(cancelled /\ rule.batch # "one")
    <3>1. /\ worker'[w].pc \in {"live", "walk"} /\ worker'[w].vol = v /\ worker'[w].n = 0
      BY <1>a, <1>6, <2>3 DEF Take, Step, Idle
    <3>2. {worker'[w].vol} \X (1 .. worker'[w].n) \subseteq Listed(w)'
      BY <3>1
    <3> QED
      BY <1>0, <2>1, <3>1, <3>2 DEF Active
  <2> QED
    BY <2>2, <2>3
<1>7. ASSUME NEW w \in Workers, NoMoreJobs(w) PROVE Complete'
  <2>1. /\ UNCHANGED <<kind, cond, cancelled, found, rounds, outcome, files, jobs>> /\ jobs = {}
        /\ worker[w].pc = "idle" /\ worker'[w].pc = "left"
        /\ \A u \in Workers \ {w} : worker'[u] = worker[u]
    BY <1>a, <1>7, IdleIsRecord DEF NoMoreJobs, KeepStage, Step, Idle, Record
  <2> QED
    BY <1>0, <2>1 DEF Active
<1>8. ASSUME NEW w \in Workers, Emit(w) PROVE Complete'
  <2> DEFINE f == <<worker[w].vol, worker[w].n + 1>>
             next == [worker[w] EXCEPT !.n = @ + 1, !.pc = "cache"]
  <2>1. UNCHANGED <<kind, cond, cancelled, found, rounds, outcome, jobs>> /\ worker[w].pc = "walk"
    BY <1>8 DEF Emit, KeepStage
  <2>2. worker[w].n + 1 \in 1 .. NbFiles /\ worker[w].n \in Nat
    BY <1>a, <1>8, StagesAssumption DEF Emit, Record
  <2>3. /\ next \in Record /\ next.own = worker[w].own
        /\ next.pc = "cache" /\ next.vol = worker[w].vol /\ next.n = worker[w].n + 1
    BY <1>a, <2>2, NextFileIsRecord
  <2>4. PICK r \in {[next EXCEPT !.own = @ \cup {f}], next} :
          /\ worker' = [worker EXCEPT ![w] = r]
          /\ IF kind = "ntfs" THEN r = [next EXCEPT !.own = @ \cup {f}] /\ files' = files
             ELSE r = next /\ files' = files \cup {f}
    BY <1>8 DEF Emit, Step
  <2> HIDE DEF next
  <2>5. /\ r.pc = "cache" /\ r.vol = worker[w].vol /\ r.n = worker[w].n + 1
        /\ kind = "ntfs" => r.own = worker[w].own \cup {f}
    BY <2>3, <2>4 DEF Record
  <2>6. worker'[w] = r /\ \A u \in Workers \ {w} : worker'[u] = worker[u]
    BY <1>a, <2>4
  <2>7. {worker[w].vol} \X (1 .. worker[w].n) \subseteq Listed(w)
    BY <2>1 DEF Complete, Active
  <2>8. Listed(w) \cup {f} \subseteq Listed(w)' /\ files \subseteq files'
    BY <2>1, <2>4, <2>5, <2>6 DEF Listed
  <2>9. {worker[w].vol} \X (1 .. worker[w].n + 1) \subseteq Listed(w)'
    BY <2>2, <2>7, <2>8
  <2> HIDE DEF f
  <2> QED
    BY <1>0, <2>1, <2>5, <2>6, <2>8, <2>9 DEF Active
<1>9. ASSUME NEW w \in Workers, CacheSource(w) \/ Report(w) PROVE Complete'
  <2>1. PICK at \in {"report", "walk"} : worker' = [worker EXCEPT ![w] = [worker[w] EXCEPT !.pc = at]]
    BY <1>9 DEF CacheSource, Report, Step
  <2>2. /\ UNCHANGED <<kind, cond, cancelled, found, rounds, outcome, jobs, files>>
        /\ worker[w].pc \in Active \ {"live"}
    BY <1>9 DEF CacheSource, Report, KeepStage, Active
  <2>3. /\ worker'[w].pc = at /\ worker'[w].own = worker[w].own
        /\ worker'[w].vol = worker[w].vol /\ worker'[w].n = worker[w].n
        /\ \A u \in Workers \ {w} : worker'[u] = worker[u]
    BY <1>a, <2>1 DEF Record
  <2>4. {worker[w].vol} \X (1 .. worker[w].n) \subseteq Listed(w)
    BY <2>2 DEF Complete
  <2>5. Listed(w)' = Listed(w)
    BY <2>2, <2>3 DEF Listed
  <2> QED
    BY <1>0, <2>2, <2>3, <2>4, <2>5 DEF Active
<1>10. ASSUME NEW w \in Workers, VolumeDone(w) PROVE Complete'
  <2>1. /\ UNCHANGED <<kind, cond, cancelled, found, rounds, outcome, jobs>>
        /\ files' = files \cup worker[w].own /\ worker[w].pc = "walk" /\ worker[w].n = NbFiles
        /\ worker'[w].pc = "idle" /\ \A u \in Workers \ {w} : worker'[u] = worker[u]
    BY <1>a, <1>10, IdleIsRecord DEF VolumeDone, Step
  <2>2. {worker[w].vol} \X (1 .. worker[w].n) \subseteq Listed(w)
    BY <2>1 DEF Complete, Active
  <2>3. Listed(w) \subseteq files'
    BY <2>1 DEF Listed
  <2>4. \A v \in {worker[w].vol} : Walked(v)'
    BY <2>1, <2>2, <2>3 DEF Walked
  <2> QED
    BY <1>0, <2>1, <2>4 DEF Active
<1>11. ASSUME NEW w \in Workers, WalkFails(w) PROVE Complete'
  <2>1. /\ UNCHANGED <<kind, cond, cancelled, found, rounds, outcome, jobs, files>>
        /\ cond[worker[w].vol] # "sound" /\ worker[w].pc \in {"walk", "live"}
        /\ worker'[w].pc = "idle" /\ \A u \in Workers \ {w} : worker'[u] = worker[u]
    BY <1>a, <1>11, IdleIsRecord DEF WalkFails, Underway, Step
  <2> QED
    BY <1>0, <2>1 DEF Active
<1>12. ASSUME NEW w \in Workers, WalkCancelled(w) PROVE Complete'
  <2>1. /\ UNCHANGED <<kind, cond, cancelled, found, rounds, outcome, jobs, files>> /\ cancelled
        /\ worker[w].pc \in {"walk", "live"} /\ worker'[w].pc \in {"left", "idle"}
        /\ \A u \in Workers \ {w} : worker'[u] = worker[u]
    BY <1>a, <1>12, IdleIsRecord DEF WalkCancelled, Underway, KeepStage, Step, Idle
  <2> QED
    BY <1>0, <2>1 DEF Active
<1>13. ASSUME NEW w \in Workers, LiveFile(w) \/ LivePassEnds(w) PROVE Complete'
  <2>1. /\ worker[w].pc = "live" /\ worker'[w].vol = worker[w].vol
        /\ worker'[w].pc = "live" \/ (worker'[w].pc = "walk" /\ worker'[w].n = 0)
        /\ \A u \in Workers \ {w} : worker'[u] = worker[u]
        /\ UNCHANGED <<kind, cond, cancelled, found, rounds, outcome, jobs, files>>
    BY <1>a, <1>13, LivePassIs
  <2>2. worker'[w].pc # "live" => {worker'[w].vol} \X (1 .. worker'[w].n) \subseteq Listed(w)'
    BY <2>1
  <2> QED
    BY <1>0, <2>1, <2>2 DEF Active
<1> QED
  BY <1>1, <1>2, <1>3, <1>4, <1>5, <1>6, <1>7, <1>8, <1>9, <1>10, <1>11, <1>12, <1>13
  DEF Next, Stage, Work

-----------------------------------------------------------------------------
(* Whose source is kept under an ID: that of a file with the ID, and with   *)
(* APFS of one that is listed.                                              *)
Filed == \A i \in DOMAIN cached : Id(cached[i]) = i /\ (kind = "apfs" => cached[i] \in files)

LEMMA FiledNext == Shown /\ Filed /\ [Next]_vars => Filed'
<1> SUFFICES ASSUME Shown, Filed, [Next]_vars PROVE Filed'
  OBVIOUS
<1>1. kind' = kind /\ files \subseteq files' /\ \A f : Id(f)' = Id(f)
  BY ListOnlyGrows DEF Id
<1>2. CASE cached' = cached
  BY <1>1, <1>2 DEF Filed
<1>3. ASSUME NEW w \in Workers, CacheSource(w) PROVE Filed'
  <2> DEFINE f == Current(w)
  <2>1. cached' = [i \in DOMAIN cached \cup {Id(f)} |-> IF i = Id(f) THEN f ELSE cached[i]]
        /\ worker[w].pc = "cache"
    BY <1>3 DEF CacheSource
  <2>2. kind = "apfs" => f \in files
    BY <2>1 DEF Shown, Between
  <2> HIDE DEF f
  <2> QED
    BY <1>1, <2>1, <2>2 DEF Filed
<1> QED
  BY <1>2, <1>3, ListOnlyGrows

(* A file whose source is kept has its own or that of a listed namesake.    *)
LEMMA FiledIsSourced ==
  ASSUME Filed, NEW f, Has(f)
  PROVE  Sourced(f)
<1>1. Id(f) \in DOMAIN cached /\ Id(cached[Id(f)]) = Id(f)
      /\ (kind = "apfs" => cached[Id(f)] \in files)
  BY DEF Has, Filed
<1>2. CASE kind = "apfs"
  BY <1>1, <1>2 DEF Sourced
<1>3. CASE kind # "apfs"
  <2>1. cached[Id(f)] = f
    BY <1>1, <1>3 DEF Id
  <2> QED
    BY <1>1, <2>1 DEF Sourced
<1> QED
  BY <1>2, <1>3

(* What the pool works on, and what its first pass shows, is of volumes     *)
(* that the search found.                                                   *)
Reached ==
  /\ outcome = "searching" => found = {}
  /\ jobs \subseteq found /\ \A i \in DOMAIN rounds : rounds[i] \subseteq found
  /\ \A w \in Workers : worker[w].pc \in Active => worker[w].vol \in found
  /\ live \subseteq found \X (1 .. NbFiles)

LEMMA ReachedInit == Init => Reached
BY DEF Init, Reached, Active, Idle

LEMMA BatchesWithin ==
  ASSUME NEW vols \in SUBSET Volumes, kind \in Kinds, NEW b \in Batches(vols)
  PROVE  b \subseteq vols
<1>1. rule.batch \in {"one", "container", "all"}
  BY StagesAssumption DEF rule, Rule, runEXFATScan, runFATScan, runEXTScan, runNTFSScan,
     runAPFSScan, runHFSPlusScan, runBtrfsScan
<1> QED
  BY <1>1 DEF Batches

LEMMA ReachedNext == Typed /\ Reached /\ [Next]_vars => Reached'
<1> SUFFICES ASSUME Typed, Reached, [Next]_vars PROVE Reached'
  OBVIOUS
<1>a. worker \in [Workers -> Record]
  BY DEF Typed, TypeOK, Record
<1>0. ASSUME NEW w \in Workers, jobs' \subseteq jobs, \A u \in Workers \ {w} : worker'[u] = worker[u],
             worker'[w].pc \in Active =>
               worker'[w].vol \in jobs \/ (worker[w].pc \in Active /\ worker'[w].vol = worker[w].vol),
             live' \subseteq live \cup {<<worker[w].vol, k>> : k \in 1 .. NbFiles},
             live' = live \/ worker[w].pc \in Active, UNCHANGED <<found, rounds, outcome>>
      PROVE  Reached'
  <2>1. live' \subseteq found \X (1 .. NbFiles)
    BY <1>0 DEF Reached
  <2> QED
    BY <1>0, <2>1 DEF Reached
<1>1. CASE Cancel \/ StopBetween \/ ReturnFiles \/ UNCHANGED vars
  BY <1>1 DEF Reached, Cancel, StopBetween, ReturnFiles, Return, vars
<1>2. ASSUME NEW fast \in SUBSET Fast, NEW hits \in SUBSET Volumes, NEW deep \in BOOLEAN,
             FindVolumes(fast, hits, deep)
      PROVE Reached'
  <2> DEFINE vols == Search(fast, hits, deep)
  <2>1. found = {} /\ UNCHANGED <<jobs, worker, live>>
    BY <1>2 DEF FindVolumes, Return, Reached
  <2>2. CASE vols \in {None, {}}
    <3>1. UNCHANGED <<found, rounds>> /\ outcome' # "searching"
      BY <1>2, <2>2 DEF FindVolumes, Return
    <3> QED
      BY <2>1, <3>1 DEF Reached
  <2>3. CASE vols \notin {None, {}}
    <3>1. vols \in SUBSET Volumes /\ kind \in Kinds
      BY <2>3, SearchFindsVolumes DEF Typed, TypeOK
    <3>2. /\ found' = vols /\ outcome' = "walking"
          /\ {rounds'[k] : k \in DOMAIN rounds'} = Batches(vols)
      BY <1>2, <2>3 DEF FindVolumes
    <3> HIDE DEF vols
    <3>3. \A i \in DOMAIN rounds' : rounds'[i] \subseteq found'
      BY <3>1, <3>2, BatchesWithin
    <3> QED
      BY <2>1, <3>2, <3>3 DEF Reached
  <2> QED
    BY <2>2, <2>3
<1>3. CASE StartBatch
  <2>1. /\ UNCHANGED <<found, live, outcome>> /\ rounds # <<>>
        /\ jobs' = Head(rounds) /\ rounds' = Tail(rounds)
    BY <1>3 DEF StartBatch
  <2>2. \A w \in Workers : worker'[w].pc \in {"off", "idle"}
    BY <1>3, IdleIsRecord DEF StartBatch, Idle, Record
  <2>3. rounds \in Seq(SUBSET Volumes)
    BY DEF Typed
  <2>4. jobs' \subseteq found /\ \A i \in DOMAIN rounds' : rounds'[i] \subseteq found
    <3>1. 1 \in DOMAIN rounds /\ Head(rounds) = rounds[1]
      BY <2>1, <2>3
    <3>2. \A i \in DOMAIN Tail(rounds) : i + 1 \in DOMAIN rounds /\ Tail(rounds)[i] = rounds[i + 1]
      BY <2>1, <2>3
    <3> QED
      BY <2>1, <3>1, <3>2 DEF Reached
  <2> QED
    BY <2>1, <2>2, <2>4 DEF Reached, Active
<1>4. ASSUME NEW w \in Workers, NEW v \in Volumes, Take(w, v) PROVE Reached'
  <2>1. PICK x \in {[Idle EXCEPT !.pc = "left"],
                    [Idle EXCEPT !.pc = IF kind = "ntfs" THEN "live" ELSE "walk", !.vol = v]} :
          worker' = [worker EXCEPT ![w] = x]
    BY <1>4 DEF Take, Step
  <2>2. x.pc \in Active => x.vol = v
    BY DEF Idle, Active
  <2>3. /\ v \in jobs /\ jobs' \subseteq jobs /\ live' = live /\ UNCHANGED <<found, rounds, outcome>>
    BY <1>4 DEF Take, KeepStage
  <2> HIDE DEF Active
  <2> QED
    BY <1>0, <1>a, <2>1, <2>2, <2>3
<1>5. ASSUME NEW w \in Workers,
             NoMoreJobs(w) \/ VolumeDone(w) \/ WalkFails(w) \/ WalkCancelled(w)
      PROVE Reached'
  <2>1. PICK x \in {Idle, [Idle EXCEPT !.pc = "left"]} : worker' = [worker EXCEPT ![w] = x]
    BY <1>5 DEF NoMoreJobs, VolumeDone, WalkFails, WalkCancelled, Step
  <2>2. x.pc \notin Active
    BY DEF Idle, Active
  <2>4. worker'[w] = x /\ \A u \in Workers \ {w} : worker'[u] = worker[u]
    BY <1>a, <2>1
  <2>3. UNCHANGED <<jobs, live, found, rounds, outcome>>
    BY <1>5 DEF NoMoreJobs, VolumeDone, WalkFails, WalkCancelled, KeepStage
  <2> QED
    BY <1>0, <2>2, <2>3, <2>4
<1>6. ASSUME NEW w \in Workers, Emit(w) \/ CacheSource(w) \/ Report(w) PROVE Reached'
  <2>1. worker[w].pc \in Active /\ UNCHANGED <<jobs, live, found, rounds, outcome>>
    BY <1>6 DEF Emit, CacheSource, Report, KeepStage, Active
  <2>a. worker[w] \in Record
    BY <1>a
  <2>b. PICK x : worker' = [worker EXCEPT ![w] = x] /\ x.vol = worker[w].vol
    <3>1. CASE Emit(w)
      <4> DEFINE next == [worker[w] EXCEPT !.n = @ + 1, !.pc = "cache"]
                 f == <<worker[w].vol, worker[w].n + 1>>
      <4>1. next.vol = worker[w].vol /\ [next EXCEPT !.own = @ \cup {f}].vol = worker[w].vol
        BY <2>a DEF Record
      <4>2. Step(w, next) \/ Step(w, [next EXCEPT !.own = @ \cup {f}])
        BY <3>1 DEF Emit
      <4> HIDE DEF next, f
      <4> QED
        BY <4>1, <4>2 DEF Step
    <3>2. CASE CacheSource(w)
      <4>1. [worker[w] EXCEPT !.pc = "report"].vol = worker[w].vol
        BY <2>a DEF Record
      <4> QED
        BY <3>2, <4>1 DEF CacheSource, Step
    <3>3. CASE Report(w)
      <4>1. [worker[w] EXCEPT !.pc = "walk"].vol = worker[w].vol
        BY <2>a DEF Record
      <4> QED
        BY <3>3, <4>1 DEF Report, Step
    <3> QED
      BY <1>6, <3>1, <3>2, <3>3
  <2>2. worker'[w].vol = worker[w].vol /\ \A u \in Workers \ {w} : worker'[u] = worker[u]
    BY <1>a, <2>b
  <2> QED
    BY <1>0, <2>1, <2>2
<1>7. ASSUME NEW w \in Workers, LiveFile(w) \/ LivePassEnds(w) PROVE Reached'
  <2>1. /\ worker[w].pc = "live" /\ worker'[w].vol = worker[w].vol
        /\ \A u \in Workers \ {w} : worker'[u] = worker[u]
        /\ UNCHANGED <<jobs, found, rounds, outcome>>
    BY <1>a, <1>7, LivePassIs
  <2>2. live' \subseteq live \cup {<<worker[w].vol, k>> : k \in 1 .. NbFiles}
    <3>1. CASE LiveFile(w)
      <4>1. worker[w].n \in 0 .. NbFiles /\ worker[w].n < NbFiles
        BY <1>a, <3>1 DEF LiveFile, Record
      <4>2. worker[w].n + 1 \in 1 .. NbFiles
        BY <4>1, StagesAssumption
      <4>3. live' = live \cup {<<worker[w].vol, worker[w].n + 1>>}
        BY <3>1 DEF LiveFile
      <4> QED
        BY <4>2, <4>3
    <3>2. CASE LivePassEnds(w)
      BY <3>2 DEF LivePassEnds, KeepStage
    <3> QED
      BY <1>7, <3>1, <3>2
  <2> QED
    BY <1>0, <2>1, <2>2 DEF Active
<1> QED
  BY <1>1, <1>2, <1>3, <1>4, <1>5, <1>6, <1>7 DEF Next, Stage, Work

(* All that is true of a stage at any moment.                               *)
IInv == Typed /\ Kept /\ Shown /\ Complete /\ Filed /\ Reached

LEMMA Inductive == (Init => IInv) /\ (IInv /\ [Next]_vars => IInv')
<1>1. Init => IInv
  <2>1. Init => Filed
    BY DEF Init, Filed
  <2> QED
    BY <2>1, TypedInit, KeptInit, ShownInit, CompleteInit, ReachedInit DEF IInv
<1>2. IInv /\ [Next]_vars => IInv'
  BY TypedNext, KeptNext, ShownNext, CompleteNext, FiledNext, ReachedNext DEF IInv
<1> QED
  BY <1>1, <1>2

(* Which files can be recovered, in all seven stages, however the pool is   *)
(* scheduled and whatever fails or is cancelled: a reported file has its    *)
(* source in the engine's map from its report on, a returned file when its  *)
(* stage returns; a deleted NTFS file, shown first without one, has it once *)
(* the stage has ended well and was not cancelled, if its volume is sound.  *)
(* The source is its own unless another file was listed under the same ID.  *)
THEOREM SourcesAreKept == Spec => []SourceBeforeReport
<1>1. IInv => SourceBeforeReport
  <2> SUFFICES ASSUME IInv PROVE SourceBeforeReport
    OBVIOUS
  <2>1. \A f : Has(f) => Sourced(f)
    BY FiledIsSourced DEF IInv
  <2>2. \A f \in reported : Has(f)
    BY DEF IInv, Kept
  <2>3. outcome = "ok" => \A f \in files : Has(f)
    BY DEF IInv, Kept, AllLeft, OnItsWay
  <2>4. ASSUME outcome = "ok", ~cancelled, NEW f \in live, cond[f[1]] = "sound" PROVE f \in files
    <3>1. PICK v \in found, k \in 1 .. NbFiles : f = <<v, k>>
      BY <2>4 DEF IInv, Reached
    <3>2. Walked(v)
      BY <2>4, <3>1 DEF IInv, Complete
    <3> QED
      BY <3>1, <3>2 DEF Walked
  <2> QED
    BY <2>1, <2>2, <2>3, <2>4 DEF SourceBeforeReport
<1> QED
  BY <1>1, Inductive, PTL DEF Spec

(* A stage that ends well has reported just what it returns (except for     *)
(* NTFS), and, unless it was cancelled, has lost no file of a volume it     *)
(* found and could walk, for each of the seven stages, any disk and pool.   *)
THEOREM OkStageIsComplete == Spec => []OkStageComplete
<1>1. IInv => OkStageComplete
  BY DEF IInv, Kept, Shown, Complete, Walked, Between, AllLeft, OkStageComplete
<1> QED
  BY <1>1, Inductive, PTL DEF Spec

-----------------------------------------------------------------------------
(* Why a stage ends: the safety half, for every value of the constants.     *)

LEMMA OrderExists ==
  ASSUME NEW S, IsFiniteSet(S)
  PROVE  \E s \in [1 .. Cardinality(S) -> S] : {s[i] : i \in DOMAIN s} = S
<1>1. PICK s \in Bijection(1 .. Cardinality(S), S) : TRUE
  BY FS_CardinalityType DEF ExistsBijection
<1>2. s \in [1 .. Cardinality(S) -> S] /\ \A x \in S : \E i \in 1 .. Cardinality(S) : s[i] = x
  BY <1>1 DEF Bijection, Surjection
<1>3. {s[i] : i \in DOMAIN s} = S
  BY <1>2
<1> QED
  BY <1>2, <1>3

LEMMA SubsetOfSize ==
  ASSUME NEW S, IsFiniteSet(S), NEW k \in 0 .. Cardinality(S)
  PROVE  \E T \in SUBSET S : Cardinality(T) = k
<1>0. Cardinality(S) \in Nat /\ k \in Nat /\ 1 .. k \subseteq 1 .. Cardinality(S)
  BY FS_CardinalityType
<1>1. PICK f \in Bijection(1 .. Cardinality(S), S) : TRUE
  BY FS_CardinalityType DEF ExistsBijection
<1>2. /\ f \in [1 .. Cardinality(S) -> S]
      /\ \A i, j \in 1 .. Cardinality(S) : f[i] = f[j] => i = j
  BY <1>1 DEF Bijection, Injection, IsInjective
<1> DEFINE T == {f[i] : i \in 1 .. k}
           g == [i \in 1 .. k |-> f[i]]
<1>3. T \subseteq S
  BY <1>0, <1>2
<1>4. g \in Bijection(1 .. k, T)
  <2>1. g \in [1 .. k -> T] /\ \A x \in T : \E i \in 1 .. k : g[i] = x
    OBVIOUS
  <2>2. \A i, j \in 1 .. k : g[i] = g[j] => i = j
    BY <1>0, <1>2
  <2> HIDE DEF g, T
  <2> QED
    BY <2>1, <2>2 DEF Bijection, Injection, IsInjective, Surjection
<1>5. Cardinality(T) = k
  <2> HIDE DEF g, T
  <2>1. ExistsBijection(1 .. k, T)
    BY <1>4 DEF ExistsBijection
  <2> QED
    BY <1>0, <2>1, FS_CountingElements
<1> QED
  BY <1>3, <1>5

(* NTFS alone looks at a volume twice.                                      *)
LiveIsNtfs == \A w \in Workers : worker[w].pc = "live" => kind = "ntfs"

LEMMA LiveNext == Typed /\ LiveIsNtfs /\ [Next]_vars => LiveIsNtfs'
<1> SUFFICES ASSUME Typed, LiveIsNtfs, [Next]_vars PROVE LiveIsNtfs'
  OBVIOUS
<1>a. worker \in [Workers -> Record]
  BY DEF Typed, TypeOK, Record
<1>0. ASSUME NEW w \in Workers, NEW r, Step(w, r), kind' = kind, r.pc = "live" => kind = "ntfs"
      PROVE  LiveIsNtfs'
  BY <1>0, <1>a DEF Step, LiveIsNtfs
<1>1. CASE Cancel \/ StopBetween \/ ReturnFiles \/ UNCHANGED vars
  BY <1>1 DEF Cancel, StopBetween, ReturnFiles, Return, vars, LiveIsNtfs
<1>2. ASSUME NEW fast \in SUBSET Fast, NEW hits \in SUBSET Volumes, NEW deep \in BOOLEAN,
             FindVolumes(fast, hits, deep)
      PROVE LiveIsNtfs'
  BY <1>2 DEF FindVolumes, Return, LiveIsNtfs
<1>3. CASE StartBatch
  <2>1. \A w \in Workers : worker'[w].pc \in {"off", "idle"}
    BY <1>3, IdleIsRecord DEF StartBatch, Idle
  <2> QED
    BY <2>1 DEF LiveIsNtfs
<1>4. ASSUME NEW w \in Workers, NEW v \in Volumes, Take(w, v) PROVE LiveIsNtfs'
  <2>1. CASE cancelled /\ rule.batch # "one"
    BY <1>0, <1>4, <2>1 DEF Take, KeepStage, Idle
  <2>2. CASE ~(cancelled /\ rule.batch # "one")
    <3> DEFINE r == [Idle EXCEPT !.pc = IF kind = "ntfs" THEN "live" ELSE "walk", !.vol = v]
    <3>1. Step(w, r) /\ kind' = kind
      BY <1>4, <2>2 DEF Take, KeepStage
    <3>2. r.pc = "live" => kind = "ntfs"
      BY DEF Idle
    <3> HIDE DEF r
    <3> QED
      BY <1>0, <3>1, <3>2
  <2> QED
    BY <2>1, <2>2
<1>5. ASSUME NEW w \in Workers, NoMoreJobs(w) \/ VolumeDone(w) \/ WalkFails(w) \/ WalkCancelled(w)
      PROVE LiveIsNtfs'
  <2>1. PICK r \in {Idle, [Idle EXCEPT !.pc = "left"]} : Step(w, r) /\ kind' = kind
    BY <1>5 DEF NoMoreJobs, VolumeDone, WalkFails, WalkCancelled, KeepStage
  <2>2. r.pc # "live"
    BY DEF Idle
  <2> QED
    BY <1>0, <2>1, <2>2
<1>6. ASSUME NEW w \in Workers, Emit(w) PROVE LiveIsNtfs'
  <2> DEFINE next == [worker[w] EXCEPT !.n = @ + 1, !.pc = "cache"]
             f == <<worker[w].vol, worker[w].n + 1>>
  <2>1. PICK r \in {next, [next EXCEPT !.own = @ \cup {f}]} : Step(w, r) /\ kind' = kind
    BY <1>6 DEF Emit, KeepStage
  <2>2. worker[w] \in Record
    BY <1>a
  <2>3. next.pc = "cache" /\ [next EXCEPT !.own = @ \cup {f}].pc = "cache"
    BY <2>2 DEF Record
  <2> HIDE DEF next, f
  <2> QED
    BY <1>0, <2>1, <2>3
<1>8. ASSUME NEW w \in Workers, LiveFile(w) \/ LivePassEnds(w) PROVE LiveIsNtfs'
  <2>1. /\ worker[w].pc = "live" /\ kind' = kind
        /\ \A u \in Workers \ {w} : worker'[u] = worker[u]
    BY <1>a, <1>8, LivePassIs
  <2> QED
    BY <2>1 DEF LiveIsNtfs
<1>7. ASSUME NEW w \in Workers, CacheSource(w) \/ Report(w)
      PROVE LiveIsNtfs'
  <2>1. PICK at \in {"report", "walk"} :
          Step(w, [worker[w] EXCEPT !.pc = at]) /\ kind' = kind
    BY <1>7 DEF CacheSource, Report, KeepStage
  <2>2. [worker[w] EXCEPT !.pc = at].pc = at
    BY <1>a DEF Record
  <2> QED
    BY <1>0, <2>1, <2>2
<1> QED
  BY <1>1, <1>2, <1>3, <1>4, <1>5, <1>6, <1>7, <1>8 DEF Next, Stage, Work

(* When a goroutine of the pool can go: it waits for a volume, and there is *)
(* one or no more come; its walk is done, has a file, fails or is           *)
(* cancelled; it has a file to keep or to report.                           *)
WorkGoes(w) ==
  \/ worker[w].pc = "idle" /\ (jobs = {} \/ \E v \in Volumes : v \in jobs)
  \/ worker[w].pc = "walk" /\ worker[w].n = NbFiles
  \/ /\ worker[w].pc = "walk" /\ worker[w].n < NbFiles /\ ~(cancelled /\ rule.looks)
     /\ ~rule.streams => cond[worker[w].vol] = "sound"
  \/ worker[w].pc = "live" /\ worker[w].n < NbFiles
  \/ /\ worker[w].pc = "live" /\ worker[w].n = NbFiles
     /\ cond[worker[w].vol] = "sound" /\ ~cancelled
  \/ Underway(w) /\ (cond[worker[w].vol] # "sound" \/ (cancelled /\ rule.looks))
  \/ worker[w].pc \in {"cache", "report"}

(* When the stage can go: whatever the search finds can be put into         *)
(* batches; no goroutine is left, and all is walked, the stage is           *)
(* cancelled, or a pool for the next batch can be started.                  *)
SearchGoes ==
  \A fast \in SUBSET Fast, hits \in SUBSET Volumes, deep \in BOOLEAN :
    LET vols == Search(fast, hits, deep)
    IN vols \in {None, {}}
       \/ \E s \in [1 .. Cardinality(Batches(vols)) -> Batches(vols)] :
            {s[i] : i \in DOMAIN s} = Batches(vols)

PoolGoes ==
  \E pool \in SUBSET Workers :
    Cardinality(pool) = IF rule.batch = "one" THEN 1
                        ELSE IF Cardinality(Head(rounds)) < Cardinality(Workers)
                        THEN Cardinality(Head(rounds)) ELSE Cardinality(Workers)

StageGoes ==
  \/ outcome = "searching" /\ SearchGoes
  \/ /\ outcome = "walking" /\ AllLeft
     /\ rounds = <<>> \/ (rule.batch # "all" /\ cancelled) \/ PoolGoes

SomeoneGoes ==
  outcome \in {"searching", "walking"} => StageGoes \/ \E w \in Workers : WorkGoes(w)

(* A batch is finite, and so is the pool.                                   *)
LEMMA BatchPool ==
  ASSUME Typed, rounds # <<>>
  PROVE  PoolGoes
<1>1. rounds \in Seq(SUBSET Volumes)
  BY DEF Typed
<1>2. Head(rounds) \subseteq Volumes
  BY <1>1
<1>3. IsFiniteSet(Head(rounds)) /\ IsFiniteSet(Workers)
  BY <1>2, StagesAssumption, FS_UNION, FS_Subset DEF Volumes
<1>4. /\ Cardinality(Head(rounds)) \in Nat /\ Cardinality(Workers) \in Nat
      /\ Cardinality(Workers) # 0
  BY <1>3, StagesAssumption, FS_CardinalityType, FS_EmptySet
<1> DEFINE k == IF rule.batch = "one" THEN 1
                ELSE IF Cardinality(Head(rounds)) < Cardinality(Workers)
                THEN Cardinality(Head(rounds)) ELSE Cardinality(Workers)
<1>5. k \in 0 .. Cardinality(Workers)
  BY <1>4
<1> HIDE DEF k
<1>6. PICK pool \in SUBSET Workers : Cardinality(pool) = k
  BY <1>3, <1>5, SubsetOfSize
<1> QED
  BY <1>6 DEF PoolGoes, k

LEMMA SearchCanGo ==
  ASSUME Typed
  PROVE  SearchGoes
<1> SUFFICES ASSUME NEW fast \in SUBSET Fast, NEW hits \in SUBSET Volumes, NEW deep \in BOOLEAN,
                    Search(fast, hits, deep) \notin {None, {}}
             PROVE  LET vols == Search(fast, hits, deep)
                    IN \E s \in [1 .. Cardinality(Batches(vols)) -> Batches(vols)] :
                         {s[i] : i \in DOMAIN s} = Batches(vols)
  BY DEF SearchGoes
<1> DEFINE vols == Search(fast, hits, deep)
<1>1. vols \subseteq Volumes
  BY SearchFindsVolumes DEF Typed, TypeOK
<1>2. Batches(vols) \subseteq SUBSET Volumes
  BY <1>1, BatchesAreVolumes DEF Typed, TypeOK
<1>3. IsFiniteSet(Batches(vols))
  BY <1>2, DiskIsFinite, FS_Subset
<1> HIDE DEF vols
<1>4. \E s \in [1 .. Cardinality(Batches(vols)) -> Batches(vols)] :
        {s[i] : i \in DOMAIN s} = Batches(vols)
  BY <1>3, OrderExists
<1> QED
  BY <1>4 DEF vols

(* A goroutine that has not left can go.                                    *)
LEMMA WorkerCanGo ==
  ASSUME Typed, LiveIsNtfs, NEW w \in Workers, worker[w].pc \notin {"off", "left"}
  PROVE  WorkGoes(w)
<1>1. worker[w] \in Record
  BY DEF Typed, TypeOK, Record
<1>2. worker[w].pc \in {"idle", "live", "walk", "cache", "report"} /\ worker[w].n \in 0 .. NbFiles
  BY <1>1 DEF Record
<1>3. CASE worker[w].pc = "idle"
  BY <1>3 DEF WorkGoes, Typed
<1>4. CASE worker[w].pc = "walk"
  <2>1. worker[w].n = NbFiles \/ worker[w].n < NbFiles
    BY <1>2, StagesAssumption
  <2> QED
    BY <1>4, <2>1 DEF WorkGoes, Underway
<1>5. CASE worker[w].pc = "live"
  <2>1. rule.looks
    BY <1>5 DEF LiveIsNtfs, rule, runNTFSScan, Rule
  <2>2. worker[w].n = NbFiles \/ worker[w].n < NbFiles
    BY <1>2, StagesAssumption
  <2> QED
    BY <1>5, <2>1, <2>2 DEF WorkGoes, Underway
<1>6. CASE worker[w].pc \in {"cache", "report"}
  BY <1>6 DEF WorkGoes
<1> QED
  BY <1>2, <1>3, <1>4, <1>5, <1>6

(* Until a stage has returned, its own goroutine or one of its pool can go, *)
(* in all seven stages, for any disk, pool and number of files, whatever    *)
(* fails and whenever it is cancelled: no goroutine is waited for that      *)
(* waits itself, and none is left in a state with no way out.               *)
THEOREM StageNeverStands == Spec => []SomeoneGoes
<1>1. Init => Typed /\ LiveIsNtfs
  BY TypedInit DEF Init, LiveIsNtfs, Idle
<1>2. (Typed /\ LiveIsNtfs) /\ [Next]_vars => (Typed /\ LiveIsNtfs)'
  BY TypedNext, LiveNext
<1>3. Typed /\ LiveIsNtfs => SomeoneGoes
  <2>1. SUFFICES ASSUME Typed, LiveIsNtfs, outcome \in {"searching", "walking"},
                        \A w \in Workers : ~ WorkGoes(w)
                 PROVE  StageGoes
    BY DEF SomeoneGoes
  <2>2. AllLeft
    BY <2>1, WorkerCanGo DEF AllLeft
  <2>3. CASE outcome = "searching"
    BY <2>1, <2>3, SearchCanGo DEF StageGoes
  <2>4. CASE outcome = "walking"
    BY <2>1, <2>2, <2>4, BatchPool DEF StageGoes
  <2> QED
    BY <2>1, <2>3, <2>4
<1> QED
  BY <1>1, <1>2, <1>3, PTL DEF Spec

(* What is left to do: for the stage, and for a goroutine of its pool, with *)
(* at most four steps for a file, and one more in the first pass of NTFS.   *)
OutcomeLeft == IF outcome = "searching" THEN 2 ELSE IF outcome = "walking" THEN 1 ELSE 0
StepsLeft(pc) ==
  CASE pc = "cache" -> 3 [] pc = "report" -> 2 [] OTHER -> 1
WorkLeft(r) ==
  IF r.pc \in {"off", "left"} THEN 0
  ELSE IF r.pc = "idle" THEN 1
  ELSE IF r.pc = "live" THEN 4 + 4 * NbFiles + (NbFiles - r.n)
  ELSE 2 + 4 * (NbFiles - r.n) + StepsLeft(r.pc)
LessWork ==
  /\ \A w \in Workers : WorkLeft(worker'[w]) <= WorkLeft(worker[w])
  /\ \E w \in Workers : WorkLeft(worker'[w]) < WorkLeft(worker[w])
(* The search and the return come once, the batches are taken one by one,   *)
(* a volume is taken from the channel once, and a goroutine comes nearer to *)
(* the end of its volume; what stands before it in this list stays.         *)
LessLeft ==
  \/ OutcomeLeft' < OutcomeLeft
  \/ UNCHANGED outcome /\ Len(rounds') < Len(rounds)
  \/ UNCHANGED <<outcome, rounds>> /\ jobs' \subseteq jobs /\ jobs' # jobs
  \/ UNCHANGED <<outcome, rounds, jobs>> /\ LessWork

LEMMA OneWorksLess ==
  ASSUME worker \in [Workers -> Record], NEW w \in Workers, NEW r \in Record,
         Step(w, r), WorkLeft(r) < WorkLeft(worker[w])
  PROVE  LessWork
<1>1. \A v \in Workers : worker'[v] = IF v = w THEN r ELSE worker[v]
  BY DEF Step
<1>2. \A s \in Record : WorkLeft(s) \in Nat
  BY StagesAssumption DEF WorkLeft, StepsLeft, Record
<1>3. \A v \in Workers : WorkLeft(worker[v]) \in Nat /\ WorkLeft(r) \in Nat
  BY <1>2
<1> HIDE DEF WorkLeft
<1> QED BY <1>1, <1>3 DEF LessWork

LEMMA StageLowers ==
  ASSUME Typed, Stage
  PROVE  LessLeft
<1>1. ASSUME NEW fast \in SUBSET Fast, NEW hits \in SUBSET Volumes, NEW deep \in BOOLEAN,
             FindVolumes(fast, hits, deep)
      PROVE  LessLeft
  <2>1. outcome = "searching" /\ outcome' \in {"error", "ok", "walking"}
    BY <1>1 DEF FindVolumes, Return
  <2> QED
    BY <2>1 DEF LessLeft, OutcomeLeft
<1>2. CASE StartBatch
  <2>1. rounds \in Seq(SUBSET Volumes) /\ rounds # <<>> /\ rounds' = Tail(rounds)
        /\ UNCHANGED outcome
    BY <1>2 DEF StartBatch, Typed
  <2>2. Len(rounds') < Len(rounds)
    BY <2>1
  <2> QED
    BY <2>1, <2>2 DEF LessLeft
<1>3. CASE StopBetween \/ ReturnFiles
  <2>1. outcome = "walking" /\ outcome' \in {"error", "ok"}
    BY <1>3 DEF StopBetween, ReturnFiles, Return
  <2> QED
    BY <2>1 DEF LessLeft, OutcomeLeft
<1> QED
  BY <1>1, <1>2, <1>3 DEF Stage

LEMMA WorkLowers ==
  ASSUME Typed, NEW w \in Workers, Work(w)
  PROVE  LessLeft
<1>a. worker \in [Workers -> Record] /\ worker[w] \in Record
  BY DEF Typed, TypeOK, Record
<1>n. worker[w].n \in Nat /\ NbFiles \in Nat /\ worker[w].n <= NbFiles
  BY <1>a, StagesAssumption DEF Record
<1>0. ASSUME NEW r \in Record, Step(w, r), WorkLeft(r) < WorkLeft(worker[w]),
             UNCHANGED <<outcome, rounds, jobs>>
      PROVE  LessLeft
  BY <1>0, <1>a, OneWorksLess DEF LessLeft
<1>i. /\ WorkLeft(Idle) = 1 /\ WorkLeft([Idle EXCEPT !.pc = "left"]) = 0
      /\ Idle \in Record /\ [Idle EXCEPT !.pc = "left"] \in Record
  BY IdleIsRecord DEF WorkLeft, Idle
<1>1. ASSUME NEW v \in Volumes, Take(w, v) PROVE LessLeft
  <2>1. UNCHANGED <<outcome, rounds>> /\ v \in jobs /\ jobs' = jobs \ {v}
    BY <1>1 DEF Take, KeepStage
  <2> QED
    BY <2>1 DEF LessLeft
<1>2. CASE NoMoreJobs(w)
  <2>1. /\ UNCHANGED <<outcome, rounds, jobs>> /\ worker[w].pc = "idle"
        /\ Step(w, [Idle EXCEPT !.pc = "left"])
    BY <1>2 DEF NoMoreJobs, KeepStage
  <2>2. WorkLeft(worker[w]) = 1
    BY <2>1 DEF WorkLeft
  <2> QED
    BY <1>0, <1>i, <2>1, <2>2
<1>3. CASE Emit(w)
  <2> DEFINE next == [worker[w] EXCEPT !.n = @ + 1, !.pc = "cache"]
             f == <<worker[w].vol, worker[w].n + 1>>
  <2>1. /\ UNCHANGED <<outcome, rounds, jobs>> /\ worker[w].pc = "walk"
        /\ worker[w].n + 1 \in 1 .. NbFiles
    BY <1>3, <1>n DEF Emit, KeepStage
  <2>2. PICK r \in {next, [next EXCEPT !.own = @ \cup {f}]} : Step(w, r)
    BY <1>3 DEF Emit
  <2>3. /\ next \in Record /\ next.pc = "cache" /\ next.n = worker[w].n + 1
        /\ next.own \subseteq File
    BY <1>a, <2>1, NextFileIsRecord
  <2>4. f \in File
    BY <1>3, <2>1 DEF File, Typed, Active
  <2> HIDE DEF next, f
  <2>5. r \in Record /\ r.pc = "cache" /\ r.n = worker[w].n + 1
    BY <2>2, <2>3, <2>4 DEF Record
  <2>6. WorkLeft(r) = 2 + 4 * (NbFiles - (worker[w].n + 1)) + 3
    BY <2>5 DEF WorkLeft, StepsLeft
  <2>7. WorkLeft(worker[w]) = 2 + 4 * (NbFiles - worker[w].n) + 1
    BY <2>1 DEF WorkLeft, StepsLeft
  <2>8. WorkLeft(r) < WorkLeft(worker[w])
    BY <1>n, <2>6, <2>7
  <2> QED
    BY <1>0, <2>1, <2>2, <2>5, <2>8
<1>6. CASE LiveFile(w) \/ LivePassEnds(w)
  <2>1. /\ worker[w].pc = "live" /\ worker'[w] \in Record
        /\ \/ worker'[w].pc = "live" /\ worker'[w].n = worker[w].n + 1
           \/ worker'[w].pc = "walk" /\ worker'[w].n = 0
        /\ UNCHANGED <<outcome, rounds, jobs>>
    BY <1>a, <1>6, LivePassIs
  <2>2. WorkLeft(worker[w]) = 4 + 4 * NbFiles + (NbFiles - worker[w].n)
    BY <2>1 DEF WorkLeft
  <2>3. CASE worker'[w].pc = "live"
    <3>1. WorkLeft(worker'[w]) = 4 + 4 * NbFiles + (NbFiles - (worker[w].n + 1))
      BY <2>1, <2>3 DEF WorkLeft
    <3>2. WorkLeft(worker'[w]) < WorkLeft(worker[w])
      BY <1>n, <2>2, <3>1
    <3>3. PICK x : Step(w, x)
      BY <1>6 DEF LiveFile, LivePassEnds
    <3>4. x = worker'[w]
      BY <1>a, <3>3 DEF Step
    <3> QED
      BY <1>0, <2>1, <3>2, <3>3, <3>4
  <2>4. CASE worker'[w].pc = "walk"
    <3>1. WorkLeft(worker'[w]) = 2 + 4 * (NbFiles - 0) + 1
      BY <2>1, <2>4 DEF WorkLeft, StepsLeft
    <3>2. WorkLeft(worker'[w]) < WorkLeft(worker[w])
      BY <1>n, <2>2, <3>1
    <3>3. PICK x : Step(w, x)
      BY <1>6 DEF LiveFile, LivePassEnds
    <3>4. x = worker'[w]
      BY <1>a, <3>3 DEF Step
    <3> QED
      BY <1>0, <2>1, <3>2, <3>3, <3>4
  <2> QED
    BY <2>1, <2>3, <2>4
<1>4. CASE CacheSource(w) \/ Report(w)
  <2>1. PICK at \in {"report", "walk"} :
          /\ Step(w, [worker[w] EXCEPT !.pc = at]) /\ worker[w].pc \in {"cache", "report"}
          /\ at = "report" => worker[w].pc = "cache"
    BY <1>4 DEF CacheSource, Report
  <2>2. UNCHANGED <<outcome, rounds, jobs>>
    BY <1>4 DEF CacheSource, Report, KeepStage
  <2> DEFINE r == [worker[w] EXCEPT !.pc = at]
  <2>3. r \in Record
    BY <1>a DEF Record
  <2>4. r.pc = at /\ r.n = worker[w].n
    BY <1>a DEF Record
  <2> HIDE DEF r
  <2>5. WorkLeft(r) = 2 + 4 * (NbFiles - worker[w].n) + StepsLeft(at)
    BY <2>1, <2>4 DEF WorkLeft
  <2>6. WorkLeft(worker[w]) = 2 + 4 * (NbFiles - worker[w].n) + StepsLeft(worker[w].pc)
    BY <2>1 DEF WorkLeft
  <2>7. StepsLeft(at) \in Nat /\ StepsLeft(worker[w].pc) \in Nat
        /\ StepsLeft(at) < StepsLeft(worker[w].pc)
    BY <2>1 DEF StepsLeft
  <2>8. WorkLeft(r) < WorkLeft(worker[w])
    BY <1>n, <2>5, <2>6, <2>7
  <2> QED
    BY <1>0, <2>1, <2>2, <2>3, <2>8 DEF r
<1>5. CASE VolumeDone(w) \/ WalkFails(w) \/ WalkCancelled(w)
  <2>1. PICK r \in {Idle, [Idle EXCEPT !.pc = "left"]} : Step(w, r)
    BY <1>5 DEF VolumeDone, WalkFails, WalkCancelled
  <2>2. UNCHANGED <<outcome, rounds, jobs>> /\ worker[w].pc \in {"walk", "live"}
    BY <1>5 DEF VolumeDone, WalkFails, WalkCancelled, KeepStage, Underway
  <2>3. \/ WorkLeft(worker[w]) = 2 + 4 * (NbFiles - worker[w].n) + 1
        \/ WorkLeft(worker[w]) = 4 + 4 * NbFiles + (NbFiles - worker[w].n)
    BY <2>2 DEF WorkLeft, StepsLeft
  <2>5. WorkLeft(worker[w]) > 1
    BY <1>n, <2>3
  <2>6. r \in Record /\ WorkLeft(r) \in {0, 1}
    BY Zenon, <1>i, <2>1
  <2>7. WorkLeft(r) < WorkLeft(worker[w])
    <3> HIDE DEF WorkLeft, StepsLeft
    <3>1. PICK x \in Int : x = WorkLeft(worker[w])
      BY <1>n, <2>3
    <3> QED
      BY <2>5, <2>6, <3>1
  <2> QED
    BY <1>0, <2>1, <2>2, <2>6, <2>7
<1> QED
  BY <1>1, <1>2, <1>3, <1>4, <1>5, <1>6 DEF Work

(* Every step of a stage and of its pool leaves less to do, in an order in  *)
(* which nothing falls forever (a batch is finite), and nothing else adds   *)
(* to it: a stage takes finitely many steps, and as one can always be taken *)
(* it returns when its goroutines are scheduled.                            *)
THEOREM StageRunsDown ==
  Spec => [][IF Stage \/ (\E w \in Workers : Work(w)) THEN LessLeft
             ELSE UNCHANGED <<outcome, rounds, jobs, worker>>]_vars
<1>1. Typed /\ [Next]_vars =>
        [IF Stage \/ (\E w \in Workers : Work(w)) THEN LessLeft
         ELSE UNCHANGED <<outcome, rounds, jobs, worker>>]_vars
  BY StageLowers, WorkLowers DEF Next, Cancel, vars
<1> QED
  BY <1>1, TypedInit, TypedNext, PTL DEF Spec
=============================================================================
