--------------------------- MODULE BackgroundTasks ---------------------------
(***************************************************************************)
(* The application's long-running calls other than the disk scan           *)
(* (cmd/data-recovery/app.go).  Every kind of task has one field of App    *)
(* that holds the cancel function of its task, and its own way to fill,    *)
(* read and clear that field:                                              *)
(*   "refuse"     DumpDisk: a second one is refused (imagingMu)            *)
(*   "replace"    duplicates, OCR, multi-disk scan: a second one cancels   *)
(*                the first                                                *)
(*   "overwrite"  pulls from phones and cameras: a second one starts next  *)
(*                to the first, and its function replaces the first's      *)
(*   "late"       SMB, NFS, iOS and Android backup scans: as "overwrite",  *)
(*                but it is the task's goroutine that fills the field, and *)
(*                nobody clears it when the task ends                      *)
(* The body of a multi-disk scan is ScanMultiple (parallel/multidisk.go):  *)
(* one engine and one watcher of the context per disk, at most MaxParallel *)
(* at a time.  A disk scan is seen here only as the flag IsScanning.       *)
(***************************************************************************)
EXTENDS Naturals, FiniteSets

CONSTANTS
  Task,
  Kind,
  Policy,          \* kind -> one of the four policies
  Parallel,        \* the kind whose body is ScanMultiple
  Disks,           \* its jobs are the disks 1..Disks, in this order
  MaxParallel,
  Caller, MaxCancels,
  None

Policies == {"refuse", "replace", "overwrite", "late"}
ASSUME PolicyAssumption ==
  /\ Policy \in [Kind -> Policies]
  /\ Parallel \in Kind => Policy[Parallel] = "replace"
ASSUME BoundsAssumption ==
  /\ Disks \in Nat \ {0} /\ MaxParallel \in 1..Disks /\ MaxCancels \in Nat
  /\ None \notin Task \union Kind

Job == 1..Disks

VARIABLES
  task,       \* of each task: the place its code is at, "new" before it is called
  kind,       \* of each task: its kind, None before it is called
  slot,       \* of each kind: the task whose cancel function the field holds
  imaging,    \* imagingMu is locked
  ctxDone,    \* the tasks whose context is cancelled
  scanning,   \* Engine.IsScanning of the application's own engine
  job, watch, \* of each multi-disk scan and disk: the job's engine, its watcher
  caller,     \* of each caller: [at, kind, holds, aims] of its Cancel call
  cancels,
  (* history: the tasks alone of their kind since they were called; the tasks *)
  (* a Cancel call must reach; the tasks somebody meant to end; the disks that *)
  (* were being scanned when their task was cancelled                          *)
  lone, due, meant, mustStop

taskVars == <<task, kind, slot, imaging, ctxDone, scanning, job, watch, caller, cancels,
              lone, due, meant, mustStop>>
jobs == <<job, watch>>
calls == <<caller, cancels, due>>

NoCall == [at |-> "idle", kind |-> None, holds |-> None, aims |-> {}]
Over == {"new", "done"}
Alive(k) == {t \in Task : kind[t] = k /\ task[t] \notin Over}

TaskInit ==
  /\ task = [t \in Task |-> "new"] /\ kind = [t \in Task |-> None]
  /\ slot = [k \in Kind |-> None] /\ imaging = FALSE
  /\ ctxDone = {} /\ scanning = FALSE
  /\ job = [t \in Task |-> [d \in Job |-> "new"]]
  /\ watch = [t \in Task |-> [d \in Job |-> "none"]]
  /\ caller = [c \in Caller |-> NoCall] /\ cancels = 0
  /\ lone = {} /\ due = {} /\ meant = {} /\ mustStop = {}

\* The disks of t whose engine has registered a scan.
Scanned(ts) == {x \in ts \X Job : job[x[1]][x[2]] = "scanning"}

\* The cancel functions of ts are called.
CancelAll(ts) ==
  /\ ctxDone' = ctxDone \union ts
  /\ mustStop' = mustStop \union Scanned(ts)

----------------------------------------------------------------------------
\* A task is called.  It is alone when no other of its kind is under way.
Call(t, k, at) ==
  /\ task[t] = "new"
  /\ task' = [task EXCEPT ![t] = at] /\ kind' = [kind EXCEPT ![t] = k]
  /\ lone' = (lone \ Alive(k)) \union IF Alive(k) = {} THEN {t} ELSE {}

\* DumpDisk: imagingMu.TryLock, the field is filled in a section of its own.
CallRefusing(t, k) ==
  /\ Policy[k] = "refuse" /\ ~imaging /\ Call(t, k, "arm")
  /\ imaging' = TRUE
  /\ UNCHANGED <<slot, ctxDone, scanning, jobs, calls, meant, mustStop>>

\* FindDuplicateImages, OCRSearchDirectory, StartParallelScanDrives: one section.
CallReplacing(t, k) ==
  /\ Policy[k] = "replace" /\ Call(t, k, "run")
  /\ CancelAll({slot[k]} \ {None})
  /\ meant' = meant \union ({slot[k]} \ {None})
  /\ slot' = [slot EXCEPT ![k] = t]
  /\ UNCHANGED <<imaging, scanning, jobs, calls>>

\* MTPPullDirectoryAndScan, AndroidDumpPartitionAndScan; StartSMBScan and its
\* like: refused during a disk scan.
CallUnlessScanning(t, k) ==
  /\ Policy[k] \in {"overwrite", "late"} /\ ~scanning /\ Call(t, k, "arm")
  /\ UNCHANGED <<slot, imaging, ctxDone, scanning, jobs, calls, meant, mustStop>>

\* The field is filled, by the call itself or by the goroutine it started.
(* Mutant: the field is filled only if it is empty. *)
ArmOnce(t) ==
  /\ task[t] = "arm" /\ task' = [task EXCEPT ![t] = "run"]
  /\ slot' = [slot EXCEPT ![kind[t]] = IF @ = None THEN t ELSE @]
  /\ UNCHANGED <<kind, imaging, ctxDone, scanning, jobs, calls, lone, meant, mustStop>>
Arm(t) ==
  /\ task[t] = "arm" /\ task' = [task EXCEPT ![t] = "run"]
  /\ slot' = [slot EXCEPT ![kind[t]] = t]
  /\ UNCHANGED <<kind, imaging, ctxDone, scanning, jobs, calls, lone, meant, mustStop>>

\* The work is over: it succeeded, failed, or saw its context done.
Finish(t) ==
  /\ task' = [task EXCEPT ![t] = "end"]
  /\ lone' = lone \ {t} /\ due' = due \ {t} /\ meant' = meant \ {t}
WorkEnds(t) ==
  /\ task[t] = "run" /\ kind[t] # Parallel /\ Finish(t)
  /\ UNCHANGED <<kind, slot, imaging, ctxDone, scanning, jobs, caller, cancels, mustStop>>

\* A dump or a pull that succeeded goes on to scan what it brought
\* (AndroidDumpPartitionAndScan, PTPPullAllAndScan: StartScan).
Chain(t) ==
  /\ task[t] = "run" /\ Policy[kind[t]] = "overwrite" /\ t \notin ctxDone
  /\ scanning' = TRUE /\ Finish(t)
  /\ UNCHANGED <<kind, slot, imaging, ctxDone, jobs, caller, cancels, mustStop>>

\* The deferred functions, up to the section that clears the field; "late" has no
\* such section, and "replace" does not count on its own cancel.
Unwind(t) ==
  /\ task[t] = "end"
  /\ ctxDone' = IF Policy[kind[t]] = "replace" THEN ctxDone ELSE ctxDone \union {t}
  /\ imaging' = (imaging /\ Policy[kind[t]] # "refuse")
  /\ task' = [task EXCEPT ![t] = IF Policy[kind[t]] = "late" THEN "done" ELSE "clear"]
  /\ UNCHANGED <<kind, slot, scanning, jobs, calls, lone, meant, mustStop>>

Clear(t) ==
  /\ task[t] = "clear" /\ task' = [task EXCEPT ![t] = "done"]
  /\ slot' = [slot EXCEPT ![kind[t]] = None]
  /\ UNCHANGED <<kind, imaging, ctxDone, scanning, jobs, calls, lone, meant, mustStop>>

----------------------------------------------------------------------------
\* A Cancel call.  It must reach a task that is alone and whose field is filled.
Reached(k) == {t \in lone \intersect Alive(k) : task[t] = "run"}

\* CancelParallelScan, CancelFindDuplicateImages, OCRCancelSearch: under the lock.
CancelHeld(k) ==
  /\ cancels < MaxCancels /\ cancels' = cancels + 1
  /\ Policy[k] = "replace"
  /\ meant' = meant \union Alive(k)
  /\ due' = due \union Reached(k)
  /\ CancelAll({slot[k]} \ {None})
  /\ slot' = [slot EXCEPT ![k] = None]
  /\ UNCHANGED <<task, kind, imaging, scanning, jobs, caller, lone>>

\* CancelDiskDump, CancelMTPPull and its like read the field under the lock and
\* leave it; StopNASScan and its like clear it.  The function is called later.
(* Mutant: the field is read again after the lock was released. *)
CancelReadsLate(c, k) ==
  /\ caller[c] = NoCall /\ cancels < MaxCancels /\ cancels' = cancels + 1
  /\ Policy[k] # "replace"
  /\ meant' = meant \union Alive(k)
  /\ caller' = [caller EXCEPT ![c] = [at |-> "late", kind |-> k, holds |-> None, aims |-> Reached(k)]]
  /\ UNCHANGED <<task, kind, slot, imaging, ctxDone, scanning, jobs, lone, due, mustStop>>
CancelReads(c, k) ==
  /\ caller[c] = NoCall /\ cancels < MaxCancels /\ cancels' = cancels + 1
  /\ Policy[k] # "replace"
  /\ meant' = meant \union Alive(k)
  /\ caller' = [caller EXCEPT ![c] = [at |-> "call", kind |-> k, holds |-> slot[k], aims |-> Reached(k)]]
  /\ slot' = IF Policy[k] = "late" THEN [slot EXCEPT ![k] = None] ELSE slot
  /\ UNCHANGED <<task, kind, imaging, ctxDone, scanning, jobs, lone, due, mustStop>>

CancelCalls(c) ==
  /\ caller[c].at # "idle"
  /\ LET held == IF caller[c].at = "late" THEN slot[caller[c].kind] ELSE caller[c].holds
     IN  CancelAll({held} \ {None})
  /\ due' = due \union {t \in caller[c].aims : task[t] = "run"}
  /\ caller' = [caller EXCEPT ![c] = NoCall]
  /\ UNCHANGED <<task, kind, slot, imaging, scanning, jobs, cancels, lone, meant>>

\* The application's own disk scan.
DiskScan ==
  /\ scanning' = ~scanning
  /\ UNCHANGED <<task, kind, slot, imaging, ctxDone, jobs, calls, lone, meant, mustStop>>
----------------------------------------------------------------------------
\* ScanMultiple: the disks are started in their order, MaxParallel at a time.
Busy(t) == {d \in Job : job[t][d] \notin Over}
Turn(t, d) ==
  /\ task[t] = "run" /\ kind[t] = Parallel
  /\ job[t][d] = "new" /\ \A e \in 1..(d - 1) : job[t][e] # "new"
  /\ Cardinality(Busy(t)) < MaxParallel
Step(t, d, at) == job' = [job EXCEPT ![t][d] = at]
Watcher(t, d, at) == watch' = [watch EXCEPT ![t][d] = at]
outside == <<task, kind, slot, imaging, ctxDone, scanning, calls, lone, meant, mustStop>>

(* Mutant: the watcher is started when the scan has returned. *)
JobStartsUnwatched(t, d) ==
  /\ Turn(t, d) /\ Step(t, d, "begun")
  /\ UNCHANGED <<watch, outside>>
JobStarts(t, d) ==
  /\ Turn(t, d) /\ Step(t, d, "begun") /\ Watcher(t, d, "watching")
  /\ UNCHANGED outside

\* Engine.Scan opens the disk and registers, or returns with an error.
JobRegisters(t, d) ==
  /\ job[t][d] = "begun" /\ Step(t, d, "scanning")
  /\ UNCHANGED <<watch, outside>>

\* Engine.Scan has returned: the result is stored, watcherDone ends the watcher.
JobReturns(t, d) == Step(t, d, "done") /\ Watcher(t, d, "none") /\ UNCHANGED outside
JobFails(t, d) == job[t][d] = "begun" /\ JobReturns(t, d)
JobReachesEnd(t, d) == job[t][d] = "scanning" /\ JobReturns(t, d)
JobStopped(t, d) ==
  /\ job[t][d] = "scanning" /\ watch[t][d] = "stopped" /\ JobReturns(t, d)

\* The watcher calls Engine.Stop, which cancels the scan that is registered; before
\* that Stop looks for 50 ms and gives up.
WatcherStops(t, d) ==
  /\ watch[t][d] = "watching" /\ t \in ctxDone /\ job[t][d] = "scanning"
  /\ Watcher(t, d, "stopped")
  /\ UNCHANGED <<job, outside>>
WatcherGivesUp(t, d) ==
  /\ watch[t][d] = "watching" /\ t \in ctxDone /\ job[t][d] = "begun"
  /\ Watcher(t, d, "none")
  /\ UNCHANGED <<job, outside>>

\* wg.Wait returns.
AllDone(t) ==
  /\ task[t] = "run" /\ kind[t] = Parallel
  /\ \A d \in Job : job[t][d] = "done"
  /\ Finish(t)
  /\ UNCHANGED <<kind, slot, imaging, ctxDone, scanning, jobs, caller, cancels, mustStop>>

----------------------------------------------------------------------------
TaskNext ==
  \/ \E t \in Task, k \in Kind :
        CallRefusing(t, k) \/ CallReplacing(t, k) \/ CallUnlessScanning(t, k)
  \/ \E t \in Task :
        \/ Arm(t) \/ WorkEnds(t) \/ Chain(t) \/ Unwind(t) \/ Clear(t) \/ AllDone(t)
        \/ \E d \in Job :
             \/ JobStarts(t, d) \/ JobRegisters(t, d) \/ JobFails(t, d)
             \/ JobReachesEnd(t, d) \/ JobStopped(t, d)
             \/ WatcherStops(t, d) \/ WatcherGivesUp(t, d)
  \/ \E k \in Kind : CancelHeld(k) \/ \E c \in Caller : CancelReads(c, k)
  \/ \E c \in Caller : CancelCalls(c)
  \/ DiskScan

TaskSpec == TaskInit /\ [][TaskNext]_taskVars

\* A watcher is scheduled and a stopped scan sees its context.  That a scan which
\* nobody stops comes to an end is not assumed: a disk takes hours.
TaskFairness == \A t \in Task, d \in Job :
  /\ WF_taskVars(WatcherStops(t, d) \/ WatcherGivesUp(t, d))
  /\ WF_taskVars(JobStopped(t, d))
TaskFairSpec == TaskSpec /\ TaskFairness

----------------------------------------------------------------------------
TaskTypeOK ==
  /\ task \in [Task -> {"new", "arm", "run", "end", "clear", "done"}]
  /\ kind \in [Task -> Kind \union {None}]
  /\ slot \in [Kind -> Task \union {None}]
  /\ imaging \in BOOLEAN /\ scanning \in BOOLEAN
  /\ ctxDone \subseteq Task /\ lone \subseteq Task
  /\ due \subseteq Task /\ meant \subseteq Task
  /\ job \in [Task -> [Job -> {"new", "begun", "scanning", "done"}]]
  /\ watch \in [Task -> [Job -> {"none", "watching", "stopped"}]]
  /\ caller \in [Caller -> [at : {"idle", "call", "late"}, kind : Kind \union {None},
                           holds : Task \union {None}, aims : SUBSET Task]]
  /\ cancels \in 0..MaxCancels
  /\ mustStop \subseteq Task \X Job

(* A user who presses Cancel while the only task of its kind is at work has    *)
(* cancelled it when the call returns: no field that an earlier task left      *)
(* filled or cleared too late, and no other Cancel, makes the call miss it.    *)
(* With two tasks of a kind under way this does not hold (see the README).     *)
LoneTaskIsCancelled ==
  (\A c \in Caller : caller[c] = NoCall) =>
    \A t \in due : t \in ctxDone \/ task[t] # "run"

(* A task at work is cancelled only by a Cancel of its kind that was pressed   *)
(* after the task was called, or by a call that replaces it: a function that   *)
(* was read before never reaches a later task.                                 *)
CancelledWasMeant == \A t \in ctxDone : task[t] = "run" => t \in meant

(* A disk that a multi-disk scan is reading when the scan is cancelled is let  *)
(* go: the watcher of each disk runs beside its scan and stops it.             *)
ScanningJobsStop ==
  \A t \in Task, d \in Job :
    <<t, d>> \in mustStop ~> job[t][d] # "scanning"
=============================================================================
