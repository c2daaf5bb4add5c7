----------------------------- MODULE ScanEngine -----------------------------
(***************************************************************************)
(* The scan life cycle of recovery.Engine (internal/recovery/engine.go):   *)
(* calls of ScanWithOptions compete for the engine's single scan slot,     *)
(* walk through the file-system stages, the carver and the validation, and *)
(* leave; calls of Stop cancel the scan they find in the slot and wait for *)
(* it.  Each element of Scans is one call of ScanWithOptions with its own  *)
(* context, device reader and done channel; each element of Stoppers is a  *)
(* goroutine that may call Stop again and again.                           *)
(* A section under Engine.mu is one step, and so is each statement outside *)
(* it that another goroutine can observe.                                  *)
(***************************************************************************)
EXTENDS Integers

CONSTANTS
  Scans,     \* calls of ScanWithOptions
  Stoppers,  \* goroutines that call Stop
  FsStages,  \* file-system stages of a full scan
  DiskSize,  \* size of the device, in carver chunks
  ResumeOffsets,  \* offsets a saved session may ask to resume from
  None

ASSUME FsStagesAssumption == FsStages \in Nat \ {0}
ASSUME DiskSizeAssumption == DiskSize \in Nat \ {0}
ASSUME ResumeAssumption == ResumeOffsets \subseteq Nat
ASSUME NoneAssumption == None \notin Scans

VARIABLES
  (* fields of the Engine, guarded by Engine.mu *)
  scanning, scanCancel, scanDone, reader, results,
  resilientReader, carverEng, carverStartOffset, nextResumeCarverOffset,
  (* locals of each call of ScanWithOptions *)
  pc, mode, stage, outcome,
  (* the carver of each scan: its start, bytesScanned, a ReadAt in flight *)
  start, bytesScanned, reading,
  (* the context and the device handle of each scan *)
  ctxDone, handleClosed,
  (* locals of each call of Stop *)
  spc, sCancel, sReader, sDone,
  (* history: scans whose pass over the disk a cancellation cut short *)
  cut

slotVars   == <<scanning, scanCancel, scanDone, reader, results>>
carverVars == <<carverEng, carverStartOffset, start, bytesScanned, reading>>
localVars  == <<pc, mode, stage, outcome, cut>>
ctxVars    == <<ctxDone, handleClosed>>
stopVars   == <<spc, sCancel, sReader, sDone>>
resumeVars == <<resilientReader, nextResumeCarverOffset>>
vars == <<slotVars, carverVars, localVars, ctxVars, stopVars, resumeVars>>

Modes    == {"quick", "deep", "full", "unknown"}
Outcomes == {"none", "ok", "error"}

(* The scan owns the slot: between its two sections under Engine.mu. *)
Registered == {"fs", "pop", "size", "carve", "verify", "leave"}
Phases == {"idle", "opening", "wrapped", "closing", "over", "refused"} \cup Registered
StopPhases == {"idle", "poll", "cancel", "close", "wait"}

TypeOK ==
  /\ scanning \in BOOLEAN
  /\ scanCancel \in Scans \cup {None}
  /\ scanDone \in Scans \cup {None}
  /\ reader \in Scans \cup {None}
  /\ results \in SUBSET Scans
  /\ resilientReader \in Scans \cup {None}
  /\ carverEng \in Scans \cup {None}
  /\ carverStartOffset \in Nat
  /\ nextResumeCarverOffset \in Nat
  /\ pc \in [Scans -> Phases]
  /\ mode \in [Scans -> Modes]
  /\ stage \in [Scans -> Nat]
  /\ outcome \in [Scans -> Outcomes]
  /\ start \in [Scans -> Nat]
  /\ bytesScanned \in [Scans -> Nat]
  /\ reading \subseteq Scans
  /\ ctxDone \subseteq Scans
  /\ handleClosed \subseteq Scans
  /\ spc \in [Stoppers -> StopPhases]
  /\ sCancel \in [Stoppers -> Scans \cup {None}]
  /\ sReader \in [Stoppers -> Scans \cup {None}]
  /\ sDone \in [Stoppers -> Scans \cup {None}]
  /\ cut \subseteq Scans

Init ==
  /\ scanning = FALSE /\ scanCancel = None /\ scanDone = None
  /\ reader = None /\ results = {}
  /\ resilientReader = None /\ carverEng = None
  /\ carverStartOffset = 0 /\ nextResumeCarverOffset = 0
  /\ pc = [s \in Scans |-> "idle"]
  /\ mode = [s \in Scans |-> "full"]
  /\ stage = [s \in Scans |-> 0]
  /\ outcome = [s \in Scans |-> "none"]
  /\ start = [s \in Scans |-> 0]
  /\ bytesScanned = [s \in Scans |-> 0]
  /\ reading = {} /\ ctxDone = {} /\ handleClosed = {} /\ cut = {}
  /\ spc = [t \in Stoppers |-> "idle"]
  /\ sCancel = [t \in Stoppers |-> None]
  /\ sReader = [t \in Stoppers |-> None]
  /\ sDone = [t \in Stoppers |-> None]

Goto(s, p) == pc' = [pc EXCEPT ![s] = p]

(* Leave the mode switch with an error: only the deferred calls remain. *)
Fail(s) ==
  /\ Goto(s, "leave")
  /\ outcome' = [outcome EXCEPT ![s] = "error"]

-----------------------------------------------------------------------------
(* ScanWithOptions and the registration of a scan *)

(* "", "auto" and "default" are other names of the full scan. *)
Launch(s, m) ==
  /\ pc[s] = "idle"
  /\ Goto(s, "opening")
  /\ mode' = [mode EXCEPT ![s] = m]
  /\ UNCHANGED <<stage, outcome, cut, slotVars, carverVars, ctxVars, stopVars, resumeVars>>

OpenFail(s) ==
  /\ pc[s] = "opening"
  /\ Goto(s, "refused")
  /\ outcome' = [outcome EXCEPT ![s] = "error"]
  /\ UNCHANGED <<mode, stage, cut, slotVars, carverVars, ctxVars, stopVars, resumeVars>>

(* The reader chain becomes the one BadSectors reports on before the scan  *)
(* knows whether it will get the slot.                                     *)
Wrap(s) ==
  /\ pc[s] = "opening"
  /\ Goto(s, "wrapped")
  /\ resilientReader' = s
  /\ UNCHANGED <<mode, stage, outcome, cut, slotVars, carverVars, ctxVars, stopVars,
                 nextResumeCarverOffset>>

Refuse(s) ==
  /\ pc[s] = "wrapped"
  /\ scanning
  /\ Goto(s, "refused")
  /\ outcome' = [outcome EXCEPT ![s] = "error"]
  /\ ctxDone' = ctxDone \cup {s}
  /\ UNCHANGED <<mode, stage, cut, slotVars, carverVars, handleClosed, stopVars, resumeVars>>

FirstPhase(m) == CASE m = "deep" -> "pop"
                   [] m = "unknown" -> "leave"
                   [] OTHER -> "fs"

(* The fields one section under Engine.mu publishes together.              *)
TakeSlot(s) ==
  /\ scanning' = TRUE
  /\ scanDone' = s
  /\ scanCancel' = s
  /\ reader' = s
  /\ Goto(s, FirstPhase(mode[s]))
  /\ outcome' = [outcome EXCEPT ![s] = IF mode[s] = "unknown" THEN "error" ELSE @]
  /\ UNCHANGED <<mode, stage, cut, carverVars, ctxVars, stopVars, resumeVars>>

(* Mutants: the slot is taken without looking; the old results stay.        *)
RegisterUnchecked(s) == pc[s] = "wrapped" /\ TakeSlot(s) /\ results' = {}
RegisterKeepsResults(s) ==
  pc[s] = "wrapped" /\ ~scanning /\ TakeSlot(s) /\ UNCHANGED results

Register(s) ==
  /\ pc[s] = "wrapped"
  /\ ~scanning
  /\ TakeSlot(s)
  /\ results' = {}

-----------------------------------------------------------------------------
(* The body of a scan *)

(* safeFound: a stage reports a file and the engine keeps it. *)
Find(s) ==
  /\ pc[s] \in {"fs", "carve"}
  /\ results' = results \cup {s}
  /\ UNCHANGED <<scanning, scanCancel, scanDone, reader, carverVars, localVars, ctxVars,
                 stopVars, resumeVars>>

(* A file-system stage of a full scan ends, well or not, and the context is *)
(* looked at before the next one.                                           *)
FullStageEnd(s) ==
  /\ pc[s] = "fs" /\ mode[s] = "full"
  /\ IF s \in ctxDone
     THEN Fail(s) /\ UNCHANGED stage
     ELSE /\ stage' = [stage EXCEPT ![s] = @ + 1]
          /\ Goto(s, IF stage[s] + 1 = FsStages THEN "pop" ELSE "fs")
          /\ UNCHANGED outcome
  /\ cut' = cut \cup ({s} \cap ctxDone)
  /\ UNCHANGED <<mode, slotVars, carverVars, ctxVars, stopVars, resumeVars>>

(* The NTFS stage of a quick scan returns an error only when no partition   *)
(* could be read; workers that saw the context cancelled return no error.   *)
QuickStageEnd(s) ==
  /\ pc[s] = "fs" /\ mode[s] = "quick"
  /\ \/ Fail(s)
     \/ Goto(s, "verify") /\ UNCHANGED outcome
  /\ \E c \in SUBSET ({s} \cap ctxDone) : cut' = cut \cup c
  /\ UNCHANGED <<mode, stage, slotVars, carverVars, ctxVars, stopVars, resumeVars>>

PopResumeCarverOffset(s) ==
  /\ pc[s] = "pop"
  /\ Goto(s, "size")
  /\ start' = [start EXCEPT ![s] = nextResumeCarverOffset]
  /\ nextResumeCarverOffset' = 0
  /\ UNCHANGED <<mode, stage, outcome, cut, slotVars, carverEng, carverStartOffset,
                 bytesScanned, reading, ctxVars, stopVars, resilientReader>>

(* Mutant: the context is not looked at after the carver stage.            *)
CarverReturnsAnyway(s, err) ==
  IF err /\ mode[s] = "deep" THEN Fail(s) ELSE Goto(s, "verify") /\ UNCHANGED outcome

(* After the carver stage: a deep scan fails on any error of the carver, a *)
(* full scan only when it was cancelled.                                   *)
CarverReturns(s, err) ==
  IF s \in ctxDone \/ (err /\ mode[s] = "deep")
  THEN Fail(s)
  ELSE Goto(s, "verify") /\ UNCHANGED outcome

SizeFail(s) ==
  /\ pc[s] = "size"
  /\ CarverReturns(s, TRUE)
  /\ UNCHANGED <<mode, stage, cut, slotVars, carverVars, ctxVars, stopVars, resumeVars>>

ResumePoint(off) == IF off >= DiskSize THEN 0 ELSE off

CarverStart(s) ==
  /\ pc[s] = "size"
  /\ Goto(s, "carve")
  /\ start' = [start EXCEPT ![s] = ResumePoint(@)]
  /\ carverEng' = s
  /\ carverStartOffset' = ResumePoint(start[s])
  /\ UNCHANGED <<mode, stage, outcome, cut, slotVars, bytesScanned, reading, ctxVars,
                 stopVars, resumeVars>>

Remaining(s) == DiskSize - (start[s] + bytesScanned[s])

(* The IO goroutine of the carver looks at the context and calls ReadAt. *)
ReadChunk(s) ==
  /\ pc[s] = "carve" /\ s \notin ctxDone /\ s \notin reading
  /\ Remaining(s) > 0
  /\ reading' = reading \cup {s}
  /\ UNCHANGED <<carverEng, carverStartOffset, start, bytesScanned, slotVars, localVars,
                 ctxVars, stopVars, resumeVars>>

(* ReadAt returns.  The chunk is counted whether it could be read or not,   *)
(* unless the goroutine gives up handing it over because of the context.    *)
ChunkDone(s) ==
  /\ s \in reading
  /\ reading' = reading \ {s}
  /\ \/ bytesScanned' = [bytesScanned EXCEPT ![s] = @ + 1]
     \/ s \in ctxDone /\ UNCHANGED bytesScanned
  /\ UNCHANGED <<carverEng, carverStartOffset, start, slotVars, localVars, ctxVars,
                 stopVars, resumeVars>>

(* Mutant: a cancelled IO goroutine leaves chunkCh open, the collector waits. *)
CarverEndWhenRead(s) ==
  /\ pc[s] = "carve" /\ s \notin reading /\ Remaining(s) = 0
  /\ CarverReturns(s, s \in ctxDone)
  /\ UNCHANGED <<mode, stage, cut, slotVars, carverVars, ctxVars, stopVars, resumeVars>>

(* carver.Scan waits for the collector, which ends when the IO goroutine and *)
(* the workers have, or as soon as it sees the context cancelled.            *)
CarverEnd(s) ==
  /\ pc[s] = "carve"
  /\ s \in ctxDone \/ (s \notin reading /\ Remaining(s) = 0)
  /\ CarverReturns(s, s \in ctxDone)
  /\ cut' = IF Remaining(s) > 0 THEN cut \cup {s} ELSE cut
  /\ UNCHANGED <<mode, stage, slotVars, carverVars, ctxVars, stopVars, resumeVars>>

(* validateAll does not look at the context: what was found is the result. *)
Validate(s) ==
  /\ pc[s] = "verify"
  /\ Goto(s, "leave")
  /\ outcome' = [outcome EXCEPT ![s] = "ok"]
  /\ UNCHANGED <<mode, stage, cut, slotVars, carverVars, ctxVars, stopVars, resumeVars>>

(* The deferred calls: cancel(), the section that frees the slot, and then, *)
(* outside the lock, close(scanDone).                                       *)
Unregister(s) ==
  /\ pc[s] = "leave"
  /\ Goto(s, "closing")
  /\ ctxDone' = ctxDone \cup {s}
  /\ scanning' = FALSE
  /\ scanCancel' = None
  /\ UNCHANGED <<mode, stage, outcome, cut, scanDone, reader, results, carverVars,
                 handleClosed, stopVars, resumeVars>>

CloseDone(s) ==
  /\ pc[s] = "closing"
  /\ Goto(s, "over")
  /\ UNCHANGED <<mode, stage, outcome, cut, slotVars, carverVars, ctxVars, stopVars,
                 resumeVars>>

-----------------------------------------------------------------------------
(* SetResumeCarverOffset, CurrentCarverOffset *)

SetResumeCarverOffset(off) ==
  /\ nextResumeCarverOffset' = off
  /\ UNCHANGED <<slotVars, carverVars, localVars, ctxVars, stopVars, resilientReader>>

CurrentCarverOffset ==
  IF carverEng = None THEN 0 ELSE carverStartOffset + bytesScanned[carverEng]

-----------------------------------------------------------------------------
(* Stop *)

(* snapshotScanState: the three fields in one section under Engine.mu. *)
Snapshot(t) ==
  /\ sCancel' = [sCancel EXCEPT ![t] = scanCancel]
  /\ sReader' = [sReader EXCEPT ![t] = reader]
  /\ sDone' = [sDone EXCEPT ![t] = scanDone]
  /\ spc' = [spc EXCEPT ![t] = IF scanDone = None THEN "poll" ELSE "cancel"]

StopCall(t) ==
  /\ spc[t] = "idle"
  /\ Snapshot(t)
  /\ UNCHANGED <<slotVars, carverVars, localVars, ctxVars, resumeVars>>

(* Mutant: the poll loop reads the done channel again and nothing else.     *)
StopPollDoneOnly(t) ==
  /\ spc[t] = "poll" /\ scanDone # None
  /\ sDone' = [sDone EXCEPT ![t] = scanDone]
  /\ spc' = [spc EXCEPT ![t] = "cancel"]
  /\ UNCHANGED <<sCancel, sReader, slotVars, carverVars, localVars, ctxVars, resumeVars>>

(* No scan was ever registered: look again for 50 ms. *)
StopPoll(t) ==
  /\ spc[t] = "poll" /\ scanDone # None
  /\ Snapshot(t)
  /\ UNCHANGED <<slotVars, carverVars, localVars, ctxVars, resumeVars>>

(* Mutant: the poll loop has no deadline.                                   *)
StopKeepsPolling(t) == spc[t] = "poll" /\ UNCHANGED vars

StopGiveUp(t) ==
  /\ spc[t] = "poll"
  /\ spc' = [spc EXCEPT ![t] = "idle"]
  /\ UNCHANGED <<sCancel, sReader, sDone, slotVars, carverVars, localVars, ctxVars, resumeVars>>

StopCancel(t) ==
  /\ spc[t] = "cancel"
  /\ spc' = [spc EXCEPT ![t] = "close"]
  /\ ctxDone' = ctxDone \cup ({sCancel[t]} \ {None})
  /\ UNCHANGED <<sCancel, sReader, sDone, handleClosed, slotVars, carverVars, localVars,
                 resumeVars>>

StopCloseHandle(t) ==
  /\ spc[t] = "close"
  /\ spc' = [spc EXCEPT ![t] = "wait"]
  /\ handleClosed' = handleClosed \cup ({sReader[t]} \ {None})
  /\ UNCHANGED <<sCancel, sReader, sDone, ctxDone, slotVars, carverVars, localVars,
                 resumeVars>>

(* Mutant: Stop gives up waiting after a while (v2.8.20).                   *)
StopReturnOnTimeout(t) ==
  /\ spc[t] = "wait"
  /\ spc' = [spc EXCEPT ![t] = "idle"]
  /\ sCancel' = [sCancel EXCEPT ![t] = None]
  /\ sReader' = [sReader EXCEPT ![t] = None]
  /\ sDone' = [sDone EXCEPT ![t] = None]
  /\ UNCHANGED <<slotVars, carverVars, localVars, ctxVars, resumeVars>>

(* <-done: the channel this call found has been closed. *)
StopReturn(t) ==
  /\ spc[t] = "wait"
  /\ sDone[t] # None
  /\ pc[sDone[t]] = "over"
  /\ spc' = [spc EXCEPT ![t] = "idle"]
  /\ sCancel' = [sCancel EXCEPT ![t] = None]
  /\ sReader' = [sReader EXCEPT ![t] = None]
  /\ sDone' = [sDone EXCEPT ![t] = None]
  /\ UNCHANGED <<slotVars, carverVars, localVars, ctxVars, resumeVars>>

-----------------------------------------------------------------------------
(* The steps a scan takes on its own once it has been called. *)
ScanStep(s) ==
  \/ OpenFail(s) \/ Wrap(s) \/ Refuse(s) \/ Register(s)
  \/ FullStageEnd(s) \/ QuickStageEnd(s)
  \/ PopResumeCarverOffset(s) \/ SizeFail(s) \/ CarverStart(s) \/ CarverEnd(s)
  \/ Validate(s) \/ Unregister(s) \/ CloseDone(s)

IoStep(s) == ReadChunk(s) \/ ChunkDone(s)

StopStep(t) ==
  \/ StopPoll(t) \/ StopGiveUp(t)
  \/ StopCancel(t) \/ StopCloseHandle(t) \/ StopReturn(t)

Next ==
  \/ \E s \in Scans : ScanStep(s) \/ IoStep(s) \/ Find(s)
  \/ \E s \in Scans, m \in Modes : Launch(s, m)
  \/ \E t \in Stoppers : StopStep(t) \/ StopCall(t)
  \/ \E off \in ResumeOffsets : SetResumeCarverOffset(off)

Spec == Init /\ [][Next]_vars

(* The Go scheduler runs every goroutine that can run, ReadAt returns (the *)
(* TimeoutReader bounds it) and a file-system stage ends; nobody has to    *)
(* call ScanWithOptions or Stop.                                           *)
Fairness ==
  /\ \A s \in Scans : WF_vars(ScanStep(s)) /\ WF_vars(IoStep(s))
  /\ \A t \in Stoppers : WF_vars(StopStep(t))

FairSpec == Spec /\ Fairness

-----------------------------------------------------------------------------
(* The inductive invariant behind the safety properties below. *)

Begun == Registered \cup {"closing", "over"}
Committed == {"cancel", "close", "wait"}

(* The slot, the done channels and what a committed Stop holds of them: it  *)
(* has the done channel and the reader of one scan that began, and that     *)
(* scan's cancel function unless the scan has freed the slot, in which case *)
(* its context is cancelled already.                                        *)
SlotInv ==
  /\ reader = scanDone
  /\ scanCancel = IF scanning THEN scanDone ELSE None
  /\ scanning => scanDone # None
  /\ scanDone # None => pc[scanDone] \in Begun
  /\ results \subseteq {reader}
  /\ \A s \in Scans : pc[s] \in Registered <=> scanning /\ s = scanDone
  /\ \A s \in Scans : pc[s] \in {"closing", "over"} => s \in ctxDone
  /\ \A s \in handleClosed : pc[s] \in Begun /\ s \in ctxDone
  /\ \A t \in Stoppers : spc[t] \in Committed =>
       /\ sDone[t] \in Scans /\ sReader[t] = sDone[t]
       /\ pc[sDone[t]] \in Begun
       /\ IF spc[t] = "cancel"
          THEN pc[sDone[t]] \in Registered => sCancel[t] = sDone[t]
          ELSE sDone[t] \in ctxDone

(* Chunks are counted only for a scan whose carver started, from a point on *)
(* the device, and a ReadAt in flight is one of the chunks that remain.     *)
CarverInv ==
  \A s \in Scans :
    LET counted == s \in reading \/ bytesScanned[s] > 0 \/ carverEng = s IN
    /\ counted => pc[s] \in {"carve", "verify", "leave", "closing", "over"}
    /\ counted \/ pc[s] = "carve" => start[s] + bytesScanned[s] <= DiskSize
    /\ s \in reading => start[s] + bytesScanned[s] < DiskSize
    /\ carverEng = s => start[s] = carverStartOffset

(* A scan that was cut short is past its last check of the context, and     *)
(* unless it is a quick scan it is on its way out with an error.            *)
CutInv ==
  \A s \in cut :
    /\ pc[s] \in {"verify", "leave", "closing", "over"}
    /\ mode[s] # "quick" => pc[s] # "verify" /\ outcome[s] = "error"

-----------------------------------------------------------------------------
(* Correctness *)

(* At most one scan is between its two sections under Engine.mu, the flag   *)
(* says so, and then the three fields Stop reads together (scanCancel,      *)
(* reader, scanDone) all belong to that scan.                               *)
SlotConsistent ==
  /\ scanning <=> \E s \in Scans : pc[s] \in Registered
  /\ scanning => /\ scanDone \in Scans
                 /\ scanCancel = scanDone /\ reader = scanDone
  /\ \A s \in Scans : pc[s] \in Registered => scanDone = s

(* A call of Stop never waits for a running scan that nobody has told to    *)
(* stop (the "click on stop did nothing" of v2.8.24).                       *)
WaitedScanIsCancelled ==
  \A t \in Stoppers : \A s \in Scans :
    spc[t] = "wait" /\ sDone[t] = s /\ pc[s] \in Registered => s \in ctxDone

(* The device handle is never pulled from under a scan whose context is     *)
(* still alive: the scan would take the failing reads for bad sectors and   *)
(* report the rest of the disk as scanned.                                  *)
HandleClosedOnlyAfterCancel ==
  \A s \in Scans : pc[s] \in Registered /\ s \in handleClosed => s \in ctxDone

(* The files Results and Recover hand out were found by the scan whose      *)
(* reader the engine holds, so their offsets are offsets of that device.    *)
ResultsOfCurrentReader == results \subseteq {reader}

(* A full or deep scan that returns a result has seen the whole range: the  *)
(* checks of the context leave no way for a cancelled one to report success.*)
SuccessIsWhole ==
  \A s \in Scans : outcome[s] = "ok" /\ mode[s] # "quick" => s \notin cut

(* The offset persistLoop saves as the place to resume from lies on the     *)
(* device, also when a scan started from a larger device's offset and a     *)
(* chunk was counted after the scan was cancelled.                          *)
CarverOffsetOnDevice == CurrentCarverOffset <= DiskSize

(* A call of ScanWithOptions that is refused leaves the results of the      *)
(* running scan alone.                                                      *)
RunningScanKeepsResults ==
  [][\A s \in results : pc[s] \in Registered => s \in results']_vars

(* The promise of the slot, with the details of scanning hidden.            *)
SlotStatus(p) ==
  CASE p \in Registered -> "running"
    [] p = "closing" -> "leaving"
    [] p \in {"over", "refused"} -> p
    [] OTHER -> "new"

Slot == INSTANCE ScanSlot WITH
  owner <- IF scanning THEN scanDone ELSE None,
  latest <- scanDone,
  status <- [s \in Scans |-> SlotStatus(pc[s])],
  awaited <- [t \in Stoppers |-> IF spc[t] \in {"cancel", "close", "wait"}
                                 THEN sDone[t] ELSE None]

(* ScanEngine implements ScanSlot: a Stop that found a scan returns only    *)
(* when that very scan is over.                                             *)
ImplementsSlot == Slot!Spec

(* Every call of Stop returns: it never waits for a scan that nobody ends.  *)
StopReturns == \A t \in Stoppers : spc[t] # "idle" ~> spc[t] = "idle"

(* Every scan that got the slot ends and frees it.                          *)
ScanEnds == \A s \in Scans : pc[s] \in Registered ~> pc[s] = "over"

(* What the comment on <-done in Stop claims: once the channel of a scan is *)
(* closed no goroutine of that scan is inside reader.ReadAt.                *)
NoReadAfterDone == \A s \in Scans : pc[s] = "over" => s \notin reading
=============================================================================
