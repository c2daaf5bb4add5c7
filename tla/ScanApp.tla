------------------------------- MODULE ScanApp ------------------------------
(***************************************************************************)
(* The application's side of a scan (cmd/data-recovery/app.go): StartScan  *)
(* with its automatic stop, ResumeLastScan, StopScan, DiscardSession, the  *)
(* goroutine that runs the scan and reports its end, persistLoop, which    *)
(* saves the session every five seconds, and the shutdown hook.            *)
(* They meet in the engine's scan slot, of which only the promise ScanSlot *)
(* is used, in fields guarded by App.mu and scanSnapshotMu one at a time,  *)
(* and in the saved session.  A behaviour is one run of the process; the   *)
(* initial states are the sessions an earlier run may have left.           *)
(* Scans are full scans, the only ones the front end asks for.             *)
(***************************************************************************)
EXTENDS Naturals

CONSTANTS
  Scans,   \* calls of StartScan, each with the goroutines it starts
  Drives,
  User,    \* the front end's call of StopScan
  Exit,    \* the shutdown hook
  Hasty,   \* may a scan be started while the one before is still ending?
  OldSessions,  \* what an earlier run of the process may have left
  MaxTicks,  \* bound: ticks of all persistLoops together
  None

ASSUME HastyAssumption == Hasty \in BOOLEAN
ASSUME TicksAssumption == MaxTicks \in Nat
ASSUME ActorsAssumption == User # Exit /\ {User, Exit} \cap Scans = {}
ASSUME NoneAssumption == None \notin Scans \cup Drives

VARIABLES
  (* the engine: its slot, and what a resumed scan and a snapshot need of it *)
  owner, latest, status, awaited,
  nextResumeCarverOffset, carverEng, moved,
  (* fields of App, and the session file *)
  currentDrive, scanActive, snap,
  (* per scan: StartScan, its goroutine, its persistLoop *)
  call, drive, want, task, outcome, from, loop,
  (* per caller of saveMetadataSnapshot: its step and what it has read *)
  saving, note,
  exit,
  (* history *)
  late, asked, atExit,
  ticks  \* so far, for MaxTicks

slotVars   == <<owner, latest, status, awaited>>
engineVars == <<nextResumeCarverOffset, carverEng, moved>>
appVars    == <<currentDrive, scanActive>>
callVars   == <<call, drive, want>>
taskVars   == <<task, outcome, from>>
saveVars   == <<saving, note, snap>>
sessionVars == <<saveVars, exit>>
loopVars   == <<loop, ticks>>
goVars     == <<taskVars, loopVars>>
histVars   == <<late, asked, atExit>>
restVars   == <<callVars, loopVars, sessionVars, histVars>>
vars == <<slotVars, engineVars, appVars, callVars, goVars, sessionVars, histVars>>

Slot == INSTANCE ScanSlot WITH Stoppers <- Scans \cup {User, Exit}

(* Who saves metadata, and with which value of completed. *)
Savers == (Scans \X BOOLEAN) \cup {<<Exit, FALSE>>}
Tick(s)  == <<s, FALSE>>
Final(s) == <<s, TRUE>>
Last     == <<Exit, FALSE>>

(* An offset on a disk is known by the drive it was reached on; None is 0. *)
Offsets == Drives \cup {None}
Sessions == [drive : Drives \cup {None}, offset : Offsets, completed : BOOLEAN,
             by : Scans \cup {None}]
Notes == [drive : Drives \cup {None}, offset : Offsets]

ASSUME OldSessionsAssumption ==
  /\ None \notin Sessions /\ OldSessions \subseteq Sessions \cup {None}
  /\ \A old \in OldSessions \ {None} : old.by = None

Calls == {"none", "load", "check", "stop", "stopping", "poll", "recheck",
          "record", "activate", "wait", "returned", "failed"}
Tasks == {"none", "open", "fs", "popped", "carve", "leaving", "ended",
          "save", "report", "done"}

TypeOK ==
  /\ Slot!TypeOK
  /\ nextResumeCarverOffset \in Offsets
  /\ carverEng \in Scans \cup {None} /\ moved \subseteq Scans
  /\ currentDrive \in Drives \cup {None} /\ scanActive \in BOOLEAN
  /\ snap \in Sessions \cup {None}
  /\ call \in [Scans -> Calls]
  /\ drive \in [Scans -> Drives \cup {None}]
  /\ want \in [Scans -> Offsets]
  /\ task \in [Scans -> Tasks]
  /\ outcome \in [Scans -> {"none", "ok", "error"}]
  /\ from \in [Scans -> Offsets]
  /\ loop \in [Scans -> {"none", "on", "gone"}] /\ ticks \in 0..MaxTicks
  /\ saving \in [Savers -> {"idle", "drive", "offset", "write"}]
  /\ note \in [Savers -> Notes]
  /\ exit \in {"open", "flush", "closed"}
  /\ late \subseteq Scans /\ asked \subseteq Scans
  /\ atExit \in Scans \cup {None}

Blank == [drive |-> None, offset |-> None]

Init ==
  /\ Slot!Init
  /\ nextResumeCarverOffset = None /\ carverEng = None /\ moved = {}
  /\ currentDrive = None /\ scanActive = FALSE
  /\ snap \in OldSessions
  /\ call = [s \in Scans |-> "none"]
  /\ drive = [s \in Scans |-> None]
  /\ want = [s \in Scans |-> None]
  /\ task = [s \in Scans |-> "none"]
  /\ outcome = [s \in Scans |-> "none"]
  /\ from = [s \in Scans |-> None]
  /\ loop = [s \in Scans |-> "none"] /\ ticks = 0
  /\ saving = [g \in Savers |-> "idle"]
  /\ note = [g \in Savers |-> Blank]
  /\ exit = "open"
  /\ late = {} /\ asked = {} /\ atExit = None

Alive == exit # "closed"
Step(s, before, after) == call[s] = before /\ call' = [call EXCEPT ![s] = after]
Go(s, before, after) == task[s] = before /\ task' = [task EXCEPT ![s] = after]

-----------------------------------------------------------------------------
(* StartScan and ResumeLastScan *)

(* Its last event is sent and its persistLoop is gone, or it never began.   *)
Through(s) == call[s] \in {"none", "failed"} \/ (task[s] = "done" /\ loop[s] = "gone")
Calling(s) == call[s] \notin {"none", "failed", "returned"}

(* The front end waits for one call before it makes the next.  A hasty user *)
(* does not wait for the first scan to be through.                          *)
Asked ==
  /\ exit = "open"
  /\ \A r \in Scans : ~Calling(r) /\ (Hasty \/ Through(r))
  /\ UNCHANGED histVars

StartScan(s, d) ==
  /\ Asked
  /\ Step(s, "none", "check")
  /\ drive' = [drive EXCEPT ![s] = d]
  /\ UNCHANGED <<want, slotVars, engineVars, appVars, goVars, sessionVars>>

(* store.Load; without a session, or without a drive in it, the call fails  *)
(* and leaves nothing behind.                                               *)
ResumeLastScan(s) ==
  /\ Asked
  /\ snap # None /\ snap.drive # None
  /\ Step(s, "none", "load")
  /\ drive' = [drive EXCEPT ![s] = snap.drive]
  /\ want' = [want EXCEPT ![s] = snap.offset]
  /\ UNCHANGED <<slotVars, engineVars, appVars, goVars, sessionVars>>

SetResumeCarverOffset(s) ==
  /\ Step(s, "load", "check")
  /\ nextResumeCarverOffset' = IF want[s] = None THEN nextResumeCarverOffset ELSE want[s]
  /\ UNCHANGED <<drive, want, carverEng, moved, slotVars, appVars, goVars, sessionVars,
                 histVars>>

(* IsScanning, here and below, is one section under Engine.mu. *)
IsScanning == owner # None

Check(s) ==
  /\ Step(s, "check", IF IsScanning THEN "stop" ELSE "record")
  /\ UNCHANGED <<drive, want, slotVars, engineVars, appVars, goVars, sessionVars, histVars>>

AutoStop(s) ==
  /\ Step(s, "stop", "stopping")
  /\ Slot!Await(s)
  /\ UNCHANGED <<drive, want, engineVars, appVars, goVars, sessionVars, histVars>>

AutoStopReturns(s) ==
  /\ Step(s, "stopping", "poll")
  /\ Slot!Return(s)
  /\ UNCHANGED <<drive, want, engineVars, appVars, goVars, sessionVars, histVars>>

(* The poll ends when no scan holds the slot, or after five seconds, and    *)
(* then the flag is read once more.                                         *)
Poll(s) ==
  /\ Step(s, "poll", "recheck")
  /\ UNCHANGED <<drive, want, slotVars, engineVars, appVars, goVars, sessionVars, histVars>>

Recheck(s) ==
  /\ Step(s, "recheck", IF IsScanning THEN "failed" ELSE "record")
  /\ UNCHANGED <<drive, want, slotVars, engineVars, appVars, goVars, sessionVars, histVars>>

RecordDrive(s) ==
  /\ Step(s, "record", "activate")
  /\ currentDrive' = drive[s]
  /\ UNCHANGED <<drive, want, scanActive, slotVars, engineVars, goVars, sessionVars, histVars>>

(* The goroutines are started: persistLoop, and the one that scans.         *)
Launch(s) ==
  /\ Step(s, "activate", "wait")
  /\ loop' = [loop EXCEPT ![s] = "on"] /\ UNCHANGED ticks
  /\ Go(s, "none", "open")
  /\ UNCHANGED <<drive, want, currentDrive, slotVars, engineVars, outcome, from, sessionVars,
                 histVars>>

(* Mutant: the scan is started without being marked active.                 *)
LaunchInactive(s) == Launch(s) /\ UNCHANGED scanActive

Activate(s) == Launch(s) /\ scanActive' = TRUE

(* Mutant: StartScan returns without waiting for the registration (v2.8.24). *)
ReturnAtOnce(s) ==
  /\ Step(s, "wait", "returned")
  /\ UNCHANGED <<drive, want, slotVars, engineVars, appVars, goVars, sessionVars, histVars>>

(* <-registered: the flag was seen.  Its scan may be another one.           *)
SeenRegistered(s) ==
  /\ IsScanning
  /\ Step(s, "wait", "returned")
  /\ UNCHANGED <<drive, want, slotVars, engineVars, appVars, goVars, sessionVars, histVars>>

(* <-registered: 500 looks have not seen the flag.                          *)
GivenUp(s) ==
  /\ Step(s, "wait", "returned")
  /\ late' = IF status[s] = "new" THEN late \cup {s} ELSE late
  /\ UNCHANGED <<drive, want, slotVars, engineVars, appVars, goVars, sessionVars,
                 asked, atExit>>

-----------------------------------------------------------------------------
(* The goroutine of a scan: ScanWithOptions, as far as others can see *)

(* Open fails, or the slot is taken. *)
Refused(s) ==
  /\ Go(s, "open", "ended")
  /\ Slot!Refuse(s)
  /\ outcome' = [outcome EXCEPT ![s] = "error"]
  /\ UNCHANGED <<from, engineVars, appVars, restVars>>

Registered(s) ==
  /\ Go(s, "open", "fs")
  /\ Slot!Claim(s)
  /\ UNCHANGED <<outcome, from, engineVars, appVars, restVars>>

PopResumeCarverOffset(s) ==
  /\ Go(s, "fs", "popped")
  /\ from' = [from EXCEPT ![s] = nextResumeCarverOffset]
  /\ nextResumeCarverOffset' = None
  /\ UNCHANGED <<outcome, carverEng, moved, slotVars, appVars, restVars>>

StartCarver(s) ==
  /\ Go(s, "popped", "carve")
  /\ carverEng' = s
  /\ moved' = IF from[s] = None THEN moved ELSE moved \cup {s}
  /\ UNCHANGED <<outcome, from, nextResumeCarverOffset, slotVars, appVars, restVars>>

CountChunk(s) ==
  /\ task[s] = "carve" /\ s \notin moved
  /\ moved' = moved \cup {s}
  /\ UNCHANGED <<nextResumeCarverOffset, carverEng, slotVars, appVars, callVars, goVars, sessionVars,
                 histVars>>

(* Once the scan is in some Stop's hands it may end with "cancelled"; the   *)
(* last look at the context is behind the carver.                           *)
ScanEnds(s) ==
  /\ \/ /\ \E t \in Scans \cup {User, Exit} : awaited[t] = s
        /\ \E p \in {"fs", "popped", "carve"} : Go(s, p, "leaving")
        /\ outcome' = [outcome EXCEPT ![s] = "error"]
     \/ /\ \E p \in {"popped", "carve"} : Go(s, p, "leaving")
        /\ outcome' = [outcome EXCEPT ![s] = "ok"]
  /\ Slot!Release(s)
  /\ UNCHANGED <<from, engineVars, appVars, restVars>>

CloseDone(s) ==
  /\ Go(s, "leaving", "ended")
  /\ Slot!End(s)
  /\ UNCHANGED <<outcome, from, engineVars, appVars, restVars>>

-----------------------------------------------------------------------------
(* The goroutine of a scan, after ScanWithOptions *)

(* Mutant: the last event is sent before the session is saved.              *)
ReportBeforeSaving(s) ==
  /\ Go(s, "ended", "done")
  /\ scanActive' = FALSE
  /\ saving' = [saving EXCEPT ![Final(s)] = IF outcome[s] = "ok" THEN "drive" ELSE @]
  /\ UNCHANGED <<outcome, from, currentDrive, slotVars, engineVars, callVars, loopVars, note, snap,
                 exit, histVars>>

(* stopPersist is closed, and scanActive reset.                             *)
Deactivate(s) ==
  /\ Go(s, "ended", IF outcome[s] = "ok" THEN "save" ELSE "report")
  /\ scanActive' = FALSE
  /\ saving' = [saving EXCEPT ![Final(s)] = IF outcome[s] = "ok" THEN "drive" ELSE @]
  /\ UNCHANGED <<outcome, from, currentDrive, slotVars, engineVars, callVars, loopVars, note, snap,
                 exit, histVars>>

(* scan:completed or scan:error. *)
Report(s) ==
  /\ Go(s, "report", "done")
  /\ UNCHANGED <<outcome, from, slotVars, engineVars, appVars, restVars>>

-----------------------------------------------------------------------------
(* persistLoop *)

(* Five seconds are over.  A select with both cases ready takes either, so  *)
(* a tick may begin when stop is closed already.                            *)
PersistTick(s) ==
  /\ loop[s] = "on" /\ saving[Tick(s)] = "idle"
  /\ ticks < MaxTicks /\ ticks' = ticks + 1
  /\ saving' = [saving EXCEPT ![Tick(s)] = "drive"]
  /\ UNCHANGED <<note, snap, slotVars, engineVars, appVars, callVars, taskVars, loop, exit,
                 histVars>>

PersistStop(s) ==
  /\ loop[s] = "on" /\ saving[Tick(s)] = "idle"
  /\ task[s] \in {"save", "report", "done"}
  /\ loop' = [loop EXCEPT ![s] = "gone"] /\ UNCHANGED ticks
  /\ UNCHANGED <<slotVars, engineVars, appVars, callVars, taskVars, sessionVars, histVars>>

(* saveMetadataSnapshot: each field is read under its own mutex. *)
ReadDrive(g) ==
  /\ saving[g] = "drive"
  /\ saving' = [saving EXCEPT ![g] = "offset"]
  /\ note' = [note EXCEPT ![g] = [drive |-> currentDrive, offset |-> None]]
  /\ UNCHANGED <<snap, slotVars, engineVars, appVars, callVars, goVars, exit, histVars>>

CurrentCarverOffset == IF carverEng \in moved THEN drive[carverEng] ELSE None

ReadOffset(g) ==
  /\ saving[g] = "offset"
  /\ saving' = [saving EXCEPT ![g] = "write"]
  /\ note' = [note EXCEPT ![g] = [drive |-> note[g].drive, offset |-> CurrentCarverOffset]]
  /\ UNCHANGED <<snap, slotVars, engineVars, appVars, callVars, goVars, exit, histVars>>

(* store.Save.  The final one is followed by Compact, which keeps the       *)
(* metadata, and then its goroutine goes on; so does the shutdown hook.     *)
Save(g) ==
  /\ saving[g] = "write"
  /\ snap' = [drive |-> note[g].drive, offset |-> note[g].offset,
              completed |-> g[2], by |-> IF g[2] THEN g[1] ELSE None]
  /\ saving' = [saving EXCEPT ![g] = "idle"]
  /\ note' = [note EXCEPT ![g] = Blank]
  /\ task' = [s \in Scans |-> IF g = Final(s) THEN "report" ELSE task[s]]
  /\ exit' = IF g = Last THEN "closed" ELSE exit
  /\ UNCHANGED <<outcome, from, slotVars, engineVars, appVars, callVars, loopVars, histVars>>

-----------------------------------------------------------------------------
(* The user's other calls, and the end of the process *)

(* A Stop that finds no scan was ever registered returns and changes nothing. *)
StopScan ==
  /\ Slot!Await(User)
  /\ asked' = {s \in Scans : call[s] = "returned"}
  /\ UNCHANGED <<engineVars, appVars, callVars, goVars, sessionVars, late, atExit>>

StopScanReturns ==
  /\ Slot!Return(User)
  /\ asked' = {}
  /\ UNCHANGED <<engineVars, appVars, callVars, goVars, sessionVars, late, atExit>>

DiscardSession ==
  /\ exit = "open" /\ snap # None
  /\ snap' = None
  /\ UNCHANGED <<saving, note, slotVars, engineVars, appVars, callVars, goVars, exit,
                 histVars>>

(* shutdown: flushSessionIfActive looks at scanActive.  What follows, the   *)
(* Stop of engine.Shutdown, adds nothing to a StopScan, and the model ends. *)
Shutdown ==
  /\ exit = "open"
  /\ atExit' = owner
  /\ IF scanActive
     THEN exit' = "flush" /\ saving' = [saving EXCEPT ![Last] = "drive"]
     ELSE exit' = "closed" /\ UNCHANGED saving
  /\ UNCHANGED <<note, snap, slotVars, engineVars, appVars, callVars, goVars, late, asked>>

-----------------------------------------------------------------------------
CallStep(s) ==
  \/ SetResumeCarverOffset(s) \/ Check(s) \/ AutoStop(s) \/ AutoStopReturns(s)
  \/ Poll(s) \/ Recheck(s) \/ RecordDrive(s) \/ Activate(s)
  \/ SeenRegistered(s) \/ GivenUp(s)

TaskStep(s) ==
  \/ Refused(s) \/ Registered(s) \/ PopResumeCarverOffset(s) \/ StartCarver(s)
  \/ CountChunk(s) \/ ScanEnds(s) \/ CloseDone(s)
  \/ Deactivate(s) \/ Report(s)

SaveStep(g) == ReadDrive(g) \/ ReadOffset(g) \/ Save(g)

Next ==
  /\ Alive
  /\ \/ \E s \in Scans : CallStep(s) \/ TaskStep(s) \/ PersistTick(s) \/ PersistStop(s)
     \/ \E g \in Savers : SaveStep(g)
     \/ \E s \in Scans : ResumeLastScan(s) \/ \E d \in Drives : StartScan(s, d)
     \/ StopScan \/ StopScanReturns \/ DiscardSession
     \/ Shutdown

Spec == Init /\ [][Next]_vars

-----------------------------------------------------------------------------
(* The inductive invariant behind StopMeansStopped. *)

(* One scan runs, the one that took the slot last, and one call is under    *)
(* way.  As long as no call gave up waiting, a scan whose call returned has *)
(* been registered, from its last look at the flag on a call finds no other *)
(* scan in the slot, and the user's Stop waits for the one that may run.    *)
StopInv ==
  /\ owner # None => latest = owner
  /\ \A s \in Scans : status[s] = "running" <=> owner = s
  /\ \A r, s \in Scans : Calling(r) /\ Calling(s) => r = s
  /\ \A s \in Scans : task[s] = "open" => call[s] \in {"wait", "returned"}
  /\ \A s \in asked : call[s] = "returned"
  /\ late = {} =>
       /\ \A s \in Scans : call[s] = "returned" => status[s] # "new"
       /\ \A s \in Scans : call[s] \in {"record", "activate", "wait"} => owner \in {None, s}
       /\ \A s \in asked : awaited[User] # None /\ owner = s => awaited[User] = s

-----------------------------------------------------------------------------
(* Correctness *)

(* When StopScan returns, no scan whose StartScan had returned is still to  *)
(* come or running, unless some StartScan returned before its scan was      *)
(* registered.  This is what waiting for registered is for.                 *)
StopMeansStopped ==
  [][awaited[User] # None /\ awaited'[User] = None /\ late = {} =>
       \A s \in asked : status[s] \notin {"new", "running"}]_vars

(* A session marked complete names the drive of the scan that completed, if *)
(* the user starts a scan only when the one before is through (~Hasty):     *)
(* the final save reads currentDrive long after StartScan wrote it.         *)
CompletedIsTrue ==
  snap # None /\ snap.completed /\ snap.by # None =>
    snap.drive = drive[snap.by] /\ outcome[snap.by] = "ok"

(* Under the same condition the scan that holds the slot when the program   *)
(* is closed is the one the saved session names, whatever tick or final     *)
(* save is under way at that time.                                          *)
ShutdownSavesRunning ==
  exit = "closed" /\ atExit # None =>
    snap # None /\ snap.drive = drive[atExit]

(* What CurrentCarverOffset says of the offset: it is that of the scan in   *)
(* progress, and 0 before its carver begins.  So the place to resume from   *)
(* belongs to the drive it is saved with, if scans do not overlap.          *)
SavedOffsetOfDrive ==
  snap # None => snap.offset \in {None, snap.drive}

(* What the scan goroutine's comment says: a completed scan is found        *)
(* completed the next time.  Between scans only the user takes that back.   *)
CompletedStays ==
  [][snap # None /\ snap.completed /\ (\A s \in Scans : task[s] \in {"none", "done"}) =>
       snap' = None \/ snap'.completed]_vars
=============================================================================
