---------------------------- MODULE ScanAppProofs ----------------------------
(***************************************************************************)
(* What the application promises about StopScan, proved for any number of  *)
(* scans and drives, hasty or not, from what the engine's slot promises.   *)
(***************************************************************************)
EXTENDS ScanApp, TLAPS

(* The type invariant is inductive on its own.                             *)
LEMMA TypeInit == Init => TypeOK
<1> SUFFICES ASSUME Init PROVE TypeOK
  OBVIOUS
<1>1. Slot!TypeOK
  BY DEF Init, Slot!Init, Slot!TypeOK, Slot!Statuses
<1>2. snap \in Sessions \cup {None} /\ ticks \in 0..MaxTicks
  BY OldSessionsAssumption, TicksAssumption DEF Init
<1>3. note \in [Savers -> Notes]
  BY DEF Init, Blank, Notes, Offsets
<1> QED
  BY <1>1, <1>2, <1>3 DEF Init, TypeOK, Calls, Tasks, Offsets

LEMMA TypeNext == TypeOK /\ [Next]_vars => TypeOK'
<1> SUFFICES ASSUME TypeOK, [Next]_vars PROVE TypeOK'
  OBVIOUS
<1> USE DEF TypeOK, Slot!TypeOK, Slot!Statuses, Calls, Tasks, slotVars, engineVars,
            appVars, callVars, taskVars, saveVars, sessionVars,
            loopVars, goVars, histVars, restVars
<1>1. ASSUME NEW s \in Scans, SetResumeCarverOffset(s) PROVE TypeOK'
  BY <1>1 DEF SetResumeCarverOffset, Step, Offsets
<1>2. ASSUME NEW s \in Scans, Check(s) PROVE TypeOK'
  BY <1>2 DEF Check, IsScanning, Step
<1>3. ASSUME NEW s \in Scans, AutoStop(s) PROVE TypeOK'
  BY <1>3 DEF AutoStop, Slot!Await, Step
<1>4. ASSUME NEW s \in Scans, AutoStopReturns(s) PROVE TypeOK'
  BY <1>4 DEF AutoStopReturns, Slot!Return, Step
<1>5. ASSUME NEW s \in Scans, Poll(s) PROVE TypeOK'
  BY <1>5 DEF Poll, Step
<1>6. ASSUME NEW s \in Scans, Recheck(s) PROVE TypeOK'
  BY <1>6 DEF Recheck, IsScanning, Step
<1>7. ASSUME NEW s \in Scans, RecordDrive(s) PROVE TypeOK'
  BY <1>7 DEF RecordDrive, Step
<1>8. ASSUME NEW s \in Scans, Activate(s) PROVE TypeOK'
  BY <1>8 DEF Activate, Launch, Step, Go
<1>9. ASSUME NEW s \in Scans, SeenRegistered(s) PROVE TypeOK'
  BY <1>9 DEF SeenRegistered, IsScanning, Step
<1>10. ASSUME NEW s \in Scans, GivenUp(s) PROVE TypeOK'
  BY <1>10 DEF GivenUp, Step
<1>11. ASSUME NEW s \in Scans, Refused(s) PROVE TypeOK'
  BY <1>11 DEF Refused, Slot!Refuse, Go
<1>12. ASSUME NEW s \in Scans, Registered(s) PROVE TypeOK'
  BY <1>12 DEF Registered, Slot!Claim, Go
<1>13. ASSUME NEW s \in Scans, PopResumeCarverOffset(s) PROVE TypeOK'
  BY <1>13 DEF PopResumeCarverOffset, Go, Offsets
<1>14. ASSUME NEW s \in Scans, StartCarver(s) PROVE TypeOK'
  BY <1>14 DEF StartCarver, Go, Offsets
<1>15. ASSUME NEW s \in Scans, CountChunk(s) PROVE TypeOK'
  BY <1>15 DEF CountChunk
<1>16. ASSUME NEW s \in Scans, ScanEnds(s) PROVE TypeOK'
  BY <1>16 DEF ScanEnds, Slot!Release, Go
<1>17. ASSUME NEW s \in Scans, CloseDone(s) PROVE TypeOK'
  BY <1>17 DEF CloseDone, Slot!End, Go
<1>18. ASSUME NEW s \in Scans, Deactivate(s) PROVE TypeOK'
  BY <1>18 DEF Deactivate, Go
<1>19. ASSUME NEW s \in Scans, Report(s) PROVE TypeOK'
  BY <1>19 DEF Report, Go
<1>20. ASSUME NEW s \in Scans, PersistTick(s) PROVE TypeOK'
  <2>1. ticks' \in 0..MaxTicks
    BY <1>20, TicksAssumption DEF PersistTick
  <2>2. saving' \in [Savers -> {"idle", "drive", "offset", "write"}]
    BY <1>20 DEF PersistTick
  <2> QED
    BY <1>20, <2>1, <2>2 DEF PersistTick
<1>21. ASSUME NEW s \in Scans, PersistStop(s) PROVE TypeOK'
  BY <1>21 DEF PersistStop
<1>22. ASSUME NEW g \in Savers, ReadDrive(g) PROVE TypeOK'
  BY <1>22 DEF ReadDrive, Notes, Offsets
<1>23. ASSUME NEW g \in Savers, ReadOffset(g) PROVE TypeOK'
  BY <1>23 DEF ReadOffset, CurrentCarverOffset, Notes, Offsets
<1>24. ASSUME NEW g \in Savers, Save(g) PROVE TypeOK'
  <2>1. note[g] \in Notes /\ Blank \in Notes
    BY DEF Notes, Blank, Offsets
  <2>2. g[2] \in BOOLEAN /\ (g[2] => g[1] \in Scans)
    <3>1. CASE g \in Scans \X BOOLEAN
      BY <3>1
    <3>2. CASE g = <<Exit, FALSE>>
      BY <3>2
    <3> QED
      BY <3>1, <3>2 DEF Savers
  <2>3. snap' \in Sessions
    BY <1>24, <2>1, <2>2 DEF Save, Sessions, Notes
  <2>4. task' \in [Scans -> Tasks] /\ saving' \in [Savers -> {"idle", "drive", "offset", "write"}]
    BY <1>24 DEF Save
  <2>5. note' \in [Savers -> Notes]
    BY <1>24, <2>1 DEF Save
  <2>6. exit' \in {"open", "flush", "closed"}
    BY <1>24 DEF Save
  <2> QED
    BY <1>24, <2>3, <2>4, <2>5, <2>6 DEF Save
<1>25. ASSUME NEW s \in Scans, ResumeLastScan(s) PROVE TypeOK'
  BY <1>25 DEF ResumeLastScan, Asked, Step, Sessions, Offsets
<1>26. ASSUME NEW s \in Scans, NEW d \in Drives, StartScan(s, d) PROVE TypeOK'
  BY <1>26 DEF StartScan, Asked, Step
<1>27. CASE StopScan
  BY <1>27 DEF StopScan, Slot!Await
<1>28. CASE StopScanReturns
  BY <1>28 DEF StopScanReturns, Slot!Return
<1>29. CASE DiscardSession
  BY <1>29 DEF DiscardSession
<1>30. CASE Shutdown
  BY <1>30 DEF Shutdown
<1>31. CASE UNCHANGED vars
  BY <1>31 DEF vars
<1> QED
  BY <1>1, <1>2, <1>3, <1>4, <1>5, <1>6, <1>7, <1>8, <1>9, <1>10, <1>11, <1>12,
     <1>13, <1>14, <1>15, <1>16, <1>17, <1>18, <1>19, <1>20, <1>21, <1>22, <1>23, <1>24,
     <1>25, <1>26, <1>27, <1>28, <1>29, <1>30, <1>31
  DEF Next, CallStep, TaskStep, SaveStep

(* Every reachable state of the application is well typed, for any number   *)
(* of scans, drives and ticks.                                              *)
THEOREM TypeCorrect == Spec => []TypeOK
BY TypeInit, TypeNext, PTL DEF Spec

-----------------------------------------------------------------------------
(* What a returned StartScan and a pending StopScan know of the slot.       *)
LEMMA StopInvInit == Init => StopInv
BY NoneAssumption DEF Init, StopInv, Slot!Init, Calling

LEMMA StopInvNext ==
  ASSUME TypeOK, StopInv, [Next]_vars PROVE StopInv'
<1> USE NoneAssumption, ActorsAssumption DEF TypeOK, StopInv, Slot!TypeOK, Calling, Calls,
            slotVars, engineVars, appVars, callVars, taskVars, saveVars, sessionVars,
            loopVars, goVars, histVars, restVars
<1>1. ASSUME NEW s \in Scans, SetResumeCarverOffset(s) PROVE StopInv'
  BY <1>1 DEF SetResumeCarverOffset, Step
<1>2. ASSUME NEW s \in Scans, Check(s) PROVE StopInv'
  BY <1>2 DEF Check, IsScanning, Step
<1>3. ASSUME NEW s \in Scans, AutoStop(s) PROVE StopInv'
  BY <1>3 DEF AutoStop, Slot!Await, Step
<1>4. ASSUME NEW s \in Scans, AutoStopReturns(s) PROVE StopInv'
  BY <1>4 DEF AutoStopReturns, Slot!Return, Step
<1>5. ASSUME NEW s \in Scans, Poll(s) PROVE StopInv'
  BY <1>5 DEF Poll, Step
<1>6. ASSUME NEW s \in Scans, Recheck(s) PROVE StopInv'
  BY <1>6 DEF Recheck, IsScanning, Step
<1>7. ASSUME NEW s \in Scans, RecordDrive(s) PROVE StopInv'
  BY <1>7 DEF RecordDrive, Step
<1>8. ASSUME NEW s \in Scans, Activate(s) PROVE StopInv'
  BY <1>8 DEF Activate, Launch, Step, Go
<1>9. ASSUME NEW s \in Scans, SeenRegistered(s) PROVE StopInv'
  BY <1>9 DEF SeenRegistered, IsScanning, Step
<1>10. ASSUME NEW s \in Scans, GivenUp(s) PROVE StopInv'
  <2>1. /\ call[s] = "wait" /\ call' = [call EXCEPT ![s] = "returned"]
        /\ late' = (IF status[s] = "new" THEN late \cup {s} ELSE late)
        /\ UNCHANGED <<owner, latest, status, awaited, task, asked>>
    BY <1>10 DEF GivenUp, Step
  <2>2. late' = {} => late = {} /\ status[s] # "new"
    BY <2>1
  <2> QED
    BY <2>1, <2>2
<1>11. ASSUME NEW s \in Scans, Refused(s) PROVE StopInv'
  BY <1>11 DEF Refused, Slot!Refuse, Go
<1>12. ASSUME NEW s \in Scans, Registered(s) PROVE StopInv'
  <2>1. /\ status[s] = "new" /\ owner = None /\ owner' = s /\ latest' = s
        /\ status' = [status EXCEPT ![s] = "running"]
        /\ UNCHANGED <<awaited, call, asked, late>>
        /\ task[s] = "open" /\ task' = [task EXCEPT ![s] = "fs"]
    BY <1>12 DEF Registered, Slot!Claim, Go
  <2>2. late = {} => call[s] = "wait" /\ s \notin asked
    BY <2>1
  <2>3. late = {} => \A r \in Scans : call[r] \in {"record", "activate", "wait"} => r = s
    BY <2>2
  <2> QED
    BY <2>1, <2>2, <2>3
<1>13. ASSUME NEW s \in Scans, PopResumeCarverOffset(s) PROVE StopInv'
  BY <1>13 DEF PopResumeCarverOffset, Go
<1>14. ASSUME NEW s \in Scans, StartCarver(s) PROVE StopInv'
  BY <1>14 DEF StartCarver, Go
<1>15. ASSUME NEW s \in Scans, CountChunk(s) PROVE StopInv'
  BY <1>15 DEF CountChunk
<1>16. ASSUME NEW s \in Scans, ScanEnds(s) PROVE StopInv'
  BY <1>16 DEF ScanEnds, Slot!Release, Go
<1>17. ASSUME NEW s \in Scans, CloseDone(s) PROVE StopInv'
  BY <1>17 DEF CloseDone, Slot!End, Go
<1>18. ASSUME NEW s \in Scans, Deactivate(s) PROVE StopInv'
  BY <1>18 DEF Deactivate, Go
<1>19. ASSUME NEW s \in Scans, Report(s) PROVE StopInv'
  BY <1>19 DEF Report, Go
<1>20. ASSUME NEW s \in Scans, PersistTick(s) PROVE StopInv'
  BY <1>20 DEF PersistTick
<1>21. ASSUME NEW s \in Scans, PersistStop(s) PROVE StopInv'
  BY <1>21 DEF PersistStop
<1>22. ASSUME NEW g \in Savers, ReadDrive(g) PROVE StopInv'
  BY <1>22 DEF ReadDrive
<1>23. ASSUME NEW g \in Savers, ReadOffset(g) PROVE StopInv'
  BY <1>23 DEF ReadOffset, CurrentCarverOffset
<1>24. ASSUME NEW g \in Savers, Save(g) PROVE StopInv'
  BY <1>24 DEF Save
<1>25. ASSUME NEW s \in Scans, ResumeLastScan(s) PROVE StopInv'
  BY <1>25 DEF ResumeLastScan, Asked, Step
<1>26. ASSUME NEW s \in Scans, NEW d \in Drives, StartScan(s, d) PROVE StopInv'
  BY <1>26 DEF StartScan, Asked, Step
<1>27. CASE StopScan
  BY <1>27 DEF StopScan, Slot!Await
<1>28. CASE StopScanReturns
  BY <1>28 DEF StopScanReturns, Slot!Return
<1>29. CASE DiscardSession
  BY <1>29 DEF DiscardSession
<1>30. CASE Shutdown
  BY <1>30 DEF Shutdown
<1>31. CASE UNCHANGED vars
  BY <1>31 DEF vars
<1> QED
  BY <1>1, <1>2, <1>3, <1>4, <1>5, <1>6, <1>7, <1>8, <1>9, <1>10, <1>11, <1>12,
     <1>13, <1>14, <1>15, <1>16, <1>17, <1>18, <1>19, <1>20, <1>21, <1>22, <1>23, <1>24,
     <1>25, <1>26, <1>27, <1>28, <1>29, <1>30, <1>31
  DEF Next, CallStep, TaskStep, SaveStep

LEMMA StopInvariant == Spec => [](TypeOK /\ StopInv)
BY TypeInit, TypeNext, StopInvInit, StopInvNext, PTL DEF Spec

(* StopScan keeps its word: unless a StartScan gave up waiting for its scan *)
(* to be registered, no scan whose StartScan had returned is running or yet *)
(* to come when StopScan returns, however hasty the user was.               *)
THEOREM StopIsEffective == Spec => StopMeansStopped
<1> DEFINE Promise == awaited[User] # None /\ awaited'[User] = None /\ late = {} =>
                        \A s \in asked : status[s] \notin {"new", "running"}
<1>1. ASSUME TypeOK, StopInv, [Next]_vars PROVE [Promise]_vars
  <2> SUFFICES ASSUME Next, awaited[User] # None, awaited'[User] = None, late = {},
                      NEW s \in asked
               PROVE  status[s] \notin {"new", "running"}
    BY <1>1
  <2>1. StopScanReturns
    <3>1. ASSUME UNCHANGED awaited PROVE FALSE
      BY <3>1
    <3>2. ASSUME NEW r \in Scans, AutoStop(r) \/ AutoStopReturns(r) PROVE FALSE
      BY <1>1, <3>2, ActorsAssumption
         DEF AutoStop, AutoStopReturns, Slot!Await, Slot!Return, TypeOK, Slot!TypeOK
    <3>3. ASSUME StopScan PROVE FALSE
      BY <3>3 DEF StopScan, Slot!Await
    <3>4. ASSUME NEW r \in Scans, CallStep(r) PROVE FALSE
      BY <3>1, <3>2, <3>4
         DEF CallStep, SetResumeCarverOffset, Check, Poll, Recheck, RecordDrive, Activate,
             Launch, SeenRegistered, GivenUp, slotVars
    <3>5. ASSUME NEW r \in Scans, TaskStep(r) PROVE FALSE
      BY <3>1, <3>5
         DEF TaskStep, Refused, Slot!Refuse, Registered, Slot!Claim, PopResumeCarverOffset,
             StartCarver, CountChunk, ScanEnds, Slot!Release, CloseDone, Slot!End, Deactivate,
             Report, slotVars
    <3>6. ASSUME NEW r \in Scans, PersistTick(r) \/ PersistStop(r) PROVE FALSE
      BY <3>1, <3>6 DEF PersistTick, PersistStop, slotVars
    <3>7. ASSUME NEW g \in Savers, SaveStep(g) PROVE FALSE
      BY <3>1, <3>7 DEF SaveStep, ReadDrive, ReadOffset, Save, slotVars
    <3>8. ASSUME NEW r \in Scans, ResumeLastScan(r) \/ \E d \in Drives : StartScan(r, d)
          PROVE FALSE
      BY <3>1, <3>8 DEF ResumeLastScan, StartScan, slotVars
    <3>9. ASSUME DiscardSession \/ Shutdown PROVE FALSE
      BY <3>1, <3>9 DEF DiscardSession, Shutdown, slotVars
    <3> QED
      BY <3>3, <3>4, <3>5, <3>6, <3>7, <3>8, <3>9 DEF Next
  <2>2. status[awaited[User]] = "over"
    BY <2>1 DEF StopScanReturns, Slot!Return
  <2>3. s \in Scans /\ status[s] # "new"
    BY <1>1 DEF StopInv, TypeOK
  <2>4. status[s] = "running" => awaited[User] = s
    BY <1>1, <2>3 DEF StopInv
  <2> QED
    BY <2>2, <2>3, <2>4
<1> QED
  BY <1>1, StopInvariant, PTL DEF Spec, StopMeansStopped

-----------------------------------------------------------------------------
(* A user who waits for the last event of a scan before the next is called. *)

(* A scan that is being called, or whose goroutines are not all through.    *)
Busy(s) == Calling(s) \/ ~Through(s)

(* Who saves is told by its pair, and the shutdown hook is no scan.         *)
LEMMA SaversApart ==
  /\ Last \in Savers
  /\ \A s \in Scans : Tick(s) \in Savers /\ Final(s) \in Savers
  /\ \A r, s \in Scans : Final(r) = Final(s) => r = s
  /\ \A r, s \in Scans : Final(r) # Tick(s)
  /\ \A s \in Scans : Tick(s) # Last /\ Final(s) # Last
  /\ \A g \in Savers : g[2] \in BOOLEAN
  /\ \A g \in Savers : g[2] => \E s \in Scans : g = Final(s) /\ g[1] = s
  /\ \A s \in Scans : Final(s)[1] = s /\ Final(s)[2] = TRUE
  /\ Last[2] = FALSE
<1>1. ASSUME NEW g \in Savers, g[2] PROVE \E s \in Scans : g = <<s, TRUE>> /\ g[1] = s
  <2>1. CASE g \in Scans \X BOOLEAN
    <3>1. PICK s \in Scans, b \in BOOLEAN : g = <<s, b>>
      BY <2>1
    <3> QED
      BY <1>1, <3>1
  <2>2. CASE g = <<Exit, FALSE>>
    BY <1>1, <2>2
  <2> QED
    BY <2>1, <2>2 DEF Savers
<1>2. \A s \in Scans : s # Exit
  BY ActorsAssumption
<1>3. \A r, s \in Scans : <<r, TRUE>> = <<s, TRUE>> => r = s
  OBVIOUS
<1>4. \A r, s \in Scans : <<r, TRUE>> # <<s, FALSE>>
  OBVIOUS
<1>5. \A s \in Scans : <<s, FALSE>> # <<Exit, FALSE>> /\ <<s, TRUE>> # <<Exit, FALSE>>
  BY <1>2
<1>6. <<Exit, FALSE>> \in Savers
  BY DEF Savers
<1>7. \A s \in Scans : <<s, FALSE>> \in Savers /\ <<s, TRUE>> \in Savers
  BY DEF Savers
<1>8. \A g \in Savers : g[2] \in BOOLEAN
  <2> SUFFICES ASSUME NEW g \in Savers PROVE g[2] \in BOOLEAN
    OBVIOUS
  <2>1. CASE g \in Scans \X BOOLEAN
    BY <2>1
  <2>2. CASE g = <<Exit, FALSE>>
    BY <2>2
  <2> QED
    BY <2>1, <2>2 DEF Savers
<1> QED
  BY <1>1, <1>3, <1>4, <1>5, <1>6, <1>7, <1>8 DEF Tick, Final, Last

(* Only one scan is busy; currentDrive is its drive from the moment it was  *)
(* recorded, scanActive is set until its goroutine has reset it, and the    *)
(* final save is under way exactly while the goroutine waits for it.        *)
Calm ==
  /\ \A r, s \in Scans : Busy(r) /\ Busy(s) => r = s
  /\ \A s \in Scans : call[s] \in {"activate", "wait", "returned"} /\ Busy(s) =>
       currentDrive = drive[s]
  /\ \A s \in Scans : task[s] = "none" <=> call[s] \notin {"wait", "returned"}
  /\ \A s \in Scans : loop[s] = "none" <=> task[s] = "none"
  /\ \A s \in Scans : status[s] = "running" => task[s] \in {"fs", "popped", "carve"}
  /\ \A s \in Scans :
       task[s] \in {"open", "fs", "popped", "carve", "leaving", "ended"} => scanActive
  /\ \A s \in Scans : saving[Final(s)] # "idle" <=> task[s] = "save"
  /\ \A s \in Scans : task[s] = "save" => outcome[s] = "ok"

LEMMA CalmInit == Init => Calm
<1> SUFFICES ASSUME Init PROVE Calm
  OBVIOUS
<1>1. \A s \in Scans : call[s] = "none" /\ task[s] = "none" /\ loop[s] = "none"
  BY DEF Init
<1>2. \A s \in Scans : ~Busy(s) /\ status[s] # "running" /\ saving[Final(s)] = "idle"
  BY <1>1, SaversApart DEF Init, Busy, Calling, Through, Slot!Init
<1> QED
  BY <1>1, <1>2 DEF Calm

LEMMA CalmNext ==
  ASSUME ~Hasty, TypeOK, StopInv, Calm, [Next]_vars PROVE Calm'
<1> USE NoneAssumption, ActorsAssumption, SaversApart
    DEF TypeOK, StopInv, Calm, Busy, Calling, Through, Slot!TypeOK, Slot!Statuses, Calls, Tasks,
        slotVars, engineVars, appVars, callVars, taskVars, saveVars, sessionVars,
        loopVars, goVars, histVars, restVars
<1>1. ASSUME NEW s \in Scans, SetResumeCarverOffset(s) PROVE Calm'
  BY <1>1 DEF SetResumeCarverOffset, Step
<1>2. ASSUME NEW s \in Scans, Check(s) PROVE Calm'
  BY <1>2 DEF Check, IsScanning, Step
<1>3. ASSUME NEW s \in Scans, AutoStop(s) PROVE Calm'
  BY <1>3 DEF AutoStop, Slot!Await, Step
<1>4. ASSUME NEW s \in Scans, AutoStopReturns(s) PROVE Calm'
  BY <1>4 DEF AutoStopReturns, Slot!Return, Step
<1>5. ASSUME NEW s \in Scans, Poll(s) PROVE Calm'
  BY <1>5 DEF Poll, Step
<1>6. ASSUME NEW s \in Scans, Recheck(s) PROVE Calm'
  BY <1>6 DEF Recheck, IsScanning, Step
<1>7. ASSUME NEW s \in Scans, RecordDrive(s) PROVE Calm'
  BY <1>7 DEF RecordDrive, Step
<1>8. ASSUME NEW s \in Scans, Activate(s) PROVE Calm'
  BY <1>8 DEF Activate, Launch, Step, Go
<1>9. ASSUME NEW s \in Scans, SeenRegistered(s) PROVE Calm'
  BY <1>9 DEF SeenRegistered, IsScanning, Step
<1>10. ASSUME NEW s \in Scans, GivenUp(s) PROVE Calm'
  BY <1>10 DEF GivenUp, Step
<1>11. ASSUME NEW s \in Scans, Refused(s) PROVE Calm'
  BY <1>11 DEF Refused, Slot!Refuse, Go
<1>12. ASSUME NEW s \in Scans, Registered(s) PROVE Calm'
  BY <1>12 DEF Registered, Slot!Claim, Go
<1>13. ASSUME NEW s \in Scans, PopResumeCarverOffset(s) PROVE Calm'
  BY <1>13 DEF PopResumeCarverOffset, Go
<1>14. ASSUME NEW s \in Scans, StartCarver(s) PROVE Calm'
  BY <1>14 DEF StartCarver, Go
<1>15. ASSUME NEW s \in Scans, CountChunk(s) PROVE Calm'
  BY <1>15 DEF CountChunk
<1>16. ASSUME NEW s \in Scans, ScanEnds(s) PROVE Calm'
  <2>1. /\ task[s] \in {"fs", "popped", "carve"}
        /\ \A r \in Scans : task'[r] = IF r = s THEN "leaving" ELSE task[r]
        /\ \A r \in Scans \ {s} : outcome'[r] = outcome[r]
    BY <1>16 DEF ScanEnds, Go
  <2>2. \A r \in Scans : status'[r] = IF r = s THEN "leaving" ELSE status[r]
    BY <1>16 DEF ScanEnds, Slot!Release
  <2>3. UNCHANGED <<currentDrive, scanActive, call, drive, loop, saving>>
    BY <1>16 DEF ScanEnds
  <2>4. \A r \in Scans : Busy(r)' => Busy(r)
    BY <2>1, <2>3
  <2>5. (\A r, t \in Scans : Busy(r) /\ Busy(t) => r = t)'
    BY <2>4
  <2>6. (\A r \in Scans : call[r] \in {"activate", "wait", "returned"} /\ Busy(r) =>
           currentDrive = drive[r])'
    BY <2>3, <2>4
  <2>7. (\A r \in Scans : task[r] = "none" <=> call[r] \notin {"wait", "returned"})'
    BY <2>1, <2>3
  <2>8. (\A r \in Scans : loop[r] = "none" <=> task[r] = "none")'
    BY <2>1, <2>3
  <2>9. (\A r \in Scans : status[r] = "running" => task[r] \in {"fs", "popped", "carve"})'
    BY <2>1, <2>2
  <2>10. (\A r \in Scans : task[r] \in {"open", "fs", "popped", "carve", "leaving", "ended"} =>
            scanActive)'
    BY <2>1, <2>3
  <2>11. (\A r \in Scans : saving[Final(r)] # "idle" <=> task[r] = "save")'
    BY <2>1, <2>3
  <2>12. (\A r \in Scans : task[r] = "save" => outcome[r] = "ok")'
    BY <2>1
  <2> QED
    BY <2>5, <2>6, <2>7, <2>8, <2>9, <2>10, <2>11, <2>12
<1>17. ASSUME NEW s \in Scans, CloseDone(s) PROVE Calm'
  BY <1>17 DEF CloseDone, Slot!End, Go
<1>18. ASSUME NEW s \in Scans, Deactivate(s) PROVE Calm'
  <2>1. \A r \in Scans : saving'[Final(r)] = IF r = s /\ outcome[s] = "ok" THEN "drive"
                                              ELSE saving[Final(r)]
    BY <1>18 DEF Deactivate
  <2>2. /\ task[s] = "ended"
        /\ \A r \in Scans : task'[r] = IF r # s THEN task[r]
                                       ELSE IF outcome[s] = "ok" THEN "save" ELSE "report"
    BY <1>18 DEF Deactivate, Go
  <2>3. UNCHANGED <<currentDrive, call, drive, status, loop, outcome>>
    BY <1>18 DEF Deactivate
  <2>4. \A r \in Scans \ {s} : ~Busy(r)
    BY <2>2
  <2>5. \A r \in Scans \ {s} : task[r] \in {"none", "done"}
    BY <2>4
  <2>6. \A r \in Scans : Busy(r)' => Busy(r)
    BY <2>2, <2>3
  <2>7. (\A r, t \in Scans : Busy(r) /\ Busy(t) => r = t)'
    BY <2>6
  <2>8. (\A r \in Scans : call[r] \in {"activate", "wait", "returned"} /\ Busy(r) =>
           currentDrive = drive[r])'
    BY <2>6, <2>3
  <2>9. (\A r \in Scans : saving[Final(r)] # "idle" <=> task[r] = "save")'
    BY <2>1, <2>2
  <2>10. \A r \in Scans :
           task'[r] \notin {"open", "fs", "popped", "carve", "leaving", "ended"}
    BY <2>2, <2>5
  <2>11. \A r \in Scans : task'[r] = "none" <=> task[r] = "none"
    BY <2>2
  <2>12. \A r \in Scans : status'[r] = "running" => task'[r] \in {"fs", "popped", "carve"}
    BY <2>2, <2>3
  <2>13. \A r \in Scans : task'[r] = "save" => outcome'[r] = "ok"
    BY <2>2, <2>3
  <2>14. \A r \in Scans : task'[r] = "none" <=> call'[r] \notin {"wait", "returned"}
    BY <2>3, <2>11
  <2>15. \A r \in Scans : loop'[r] = "none" <=> task'[r] = "none"
    BY <2>3, <2>11
  <2> QED
    BY <2>7, <2>8, <2>9, <2>10, <2>12, <2>13, <2>14, <2>15
<1>19. ASSUME NEW s \in Scans, Report(s) PROVE Calm'
  BY <1>19 DEF Report, Go
<1>20. ASSUME NEW s \in Scans, PersistTick(s) PROVE Calm'
  <2>1. \A r \in Scans : saving'[Final(r)] = saving[Final(r)]
    BY <1>20 DEF PersistTick
  <2> QED
    BY <1>20, <2>1 DEF PersistTick
<1>21. ASSUME NEW s \in Scans, PersistStop(s) PROVE Calm'
  BY <1>21 DEF PersistStop
<1>22. ASSUME NEW g \in Savers, ReadDrive(g) PROVE Calm'
  <2>1. \A r \in Scans : saving'[Final(r)] # "idle" <=> saving[Final(r)] # "idle"
    BY <1>22 DEF ReadDrive
  <2> QED
    BY <1>22, <2>1 DEF ReadDrive
<1>23. ASSUME NEW g \in Savers, ReadOffset(g) PROVE Calm'
  <2>1. \A r \in Scans : saving'[Final(r)] # "idle" <=> saving[Final(r)] # "idle"
    BY <1>23 DEF ReadOffset
  <2> QED
    BY <1>23, <2>1 DEF ReadOffset
<1>24. ASSUME NEW g \in Savers, Save(g) PROVE Calm'
  <2>1. \A r \in Scans : task'[r] = IF g = Final(r) THEN "report" ELSE task[r]
    BY <1>24 DEF Save
  <2>2. \A r \in Scans : g = Final(r) => task[r] = "save"
    BY <1>24 DEF Save
  <2>3. \A r \in Scans : saving'[Final(r)] = IF g = Final(r) THEN "idle" ELSE saving[Final(r)]
    BY <1>24 DEF Save
  <2>4. UNCHANGED <<currentDrive, scanActive, call, drive, status, loop, outcome>>
    BY <1>24 DEF Save
  <2> QED
    BY <2>1, <2>2, <2>3, <2>4
<1>25. ASSUME NEW s \in Scans, ResumeLastScan(s) PROVE Calm'
  BY <1>25 DEF ResumeLastScan, Asked, Step
<1>26. ASSUME NEW s \in Scans, NEW d \in Drives, StartScan(s, d) PROVE Calm'
  BY <1>26 DEF StartScan, Asked, Step
<1>27. CASE StopScan
  BY <1>27 DEF StopScan, Slot!Await
<1>28. CASE StopScanReturns
  BY <1>28 DEF StopScanReturns, Slot!Return
<1>29. CASE DiscardSession
  BY <1>29 DEF DiscardSession
<1>30. CASE Shutdown
  BY <1>30 DEF Shutdown
<1>31. CASE UNCHANGED vars
  BY <1>31 DEF vars
<1> QED
  BY <1>1, <1>2, <1>3, <1>4, <1>5, <1>6, <1>7, <1>8, <1>9, <1>10, <1>11, <1>12,
     <1>13, <1>14, <1>15, <1>16, <1>17, <1>18, <1>19, <1>20, <1>21, <1>22, <1>23, <1>24,
     <1>25, <1>26, <1>27, <1>28, <1>29, <1>30, <1>31
  DEF Next, CallStep, TaskStep, SaveStep

(* What the final save and the shutdown hook have read is the drive they    *)
(* are to name, and what they have written still is.  Once the hook began,  *)
(* no other scan is called, so the scan it found keeps currentDrive.        *)
Named ==
  /\ \A s \in Scans : saving[Final(s)] \in {"offset", "write"} => note[Final(s)].drive = drive[s]
  /\ snap # None /\ snap.by # None =>
       /\ task[snap.by] \in {"report", "done"}
       /\ snap.drive = drive[snap.by] /\ outcome[snap.by] = "ok"

AtExit ==
  /\ exit = "open" => saving[Last] = "idle" /\ atExit = None
  /\ exit = "flush" => saving[Last] # "idle"
  /\ atExit # None =>
       /\ task[atExit] # "none" /\ currentDrive = drive[atExit]
       /\ \A s \in Scans : Calling(s) => s = atExit
       /\ saving[Last] \in {"offset", "write"} => note[Last].drive = drive[atExit]
  /\ ShutdownSavesRunning

LEMMA NamedInit == Init => Named /\ AtExit
BY OldSessionsAssumption, SaversApart DEF Init, Named, AtExit, ShutdownSavesRunning

LEMMA NamedNext ==
  ASSUME ~Hasty, TypeOK, StopInv, Calm, Named, AtExit, [Next]_vars PROVE Named'
<1> USE NoneAssumption, ActorsAssumption, SaversApart
    DEF TypeOK, Calm, Named, Busy, Through, Calling, Calls, Tasks,
        slotVars, engineVars, appVars, callVars, taskVars, saveVars, sessionVars,
        loopVars, goVars, histVars, restVars
<1>1. ASSUME NEW s \in Scans, SetResumeCarverOffset(s) PROVE Named'
  BY <1>1 DEF SetResumeCarverOffset, Step
<1>2. ASSUME NEW s \in Scans, Check(s) PROVE Named'
  BY <1>2 DEF Check, Step
<1>3. ASSUME NEW s \in Scans, AutoStop(s) PROVE Named'
  BY <1>3 DEF AutoStop, Step
<1>4. ASSUME NEW s \in Scans, AutoStopReturns(s) PROVE Named'
  BY <1>4 DEF AutoStopReturns, Step
<1>5. ASSUME NEW s \in Scans, Poll(s) PROVE Named'
  BY <1>5 DEF Poll, Step
<1>6. ASSUME NEW s \in Scans, Recheck(s) PROVE Named'
  BY <1>6 DEF Recheck, Step
<1>7. ASSUME NEW s \in Scans, RecordDrive(s) PROVE Named'
  BY <1>7 DEF RecordDrive, Step
<1>8. ASSUME NEW s \in Scans, Activate(s) PROVE Named'
  BY <1>8 DEF Activate, Launch, Step, Go
<1>9. ASSUME NEW s \in Scans, SeenRegistered(s) PROVE Named'
  BY <1>9 DEF SeenRegistered, Step
<1>10. ASSUME NEW s \in Scans, GivenUp(s) PROVE Named'
  BY <1>10 DEF GivenUp, Step
<1>11. ASSUME NEW s \in Scans, Refused(s) PROVE Named'
  BY <1>11 DEF Refused, Go
<1>12. ASSUME NEW s \in Scans, Registered(s) PROVE Named'
  BY <1>12 DEF Registered, Go
<1>13. ASSUME NEW s \in Scans, PopResumeCarverOffset(s) PROVE Named'
  BY <1>13 DEF PopResumeCarverOffset, Go
<1>14. ASSUME NEW s \in Scans, StartCarver(s) PROVE Named'
  BY <1>14 DEF StartCarver, Go
<1>15. ASSUME NEW s \in Scans, CountChunk(s) PROVE Named'
  BY <1>15 DEF CountChunk
<1>16. ASSUME NEW s \in Scans, ScanEnds(s) PROVE Named'
  <2>1. /\ task[s] \in {"fs", "popped", "carve"}
        /\ \A r \in Scans \ {s} : task'[r] = task[r] /\ outcome'[r] = outcome[r]
    BY <1>16 DEF ScanEnds, Go
  <2>2. UNCHANGED <<drive, saving, note, snap>>
    BY <1>16 DEF ScanEnds
  <2>3. snap # None /\ snap.by # None => snap.by \in Scans \ {s}
    BY <2>1 DEF Sessions
  <2> QED
    BY <2>1, <2>2, <2>3
<1>17. ASSUME NEW s \in Scans, CloseDone(s) PROVE Named'
  BY <1>17 DEF CloseDone, Go
<1>18. ASSUME NEW s \in Scans, Deactivate(s) PROVE Named'
  BY <1>18 DEF Deactivate, Go
<1>19. ASSUME NEW s \in Scans, Report(s) PROVE Named'
  BY <1>19 DEF Report, Go
<1>20. ASSUME NEW s \in Scans, PersistTick(s) PROVE Named'
  BY <1>20 DEF PersistTick
<1>21. ASSUME NEW s \in Scans, PersistStop(s) PROVE Named'
  BY <1>21 DEF PersistStop
<1>22. ASSUME NEW g \in Savers, ReadDrive(g) PROVE Named'
  <2>1. /\ saving' = [saving EXCEPT ![g] = "offset"]
        /\ note' = [note EXCEPT ![g] = [drive |-> currentDrive, offset |-> None]]
        /\ UNCHANGED <<drive, snap, task, outcome>> /\ saving[g] = "drive"
    BY <1>22 DEF ReadDrive
  <2>2. \A s \in Scans : Final(s) = g => currentDrive = drive[s]
    BY <2>1
  <2>3. \A s \in Scans : saving'[Final(s)] \in {"offset", "write"} =>
                           note'[Final(s)].drive = drive'[s]
    BY <2>1, <2>2
  <2> QED
    BY <2>1, <2>3
<1>23. ASSUME NEW g \in Savers, ReadOffset(g) PROVE Named'
  BY <1>23 DEF ReadOffset
<1>24. ASSUME NEW g \in Savers, Save(g) PROVE Named'
  BY <1>24 DEF Save
<1>25. ASSUME NEW s \in Scans, ResumeLastScan(s) PROVE Named'
  BY <1>25 DEF ResumeLastScan, Asked, Step
<1>26. ASSUME NEW s \in Scans, NEW d \in Drives, StartScan(s, d) PROVE Named'
  BY <1>26 DEF StartScan, Asked, Step
<1>27. CASE StopScan
  BY <1>27 DEF StopScan
<1>28. CASE StopScanReturns
  BY <1>28 DEF StopScanReturns
<1>29. CASE DiscardSession
  BY <1>29 DEF DiscardSession
<1>30. CASE Shutdown
  BY <1>30 DEF Shutdown
<1>31. CASE UNCHANGED vars
  BY <1>31 DEF vars
<1> QED
  BY <1>1, <1>2, <1>3, <1>4, <1>5, <1>6, <1>7, <1>8, <1>9, <1>10, <1>11, <1>12,
     <1>13, <1>14, <1>15, <1>16, <1>17, <1>18, <1>19, <1>20, <1>21, <1>22, <1>23, <1>24,
     <1>25, <1>26, <1>27, <1>28, <1>29, <1>30, <1>31
  DEF Next, CallStep, TaskStep, SaveStep

LEMMA AtExitNext ==
  ASSUME ~Hasty, TypeOK, StopInv, Calm, Named, AtExit, [Next]_vars PROVE AtExit'
<1> USE NoneAssumption, ActorsAssumption, SaversApart
    DEF TypeOK, Calm, AtExit, ShutdownSavesRunning, StopInv, Busy, Through, Calling, Calls, Tasks,
        slotVars, engineVars, appVars, callVars, taskVars, saveVars, sessionVars,
        loopVars, goVars, histVars, restVars
<1>1. ASSUME NEW s \in Scans, SetResumeCarverOffset(s) PROVE AtExit'
  BY <1>1 DEF SetResumeCarverOffset, Step
<1>2. ASSUME NEW s \in Scans, Check(s) PROVE AtExit'
  BY <1>2 DEF Check, Step
<1>3. ASSUME NEW s \in Scans, AutoStop(s) PROVE AtExit'
  BY <1>3 DEF AutoStop, Step
<1>4. ASSUME NEW s \in Scans, AutoStopReturns(s) PROVE AtExit'
  BY <1>4 DEF AutoStopReturns, Step
<1>5. ASSUME NEW s \in Scans, Poll(s) PROVE AtExit'
  BY <1>5 DEF Poll, Step
<1>6. ASSUME NEW s \in Scans, Recheck(s) PROVE AtExit'
  BY <1>6 DEF Recheck, Step
<1>7. ASSUME NEW s \in Scans, RecordDrive(s) PROVE AtExit'
  BY <1>7 DEF RecordDrive, Step
<1>8. ASSUME NEW s \in Scans, Activate(s) PROVE AtExit'
  BY <1>8 DEF Activate, Launch, Step, Go
<1>9. ASSUME NEW s \in Scans, SeenRegistered(s) PROVE AtExit'
  BY <1>9 DEF SeenRegistered, Step
<1>10. ASSUME NEW s \in Scans, GivenUp(s) PROVE AtExit'
  BY <1>10 DEF GivenUp, Step
<1>11. ASSUME NEW s \in Scans, Refused(s) PROVE AtExit'
  BY <1>11 DEF Refused, Go
<1>12. ASSUME NEW s \in Scans, Registered(s) PROVE AtExit'
  BY <1>12 DEF Registered, Go
<1>13. ASSUME NEW s \in Scans, PopResumeCarverOffset(s) PROVE AtExit'
  BY <1>13 DEF PopResumeCarverOffset, Go
<1>14. ASSUME NEW s \in Scans, StartCarver(s) PROVE AtExit'
  BY <1>14 DEF StartCarver, Go
<1>15. ASSUME NEW s \in Scans, CountChunk(s) PROVE AtExit'
  BY <1>15 DEF CountChunk
<1>16. ASSUME NEW s \in Scans, ScanEnds(s) PROVE AtExit'
  BY <1>16 DEF ScanEnds, Go
<1>17. ASSUME NEW s \in Scans, CloseDone(s) PROVE AtExit'
  BY <1>17 DEF CloseDone, Go
<1>18. ASSUME NEW s \in Scans, Deactivate(s) PROVE AtExit'
  BY <1>18 DEF Deactivate, Go
<1>19. ASSUME NEW s \in Scans, Report(s) PROVE AtExit'
  BY <1>19 DEF Report, Go
<1>20. ASSUME NEW s \in Scans, PersistTick(s) PROVE AtExit'
  BY <1>20 DEF PersistTick
<1>21. ASSUME NEW s \in Scans, PersistStop(s) PROVE AtExit'
  BY <1>21 DEF PersistStop
<1>22. ASSUME NEW g \in Savers, ReadDrive(g) PROVE AtExit'
  BY <1>22 DEF ReadDrive
<1>23. ASSUME NEW g \in Savers, ReadOffset(g) PROVE AtExit'
  BY <1>23 DEF ReadOffset
<1>24. ASSUME Alive, NEW g \in Savers, Save(g) PROVE AtExit'
  <2>1. /\ saving[g] = "write" /\ saving' = [saving EXCEPT ![g] = "idle"]
        /\ note' = [note EXCEPT ![g] = Blank]
        /\ UNCHANGED <<atExit, currentDrive, drive, call>>
    BY <1>24 DEF Save
  <2>2. \A s \in Scans : task'[s] = "none" => task[s] = "none"
    BY <1>24 DEF Save
  <2>3. snap' # None /\ snap'.drive = note[g].drive
    <3>1. snap' \in Sessions
      <4>2. snap' = [drive |-> note[g].drive, offset |-> note[g].offset,
                     completed |-> g[2], by |-> IF g[2] THEN g[1] ELSE None]
        BY <1>24 DEF Save
      <4>3. note[g] \in Notes
        OBVIOUS
      <4>4. g[2] \in BOOLEAN /\ (g[2] => g[1] \in Scans)
        OBVIOUS
      <4> QED
        BY <4>2, <4>3, <4>4 DEF Sessions, Notes
    <3> QED
      BY <1>24, <3>1, OldSessionsAssumption DEF Save
  <2>4. CASE g = Last
    <3>1. exit' = "closed" /\ saving'[Last] = "idle"
      BY <1>24, <2>1, <2>4 DEF Save
    <3>2. atExit # None => snap'.drive = drive[atExit]
      BY <2>1, <2>3, <2>4
    <3> QED
      BY <2>1, <2>2, <2>3, <3>1, <3>2
  <2>5. CASE g # Last
    <3>1. exit' = exit /\ saving'[Last] = saving[Last] /\ note'[Last] = note[Last]
      BY <1>24, <2>1, <2>5 DEF Save
    <3>2. exit # "closed"
      BY <1>24 DEF Alive
    <3> QED
      BY <2>1, <2>2, <3>1, <3>2
  <2> QED
    BY <2>4, <2>5
<1>25. ASSUME NEW s \in Scans, ResumeLastScan(s) PROVE AtExit'
  BY <1>25 DEF ResumeLastScan, Asked, Step
<1>26. ASSUME NEW s \in Scans, NEW d \in Drives, StartScan(s, d) PROVE AtExit'
  BY <1>26 DEF StartScan, Asked, Step
<1>27. CASE StopScan
  BY <1>27 DEF StopScan
<1>28. CASE StopScanReturns
  BY <1>28 DEF StopScanReturns
<1>29. CASE DiscardSession
  BY <1>29 DEF DiscardSession
<1>30. CASE Shutdown
  <2>1. /\ exit = "open" /\ atExit = None /\ atExit' = owner /\ saving[Last] = "idle"
        /\ UNCHANGED <<currentDrive, drive, call, task, note, snap>>
    BY <1>30 DEF Shutdown
  <2>2. owner # None => /\ owner \in Scans /\ task[owner] \in {"fs", "popped", "carve"}
                        /\ scanActive
    BY DEF StopInv, Slot!TypeOK
  <2>3. owner # None => /\ call[owner] \in {"wait", "returned"} /\ Busy(owner)
    BY <2>2
  <2>4. owner # None => /\ currentDrive = drive[owner]
                        /\ \A s \in Scans : Calling(s) => s = owner
    BY <2>2, <2>3
  <2>5. CASE scanActive
    <3>1. exit' = "flush" /\ saving'[Last] = "drive"
      BY <1>30, <2>5 DEF Shutdown
    <3> QED
      BY <2>1, <2>2, <2>4, <3>1
  <2>6. CASE ~scanActive
    <3>1. exit' = "closed" /\ atExit' = None
      BY <1>30, <2>1, <2>2, <2>6 DEF Shutdown
    <3> QED
      BY <2>1, <3>1
  <2> QED
    BY <2>5, <2>6
<1>31. CASE UNCHANGED vars
  BY <1>31 DEF vars
<1> QED
  BY <1>1, <1>2, <1>3, <1>4, <1>5, <1>6, <1>7, <1>8, <1>9, <1>10, <1>11, <1>12,
     <1>13, <1>14, <1>15, <1>16, <1>17, <1>18, <1>19, <1>20, <1>21, <1>22, <1>23, <1>24,
     <1>25, <1>26, <1>27, <1>28, <1>29, <1>30, <1>31
  DEF Next, CallStep, TaskStep, SaveStep

LEMMA CalmInvariant == ASSUME ~Hasty PROVE Spec => [](Calm /\ Named /\ AtExit)
<1>1. Init => TypeOK /\ StopInv /\ Calm /\ Named /\ AtExit
  BY TypeInit, StopInvInit, CalmInit, NamedInit
<1>2. TypeOK /\ StopInv /\ Calm /\ Named /\ AtExit /\ [Next]_vars =>
        (TypeOK /\ StopInv /\ Calm /\ Named /\ AtExit)'
  BY TypeNext, StopInvNext, CalmNext, NamedNext, AtExitNext
<1> QED
  BY <1>1, <1>2, PTL DEF Spec

(* If the user starts a scan only when the one before is through, a session *)
(* marked complete names the drive of the scan that completed it, and that  *)
(* scan had ended without an error: for any number of scans and drives.     *)
THEOREM CompletedNamesItsDrive == ASSUME ~Hasty PROVE Spec => []CompletedIsTrue
<1>1. Named => CompletedIsTrue
  BY DEF Named, CompletedIsTrue
<1> QED
  BY <1>1, CalmInvariant, PTL

(* And the session that the shutdown hook leaves names the drive of the     *)
(* scan that held the slot, whatever save was under way when it came.       *)
THEOREM ShutdownNamesTheScan == ASSUME ~Hasty PROVE Spec => []ShutdownSavesRunning
<1>1. AtExit => ShutdownSavesRunning
  BY DEF AtExit
<1> QED
  BY <1>1, CalmInvariant, PTL
=============================================================================
