-------------------------- MODULE ScanEngineProofs --------------------------
(***************************************************************************)
(* The safety properties of ScanEngine, proved for any number of scans and *)
(* callers of Stop, any device size and any number of file-system stages.  *)
(***************************************************************************)
EXTENDS ScanEngine, TLAPS

(* The type invariant is inductive on its own.                             *)
LEMMA TypeInit == Init => TypeOK
<1> SUFFICES ASSUME Init PROVE TypeOK
  OBVIOUS
<1>1. /\ pc \in [Scans -> Phases] /\ mode \in [Scans -> Modes]
      /\ outcome \in [Scans -> Outcomes] /\ spc \in [Stoppers -> StopPhases]
  BY DEF Init, Phases, Modes, Outcomes, StopPhases
<1>2. /\ stage \in [Scans -> Nat] /\ start \in [Scans -> Nat]
      /\ bytesScanned \in [Scans -> Nat]
  BY DEF Init
<1>3. /\ sCancel \in [Stoppers -> Scans \cup {None}]
      /\ sReader \in [Stoppers -> Scans \cup {None}]
      /\ sDone \in [Stoppers -> Scans \cup {None}]
  BY DEF Init
<1> QED
  BY <1>1, <1>2, <1>3 DEF Init, TypeOK

LEMMA TypeNext == TypeOK /\ [Next]_vars => TypeOK'
<1> SUFFICES ASSUME TypeOK, [Next]_vars PROVE TypeOK'
  OBVIOUS
<1> USE DEF TypeOK, Phases, Registered, Modes, Outcomes, StopPhases,
            slotVars, carverVars, localVars, ctxVars, stopVars, resumeVars
<1>1. ASSUME NEW s \in Scans, NEW m \in Modes, Launch(s, m) PROVE TypeOK'
  BY <1>1 DEF Launch, Goto
<1>2. ASSUME NEW s \in Scans, OpenFail(s) \/ Wrap(s) \/ Refuse(s) PROVE TypeOK'
  BY <1>2 DEF OpenFail, Wrap, Refuse, Goto
<1>3. ASSUME NEW s \in Scans, Register(s) PROVE TypeOK'
  BY <1>3 DEF Register, TakeSlot, Goto, FirstPhase
<1>4. ASSUME NEW s \in Scans, Find(s) PROVE TypeOK'
  BY <1>4 DEF Find
<1>5. ASSUME NEW s \in Scans, FullStageEnd(s) PROVE TypeOK'
  BY <1>5 DEF FullStageEnd, Fail, Goto
<1>6. ASSUME NEW s \in Scans, QuickStageEnd(s) PROVE TypeOK'
  BY <1>6 DEF QuickStageEnd, Fail, Goto
<1>7. ASSUME NEW s \in Scans, PopResumeCarverOffset(s) PROVE TypeOK'
  BY <1>7 DEF PopResumeCarverOffset, Goto
<1>8. ASSUME NEW s \in Scans, SizeFail(s) PROVE TypeOK'
  BY <1>8 DEF SizeFail, CarverReturns, Fail, Goto
<1>9. ASSUME NEW s \in Scans, CarverStart(s) PROVE TypeOK'
  BY <1>9 DEF CarverStart, ResumePoint, Goto
<1>10. ASSUME NEW s \in Scans, CarverEnd(s) PROVE TypeOK'
  BY <1>10, DiskSizeAssumption DEF CarverEnd, CarverReturns, Remaining, Fail, Goto
<1>11. ASSUME NEW s \in Scans, Validate(s) \/ Unregister(s) \/ CloseDone(s) PROVE TypeOK'
  <2>1. CASE Validate(s)
    BY <2>1 DEF Validate, Goto
  <2>2. CASE Unregister(s)
    BY <2>2 DEF Unregister, Goto
  <2>3. CASE CloseDone(s)
    BY <2>3 DEF CloseDone, Goto
  <2> QED
    BY <1>11, <2>1, <2>2, <2>3
<1>12. ASSUME NEW s \in Scans, IoStep(s) PROVE TypeOK'
  BY <1>12 DEF IoStep, ReadChunk, ChunkDone
<1>13. ASSUME NEW t \in Stoppers, StopCall(t) \/ StopPoll(t) PROVE TypeOK'
  BY <1>13 DEF StopCall, StopPoll, Snapshot
<1>14. ASSUME NEW t \in Stoppers, StopGiveUp(t) \/ StopReturn(t) PROVE TypeOK'
  BY <1>14 DEF StopGiveUp, StopReturn
<1>15. ASSUME NEW t \in Stoppers, StopCancel(t) \/ StopCloseHandle(t) PROVE TypeOK'
  BY <1>15 DEF StopCancel, StopCloseHandle
<1>16. ASSUME NEW off \in ResumeOffsets, SetResumeCarverOffset(off) PROVE TypeOK'
  BY <1>16, ResumeAssumption DEF SetResumeCarverOffset
<1>17. CASE UNCHANGED vars
  BY <1>17 DEF vars
<1> QED
  BY <1>1, <1>2, <1>3, <1>4, <1>5, <1>6, <1>7, <1>8, <1>9, <1>10, <1>11, <1>12,
     <1>13, <1>14, <1>15, <1>16, <1>17 DEF Next, ScanStep, StopStep

(* Every reachable state of the engine is well typed, whatever the number   *)
(* of scans, stages and chunks.                                             *)
THEOREM TypeCorrect == Spec => []TypeOK
BY TypeInit, TypeNext, PTL DEF Spec

-----------------------------------------------------------------------------
(* The slot and the calls of Stop.                                          *)
LEMMA SlotInvInit == Init => SlotInv
BY NoneAssumption DEF Init, SlotInv, Begun, Registered, Committed

LEMMA SlotInvNext ==
  ASSUME TypeOK, SlotInv, [Next]_vars PROVE SlotInv'
<1> USE NoneAssumption DEF SlotInv, Begun, Committed, TypeOK, Phases, Registered,
            StopPhases, slotVars, carverVars, localVars, ctxVars, stopVars,
            resumeVars
<1>1. ASSUME NEW s \in Scans, NEW m \in Modes, Launch(s, m) PROVE SlotInv'
  BY <1>1 DEF Launch, Goto
<1>2. ASSUME NEW s \in Scans, OpenFail(s) PROVE SlotInv'
  BY <1>2 DEF OpenFail, Goto
<1>3. ASSUME NEW s \in Scans, Wrap(s) PROVE SlotInv'
  BY <1>3 DEF Wrap, Goto
<1>4. ASSUME NEW s \in Scans, Refuse(s) PROVE SlotInv'
  BY <1>4 DEF Refuse, Goto
<1>5. ASSUME NEW s \in Scans, Register(s) PROVE SlotInv'
  BY <1>5 DEF Register, TakeSlot, FirstPhase, Goto
<1>6. ASSUME NEW s \in Scans, Find(s) PROVE SlotInv'
  BY <1>6 DEF Find
<1>7. ASSUME NEW s \in Scans, FullStageEnd(s) PROVE SlotInv'
  BY <1>7 DEF FullStageEnd, Fail, Goto
<1>8. ASSUME NEW s \in Scans, QuickStageEnd(s) PROVE SlotInv'
  BY <1>8 DEF QuickStageEnd, Fail, Goto
<1>9. ASSUME NEW s \in Scans, PopResumeCarverOffset(s) PROVE SlotInv'
  BY <1>9 DEF PopResumeCarverOffset, Goto
<1>10. ASSUME NEW s \in Scans, SizeFail(s) PROVE SlotInv'
  BY <1>10 DEF SizeFail, CarverReturns, Fail, Goto
<1>11. ASSUME NEW s \in Scans, CarverStart(s) PROVE SlotInv'
  BY <1>11 DEF CarverStart, ResumePoint, Goto
<1>12. ASSUME NEW s \in Scans, CarverEnd(s) PROVE SlotInv'
  BY <1>12 DEF CarverEnd, CarverReturns, Remaining, Fail, Goto
<1>13. ASSUME NEW s \in Scans, Validate(s) PROVE SlotInv'
  BY <1>13 DEF Validate, Goto
<1>14. ASSUME NEW s \in Scans, Unregister(s) PROVE SlotInv'
  BY <1>14 DEF Unregister, Goto
<1>15. ASSUME NEW s \in Scans, CloseDone(s) PROVE SlotInv'
  BY <1>15 DEF CloseDone, Goto
<1>16. ASSUME NEW s \in Scans, ReadChunk(s) PROVE SlotInv'
  BY <1>16 DEF ReadChunk, Remaining
<1>17. ASSUME NEW s \in Scans, ChunkDone(s) PROVE SlotInv'
  BY <1>17 DEF ChunkDone
<1>18. ASSUME NEW t \in Stoppers, StopCall(t) PROVE SlotInv'
  BY <1>18 DEF StopCall, Snapshot
<1>19. ASSUME NEW t \in Stoppers, StopPoll(t) PROVE SlotInv'
  BY <1>19 DEF StopPoll, Snapshot
<1>20. ASSUME NEW t \in Stoppers, StopGiveUp(t) PROVE SlotInv'
  BY <1>20 DEF StopGiveUp
<1>21. ASSUME NEW t \in Stoppers, StopCancel(t) PROVE SlotInv'
  BY <1>21 DEF StopCancel
<1>22. ASSUME NEW t \in Stoppers, StopCloseHandle(t) PROVE SlotInv'
  BY <1>22 DEF StopCloseHandle
<1>23. ASSUME NEW t \in Stoppers, StopReturn(t) PROVE SlotInv'
  BY <1>23 DEF StopReturn
<1>24. ASSUME NEW off \in ResumeOffsets, SetResumeCarverOffset(off) PROVE SlotInv'
  BY <1>24 DEF SetResumeCarverOffset
<1>25. CASE UNCHANGED vars
  BY <1>25 DEF vars
<1> QED
  BY <1>1, <1>2, <1>3, <1>4, <1>5, <1>6, <1>7, <1>8, <1>9, <1>10, <1>11,
     <1>12, <1>13, <1>14, <1>15, <1>16, <1>17, <1>18, <1>19, <1>20, <1>21,
     <1>22, <1>23, <1>24, <1>25 DEF Next, ScanStep, IoStep, StopStep

LEMMA SlotInvariant == Spec => [](TypeOK /\ SlotInv)
BY TypeInit, TypeNext, SlotInvInit, SlotInvNext, PTL DEF Spec

-----------------------------------------------------------------------------
(* The carver's start and the chunks it counts.                               *)
LEMMA CarverInvInit == Init => CarverInv
<1> SUFFICES ASSUME Init, NEW s \in Scans
             PROVE  ~(s \in reading \/ bytesScanned[s] > 0 \/ carverEng = s) /\ pc[s] = "idle"
  BY DEF CarverInv
<1> QED
  BY NoneAssumption DEF Init

LEMMA CarverInvNext ==
  ASSUME TypeOK, CarverInv, [Next]_vars PROVE CarverInv'
<1> USE NoneAssumption, DiskSizeAssumption DEF CarverInv, TypeOK, Phases,
            Registered, slotVars, carverVars, localVars, ctxVars, stopVars,
            resumeVars
<1>1. ASSUME NEW s \in Scans, NEW m \in Modes, Launch(s, m) PROVE CarverInv'
  BY <1>1 DEF Launch, Goto
<1>2. ASSUME NEW s \in Scans, OpenFail(s) PROVE CarverInv'
  BY <1>2 DEF OpenFail, Goto
<1>3. ASSUME NEW s \in Scans, Wrap(s) PROVE CarverInv'
  BY <1>3 DEF Wrap, Goto
<1>4. ASSUME NEW s \in Scans, Refuse(s) PROVE CarverInv'
  BY <1>4 DEF Refuse, Goto
<1>5. ASSUME NEW s \in Scans, Register(s) PROVE CarverInv'
  BY <1>5 DEF Register, TakeSlot, FirstPhase, Goto
<1>6. ASSUME NEW s \in Scans, Find(s) PROVE CarverInv'
  BY <1>6 DEF Find
<1>7. ASSUME NEW s \in Scans, FullStageEnd(s) PROVE CarverInv'
  BY <1>7 DEF FullStageEnd, Fail, Goto
<1>8. ASSUME NEW s \in Scans, QuickStageEnd(s) PROVE CarverInv'
  BY <1>8 DEF QuickStageEnd, Fail, Goto
<1>9. ASSUME NEW s \in Scans, PopResumeCarverOffset(s) PROVE CarverInv'
  BY <1>9 DEF PopResumeCarverOffset, Goto
<1>10. ASSUME NEW s \in Scans, SizeFail(s) PROVE CarverInv'
  BY <1>10 DEF SizeFail, CarverReturns, Fail, Goto
<1>11. ASSUME NEW s \in Scans, CarverStart(s) PROVE CarverInv'
  BY <1>11 DEF CarverStart, ResumePoint, Goto
<1>12. ASSUME NEW s \in Scans, CarverEnd(s) PROVE CarverInv'
  BY <1>12 DEF CarverEnd, CarverReturns, Remaining, Fail, Goto
<1>13. ASSUME NEW s \in Scans, Validate(s) PROVE CarverInv'
  BY <1>13 DEF Validate, Goto
<1>14. ASSUME NEW s \in Scans, Unregister(s) PROVE CarverInv'
  BY <1>14 DEF Unregister, Goto
<1>15. ASSUME NEW s \in Scans, CloseDone(s) PROVE CarverInv'
  BY <1>15 DEF CloseDone, Goto
<1>16. ASSUME NEW s \in Scans, ReadChunk(s) PROVE CarverInv'
  BY <1>16 DEF ReadChunk, Remaining
<1>17. ASSUME NEW s \in Scans, ChunkDone(s) PROVE CarverInv'
  BY <1>17 DEF ChunkDone
<1>18. ASSUME NEW t \in Stoppers, StopCall(t) PROVE CarverInv'
  BY <1>18 DEF StopCall, Snapshot
<1>19. ASSUME NEW t \in Stoppers, StopPoll(t) PROVE CarverInv'
  BY <1>19 DEF StopPoll, Snapshot
<1>20. ASSUME NEW t \in Stoppers, StopGiveUp(t) PROVE CarverInv'
  BY <1>20 DEF StopGiveUp
<1>21. ASSUME NEW t \in Stoppers, StopCancel(t) PROVE CarverInv'
  BY <1>21 DEF StopCancel
<1>22. ASSUME NEW t \in Stoppers, StopCloseHandle(t) PROVE CarverInv'
  BY <1>22 DEF StopCloseHandle
<1>23. ASSUME NEW t \in Stoppers, StopReturn(t) PROVE CarverInv'
  BY <1>23 DEF StopReturn
<1>24. ASSUME NEW off \in ResumeOffsets, SetResumeCarverOffset(off) PROVE CarverInv'
  BY <1>24 DEF SetResumeCarverOffset
<1>25. CASE UNCHANGED vars
  BY <1>25 DEF vars
<1> QED
  BY <1>1, <1>2, <1>3, <1>4, <1>5, <1>6, <1>7, <1>8, <1>9, <1>10, <1>11,
     <1>12, <1>13, <1>14, <1>15, <1>16, <1>17, <1>18, <1>19, <1>20, <1>21,
     <1>22, <1>23, <1>24, <1>25 DEF Next, ScanStep, IoStep, StopStep

LEMMA CarverInvariant == Spec => [](TypeOK /\ CarverInv)
BY TypeInit, TypeNext, CarverInvInit, CarverInvNext, PTL DEF Spec

(* The offset persistLoop saves is an offset of the device: no interleaving *)
(* of a cancelled carver's last chunk with the next scan takes it past the  *)
(* end.                                                                     *)
THEOREM OffsetStaysOnDevice == Spec => []CarverOffsetOnDevice
<1>1. TypeOK /\ CarverInv => CarverOffsetOnDevice
  BY DiskSizeAssumption DEF TypeOK, CarverInv, CarverOffsetOnDevice, CurrentCarverOffset
<1> QED
  BY <1>1, CarverInvariant, PTL

-----------------------------------------------------------------------------
(* Scans that were cut short.                                               *)
LEMMA CutInvInit == Init => CutInv
BY DEF Init, CutInv

LEMMA CutInvNext ==
  ASSUME TypeOK, CutInv, [Next]_vars PROVE CutInv'
<1> USE DiskSizeAssumption DEF CutInv, TypeOK, Phases, Registered, slotVars,
            carverVars, localVars, ctxVars, stopVars, resumeVars
<1>1. ASSUME NEW s \in Scans, NEW m \in Modes, Launch(s, m) PROVE CutInv'
  BY <1>1 DEF Launch, Goto
<1>2. ASSUME NEW s \in Scans, OpenFail(s) PROVE CutInv'
  BY <1>2 DEF OpenFail, Goto
<1>3. ASSUME NEW s \in Scans, Wrap(s) PROVE CutInv'
  BY <1>3 DEF Wrap, Goto
<1>4. ASSUME NEW s \in Scans, Refuse(s) PROVE CutInv'
  BY <1>4 DEF Refuse, Goto
<1>5. ASSUME NEW s \in Scans, Register(s) PROVE CutInv'
  BY <1>5 DEF Register, TakeSlot, FirstPhase, Goto
<1>6. ASSUME NEW s \in Scans, Find(s) PROVE CutInv'
  BY <1>6 DEF Find
<1>7. ASSUME NEW s \in Scans, FullStageEnd(s) PROVE CutInv'
  BY <1>7 DEF FullStageEnd, Fail, Goto
<1>8. ASSUME NEW s \in Scans, QuickStageEnd(s) PROVE CutInv'
  BY <1>8 DEF QuickStageEnd, Fail, Goto
<1>9. ASSUME NEW s \in Scans, PopResumeCarverOffset(s) PROVE CutInv'
  BY <1>9 DEF PopResumeCarverOffset, Goto
<1>10. ASSUME NEW s \in Scans, SizeFail(s) PROVE CutInv'
  BY <1>10 DEF SizeFail, CarverReturns, Fail, Goto
<1>11. ASSUME NEW s \in Scans, CarverStart(s) PROVE CutInv'
  BY <1>11 DEF CarverStart, ResumePoint, Goto
<1>12. ASSUME NEW s \in Scans, CarverEnd(s) PROVE CutInv'
  BY <1>12 DEF CarverEnd, CarverReturns, Remaining, Fail, Goto
<1>13. ASSUME NEW s \in Scans, Validate(s) PROVE CutInv'
  BY <1>13 DEF Validate, Goto
<1>14. ASSUME NEW s \in Scans, Unregister(s) PROVE CutInv'
  BY <1>14 DEF Unregister, Goto
<1>15. ASSUME NEW s \in Scans, CloseDone(s) PROVE CutInv'
  BY <1>15 DEF CloseDone, Goto
<1>16. ASSUME NEW s \in Scans, ReadChunk(s) PROVE CutInv'
  BY <1>16 DEF ReadChunk, Remaining
<1>17. ASSUME NEW s \in Scans, ChunkDone(s) PROVE CutInv'
  BY <1>17 DEF ChunkDone
<1>18. ASSUME NEW t \in Stoppers, StopCall(t) PROVE CutInv'
  BY <1>18 DEF StopCall, Snapshot
<1>19. ASSUME NEW t \in Stoppers, StopPoll(t) PROVE CutInv'
  BY <1>19 DEF StopPoll, Snapshot
<1>20. ASSUME NEW t \in Stoppers, StopGiveUp(t) PROVE CutInv'
  BY <1>20 DEF StopGiveUp
<1>21. ASSUME NEW t \in Stoppers, StopCancel(t) PROVE CutInv'
  BY <1>21 DEF StopCancel
<1>22. ASSUME NEW t \in Stoppers, StopCloseHandle(t) PROVE CutInv'
  BY <1>22 DEF StopCloseHandle
<1>23. ASSUME NEW t \in Stoppers, StopReturn(t) PROVE CutInv'
  BY <1>23 DEF StopReturn
<1>24. ASSUME NEW off \in ResumeOffsets, SetResumeCarverOffset(off) PROVE CutInv'
  BY <1>24 DEF SetResumeCarverOffset
<1>25. CASE UNCHANGED vars
  BY <1>25 DEF vars
<1> QED
  BY <1>1, <1>2, <1>3, <1>4, <1>5, <1>6, <1>7, <1>8, <1>9, <1>10, <1>11,
     <1>12, <1>13, <1>14, <1>15, <1>16, <1>17, <1>18, <1>19, <1>20, <1>21,
     <1>22, <1>23, <1>24, <1>25 DEF Next, ScanStep, IoStep, StopStep

(* A full or deep scan that returns a result was never cut short, however   *)
(* the calls of Stop interleave with its stages.                            *)
THEOREM SuccessCoversTheDisk == Spec => []SuccessIsWhole
<1>1. TypeOK /\ CutInv => SuccessIsWhole
  BY DEF TypeOK, CutInv, SuccessIsWhole
<1>2. Spec => [](TypeOK /\ CutInv)
  BY TypeInit, TypeNext, CutInvInit, CutInvNext, PTL DEF Spec
<1> QED
  BY <1>1, <1>2, PTL

-----------------------------------------------------------------------------
(* What the slot invariant gives.                                           *)

(* The flag, the phases and the three fields Stop reads agree in every      *)
(* reachable state; in particular two scans never run at once.              *)
THEOREM SlotIsConsistent == Spec => []SlotConsistent
<1>1. TypeOK /\ SlotInv => SlotConsistent
  BY NoneAssumption DEF TypeOK, SlotInv, SlotConsistent
<1> QED
  BY <1>1, SlotInvariant, PTL

(* A Stop that waits for a running scan has cancelled it.                   *)
THEOREM StopNeverWaitsInVain == Spec => []WaitedScanIsCancelled
<1>1. SlotInv => WaitedScanIsCancelled
  BY DEF SlotInv, WaitedScanIsCancelled, Committed
<1> QED
  BY <1>1, SlotInvariant, PTL

(* No call of Stop, however late, closes the handle of a scan that was not  *)
(* told to stop.                                                            *)
THEOREM HandleOutlivesContext == Spec => []HandleClosedOnlyAfterCancel
<1>1. SlotInv => HandleClosedOnlyAfterCancel
  BY DEF SlotInv, HandleClosedOnlyAfterCancel
<1> QED
  BY <1>1, SlotInvariant, PTL

(* The files in results belong to the scan whose reader the engine holds.   *)
THEOREM ResultsMatchReader == Spec => []ResultsOfCurrentReader
<1>1. SlotInv => ResultsOfCurrentReader
  BY DEF SlotInv, ResultsOfCurrentReader
<1> QED
  BY <1>1, SlotInvariant, PTL

-----------------------------------------------------------------------------
(* Results survive refused calls.                                           *)

(* No step takes the results away from the scan that is running, a refused  *)
(* call of ScanWithOptions included.                                        *)
THEOREM ResultsSurviveRefusal == Spec => RunningScanKeepsResults
<1> DEFINE Kept == \A s \in results : pc[s] \in Registered => s \in results'
<1>1. ASSUME TypeOK, SlotInv, [Next]_vars PROVE [Kept]_vars
  <2> USE DEF TypeOK, slotVars, carverVars, localVars, ctxVars, stopVars, resumeVars
  <2>1. ASSUME NEW s \in Scans, Register(s) PROVE Kept
    BY <1>1, <2>1 DEF Register, TakeSlot, SlotInv
  <2>2. ASSUME NEW s \in Scans, Find(s) PROVE Kept
    BY <2>2 DEF Find
  <2>3. ASSUME results' = results PROVE Kept
    BY <2>3
  <2>4. \/ \E s \in Scans : Register(s) \/ Find(s)
        \/ results' = results
    <3>1. ASSUME NEW s \in Scans, ScanStep(s)
          PROVE  Register(s) \/ Find(s) \/ results' = results
      BY <3>1 DEF ScanStep, OpenFail, Wrap, Refuse, FullStageEnd, QuickStageEnd,
         PopResumeCarverOffset, SizeFail, CarverStart, CarverEnd, Validate, Unregister, CloseDone
    <3>2. ASSUME NEW s \in Scans, IoStep(s) PROVE results' = results
      BY <3>2 DEF IoStep, ReadChunk, ChunkDone
    <3>3. ASSUME NEW t \in Stoppers, StopStep(t) PROVE results' = results
      BY <3>3 DEF StopStep, StopPoll, StopGiveUp, StopCancel, StopCloseHandle, StopReturn
    <3>4. ASSUME NEW s \in Scans, NEW m \in Modes, Launch(s, m) PROVE results' = results
      BY <3>4 DEF Launch
    <3>5. ASSUME NEW t \in Stoppers, StopCall(t) PROVE results' = results
      BY <3>5 DEF StopCall
    <3>6. ASSUME NEW off \in ResumeOffsets, SetResumeCarverOffset(off) PROVE results' = results
      BY <3>6 DEF SetResumeCarverOffset
    <3>7. CASE UNCHANGED vars
      BY <3>7 DEF vars
    <3> QED
      BY <1>1, <3>1, <3>2, <3>3, <3>4, <3>5, <3>6, <3>7 DEF Next
  <2> QED
    BY <2>1, <2>2, <2>3, <2>4
<1> QED
  BY <1>1, SlotInvariant, PTL DEF Spec, RunningScanKeepsResults

-----------------------------------------------------------------------------
(* The engine implements the slot.                                          *)
LEMMA SlotInitMaps == Init => Slot!Init
BY DEF Init, Slot!Init, SlotStatus, Registered

(* A step of one program counter is a step of one status.                   *)
LEMMA StatusValues ==
  /\ \A p \in Registered : SlotStatus(p) = "running"
  /\ \A p \in {"idle", "opening", "wrapped"} : SlotStatus(p) = "new"
  /\ SlotStatus("closing") = "leaving"
  /\ SlotStatus("over") = "over"
  /\ SlotStatus("refused") = "refused"
BY DEF SlotStatus, Registered

LEMMA GotoMaps ==
  ASSUME TypeOK, NEW s \in Scans, NEW p, Goto(s, p)
  PROVE  [x \in Scans |-> SlotStatus(pc[x])'] =
           [[x \in Scans |-> SlotStatus(pc[x])] EXCEPT ![s] = SlotStatus(p)]
BY DEF TypeOK, Goto

LEMMA SlotStepMaps ==
  ASSUME TypeOK, SlotInv, [Next]_vars PROVE [Slot!Next]_(Slot!vars)
<1> USE NoneAssumption DEF TypeOK, Phases, Registered, StopPhases, Slot!vars,
            slotVars, carverVars, localVars, ctxVars, stopVars, resumeVars
<1>1. ASSUME NEW s \in Scans, NEW m \in Modes, Launch(s, m) PROVE [Slot!Next]_(Slot!vars)
  BY <1>1 DEF Launch, Goto, SlotStatus
<1>2. ASSUME NEW s \in Scans, OpenFail(s) PROVE [Slot!Next]_(Slot!vars)
  <2>1. pc[s] = "opening" /\ Goto(s, "refused") /\ UNCHANGED <<scanning, scanDone, spc, sDone>>
    BY <1>2 DEF OpenFail
  <2>2. Slot!Refuse(s)
    BY <2>1, StatusValues, GotoMaps DEF Slot!Refuse
  <2> QED
    BY <2>2 DEF Slot!Next
<1>3. ASSUME NEW s \in Scans, Wrap(s) PROVE [Slot!Next]_(Slot!vars)
  BY <1>3 DEF Wrap, Goto, SlotStatus
<1>4. ASSUME NEW s \in Scans, Refuse(s) PROVE [Slot!Next]_(Slot!vars)
  <2>1. pc[s] = "wrapped" /\ Goto(s, "refused") /\ UNCHANGED <<scanning, scanDone, spc, sDone>>
    BY <1>4 DEF Refuse
  <2>2. Slot!Refuse(s)
    BY <2>1, StatusValues, GotoMaps DEF Slot!Refuse
  <2> QED
    BY <2>2 DEF Slot!Next
<1>5. ASSUME NEW s \in Scans, Register(s) PROVE [Slot!Next]_(Slot!vars)
  <2>1. /\ pc[s] = "wrapped" /\ ~scanning
        /\ scanning' = TRUE /\ scanDone' = s
        /\ Goto(s, FirstPhase(mode[s])) /\ UNCHANGED <<spc, sDone>>
    BY <1>5 DEF Register, TakeSlot
  <2>2. SlotStatus(FirstPhase(mode[s])) = "running"
    BY StatusValues DEF FirstPhase
  <2>3. [x \in Scans |-> SlotStatus(pc[x])'] =
          [[x \in Scans |-> SlotStatus(pc[x])] EXCEPT ![s] = "running"]
    BY <2>1, <2>2, GotoMaps
  <2>4. SlotStatus(pc[s]) = "new"
    BY <2>1, StatusValues
  <2>5. Slot!Claim(s)
    BY <2>1, <2>3, <2>4 DEF Slot!Claim
  <2> QED
    BY <2>5 DEF Slot!Next
<1>6. ASSUME NEW s \in Scans, Find(s) PROVE [Slot!Next]_(Slot!vars)
  BY <1>6 DEF Find, SlotStatus
<1>7. ASSUME NEW s \in Scans, FullStageEnd(s) PROVE [Slot!Next]_(Slot!vars)
  BY <1>7 DEF FullStageEnd, Fail, Goto, SlotStatus
<1>8. ASSUME NEW s \in Scans, QuickStageEnd(s) PROVE [Slot!Next]_(Slot!vars)
  BY <1>8 DEF QuickStageEnd, Fail, Goto, SlotStatus
<1>9. ASSUME NEW s \in Scans, PopResumeCarverOffset(s) PROVE [Slot!Next]_(Slot!vars)
  BY <1>9 DEF PopResumeCarverOffset, Goto, SlotStatus
<1>10. ASSUME NEW s \in Scans, SizeFail(s) PROVE [Slot!Next]_(Slot!vars)
  BY <1>10 DEF SizeFail, CarverReturns, Fail, Goto, SlotStatus
<1>11. ASSUME NEW s \in Scans, CarverStart(s) PROVE [Slot!Next]_(Slot!vars)
  BY <1>11 DEF CarverStart, ResumePoint, Goto, SlotStatus
<1>12. ASSUME NEW s \in Scans, CarverEnd(s) PROVE [Slot!Next]_(Slot!vars)
  BY <1>12 DEF CarverEnd, CarverReturns, Remaining, Fail, Goto, SlotStatus
<1>13. ASSUME NEW s \in Scans, Validate(s) PROVE [Slot!Next]_(Slot!vars)
  BY <1>13 DEF Validate, Goto, SlotStatus
<1>14. ASSUME NEW s \in Scans, Unregister(s) PROVE [Slot!Next]_(Slot!vars)
  <2>1. /\ pc[s] = "leave" /\ Goto(s, "closing")
        /\ scanning' = FALSE /\ UNCHANGED <<scanDone, spc, sDone>>
    BY <1>14 DEF Unregister
  <2>2. scanning /\ scanDone = s
    BY <2>1 DEF SlotInv
  <2>3. [x \in Scans |-> SlotStatus(pc[x])'] =
          [[x \in Scans |-> SlotStatus(pc[x])] EXCEPT ![s] = "leaving"]
    BY <2>1, StatusValues, GotoMaps
  <2>4. Slot!Release(s)
    BY <2>1, <2>2, <2>3 DEF Slot!Release
  <2> QED
    BY <2>4 DEF Slot!Next
<1>15. ASSUME NEW s \in Scans, CloseDone(s) PROVE [Slot!Next]_(Slot!vars)
  <2>1. pc[s] = "closing" /\ Goto(s, "over") /\ UNCHANGED <<scanning, scanDone, spc, sDone>>
    BY <1>15 DEF CloseDone
  <2>2. Slot!End(s)
    BY <2>1, StatusValues, GotoMaps DEF Slot!End
  <2> QED
    BY <2>2 DEF Slot!Next
<1>16. ASSUME NEW s \in Scans, ReadChunk(s) PROVE [Slot!Next]_(Slot!vars)
  BY <1>16 DEF ReadChunk, Remaining, SlotStatus
<1>17. ASSUME NEW s \in Scans, ChunkDone(s) PROVE [Slot!Next]_(Slot!vars)
  BY <1>17 DEF ChunkDone, SlotStatus
<1>18. ASSUME NEW t \in Stoppers, StopCall(t) PROVE [Slot!Next]_(Slot!vars)
  <2>1. CASE scanDone = None
    BY <1>18, <2>1 DEF StopCall, Snapshot
  <2>2. CASE scanDone # None
    <3>1. Slot!Await(t)
      BY <1>18, <2>2 DEF StopCall, Snapshot, Slot!Await
    <3> QED
      BY <3>1 DEF Slot!Next
  <2> QED
    BY <2>1, <2>2
<1>19. ASSUME NEW t \in Stoppers, StopPoll(t) PROVE [Slot!Next]_(Slot!vars)
  <2>1. CASE scanDone = None
    BY <1>19, <2>1 DEF StopPoll, Snapshot
  <2>2. CASE scanDone # None
    <3>1. Slot!Await(t)
      BY <1>19, <2>2 DEF StopPoll, Snapshot, Slot!Await
    <3> QED
      BY <3>1 DEF Slot!Next
  <2> QED
    BY <2>1, <2>2
<1>20. ASSUME NEW t \in Stoppers, StopGiveUp(t) PROVE [Slot!Next]_(Slot!vars)
  BY <1>20 DEF StopGiveUp, SlotStatus
<1>21. ASSUME NEW t \in Stoppers, StopCancel(t) PROVE [Slot!Next]_(Slot!vars)
  BY <1>21 DEF StopCancel, SlotStatus
<1>22. ASSUME NEW t \in Stoppers, StopCloseHandle(t) PROVE [Slot!Next]_(Slot!vars)
  BY <1>22 DEF StopCloseHandle, SlotStatus
<1>23. ASSUME NEW t \in Stoppers, StopReturn(t) PROVE [Slot!Next]_(Slot!vars)
  <2>1. Slot!Return(t)
    BY <1>23, StatusValues, GotoMaps DEF SlotInv, Begun, Committed, StopReturn,
       Slot!Return
  <2> QED
    BY <2>1 DEF Slot!Next
<1>24. ASSUME NEW off \in ResumeOffsets, SetResumeCarverOffset(off) PROVE [Slot!Next]_(Slot!vars)
  BY <1>24 DEF SetResumeCarverOffset, SlotStatus
<1>25. CASE UNCHANGED vars
  BY <1>25 DEF vars
<1> QED
  BY <1>1, <1>2, <1>3, <1>4, <1>5, <1>6, <1>7, <1>8, <1>9, <1>10, <1>11,
     <1>12, <1>13, <1>14, <1>15, <1>16, <1>17, <1>18, <1>19, <1>20, <1>21,
     <1>22, <1>23, <1>24, <1>25 DEF Next, ScanStep, IoStep, StopStep

(* Every behaviour of the engine is a behaviour of the scan slot: scans own *)
(* it one at a time, and a Stop that found a scan returns only when that    *)
(* scan has closed its done channel.                                        *)
THEOREM EngineImplementsSlot == Spec => ImplementsSlot
BY SlotInitMaps, SlotStepMaps, SlotInvariant, PTL DEF Spec, Slot!Spec, ImplementsSlot

-----------------------------------------------------------------------------
(* Why scans and calls of Stop end: the safety half, for every value of the *)
(* constants.                                                               *)

(* Only a quick or a full scan walks through file-system stages, and it has *)
(* at least one to go.                                                      *)
StageInv ==
  \A s \in Scans :
    /\ pc[s] \in {"idle", "opening", "wrapped"} => stage[s] = 0
    /\ pc[s] = "fs" => mode[s] \in {"quick", "full"} /\ stage[s] < FsStages

LEMMA StageInvInit == Init => StageInv
<1> SUFFICES ASSUME Init, NEW s \in Scans PROVE pc[s] = "idle" /\ stage[s] = 0
  BY DEF StageInv
<1> QED
  BY DEF Init

LEMMA StageInvNext ==
  ASSUME TypeOK, StageInv, [Next]_vars PROVE StageInv'
<1> USE FsStagesAssumption DEF StageInv, TypeOK, slotVars, carverVars, localVars, ctxVars,
    stopVars, resumeVars
<1>0. ASSUME NEW s \in Scans, NEW p \in Phases \ {"idle", "opening", "wrapped", "fs"},
             Goto(s, p), UNCHANGED <<mode, stage>>
      PROVE  StageInv'
  BY <1>0 DEF Goto
<1>1. ASSUME NEW s \in Scans, NEW m \in Modes, Launch(s, m) PROVE StageInv'
  BY <1>1 DEF Launch, Goto
<1>2. ASSUME NEW s \in Scans, OpenFail(s) \/ Refuse(s) PROVE StageInv'
  BY <1>0, <1>2 DEF OpenFail, Refuse, Phases
<1>3. ASSUME NEW s \in Scans, Wrap(s) PROVE StageInv'
  BY <1>3 DEF Wrap, Goto
<1>4. ASSUME NEW s \in Scans, Register(s) PROVE StageInv'
  <2>1. pc[s] = "wrapped" /\ Goto(s, FirstPhase(mode[s])) /\ UNCHANGED <<mode, stage>>
    BY <1>4 DEF Register, TakeSlot
  <2>2. FirstPhase(mode[s]) = "fs" => mode[s] \in {"quick", "full"}
    BY DEF FirstPhase, Modes
  <2> QED
    BY <2>1, <2>2 DEF Goto
<1>5. ASSUME NEW s \in Scans, FullStageEnd(s) PROVE StageInv'
  <2>1. CASE s \in ctxDone
    BY <1>0, <1>5, <2>1 DEF FullStageEnd, Fail, Phases, Registered
  <2>2. CASE s \notin ctxDone
    <3>1. /\ pc[s] = "fs" /\ mode[s] = "full" /\ mode' = mode
          /\ stage' = [stage EXCEPT ![s] = @ + 1]
          /\ Goto(s, IF stage[s] + 1 = FsStages THEN "pop" ELSE "fs")
      BY <1>5, <2>2 DEF FullStageEnd
    <3>2. stage[s] < FsStages /\ stage[s] \in Nat
      BY <3>1
    <3> QED
      BY <3>1, <3>2 DEF Goto
  <2> QED
    BY <2>1, <2>2
<1>6. ASSUME NEW s \in Scans, QuickStageEnd(s) PROVE StageInv'
  BY <1>0, <1>6 DEF QuickStageEnd, Fail, Phases, Registered
<1>7. ASSUME NEW s \in Scans, PopResumeCarverOffset(s) \/ CarverStart(s) PROVE StageInv'
  BY <1>0, <1>7 DEF PopResumeCarverOffset, CarverStart, Phases, Registered
<1>8. ASSUME NEW s \in Scans, SizeFail(s) \/ CarverEnd(s) PROVE StageInv'
  BY <1>0, <1>8 DEF SizeFail, CarverEnd, CarverReturns, Fail, Phases, Registered
<1>9. ASSUME NEW s \in Scans, Validate(s) \/ Unregister(s) \/ CloseDone(s) PROVE StageInv'
  BY <1>0, <1>9 DEF Validate, Unregister, CloseDone, Phases, Registered
<1>10. ASSUME UNCHANGED <<pc, mode, stage>> PROVE StageInv'
  BY <1>10
<1>11. ASSUME NEW s \in Scans, IoStep(s) \/ Find(s) PROVE StageInv'
  BY <1>10, <1>11 DEF IoStep, ReadChunk, ChunkDone, Find
<1>12. ASSUME NEW t \in Stoppers, StopStep(t) \/ StopCall(t) PROVE StageInv'
  BY <1>10, <1>12 DEF StopStep, StopPoll, StopGiveUp, StopCancel, StopCloseHandle, StopReturn,
     StopCall
<1>13. ASSUME NEW off \in ResumeOffsets, SetResumeCarverOffset(off) PROVE StageInv'
  BY <1>10, <1>13 DEF SetResumeCarverOffset
<1>14. CASE UNCHANGED vars
  BY <1>10, <1>14 DEF vars
<1> HIDE DEF StageInv, TypeOK
<1> QED
  BY <1>1, <1>2, <1>3, <1>4, <1>5, <1>6, <1>7, <1>8, <1>9, <1>11, <1>12, <1>13, <1>14
  DEF Next, ScanStep

LEMMA StageInvariant == Spec => [](TypeOK /\ StageInv)
<1>1. Init => TypeOK /\ StageInv
  BY TypeInit, StageInvInit
<1>2. (TypeOK /\ StageInv) /\ [Next]_vars => (TypeOK /\ StageInv)'
  BY TypeNext, StageInvNext
<1> QED
  BY <1>1, <1>2, PTL DEF Spec

(* When a scan that was called can go: everywhere but in the carver, whose  *)
(* end waits for the last chunk unless the scan is cancelled.               *)
ScanGoes(s) ==
  \/ pc[s] \in {"opening", "wrapped", "pop", "size", "verify", "leave", "closing"}
  \/ pc[s] = "fs" /\ mode[s] \in {"quick", "full"}
  \/ pc[s] = "carve" /\ (s \in ctxDone \/ (s \notin reading /\ Remaining(s) = 0))

IoGoes(s) ==
  \/ pc[s] = "carve" /\ s \notin ctxDone /\ s \notin reading /\ Remaining(s) > 0
  \/ s \in reading

(* A call of Stop waits for one thing: the done channel it found.           *)
StopGoes(t) ==
  \/ spc[t] \in {"cancel", "close", "poll"}
  \/ spc[t] = "wait" /\ sDone[t] # None /\ pc[sDone[t]] = "over"

NobodyStands ==
  /\ \A s \in Scans : pc[s] \notin {"idle", "over", "refused"} => ScanGoes(s) \/ IoGoes(s)
  /\ \A t \in Stoppers : spc[t] # "idle" =>
       \/ StopGoes(t)
       \/ \E s \in Scans : sDone[t] = s /\ s \in ctxDone /\ ScanGoes(s)

(* A scan that was called can always go on, by itself or by the return of   *)
(* the ReadAt it is in.  A call of Stop can go on too, or the scan it waits *)
(* for is cancelled and can go on without any more reads: Stop cannot hang. *)
THEOREM EngineNeverStands == Spec => []NobodyStands
<1>1. ASSUME TypeOK, SlotInv, CarverInv, StageInv PROVE NobodyStands
  <2>1. ASSUME NEW s \in Scans, pc[s] \notin {"idle", "over", "refused"},
               s \in ctxDone \/ ~ IoGoes(s)
        PROVE  ScanGoes(s)
    <3>1. pc[s] \in Phases
      BY <1>1 DEF TypeOK
    <3>2. CASE pc[s] = "fs"
      BY <1>1, <3>2 DEF ScanGoes, StageInv
    <3>3. CASE pc[s] = "carve" /\ s \notin ctxDone
      <4>1. s \notin reading /\ ~(Remaining(s) > 0)
        BY <2>1, <3>3 DEF IoGoes
      <4>2. start[s] + bytesScanned[s] <= DiskSize /\ start[s] \in Nat /\ bytesScanned[s] \in Nat
        BY <1>1, <3>3 DEF CarverInv, TypeOK
      <4>3. Remaining(s) = 0
        BY <4>1, <4>2, DiskSizeAssumption DEF Remaining
      <4> QED
        BY <3>3, <4>1, <4>3 DEF ScanGoes
    <3> QED
      BY <2>1, <3>1, <3>2, <3>3 DEF ScanGoes, Phases, Registered
  <2>2. ASSUME NEW t \in Stoppers, spc[t] # "idle", ~ StopGoes(t)
        PROVE  \E s \in Scans : sDone[t] = s /\ s \in ctxDone /\ ScanGoes(s)
    <3>1. spc[t] = "wait"
      BY <1>1, <2>2 DEF StopGoes, TypeOK, StopPhases
    <3>2. /\ sDone[t] \in Scans /\ pc[sDone[t]] \in Begun /\ sDone[t] \in ctxDone
          /\ sDone[t] # None
      BY <1>1, <3>1, NoneAssumption DEF SlotInv, Committed
    <3>3. pc[sDone[t]] \notin {"idle", "over", "refused"}
      BY <2>2, <3>1, <3>2 DEF StopGoes, Begun, Registered
    <3> QED
      BY <2>1, <3>2, <3>3
  <2> QED
    BY <2>1, <2>2 DEF NobodyStands
<1> QED
  BY <1>1, SlotInvariant, CarverInvariant, StageInvariant, PTL

(* What a scan has left to do: its phases, the stages of a full scan, and   *)
(* for each chunk the call of ReadAt and its return.                        *)
PhaseLeft(p) ==
  CASE p = "idle" -> 11 [] p = "opening" -> 10 [] p = "wrapped" -> 9 [] p = "fs" -> 8
    [] p = "pop" -> 7 [] p = "size" -> 6 [] p = "carve" -> 5 [] p = "verify" -> 4
    [] p = "leave" -> 3 [] p = "closing" -> 2 [] OTHER -> 0
ReadsLeft(s) == 2 * Remaining(s) - (IF s \in reading THEN 1 ELSE 0)

(* A cancelled scan may still come back from its last ReadAt, and starts no *)
(* other; that its context ends is the one thing others do to it.           *)
LessLeft(s) ==
  \/ PhaseLeft(pc'[s]) < PhaseLeft(pc[s])
  \/ /\ pc'[s] = pc[s]
     /\ FsStages - stage'[s] \in 0 .. (FsStages - stage[s] - 1)
  \/ /\ pc'[s] = pc[s] /\ stage'[s] = stage[s] /\ ctxDone' = ctxDone
     /\ IF s \in ctxDone THEN s \in reading /\ s \notin reading'
        ELSE ReadsLeft(s)' \in 0 .. (ReadsLeft(s) - 1)
Kept(s) ==
  /\ UNCHANGED <<pc[s], stage[s], start[s], bytesScanned[s], s \in reading>>
  /\ s \in ctxDone => s \in ctxDone'

OfScan(s) == ScanStep(s) \/ IoStep(s) \/ \E m \in Modes : Launch(s, m)

StopLeft(p) ==
  CASE p = "poll" -> 4 [] p = "cancel" -> 3 [] p = "close" -> 2 [] p = "wait" -> 1 [] OTHER -> 0

LEMMA ScanLowers ==
  ASSUME TypeOK, CarverInv, StageInv, NEW s \in Scans, OfScan(s)
  PROVE  LessLeft(s)
<1>1. /\ pc \in [Scans -> Phases] /\ stage \in [Scans -> Nat] /\ start \in [Scans -> Nat]
      /\ bytesScanned \in [Scans -> Nat] /\ mode \in [Scans -> Modes]
  BY DEF TypeOK
<1>2. ASSUME NEW p, Goto(s, p), PhaseLeft(p) < PhaseLeft(pc[s]) PROVE LessLeft(s)
  <2>1. pc'[s] = p
    BY <1>1, <1>2 DEF Goto
  <2> QED
    BY <1>2, <2>1 DEF LessLeft
<1>3. CASE \E m \in Modes : Launch(s, m)
  BY <1>2, <1>3 DEF Launch, PhaseLeft
<1>4. CASE OpenFail(s) \/ Wrap(s) \/ Refuse(s)
  BY <1>2, <1>4 DEF OpenFail, Wrap, Refuse, PhaseLeft
<1>5. CASE Register(s)
  <2>1. pc[s] = "wrapped" /\ Goto(s, FirstPhase(mode[s]))
    BY <1>5 DEF Register, TakeSlot
  <2>2. FirstPhase(mode[s]) \in {"pop", "leave", "fs"}
    BY DEF FirstPhase
  <2> QED
    BY <1>2, <2>1, <2>2 DEF PhaseLeft
<1>6. CASE FullStageEnd(s)
  <2>1. CASE s \in ctxDone
    BY <1>2, <1>6, <2>1 DEF FullStageEnd, Fail, PhaseLeft
  <2>2. CASE s \notin ctxDone
    <3>1. /\ pc[s] = "fs" /\ stage' = [stage EXCEPT ![s] = @ + 1]
          /\ Goto(s, IF stage[s] + 1 = FsStages THEN "pop" ELSE "fs")
      BY <1>6, <2>2 DEF FullStageEnd
    <3>2. CASE stage[s] + 1 = FsStages
      BY <1>2, <3>1, <3>2 DEF PhaseLeft
    <3>3. CASE stage[s] + 1 # FsStages
      <4>1. pc'[s] = pc[s] /\ stage'[s] = stage[s] + 1
        BY <1>1, <3>1, <3>3 DEF Goto
      <4>2. stage[s] < FsStages /\ stage[s] \in Nat /\ FsStages \in Nat
        BY <1>1, <3>1, FsStagesAssumption DEF StageInv
      <4>3. FsStages - stage'[s] \in 0 .. (FsStages - stage[s] - 1)
        BY <4>1, <4>2
      <4> QED
        BY <4>1, <4>3 DEF LessLeft
    <3> QED
      BY <3>2, <3>3
  <2> QED
    BY <2>1, <2>2
<1>7. CASE QuickStageEnd(s) \/ PopResumeCarverOffset(s) \/ CarverStart(s)
  BY <1>2, <1>7 DEF QuickStageEnd, PopResumeCarverOffset, CarverStart, Fail, PhaseLeft
<1>8. CASE SizeFail(s) \/ CarverEnd(s)
  BY <1>2, <1>8 DEF SizeFail, CarverEnd, CarverReturns, Fail, PhaseLeft
<1>9. CASE Validate(s) \/ Unregister(s) \/ CloseDone(s)
  BY <1>2, <1>9 DEF Validate, Unregister, CloseDone, PhaseLeft
<1>10. CASE ReadChunk(s)
  <2>1. /\ pc' = pc /\ stage' = stage /\ ctxDone' = ctxDone /\ s \notin ctxDone
        /\ s \notin reading /\ s \in reading' /\ UNCHANGED <<start, bytesScanned>>
        /\ Remaining(s) > 0
    BY <1>10 DEF ReadChunk, localVars, ctxVars
  <2>2. Remaining(s) \in Int /\ Remaining(s)' = Remaining(s)
    BY <1>1, <2>1, DiskSizeAssumption DEF Remaining
  <2>3. ReadsLeft(s) = 2 * Remaining(s) /\ ReadsLeft(s)' = 2 * Remaining(s) - 1
    BY <2>1, <2>2 DEF ReadsLeft
  <2>4. ReadsLeft(s)' \in 0 .. (ReadsLeft(s) - 1)
    BY <2>1, <2>2, <2>3
  <2> QED
    BY <2>1, <2>4 DEF LessLeft
<1>11. CASE ChunkDone(s)
  <2>1. /\ pc' = pc /\ stage' = stage /\ ctxDone' = ctxDone /\ start' = start
        /\ s \in reading /\ s \notin reading'
        /\ s \in ctxDone \/ bytesScanned' = [bytesScanned EXCEPT ![s] = @ + 1]
    BY <1>11 DEF ChunkDone, localVars, ctxVars
  <2>2. CASE s \in ctxDone
    BY <2>1, <2>2 DEF LessLeft
  <2>3. CASE s \notin ctxDone
    <3>1. bytesScanned'[s] = bytesScanned[s] + 1
      BY <1>1, <2>1, <2>3
    <3>2. start[s] + bytesScanned[s] < DiskSize /\ start[s] \in Nat /\ bytesScanned[s] \in Nat
          /\ DiskSize \in Nat
      BY <1>1, <2>1, DiskSizeAssumption DEF CarverInv
    <3>3. Remaining(s) \in Int /\ Remaining(s) > 0 /\ Remaining(s)' = Remaining(s) - 1
      BY <2>1, <3>1, <3>2 DEF Remaining
    <3>4. ReadsLeft(s) = 2 * Remaining(s) - 1 /\ ReadsLeft(s)' = 2 * Remaining(s) - 2
      BY <2>1, <3>3 DEF ReadsLeft
    <3>5. ReadsLeft(s)' \in 0 .. (ReadsLeft(s) - 1)
      BY <3>3, <3>4
    <3> QED
      BY <2>1, <2>3, <3>5 DEF LessLeft
  <2> QED
    BY <2>2, <2>3
<1> QED
  BY <1>3, <1>4, <1>5, <1>6, <1>7, <1>8, <1>9, <1>10, <1>11 DEF OfScan, ScanStep, IoStep

(* A step of somebody else leaves a scan where it is.                       *)
LEMMA OthersKeep ==
  ASSUME TypeOK, [Next]_vars, NEW s \in Scans
  PROVE  OfScan(s) \/ Kept(s)
<1> USE DEF Kept, localVars, carverVars, ctxVars, Goto, Fail
<1>1. /\ pc \in [Scans -> Phases] /\ stage \in [Scans -> Nat] /\ start \in [Scans -> Nat]
      /\ bytesScanned \in [Scans -> Nat]
  BY DEF TypeOK
<1>2. ASSUME NEW r \in Scans \ {s}, NEW m \in Modes, Launch(r, m) PROVE Kept(s)
  BY <1>1, <1>2 DEF Launch
<1>3. ASSUME NEW r \in Scans \ {s}, OpenFail(r) \/ Wrap(r) \/ Refuse(r) PROVE Kept(s)
  BY <1>1, <1>3 DEF OpenFail, Wrap, Refuse
<1>4. ASSUME NEW r \in Scans \ {s}, Register(r) PROVE Kept(s)
  BY <1>1, <1>4 DEF Register, TakeSlot
<1>5. ASSUME NEW r \in Scans \ {s}, FullStageEnd(r) PROVE Kept(s)
  BY <1>1, <1>5 DEF FullStageEnd
<1>6. ASSUME NEW r \in Scans \ {s}, QuickStageEnd(r) PROVE Kept(s)
  BY <1>1, <1>6 DEF QuickStageEnd
<1>7. ASSUME NEW r \in Scans \ {s}, PopResumeCarverOffset(r) \/ CarverStart(r) PROVE Kept(s)
  BY <1>1, <1>7 DEF PopResumeCarverOffset, CarverStart
<1>8. ASSUME NEW r \in Scans \ {s}, SizeFail(r) \/ CarverEnd(r) PROVE Kept(s)
  BY <1>1, <1>8 DEF SizeFail, CarverEnd, CarverReturns
<1>9. ASSUME NEW r \in Scans \ {s}, Validate(r) \/ Unregister(r) \/ CloseDone(r) PROVE Kept(s)
  BY <1>1, <1>9 DEF Validate, Unregister, CloseDone
<1>10. ASSUME NEW r \in Scans \ {s}, IoStep(r) PROVE Kept(s)
  BY <1>1, <1>10 DEF IoStep, ReadChunk, ChunkDone
<1>11. ASSUME NEW r \in Scans, Find(r) PROVE Kept(s)
  BY <1>11 DEF Find
<1>12. ASSUME NEW t \in Stoppers, StopStep(t) \/ StopCall(t) PROVE Kept(s)
  BY <1>12 DEF StopStep, StopPoll, StopGiveUp, StopCancel, StopCloseHandle, StopReturn, StopCall
<1>13. ASSUME NEW off \in ResumeOffsets, SetResumeCarverOffset(off) PROVE Kept(s)
  BY <1>13 DEF SetResumeCarverOffset
<1>14. CASE UNCHANGED vars
  BY <1>14 DEF vars
<1> HIDE DEF Kept, localVars, carverVars, ctxVars, Goto, Fail
<1>15. ASSUME NEW r \in Scans, r # s, ScanStep(r) \/ IoStep(r) \/ \E m \in Modes : Launch(r, m)
       PROVE  Kept(s)
  BY <1>2, <1>3, <1>4, <1>5, <1>6, <1>7, <1>8, <1>9, <1>10, <1>15 DEF ScanStep
<1> QED
  BY <1>11, <1>12, <1>13, <1>14, <1>15 DEF Next, OfScan

LEMMA StopLowers ==
  ASSUME TypeOK, [Next]_vars, NEW t \in Stoppers
  PROVE  IF StopStep(t) THEN StopLeft(spc'[t]) < StopLeft(spc[t])
         ELSE StopCall(t) \/ spc'[t] = spc[t]
<1>1. spc \in [Stoppers -> StopPhases]
  BY DEF TypeOK
<1>2. ASSUME StopStep(t) PROVE StopLeft(spc'[t]) < StopLeft(spc[t])
  <2>1. PICK p \in {"idle", "cancel", "close", "wait"} :
          spc' = [spc EXCEPT ![t] = p] /\ StopLeft(p) < StopLeft(spc[t])
    <3>1. CASE StopPoll(t)
      BY <3>1 DEF StopPoll, Snapshot, StopLeft
    <3>2. CASE StopGiveUp(t) \/ StopReturn(t)
      BY <3>2 DEF StopGiveUp, StopReturn, StopLeft
    <3>3. CASE StopCancel(t) \/ StopCloseHandle(t)
      BY <3>3 DEF StopCancel, StopCloseHandle, StopLeft
    <3> QED
      BY <1>2, <3>1, <3>2, <3>3 DEF StopStep
  <2>2. spc'[t] = p
    BY <1>1, <2>1
  <2> QED
    BY <2>1, <2>2
<1>3. ASSUME NEW u \in Stoppers \ {t}, StopStep(u) \/ StopCall(u) PROVE spc'[t] = spc[t]
  BY <1>1, <1>3 DEF StopStep, StopPoll, Snapshot, StopGiveUp, StopCancel, StopCloseHandle,
     StopReturn, StopCall
<1>4. ASSUME NEW s \in Scans, ScanStep(s) PROVE spc' = spc
  BY <1>4 DEF ScanStep, OpenFail, Wrap, Refuse, Register, TakeSlot, FullStageEnd, QuickStageEnd,
     PopResumeCarverOffset, SizeFail, CarverStart, CarverEnd, Validate, Unregister, CloseDone,
     stopVars
<1>5. ASSUME NEW s \in Scans, IoStep(s) \/ Find(s) \/ \E m \in Modes : Launch(s, m)
      PROVE  spc' = spc
  BY <1>5 DEF IoStep, ReadChunk, ChunkDone, Find, Launch, stopVars
<1>6. ASSUME NEW off \in ResumeOffsets, SetResumeCarverOffset(off) PROVE spc' = spc
  BY <1>6 DEF SetResumeCarverOffset, stopVars
<1>7. ASSUME UNCHANGED vars PROVE spc' = spc
  BY <1>7 DEF vars, stopVars
<1>8. StopStep(t) \/ StopCall(t) \/ spc'[t] = spc[t]
  <2>1. ASSUME NEW u \in Stoppers, StopStep(u) \/ StopCall(u)
        PROVE  StopStep(t) \/ StopCall(t) \/ spc'[t] = spc[t]
    <3>1. CASE u = t
      BY <2>1, <3>1
    <3>2. CASE u # t
      BY <1>3, <2>1, <3>2
    <3> QED
      BY <3>1, <3>2
  <2>2. ASSUME spc' = spc
        PROVE  spc'[t] = spc[t]
    BY <2>2
  <2>3. CASE \E s \in Scans : ScanStep(s)
    BY Zenon, <1>4, <2>2, <2>3
  <2>4. CASE \E s \in Scans : IoStep(s) \/ Find(s) \/ \E m \in Modes : Launch(s, m)
    BY Zenon, <1>5, <2>2, <2>4
  <2>5. CASE \E off \in ResumeOffsets : SetResumeCarverOffset(off)
    BY Zenon, <1>6, <2>2, <2>5
  <2>6. CASE UNCHANGED vars
    BY Zenon, <1>7, <2>2, <2>6
  <2>7. CASE \E u \in Stoppers : StopStep(u) \/ StopCall(u)
    BY Zenon, <2>1, <2>7
  <2> QED
    BY Zenon, <2>3, <2>4, <2>5, <2>6, <2>7 DEF Next
<1> QED
  BY Zenon, <1>2, <1>8

(* Every step of a scan, or of a call of Stop, leaves it less to do, and no *)
(* step of anybody else gives it more: each takes finitely many steps, and  *)
(* by EngineNeverStands one of them, or of the scan it waits for, can       *)
(* always be taken.                                                         *)
THEOREM EngineRunsDown ==
  Spec => [][/\ \A s \in Scans : IF OfScan(s) THEN LessLeft(s) ELSE Kept(s)
             /\ \A t \in Stoppers :
                  IF StopStep(t) THEN StopLeft(spc'[t]) < StopLeft(spc[t])
                  ELSE StopCall(t) \/ spc'[t] = spc[t]]_vars
<1>1. ASSUME TypeOK, CarverInv, StageInv, [Next]_vars
      PROVE  /\ \A s \in Scans : IF OfScan(s) THEN LessLeft(s) ELSE Kept(s)
             /\ \A t \in Stoppers :
                  IF StopStep(t) THEN StopLeft(spc'[t]) < StopLeft(spc[t])
                  ELSE StopCall(t) \/ spc'[t] = spc[t]
  BY <1>1, ScanLowers, OthersKeep, StopLowers
<1>2. TypeOK /\ CarverInv /\ StageInv /\ [Next]_vars =>
        [/\ \A s \in Scans : IF OfScan(s) THEN LessLeft(s) ELSE Kept(s)
         /\ \A t \in Stoppers :
              IF StopStep(t) THEN StopLeft(spc'[t]) < StopLeft(spc[t])
              ELSE StopCall(t) \/ spc'[t] = spc[t]]_vars
  BY <1>1
<1> QED
  BY <1>2, CarverInvariant, StageInvariant, PTL DEF Spec
=============================================================================
