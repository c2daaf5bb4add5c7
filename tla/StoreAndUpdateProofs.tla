------------------------- MODULE StoreAndUpdateProofs ------------------------
(***************************************************************************)
(* What is proved of the files that outlive a process: of the session store *)
(* first, and of the update of the program itself in the second part.      *)
(*                                                                         *)
(* The safety properties of SessionStore, proved for any number of clients *)
(* and records and any number of faults.                                   *)
(***************************************************************************)
EXTENDS SessionStore, UpdateApply, FiniteSetTheorems, TLAPS

(* The invariant is inductive as a whole: that a rename never puts a torn   *)
(* file in place of the snapshot already takes the lock and what each       *)
(* half-done operation relies on.                                           *)
StoreInv == TypeOK /\ LockInv /\ OpInv /\ MetadataIsLastSaved /\ AckedInv /\ OnceInv

(* The files and operations the process starts with.                        *)
LEMMA InvInit == Init => StoreInv
<1> SUFFICES ASSUME Init PROVE StoreInv
  OBVIOUS
<1>1. /\ log \in Lists /\ op \in [Clients -> Ops] /\ faults \in 0 .. MaxFaults
      /\ buf \in [Clients -> Snapshots \cup {None}]
      /\ todo \in [Clients -> SUBSET Files] /\ batch \in [Clients -> SUBSET Files]
  BY MaxFaultsAssumption DEF Init, Ops, Lists, Empty
<1>2. TypeOK
  BY <1>1 DEF Init, TypeOK
<1>3. LockInv /\ MetadataIsLastSaved
  BY DEF Init, LockInv, MetadataIsLastSaved
<1>4. OpInv
  BY DEF Init, OpInv
<1>5. AckedInv
  BY FS_EmptySet DEF Init, AckedInv
<1>6. \A f \in Files : Loaded[f] = 0 /\ SnapshotFiles[f] = 0
  BY DistinctAssumption DEF Init, Loaded, Replay, SnapshotFiles, Plus, One, Empty
<1>7. OnceInv
  BY <1>6 DEF Init, OnceInv
<1> QED
  BY <1>2, <1>3, <1>4, <1>5, <1>7 DEF StoreInv

(* A temporary file that is about to be renamed is whole.                   *)
LEMMA RenamedIsWhole ==
  ASSUME TypeOK, OpInv, NEW c \in Clients, op[c] \in {"saveRename", "compactRename"}
  PROVE  tmp = buf[c] /\ tmp \in Snapshots
BY DEF TypeOK, OpInv

(* Each operation keeps the types.                                          *)
LEMMA TypeNext ==
  ASSUME TypeOK, LockInv, OpInv, [Next]_vars PROVE TypeOK'
<1> USE DistinctAssumption, MaxFaultsAssumption DEF TypeOK, Snapshots, Lists, Empty, One, Plus, ToSet, Replay, SnapshotFiles, Ops, fileVars, localVars, history
<1>1. ASSUME NEW c \in Clients, NEW fs \in SUBSET (Files \ Used), AppendStart(c, fs) PROVE TypeOK'
  BY <1>1 DEF AppendStart, Acquire, Used
<1>2. ASSUME NEW c \in Clients, NEW f \in Files, AppendLine(c, f) PROVE TypeOK'
  BY <1>2 DEF AppendLine
<1>3. ASSUME NEW c \in Clients, AppendDone(c) PROVE TypeOK'
  BY <1>3 DEF AppendDone, Release
<1>4. ASSUME NEW c \in Clients, NEW f \in Files, AppendFail(c, f) PROVE TypeOK'
  BY <1>4 DEF AppendFail, Fault, ShortWrite, Release
<1>5. ASSUME NEW c \in Clients, NEW m \in Metas, SaveStart(c, m) PROVE TypeOK'
  BY <1>5 DEF SaveStart, Acquire, CreateTmp
<1>6. ASSUME NEW c \in Clients, CompactStart(c) PROVE TypeOK'
  BY <1>6 DEF CompactStart, Acquire, CreateTmp
<1>7. ASSUME NEW c \in Clients, WriteTmp(c) PROVE TypeOK'
  BY <1>7 DEF WriteTmp, Goto
<1>8. ASSUME NEW c \in Clients, WriteFail(c) PROVE TypeOK'
  BY <1>8 DEF WriteFail, Release
<1>9. ASSUME NEW c \in Clients, SaveRename(c) PROVE TypeOK'
  <2>1. tmp \in Snapshots /\ tmp = buf[c]
    BY <1>9, RenamedIsWhole DEF SaveRename
  <2> QED
    BY <1>9, <2>1 DEF SaveRename, Release
<1>10. ASSUME NEW c \in Clients, CompactRename(c) PROVE TypeOK'
  <2>1. tmp \in Snapshots
    BY <1>10, RenamedIsWhole DEF CompactRename
  <2> QED
    BY <1>10, <2>1 DEF CompactRename, Goto
<1>11. ASSUME NEW c \in Clients, Truncate(c) PROVE TypeOK'
  BY <1>11 DEF Truncate, Release
<1>12. ASSUME NEW c \in Clients, TruncateFail(c) PROVE TypeOK'
  BY <1>12 DEF TruncateFail, Fault, Release
<1>13. ASSUME NEW c \in Clients, ClearSnapshot(c) PROVE TypeOK'
  BY <1>13 DEF ClearSnapshot, Acquire, Fault
<1>14. ASSUME NEW c \in Clients, ClearLog(c) PROVE TypeOK'
  BY <1>14 DEF ClearLog, Fault, Release
<1>15. ASSUME Crash PROVE TypeOK'
  BY <1>15 DEF Crash, Fault, ShortWrite
<1>16. CASE UNCHANGED vars
  BY <1>16 DEF vars
<1> QED
  BY <1>1, <1>2, <1>3, <1>4, <1>5, <1>6, <1>7, <1>8, <1>9, <1>10, <1>11, <1>12, <1>13, <1>14, <1>15, <1>16 DEF Next, StoreStep

(* Store.mu is held by one client, which alone is inside an operation.      *)
LEMMA LockInvNext ==
  ASSUME TypeOK, LockInv, [Next]_vars PROVE LockInv'
<1> USE DistinctAssumption, MaxFaultsAssumption DEF LockInv, TypeOK, Ops, fileVars, localVars, history
<1>1. ASSUME NEW c \in Clients, NEW fs \in SUBSET (Files \ Used), AppendStart(c, fs) PROVE LockInv'
  BY <1>1 DEF AppendStart, Acquire, Used
<1>2. ASSUME NEW c \in Clients, NEW f \in Files, AppendLine(c, f) PROVE LockInv'
  BY <1>2 DEF AppendLine
<1>3. ASSUME NEW c \in Clients, AppendDone(c) PROVE LockInv'
  BY <1>3 DEF AppendDone, Release
<1>4. ASSUME NEW c \in Clients, NEW f \in Files, AppendFail(c, f) PROVE LockInv'
  BY <1>4 DEF AppendFail, Fault, ShortWrite, Release
<1>5. ASSUME NEW c \in Clients, NEW m \in Metas, SaveStart(c, m) PROVE LockInv'
  BY <1>5 DEF SaveStart, Acquire, CreateTmp
<1>6. ASSUME NEW c \in Clients, CompactStart(c) PROVE LockInv'
  BY <1>6 DEF CompactStart, Acquire, CreateTmp
<1>7. ASSUME NEW c \in Clients, WriteTmp(c) PROVE LockInv'
  BY <1>7 DEF WriteTmp, Goto
<1>8. ASSUME NEW c \in Clients, WriteFail(c) PROVE LockInv'
  BY <1>8 DEF WriteFail, Release
<1>9. ASSUME NEW c \in Clients, SaveRename(c) PROVE LockInv'
  BY <1>9 DEF SaveRename, Release
<1>10. ASSUME NEW c \in Clients, CompactRename(c) PROVE LockInv'
  BY <1>10 DEF CompactRename, Goto
<1>11. ASSUME NEW c \in Clients, Truncate(c) PROVE LockInv'
  BY <1>11 DEF Truncate, Release
<1>12. ASSUME NEW c \in Clients, TruncateFail(c) PROVE LockInv'
  BY <1>12 DEF TruncateFail, Fault, Release
<1>13. ASSUME NEW c \in Clients, ClearSnapshot(c) PROVE LockInv'
  BY <1>13 DEF ClearSnapshot, Acquire, Fault
<1>14. ASSUME NEW c \in Clients, ClearLog(c) PROVE LockInv'
  BY <1>14 DEF ClearLog, Fault, Release
<1>15. ASSUME Crash PROVE LockInv'
  BY <1>15 DEF Crash, Fault, ShortWrite
<1>16. CASE UNCHANGED vars
  BY <1>16 DEF vars
<1> QED
  BY <1>1, <1>2, <1>3, <1>4, <1>5, <1>6, <1>7, <1>8, <1>9, <1>10, <1>11, <1>12, <1>13, <1>14, <1>15, <1>16 DEF Next, StoreStep

(* Inside the section of one client the others are idle.                    *)
LEMMA OthersIdle ==
  ASSUME LockInv, NEW c \in Clients, op[c] # "idle"
  PROVE  \A d \in Clients : d # c => op[d] = "idle"
BY DEF LockInv

(* With the lock free nobody is inside an operation.                        *)
LEMMA FreeMeansIdle ==
  ASSUME LockInv, lock = None PROVE \A d \in Clients : op[d] = "idle"
BY DistinctAssumption DEF LockInv

(* What a load counts of one record.                                        *)
LEMMA LoadedAt ==
  ASSUME TypeOK, NEW f \in Files
  PROVE  /\ Replay[f] = log[f] + (IF tail = f THEN 1 ELSE 0)
         /\ Loaded[f] = SnapshotFiles[f] + Replay[f]
         /\ SnapshotFiles[f] = IF snapshot = None THEN 0 ELSE snapshot.files[f]
         /\ Replay[f] \in Nat /\ Loaded[f] \in Nat /\ SnapshotFiles[f] \in Nat
         /\ log[f] \in Nat
BY DEF TypeOK, Snapshots, Lists, Loaded, Replay, SnapshotFiles, Plus, One, Empty

(* The same of the next state.                                              *)
LEMMA LoadedAtNext ==
  ASSUME TypeOK', NEW f \in Files
  PROVE  /\ Replay'[f] = log'[f] + (IF tail' = f THEN 1 ELSE 0)
         /\ Loaded'[f] = SnapshotFiles'[f] + Replay'[f]
         /\ SnapshotFiles'[f] = IF snapshot' = None THEN 0 ELSE snapshot'.files[f]
         /\ Replay'[f] \in Nat /\ Loaded'[f] \in Nat /\ SnapshotFiles'[f] \in Nat
         /\ log'[f] \in Nat
BY DEF TypeOK, Snapshots, Lists, Loaded, Replay, SnapshotFiles, Plus, One, Empty

(* Nobody else's step takes away what a half-done operation relies on.      *)
LEMMA OpInvNext ==
  ASSUME TypeOK, TypeOK', LockInv, OpInv, [Next]_vars PROVE OpInv'
<1> USE DistinctAssumption DEF TypeOK, OpInv, Ops, fileVars, localVars, history
<1>1. ASSUME NEW c \in Clients, NEW fs \in SUBSET (Files \ Used), AppendStart(c, fs)
      PROVE  OpInv'
  <2>1. Loaded' = Loaded
    BY <1>1 DEF AppendStart, Loaded, Replay, SnapshotFiles, Plus, One, Empty
  <2>2. \A d \in Clients : op[d] = "idle"
    BY <1>1, FreeMeansIdle DEF AppendStart, Acquire
  <2>3. tail \notin fs
    BY LoadedAt DEF Used, ToSet, Snapshots, Lists
  <2> QED
    BY <1>1, <2>1, <2>2, <2>3 DEF AppendStart, Acquire
<1>2. ASSUME NEW c \in Clients, NEW f \in Files, AppendLine(c, f) PROVE OpInv'
  <2>1. op[c] = "append" /\ \A d \in Clients : d # c => op[d] = "idle"
    BY <1>2, OthersIdle DEF AppendLine
  <2>2. \A g \in batch[c] \ todo'[c] : Loaded'[g] > 0 \/ g \in glued'
    <3> SUFFICES ASSUME NEW g \in batch[c] \ todo'[c] PROVE Loaded'[g] > 0 \/ g \in glued'
      OBVIOUS
    <3>1. g \in Files /\ (g = f \/ g \in batch[c] \ todo[c])
      BY <1>2 DEF AppendLine
    <3>2. CASE tail = None
      <4>1. Loaded'[g] = Loaded[g] + (IF g = f THEN 1 ELSE 0) /\ Loaded[g] \in Nat
        BY <1>2, <3>1, <3>2 DEF AppendLine, Snapshots, Lists, Loaded, Replay, SnapshotFiles, Plus, One, Empty
      <4> QED
        BY <1>2, <2>1, <3>1, <3>2, <4>1 DEF AppendLine
    <3>3. CASE tail # None
      <4>1. g # tail
        BY <2>1
      <4>2. Loaded'[g] = Loaded[g]
        BY <1>2, <3>1, <3>3, <4>1 DEF AppendLine, Snapshots, Lists, Loaded, Replay, SnapshotFiles, Plus, One, Empty
      <4> QED
        BY <1>2, <2>1, <3>1, <3>3, <4>2 DEF AppendLine
    <3> QED
      BY <3>2, <3>3
  <2> QED
    BY <1>2, <2>1, <2>2 DEF AppendLine
<1>3. ASSUME NEW c \in Clients, AppendDone(c) PROVE OpInv'
  <2>1. op[c] # "idle" /\ \A d \in Clients : d # c => op[d] = "idle"
    BY <1>3, OthersIdle DEF AppendDone
  <2> QED
    BY <1>3, <2>1 DEF AppendDone, Release
<1>4. ASSUME NEW c \in Clients, NEW f \in Files, AppendFail(c, f) PROVE OpInv'
  <2>1. op[c] # "idle" /\ \A d \in Clients : d # c => op[d] = "idle"
    BY <1>4, OthersIdle DEF AppendFail
  <2> QED
    BY <1>4, <2>1 DEF AppendFail, Release
<1>5. ASSUME NEW c \in Clients, NEW m \in Metas, SaveStart(c, m) PROVE OpInv'
  <2>1. \A d \in Clients : op[d] = "idle"
    BY <1>5, FreeMeansIdle DEF SaveStart, Acquire
  <2>2. Loaded' = Loaded
    BY <1>5 DEF SaveStart, CreateTmp, Loaded, Replay, SnapshotFiles, Plus, One, Empty
  <2>3. [meta |-> m, files |-> Empty] \in Snapshots
    BY DEF Snapshots, Lists, Empty
  <2> QED
    BY <1>5, <2>1, <2>2, <2>3 DEF SaveStart, Acquire, CreateTmp
<1>6. ASSUME NEW c \in Clients, CompactStart(c) PROVE OpInv'
  <2>1. \A d \in Clients : op[d] = "idle"
    BY <1>6, FreeMeansIdle DEF CompactStart, Acquire
  <2>2. Loaded' = Loaded /\ Loaded = [snapshot EXCEPT !.files = Plus(@, Replay)].files
    BY <1>6 DEF CompactStart, CreateTmp, Loaded, Replay, SnapshotFiles, Snapshots
  <2>3. buf'[c] = [snapshot EXCEPT !.files = Plus(@, Replay)] /\ buf'[c] \in Snapshots
    <3>1. snapshot \in Snapshots /\ Plus(snapshot.files, Replay) \in Lists
      BY <1>6, LoadedAt DEF CompactStart, Plus, Lists, Snapshots
    <3> QED
      BY <1>6, <3>1 DEF CompactStart, CreateTmp, Snapshots
  <2> QED
    BY <1>6, <2>1, <2>2, <2>3 DEF CompactStart, Acquire, CreateTmp, Snapshots
<1>7. ASSUME NEW c \in Clients, WriteTmp(c) PROVE OpInv'
  <2>1. op[c] # "idle" /\ \A d \in Clients : d # c => op[d] = "idle"
    BY <1>7, OthersIdle DEF WriteTmp
  <2>2. Loaded' = Loaded
    BY <1>7 DEF WriteTmp, Loaded, Replay, SnapshotFiles, Plus, One, Empty
  <2> QED
    BY <1>7, <2>1, <2>2 DEF WriteTmp, Goto
<1>8. ASSUME NEW c \in Clients, WriteFail(c) PROVE OpInv'
  <2>1. op[c] # "idle" /\ \A d \in Clients : d # c => op[d] = "idle"
    BY <1>8, OthersIdle DEF WriteFail
  <2>2. Loaded' = Loaded
    BY <1>8 DEF WriteFail, Loaded, Replay, SnapshotFiles, Plus, One, Empty
  <2> QED
    BY <1>8, <2>1, <2>2 DEF WriteFail, Release
<1>9. ASSUME NEW c \in Clients, SaveRename(c) PROVE OpInv'
  <2>1. op[c] # "idle" /\ \A d \in Clients : d # c => op[d] = "idle"
    BY <1>9, OthersIdle DEF SaveRename
  <2> QED
    BY <1>9, <2>1 DEF SaveRename, Release
<1>10. ASSUME NEW c \in Clients, CompactRename(c) PROVE OpInv'
  <2>1. op[c] # "idle" /\ \A d \in Clients : d # c => op[d] = "idle"
    BY <1>10, OthersIdle DEF CompactRename
  <2>2. snapshot' = buf[c] /\ buf[c] \in Snapshots /\ buf[c].files = Loaded
    BY <1>10 DEF CompactRename
  <2>3. \A f \in Files : Replay'[f] > 0 => snapshot'.files[f] > 0
    BY <1>10, <2>2, LoadedAt DEF CompactRename, Replay, Plus, One
  <2>4. batch'[c] = {} /\ op'[c] = "truncate" /\ snapshot' # None
    BY <1>10, <2>2 DEF CompactRename, Goto
  <2> QED
    BY <1>10, <2>1, <2>3, <2>4 DEF CompactRename, Goto
<1>11. ASSUME NEW c \in Clients, Truncate(c) PROVE OpInv'
  <2>1. op[c] # "idle" /\ \A d \in Clients : d # c => op[d] = "idle"
    BY <1>11, OthersIdle DEF Truncate
  <2> QED
    BY <1>11, <2>1 DEF Truncate, Release
<1>12. ASSUME NEW c \in Clients, TruncateFail(c) PROVE OpInv'
  <2>1. op[c] # "idle" /\ \A d \in Clients : d # c => op[d] = "idle"
    BY <1>12, OthersIdle DEF TruncateFail
  <2>2. Loaded' = Loaded
    BY <1>12 DEF TruncateFail, Loaded, Replay, SnapshotFiles, Plus, One, Empty
  <2> QED
    BY <1>12, <2>1, <2>2 DEF TruncateFail, Release
<1>13. ASSUME NEW c \in Clients, ClearSnapshot(c) PROVE OpInv'
  <2>1. \A d \in Clients : op[d] = "idle"
    BY <1>13, FreeMeansIdle DEF ClearSnapshot, Acquire
  <2> QED
    BY <1>13, <2>1 DEF ClearSnapshot, Acquire
<1>14. ASSUME NEW c \in Clients, ClearLog(c) PROVE OpInv'
  <2>1. op[c] # "idle" /\ \A d \in Clients : d # c => op[d] = "idle"
    BY <1>14, OthersIdle DEF ClearLog
  <2> QED
    BY <1>14, <2>1 DEF ClearLog, Release
<1>15. ASSUME Crash PROVE OpInv'
  BY <1>15 DEF Crash
<1>16. CASE UNCHANGED vars
  <2>1. UNCHANGED <<Loaded, Replay>>
    BY <1>16 DEF vars, Loaded, Replay, SnapshotFiles, Plus, One, Empty
  <2> QED
    BY <1>16, <2>1 DEF vars
<1> QED
  BY <1>1, <1>2, <1>3, <1>4, <1>5, <1>6, <1>7, <1>8, <1>9, <1>10, <1>11, <1>12, <1>13, <1>14, <1>15, <1>16 DEF Next, StoreStep

(* What a step can make a load forget: the tail behind which an append goes *)
(* on or fails again, what a Save drops, what a Clear removes.              *)
LEMMA LoadedKept ==
  ASSUME TypeOK, TypeOK', LockInv, OpInv, [Next]_vars,
         NEW f \in Files, Loaded[f] > 0, f # tail,
         \A c \in Clients : op[c] # "clearLog" /\ op'[c] # "clearLog"
  PROVE  Loaded'[f] > 0 \/ f \in dropped'
<1> USE LoadedAt, LoadedAtNext DEF fileVars, localVars, history
<1>1. CASE UNCHANGED <<snapshot, log, tail>>
  BY <1>1
<1>2. ASSUME NEW c \in Clients, NEW g \in Files, AppendLine(c, g) PROVE Loaded'[f] > 0
  <2>1. log'[f] >= log[f] /\ UNCHANGED snapshot
    BY <1>2 DEF AppendLine, Plus, One
  <2> QED
    BY <2>1
<1>3. ASSUME NEW c \in Clients, NEW g \in Files, AppendFail(c, g) PROVE Loaded'[f] > 0
  BY <1>3 DEF AppendFail
<1>4. ASSUME NEW c \in Clients, SaveRename(c) PROVE Loaded'[f] > 0 \/ f \in dropped'
  <2>1. UNCHANGED <<log, tail>> /\ (SnapshotFiles[f] > 0 => f \in dropped')
    BY <1>4 DEF SaveRename, ToSet
  <2> QED
    BY <2>1
<1>5. ASSUME NEW c \in Clients, CompactRename(c) PROVE Loaded'[f] > 0
  <2>1. snapshot' = tmp /\ tmp \in Snapshots /\ tmp.files = Loaded
    BY <1>5, RenamedIsWhole DEF CompactRename, OpInv
  <2> QED
    BY <2>1, DistinctAssumption
<1>6. ASSUME NEW c \in Clients, Truncate(c) PROVE Loaded'[f] > 0
  <2>1. UNCHANGED snapshot /\ (Replay[f] > 0 => SnapshotFiles[f] > 0)
    BY <1>6 DEF Truncate, OpInv
  <2> QED
    BY <2>1
<1>7. ASSUME Crash PROVE Loaded'[f] > 0
  BY <1>7 DEF Crash
<1>8. ASSUME NEW c \in Clients, ClearSnapshot(c) \/ ClearLog(c) PROVE FALSE
  BY <1>8 DEF ClearSnapshot, ClearLog, Acquire, TypeOK
<1>9. ASSUME NEW c \in Clients, NEW fs \in SUBSET (Files \ Used), AppendStart(c, fs)
      PROVE  UNCHANGED <<snapshot, log, tail>>
  BY <1>9 DEF AppendStart
<1>10. ASSUME NEW c \in Clients, NEW m \in Metas, SaveStart(c, m)
       PROVE  UNCHANGED <<snapshot, log, tail>>
  BY <1>10 DEF SaveStart, CreateTmp
<1>11. ASSUME NEW c \in Clients,
              AppendDone(c) \/ CompactStart(c) \/ WriteTmp(c) \/ WriteFail(c) \/ TruncateFail(c)
       PROVE  UNCHANGED <<snapshot, log, tail>>
  BY <1>11 DEF AppendDone, CompactStart, CreateTmp, WriteTmp, WriteFail, TruncateFail
<1>12. CASE UNCHANGED vars
  BY <1>1, <1>12 DEF vars
<1> QED
  BY <1>1, <1>2, <1>3, <1>4, <1>5, <1>6, <1>7, <1>8, <1>9, <1>10, <1>11, <1>12
  DEF Next, StoreStep

(* One record more is at the most one more to count.                        *)
LEMMA OneMore ==
  ASSUME NEW S, NEW x, IsFiniteSet(S)
  PROVE  IsFiniteSet(S \cup {x}) /\ Cardinality(S \cup {x}) <= Cardinality(S) + 1
<1>1. Cardinality(S \cup {x}) = IF x \in S THEN Cardinality(S) ELSE Cardinality(S) + 1
  BY FS_AddElement
<1>2. IsFiniteSet(S \cup {x}) /\ Cardinality(S) \in Nat
  BY FS_AddElement, FS_CardinalityType
<1> QED
  BY <1>1, <1>2

(* Each step leaves every acknowledged record on disk or accounts for it.   *)
LEMMA AckedInvNext ==
  ASSUME TypeOK, TypeOK', LockInv, OpInv, AckedInv, [Next]_vars PROVE AckedInv'
<1> USE DistinctAssumption, LoadedAt, LoadedAtNext DEF TypeOK, AckedInv, fileVars, localVars, history
<1>1. ASSUME \A c \in Clients : op[c] # "clearLog" /\ op'[c] # "clearLog",
             NEW f \in acked
      PROVE  Loaded'[f] > 0 \/ f \in dropped' \/ f \in glued'
  <2>1. dropped \subseteq dropped' /\ glued \subseteq glued'
    BY <1>1 DEF Next, StoreStep, AppendStart, AppendLine, AppendDone, AppendFail, SaveStart,
       CompactStart, CreateTmp, WriteTmp, WriteFail, SaveRename, CompactRename, Truncate,
       TruncateFail, ClearSnapshot, ClearLog, Crash, vars
  <2>2. CASE Loaded[f] > 0
    BY <1>1, <2>2, LoadedKept
  <2> QED
    BY <2>1, <2>2
<1>2. ASSUME NEW c \in Clients, NEW fs \in SUBSET (Files \ Used), AppendStart(c, fs)
      PROVE  AckedInv'
  BY <1>2 DEF AppendStart, Acquire, Used, Loaded, Replay, SnapshotFiles
<1>3. ASSUME NEW c \in Clients, NEW f \in Files, AppendLine(c, f) PROVE AckedInv'
  <2>1. \A d \in Clients : op'[d] = op[d] /\ op[d] # "clearLog"
    BY <1>3, OthersIdle DEF AppendLine
  <2>2. \A g \in acked : Loaded'[g] > 0 \/ g \in dropped' \/ g \in glued'
    BY <1>1, <2>1
  <2>3. IsFiniteSet(glued') /\ Cardinality(glued') <= tears
    <3>1. CASE tail = None
      BY <1>3, <3>1, FS_CardinalityType DEF AppendLine
    <3>2. CASE tail # None
      <4>1. IsFiniteSet(glued) /\ Cardinality(glued) \in Nat /\ Cardinality(glued) + 1 <= tears
        BY <3>2, FS_CardinalityType
      <4>2. /\ IsFiniteSet(glued \cup {f})
            /\ Cardinality(glued \cup {f}) <= Cardinality(glued) + 1
        BY <4>1, OneMore
      <4>3. glued' = glued \cup {f}
        BY <1>3, <3>2 DEF AppendLine
      <4> QED
        BY <4>1, <4>2, <4>3, FS_CardinalityType
    <3> QED
      BY <3>1, <3>2
  <2> QED
    BY <1>3, <2>2, <2>3, FS_CardinalityType DEF AppendLine
<1>4. ASSUME NEW c \in Clients, AppendDone(c) PROVE AckedInv'
  BY <1>4, OthersIdle DEF AppendDone, OpInv, Loaded, Replay, SnapshotFiles
<1>5. ASSUME NEW c \in Clients, NEW f \in Files, AppendFail(c, f) PROVE AckedInv'
  <2>1. \A d \in Clients : op[d] # "clearLog" /\ op'[d] # "clearLog"
    BY <1>5, OthersIdle DEF AppendFail, Release
  <2>2. \A g \in acked : Loaded'[g] > 0 \/ g \in dropped' \/ g \in glued'
    BY <1>1, <2>1, <1>5 DEF AppendFail
  <2> QED
    BY <1>5, <2>2, FS_CardinalityType DEF AppendFail, ShortWrite
<1>6. ASSUME NEW c \in Clients, NEW m \in Metas, SaveStart(c, m) PROVE AckedInv'
  BY <1>6 DEF SaveStart, CreateTmp, Loaded, Replay, SnapshotFiles
<1>7. ASSUME NEW c \in Clients, CompactStart(c) PROVE AckedInv'
  BY <1>7 DEF CompactStart, CreateTmp, Loaded, Replay, SnapshotFiles
<1>8. ASSUME NEW c \in Clients, WriteTmp(c) PROVE AckedInv'
  BY <1>8 DEF WriteTmp, Loaded, Replay, SnapshotFiles
<1>9. ASSUME NEW c \in Clients, WriteFail(c) PROVE AckedInv'
  BY <1>9 DEF WriteFail, Loaded, Replay, SnapshotFiles
<1>10. ASSUME NEW c \in Clients, TruncateFail(c) PROVE AckedInv'
  BY <1>10 DEF TruncateFail, Loaded, Replay, SnapshotFiles
<1>11. ASSUME NEW c \in Clients, SaveRename(c) PROVE AckedInv'
  <2>1. \A d \in Clients : op[d] # "clearLog" /\ op'[d] # "clearLog"
    BY <1>11, OthersIdle DEF SaveRename, Release
  <2>2. \A g \in acked : Loaded'[g] > 0 \/ g \in dropped' \/ g \in glued'
    BY <1>1, <2>1
  <2> QED
    BY <1>11, <2>2, FS_CardinalityType DEF SaveRename
<1>12. ASSUME NEW c \in Clients, CompactRename(c) PROVE AckedInv'
  <2>1. \A d \in Clients : op[d] # "clearLog" /\ op'[d] # "clearLog"
    BY <1>12, OthersIdle DEF CompactRename, Goto
  <2>2. \A g \in acked : Loaded'[g] > 0 \/ g \in dropped' \/ g \in glued'
    BY <1>1, <2>1
  <2> QED
    BY <1>12, <2>2, FS_CardinalityType DEF CompactRename
<1>13. ASSUME NEW c \in Clients, Truncate(c) PROVE AckedInv'
  <2>1. \A d \in Clients : op[d] # "clearLog" /\ op'[d] # "clearLog"
    BY <1>13, OthersIdle DEF Truncate, Release
  <2>2. \A g \in acked : Loaded'[g] > 0 \/ g \in dropped' \/ g \in glued'
    BY <1>1, <2>1
  <2> QED
    BY <1>13, <2>2, FS_CardinalityType DEF Truncate
<1>14. ASSUME NEW c \in Clients, ClearSnapshot(c) PROVE AckedInv'
  BY <1>14 DEF ClearSnapshot
<1>15. ASSUME NEW c \in Clients, ClearLog(c) PROVE AckedInv'
  BY <1>15, FS_CardinalityType DEF ClearLog, OpInv
<1>16. ASSUME Crash PROVE AckedInv'
  <2>1. \A g \in acked : Loaded'[g] > 0 \/ g \in dropped \/ g \in glued
    BY <1>16 DEF Crash
  <2> QED
    BY <1>16, <2>1, FS_CardinalityType DEF Crash, ShortWrite
<1>17. CASE UNCHANGED vars
  BY <1>17 DEF vars, Loaded, Replay, SnapshotFiles
<1> QED
  BY <1>2, <1>3, <1>4, <1>5, <1>6, <1>7, <1>8, <1>9, <1>10, <1>11, <1>12, <1>13, <1>14, <1>15, <1>16, <1>17 DEF Next, StoreStep

(* Each step keeps records single, or is the truncation that was cut off.   *)
LEMMA OnceInvNext ==
  ASSUME TypeOK, TypeOK', LockInv, OpInv, OnceInv, [Next]_vars PROVE OnceInv'
<1> USE DistinctAssumption, LoadedAt, LoadedAtNext DEF TypeOK, OnceInv, fileVars, localVars, history
<1>1. ASSUME doubled PROVE OnceInv'
  BY <1>1 DEF Next, StoreStep, AppendStart, AppendLine, AppendDone, AppendFail, SaveStart,
     CompactStart, CreateTmp, WriteTmp, WriteFail, SaveRename, CompactRename, Truncate,
     TruncateFail, ClearSnapshot, ClearLog, Crash, vars
<1> SUFFICES ASSUME ~doubled PROVE OnceInv'
  BY <1>1
<1>2. ASSUME NEW c \in Clients, NEW fs \in SUBSET (Files \ Used), AppendStart(c, fs)
      PROVE  OnceInv'
  <2>1. \A d \in Clients : op[d] = "idle"
    BY <1>2, FreeMeansIdle DEF AppendStart, Acquire
  <2>2. \A f \in fs : Loaded[f] = 0
    BY DEF Used, ToSet
  <2>3. UNCHANGED <<Loaded, SnapshotFiles>>
    BY <1>2 DEF AppendStart, Loaded, Replay, SnapshotFiles
  <2> QED
    BY <1>2, <2>1, <2>2, <2>3 DEF AppendStart
<1>3. ASSUME NEW c \in Clients, NEW f \in Files, AppendLine(c, f) PROVE OnceInv'
  <2>1. op[c] = "append" /\ \A d \in Clients : d # c => op[d] = "idle"
    BY <1>3, OthersIdle DEF AppendLine
  <2>2. \A g \in Files : Loaded'[g] <= Loaded[g] + (IF g = f THEN 1 ELSE 0)
    <3> SUFFICES ASSUME NEW g \in Files
                 PROVE  Loaded'[g] <= Loaded[g] + (IF g = f THEN 1 ELSE 0)
      OBVIOUS
    <3>1. tail' = None /\ UNCHANGED snapshot
      BY <1>3 DEF AppendLine
    <3>2. log'[g] <= log[g] + (IF g = f THEN 1 ELSE 0)
      BY <1>3 DEF AppendLine, Plus, One
    <3> QED
      BY <3>1, <3>2
  <2>3. Loaded[f] = 0 /\ UNCHANGED SnapshotFiles
    BY <1>3 DEF AppendLine, SnapshotFiles
  <2>4. \A d \in Clients, g \in Files : g \in todo'[d] => g \in todo[d] /\ g # f
    BY <1>3, <2>1 DEF AppendLine, OpInv
  <2>5. \A g \in Files : Loaded[g] <= 1
    BY <2>1
  <2>6. \A g \in Files : Loaded'[g] <= 1
    BY <2>2, <2>3, <2>5
  <2>7. \A d \in Clients, g \in Files : g \in todo'[d] => Loaded'[g] = 0
    BY <2>2, <2>4
  <2> QED
    BY <2>3, <2>6, <2>7
<1>4. ASSUME NEW c \in Clients, NEW f \in Files, AppendFail(c, f) PROVE OnceInv'
  <2>1. op[c] = "append" /\ \A d \in Clients : d # c => op[d] = "idle"
    BY <1>4, OthersIdle DEF AppendFail
  <2>2. \A d \in Clients : todo'[d] = {}
    BY <1>4, <2>1 DEF AppendFail, OpInv
  <2>3. \A g \in Files : Loaded'[g] <= 1 /\ SnapshotFiles'[g] <= 1
    <3> SUFFICES ASSUME NEW g \in Files PROVE Loaded'[g] <= 1 /\ SnapshotFiles'[g] <= 1
      OBVIOUS
    <3>1. UNCHANGED <<log, snapshot>>
      BY <1>4 DEF AppendFail
    <3>2. Loaded[f] = 0 /\ Loaded[g] <= 1
      BY <1>4, <2>1 DEF AppendFail
    <3>3. CASE UNCHANGED tail
      BY <3>1, <3>2, <3>3
    <3>4. CASE tail' \in ShortWrite(f)
      <4>1. tail' \in {f, Torn} /\ (tail' = f => tail = None)
        BY <3>4 DEF ShortWrite
      <4> QED
        BY <3>1, <3>2, <4>1
    <3> QED
      BY <1>4, <3>3, <3>4 DEF AppendFail
  <2> QED
    BY <2>2, <2>3
<1>5. ASSUME NEW c \in Clients, AppendDone(c) PROVE OnceInv'
  <2>1. \A d \in Clients : op[d] # "truncate"
    BY <1>5, OthersIdle DEF AppendDone
  <2>2. UNCHANGED <<Loaded, SnapshotFiles, todo, doubled>>
    BY <1>5 DEF AppendDone, Loaded, Replay, SnapshotFiles
  <2> QED
    BY <2>1, <2>2
<1>6. ASSUME NEW c \in Clients, NEW m \in Metas, SaveStart(c, m) PROVE OnceInv'
  <2>1. \A d \in Clients : op[d] # "truncate"
    BY <1>6, FreeMeansIdle DEF SaveStart, Acquire
  <2>2. UNCHANGED <<Loaded, SnapshotFiles, todo, doubled>>
    BY <1>6 DEF SaveStart, CreateTmp, Loaded, Replay, SnapshotFiles
  <2> QED
    BY <2>1, <2>2
<1>7. ASSUME NEW c \in Clients, CompactStart(c) PROVE OnceInv'
  <2>1. \A d \in Clients : op[d] # "truncate"
    BY <1>7, FreeMeansIdle DEF CompactStart, Acquire
  <2>2. UNCHANGED <<Loaded, SnapshotFiles, todo, doubled>>
    BY <1>7 DEF CompactStart, CreateTmp, Loaded, Replay, SnapshotFiles
  <2> QED
    BY <2>1, <2>2
<1>8. ASSUME NEW c \in Clients, WriteTmp(c) PROVE OnceInv'
  <2>1. \A d \in Clients : op[d] # "truncate"
    BY <1>8, OthersIdle DEF WriteTmp
  <2>2. UNCHANGED <<Loaded, SnapshotFiles, todo, doubled>>
    BY <1>8 DEF WriteTmp, Loaded, Replay, SnapshotFiles
  <2> QED
    BY <2>1, <2>2
<1>9. ASSUME NEW c \in Clients, WriteFail(c) PROVE OnceInv'
  <2>1. \A d \in Clients : op[d] # "truncate"
    BY <1>9, OthersIdle DEF WriteFail
  <2>2. UNCHANGED <<Loaded, SnapshotFiles, todo, doubled>>
    BY <1>9 DEF WriteFail, Loaded, Replay, SnapshotFiles
  <2> QED
    BY <2>1, <2>2
<1>10. ASSUME NEW c \in Clients, SaveRename(c) PROVE OnceInv'
  <2>1. \A d \in Clients : op[d] # "truncate"
    BY <1>10, OthersIdle DEF SaveRename
  <2>2. \A f \in Files : SnapshotFiles'[f] = 0
    BY <1>10, RenamedIsWhole DEF SaveRename, OpInv, Empty
  <2>3. UNCHANGED <<todo, log, tail>>
    BY <1>10 DEF SaveRename
  <2>4. \A f \in Files : Loaded'[f] <= Loaded[f]
    BY <2>2, <2>3
  <2> QED
    BY <2>1, <2>2, <2>3, <2>4
<1>11. ASSUME NEW c \in Clients, CompactRename(c) PROVE OnceInv'
  <2>1. op'[c] = "truncate" /\ \A d \in Clients : op[d] # "truncate" /\ todo'[d] = {}
    BY <1>11, OthersIdle DEF CompactRename, Goto, OpInv
  <2>2. \A f \in Files : SnapshotFiles'[f] = Loaded[f]
    BY <1>11, RenamedIsWhole DEF CompactRename, OpInv
  <2> QED
    BY <2>1, <2>2
<1>12. ASSUME NEW c \in Clients, Truncate(c) PROVE OnceInv'
  <2>1. \A d \in Clients : todo'[d] = {}
    BY <1>12, OthersIdle DEF Truncate, OpInv
  <2>2. \A f \in Files : SnapshotFiles'[f] = SnapshotFiles[f] /\ Replay'[f] = 0
    BY <1>12 DEF Truncate, Empty
  <2> QED
    BY <2>1, <2>2
<1>13. ASSUME NEW c \in Clients, TruncateFail(c) PROVE OnceInv'
  BY <1>13 DEF TruncateFail
<1>14. ASSUME NEW c \in Clients, ClearSnapshot(c) PROVE OnceInv'
  <2>1. \A d \in Clients : op[d] # "truncate"
    BY <1>14, FreeMeansIdle DEF ClearSnapshot, Acquire
  <2>2. \A f \in Files : SnapshotFiles'[f] <= SnapshotFiles[f] /\ Replay'[f] = Replay[f]
    BY <1>14 DEF ClearSnapshot
  <2>3. \A f \in Files : Loaded'[f] <= Loaded[f] /\ Loaded[f] <= 1 /\ SnapshotFiles[f] <= 1
    BY <2>1, <2>2
  <2> QED
    BY <1>14, <2>2, <2>3 DEF ClearSnapshot
<1>15. ASSUME NEW c \in Clients, ClearLog(c) PROVE OnceInv'
  <2>1. \A d \in Clients : op[d] # "truncate"
    BY <1>15, OthersIdle DEF ClearLog
  <2>2. \A f \in Files : SnapshotFiles'[f] = SnapshotFiles[f] /\ Replay'[f] <= Replay[f]
    BY <1>15 DEF ClearLog, Empty
  <2>3. \A f \in Files : Loaded'[f] <= Loaded[f] /\ Loaded[f] <= 1 /\ SnapshotFiles[f] <= 1
    BY <2>1, <2>2
  <2> QED
    BY <1>15, <2>2, <2>3 DEF ClearLog
<1>16. ASSUME Crash PROVE OnceInv'
  <2>1. \A d \in Clients : todo'[d] = {}
    BY <1>16 DEF Crash
  <2>2. CASE \E d \in Clients : op[d] = "truncate"
    BY <1>16, <2>2 DEF Crash
  <2>3. CASE \A d \in Clients : op[d] # "truncate"
    <3> SUFFICES ASSUME NEW g \in Files PROVE Loaded'[g] <= 1 /\ SnapshotFiles'[g] <= 1
      BY <2>1
    <3>1. UNCHANGED <<log, snapshot>>
      BY <1>16 DEF Crash
    <3>2. tail' = tail \/ tail' = Torn \/ (tail' = g => tail = None /\ Loaded[g] = 0)
      BY <1>16 DEF Crash, ShortWrite
    <3> QED
      BY <2>3, <3>1, <3>2
  <2> QED
    BY <2>2, <2>3
<1>17. CASE UNCHANGED vars
  BY <1>17 DEF vars, Loaded, Replay, SnapshotFiles
<1> QED
  BY <1>2, <1>3, <1>4, <1>5, <1>6, <1>7, <1>8, <1>9, <1>10, <1>11, <1>12, <1>13, <1>14, <1>15, <1>16, <1>17 DEF Next, StoreStep

(* Only a Save or a Clear changes the metadata in the snapshot.             *)
LEMMA MetadataNext ==
  ASSUME TypeOK, LockInv, OpInv, MetadataIsLastSaved, [Next]_vars PROVE MetadataIsLastSaved'
<1> USE DistinctAssumption, MaxFaultsAssumption DEF MetadataIsLastSaved, TypeOK, OpInv, Snapshots, Ops, fileVars, localVars, history
<1>1. ASSUME NEW c \in Clients, NEW fs \in SUBSET (Files \ Used), AppendStart(c, fs) PROVE MetadataIsLastSaved'
  BY <1>1 DEF AppendStart, Acquire, Used
<1>2. ASSUME NEW c \in Clients, NEW f \in Files, AppendLine(c, f) PROVE MetadataIsLastSaved'
  BY <1>2 DEF AppendLine
<1>3. ASSUME NEW c \in Clients, AppendDone(c) PROVE MetadataIsLastSaved'
  BY <1>3 DEF AppendDone, Release
<1>4. ASSUME NEW c \in Clients, NEW f \in Files, AppendFail(c, f) PROVE MetadataIsLastSaved'
  BY <1>4 DEF AppendFail, Fault, ShortWrite, Release
<1>5. ASSUME NEW c \in Clients, NEW m \in Metas, SaveStart(c, m) PROVE MetadataIsLastSaved'
  BY <1>5 DEF SaveStart, Acquire, CreateTmp
<1>6. ASSUME NEW c \in Clients, CompactStart(c) PROVE MetadataIsLastSaved'
  BY <1>6 DEF CompactStart, Acquire, CreateTmp
<1>7. ASSUME NEW c \in Clients, WriteTmp(c) PROVE MetadataIsLastSaved'
  BY <1>7 DEF WriteTmp, Goto
<1>8. ASSUME NEW c \in Clients, WriteFail(c) PROVE MetadataIsLastSaved'
  BY <1>8 DEF WriteFail, Release
<1>9. ASSUME NEW c \in Clients, SaveRename(c) PROVE MetadataIsLastSaved'
  BY <1>9 DEF SaveRename, Release
<1>10. ASSUME NEW c \in Clients, CompactRename(c) PROVE MetadataIsLastSaved'
  BY <1>10 DEF CompactRename, Goto
<1>11. ASSUME NEW c \in Clients, Truncate(c) PROVE MetadataIsLastSaved'
  BY <1>11 DEF Truncate, Release
<1>12. ASSUME NEW c \in Clients, TruncateFail(c) PROVE MetadataIsLastSaved'
  BY <1>12 DEF TruncateFail, Fault, Release
<1>13. ASSUME NEW c \in Clients, ClearSnapshot(c) PROVE MetadataIsLastSaved'
  BY <1>13 DEF ClearSnapshot, Acquire, Fault
<1>14. ASSUME NEW c \in Clients, ClearLog(c) PROVE MetadataIsLastSaved'
  BY <1>14 DEF ClearLog, Fault, Release
<1>15. ASSUME Crash PROVE MetadataIsLastSaved'
  BY <1>15 DEF Crash, Fault, ShortWrite
<1>16. CASE UNCHANGED vars
  BY <1>16 DEF vars
<1> QED
  BY <1>1, <1>2, <1>3, <1>4, <1>5, <1>6, <1>7, <1>8, <1>9, <1>10, <1>11, <1>12, <1>13, <1>14, <1>15, <1>16 DEF Next, StoreStep

(* The invariant holds throughout.                                          *)
LEMMA InvCorrect == Spec => []StoreInv
<1>1. StoreInv /\ [Next]_vars => StoreInv'
  <2> SUFFICES ASSUME StoreInv, [Next]_vars PROVE StoreInv'
    OBVIOUS
  <2>1. TypeOK'
    BY TypeNext DEF StoreInv
  <2>2. LockInv' /\ OpInv' /\ MetadataIsLastSaved'
    BY <2>1, LockInvNext, OpInvNext, MetadataNext DEF StoreInv
  <2>3. AckedInv' /\ OnceInv'
    BY <2>1, AckedInvNext, OnceInvNext DEF StoreInv
  <2> QED
    BY <2>1, <2>2, <2>3 DEF StoreInv
<1> QED
  BY <1>1, InvInit, PTL DEF Spec

(* Every reachable state of the store is well typed; in particular the      *)
(* snapshot in place is never a torn file.                                  *)
THEOREM TypeCorrect == Spec => []TypeOK
<1>1. StoreInv => TypeOK
  BY DEF StoreInv
<1> QED
  BY <1>1, InvCorrect, PTL

(* Whatever the number of clients and faults, Compact never undoes a Save.  *)
THEOREM MetadataNeverUndone == Spec => []MetadataIsLastSaved
<1>1. StoreInv => MetadataIsLastSaved
  BY DEF StoreInv
<1> QED
  BY <1>1, InvCorrect, PTL

(* Acknowledged records are lost to a Save or behind torn tails only, one   *)
(* record for each append that was torn.                                    *)
THEOREM LossesAreKnown == Spec => []AckedLostOnlyKnown
<1>1. StoreInv => AckedLostOnlyKnown
  <2> SUFFICES ASSUME StoreInv PROVE AckedLostOnlyKnown
    OBVIOUS
  <2>1. \A f \in acked : f \in ToSet(Loaded) \/ f \in dropped \/ f \in glued
    BY DEF StoreInv, AckedInv, TypeOK, ToSet
  <2>2. Cardinality(glued) <= tears
    BY FS_CardinalityType DEF StoreInv, AckedInv, TypeOK
  <2> QED
    BY <2>1, <2>2 DEF AckedLostOnlyKnown
<1> QED
  BY <1>1, InvCorrect, PTL

(* Only a Compact cut off before its truncation makes a load return a       *)
(* record twice.                                                            *)
THEOREM OnceUnlessCutOff == Spec => []NoRecordTwice
<1>1. StoreInv => NoRecordTwice
  BY DEF StoreInv, OnceInv, NoRecordTwice
<1> QED
  BY <1>1, InvCorrect, PTL

(* Each step keeps what a load returns, but for the records a Save drops, a *)
(* Clear removes, and a tail that was never acknowledged.                   *)
THEOREM StepsKeepRecords == Spec => OnlySaveAndClearForget
<1> DEFINE Kept == \/ ToSet(Loaded) \subseteq ToSet(Loaded') \cup dropped' \cup ({tail} \ acked)
                   \/ \E c \in Clients : op[c] = "clearLog" \/ op'[c] = "clearLog"
<1>1. StoreInv /\ StoreInv' /\ [Next]_vars => [Kept]_vars
  <2> SUFFICES ASSUME StoreInv, StoreInv', [Next]_vars PROVE [Kept]_vars
    OBVIOUS
  <2>1. tail \notin acked
    BY DEF StoreInv, AckedInv
  <2> SUFFICES ASSUME \A c \in Clients : op[c] # "clearLog" /\ op'[c] # "clearLog",
                      NEW f \in ToSet(Loaded), f # tail
               PROVE  f \in ToSet(Loaded') \/ f \in dropped'
    BY <2>1
  <2> QED
    BY LoadedKept DEF StoreInv, ToSet
<1> QED
  BY <1>1, InvCorrect, PTL DEF Spec, OnlySaveAndClearForget

-----------------------------------------------------------------------------
(***************************************************************************)
(* The safety properties of UpdateApply, proved for any number of          *)
(* processes, attempts and faults, on Windows and elsewhere.               *)
(***************************************************************************)

(* Who is in the middle of a copy or a download, which helpers have         *)
(* compared the hash, and the inode that has what a copy copies.            *)
Copying(p) == pc[p] \in {"write", "rename"}
Fetching(p) == got[p] \in {"opened", "written"}
AtWork(p) == Helping(p) /\ pc[p] # "wait"
Held(p) == IF pc[p] = "write" THEN in[p] ELSE out[p]

(* No two names have one inode, and exe always has one; a process has files *)
(* in hand exactly while it copies or downloads, which only a window does.  *)
Distinct ==
  /\ file["exe"] # Nil
  /\ \A m, n \in Name : m # n /\ file[m] # Nil => file[m] # file[n]
Hands == \A p \in Proc :
  /\ in[p] # Nil <=> Copying(p)
  /\ out[p] # Nil <=> Copying(p) \/ Fetching(p)
  /\ got[p] # "none" => pc[p] \in {"open", "quit"}

(* The constants: versions are numbers, and nothing else is one of them.    *)
LEMMA Values ==
  /\ Older \in Nat /\ Installed \in Nat /\ Latest \in Nat /\ Version \subseteq Nat
  /\ Nil \notin Content /\ Nil \notin Inode /\ Nil \notin Version
  /\ Damaged \notin Version /\ CutShort \notin Version /\ Latest \in Version
  /\ Version \subseteq Content /\ Damaged \in Content /\ CutShort \in Content
  /\ \A v \in Version : Latest >= v
  /\ {1, 2, 3} \subseteq Inode
<1>1. Cardinality(Proc) \in Nat
  BY BoundsAssumption, FS_CardinalityType
<1>2. Inode \subseteq Int /\ {1, 2, 3} \subseteq Inode
  BY <1>1 DEF Inode
<1>3. CutShort \in Int /\ Damaged \in Int /\ CutShort \notin Nat /\ Damaged \notin Nat
  BY DEF CutShort, Damaged
<1>4. /\ Older \in Nat /\ Installed \in Nat /\ Latest \in Nat
      /\ Older < Installed /\ Installed < Latest
  BY VersionsAssumption
<1>5. Version \subseteq Nat /\ Latest \in Version /\ \A v \in Version : Latest >= v
  BY <1>4 DEF Version
<1>6. Version \subseteq Content /\ Damaged \in Content /\ CutShort \in Content
  BY DEF Content
<1>7. Content \subseteq Int
  BY <1>3, <1>5 DEF Content
<1>8. Nil \notin Content /\ Nil \notin Inode /\ Nil \notin Version
  BY <1>2, <1>6, <1>7, NilAssumption
<1>9. Damaged \notin Version /\ CutShort \notin Version
  BY <1>3, <1>5
<1> QED
  BY <1>2, <1>4, <1>5, <1>6, <1>8, <1>9

(* The values of a function on a finite set are no more than its elements.  *)
LEMMA ImageCount ==
  ASSUME NEW S, IsFiniteSet(S), NEW T, NEW f \in [S -> T], NEW I,
         \A y : y \in I <=> \E x \in S : f[x] = y
  PROVE  /\ IsFiniteSet(I) /\ Cardinality(I) <= Cardinality(S)
         /\ Cardinality(I) \in Nat /\ Cardinality(S) \in Nat
<1>1. f \in [S -> I]
  OBVIOUS
<1>2. f \in Surjection(S, I)
  BY <1>1 DEF Surjection
<1>3. IsFiniteSet(I) /\ Cardinality(I) <= Cardinality(S)
  BY <1>2, FS_Surjection
<1> QED
  BY <1>3, FS_CardinalityType

LEMMA UnionCount ==
  ASSUME NEW A, NEW B, IsFiniteSet(A), IsFiniteSet(B)
  PROVE  /\ IsFiniteSet(A \cup B) /\ Cardinality(A \cup B) \in Nat
         /\ Cardinality(A) \in Nat /\ Cardinality(B) \in Nat
         /\ Cardinality(A \cup B) <= Cardinality(A) + Cardinality(B)
<1>1. IsFiniteSet(A \cap B) /\ IsFiniteSet(A \cup B)
  BY FS_Union, FS_Subset
<1>2. Cardinality(A \cap B) \in Nat /\ Cardinality(A \cup B) \in Nat
      /\ Cardinality(A) \in Nat /\ Cardinality(B) \in Nat
  BY <1>1, FS_CardinalityType
<1>3. Cardinality(A \cup B) = Cardinality(A) + Cardinality(B) - Cardinality(A \cap B)
  BY FS_Union
<1> QED
  BY <1>1, <1>2, <1>3

LEMMA NameCount == IsFiniteSet(Name) /\ Cardinality(Name) <= 6
<1> DEFINE N1 == {} \cup {"exe"}
           N2 == N1 \cup {"exe.new"}
           N3 == N2 \cup {"bak"}
           N4 == N3 \cup {"bak.new"}
           N5 == N4 \cup {"asset"}
           N6 == N5 \cup {"asset.tmp"}
<1>1. IsFiniteSet(N1) /\ Cardinality(N1) \in Nat /\ Cardinality(N1) <= 1
  <2>1. IsFiniteSet({}) /\ Cardinality({}) = 0
    BY FS_EmptySet
  <2>2. IsFiniteSet({} \cup {"exe"}) /\ Cardinality({} \cup {"exe"}) = 0 + 1
    BY <2>1, FS_AddElement
  <2> QED BY <2>2
<1>2. IsFiniteSet(N2) /\ Cardinality(N2) \in Nat /\ Cardinality(N2) <= 2
  <2> HIDE DEF N1
  <2>1. /\ IsFiniteSet(N2)
        /\ Cardinality(N2) = IF "exe.new" \in N1 THEN Cardinality(N1)
                                                   ELSE Cardinality(N1) + 1
    BY <1>1, FS_AddElement
  <2> HIDE DEF N2
  <2> QED BY <1>1, <2>1
<1>3. IsFiniteSet(N3) /\ Cardinality(N3) \in Nat /\ Cardinality(N3) <= 3
  <2> HIDE DEF N2
  <2>1. /\ IsFiniteSet(N3)
        /\ Cardinality(N3) = IF "bak" \in N2 THEN Cardinality(N2)
                                                   ELSE Cardinality(N2) + 1
    BY <1>2, FS_AddElement
  <2> HIDE DEF N3
  <2> QED BY <1>2, <2>1
<1>4. IsFiniteSet(N4) /\ Cardinality(N4) \in Nat /\ Cardinality(N4) <= 4
  <2> HIDE DEF N3
  <2>1. /\ IsFiniteSet(N4)
        /\ Cardinality(N4) = IF "bak.new" \in N3 THEN Cardinality(N3)
                                                   ELSE Cardinality(N3) + 1
    BY <1>3, FS_AddElement
  <2> HIDE DEF N4
  <2> QED BY <1>3, <2>1
<1>5. IsFiniteSet(N5) /\ Cardinality(N5) \in Nat /\ Cardinality(N5) <= 5
  <2> HIDE DEF N4
  <2>1. /\ IsFiniteSet(N5)
        /\ Cardinality(N5) = IF "asset" \in N4 THEN Cardinality(N4)
                                                   ELSE Cardinality(N4) + 1
    BY <1>4, FS_AddElement
  <2> HIDE DEF N5
  <2> QED BY <1>4, <2>1
<1>6. IsFiniteSet(N6) /\ Cardinality(N6) \in Nat /\ Cardinality(N6) <= 6
  <2> HIDE DEF N5
  <2>1. /\ IsFiniteSet(N6)
        /\ Cardinality(N6) = IF "asset.tmp" \in N5 THEN Cardinality(N5)
                                                   ELSE Cardinality(N5) + 1
    BY <1>5, FS_AddElement
  <2> HIDE DEF N6
  <2> QED BY <1>5, <2>1
<1>7. N6 = Name
  BY DEF Name
<1> QED
  BY <1>6, <1>7

(* The parts of UpdateTypeOK, and the invariant that keeps them.            *)
DiskOK ==
  /\ file \in [Name -> Inode \cup {Nil}]
  /\ data \in [Inode -> Content]
  /\ manifest \in [is : {"absent", "torn", "saved"}, size : {Latest, CutShort, Nil}]
  /\ bounds \in [{"acts", "troubles"} -> Nat]
  /\ spoiled \subseteq Trespass
Place == {"off", "boot", "open", "quit", "wait", "check", "from", "write", "rename", "restart",
          "clear"}
PlaceOK ==
  /\ pc \in [Proc -> Place]
  /\ runs \in [Proc -> Version] /\ image \in [Proc -> Inode]
  /\ phase \in [Proc -> {"backup", "replace", "rollback"}]
  /\ tries \in [Proc -> 0 .. Tries] /\ kept \in [Proc -> Content \cup {Nil}]
HandsOK ==
  /\ in \in [Proc -> Inode \cup {Nil}] /\ out \in [Proc -> Inode \cup {Nil}]
  /\ got \in [Proc -> {"none", "opened", "written", "named", "saving"}]

(* There is always an inode that neither a name nor a process has.          *)
LEMMA UnusedExists ==
  ASSUME DiskOK, PlaceOK, HandsOK, NEW n \in Name, file[n] = Nil
  PROVE  Unused # {}
<1> DEFINE A == {file[m] : m \in Name}
           B == {in[p] : p \in Proc}
           C == {out[p] : p \in Proc}
           D == {image[p] : p \in Proc}
           I == {image[p] : p \in {q \in Proc : Running(q)}}
           c == Cardinality(Proc)
<1>1. IsFiniteSet(A) /\ Cardinality(A) \in Nat /\ Cardinality(A) <= 6
  <2>1. file \in [Name -> Inode \cup {Nil}] /\ IsFiniteSet(Name) /\ Cardinality(Name) <= 6
    BY NameCount DEF DiskOK
  <2>2. \A y : y \in A <=> \E x \in Name : file[x] = y
    OBVIOUS
  <2> HIDE DEF A
  <2>3. /\ IsFiniteSet(A) /\ Cardinality(A) <= Cardinality(Name)
        /\ Cardinality(A) \in Nat /\ Cardinality(Name) \in Nat
    BY <2>1, <2>2, ImageCount
  <2> QED BY <2>1, <2>3
<1>2. /\ c \in Nat
      /\ IsFiniteSet(B) /\ Cardinality(B) \in Nat /\ Cardinality(B) <= c
      /\ IsFiniteSet(C) /\ Cardinality(C) \in Nat /\ Cardinality(C) <= c
      /\ IsFiniteSet(D) /\ Cardinality(D) \in Nat /\ Cardinality(D) <= c
  <2>1. IsFiniteSet(Proc)
    BY BoundsAssumption
  <2>2. in \in [Proc -> Inode \cup {Nil}] /\ out \in [Proc -> Inode \cup {Nil}]
        /\ image \in [Proc -> Inode]
    BY DEF DiskOK, PlaceOK, HandsOK
  <2>3. /\ \A y : y \in B <=> \E x \in Proc : in[x] = y
        /\ \A y : y \in C <=> \E x \in Proc : out[x] = y
        /\ \A y : y \in D <=> \E x \in Proc : image[x] = y
    OBVIOUS
  <2> HIDE DEF B, C, D
  <2>4. IsFiniteSet(B) /\ Cardinality(B) \in Nat /\ Cardinality(B) <= c /\ c \in Nat
    <3>1. in \in [Proc -> Inode \cup {Nil}] /\ \A y : y \in B <=> \E x \in Proc : in[x] = y
      BY <2>2, <2>3
    <3> QED BY <2>1, <3>1, ImageCount
  <2>5. IsFiniteSet(C) /\ Cardinality(C) \in Nat /\ Cardinality(C) <= c
    <3>1. out \in [Proc -> Inode \cup {Nil}] /\ \A y : y \in C <=> \E x \in Proc : out[x] = y
      BY <2>2, <2>3
    <3> QED BY <2>1, <3>1, ImageCount
  <2>6. IsFiniteSet(D) /\ Cardinality(D) \in Nat /\ Cardinality(D) <= c
    <3>1. image \in [Proc -> Inode] /\ \A y : y \in D <=> \E x \in Proc : image[x] = y
      BY <2>2, <2>3
    <3> QED BY <2>1, <3>1, ImageCount
  <2> QED BY <2>4, <2>5, <2>6
<1>3. IsFiniteSet((A \cup B) \cup (C \cup D)) /\ Cardinality((A \cup B) \cup (C \cup D)) <= 6 + 3 * c
      /\ Cardinality((A \cup B) \cup (C \cup D)) \in Nat
  <2> HIDE DEF A, B, C, D, c
  <2>1. IsFiniteSet(A \cup B) /\ Cardinality(A \cup B) \in Nat /\ Cardinality(A \cup B) <= 6 + c
    BY <1>1, <1>2, UnionCount
  <2>2. IsFiniteSet(C \cup D) /\ Cardinality(C \cup D) \in Nat /\ Cardinality(C \cup D) <= c + c
    BY <1>2, UnionCount
  <2>3. /\ IsFiniteSet((A \cup B) \cup (C \cup D))
        /\ Cardinality((A \cup B) \cup (C \cup D)) <= Cardinality(A \cup B) + Cardinality(C \cup D)
        /\ Cardinality((A \cup B) \cup (C \cup D)) \in Nat
    BY <2>1, <2>2, UnionCount
  <2> QED BY <1>2, <2>1, <2>2, <2>3
<1>4. SUFFICES ASSUME Unused = {} PROVE FALSE
  OBVIOUS
<1> DEFINE U == (A \cup B) \cup (C \cup D)
<1>5. Inode \subseteq U \ {Nil}
  <2>1. Inode \subseteq A \cup B \cup C \cup I
    BY <1>4 DEF Unused
  <2>2. I \subseteq D
    OBVIOUS
  <2> QED BY <2>1, <2>2, Values
<1>6. Nil \in U
  BY DEF DiskOK, PlaceOK, HandsOK
<1> HIDE DEF A, B, C, D, I, U
<1>7. IsFiniteSet(U \ {Nil}) /\ Cardinality(U \ {Nil}) = Cardinality(U) - 1
  BY <1>3, <1>6, FS_RemoveElement DEF U
<1>8. Cardinality(Inode) <= Cardinality(U \ {Nil})
  BY <1>5, <1>7, FS_Subset
<1>9. Cardinality(Inode) = 6 + 3 * c
  BY <1>2, FS_Interval DEF Inode
<1> QED
  BY <1>2, <1>3, <1>7, <1>8, <1>9 DEF U

Base == DiskOK /\ PlaceOK /\ HandsOK /\ Distinct /\ Hands

LEMMA Parts == UpdateTypeOK <=> windows \in BOOLEAN /\ DiskOK /\ PlaceOK /\ HandsOK
BY DEF UpdateTypeOK, DiskOK, PlaceOK, HandsOK, Place

(* The names a copy reads from, writes to and renames to.                   *)
LEMMA Names ==
  ASSUME PlaceOK, NEW p \in Proc
  PROVE  /\ Fresh(p) \in {"bak.new", "exe.new"} /\ Target(p) \in {"exe", "bak"}
         /\ Source(p) \in {"exe", "asset", "bak"}
         /\ {Fresh(p), Target(p), Source(p)} \subseteq Name
         /\ phase[p] = "backup" => Source(p) = "exe" /\ Target(p) = "bak" /\ Fresh(p) = "bak.new"
         /\ phase[p] = "replace" => Source(p) = "asset" /\ Target(p) = "exe" /\ Fresh(p) = "exe.new"
         /\ phase[p] = "rollback" => Source(p) = "bak" /\ Target(p) = "exe" /\ Fresh(p) = "exe.new"
BY DEF PlaceOK, Fresh, Target, Source, Name

(* What O_CREATE|O_TRUNC does: the name has an inode, its own or a new one, *)
(* that is empty now, and no inode that a name or a process has changes.    *)
LEMMA Opened ==
  ASSUME Base, NEW p \in Proc, NEW n \in Name, n # "exe", OpenTrunc(p, n)
  PROVE  \E i \in Inode :
           /\ file' = [file EXCEPT ![n] = i] /\ out' = [out EXCEPT ![p] = i]
           /\ IF file[n] # Nil THEN i = file[n] ELSE i \in Unused
           /\ data' \in [Inode -> Content]
           /\ \A j \in Inode : j # i /\ j \notin Unused => data'[j] = data[j]
           /\ spoiled' = IF \E q \in Proc \ {p} : out[q] = i
                         THEN spoiled \cup {"shared"} ELSE spoiled
           /\ \A m \in Name : m # n => file[m] # i
<1> DEFINE i == IF file[n] # Nil THEN file[n] ELSE CHOOSE j \in Unused : TRUE
<1>1. file[n] = Nil => i \in Unused
  BY UnusedExists DEF Base
<1>2. i \in Inode
  BY <1>1 DEF Base, DiskOK, Unused
<1>3. /\ file' = [file EXCEPT ![n] = i] /\ out' = [out EXCEPT ![p] = i]
      /\ data' = [j \in Inode |-> IF j = i \/ j \in Unused THEN CutShort ELSE data[j]]
      /\ spoiled' = IF \E q \in Proc \ {p} : out[q] = i THEN spoiled \cup {"shared"} ELSE spoiled
  BY DEF OpenTrunc, Spoil
<1>4. \A m \in Name : m # n => file[m] # i
  BY <1>1 DEF Base, Distinct, Unused
<1> HIDE DEF i
<1>5. data' \in [Inode -> Content]
  BY <1>3, Values DEF Base, DiskOK
<1>6. IF file[n] # Nil THEN i = file[n] ELSE i \in Unused
  BY <1>1 DEF i
<1> QED
  BY <1>2, <1>3, <1>4, <1>5, <1>6

(* What a new process is: one in a free slot, from the program that the     *)
(* name exe holds; and what its starter does next.                          *)
LEMMA Spawned ==
  ASSUME Base, NEW s \in Proc \cup {Nil}, NEW next \in Place, NEW at \in {"boot", "wait"},
         s # Nil => pc[s] # "off",
         Executable, Spawn(s, next, at)
  PROVE  \E c \in Proc :
           /\ pc[c] = "off" /\ c # s
           /\ pc' = [q \in Proc |-> IF q = c THEN at ELSE IF q = s THEN next ELSE pc[q]]
           /\ phase' = [phase EXCEPT ![c] = "backup"]
           /\ kept' = [kept EXCEPT ![c] = Nil]
           /\ PlaceOK'
<1>1. Slot \in Proc /\ pc[Slot] = "off"
  BY DEF Spawn, Free, Slot
<1>2. Slot # s
  BY <1>1, NilAssumption
<1>3. Contents("exe") \in Version /\ file["exe"] \in Inode
  BY Values DEF Executable, Contents, Base, DiskOK, Distinct, Name
<1>4. PlaceOK'
  <2>1. pc' \in [Proc -> Place]
    BY <1>1 DEF Spawn, Base, PlaceOK, Place
  <2>2. runs' \in [Proc -> Version] /\ image' \in [Proc -> Inode]
    BY <1>3 DEF Spawn, Base, PlaceOK
  <2>3. 0 \in 0 .. Tries
    BY BoundsAssumption
  <2>4. /\ phase' \in [Proc -> {"backup", "replace", "rollback"}]
        /\ tries' \in [Proc -> 0 .. Tries] /\ kept' \in [Proc -> Content \cup {Nil}]
    BY <2>3 DEF Spawn, Base, PlaceOK
  <2> QED BY <2>1, <2>2, <2>4 DEF PlaceOK
<1> QED
  BY <1>1, <1>2, <1>4 DEF Spawn

(* A process that ends leaves its slot as it was at first.                  *)
LEMMA Ended ==
  ASSUME Base, NEW p \in Proc, Ends(p)
  PROVE  PlaceOK' /\ HandsOK'
<1>1. 0 \in 0 .. Tries /\ 1 \in Inode /\ Installed \in Version
  BY BoundsAssumption, Values DEF Version
<1>2. PlaceOK'
  BY <1>1 DEF Ends, Base, PlaceOK, Place
<1>3. HandsOK'
  BY <1>1 DEF Ends, Base, HandsOK
<1> QED
  BY <1>2, <1>3
(* The initial states, and one lemma for each shape of step.                *)
LEMMA BaseInit == UpdateInit => Base
<1> SUFFICES ASSUME UpdateInit PROVE Base
  OBVIOUS
<1>1. PICK old \in {Nil, 2}, new \in {Nil, 3} :
        /\ file = [n \in Name |-> CASE n = "exe" -> 1 [] n = "bak" -> old
                                    [] n = "asset" -> new [] OTHER -> Nil]
        /\ manifest = IF new = Nil THEN NoManifest ELSE [is |-> "saved", size |-> Latest]
  BY DEF UpdateInit
<1>2. DiskOK
  <2>1. file \in [Name -> Inode \cup {Nil}]
    BY <1>1, Values DEF Name
  <2>2. data \in [Inode -> Content]
    BY Values DEF UpdateInit, Version
  <2>3. manifest \in [is : {"absent", "torn", "saved"}, size : {Latest, CutShort, Nil}]
    BY <1>1 DEF NoManifest
  <2>4. bounds \in [{"acts", "troubles"} -> Nat] /\ spoiled \subseteq Trespass
    BY DEF UpdateInit
  <2> QED BY <2>1, <2>2, <2>3, <2>4 DEF DiskOK
<1>3. PlaceOK /\ HandsOK
  <2>1. 0 \in 0 .. Tries /\ 1 \in Inode /\ Installed \in Version
    BY BoundsAssumption, Values DEF Version
  <2> QED BY <2>1 DEF UpdateInit, PlaceOK, HandsOK, Place
<1>4. Distinct
  BY <1>1, Values DEF Distinct, Name
<1>5. Hands
  BY DEF UpdateInit, Hands, Copying, Fetching
<1> QED
  BY <1>2, <1>3, <1>4, <1>5 DEF Base

LEMMA BaseSpawn ==
  ASSUME Base, NEW s \in Proc \cup {Nil}, NEW next \in Place, NEW at \in {"boot", "wait"},
         s # Nil => pc[s] \notin {"off", "write", "rename"},
         next \notin {"write", "rename"},
         s # Nil /\ got[s] # "none" => next \in {"open", "quit"},
         Executable, Spawn(s, next, at), UNCHANGED <<disk, in, out, got>>,
         spoiled' \subseteq Trespass, bounds' \in [{"acts", "troubles"} -> Nat]
  PROVE  Base'
<1>1. PICK c \in Proc :
        /\ pc[c] = "off" /\ c # s
        /\ pc' = [q \in Proc |-> IF q = c THEN at ELSE IF q = s THEN next ELSE pc[q]]
        /\ PlaceOK'
  BY Spawned
<1>2. DiskOK' /\ HandsOK' /\ Distinct'
  BY DEF Base, DiskOK, HandsOK, Distinct, disk
<1>3. in' = in /\ out' = out /\ got' = got
  BY DEF disk
<1>4. Hands'
  <2> SUFFICES ASSUME NEW q \in Proc
               PROVE  /\ in[q] # Nil <=> pc'[q] \in {"write", "rename"}
                      /\ out[q] # Nil <=> pc'[q] \in {"write", "rename"} \/ Fetching(q)
                      /\ got[q] # "none" => pc'[q] \in {"open", "quit"}
    BY <1>3 DEF Hands, Copying, Fetching
  <2>1. /\ in[q] # Nil <=> pc[q] \in {"write", "rename"}
        /\ out[q] # Nil <=> pc[q] \in {"write", "rename"} \/ Fetching(q)
        /\ got[q] # "none" => pc[q] \in {"open", "quit"}
    BY DEF Base, Hands, Copying
  <2>2. CASE q = c
    BY <1>1, <2>1, <2>2
  <2>3. CASE q = s
    BY <1>1, <2>1, <2>3, NilAssumption
  <2>4. CASE q # c /\ q # s
    BY <1>1, <2>1, <2>4
  <2> QED BY <2>2, <2>3, <2>4
<1> QED
  BY <1>1, <1>2, <1>4 DEF Base

LEMMA BaseEnds ==
  ASSUME Base, NEW p \in Proc, Ends(p), DiskOK', Distinct'
  PROVE  Base'
<1>1. PlaceOK' /\ HandsOK'
  BY Ended
<1>2. Hands'
  BY DEF Ends, Base, PlaceOK, HandsOK, Hands, Copying, Fetching
<1> QED
  BY <1>1, <1>2 DEF Base

(* Names that are removed leave the others what they were.                  *)
LEMMA Removed ==
  ASSUME Base, NEW S \in SUBSET (Name \ {"exe"}),
         file' = [n \in Name |-> IF n \in S THEN Nil ELSE file[n]]
  PROVE  Distinct' /\ file' \in [Name -> Inode \cup {Nil}]
BY DEF Base, DiskOK, Distinct, Name

LEMMA Cleared ==
  ASSUME Base, ClearPending
  PROVE  /\ file' = [n \in Name |-> IF n \in {"asset", "asset.tmp"} THEN Nil ELSE file[n]]
         /\ file' \in [Name -> Inode \cup {Nil}] /\ Distinct'
         /\ manifest' \in [is : {"absent", "torn", "saved"}, size : {Latest, CutShort, Nil}]
<1>1. file' = [n \in Name |-> IF n \in {"asset", "asset.tmp"} THEN Nil ELSE file[n]]
  BY DEF Base, DiskOK, ClearPending, Name
<1>2. {"asset", "asset.tmp"} \in SUBSET (Name \ {"exe"})
  BY DEF Name
<1>3. manifest' \in [is : {"absent", "torn", "saved"}, size : {Latest, CutShort, Nil}]
  BY DEF ClearPending, NoManifest
<1> QED
  BY <1>1, <1>2, <1>3, Removed

(* A rename of a file that is there.                                        *)
LEMMA Renamed ==
  ASSUME Base, NEW m \in Name \ {"exe"}, NEW n \in Name \ {m}, file[m] # Nil, Rename(m, n)
  PROVE  Distinct' /\ file' \in [Name -> Inode \cup {Nil}]
<1>1. file' = [k \in Name |-> IF k = m THEN Nil ELSE IF k = n THEN file[m] ELSE file[k]]
  BY DEF Base, DiskOK, Rename
<1>2. file' \in [Name -> Inode \cup {Nil}]
  BY <1>1 DEF Base, DiskOK
<1>3. file'["exe"] # Nil
  BY <1>1 DEF Base, Distinct, Name
<1>4. \A j, k \in Name : j # k /\ file'[j] # Nil => file'[j] # file'[k]
  BY <1>1 DEF Base, Distinct
<1> QED
  BY <1>2, <1>3, <1>4 DEF Distinct

LEMMA BaseOpen ==
  ASSUME Base, NEW p \in Proc, NEW n \in Name, n # "exe", OpenTrunc(p, n),
         bounds' \in [{"acts", "troubles"} -> Nat], UNCHANGED manifest
  PROVE  DiskOK' /\ Distinct' /\ out' \in [Proc -> Inode \cup {Nil}]
         /\ \A q \in Proc : out'[q] = Nil <=> q # p /\ out[q] = Nil
<1>1. PICK i \in Inode :
        /\ file' = [file EXCEPT ![n] = i] /\ out' = [out EXCEPT ![p] = i]
        /\ data' \in [Inode -> Content]
        /\ spoiled' = IF \E q \in Proc \ {p} : out[q] = i THEN spoiled \cup {"shared"} ELSE spoiled
        /\ \A m \in Name : m # n => file[m] # i
  BY Opened
<1>2. DiskOK'
  BY <1>1 DEF Base, DiskOK, Trespass
<1>3. Distinct'
  BY <1>1, Values DEF Base, DiskOK, Distinct
<1>4. out' \in [Proc -> Inode \cup {Nil}] /\ \A q \in Proc : out'[q] = Nil <=> q # p /\ out[q] = Nil
  BY <1>1, Values DEF Base, HandsOK
<1> QED
  BY <1>2, <1>3, <1>4
(* A step of a download, and what it does to the file it has in hand.       *)
LEMMA BaseGot ==
  ASSUME Base, NEW p \in Proc,
         NEW from \in {"none", "opened", "written", "named", "saving"},
         NEW to \in {"none", "opened", "written", "named", "saving"},
         GotStep(p, from, to), DiskOK', Distinct',
         out' \in [Proc -> Inode \cup {Nil}],
         \A q \in Proc \ {p} : out'[q] = out[q],
         out'[p] # Nil <=> to \in {"opened", "written"}
  PROVE  Base'
<1>1. /\ pc' = pc /\ in' = in /\ phase' = phase /\ pc[p] \in {"open", "quit"}
      /\ got' = [got EXCEPT ![p] = to]
  BY DEF GotStep, local, Windowed
<1>2. PlaceOK'
  BY DEF Base, PlaceOK, GotStep, local
<1>3. HandsOK'
  BY <1>1 DEF Base, HandsOK
<1>4. Hands'
  BY <1>1 DEF Base, HandsOK, Hands, Copying, Fetching
<1> QED
  BY <1>2, <1>3, <1>4 DEF Base

(* A step from one copy to the next, or to the end.                         *)
LEMMA BaseContinue ==
  ASSUME Base, NEW p \in Proc, NEW at \in {"from", "restart", "off"},
         NEW ph \in {"backup", "replace", "rollback"}, NEW n \in 0 .. Tries,
         pc[p] \in {"from", "write", "rename"},
         Continue(p, [at |-> at, phase |-> ph, tries |-> n]),
         kept' \in [Proc -> Content \cup {Nil}],
         bounds' \in [{"acts", "troubles"} -> Nat],
         file' \in [Name -> Inode \cup {Nil}], Distinct'
  PROVE  Base'
<1>1. /\ pc' = [pc EXCEPT ![p] = at] /\ phase' = [phase EXCEPT ![p] = ph]
      /\ tries' = [tries EXCEPT ![p] = n]
      /\ in' = [in EXCEPT ![p] = Nil] /\ out' = [out EXCEPT ![p] = Nil]
      /\ UNCHANGED <<data, manifest, runs, image, got, spoiled>>
  BY DEF Continue, Go
<1>2. PlaceOK'
  BY <1>1 DEF Base, PlaceOK, Place
<1>3. DiskOK' /\ HandsOK'
  BY <1>1 DEF Base, DiskOK, HandsOK
<1>4. Hands'
  BY <1>1 DEF Base, PlaceOK, HandsOK, Hands, Copying, Fetching
<1> QED
  BY <1>2, <1>3, <1>4 DEF Base

(* What follows a copy is one of three places, in bounds.                   *)
LEMMA After ==
  ASSUME Base, NEW p \in Proc
  PROVE  /\ \E at \in {"from", "restart", "off"}, ph \in {"backup", "replace", "rollback"},
               n \in 0 .. Tries : AfterGood(p) = [at |-> at, phase |-> ph, tries |-> n]
         /\ \E at \in {"from", "restart", "off"}, ph \in {"backup", "replace", "rollback"},
               n \in 0 .. Tries : AfterBad(p) = [at |-> at, phase |-> ph, tries |-> n]
<1>1. /\ 0 \in 0 .. Tries /\ tries[p] \in 0 .. Tries /\ Tries \in 0 .. Tries
      /\ tries[p] + 1 < Tries => tries[p] + 1 \in 0 .. Tries
      /\ tries[p] + 1 < Tries \/ tries[p] + 1 >= Tries
  BY BoundsAssumption DEF Base, PlaceOK
<1>2. phase[p] \in {"backup", "replace", "rollback"}
  BY DEF Base, PlaceOK
<1>3. CASE phase[p] = "backup"
  BY <1>1, <1>3 DEF AfterGood, AfterBad
<1>4. CASE phase[p] = "replace"
  <2>1. AfterGood(p) = [at |-> "restart", phase |-> "replace", tries |-> tries[p]]
    BY <1>4 DEF AfterGood
  <2>2. CASE tries[p] + 1 < Tries
    <3>1. ~ (tries[p] + 1 >= Tries)
      BY <1>1, <2>2, BoundsAssumption
    <3>2. AfterBad(p) = [at |-> "from", phase |-> "replace", tries |-> tries[p] + 1]
      BY <1>4, <2>2, <3>1 DEF AfterBad
    <3> QED BY <1>1, <2>1, <2>2, <3>2
  <2>3. CASE tries[p] + 1 >= Tries
    <3>1. ~ (tries[p] + 1 < Tries)
      BY <1>1, <2>3, BoundsAssumption
    <3>2. AfterBad(p) = [at |-> IF file["bak"] = Nil THEN "off" ELSE "from",
                         phase |-> "rollback", tries |-> Tries]
      BY <1>4, <2>3, <3>1 DEF AfterBad
    <3> QED BY <1>1, <2>1, <3>2
  <2> QED BY <1>1, <2>2, <2>3
<1>5. CASE phase[p] = "rollback"
  BY <1>1, <1>5 DEF AfterGood, AfterBad
<1> QED
  BY <1>2, <1>3, <1>4, <1>5

LEMMA Bounded ==
  ASSUME bounds \in [{"acts", "troubles"} -> Nat], NEW b \in {"acts", "troubles"}, Use(b)
  PROVE  bounds' \in [{"acts", "troubles"} -> Nat]
BY DEF Use

(* The steps, group by group.                                               *)
LEMMA BaseProcess ==
  ASSUME Base, NEW p \in Proc,
         BootSpawns(p) \/ BootOpens(p) \/ ApplyPendingUpdate(p) \/ CancelPendingUpdate(p)
         \/ Quit(p) \/ Killed(p)
  PROVE  Base'
<1>1. CASE BootSpawns(p)
  <2>1. spoiled' \subseteq Trespass /\ bounds' \in [{"acts", "troubles"} -> Nat]
    BY <1>1 DEF BootSpawns, Spoil, Trespass, Base, DiskOK
  <2>2. pc[p] = "boot" /\ got[p] = "none"
    BY <1>1 DEF BootSpawns, Base, Hands
  <2>3. Executable /\ Spawn(p, "off", "wait") /\ UNCHANGED <<disk, in, out, got>>
    BY <1>1 DEF BootSpawns
  <2> QED BY <2>1, <2>2, <2>3, BaseSpawn DEF Place
<1>2. CASE BootOpens(p)
  <2>1. DiskOK' /\ HandsOK' /\ Distinct'
    BY <1>2 DEF BootOpens, disk, Base, DiskOK, HandsOK, Distinct
  <2>2. PlaceOK'
    BY <1>2 DEF BootOpens, local, Base, PlaceOK, Place
  <2>3. Hands'
    BY <1>2 DEF BootOpens, Base, PlaceOK, Hands, Copying, Fetching
  <2> QED BY <2>1, <2>2, <2>3 DEF Base
<1>3. CASE ApplyPendingUpdate(p)
  <2>1. spoiled' \subseteq Trespass /\ bounds' \in [{"acts", "troubles"} -> Nat]
    BY <1>3 DEF ApplyPendingUpdate, Spoil, Trespass, Base, DiskOK
  <2>2. pc[p] = "open" /\ Executable /\ Spawn(p, "quit", "wait") /\ UNCHANGED <<disk, in, out, got>>
    BY <1>3 DEF ApplyPendingUpdate
  <2> QED BY <2>1, <2>2, BaseSpawn DEF Place
<1>4. CASE CancelPendingUpdate(p)
  <2>1. ClearPending /\ UNCHANGED <<data, pc, local, in, out, got, bounds>> /\ spoiled' \subseteq Trespass
    BY <1>4 DEF CancelPendingUpdate, Spoil, Trespass, Base, DiskOK
  <2>2. DiskOK' /\ Distinct'
    BY <2>1, Cleared DEF Base, DiskOK
  <2>3. PlaceOK' /\ HandsOK' /\ Hands'
    BY <2>1 DEF local, Base, PlaceOK, HandsOK, Hands, Copying, Fetching
  <2> QED BY <2>2, <2>3 DEF Base
<1>5. CASE Quit(p)
  <2>1. DiskOK' /\ Distinct' /\ Ends(p)
    BY <1>5 DEF Quit, disk, Base, DiskOK, Distinct
  <2> QED BY <2>1, BaseEnds
<1>6. CASE Killed(p)
  <2>1. DiskOK' /\ Distinct' /\ Ends(p)
    BY <1>6, Bounded DEF Killed, Trouble, disk, Base, DiskOK, Distinct
  <2> QED BY <2>1, BaseEnds
<1> QED
  BY <1>1, <1>2, <1>3, <1>4, <1>5, <1>6

LEMMA BaseWorld ==
  ASSUME Base, Start \/ Damage
  PROVE  Base'
<1>1. CASE Start
  <2>1. /\ Executable /\ Spawn(Nil, "off", "boot") /\ UNCHANGED <<disk, in, out, got>>
        /\ spoiled' \subseteq Trespass /\ bounds' \in [{"acts", "troubles"} -> Nat]
    BY <1>1, Bounded DEF Start, Base, DiskOK
  <2> QED BY <2>1, BaseSpawn DEF Place
<1>2. CASE Damage
  <2>1. DiskOK'
    BY <1>2, Values, Bounded DEF Damage, Trouble, Base, DiskOK
  <2>2. PlaceOK' /\ HandsOK' /\ Distinct' /\ Hands'
    BY <1>2 DEF Damage, local, Base, PlaceOK, HandsOK, Distinct, Hands, Copying, Fetching
  <2> QED BY <2>1, <2>2 DEF Base
<1> QED
  BY <1>1, <1>2

LEMMA BaseDownload ==
  ASSUME Base, NEW p \in Proc, DownloadUpdate(p) \/ Downloading(p)
  PROVE  Base'
<1>1. CASE DownloadUpdate(p)
  <2>1. "asset.tmp" \in Name /\ OpenTrunc(p, "asset.tmp") /\ UNCHANGED manifest
        /\ GotStep(p, "none", "opened") /\ bounds' \in [{"acts", "troubles"} -> Nat]
    BY <1>1, Bounded DEF DownloadUpdate, Name, Base, DiskOK
  <2>2. /\ DiskOK' /\ Distinct' /\ out' \in [Proc -> Inode \cup {Nil}] /\ out'[p] # Nil
    BY <2>1, BaseOpen
  <2>3. \A q \in Proc \ {p} : out'[q] = out[q]
    BY <2>1 DEF OpenTrunc, Base, HandsOK
  <2> QED BY <2>1, <2>2, <2>3, BaseGot
<1>2. CASE DownloadBody(p)
  <2>1. DiskOK' /\ Distinct'
    BY <1>2, Values DEF DownloadBody, Base, DiskOK, Distinct
  <2>2. GotStep(p, "opened", "written") /\ out' = out /\ out[p] # Nil
    BY <1>2 DEF DownloadBody, GotStep, Base, Hands, Fetching
  <2> QED BY <2>1, <2>2, BaseGot DEF Base, HandsOK
<1>3. CASE DownloadBreaks(p)
  <2>1. /\ GotStep(p, "opened", "none") /\ out' = [out EXCEPT ![p] = Nil]
        /\ file' = [n \in Name |-> IF n \in {"asset.tmp"} THEN Nil ELSE file[n]]
        /\ UNCHANGED <<data, manifest, spoiled>> /\ bounds' \in [{"acts", "troubles"} -> Nat]
    BY <1>3, Bounded DEF DownloadBreaks, Trouble, Remove, Base, DiskOK
  <2>2. Distinct' /\ file' \in [Name -> Inode \cup {Nil}]
    BY <2>1, Removed DEF Name
  <2>3. DiskOK'
    BY <2>1, <2>2 DEF Base, DiskOK
  <2> QED BY <2>1, <2>2, <2>3, BaseGot DEF Base, HandsOK
<1>4. CASE DownloadNamed(p)
  <2>1. /\ GotStep(p, "written", "named") /\ out' = [out EXCEPT ![p] = Nil]
        /\ file["asset.tmp"] # Nil /\ Rename("asset.tmp", "asset")
        /\ UNCHANGED <<data, manifest, bounds>> /\ spoiled' \subseteq Trespass
    BY <1>4 DEF DownloadNamed, Spoil, Trespass, Base, DiskOK
  <2>2. Distinct' /\ file' \in [Name -> Inode \cup {Nil}]
    BY <2>1, Renamed DEF Name
  <2>3. DiskOK'
    BY <2>1, <2>2 DEF Base, DiskOK
  <2> QED BY <2>1, <2>2, <2>3, BaseGot DEF Base, HandsOK
<1>5. CASE DownloadUnnamed(p)
  <2>1. /\ GotStep(p, "written", "none") /\ out' = [out EXCEPT ![p] = Nil]
        /\ UNCHANGED <<disk, bounds, spoiled>>
    BY <1>5 DEF DownloadUnnamed
  <2>2. DiskOK' /\ Distinct'
    BY <2>1 DEF disk, Base, DiskOK, Distinct
  <2> QED BY <2>1, <2>2, BaseGot DEF Base, HandsOK
<1>6. CASE DownloadAccepted(p)
  <2>1. /\ GotStep(p, "named", "saving") /\ out' = out /\ out[p] = Nil
    BY <1>6 DEF DownloadAccepted, GotStep, Windowed, Base, Hands, Fetching, Copying
  <2>2. DiskOK' /\ Distinct'
    BY <1>6 DEF DownloadAccepted, TornManifest, Base, DiskOK, Distinct
  <2> QED BY <2>1, <2>2, BaseGot DEF Base, HandsOK
<1>7. CASE DownloadRejected(p)
  <2>1. /\ GotStep(p, "named", "none") /\ out' = out /\ out[p] = Nil
        /\ file' = [n \in Name |-> IF n \in {"asset"} THEN Nil ELSE file[n]]
        /\ UNCHANGED <<data, manifest, bounds, spoiled>>
    BY <1>7 DEF DownloadRejected, Remove, GotStep, Windowed, Base, DiskOK, Hands, Fetching, Copying
  <2>2. Distinct' /\ file' \in [Name -> Inode \cup {Nil}]
    BY <2>1, Removed DEF Name
  <2>3. DiskOK'
    BY <2>1, <2>2 DEF Base, DiskOK
  <2> QED BY <2>1, <2>2, <2>3, BaseGot DEF Base, HandsOK
<1>8. CASE SaveWrites(p)
  <2>1. /\ GotStep(p, "saving", "none") /\ out' = out /\ out[p] = Nil
        /\ UNCHANGED <<file, data, bounds, spoiled>>
    BY <1>8 DEF SaveWrites, GotStep, Windowed, Base, Hands, Fetching, Copying
  <2>2. manifest' \in [is : {"absent", "torn", "saved"}, size : {Latest, CutShort, Nil}]
    BY <1>8 DEF SaveWrites, Size, Base, DiskOK
  <2>3. DiskOK' /\ Distinct'
    BY <2>1, <2>2 DEF Base, DiskOK, Distinct
  <2> QED BY <2>1, <2>3, BaseGot DEF Base, HandsOK
<1> QED
  BY <1>1, <1>2, <1>3, <1>4, <1>5, <1>6, <1>7, <1>8 DEF Downloading

LEMMA BaseCopy ==
  ASSUME Base, NEW p \in Proc,
         CopyOpens(p) \/ CopyWrites(p) \/ CopyRenames(p) \/ CopyFails(p)
  PROVE  Base'
<1>1. CASE CopyOpens(p)
  <2>1. /\ pc[p] = "from" /\ file[Source(p)] \in Inode
        /\ in' = [in EXCEPT ![p] = file[Source(p)]] /\ pc' = [pc EXCEPT ![p] = "write"]
        /\ OpenTrunc(p, Fresh(p)) /\ UNCHANGED <<manifest, local, got, bounds>>
        /\ Fresh(p) \in Name /\ Fresh(p) # "exe"
    BY <1>1, Names DEF CopyOpens, Go, Base, DiskOK
  <2>2. /\ DiskOK' /\ Distinct' /\ out' \in [Proc -> Inode \cup {Nil}]
        /\ \A q \in Proc : out'[q] = Nil <=> q # p /\ out[q] = Nil
    BY <2>1, BaseOpen DEF Base, DiskOK
  <2>3. PlaceOK' /\ HandsOK'
    BY <2>1, <2>2 DEF local, Base, PlaceOK, Place, HandsOK
  <2>4. Hands'
    BY <2>1, <2>2, Values DEF Base, PlaceOK, HandsOK, Hands, Copying, Fetching
  <2> QED BY <2>2, <2>3, <2>4 DEF Base
<1>2. CASE CopyWrites(p)
  <2>1. in[p] \in Inode
    BY <1>2 DEF CopyWrites, Base, HandsOK, Hands, Copying
  <2>2. DiskOK'
    BY <1>2, <2>1 DEF CopyWrites, Base, DiskOK
  <2>3. PlaceOK' /\ HandsOK' /\ Distinct'
    BY <1>2 DEF CopyWrites, Go, local, Base, PlaceOK, Place, HandsOK, Distinct
  <2>4. Hands'
    BY <1>2 DEF CopyWrites, Go, Base, PlaceOK, Hands, Copying, Fetching
  <2> QED BY <2>2, <2>3, <2>4 DEF Base
<1>3. CASE CopyRenames(p)
  <2>1. /\ pc[p] = "rename" /\ file[Fresh(p)] # Nil /\ Rename(Fresh(p), Target(p))
        /\ kept' = IF phase[p] = "backup" THEN [kept EXCEPT ![p] = Contents(Fresh(p))] ELSE kept
        /\ Continue(p, AfterGood(p)) /\ bounds' = bounds
    BY <1>3 DEF CopyRenames
  <2>2. Fresh(p) \in Name \ {"exe"} /\ Target(p) \in Name \ {Fresh(p)}
    BY Names DEF Base
  <2>3. Distinct' /\ file' \in [Name -> Inode \cup {Nil}]
    BY <2>1, <2>2, Renamed
  <2>4. kept' \in [Proc -> Content \cup {Nil}]
    BY <2>1, <2>2 DEF Contents, Base, DiskOK, PlaceOK
  <2>5. bounds' \in [{"acts", "troubles"} -> Nat]
    BY <2>1 DEF Base, DiskOK
  <2>6. PICK at \in {"from", "restart", "off"}, ph \in {"backup", "replace", "rollback"},
             n \in 0 .. Tries : AfterGood(p) = [at |-> at, phase |-> ph, tries |-> n]
    BY After
  <2> QED BY <2>1, <2>3, <2>4, <2>5, <2>6, BaseContinue
<1>4. CASE CopyFails(p)
  <2>1. /\ pc[p] \in {"from", "write", "rename"} /\ kept' = kept /\ Continue(p, AfterBad(p))
        /\ file' = file \/ Remove(Fresh(p))
        /\ bounds' \in [{"acts", "troubles"} -> Nat]
    BY <1>4, Bounded DEF CopyFails, Trouble, Base, DiskOK
  <2>2. Distinct' /\ file' \in [Name -> Inode \cup {Nil}]
    <3>1. CASE file' = file
      BY <3>1 DEF Base, DiskOK, Distinct
    <3>2. CASE Remove(Fresh(p))
      <4>1. /\ {Fresh(p)} \in SUBSET (Name \ {"exe"})
            /\ file' = [n \in Name |-> IF n \in {Fresh(p)} THEN Nil ELSE file[n]]
        BY <3>2, Names DEF Remove, Base, DiskOK
      <4> QED BY <4>1, Removed
    <3> QED BY <2>1, <3>1, <3>2
  <2>3. PICK at \in {"from", "restart", "off"}, ph \in {"backup", "replace", "rollback"},
             n \in 0 .. Tries : AfterBad(p) = [at |-> at, phase |-> ph, tries |-> n]
    BY After
  <2>4. kept' \in [Proc -> Content \cup {Nil}]
    BY <2>1 DEF Base, PlaceOK
  <2> QED BY <2>1, <2>2, <2>3, <2>4, BaseContinue
<1> QED
  BY <1>1, <1>2, <1>3, <1>4

LEMMA BaseHelper ==
  ASSUME Base, NEW p \in Proc, Helper(p)
  PROVE  Base'
<1>1. CASE Check(p)
  <2>1. DiskOK' /\ HandsOK' /\ Distinct'
    BY <1>1 DEF Check, Spoil, Trespass, disk, Base, DiskOK, HandsOK, Distinct
  <2>2. PlaceOK'
    BY <1>1 DEF Check, Go, local, Base, PlaceOK, Place
  <2>3. Hands'
    BY <1>1 DEF Check, Go, Base, PlaceOK, Hands, Copying, Fetching
  <2> QED BY <2>1, <2>2, <2>3 DEF Base
<1>2. CASE Reject(p) \/ Clear(p)
  <2>1. ClearPending /\ Ends(p) /\ UNCHANGED <<data, bounds, spoiled>>
    BY <1>2 DEF Reject, Clear
  <2>2. DiskOK' /\ Distinct'
    BY <2>1, Cleared DEF Base, DiskOK
  <2> QED BY <2>1, <2>2, BaseEnds
<1>3. CASE Restart(p)
  <2>1. /\ pc[p] = "restart" /\ Executable /\ Spawn(p, "clear", "boot")
        /\ UNCHANGED <<disk, in, out, got, bounds, spoiled>>
    BY <1>3 DEF Restart
  <2>2. got[p] = "none" /\ spoiled' \subseteq Trespass /\ bounds' \in [{"acts", "troubles"} -> Nat]
    BY <2>1 DEF Base, DiskOK, Hands
  <2> QED BY <2>1, <2>2, BaseSpawn DEF Place
<1>4. CASE RestartFails(p)
  <2>1. DiskOK' /\ Distinct' /\ Ends(p)
    BY <1>4 DEF RestartFails, disk, Base, DiskOK, Distinct
  <2> QED BY <2>1, BaseEnds
<1> QED
  BY <1>1, <1>2, <1>3, <1>4, BaseCopy DEF Helper

LEMMA BaseNext == Base /\ [UpdateNext]_updateVars => Base'
<1> SUFFICES ASSUME Base, [UpdateNext]_updateVars PROVE Base'
  OBVIOUS
<1>1. CASE UNCHANGED updateVars
  BY <1>1 DEF updateVars, Base, DiskOK, PlaceOK, HandsOK, Distinct, Hands, Copying, Fetching
<1>2. CASE UpdateNext
  BY <1>2, BaseWorld, BaseProcess, BaseDownload, BaseHelper DEF UpdateNext
<1> QED
  BY <1>1, <1>2

(* The states of the updater stay within their types: whatever process does *)
(* what when, a name holds a file that is there, and what is copied too.    *)
THEOREM UpdateTypeCorrect == UpdateSpec => []UpdateTypeOK
<1> DEFINE Known == windows \in BOOLEAN
           Step == UpdateNext /\ UNCHANGED windows
<1>1. UpdateInit => Base /\ Known
  BY BaseInit DEF UpdateInit
<1>2. Base /\ Known /\ [Step]_<<updateVars, windows>> => (Base /\ Known)'
  BY BaseNext
<1>3. Base /\ Known => UpdateTypeOK
  BY Parts DEF Base
<1> QED
  <2> HIDE DEF Known
  <2> QED BY <1>1, <1>2, <1>3, PTL DEF UpdateSpec

(* As long as no process has spoiled what another does: no two write one    *)
(* inode; a copy writes the inode of its ".new" name, and a download one    *)
(* that has no name but "asset.tmp"; nobody writes what a copy reads; and   *)
(* what the names hold, what a download wrote and what a copy reads, or has *)
(* written, is complete.                                                    *)
Clean == spoiled \cap {"shared", "unchecked"} = {}
Apart == \A p, q \in Proc : p # q /\ out[p] # Nil => out[p] # out[q]
Own == \A p \in Proc :
  /\ Copying(p) => file[Fresh(p)] = out[p]
  /\ Fetching(p) => \A n \in Name \ {"asset.tmp"} : file[n] # out[p]
Reads == \A p \in Proc : Copying(p) =>
  /\ \A n \in {"asset.tmp", "exe.new", "bak.new"} : file[n] # in[p]
  /\ \A q \in Proc : out[q] # in[p]
  /\ phase[p] # "replace" => file["asset"] # in[p]
Sound == file["asset"] # Nil => data[file["asset"]] = Latest
Whole ==
  /\ data[file["exe"]] \in Version
  /\ file["bak"] # Nil => data[file["bak"]] \in Version
  /\ Sound \/ \A p \in Proc : ~ AtWork(p)
  /\ file["asset"] # Nil => data[file["asset"]] \in {Latest, Damaged}
  /\ \A p \in Proc :
       /\ got[p] = "written" => data[out[p]] = Latest
       /\ Copying(p) => data[Held(p)] \in Version
       /\ Copying(p) /\ phase[p] = "replace" => data[Held(p)] = Latest
CleanOK == Apart /\ Own /\ Reads /\ Whole

(* Most steps write nothing: they release what a process had in hand, or    *)
(* remove a name.                                                           *)
Quiet ==
  /\ data' = data /\ file'["exe"] = file["exe"] /\ file'["bak"] = file["bak"]
  /\ \A n \in Name : file'[n] \in {file[n], Nil}
  /\ \A q \in Proc :
       /\ Copying(q)' => /\ Copying(q) /\ pc'[q] = pc[q] /\ phase'[q] = phase[q]
                         /\ in'[q] = in[q] /\ out'[q] = out[q]
                         /\ file'[Fresh(q)] = file[Fresh(q)]
       /\ Fetching(q)' => Fetching(q) /\ got'[q] = got[q] /\ out'[q] = out[q]
       /\ AtWork(q)' => AtWork(q) \/ Sound

LEMMA QuietKeeps ==
  ASSUME Base, Base', CleanOK, Quiet
  PROVE  CleanOK'
<1>1. \A q \in Proc : out'[q] # Nil => (Copying(q) \/ Fetching(q)) /\ out'[q] = out[q] /\ out[q] # Nil
  BY DEF Base, Hands, Quiet
<1>2. Apart'
  BY <1>1 DEF CleanOK, Apart
<1>3. \A q \in Proc : Copying(q)' => Fresh(q)' = Fresh(q) /\ Held(q)' = Held(q) /\ in[q] # Nil /\ out[q] # Nil
  BY DEF Quiet, Fresh, Held, Base, Hands
<1>4. \A q \in Proc : out[q] # Nil => out[q] \in Inode
  BY DEF Base, HandsOK
<1>5. Own'
  <2> SUFFICES ASSUME NEW q \in Proc
               PROVE  /\ Copying(q)' => (file[Fresh(q)] = out[q])'
                      /\ Fetching(q)' => \A n \in Name \ {"asset.tmp"} : file'[n] # out'[q]
    BY DEF Own
  <2>1. Copying(q)' => (file[Fresh(q)] = out[q])'
    BY <1>3 DEF CleanOK, Own, Quiet
  <2>2. Fetching(q)' => out[q] # Nil /\ out'[q] = out[q] /\ Fetching(q)
    BY DEF Quiet, Base, Hands
  <2>3. Fetching(q)' => \A n \in Name \ {"asset.tmp"} : file'[n] # out'[q]
    BY <2>2 DEF CleanOK, Own, Quiet
  <2> QED BY <2>1, <2>3
<1>6. Reads'
  <2> SUFFICES ASSUME NEW q \in Proc, Copying(q)'
               PROVE  /\ \A n \in {"asset.tmp", "exe.new", "bak.new"} : file'[n] # in'[q]
                      /\ \A r \in Proc : out'[r] # in'[q]
                      /\ phase'[q] # "replace" => file'["asset"] # in'[q]
    BY DEF Reads
  <2>1. Copying(q) /\ in'[q] = in[q] /\ in[q] # Nil /\ phase'[q] = phase[q]
    BY <1>3 DEF Quiet
  <2>2. \A n \in {"asset.tmp", "exe.new", "bak.new", "asset"} : n \in Name
    BY DEF Name
  <2>3. \A r \in Proc : out'[r] # in[q]
    BY <1>1, <2>1 DEF CleanOK, Reads
  <2> QED BY <2>1, <2>2, <2>3 DEF CleanOK, Reads, Quiet
<1>7. Whole'
  <2>1. "asset" \in Name
    BY DEF Name
  <2>2. Sound => Sound'
    BY <2>1 DEF Sound, Quiet
  <2>3. Sound' \/ \A q \in Proc : ~ AtWork(q)'
    BY <2>2 DEF CleanOK, Whole, Quiet
  <2>4. \A q \in Proc :
          /\ got'[q] = "written" => data'[out'[q]] = Latest
          /\ Copying(q)' => data'[Held(q)'] \in Version
          /\ Copying(q)' /\ phase'[q] = "replace" => data'[Held(q)'] = Latest
    BY <1>3 DEF CleanOK, Whole, Quiet, Fetching
  <2> QED BY <2>1, <2>3, <2>4 DEF CleanOK, Whole, Quiet
<1> QED
  BY <1>2, <1>5, <1>6, <1>7 DEF CleanOK

LEMMA QuietSpawn ==
  ASSUME Base, NEW s \in Proc \cup {Nil}, NEW next \in {"off", "quit", "clear"},
         NEW at \in {"boot", "wait"},
         s # Nil => pc[s] # "off", next = "clear" => pc[s] = "restart",
         Executable, Spawn(s, next, at), UNCHANGED <<disk, in, out, got>>
  PROVE  Quiet
<1>1. PICK c \in Proc :
        /\ pc[c] = "off" /\ c # s
        /\ pc' = [q \in Proc |-> IF q = c THEN at ELSE IF q = s THEN next ELSE pc[q]]
        /\ phase' = [phase EXCEPT ![c] = "backup"]
  BY Spawned DEF Place
<1>2. file' = file /\ data' = data /\ in' = in /\ out' = out /\ got' = got
  BY DEF disk
<1>3. ASSUME NEW q \in Proc
      PROVE  /\ Copying(q)' => Copying(q) /\ pc'[q] = pc[q] /\ phase'[q] = phase[q]
             /\ AtWork(q)' => AtWork(q)
  <2>1. CASE q = c
    BY <1>1, <2>1 DEF Copying, AtWork, Helping
  <2>2. CASE q = s
    BY <1>1, <2>2 DEF Copying, AtWork, Helping
  <2>3. CASE q # c /\ q # s
    BY <1>1, <2>3 DEF Base, PlaceOK, Copying, AtWork, Helping
  <2> QED BY <2>1, <2>2, <2>3
<1> QED
  BY <1>2, <1>3 DEF Quiet, Fetching

LEMMA QuietEnds ==
  ASSUME Base, NEW p \in Proc, Ends(p), data' = data, file' = file \/ ClearPending
  PROVE  Quiet
<1>1. \A n \in Name : file'[n] \in {file[n], Nil}
                      /\ (n \notin {"asset", "asset.tmp"} => file'[n] = file[n])
  BY Cleared
<1>2. \A q \in Proc : Fresh(q) \in Name /\ Fresh(q) \notin {"asset", "asset.tmp"}
  BY Names DEF Base
<1>3. file'["exe"] = file["exe"] /\ file'["bak"] = file["bak"]
  BY <1>1 DEF Name
<1>4. \A q \in Proc :
        /\ q = p => ~ Copying(q)' /\ ~ Fetching(q)' /\ ~ AtWork(q)'
        /\ q # p => /\ pc'[q] = pc[q] /\ phase'[q] = phase[q] /\ in'[q] = in[q]
                    /\ out'[q] = out[q] /\ got'[q] = got[q]
  BY DEF Ends, Base, PlaceOK, HandsOK, Copying, Fetching, AtWork, Helping
<1> QED
  BY <1>1, <1>2, <1>3, <1>4 DEF Quiet, Copying, Fetching, AtWork, Helping

LEMMA QuietGot ==
  ASSUME Base, NEW p \in Proc, NEW from, NEW to \in {"none", "named", "saving"},
         GotStep(p, from, to), data' = data,
         \A n \in Name : file'[n] \in {file[n], Nil}
                         /\ (n \notin {"asset", "asset.tmp"} => file'[n] = file[n]),
         \A q \in Proc \ {p} : out'[q] = out[q]
  PROVE  Quiet
<1>1. /\ pc' = pc /\ in' = in /\ phase' = phase /\ pc[p] \in {"open", "quit"}
      /\ got' = [got EXCEPT ![p] = to]
  BY DEF GotStep, local, Windowed
<1>2. \A q \in Proc : Fresh(q) \in Name /\ Fresh(q) \notin {"asset", "asset.tmp"}
  BY Names DEF Base
<1>3. file'["exe"] = file["exe"] /\ file'["bak"] = file["bak"]
  BY DEF Name
<1>4. \A q \in Proc :
        /\ q = p => ~ Copying(q)' /\ ~ Fetching(q)'
        /\ q # p => out'[q] = out[q] /\ got'[q] = got[q]
  BY <1>1 DEF Base, PlaceOK, HandsOK, Copying, Fetching
<1> QED
  BY <1>1, <1>2, <1>3, <1>4 DEF Quiet, Copying, Fetching, AtWork, Helping
(* A file that is opened is emptied: no file under another name, none that  *)
(* a copy reads and none that another process writes.                       *)
LEMMA OpenLeaves ==
  ASSUME Base, CleanOK, "shared" \notin spoiled', NEW p \in Proc,
         NEW n \in Name, n # "exe", n \in {"asset.tmp", "exe.new", "bak.new"}, OpenTrunc(p, n)
  PROVE  \E i \in Inode :
           /\ IF file[n] # Nil THEN i = file[n] ELSE i \in Unused
           /\ \A m \in Name : file'[m] = IF m = n THEN i ELSE file[m]
           /\ \A q \in Proc : out'[q] = IF q = p THEN i ELSE out[q]
           /\ \A m \in Name : m # n => file[m] # i
           /\ \A q \in Proc \ {p} : out[q] # i
           /\ \A q \in Proc : Copying(q) => in[q] # i /\ in[q] # Nil /\ out[q] # Nil
           /\ \A m \in Name \ {n} : file[m] # Nil => data'[file[m]] = data[file[m]]
           /\ \A q \in Proc : Copying(q) => data'[in[q]] = data[in[q]]
           /\ \A q \in Proc \ {p} : out[q] # Nil => data'[out[q]] = data[out[q]]
<1>1. PICK i \in Inode :
        /\ file' = [file EXCEPT ![n] = i] /\ out' = [out EXCEPT ![p] = i]
        /\ IF file[n] # Nil THEN i = file[n] ELSE i \in Unused
        /\ \A j \in Inode : j # i /\ j \notin Unused => data'[j] = data[j]
        /\ spoiled' = IF \E q \in Proc \ {p} : out[q] = i THEN spoiled \cup {"shared"} ELSE spoiled
        /\ \A m \in Name : m # n => file[m] # i
  BY Opened
<1>2. /\ \A m \in Name : file'[m] = IF m = n THEN i ELSE file[m]
      /\ \A q \in Proc : out'[q] = IF q = p THEN i ELSE out[q]
      /\ \A m \in Name : file[m] \in Inode \cup {Nil}
      /\ \A q \in Proc : in[q] \in Inode \cup {Nil} /\ out[q] \in Inode \cup {Nil}
  BY <1>1 DEF Base, DiskOK, HandsOK
<1>3. \A q \in Proc \ {p} : out[q] # i
  BY <1>1
<1>4. \A m \in Name : file[m] # Nil => file[m] \notin Unused
  BY DEF Unused
<1>5. \A q \in Proc : in[q] \notin Unused /\ out[q] \notin Unused
  BY DEF Unused
<1>6. \A q \in Proc : Copying(q) => in[q] # i /\ in[q] # Nil /\ out[q] # Nil
  BY <1>1, <1>5 DEF CleanOK, Reads, Base, Hands
<1>7. /\ \A m \in Name \ {n} : file[m] # Nil => data'[file[m]] = data[file[m]]
      /\ \A q \in Proc : Copying(q) => data'[in[q]] = data[in[q]]
      /\ \A q \in Proc \ {p} : out[q] # Nil => data'[out[q]] = data[out[q]]
  BY <1>1, <1>2, <1>3, <1>4, <1>5, <1>6
<1> QED
  BY <1>1, <1>2, <1>3, <1>6, <1>7

(* ... so that opening a file for a copy or a download keeps CleanOK.       *)
LEMMA OpenKeeps ==
  ASSUME Base, Base', CleanOK, "shared" \notin spoiled', NEW p \in Proc,
         NEW n \in {"asset.tmp", "exe.new", "bak.new"},
         ~ Copying(p), ~ Fetching(p), OpenTrunc(p, n),
         phase' = phase,
         \A q \in Proc \ {p} : pc'[q] = pc[q] /\ in'[q] = in[q] /\ got'[q] = got[q],
         AtWork(p)' => AtWork(p),
         \/ /\ pc'[p] = "write" /\ ~ Fetching(p)' /\ AtWork(p)
            /\ n = Fresh(p) /\ file[Source(p)] # Nil /\ in'[p] = file[Source(p)]
         \/ ~ Copying(p)' /\ got'[p] = "opened" /\ n = "asset.tmp"
  PROVE  CleanOK'
<1> "exe" \in Name /\ "bak" \in Name /\ "asset" \in Name /\ n \in Name /\ n # "exe"
  BY DEF Name
<1>1. PICK i \in Inode :
        /\ IF file[n] # Nil THEN i = file[n] ELSE i \in Unused
        /\ \A m \in Name : file'[m] = IF m = n THEN i ELSE file[m]
        /\ \A q \in Proc : out'[q] = IF q = p THEN i ELSE out[q]
        /\ \A m \in Name : m # n => file[m] # i
        /\ \A q \in Proc \ {p} : out[q] # i
        /\ \A q \in Proc : Copying(q) => in[q] # i /\ in[q] # Nil /\ out[q] # Nil
        /\ \A m \in Name \ {n} : file[m] # Nil => data'[file[m]] = data[file[m]]
        /\ \A q \in Proc : Copying(q) => data'[in[q]] = data[in[q]]
        /\ \A q \in Proc \ {p} : out[q] # Nil => data'[out[q]] = data[out[q]]
  BY OpenLeaves
<1>2. \A q \in Proc \ {p} : /\ Copying(q)' <=> Copying(q)
                            /\ Fetching(q)' <=> Fetching(q)
                            /\ AtWork(q)' <=> AtWork(q)
                            /\ Fresh(q)' = Fresh(q)
                            /\ Held(q)' = Held(q)
  BY <1>1 DEF Copying, Fetching, AtWork, Helping, Fresh, Held
<1>3. \A q \in Proc : Fresh(q) \in Name
  BY Names DEF Base
<1>4. Apart'
  BY <1>1 DEF CleanOK, Apart
<1>5. Own'
  <2> SUFFICES ASSUME NEW q \in Proc
               PROVE  /\ Copying(q)' => file'[Fresh(q)'] = out'[q]
                      /\ Fetching(q)' => \A m \in Name \ {"asset.tmp"} : file'[m] # out'[q]
    BY DEF Own
  <2>1. CASE q = p
    <3>1. Copying(p)' => Fresh(p)' = n
      BY DEF Fresh
    <3>2. Fetching(p)' => n = "asset.tmp"
      OBVIOUS
    <3> QED BY <1>1, <2>1, <3>1, <3>2
  <2>2. CASE q # p
    <3>1. Copying(q) => file[Fresh(q)] = out[q]
      BY DEF CleanOK, Own
    <3>2. Copying(q) => Fresh(q) # n
      BY <1>1, <2>2, <3>1
    <3>3. Fetching(q) => \A m \in Name \ {"asset.tmp"} : file[m] # out[q]
      BY DEF CleanOK, Own
    <3>0. out'[q] = out[q]
      BY <1>1, <2>2
    <3>4. /\ out'[q] = out[q] /\ Fresh(q)' = Fresh(q) /\ Fresh(q) \in Name
          /\ Copying(q)' <=> Copying(q)
          /\ Fetching(q)' <=> Fetching(q)
      <4>1. q \in Proc \ {p}
        BY <2>2
      <4> QED BY <1>2, <1>3, <3>0, <4>1
    <3>6. \A m \in Name : m # n => file'[m] = file[m]
      BY <1>1
    <3>5. Copying(q)' => file'[Fresh(q)'] = out'[q]
      <4> SUFFICES ASSUME Copying(q)' PROVE file'[Fresh(q)'] = out'[q]
        OBVIOUS
      <4>1. Copying(q) /\ Fresh(q) \in Name /\ Fresh(q) # n /\ file[Fresh(q)] = out[q]
        BY <3>1, <3>2, <3>4
      <4>2. file'[Fresh(q)] = file[Fresh(q)]
        BY <3>6, <4>1
      <4> QED BY <3>4, <4>1, <4>2
    <3>7. out[q] # i /\ file'[n] = i
      BY <1>1, <2>2
    <3>8. Fetching(q)' => \A m \in Name \ {"asset.tmp"} : file'[m] # out'[q]
      <4> SUFFICES ASSUME Fetching(q)', NEW m \in Name \ {"asset.tmp"}
                   PROVE  file'[m] # out'[q]
        OBVIOUS
      <4>1. file[m] # out[q]
        BY <3>3, <3>4
      <4> QED BY <3>4, <3>6, <3>7, <4>1
    <3> QED BY <3>5, <3>8
  <2> QED BY <2>1, <2>2
<1>6. Reads'
  <2> SUFFICES ASSUME NEW q \in Proc, Copying(q)'
               PROVE  /\ \A m \in {"asset.tmp", "exe.new", "bak.new"} : file'[m] # in'[q]
                      /\ \A r \in Proc : out'[r] # in'[q]
                      /\ phase[q] # "replace" => file'["asset"] # in'[q]
    BY DEF Reads
  <2>0. {"asset.tmp", "exe.new", "bak.new"} \subseteq Name
    BY DEF Name
  <2>1. CASE q = p
    <3>1. /\ in'[p] = file[Source(p)] /\ file[Source(p)] # Nil /\ n = Fresh(p)
          /\ Source(p) \in Name /\ Source(p) \in {"exe", "asset", "bak"}
          /\ phase[p] # "replace" => Source(p) # "asset"
      BY <2>1, Names DEF Base, PlaceOK
    <3>2. \A m \in Name : m # Source(p) => file[m] # in'[p]
      BY <3>1 DEF Base, Distinct
    <3>3. in'[p] # i
      BY <1>1, <3>1
    <3>4. \A r \in Proc \ {p} : out[r] # in'[p]
      <4> SUFFICES ASSUME NEW r \in Proc \ {p}, out[r] # Nil PROVE out[r] # in'[p]
        BY <3>1
      <4>1. Copying(r) \/ Fetching(r)
        BY DEF Base, Hands
      <4>2. CASE Copying(r)
        <5>1. file[Fresh(r)] = out[r] /\ Fresh(r) \in {"bak.new", "exe.new"}
          BY <4>2, Names DEF CleanOK, Own, Base
        <5> QED BY <5>1, <3>1, <3>2, <1>3
      <4>3. CASE Fetching(r)
        BY <4>3, <3>1 DEF CleanOK, Own
      <4> QED BY <4>1, <4>2, <4>3
    <3> QED BY <1>1, <2>0, <2>1, <3>1, <3>2, <3>3, <3>4
  <2>2. CASE q # p
    <3>1. Copying(q) /\ in'[q] = in[q] /\ in[q] # i
      BY <1>1, <1>2, <2>2
    <3>2. /\ \A m \in {"asset.tmp", "exe.new", "bak.new"} : file[m] # in[q]
          /\ \A r \in Proc : out[r] # in[q]
          /\ phase[q] # "replace" => file["asset"] # in[q]
      BY <3>1 DEF CleanOK, Reads
    <3> QED BY <1>1, <2>0, <3>1, <3>2
  <2> QED BY <2>1, <2>2
<1>7. Whole'
  <2>1. /\ data'[file'["exe"]] = data[file["exe"]] /\ file'["asset"] = file["asset"]
        /\ file'["bak"] = file["bak"]
        /\ file["bak"] # Nil => data'[file["bak"]] = data[file["bak"]]
        /\ file["asset"] # Nil => data'[file["asset"]] = data[file["asset"]]
    BY <1>1 DEF Base, Distinct
  <2>2. Sound' <=> Sound
    BY <2>1 DEF Sound
  <2>3. Sound' \/ \A q \in Proc : ~ AtWork(q)'
    BY <1>2, <2>2 DEF CleanOK, Whole
  <2> SUFFICES ASSUME NEW q \in Proc
               PROVE  /\ got'[q] = "written" => data'[out'[q]] = Latest
                      /\ Copying(q)' => data'[Held(q)'] \in Version
                      /\ Copying(q)' /\ phase[q] = "replace" => data'[Held(q)'] = Latest
    BY <2>1, <2>3 DEF CleanOK, Whole
  <2>4. CASE q = p
    <3>1. got'[p] # "written"
      BY DEF Fetching
    <3>2. ASSUME Copying(p)'
          PROVE  data'[Held(p)'] \in Version /\ (phase[p] = "replace" => data'[Held(p)'] = Latest)
      <4>1. /\ Held(p)' = file[Source(p)] /\ file[Source(p)] # Nil /\ AtWork(p)
            /\ Source(p) \in {"exe", "asset", "bak"} /\ Source(p) \in Name \ {n}
            /\ phase[p] = "replace" => Source(p) = "asset"
        BY <3>2, Names DEF Held, Base
      <4>2. data'[Held(p)'] = data[file[Source(p)]]
        BY <1>1, <4>1
      <4>3. Source(p) = "asset" => data[file[Source(p)]] = Latest
        BY <4>1 DEF CleanOK, Whole, Sound
      <4> QED BY <4>1, <4>2, <4>3, Values DEF CleanOK, Whole
    <3> QED BY <2>4, <3>1, <3>2
  <2>5. CASE q # p
    <3>1. Copying(q) => data'[Held(q)] = data[Held(q)]
      BY <1>1, <2>5 DEF Held
    <3>2. got[q] = "written" => out[q] # Nil /\ data'[out[q]] = data[out[q]]
      BY <1>1, <2>5 DEF Base, Hands, Fetching
    <3> QED BY <1>1, <1>2, <2>5, <3>1, <3>2 DEF CleanOK, Whole
  <2> QED BY <2>4, <2>5
<1> QED
  BY <1>4, <1>5, <1>6, <1>7 DEF CleanOK
(* What a process writes goes to the file it has in hand, and no file that  *)
(* is under exe, bak or asset, that a copy reads or that another writes.    *)
LEMMA WriteLeaves ==
  ASSUME Base, CleanOK, NEW p \in Proc, NEW c \in Content,
         Copying(p) \/ Fetching(p), data' = [data EXCEPT ![out[p]] = c]
  PROVE  /\ out[p] \in Inode /\ data'[out[p]] = c
         /\ \A n \in {"exe", "bak", "asset"} : file[n] # Nil => data'[file[n]] = data[file[n]]
         /\ \A q \in Proc : Copying(q) => data'[in[q]] = data[in[q]]
         /\ \A q \in Proc \ {p} : out[q] # Nil => data'[out[q]] = data[out[q]]
<1>1. out[p] \in Inode
  BY DEF Base, HandsOK, Hands
<1>2. \A j \in Inode : data'[j] = IF j = out[p] THEN c ELSE data[j]
  BY <1>1 DEF Base, DiskOK
<1>3. "exe" \in Name /\ "bak" \in Name /\ "asset" \in Name
      /\ \A q \in Proc : Fresh(q) \in Name /\ Fresh(q) \in {"bak.new", "exe.new"}
  BY Names DEF Name, Base
<1>4. \A n \in {"exe", "bak", "asset"} : file[n] # Nil => file[n] # out[p] /\ data'[file[n]] = data[file[n]]
  <2> SUFFICES ASSUME NEW n \in {"exe", "bak", "asset"}, file[n] # Nil
               PROVE  file[n] # out[p] /\ data'[file[n]] = data[file[n]]
    OBVIOUS
  <2>1. CASE Copying(p)
    <3>1. file[Fresh(p)] = out[p] /\ Fresh(p) # n
      BY <1>3, <2>1 DEF CleanOK, Own
    <3>2. file[n] # out[p] /\ file[n] \in Inode
      BY <1>3, <3>1 DEF Base, DiskOK, Distinct
    <3> QED BY <1>2, <3>2
  <2>2. CASE Fetching(p)
    BY <1>2, <1>3, <2>2 DEF CleanOK, Own, Base, DiskOK
  <2> QED BY <2>1, <2>2
<1>5. \A q \in Proc : Copying(q) => data'[in[q]] = data[in[q]]
  BY <1>2 DEF CleanOK, Reads, Base, HandsOK, Hands
<1>6. \A q \in Proc \ {p} : out[q] # Nil => data'[out[q]] = data[out[q]]
  BY <1>2 DEF CleanOK, Apart, Base, HandsOK
<1> QED
  BY <1>1, <1>2, <1>4, <1>5, <1>6

(* ... so that writing it keeps CleanOK, ...                                *)
LEMMA WriteKeeps ==
  ASSUME Base, CleanOK, NEW p \in Proc, NEW c \in Content,
         Copying(p) \/ Fetching(p),
         data' = [data EXCEPT ![out[p]] = c],
         file' = file, in' = in, out' = out, phase' = phase,
         \/ /\ pc[p] = "write" /\ pc' = [pc EXCEPT ![p] = "rename"] /\ got' = got
            /\ c = data[in[p]]
         \/ /\ pc' = pc /\ got[p] = "opened" /\ got' = [got EXCEPT ![p] = "written"]
            /\ c = Latest
  PROVE  CleanOK'
<1>1. /\ out[p] \in Inode /\ data'[out[p]] = c
      /\ \A n \in {"exe", "bak", "asset"} : file[n] # Nil => data'[file[n]] = data[file[n]]
      /\ \A q \in Proc : Copying(q) => data'[in[q]] = data[in[q]]
      /\ \A q \in Proc \ {p} : out[q] # Nil => data'[out[q]] = data[out[q]]
  BY WriteLeaves
<1>2. /\ \A q \in Proc : Copying(q)' <=> Copying(q)
      /\ \A q \in Proc : Fetching(q)' <=> Fetching(q)
      /\ \A q \in Proc : AtWork(q)' <=> AtWork(q)
      /\ \A q \in Proc : Fresh(q)' = Fresh(q)
  BY DEF Copying, Fetching, AtWork, Helping, Fresh, Base, PlaceOK, HandsOK
<1>3. Apart' /\ Own' /\ Reads'
  <2>1. Apart'
    BY DEF CleanOK, Apart
  <2>2. Own'
    BY <1>2 DEF CleanOK, Own
  <2>3. Reads'
    BY <1>2 DEF CleanOK, Reads
  <2> QED BY <2>1, <2>2, <2>3
<1>4. Whole'
  <2>1. Sound' <=> Sound
    BY <1>1 DEF Sound
  <2>2. Sound' \/ \A q \in Proc : ~ AtWork(q)'
    BY <1>2, <2>1 DEF CleanOK, Whole
  <2> SUFFICES ASSUME NEW q \in Proc
               PROVE  /\ got'[q] = "written" => data'[out[q]] = Latest
                      /\ Copying(q)' => data'[Held(q)'] \in Version
                      /\ Copying(q)' /\ phase[q] = "replace" => data'[Held(q)'] = Latest
    BY <1>1, <2>2 DEF CleanOK, Whole, Base, Distinct
  <2>3. CASE q = p
    <3>1. CASE pc[p] = "write"
      <4>1. pc'[p] = "rename" /\ got' = got /\ got[p] = "none" /\ c = data[in[p]] /\ Held(p) = in[p]
            /\ Copying(p)
        BY <3>1 DEF Base, PlaceOK, Hands, Held, Copying
      <4>2. Held(p)' = out[p] /\ data'[out[p]] = c
        BY <1>1, <4>1 DEF Held
      <4> QED BY <2>3, <4>1, <4>2 DEF CleanOK, Whole
    <3>2. CASE pc[p] # "write"
      <4>1. pc' = pc /\ got'[p] = "written" /\ c = Latest /\ pc[p] \in {"open", "quit"}
        BY <3>2 DEF Base, HandsOK, Hands
      <4> QED BY <1>1, <2>3, <4>1 DEF Copying
    <3> QED BY <3>1, <3>2
  <2>4. CASE q # p
    <3>1. pc'[q] = pc[q] /\ got'[q] = got[q] /\ Held(q)' = Held(q)
      BY <2>4 DEF Base, PlaceOK, HandsOK, Held
    <3>2. Copying(q) => data'[Held(q)] = data[Held(q)]
      BY <1>1, <2>4 DEF Held, Base, Hands
    <3>3. got[q] = "written" => data'[out[q]] = data[out[q]]
      BY <1>1, <2>4 DEF Fetching, Base, Hands
    <3> QED BY <1>1, <1>2, <3>1, <3>2, <3>3 DEF CleanOK, Whole
  <2> QED BY <2>3, <2>4
<1> QED
  BY <1>3, <1>4 DEF CleanOK

(* ... and so does damage before any helper is past its comparison.         *)
LEMMA DamageKeeps ==
  ASSUME Base, CleanOK, Damage
  PROVE  CleanOK'
<1>1. /\ file["asset"] \in Inode /\ \A p \in Proc : Helping(p) => pc[p] = "wait"
      /\ data' = [data EXCEPT ![file["asset"]] = Damaged]
      /\ file' = file /\ pc' = pc /\ phase' = phase /\ in' = in /\ out' = out /\ got' = got
  BY DEF Damage, local, Base, DiskOK, Name
<1>2. \A j \in Inode : data'[j] = IF j = file["asset"] THEN Damaged ELSE data[j]
  BY <1>1 DEF Base, DiskOK
<1>3. \A p \in Proc : ~ Copying(p) /\ ~ AtWork(p)
  BY <1>1 DEF Copying, AtWork, Helping
<1>4. \A p \in Proc : ~ Copying(p)' /\ ~ AtWork(p)'
  BY <1>1 DEF Copying, AtWork, Helping
<1>5. Apart'
  BY <1>1 DEF CleanOK, Apart
<1>6. Own' /\ Reads'
  BY <1>1, <1>4 DEF CleanOK, Own, Reads, Fetching
<1>7. Whole'
  <2>1. \A n \in {"exe", "bak"} : file[n] # Nil => file[n] \in Inode /\ file[n] # file["asset"]
    BY DEF Base, DiskOK, Distinct, Name
  <2>2. \A q \in Proc : got[q] = "written" => out[q] \in Inode /\ out[q] # file["asset"]
    BY DEF CleanOK, Own, Fetching, Base, HandsOK, Hands, Name
  <2> QED BY <1>1, <1>2, <1>4, <2>1, <2>2 DEF CleanOK, Whole, Base, Distinct
<1> QED
  BY <1>5, <1>6, <1>7 DEF CleanOK

(* The two renames put the file that their process wrote under a name.      *)
LEMMA RenameKeeps ==
  ASSUME Base, Base', CleanOK, NEW p \in Proc, out[p] # Nil,
         NEW m \in {"asset.tmp", "exe.new", "bak.new"}, NEW n \in {"exe", "bak", "asset"},
         file[m] = out[p], Rename(m, n),
         data' = data, out' = [out EXCEPT ![p] = Nil],
         data[out[p]] \in Version, n = "asset" => data[out[p]] = Latest,
         ~ Copying(p)', ~ Fetching(p)', AtWork(p)' => AtWork(p),
         \A q \in Proc \ {p} : pc'[q] = pc[q] /\ in'[q] = in[q] /\ got'[q] = got[q] /\ phase'[q] = phase[q]
  PROVE  CleanOK'
<1>1. /\ m \in Name /\ n \in Name /\ m # n
      /\ "exe" \in Name /\ "bak" \in Name /\ "asset" \in Name
      /\ {"asset.tmp", "exe.new", "bak.new"} \subseteq Name
  BY DEF Name
<1>2. \A k \in Name : file'[k] = IF k = m THEN Nil ELSE IF k = n THEN out[p] ELSE file[k]
  BY <1>1 DEF Rename, Base, DiskOK
<1>3. \A q \in Proc : out'[q] = IF q = p THEN Nil ELSE out[q]
  BY DEF Base, HandsOK
<1>4. \A q \in Proc \ {p} : /\ Copying(q)' <=> Copying(q)
                            /\ Fetching(q)' <=> Fetching(q)
                            /\ AtWork(q)' <=> AtWork(q)
                            /\ Fresh(q)' = Fresh(q)
                            /\ Held(q)' = Held(q)
  BY <1>3 DEF Copying, Fetching, AtWork, Helping, Fresh, Held
<1>5. \A q \in Proc \ {p} : out[q] # out[p]
  BY DEF CleanOK, Apart
<1>6. \A q \in Proc : Fresh(q) \in Name /\ Fresh(q) \notin {"exe", "bak", "asset"}
  BY Names DEF Base
<1>7. Apart'
  BY <1>3 DEF CleanOK, Apart
<1>8. Own'
  <2> SUFFICES ASSUME NEW q \in Proc \ {p}
               PROVE  /\ Copying(q)' => file'[Fresh(q)'] = out'[q]
                      /\ Fetching(q)' => \A k \in Name \ {"asset.tmp"} : file'[k] # out'[q]
    BY DEF Own
  <2>1. Copying(q) => file[Fresh(q)] = out[q] /\ Fresh(q) # m /\ Fresh(q) # n
    BY <1>5, <1>6 DEF CleanOK, Own
  <2>2. Fetching(q) => out[q] # Nil /\ \A k \in Name \ {"asset.tmp"} : file[k] # out[q]
    BY DEF CleanOK, Own, Base, Hands
  <2> QED BY <1>2, <1>3, <1>4, <1>5, <1>6, <2>1, <2>2
<1>9. Reads'
  <2> SUFFICES ASSUME NEW q \in Proc \ {p}, Copying(q)
               PROVE  /\ \A k \in {"asset.tmp", "exe.new", "bak.new"} : file'[k] # in[q]
                      /\ \A r \in Proc : out'[r] # in[q]
                      /\ phase[q] # "replace" => file'["asset"] # in[q]
    BY <1>4 DEF Reads
  <2>1. /\ \A k \in {"asset.tmp", "exe.new", "bak.new"} : file[k] # in[q]
        /\ \A r \in Proc : out[r] # in[q]
        /\ phase[q] # "replace" => file["asset"] # in[q]
        /\ in[q] # Nil
    BY DEF CleanOK, Reads, Base, Hands
  <2> QED BY <1>1, <1>2, <1>3, <2>1
<1>10. Whole'
  <2>1. /\ data'[file'["exe"]] \in Version
        /\ file'["bak"] # Nil => data'[file'["bak"]] \in Version
        /\ file'["asset"] # Nil => data'[file'["asset"]] \in {Latest, Damaged}
    BY <1>1, <1>2 DEF CleanOK, Whole
  <2>2. Sound => Sound'
    BY <1>1, <1>2 DEF Sound
  <2>3. Sound' \/ \A q \in Proc : ~ AtWork(q)'
    BY <1>4, <2>2 DEF CleanOK, Whole
  <2> SUFFICES ASSUME NEW q \in Proc
               PROVE  /\ got'[q] = "written" => data'[out'[q]] = Latest
                      /\ Copying(q)' => data'[Held(q)'] \in Version
                      /\ Copying(q)' /\ phase'[q] = "replace" => data'[Held(q)'] = Latest
    BY <2>1, <2>3 DEF Whole
  <2>4. CASE q = p
    BY <2>4 DEF Fetching
  <2>5. CASE q # p
    BY <1>3, <1>4, <2>5 DEF CleanOK, Whole
  <2> QED BY <2>4, <2>5
<1> QED
  BY <1>7, <1>8, <1>9, <1>10 DEF CleanOK
(* The quiet steps, group by group; and the others.                         *)
LEMMA QuietProcess ==
  ASSUME Base, NEW p \in Proc,
         BootSpawns(p) \/ BootOpens(p) \/ ApplyPendingUpdate(p) \/ CancelPendingUpdate(p)
         \/ Quit(p) \/ Killed(p)
  PROVE  Quiet
<1>1. CASE BootSpawns(p)
  <2>1. /\ pc[p] = "boot" /\ Executable /\ Spawn(p, "off", "wait")
        /\ UNCHANGED <<disk, in, out, got>>
    BY <1>1 DEF BootSpawns
  <2> QED BY <2>1, QuietSpawn
<1>2. CASE BootOpens(p)
  BY <1>2 DEF BootOpens, disk, local, Quiet, Base, PlaceOK, Copying, Fetching, AtWork, Helping
<1>3. CASE ApplyPendingUpdate(p)
  <2>1. /\ pc[p] = "open" /\ Executable /\ Spawn(p, "quit", "wait")
        /\ UNCHANGED <<disk, in, out, got>>
    BY <1>3 DEF ApplyPendingUpdate
  <2> QED BY <2>1, QuietSpawn
<1>4. CASE CancelPendingUpdate(p)
  <2>1. ClearPending /\ UNCHANGED <<data, pc, local, in, out, got, bounds>>
    BY <1>4 DEF CancelPendingUpdate
  <2>2. \A n \in Name : file'[n] \in {file[n], Nil}
                        /\ (n \notin {"asset", "asset.tmp"} => file'[n] = file[n])
    BY <2>1, Cleared
  <2>3. \A q \in Proc : Fresh(q) \in Name /\ Fresh(q) \notin {"asset", "asset.tmp"}
    BY Names DEF Base
  <2>4. file'["exe"] = file["exe"] /\ file'["bak"] = file["bak"]
    BY <2>2 DEF Name
  <2> QED BY <2>1, <2>2, <2>3, <2>4 DEF local, Quiet, Copying, Fetching, AtWork, Helping
<1>5. CASE Quit(p) \/ Killed(p)
  <2>1. Ends(p) /\ data' = data /\ file' = file
    BY <1>5 DEF Quit, Killed, disk
  <2> QED BY <2>1, QuietEnds
<1> QED
  BY <1>1, <1>2, <1>3, <1>4, <1>5

LEMMA QuietDownload ==
  ASSUME Base, NEW p \in Proc,
         \/ DownloadBreaks(p) \/ DownloadUnnamed(p) \/ DownloadAccepted(p)
         \/ DownloadRejected(p) \/ SaveWrites(p)
  PROVE  Quiet
<1> "asset" \in Name /\ "asset.tmp" \in Name
  BY DEF Name
<1>1. CASE DownloadBreaks(p)
  <2>1. /\ GotStep(p, "opened", "none") /\ out' = [out EXCEPT ![p] = Nil] /\ data' = data
        /\ file' = [file EXCEPT !["asset.tmp"] = Nil]
    BY <1>1 DEF DownloadBreaks, Remove
  <2> QED BY <2>1, QuietGot DEF Base, DiskOK, HandsOK
<1>2. CASE DownloadUnnamed(p)
  <2>1. /\ GotStep(p, "written", "none") /\ out' = [out EXCEPT ![p] = Nil] /\ data' = data
        /\ file' = file
    BY <1>2 DEF DownloadUnnamed, disk
  <2> QED BY <2>1, QuietGot DEF Base, DiskOK, HandsOK
<1>3. CASE DownloadAccepted(p)
  <2>1. GotStep(p, "named", "saving") /\ out' = out /\ data' = data /\ file' = file
    BY <1>3 DEF DownloadAccepted
  <2> QED BY <2>1, QuietGot DEF Base, DiskOK, HandsOK
<1>4. CASE DownloadRejected(p)
  <2>1. /\ GotStep(p, "named", "none") /\ out' = out /\ data' = data
        /\ file' = [file EXCEPT !["asset"] = Nil]
    BY <1>4 DEF DownloadRejected, Remove
  <2> QED BY <2>1, QuietGot DEF Base, DiskOK, HandsOK
<1>5. CASE SaveWrites(p)
  <2>1. GotStep(p, "saving", "none") /\ out' = out /\ data' = data /\ file' = file
    BY <1>5 DEF SaveWrites
  <2> QED BY <2>1, QuietGot DEF Base, DiskOK, HandsOK
<1> QED
  BY <1>1, <1>2, <1>3, <1>4, <1>5

LEMMA CleanDownload ==
  ASSUME Base, Base', CleanOK, "shared" \notin spoiled', NEW p \in Proc,
         DownloadUpdate(p) \/ Downloading(p)
  PROVE  CleanOK'
<1> "exe" \in Name /\ "bak" \in Name /\ "asset" \in Name /\ "asset.tmp" \in Name
  BY DEF Name
<1>1. CASE DownloadUpdate(p)
  <2>1. /\ pc[p] = "open" /\ got[p] = "none" /\ OpenTrunc(p, "asset.tmp")
        /\ pc' = pc /\ in' = in /\ phase' = phase /\ got' = [got EXCEPT ![p] = "opened"]
    BY <1>1 DEF DownloadUpdate, GotStep, Windowed, local
  <2>2. ~ Copying(p) /\ ~ Fetching(p) /\ ~ Copying(p)' /\ got'[p] = "opened"
    BY <2>1 DEF Copying, Fetching, Base, HandsOK
  <2>3. \A q \in Proc \ {p} : pc'[q] = pc[q] /\ in'[q] = in[q] /\ got'[q] = got[q]
    BY <2>1 DEF Base, HandsOK
  <2>4. AtWork(p)' => AtWork(p)
    BY <2>1 DEF AtWork, Helping
  <2> QED BY <2>1, <2>2, <2>3, <2>4, OpenKeeps
<1>2. CASE DownloadBody(p)
  <2>1. /\ got[p] = "opened" /\ got' = [got EXCEPT ![p] = "written"]
        /\ file' = file /\ in' = in /\ out' = out /\ phase' = phase /\ pc' = pc
        /\ data' = [data EXCEPT ![out[p]] = Latest] /\ Latest \in Content
    BY <1>2, Values DEF DownloadBody, GotStep, local
  <2> QED BY <2>1, WriteKeeps DEF Fetching
<1>3. CASE DownloadNamed(p)
  <2>1. /\ GotStep(p, "written", "named") /\ out' = [out EXCEPT ![p] = Nil] /\ data' = data
        /\ file["asset.tmp"] # Nil /\ Rename("asset.tmp", "asset")
        /\ file["asset.tmp"] = out[p]
    BY <1>3 DEF DownloadNamed, Spoil
  <2>2. /\ pc' = pc /\ in' = in /\ phase' = phase /\ got[p] = "written"
        /\ got' = [got EXCEPT ![p] = "named"] /\ pc[p] \in {"open", "quit"}
    BY <2>1 DEF GotStep, local, Windowed
  <2>3. data[out[p]] = Latest /\ Latest \in Version
    BY <2>2, Values DEF CleanOK, Whole
  <2>4. ~ Copying(p)' /\ ~ Fetching(p)' /\ (AtWork(p)' => AtWork(p))
    BY <2>2 DEF Copying, Fetching, AtWork, Helping, Base, HandsOK
  <2>5. \A q \in Proc \ {p} : pc'[q] = pc[q] /\ in'[q] = in[q] /\ got'[q] = got[q] /\ phase'[q] = phase[q]
    BY <2>2 DEF Base, HandsOK
  <2> QED BY <2>1, <2>3, <2>4, <2>5, RenameKeeps
<1>4. CASE \/ DownloadBreaks(p) \/ DownloadUnnamed(p) \/ DownloadAccepted(p)
           \/ DownloadRejected(p) \/ SaveWrites(p)
  BY <1>4, QuietDownload, QuietKeeps
<1> QED
  BY <1>1, <1>2, <1>3, <1>4 DEF Downloading

LEMMA QuietFails ==
  ASSUME Base, CleanOK, NEW p \in Proc, CopyFails(p)
  PROVE  Quiet
<1>1. /\ pc[p] \in {"from", "write", "rename"} /\ Continue(p, AfterBad(p))
      /\ file' = file \/ (Remove(Fresh(p)) /\ Copying(p))
  BY DEF CopyFails, Copying
<1>2. PICK at \in {"from", "restart", "off"}, ph \in {"backup", "replace", "rollback"},
           n \in 0 .. Tries : AfterBad(p) = [at |-> at, phase |-> ph, tries |-> n]
  BY After
<1>3. /\ pc' = [pc EXCEPT ![p] = at] /\ phase' = [phase EXCEPT ![p] = ph]
      /\ in' = [in EXCEPT ![p] = Nil] /\ out' = [out EXCEPT ![p] = Nil]
      /\ data' = data /\ got' = got
  BY <1>1, <1>2 DEF Continue, Go
<1>4. got[p] = "none" /\ AtWork(p) /\ ~ Copying(p)'
  BY <1>1, <1>3 DEF Base, PlaceOK, HandsOK, Hands, AtWork, Helping, Copying
<1>5. \A q \in Proc \ {p} :
        /\ pc'[q] = pc[q] /\ phase'[q] = phase[q] /\ in'[q] = in[q] /\ out'[q] = out[q]
        /\ Copying(q)' <=> Copying(q)
        /\ AtWork(q)' <=> AtWork(q)
  BY <1>3 DEF Base, PlaceOK, HandsOK, Copying, AtWork, Helping
<1>6. \A q \in Proc : Fresh(q) \in Name /\ Fresh(q) \in {"bak.new", "exe.new"}
  BY Names DEF Base
<1>7. \A k \in Name : file'[k] = file[k] \/ (k = Fresh(p) /\ Copying(p) /\ file'[k] = Nil)
  BY <1>1, <1>6 DEF Remove, Base, DiskOK
<1>8. file'["exe"] = file["exe"] /\ file'["bak"] = file["bak"]
  BY <1>6, <1>7 DEF Name
<1>9. \A q \in Proc \ {p} : Copying(q) => file'[Fresh(q)] = file[Fresh(q)]
  BY <1>6, <1>7 DEF CleanOK, Own, Apart, Base, Hands
<1> QED
  BY <1>3, <1>4, <1>5, <1>7, <1>8, <1>9 DEF Quiet, Fetching

LEMMA QuietHelper ==
  ASSUME Base, CleanOK, Clean', NEW p \in Proc,
         \/ Check(p) \/ Reject(p) \/ Clear(p) \/ CopyFails(p) \/ Restart(p) \/ RestartFails(p)
  PROVE  Quiet
<1>1. CASE Check(p)
  <2>1. /\ ~ HashDiffers /\ pc' = [pc EXCEPT ![p] = "from"] /\ pc[p] = "wait"
        /\ UNCHANGED <<disk, local, in, out, got>> /\ LoadPending # Nil
    BY <1>1 DEF Check, Go, Spoil, Clean
  <2>2. Sound
    BY <2>1, Values DEF HashDiffers, LoadPending, Contents, Sound
  <2> QED BY <2>1, <2>2 DEF disk, local, Quiet, Base, PlaceOK, Copying, Fetching, AtWork
<1>2. CASE Reject(p) \/ Clear(p)
  <2>1. ClearPending /\ Ends(p) /\ data' = data
    BY <1>2 DEF Reject, Clear
  <2> QED BY <2>1, QuietEnds
<1>3. CASE CopyFails(p)
  BY <1>3, QuietFails
<1>4. CASE Restart(p)
  <2>1. /\ pc[p] = "restart" /\ Executable /\ Spawn(p, "clear", "boot")
        /\ UNCHANGED <<disk, in, out, got>>
    BY <1>4 DEF Restart
  <2> QED BY <2>1, QuietSpawn
<1>5. CASE RestartFails(p)
  <2>1. Ends(p) /\ data' = data /\ file' = file
    BY <1>5 DEF RestartFails, disk
  <2> QED BY <2>1, QuietEnds
<1> QED
  BY <1>1, <1>2, <1>3, <1>4, <1>5

LEMMA CleanHelper ==
  ASSUME Base, Base', CleanOK, Clean', NEW p \in Proc, Helper(p)
  PROVE  CleanOK'
<1> "exe" \in Name /\ "bak" \in Name /\ "asset" \in Name
  BY DEF Name
<1>1. CASE CopyOpens(p)
  <2>1. /\ pc[p] = "from" /\ file[Source(p)] # Nil
        /\ in' = [in EXCEPT ![p] = file[Source(p)]] /\ pc' = [pc EXCEPT ![p] = "write"]
        /\ OpenTrunc(p, Fresh(p)) /\ got' = got /\ phase' = phase
    BY <1>1 DEF CopyOpens, Go, local
  <2>2. /\ ~ Copying(p) /\ ~ Fetching(p) /\ ~ Fetching(p)' /\ AtWork(p)
        /\ pc'[p] = "write" /\ in'[p] = file[Source(p)]
    BY <2>1 DEF Base, PlaceOK, HandsOK, Hands, Copying, Fetching, AtWork, Helping
  <2>3. \A q \in Proc \ {p} : pc'[q] = pc[q] /\ in'[q] = in[q] /\ got'[q] = got[q]
    BY <2>1 DEF Base, PlaceOK, HandsOK
  <2>4. Fresh(p) \in {"asset.tmp", "exe.new", "bak.new"} /\ "shared" \notin spoiled'
    BY Names DEF Base, Clean
  <2> QED BY <2>1, <2>2, <2>3, <2>4, OpenKeeps
<1>2. CASE CopyWrites(p)
  <2>1. /\ pc[p] = "write" /\ pc' = [pc EXCEPT ![p] = "rename"]
        /\ file' = file /\ in' = in /\ out' = out /\ phase' = phase /\ got' = got
        /\ data' = [data EXCEPT ![out[p]] = data[in[p]]]
    BY <1>2 DEF CopyWrites, Go, local
  <2>2. Copying(p) /\ data[in[p]] \in Content
    BY <2>1 DEF Copying, Base, DiskOK, HandsOK, Hands
  <2> QED BY <2>1, <2>2, WriteKeeps
<1>3. CASE CopyRenames(p)
  <2>1. /\ pc[p] = "rename" /\ file[Fresh(p)] # Nil /\ Rename(Fresh(p), Target(p))
        /\ Continue(p, AfterGood(p)) /\ Copying(p)
    BY <1>3 DEF CopyRenames, Copying
  <2>2. PICK at \in {"from", "restart", "off"}, ph \in {"backup", "replace", "rollback"},
             n \in 0 .. Tries : AfterGood(p) = [at |-> at, phase |-> ph, tries |-> n]
    BY After
  <2>3. /\ pc' = [pc EXCEPT ![p] = at] /\ phase' = [phase EXCEPT ![p] = ph]
        /\ in' = [in EXCEPT ![p] = Nil] /\ out' = [out EXCEPT ![p] = Nil]
        /\ data' = data /\ got' = got
    BY <2>1, <2>2 DEF Continue, Go
  <2>4. /\ out[p] # Nil /\ file[Fresh(p)] = out[p] /\ data[out[p]] \in Version
        /\ Fresh(p) \in {"asset.tmp", "exe.new", "bak.new"}
        /\ Target(p) \in {"exe", "bak", "asset"} /\ Target(p) # "asset"
    BY <2>1, Names DEF Base, Hands, CleanOK, Own, Whole, Held
  <2>5. ~ Copying(p)' /\ ~ Fetching(p)' /\ AtWork(p)
    BY <2>1, <2>3 DEF Base, PlaceOK, HandsOK, Hands, Copying, Fetching, AtWork, Helping
  <2>6. \A q \in Proc \ {p} : pc'[q] = pc[q] /\ in'[q] = in[q] /\ got'[q] = got[q] /\ phase'[q] = phase[q]
    BY <2>3 DEF Base, PlaceOK, HandsOK
  <2> QED BY <2>1, <2>3, <2>4, <2>5, <2>6, RenameKeeps
<1>4. CASE \/ Check(p) \/ Reject(p) \/ Clear(p) \/ CopyFails(p) \/ Restart(p) \/ RestartFails(p)
  BY <1>4, QuietHelper, QuietKeeps
<1> QED
  BY <1>1, <1>2, <1>3, <1>4 DEF Helper

(* What has gone wrong stays recorded.                                      *)
LEMMA SpoiledGrows == UpdateNext => spoiled \subseteq spoiled'
<1> SUFFICES ASSUME UpdateNext PROVE spoiled \subseteq spoiled'
  OBVIOUS
<1>1. CASE Start \/ Damage
  BY <1>1 DEF Start, Damage
<1>2. ASSUME NEW p \in Proc,
             BootSpawns(p) \/ BootOpens(p) \/ DownloadUpdate(p) \/ ApplyPendingUpdate(p)
             \/ CancelPendingUpdate(p) \/ Quit(p) \/ Killed(p)
      PROVE  spoiled \subseteq spoiled'
  BY <1>2 DEF BootSpawns, BootOpens, DownloadUpdate, OpenTrunc, ApplyPendingUpdate,
              CancelPendingUpdate, Quit, Killed, Spoil
<1>3. ASSUME NEW p \in Proc, Downloading(p)
      PROVE  spoiled \subseteq spoiled'
  BY <1>3 DEF Downloading, DownloadBody, DownloadBreaks, DownloadNamed, DownloadUnnamed,
              DownloadAccepted, DownloadRejected, SaveWrites, Spoil
<1>4. ASSUME NEW p \in Proc, Helper(p)
      PROVE  spoiled \subseteq spoiled'
  BY <1>4 DEF Helper, Check, Reject, CopyOpens, OpenTrunc, CopyWrites, CopyRenames, CopyFails,
              Continue, Restart, RestartFails, Clear, Spoil
<1> QED
  BY <1>1, <1>2, <1>3, <1>4 DEF UpdateNext

CleanInv == Base /\ (Clean => CleanOK)

(* CleanInv is inductive, ...                                               *)
LEMMA CleanInit == UpdateInit => CleanInv
<1> SUFFICES ASSUME UpdateInit PROVE CleanInv
  OBVIOUS
<1>1. Base
  BY BaseInit
<1>2. \A p \in Proc : out[p] = Nil /\ in[p] = Nil /\ ~ Copying(p) /\ ~ Fetching(p) /\ ~ AtWork(p)
                      /\ got[p] = "none"
  BY DEF UpdateInit, Copying, Fetching, AtWork, Helping
<1>3. PICK old \in {Nil, 2}, new \in {Nil, 3} :
        file = [n \in Name |-> CASE n = "exe" -> 1 [] n = "bak" -> old
                                 [] n = "asset" -> new [] OTHER -> Nil]
  BY DEF UpdateInit
<1>4. data[1] = Installed /\ data[2] = Older /\ data[3] = Latest
  BY Values DEF UpdateInit
<1>5. Whole
  BY <1>2, <1>3, <1>4, Values DEF Whole, Sound, Name, Version
<1> QED
  BY <1>1, <1>2, <1>5 DEF CleanInv, CleanOK, Apart, Own, Reads

LEMMA CleanNext == CleanInv /\ [UpdateNext]_updateVars => CleanInv'
<1> SUFFICES ASSUME CleanInv, [UpdateNext]_updateVars PROVE CleanInv'
  OBVIOUS
<1>1. Base /\ Base'
  BY BaseNext DEF CleanInv
<1>2. CASE UNCHANGED updateVars
  BY <1>1, <1>2 DEF updateVars, CleanInv, Clean, CleanOK, Apart, Own, Reads, Whole, Sound,
                    Copying, Fetching, AtWork, Helping, Held, Fresh
<1>3. CASE UpdateNext
  <2> SUFFICES ASSUME Clean' PROVE CleanOK'
    BY <1>1 DEF CleanInv
  <2>1. CleanOK
    BY <1>3, SpoiledGrows DEF CleanInv, Clean
  <2>2. CASE Start
    <3>1. Executable /\ Spawn(Nil, "off", "boot") /\ UNCHANGED <<disk, in, out, got>>
      BY <2>2 DEF Start
    <3>2. Quiet
      BY <1>1, <3>1, QuietSpawn
    <3> QED BY <1>1, <2>1, <3>2, QuietKeeps
  <2>3. CASE Damage
    BY <1>1, <2>1, <2>3, DamageKeeps
  <2>4. ASSUME NEW p \in Proc,
               BootSpawns(p) \/ BootOpens(p) \/ ApplyPendingUpdate(p) \/ CancelPendingUpdate(p)
               \/ Quit(p) \/ Killed(p)
        PROVE  CleanOK'
    BY <1>1, <2>1, <2>4, QuietProcess, QuietKeeps
  <2>5. ASSUME NEW p \in Proc, DownloadUpdate(p) \/ Downloading(p)
        PROVE  CleanOK'
    BY <1>1, <2>1, <2>5, CleanDownload DEF Clean
  <2>6. ASSUME NEW p \in Proc, Helper(p)
        PROVE  CleanOK'
    BY <1>1, <2>1, <2>6, CleanHelper
  <2> QED BY <1>3, <2>2, <2>3, <2>4, <2>5, <2>6 DEF UpdateNext
<1> QED
  BY <1>2, <1>3

(* ... and so, whatever fails and whoever is killed when, the executable    *)
(* can be started, unless two processes wrote one file or a helper went on  *)
(* without the hash of its file: RunApplyHelper renames a complete file.    *)
THEOREM ExeStaysComplete == UpdateSpec => []ExeIsComplete
<1>1. UpdateSpec => []CleanInv
  <2>1. CleanInv /\ [UpdateNext /\ UNCHANGED windows]_<<updateVars, windows>> => CleanInv'
    BY CleanNext
  <2> QED BY <2>1, CleanInit, PTL DEF UpdateSpec
<1>2. CleanInv => ExeIsComplete
  BY DEF CleanInv, CleanOK, Whole, Clean, ExeIsComplete, Executable, Contents, Base, Distinct
<1> QED
  BY <1>1, <1>2, PTL

(* While no helper meets another there is one at a time; and what a helper  *)
(* has backed up is no newer than what the names exe and bak hold and than  *)
(* what is on its way there; a backup under way is of what exe holds.       *)
Single == \A p, q \in Proc : Helping(p) /\ Helping(q) => p = q
Kept == \A q \in Proc : kept[q] # Nil =>
  /\ kept[q] \in Version /\ file["bak"] # Nil
  /\ data[file["exe"]] >= kept[q] /\ data[file["bak"]] >= kept[q]
  /\ \A p \in Proc : Copying(p) => data[Held(p)] >= kept[q]
Backing == \A p \in Proc : Copying(p) /\ phase[p] = "backup" => data[Held(p)] = data[file["exe"]]
Uncrossed == "crossed" \notin spoiled
KeptInv ==
  /\ CleanInv
  /\ Uncrossed => Single
  /\ Clean /\ Uncrossed => Kept /\ Backing

(* A helper that is started while there is none is the only one.            *)
LEMMA SingleNext ==
  ASSUME Base, UpdateNext, Uncrossed', Single
  PROVE  Single'
<1>1. ASSUME NEW p \in Proc, BootSpawns(p) \/ ApplyPendingUpdate(p)
      PROVE  Single'
  <2>1. PICK next \in {"off", "quit"} : Executable /\ Spawn(p, next, "wait") /\ pc[p] # "off"
    BY <1>1 DEF BootSpawns, ApplyPendingUpdate
  <2>2. \A q \in Proc : ~ Helping(q)
    BY <1>1 DEF BootSpawns, ApplyPendingUpdate, Spoil, Uncrossed
  <2>3. PICK c \in Proc :
          pc' = [q \in Proc |-> IF q = c THEN "wait" ELSE IF q = p THEN next ELSE pc[q]]
    BY <2>1, Spawned DEF Place
  <2>4. \A q \in Proc : Helping(q)' => q = c
    <3> SUFFICES ASSUME NEW q \in Proc, q # c PROVE ~ Helping(q)'
      OBVIOUS
    <3>1. pc'[q] = next \/ pc'[q] = pc[q]
      BY <2>3
    <3> QED BY <2>2, <3>1 DEF Helping
  <2> QED BY <2>4 DEF Single
<1>2. ASSUME \A q \in Proc : Helping(q)' => Helping(q)
      PROVE  Single'
  BY <1>2 DEF Single
<1>3. CASE Start
  <2>1. Executable /\ Spawn(Nil, "off", "boot")
    BY <1>3 DEF Start
  <2>2. PICK c \in Proc :
          pc' = [q \in Proc |-> IF q = c THEN "boot" ELSE IF q = Nil THEN "off" ELSE pc[q]]
    BY <2>1, Spawned DEF Place
  <2> QED BY <1>2, <2>2 DEF Helping
<1>4. ASSUME NEW p \in Proc, Restart(p)
      PROVE  Single'
  <2>1. pc[p] = "restart" /\ Executable /\ Spawn(p, "clear", "boot")
    BY <1>4 DEF Restart
  <2>2. PICK c \in Proc :
          pc' = [q \in Proc |-> IF q = c THEN "boot" ELSE IF q = p THEN "clear" ELSE pc[q]]
    BY <2>1, Spawned DEF Place
  <2> QED BY <1>2, <2>1, <2>2 DEF Helping
<1>5. CASE Damage
  BY <1>2, <1>5 DEF Damage, Helping
<1>6. ASSUME NEW p \in Proc,
             \/ BootOpens(p) \/ CancelPendingUpdate(p) \/ Quit(p) \/ Killed(p)
             \/ Reject(p) \/ Clear(p) \/ RestartFails(p)
      PROVE  Single'
  BY <1>2, <1>6 DEF BootOpens, CancelPendingUpdate, Quit, Killed, Reject, Clear, RestartFails,
                    Ends, Helping, Base, PlaceOK
<1>7. ASSUME NEW p \in Proc, DownloadUpdate(p) \/ Downloading(p)
      PROVE  Single'
  <2>1. pc' = pc
    BY <1>7 DEF DownloadUpdate, Downloading, DownloadBody, DownloadBreaks, DownloadNamed,
                DownloadUnnamed, DownloadAccepted, DownloadRejected, SaveWrites, GotStep
  <2> QED BY <1>2, <2>1 DEF Helping
<1>8. ASSUME NEW p \in Proc, Check(p) \/ CopyOpens(p) \/ CopyWrites(p)
      PROVE  Single'
  BY <1>2, <1>8 DEF Check, CopyOpens, CopyWrites, Go, Helping, Base, PlaceOK
<1>9. ASSUME NEW p \in Proc, CopyRenames(p) \/ CopyFails(p)
      PROVE  Single'
  <2>1. Helping(p) /\ \E a \in {AfterGood(p), AfterBad(p)} : pc' = [pc EXCEPT ![p] = a.at]
    BY <1>9 DEF CopyRenames, CopyFails, Continue, Go, Helping
  <2> QED BY <1>2, <2>1 DEF Helping, Base, PlaceOK
<1> QED
  BY <1>1, <1>3, <1>4, <1>5, <1>6, <1>7, <1>8, <1>9 DEF UpdateNext, Helper

(* Most steps change nothing that these speak of.                           *)
Same ==
  /\ data'[file'["exe"]] = data[file["exe"]]
  /\ file["bak"] # Nil => file'["bak"] # Nil /\ data'[file'["bak"]] = data[file["bak"]]
  /\ \A q \in Proc : Copying(q)' => /\ Copying(q) /\ phase'[q] = phase[q]
                                    /\ data'[Held(q)'] = data[Held(q)]
  /\ \A q \in Proc : kept'[q] \in {kept[q], Nil}

LEMMA SameKeeps ==
  ASSUME Kept, Backing, Same
  PROVE  Kept' /\ Backing'
<1>1. Kept'
  BY DEF Kept, Same
<1>2. Backing'
  BY DEF Backing, Same
<1> QED
  BY <1>1, <1>2

LEMMA QuietSame ==
  ASSUME Quiet, \A q \in Proc : kept'[q] \in {kept[q], Nil}
  PROVE  Same
BY DEF Quiet, Same, Held

(* Only the rename of a backup makes a new one.                             *)
LEMMA KeptBy ==
  ASSUME Base, UpdateNext
  PROVE  \/ \A q \in Proc : kept'[q] \in {kept[q], Nil}
         \/ \E p \in Proc : CopyRenames(p)
<1>1. ASSUME NEW s, NEW next, NEW at, Spawn(s, next, at)
      PROVE  \A q \in Proc : kept'[q] \in {kept[q], Nil}
  BY <1>1 DEF Spawn, Base, PlaceOK
<1>2. ASSUME NEW p \in Proc, Ends(p)
      PROVE  \A q \in Proc : kept'[q] \in {kept[q], Nil}
  BY <1>2 DEF Ends, Base, PlaceOK
<1>3. CASE Start \/ Damage
  BY <1>1, <1>3 DEF Start, Damage, local
<1>4. ASSUME NEW p \in Proc,
             BootSpawns(p) \/ BootOpens(p) \/ ApplyPendingUpdate(p) \/ CancelPendingUpdate(p)
             \/ Quit(p) \/ Killed(p)
      PROVE  \A q \in Proc : kept'[q] \in {kept[q], Nil}
  BY <1>1, <1>2, <1>4 DEF BootSpawns, BootOpens, ApplyPendingUpdate, CancelPendingUpdate, Quit,
                          Killed, local
<1>5. ASSUME NEW p \in Proc, DownloadUpdate(p) \/ Downloading(p)
      PROVE  kept' = kept
  BY <1>5 DEF DownloadUpdate, Downloading, DownloadBody, DownloadBreaks, DownloadNamed,
              DownloadUnnamed, DownloadAccepted, DownloadRejected, SaveWrites, GotStep, local
<1>6. ASSUME NEW p \in Proc, Helper(p), ~ CopyRenames(p)
      PROVE  \A q \in Proc : kept'[q] \in {kept[q], Nil}
  BY <1>1, <1>2, <1>6 DEF Helper, Check, Reject, CopyOpens, CopyWrites, CopyFails, Restart,
                          RestartFails, Clear, local
<1> QED
  BY <1>3, <1>4, <1>5, <1>6 DEF UpdateNext

(* Neither downloads nor damage touch them.                                 *)
LEMMA SameDownload ==
  ASSUME Base, Base', CleanOK, "shared" \notin spoiled', NEW p \in Proc,
         DownloadUpdate(p) \/ Downloading(p)
  PROVE  Same
<1> "exe" \in Name /\ "bak" \in Name /\ "asset" \in Name /\ "asset.tmp" \in Name
  BY DEF Name
<1>1. pc' = pc /\ in' = in /\ phase' = phase /\ kept' = kept
  BY DEF DownloadUpdate, Downloading, DownloadBody, DownloadBreaks, DownloadNamed,
         DownloadUnnamed, DownloadAccepted, DownloadRejected, SaveWrites, GotStep, local
<1>2. CASE DownloadUpdate(p)
  <2>1. OpenTrunc(p, "asset.tmp") /\ pc[p] = "open"
    BY <1>2 DEF DownloadUpdate, Windowed
  <2>2. PICK i \in Inode :
          /\ \A m \in Name : file'[m] = IF m = "asset.tmp" THEN i ELSE file[m]
          /\ \A q \in Proc : out'[q] = IF q = p THEN i ELSE out[q]
          /\ \A q \in Proc : Copying(q) => in[q] # i /\ in[q] # Nil /\ out[q] # Nil
          /\ \A m \in Name \ {"asset.tmp"} : file[m] # Nil => data'[file[m]] = data[file[m]]
          /\ \A q \in Proc : Copying(q) => data'[in[q]] = data[in[q]]
          /\ \A q \in Proc \ {p} : out[q] # Nil => data'[out[q]] = data[out[q]]
    BY <2>1, OpenLeaves
  <2>3. \A q \in Proc : Copying(q)' => Copying(q) /\ data'[Held(q)'] = data[Held(q)]
    BY <1>1, <2>1, <2>2 DEF Copying, Held
  <2> QED BY <1>1, <2>2, <2>3 DEF Same, Base, Distinct
<1>3. CASE DownloadBody(p)
  <2>1. /\ file' = file /\ out' = out /\ Fetching(p) /\ pc[p] \in {"open", "quit"}
        /\ data' = [data EXCEPT ![out[p]] = Latest] /\ Latest \in Content
    BY <1>3, Values DEF DownloadBody, GotStep, Fetching, Windowed
  <2>2. /\ \A n \in {"exe", "bak", "asset"} : file[n] # Nil => data'[file[n]] = data[file[n]]
        /\ \A q \in Proc : Copying(q) => data'[in[q]] = data[in[q]]
        /\ \A q \in Proc \ {p} : out[q] # Nil => data'[out[q]] = data[out[q]]
    BY <2>1, WriteLeaves
  <2>3. \A q \in Proc : Copying(q)' => Copying(q) /\ data'[Held(q)'] = data[Held(q)]
    BY <1>1, <2>1, <2>2 DEF Copying, Held, Base, Hands
  <2> QED BY <1>1, <2>1, <2>2, <2>3 DEF Same, Base, Distinct
<1>4. CASE DownloadNamed(p)
  <2>1. /\ file'["exe"] = file["exe"] /\ file'["bak"] = file["bak"] /\ data' = data
        /\ out' = [out EXCEPT ![p] = Nil] /\ pc[p] \in {"open", "quit"}
    BY <1>4 DEF DownloadNamed, Rename, GotStep, Windowed, Base, DiskOK
  <2>2. \A q \in Proc : Copying(q)' => Copying(q) /\ Held(q)' = Held(q)
    BY <1>1, <2>1 DEF Copying, Held, Base, HandsOK
  <2> QED BY <1>1, <2>1, <2>2 DEF Same
<1>5. CASE \/ DownloadBreaks(p) \/ DownloadUnnamed(p) \/ DownloadAccepted(p)
           \/ DownloadRejected(p) \/ SaveWrites(p)
  BY <1>1, <1>5, QuietDownload, QuietSame
<1> QED
  BY <1>2, <1>3, <1>4, <1>5 DEF Downloading

LEMMA SameDamage ==
  ASSUME Base, Damage
  PROVE  Same
<1>1. /\ file["asset"] \in Inode /\ \A p \in Proc : ~ Copying(p)
      /\ data' = [data EXCEPT ![file["asset"]] = Damaged]
      /\ file' = file /\ pc' = pc /\ kept' = kept
  BY DEF Damage, local, Base, DiskOK, Name, Copying, Helping
<1>2. \A n \in {"exe", "bak"} : file[n] # Nil => file[n] \in Inode /\ file[n] # file["asset"]
  BY DEF Base, DiskOK, Distinct, Name
<1> QED
  BY <1>1, <1>2 DEF Same, Copying, Base, DiskOK, Distinct
(* The three steps of a copy.                                               *)
LEMMA KeptOpens ==
  ASSUME Base, CleanOK, Clean', Kept, Backing, NEW p \in Proc, CopyOpens(p)
  PROVE  Kept' /\ Backing'
<1> "exe" \in Name /\ "bak" \in Name /\ "asset" \in Name
  BY DEF Name
<1>1. /\ pc[p] = "from" /\ file[Source(p)] # Nil
      /\ in' = [in EXCEPT ![p] = file[Source(p)]] /\ pc' = [pc EXCEPT ![p] = "write"]
      /\ OpenTrunc(p, Fresh(p)) /\ phase' = phase /\ kept' = kept
  BY DEF CopyOpens, Go, local
<1>2. /\ Fresh(p) \in {"bak.new", "exe.new"} /\ Fresh(p) \in Name
      /\ Source(p) \in {"exe", "asset", "bak"}
      /\ phase[p] = "backup" => Source(p) = "exe"
      /\ "shared" \notin spoiled' /\ AtWork(p)
  BY <1>1, Names DEF Base, Clean, AtWork, Helping
<1>3. PICK i \in Inode :
        /\ \A m \in Name : file'[m] = IF m = Fresh(p) THEN i ELSE file[m]
        /\ \A q \in Proc : out'[q] = IF q = p THEN i ELSE out[q]
        /\ \A m \in Name \ {Fresh(p)} : file[m] # Nil => data'[file[m]] = data[file[m]]
        /\ \A q \in Proc : Copying(q) => data'[in[q]] = data[in[q]]
        /\ \A q \in Proc \ {p} : out[q] # Nil => data'[out[q]] = data[out[q]]
  BY <1>1, <1>2, OpenLeaves
<1>4. /\ data'[file'["exe"]] = data[file["exe"]] /\ file'["bak"] = file["bak"]
      /\ file["bak"] # Nil => data'[file["bak"]] = data[file["bak"]]
      /\ Copying(p)' /\ data'[Held(p)'] = data[file[Source(p)]]
  BY <1>1, <1>2, <1>3 DEF Base, PlaceOK, HandsOK, Distinct, Copying, Held
<1>5. \A q \in Proc \ {p} : Copying(q)' => Copying(q) /\ data'[Held(q)'] = data[Held(q)]
  <2> SUFFICES ASSUME NEW q \in Proc \ {p}, Copying(q)'
               PROVE  Copying(q) /\ data'[Held(q)'] = data[Held(q)]
    OBVIOUS
  <2>1. pc'[q] = pc[q] /\ in'[q] = in[q] /\ out'[q] = out[q] /\ Copying(q) /\ out[q] # Nil
    BY <1>1, <1>3 DEF Base, PlaceOK, HandsOK, Hands, Copying
  <2> QED BY <1>3, <2>1 DEF Held
<1>6. Source(p) = "asset" => data[file[Source(p)]] = Latest
  BY <1>1, <1>2 DEF CleanOK, Whole, Sound
<1>7. Kept'
  <2> SUFFICES ASSUME NEW q \in Proc, kept[q] # Nil
               PROVE  /\ kept[q] \in Version /\ file'["bak"] # Nil
                      /\ data'[file'["exe"]] >= kept[q] /\ data'[file'["bak"]] >= kept[q]
                      /\ \A r \in Proc : Copying(r)' => data'[Held(r)'] >= kept[q]
    BY <1>1 DEF Kept
  <2>1. /\ kept[q] \in Version /\ file["bak"] # Nil
        /\ data[file["exe"]] >= kept[q] /\ data[file["bak"]] >= kept[q]
        /\ \A r \in Proc : Copying(r) => data[Held(r)] >= kept[q]
    BY DEF Kept
  <2>2. data[file[Source(p)]] >= kept[q]
    BY <1>2, <1>6, <2>1, Values
  <2>3. \A r \in Proc : Copying(r)' => data'[Held(r)'] >= kept[q]
    BY <1>4, <1>5, <2>1, <2>2
  <2> QED BY <1>4, <2>1, <2>3
<1>8. Backing'
  BY <1>1, <1>2, <1>4, <1>5 DEF Backing
<1> QED
  BY <1>7, <1>8

LEMMA KeptWrites ==
  ASSUME Base, CleanOK, Kept, Backing, NEW p \in Proc, CopyWrites(p)
  PROVE  Kept' /\ Backing'
<1>1. /\ pc[p] = "write" /\ Copying(p) /\ pc' = [pc EXCEPT ![p] = "rename"]
      /\ file' = file /\ in' = in /\ out' = out /\ phase' = phase /\ kept' = kept
      /\ data' = [data EXCEPT ![out[p]] = data[in[p]]] /\ data[in[p]] \in Content
  BY DEF CopyWrites, Go, local, Copying, Base, DiskOK, HandsOK, Hands
<1>2. /\ data'[out[p]] = data[in[p]]
      /\ \A n \in {"exe", "bak", "asset"} : file[n] # Nil => data'[file[n]] = data[file[n]]
      /\ \A q \in Proc : Copying(q) => data'[in[q]] = data[in[q]]
      /\ \A q \in Proc \ {p} : out[q] # Nil => data'[out[q]] = data[out[q]]
  BY <1>1, WriteLeaves
<1>3. \A q \in Proc : Copying(q)' => Copying(q) /\ data'[Held(q)'] = data[Held(q)]
  <2> SUFFICES ASSUME NEW q \in Proc, Copying(q)'
               PROVE  Copying(q) /\ data'[Held(q)'] = data[Held(q)]
    OBVIOUS
  <2>1. CASE q = p
    <3>1. pc'[p] = "rename"
      BY <1>1 DEF Base, PlaceOK
    <3> QED BY <1>1, <1>2, <2>1, <3>1 DEF Held
  <2>2. CASE q # p
    <3>1. pc'[q] = pc[q] /\ Copying(q) /\ out[q] # Nil
      BY <1>1, <2>2 DEF Base, PlaceOK, Hands, Copying
    <3> QED BY <1>1, <1>2, <2>2, <3>1 DEF Held
  <2> QED BY <2>1, <2>2
<1>4. Same
  BY <1>1, <1>2, <1>3 DEF Same, Base, Distinct
<1> QED
  BY <1>4, SameKeeps

LEMMA KeptRenames ==
  ASSUME Base, CleanOK, Single, Kept, Backing, NEW p \in Proc, CopyRenames(p)
  PROVE  Kept' /\ Backing'
<1> "exe" \in Name /\ "bak" \in Name
  BY DEF Name
<1>1. /\ pc[p] = "rename" /\ file[Fresh(p)] # Nil /\ Rename(Fresh(p), Target(p))
      /\ kept' = IF phase[p] = "backup" THEN [kept EXCEPT ![p] = Contents(Fresh(p))] ELSE kept
      /\ Continue(p, AfterGood(p)) /\ data' = data
  BY DEF CopyRenames, Continue
<1>2. /\ Copying(p) /\ Helping(p) /\ Held(p) = out[p] /\ file[Fresh(p)] = out[p]
      /\ Contents(Fresh(p)) = data[out[p]] /\ data[out[p]] \in Version /\ out[p] # Nil
  BY <1>1 DEF Copying, Helping, Held, Contents, CleanOK, Own, Whole, Base, Hands
<1>3. \A q \in Proc : ~ Copying(q)'
  <2>1. PICK at \in {"from", "restart", "off"}, ph \in {"backup", "replace", "rollback"},
             n \in 0 .. Tries : AfterGood(p) = [at |-> at, phase |-> ph, tries |-> n]
    BY After
  <2>2. pc' = [pc EXCEPT ![p] = at]
    BY <1>1, <2>1 DEF Continue, Go
  <2> QED BY <1>2, <2>2 DEF Single, Helping, Copying, Base, PlaceOK
<1>4. \A k \in Name : file'[k] = IF k = Fresh(p) THEN Nil ELSE IF k = Target(p) THEN out[p] ELSE file[k]
  BY <1>1, <1>2, Names DEF Rename, Base, DiskOK
<1>5. Fresh(p) \notin {"exe", "bak"} /\ phase[p] \in {"backup", "replace", "rollback"}
  BY Names DEF Base, PlaceOK
<1>6. CASE phase[p] = "backup"
  <2>1. /\ file'["exe"] = file["exe"] /\ file'["bak"] = out[p]
        /\ kept' = [kept EXCEPT ![p] = data[out[p]]]
        /\ data[out[p]] = data[file["exe"]]
    BY <1>1, <1>2, <1>4, <1>5, <1>6, Names DEF Backing, Base
  <2> SUFFICES ASSUME NEW q \in Proc, kept'[q] # Nil
               PROVE  /\ kept'[q] \in Version /\ file'["bak"] # Nil
                      /\ data'[file'["exe"]] >= kept'[q] /\ data'[file'["bak"]] >= kept'[q]
    BY <1>3 DEF Kept, Backing
  <2>2. CASE q = p
    <3>1. kept'[p] = data[out[p]]
      BY <2>1 DEF Base, PlaceOK
    <3>2. \A v \in Version : v >= v
      BY Values
    <3> QED BY <1>1, <1>2, <2>1, <2>2, <3>1, <3>2
  <2>3. CASE q # p
    <3>1. kept'[q] = kept[q]
      BY <2>1, <2>3 DEF Base, PlaceOK
    <3> QED BY <1>1, <1>2, <2>1, <3>1 DEF Kept
  <2> QED BY <2>2, <2>3
<1>7. CASE phase[p] # "backup"
  <2>1. /\ file'["exe"] = out[p] /\ file'["bak"] = file["bak"] /\ kept' = kept
    BY <1>1, <1>4, <1>5, <1>7, Names DEF Base
  <2> QED BY <1>1, <1>2, <1>3, <2>1 DEF Kept, Backing
<1> QED
  BY <1>6, <1>7

(* KeptInv is inductive, ...                                                *)
LEMMA KeptInit == UpdateInit => KeptInv
<1> SUFFICES ASSUME UpdateInit PROVE KeptInv
  OBVIOUS
<1>1. \A p \in Proc : ~ Helping(p) /\ ~ Copying(p) /\ kept[p] = Nil
  BY DEF UpdateInit, Helping, Copying
<1> QED
  BY <1>1, CleanInit DEF KeptInv, Single, Kept, Backing

LEMMA KeptNext == KeptInv /\ [UpdateNext]_updateVars => KeptInv'
<1> SUFFICES ASSUME KeptInv, [UpdateNext]_updateVars PROVE KeptInv'
  OBVIOUS
<1>1. CleanInv' /\ Base /\ Base'
  BY CleanNext, BaseNext DEF KeptInv, CleanInv
<1>2. CASE UNCHANGED updateVars
  BY <1>1, <1>2 DEF updateVars, KeptInv, Clean, Uncrossed, Single, Kept, Backing, Copying,
                    Helping, Held
<1>3. CASE UpdateNext
  <2>1. spoiled \subseteq spoiled'
    BY <1>3, SpoiledGrows
  <2>2. Uncrossed' => Single /\ Single'
    BY <1>1, <1>3, <2>1, SingleNext DEF KeptInv, Uncrossed
  <2> SUFFICES ASSUME Clean', Uncrossed' PROVE Kept' /\ Backing'
    BY <1>1, <2>2 DEF KeptInv
  <2>3. CleanOK /\ Kept /\ Backing /\ "shared" \notin spoiled'
    BY <2>1 DEF KeptInv, CleanInv, Clean, Uncrossed
  <2>4. CASE Same
    BY <2>3, <2>4, SameKeeps
  <2>5. CASE Quiet /\ ~ \E p \in Proc : CopyRenames(p)
    <3>1. Same
      BY <1>1, <1>3, <2>5, KeptBy, QuietSame
    <3> QED BY <2>4, <3>1
  <2>6. ASSUME NEW p \in Proc, CopyRenames(p)
        PROVE  Kept' /\ Backing'
    BY <1>1, <2>2, <2>3, <2>6, KeptRenames
  <2>7. CASE Start
    <3>1. Executable /\ Spawn(Nil, "off", "boot") /\ UNCHANGED <<disk, in, out, got>>
      BY <2>7 DEF Start
    <3>2. Quiet
      BY <1>1, <3>1, QuietSpawn
    <3> QED BY <2>5, <2>6, <3>2
  <2>8. CASE Damage
    BY <1>1, <2>4, <2>8, SameDamage
  <2>9. ASSUME NEW p \in Proc,
               BootSpawns(p) \/ BootOpens(p) \/ ApplyPendingUpdate(p) \/ CancelPendingUpdate(p)
               \/ Quit(p) \/ Killed(p)
        PROVE  Kept' /\ Backing'
    BY <1>1, <2>5, <2>6, <2>9, QuietProcess
  <2>10. ASSUME NEW p \in Proc, DownloadUpdate(p) \/ Downloading(p)
         PROVE  Kept' /\ Backing'
    BY <1>1, <2>3, <2>4, <2>10, SameDownload
  <2>11. ASSUME NEW p \in Proc, CopyOpens(p) \/ CopyWrites(p)
         PROVE  Kept' /\ Backing'
    BY <1>1, <2>3, <2>11, KeptOpens, KeptWrites
  <2>12. ASSUME NEW p \in Proc,
                \/ Check(p) \/ Reject(p) \/ Clear(p) \/ CopyFails(p) \/ Restart(p) \/ RestartFails(p)
         PROVE  Kept' /\ Backing'
    BY <1>1, <2>3, <2>5, <2>6, <2>12, QuietHelper
  <2> QED BY <1>3, <2>6, <2>7, <2>8, <2>9, <2>10, <2>11, <2>12 DEF UpdateNext, Helper
<1> QED
  BY <1>2, <1>3

(* ... and so neither a failed replacement nor the rollback of              *)
(* RunApplyHelper leaves a version older than the one it has backed up,     *)
(* unless helpers met or one of them went on without a hash.                *)
THEOREM BackupIsKept == UpdateSpec => []KeptOrNewer
<1>1. UpdateSpec => []KeptInv
  <2>1. KeptInv /\ [UpdateNext /\ UNCHANGED windows]_<<updateVars, windows>> => KeptInv'
    BY KeptNext
  <2> QED BY <2>1, KeptInit, PTL DEF UpdateSpec
<1>2. KeptInv => KeptOrNewer
  <2> SUFFICES ASSUME KeptInv, Clean, Uncrossed, NEW p \in Proc, kept[p] # Nil
               PROVE  Contents("exe") >= kept[p]
    BY DEF KeptOrNewer, Clean, Uncrossed
  <2> QED BY DEF KeptInv, CleanInv, Base, Distinct, Kept, Contents
<1> QED
  BY <1>1, <1>2, PTL
===============================================================================
