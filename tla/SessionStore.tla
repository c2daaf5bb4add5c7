---------------------------- MODULE SessionStore ----------------------------
(***************************************************************************)
(* The session store (internal/session/session.go): a snapshot file that   *)
(* is replaced by renaming a temporary file over it, and an append-only    *)
(* log of the files found since.  The application's goroutines (persistLoop, *)
(* the file-found emitter, the end of a scan, the user interface) share    *)
(* one Store, whose mutex each operation holds from its first file access  *)
(* to its last; the process may die between any two of them.               *)
(* A record is a model value.  The order of records matters to nobody, so  *)
(* a list of them is a function that counts them; lines of the log that do *)
(* not parse are left out.  `tail' is a last line without its newline: a   *)
(* whole record, or Torn, a part of one.                                   *)
(***************************************************************************)
EXTENDS Integers, FiniteSets

CONSTANTS
  Clients,    \* goroutines that call the store
  Files,      \* records of found files
  Metas,      \* what a metadata snapshot says of drive, mode and progress
  MaxFaults,  \* bound on crashes, and on writes, truncations and removals that fail
  Torn, None

(* Lists of records, as functions that count them. *)
Lists == [Files -> Nat]
Empty == [f \in Files |-> 0]
One(f) == [g \in Files |-> IF g = f THEN 1 ELSE 0]
Plus(a, b) == [f \in Files |-> a[f] + b[f]]
ToSet(a) == {f \in Files : a[f] > 0}

Snapshots == [meta : Metas, files : Lists]

ASSUME DistinctAssumption ==
  Torn # None /\ \A x \in {Torn, None} : x \notin Clients \cup Files \cup Metas \cup Snapshots
ASSUME MaxFaultsAssumption == MaxFaults \in Nat

VARIABLES
  snapshot, tmp, log, tail,  \* the files on disk
  lock, op, buf, todo, batch, \* Store.mu, and the operation each client is in
  (* history: records acknowledged by AppendFiles since the last Clear,      *)
  (* records a Save dropped, records written behind a torn tail, the         *)
  (* metadata last saved, whether a truncation was cut off, torn appends,    *)
  (* and the faults that count against the bound                             *)
  acked, dropped, glued, lastMeta, doubled, tears, faults

fileVars  == <<snapshot, tmp, log, tail>>
localVars == <<lock, op, buf, todo, batch>>
history   == <<acked, dropped, glued, lastMeta, doubled, tears, faults>>
vars == <<fileVars, localVars, history>>

Ops == {"idle", "append", "save", "saveRename", "compact", "compactRename",
        "truncate", "clearLog"}

TypeOK ==
  /\ snapshot \in Snapshots \cup {None}
  /\ tmp \in Snapshots \cup {None, Torn}
  /\ log \in Lists
  /\ tail \in Files \cup {None, Torn}
  /\ lock \in Clients \cup {None}
  /\ op \in [Clients -> Ops]
  /\ buf \in [Clients -> Snapshots \cup {None}]
  /\ todo \in [Clients -> SUBSET Files]
  /\ batch \in [Clients -> SUBSET Files]
  /\ acked \subseteq Files /\ dropped \subseteq Files /\ glued \subseteq Files
  /\ lastMeta \in Metas \cup {None}
  /\ doubled \in BOOLEAN
  /\ tears \in Nat /\ faults \in 0 .. MaxFaults

Init ==
  /\ snapshot = None /\ tmp = None /\ log = Empty /\ tail = None
  /\ lock = None
  /\ op = [c \in Clients |-> "idle"]
  /\ buf = [c \in Clients |-> None]
  /\ todo = [c \in Clients |-> {}]
  /\ batch = [c \in Clients |-> {}]
  /\ acked = {} /\ dropped = {} /\ glued = {}
  /\ lastMeta = None /\ doubled = FALSE /\ tears = 0 /\ faults = 0

-----------------------------------------------------------------------------
(* What a load gives *)

(* replayLogLocked: the scanner takes a last line without its newline like  *)
(* any other.                                                               *)
Replay == Plus(log, One(tail))

SnapshotFiles == IF snapshot = None THEN Empty ELSE snapshot.files

(* Load: the files of the snapshot, then those of the log.  Without a       *)
(* snapshot Load has nothing to show; the log counts here all the same, as  *)
(* the next Save brings it back.                                            *)
Loaded == Plus(SnapshotFiles, Replay)

-----------------------------------------------------------------------------
(* Every operation holds the lock from its first step to its last *)

Acquire(c, o) ==
  /\ lock = None
  /\ lock' = c
  /\ op' = [op EXCEPT ![c] = o]

Goto(c, o) == op' = [op EXCEPT ![c] = o] /\ UNCHANGED lock

Release(c) ==
  /\ op' = [op EXCEPT ![c] = "idle"]
  /\ lock' = IF lock = c THEN None ELSE lock

Fault == faults < MaxFaults /\ faults' = faults + 1

-----------------------------------------------------------------------------
(* AppendFiles *)

(* Mutant: the log is written without taking the lock.                      *)
AppendUnlocked(c, fs) ==
  /\ op[c] = "idle"
  /\ Goto(c, "append")
  /\ todo' = [todo EXCEPT ![c] = fs]
  /\ batch' = [batch EXCEPT ![c] = fs]
  /\ UNCHANGED <<fileVars, buf, history>>

AppendStart(c, fs) ==
  /\ Acquire(c, "append")
  /\ todo' = [todo EXCEPT ![c] = fs]
  /\ batch' = [batch EXCEPT ![c] = fs]
  /\ UNCHANGED <<fileVars, buf, history>>

(* One record and its newline reach the log.  Behind a tail the two make    *)
(* one line, and it does not parse.                                         *)
AppendLine(c, f) ==
  /\ op[c] = "append" /\ f \in todo[c]
  /\ IF tail = None
     THEN log' = Plus(log, One(f)) /\ UNCHANGED glued
     ELSE glued' = glued \cup {f} /\ UNCHANGED log
  /\ tail' = None
  /\ todo' = [todo EXCEPT ![c] = @ \ {f}]
  /\ UNCHANGED <<snapshot, tmp, lock, op, buf, batch, acked, dropped, lastMeta,
                 doubled, tears, faults>>

AppendDone(c) ==
  /\ op[c] = "append" /\ todo[c] = {}
  /\ Release(c)
  /\ acked' = acked \cup batch[c]
  /\ batch' = [batch EXCEPT ![c] = {}]
  /\ UNCHANGED <<fileVars, buf, todo, dropped, glued, lastMeta, doubled, tears, faults>>

(* The end of the log when a write of record f stops short: a part of the   *)
(* record, or all of it but the newline.                                    *)
ShortWrite(f) == IF tail = None THEN {Torn, f} ELSE {Torn}

(* The log cannot be opened or a write fails (the disk is full), between    *)
(* two records or part-way through one: the error reaches the caller, which *)
(* logs it and goes on.                                                     *)
AppendFail(c, f) ==
  /\ op[c] = "append" /\ f \in todo[c]
  /\ Fault
  /\ \/ UNCHANGED <<tail, tears>>
     \/ tail' \in ShortWrite(f) /\ tears' = tears + 1
  /\ Release(c)
  /\ todo' = [todo EXCEPT ![c] = {}]
  /\ batch' = [batch EXCEPT ![c] = {}]
  /\ UNCHANGED <<snapshot, tmp, log, buf, acked, dropped, glued, lastMeta, doubled>>

-----------------------------------------------------------------------------
(* Save and Compact: writeSnapshotLocked creates the temporary file, fills  *)
(* it and renames it over the snapshot *)

CreateTmp(c, snap) ==
  /\ tmp' = Torn
  /\ buf' = [buf EXCEPT ![c] = snap]
  /\ UNCHANGED <<snapshot, log, tail, todo, batch, history>>

(* The callers leave Files empty.                                           *)
SaveStart(c, m) ==
  /\ Acquire(c, "save")
  /\ CreateTmp(c, [meta |-> m, files |-> Empty])

(* Without a snapshot or with an empty log Compact has nothing to do.       *)
CompactStart(c) ==
  /\ snapshot # None /\ Replay # Empty
  /\ Acquire(c, "compact")
  /\ CreateTmp(c, [snapshot EXCEPT !.files = Plus(@, Replay)])

WriteTmp(c) ==
  /\ op[c] \in {"save", "compact"}
  /\ tmp' = buf[c]
  /\ Goto(c, IF op[c] = "save" THEN "saveRename" ELSE "compactRename")
  /\ UNCHANGED <<snapshot, log, tail, buf, todo, batch, history>>

(* Creating, writing or renaming the temporary file fails: it is removed.   *)
WriteFail(c) ==
  /\ op[c] \in {"save", "compact", "saveRename", "compactRename"}
  /\ tmp' = None
  /\ Release(c)
  /\ buf' = [buf EXCEPT ![c] = None]
  /\ UNCHANGED <<snapshot, log, tail, todo, batch, history>>

SaveRename(c) ==
  /\ op[c] = "saveRename"
  /\ snapshot' = tmp /\ tmp' = None
  /\ lastMeta' = buf[c].meta
  /\ dropped' = dropped \cup ToSet(SnapshotFiles)
  /\ Release(c)
  /\ buf' = [buf EXCEPT ![c] = None]
  /\ UNCHANGED <<log, tail, todo, batch, acked, glued, doubled, tears, faults>>

(* Mutant: the log is emptied before the snapshot is in place.              *)
CompactTruncateFirst(c) ==
  /\ op[c] = "compactRename"
  /\ log' = Empty /\ tail' = None
  /\ Goto(c, "truncate")
  /\ UNCHANGED <<snapshot, tmp, buf, todo, batch, history>>

CompactRename(c) ==
  /\ op[c] = "compactRename"
  /\ snapshot' = tmp /\ tmp' = None
  /\ Goto(c, "truncate")
  /\ UNCHANGED <<log, tail, buf, todo, batch, history>>

(* Mutant: the log keeps what the snapshot has taken over.                  *)
TruncateNothing(c) ==
  /\ op[c] = "truncate"
  /\ Release(c)
  /\ buf' = [buf EXCEPT ![c] = None]
  /\ UNCHANGED <<fileVars, todo, batch, history>>

Truncate(c) ==
  /\ op[c] = "truncate"
  /\ log' = Empty /\ tail' = None
  /\ Release(c)
  /\ buf' = [buf EXCEPT ![c] = None]
  /\ UNCHANGED <<snapshot, tmp, todo, batch, history>>

TruncateFail(c) ==
  /\ op[c] = "truncate"
  /\ Fault
  /\ doubled' = TRUE
  /\ Release(c)
  /\ buf' = [buf EXCEPT ![c] = None]
  /\ UNCHANGED <<fileVars, todo, batch, acked, dropped, glued, lastMeta, tears>>

-----------------------------------------------------------------------------
(* Clear removes the snapshot, then the log; an error on one file does not  *)
(* keep it from the other. *)

ClearSnapshot(c) ==
  /\ Acquire(c, "clearLog")
  /\ acked' = {}
  /\ \/ snapshot' = None /\ lastMeta' = None /\ UNCHANGED faults
     \/ Fault /\ UNCHANGED <<snapshot, lastMeta>>
  /\ UNCHANGED <<tmp, log, tail, buf, todo, batch, dropped, glued, doubled, tears>>

ClearLog(c) ==
  /\ op[c] = "clearLog"
  /\ \/ log' = Empty /\ tail' = None /\ UNCHANGED faults
     \/ Fault /\ UNCHANGED <<log, tail>>
  /\ Release(c)
  /\ UNCHANGED <<snapshot, tmp, buf, todo, batch, acked, dropped, glued, lastMeta,
                 doubled, tears>>

-----------------------------------------------------------------------------
(* The process dies; the next one finds the files as they are.  The lock    *)
(* and the operations were in memory.                                       *)
Crash ==
  /\ Fault
  /\ lock' = None
  /\ op' = [c \in Clients |-> "idle"]
  /\ buf' = [c \in Clients |-> None]
  /\ todo' = [c \in Clients |-> {}]
  /\ batch' = [c \in Clients |-> {}]
  /\ doubled' = (doubled \/ \E c \in Clients : op[c] = "truncate")
  /\ \/ UNCHANGED <<tail, tears>>
     \/ \E c \in Clients : \E f \in todo[c] :
          /\ op[c] = "append"
          /\ tail' \in ShortWrite(f)
          /\ tears' = tears + 1
  /\ UNCHANGED <<snapshot, tmp, log, acked, dropped, glued, lastMeta>>

(* Of the records on their way or on disk none is handed to the store again. *)
Used == acked \cup dropped \cup glued \cup ToSet(Loaded) \cup UNION {batch[c] : c \in Clients}

StoreStep(c) ==
  \/ \E fs \in SUBSET (Files \ Used) \ {{}} : AppendStart(c, fs)
  \/ \E f \in Files : AppendLine(c, f) \/ AppendFail(c, f)
  \/ AppendDone(c)
  \/ \E m \in Metas : SaveStart(c, m)
  \/ CompactStart(c) \/ WriteTmp(c) \/ WriteFail(c)
  \/ SaveRename(c) \/ CompactRename(c) \/ Truncate(c) \/ TruncateFail(c)
  \/ ClearSnapshot(c) \/ ClearLog(c)

Next == Crash \/ \E c \in Clients : StoreStep(c)

Spec == Init /\ [][Next]_vars

-----------------------------------------------------------------------------
(* The inductive invariant behind the safety properties below. *)

(* An operation is under way only for the client that holds the lock.       *)
LockInv == \A c \in Clients : op[c] # "idle" => lock = c

(* What an operation half-way through may rely on.                          *)
OpInv ==
  \A c \in Clients :
    /\ op[c] # "append" => todo[c] = {} /\ batch[c] = {}
    /\ op[c] = "append" => tail \notin batch[c]
    /\ \A f \in batch[c] \ todo[c] : Loaded[f] > 0 \/ f \in glued
    /\ op[c] \in {"save", "saveRename", "compact", "compactRename"} => buf[c] # None
    /\ op[c] \in {"save", "saveRename"} => buf[c].files = Empty
    /\ op[c] \in {"saveRename", "compactRename"} => tmp = buf[c]
    /\ op[c] \in {"compact", "compactRename"} =>
         /\ snapshot # None /\ buf[c].meta = snapshot.meta
         /\ buf[c].files = Loaded
    /\ op[c] = "truncate" =>
         snapshot # None /\ \A f \in Files : Replay[f] > 0 => snapshot.files[f] > 0
    /\ op[c] = "clearLog" => acked = {}

(* Where the acknowledged records are, and the bound on the lost ones: the  *)
(* tail of a torn append has yet to cost its record.                        *)
AckedInv ==
  /\ \A f \in acked : Loaded[f] > 0 \/ f \in dropped \/ f \in glued
  /\ tail \notin acked
  /\ \A c \in Clients : todo[c] \cap acked = {}
  /\ IsFiniteSet(glued)
  /\ Cardinality(glued) + (IF tail = None THEN 0 ELSE 1) <= tears

(* Records are on disk once, and those still to be written are not yet.     *)
OnceInv ==
  doubled \/
    /\ \A c \in Clients, f \in Files : f \in todo[c] => Loaded[f] = 0
    /\ \A f \in Files : SnapshotFiles[f] <= 1
    /\ (\E c \in Clients : op[c] = "truncate") \/ \A f \in Files : Loaded[f] <= 1

-----------------------------------------------------------------------------
(* Correctness *)

(* An acknowledged record can be lost in two ways only: a later metadata    *)
(* Save replaced the snapshot Compact had moved it to, or it was written    *)
(* behind a tail a torn append had left, and each torn append costs one     *)
(* record at the most.  No crash, no failed operation and no interleaving   *)
(* of appends with a Compact loses another one.                             *)
AckedLostOnlyKnown ==
  /\ acked \subseteq ToSet(Loaded) \cup dropped \cup glued
  /\ Cardinality(glued) <= tears

(* No operation but Save and Clear makes a load return less than before,    *)
(* not even when it fails or dies half-way; an append may hide one record   *)
(* only, a last line that had never been acknowledged.                      *)
OnlySaveAndClearForget ==
  [][ToSet(Loaded) \subseteq ToSet(Loaded') \cup dropped' \cup ({tail} \ acked)
       \/ \E c \in Clients : op[c] = "clearLog" \/ op'[c] = "clearLog"]_vars

(* The metadata on disk is the metadata last saved: Compact, which writes   *)
(* back what it read, never undoes a Save, and the snapshot is never torn.  *)
MetadataIsLastSaved ==
  IF snapshot = None THEN lastMeta = None
  ELSE snapshot # Torn /\ snapshot.meta = lastMeta

(* A load returns no record twice, unless a Compact was cut off between the *)
(* new snapshot and the truncation of the log.                              *)
NoRecordTwice ==
  doubled \/ (\E c \in Clients : op[c] = "truncate") \/ (\A f \in Files : Loaded[f] <= 1)

(* What the comments on Save say: leaving Files empty loses nothing because *)
(* the records are in the log.                                              *)
NoAckedFileLost == acked \subseteq ToSet(Loaded)
=============================================================================
