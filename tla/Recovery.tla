------------------------------ MODULE Recovery ------------------------------
(***************************************************************************)
(* The recovery of chosen files (internal/recovery: engine.go's            *)
(* RecoverWithOptions, StopRecovery and FailedRecoveryFileIDs, writer.go,  *)
(* and the recover<FS>File functions that pick a writer for a source).     *)
(*                                                                         *)
(* One goroutine takes the drive of the last scan, reopens it, selects the *)
(* requested files and copies them one at a time.  Meanwhile the user may  *)
(* stop it, the scan that found the files may end - its reader is closed   *)
(* then - and another scan may replace the engine's reader, results and    *)
(* sources.  A file is Size units long; unit p of file f of drive d is     *)
(* [label |-> Content[d][f], at |-> p].                                    *)
(***************************************************************************)
EXTENDS Integers, Sequences, SequencesExt, FiniteSets

CONSTANTS
  Drive, FileID,
  Kind,            \* FileID -> the source that found the file
  Dir, Name,       \* FileID -> the wanted path: directory, [base, tmps]
  Content,         \* Drive -> FileID -> label of the file's content
  Fragmented,      \* files whose clusters are not contiguous
  NoExtension,     \* files whose name has no extension
  InMemory,        \* ntfs files put together in memory: resident, compressed
  Doubtful,        \* files the scan's validation gave a low confidence
  Batches,         \* the sets of files a stage of the scan finds together
  Requests,        \* the sets of files a user asks for
  Size, Chunk,     \* units of a file, units of one read (a cluster)
  NoDrive,
  MaxScans, MaxRecoveries, MaxFaults

ASSUME SizeAssumption == Size \in Nat \ {0} /\ Chunk \in Nat \ {0}

Kinds == {"carver", "ntfs", "fat", "exfat", "ext", "btrfs", "apfs", "hfsplus"}
ASSUME KindAssumption == Kind \in [FileID -> Kinds]

\* A scan finds finitely many files, and a user is offered those alone.
ASSUME FilesAssumption ==
  /\ IsFiniteSet(FileID) /\ Batches \cup Requests \subseteq SUBSET FileID
  /\ \A f \in FileID : Name[f].tmps \in Nat
ASSUME MemoryAssumption == InMemory \subseteq FileID /\ \A f \in InMemory : Kind[f] = "ntfs"
ASSUME BoundsAssumption == {MaxScans, MaxRecoveries, MaxFaults} \subseteq Nat

\* The loops that go on at the next unread unit, and those that go on at the
\* next cluster whatever the last read returned.
ByOffset  == {"carver", "ntfs", "apfs", "hfsplus"}
ByCluster == Kinds \ ByOffset
\* Copied from e.reader, the scan's reader, straight into the output file.
InPlace == {"apfs", "hfsplus"}

VARIABLES
  scan,        \* [drive, open]: e.reader and whether its base is still open
  found,       \* files of e.results, and of the source tables
  recovering, canceller,  \* e.recovering, e.recoverCancel # nil
  cancelled,   \* the recovery's context
  pc, device,  \* the goroutine, and the drive of its own reader
  ids, todo,   \* the requested ids, and the selected files still to do
  job,         \* the file being written
  records, seen,          \* its per-file records and seenHashes
  last,        \* e.lastRecovery
  fs, dirs,    \* the output directory
  kept,        \* history: every file reported as recovered, and every "left" one
  stopAt,      \* history: files recorded when the stop took effect, or -1
  scans, recoveries, faults

vars == <<scan, found, recovering, canceller, cancelled, pc, device, ids, todo,
          job, records, seen, last, fs, dirs, kept, stopAt, scans, recoveries, faults>>
engine == <<scan, found, scans>>
caller == <<recovering, canceller, cancelled, device, ids, last, recoveries, stopAt>>

States == {"success", "partial", "failed", "skipped"}
Zero == [label |-> "zero", at |-> 0]
Junk == [label |-> "junk", at |-> 0]
Repaired == <<[label |-> "repaired", at |-> 0]>>
NoJob == [file |-> NoDrive]
NoPath == [base |-> NoDrive]

----------------------------------------------------------------------------
\* What the files hold and where they go.

Unit(d, f, p) == IF p <= Size THEN [label |-> Content[d][f], at |-> p] ELSE Junk
Whole(d, f) == [p \in 1..Size |-> Unit(d, f, p)]

\* resolveConflict: the first free of name, name_1, name_2, ...
Resolve(base) ==
  LET free == {n \in 0..Cardinality(DOMAIN fs) : [base EXCEPT !.num = n] \notin DOMAIN fs}
  IN [base EXCEPT !.num = CHOOSE n \in free : \A m \in free : n <= m]

\* GenerateOutputPath: ntfs keeps its tree, all others go below carver/, the
\* doubtful ones below carver/_low_confidence.
OutputPath(f, low) ==
  Resolve([dir |-> IF Kind[f] = "ntfs" THEN "ntfs" ELSE IF low THEN "low" ELSE "carver",
           sub |-> Dir[f], base |-> Name[f].base, num |-> 0, tmps |-> Name[f].tmps])
Tmp(path) == [path EXCEPT !.tmps = @ + 1]
DirOf(path) == <<path.dir, path.sub>>

\* The directory without the paths gone, and with data at path.
Placed(path, data, gone) ==
  [q \in (DOMAIN fs \ gone) \cup {path} |-> IF q = path THEN data ELSE fs[q]]
Put(path, data) == fs' = Placed(path, data, {})
Without(paths) == [q \in DOMAIN fs \ paths |-> fs[q]]
Drop(path) == fs' = Without({path})

\* FileClusterList through e.reader.  When the scan has ended the resilient
\* reader answers zeros: a FAT chain ends at once and is filled up with
\* contiguous clusters, an exFAT chain is left with its first cluster.
Clusters == (Size + Chunk - 1) \div Chunk
ListLength(f) ==
  IF Kind[f] = "exfat" /\ f \in Fragmented /\ ~scan.open THEN 1 ELSE Clusters
Guessed(f) == Kind[f] = "fat" /\ f \in Fragmented /\ ~scan.open

----------------------------------------------------------------------------
Init ==
  /\ scan = [drive |-> NoDrive, open |-> FALSE] /\ found = {} /\ scans = 0
  /\ recovering = FALSE /\ canceller = FALSE /\ cancelled = FALSE
  /\ pc = "idle" /\ device = NoDrive /\ ids = {} /\ todo = <<>> /\ job = NoJob
  /\ records = <<>> /\ seen = {} /\ last = <<>>
  /\ fs = <<>> /\ dirs = {} /\ kept = {} /\ stopAt = -1
  /\ recoveries = 0 /\ faults = 0

\* ScanWithReaderOptions registers: new reader, no results, no sources.
ScanStarts(d) ==
  /\ ~scan.open /\ scans < MaxScans
  /\ scan' = [drive |-> d, open |-> TRUE] /\ found' = {} /\ scans' = scans + 1
  /\ UNCHANGED <<caller, pc, todo, job, records, seen, fs, dirs, kept, faults>>

\* A stage of the scan hands over the files it found.
ScanFinds(batch) ==
  /\ scan.open /\ ~(batch \subseteq found)
  /\ found' = found \union batch
  /\ UNCHANGED <<scan, scans, caller, pc, todo, job, records, seen, fs, dirs, kept, faults>>

\* Scan returns and its deferred Close closes the base of e.reader, which stays.
ScanEnds ==
  /\ scan.open
  /\ scan' = [scan EXCEPT !.open = FALSE]
  /\ UNCHANGED <<found, scans, caller, pc, todo, job, records, seen, fs, dirs, kept, faults>>

\* RecoverWithOptions, first section; a second call is refused.
Begin(wanted) ==
  /\ ~recovering /\ scan.drive # NoDrive /\ recoveries < MaxRecoveries /\ wanted # {}
  /\ recovering' = TRUE /\ recoveries' = recoveries + 1
  /\ device' = scan.drive /\ ids' = wanted
  /\ pc' = "open"
  /\ UNCHANGED <<engine, canceller, cancelled, todo, job, records, seen, last, fs, dirs, kept,
                 stopAt, faults>>

StartRecovery == \E wanted \in Requests : Begin(wanted)

\* FailedRecoveryFileIDs: everything not a success, skipped duplicates too.
RetryIDs == {r.file : r \in {last[i] : i \in {j \in DOMAIN last : last[j].state # "success"}}}
RetryFailed == Begin(RetryIDs)

\* StopRecovery calls the cancel function if one is stored: before Publish
\* there is none, and the stop does nothing.
StopRecovery ==
  /\ canceller /\ ~cancelled
  /\ cancelled' = TRUE /\ stopAt' = Len(records)
  /\ UNCHANGED <<engine, recovering, canceller, pc, device, ids, todo, job, records, seen,
                 last, fs, dirs, kept, recoveries, faults>>

Return ==
  /\ recovering' = FALSE /\ canceller' = FALSE /\ pc' = "idle"
  /\ device' = NoDrive /\ ids' = {} /\ todo' = <<>> /\ job' = NoJob
  /\ records' = <<>> /\ seen' = {} /\ cancelled' = FALSE /\ stopAt' = -1

\* A new reader of the source drive; it may fail to open (bounded by MaxFaults).
Open ==
  /\ pc = "open"
  /\ pc' = "publish"
  /\ UNCHANGED <<engine, caller, todo, job, records, seen, fs, dirs, kept, faults>>
OpenFails ==
  /\ pc = "open" /\ faults < MaxFaults
  /\ Return /\ faults' = faults + 1
  /\ UNCHANGED <<engine, last, recoveries, fs, dirs, kept>>

Publish ==
  /\ pc = "publish"
  /\ canceller' = TRUE /\ pc' = "select"
  /\ UNCHANGED <<engine, recovering, cancelled, device, ids, last, recoveries, stopAt, todo,
                 job, records, seen, fs, dirs, kept, faults>>

\* The requested ids among the results of now, the ntfs ones first.
Chosen == ids \intersect found
NtfsFirst(s) ==
  \A i, j \in DOMAIN s : Kind[s[i]] # "ntfs" /\ Kind[s[j]] = "ntfs" => j < i
(* Mutant: the results' own order. *)
OrderFound(S) == SetToSeqs(S)
Order(S) == {s \in SetToSeqs(S) : NtfsFirst(s)}
Select ==
  /\ pc = "select" /\ Chosen # {}
  /\ \E s \in Order(Chosen) :
       todo' = [i \in DOMAIN s |-> [file |-> s[i], drive |-> scan.drive]]
  /\ pc' = "next"
  /\ UNCHANGED <<engine, caller, job, records, seen, fs, dirs, kept, faults>>
(* Mutant: an early return that leaves recovering set. *)
SelectNothingHeld ==
  /\ pc = "select" /\ Chosen = {}
  /\ pc' = "idle"
  /\ UNCHANGED <<engine, caller, todo, job, records, seen, fs, dirs, kept, faults>>
SelectNothing ==
  /\ pc = "select" /\ Chosen = {}
  /\ Return
  /\ UNCHANGED <<engine, last, recoveries, fs, dirs, kept, faults>>

----------------------------------------------------------------------------
\* One file.

Now == Head(todo).file

Record(state, path, of) ==
  /\ records' = Append(records, [file |-> Now, state |-> state, path |-> path, of |-> of])
  /\ todo' = Tail(todo) /\ pc' = "next" /\ job' = NoJob

Keep(state, path, steady, marred) ==
  kept' = kept \union {[file |-> Now, state |-> state, path |-> path,
                        drive |-> Head(todo).drive, steady |-> steady, marred |-> marred]}

Fault == faults < MaxFaults /\ faults' = faults + 1

\* The file fails.  What it had written is gone, or stays at one of the places.
Fails(gone, data, places) ==
  /\ Fault
  /\ Record("failed", NoPath, NoPath)
  /\ \E q \in places :
       IF q = NoPath THEN fs' = Without(gone) /\ UNCHANGED kept
       ELSE fs' = Placed(q, data, gone) /\ Keep("left", q, FALSE, {})
  /\ UNCHANGED seen

\* A file that was renamed to its place is removed again; when os.Remove fails
\* that is only logged.
Removed(path, data) ==
  \/ fs' = Without({Tmp(path), path}) /\ UNCHANGED <<kept, faults>>
  \/ Fault /\ fs' = Placed(path, data, {Tmp(path)}) /\ Keep("left", path, FALSE, {})

\* A file stands under its name and its hash is known: it is dropped again when
\* its content has been written before.
Deliver(path, data, steady, marred) ==
  IF \E s \in seen : s.hash = data
  THEN /\ Removed(path, data)
       /\ Record("skipped", NoPath, (CHOOSE s \in seen : s.hash = data).path)
       /\ UNCHANGED seen
  ELSE /\ fs' = Placed(path, data, {Tmp(path)})
       /\ seen' = seen \union {[hash |-> data, path |-> path]}
       /\ Keep("success", path, steady, marred)
       /\ Record("success", path, NoPath)
       /\ UNCHANGED faults

\* ValidateDeep, and RepairJPEGFromOffset when it says no; only for carved files.
Verdicts(f) ==
  IF Kind[f] = "carver" THEN {"valid", "low", "repaired", "invalid"}
  ELSE IF f \in Doubtful THEN {"low"} ELSE {"valid"}

Refused(f, verdict) == verdict = "invalid" \/ (Kind[f] # "ntfs" /\ f \in NoExtension)

\* The source tables hold what the last scan found.
SourceLost(f) == Kind[f] # "carver" /\ f \notin found
Layout(f) == IF Kind[f] = "carver" THEN Head(todo).drive ELSE scan.drive

SkipFile(verdict) ==
  /\ Refused(Now, verdict)
  /\ Record("skipped", NoPath, NoPath)
  /\ UNCHANGED <<engine, caller, seen, fs, dirs, kept, faults>>

\* The repaired bytes go straight to the output path; nobody makes its directory,
\* and nobody removes it when os.WriteFile fails half-way.
\* A repaired file has a confidence of at most one half.
WriteRepaired ==
  LET path == OutputPath(Now, TRUE) IN
  /\ \/ /\ DirOf(path) \in dirs
        /\ Put(path, Repaired)
        /\ Keep("partial", path, TRUE, {})
        /\ Record("partial", path, NoPath)
        /\ UNCHANGED <<seen, faults>>
     \/ /\ DirOf(path) \notin dirs
        /\ Record("failed", NoPath, NoPath)
        /\ UNCHANGED <<fs, kept, seen, faults>>
     \/ DirOf(path) \in dirs /\ Fails({}, <<>>, {NoPath, path})
  /\ UNCHANGED <<engine, caller, dirs>>

LoseSource ==
  /\ SourceLost(Now)
  /\ Record("failed", NoPath, NoPath)
  /\ UNCHANGED <<engine, caller, seen, fs, dirs, kept, faults>>

\* What resident data or decompressed runs come to: the file's data; zeros for a
\* unit that cannot be decompressed; less when a run is read short; other bytes
\* when the runs are another drive's.
Assembled ==
  LET whole == Whole(scan.drive, Now) IN
  {whole, [whole EXCEPT ![1] = Zero], SubSeq(whole, 1, Size - 1)}
    \union IF device # scan.drive THEN {[p \in 1..Size |-> Junk]} ELSE {}

\* writeResidentFile, writeCompressedNTFSFile: one os.WriteFile of the temporary
\* file, which a failure leaves there, and a rename.  No size is compared.
WriteInMemory ==
  LET path == OutputPath(Now, FALSE)
      steady == device = Head(todo).drive /\ scan.drive = device IN
  /\ Now \in InMemory /\ ~SourceLost(Now)
  /\ dirs' = dirs \union {DirOf(path)}
  /\ \/ \E data \in Assembled :
          Deliver(path, data, steady,
                  IF data = Whole(scan.drive, Now) THEN {} ELSE {"unit"})
     \/ \E gone \in SUBSET {Tmp(path)} : Fails(gone, <<>>, {NoPath, Tmp(path), path})
  /\ UNCHANGED <<engine, caller>>

\* MkdirAll and Create: of the temporary file, or of the output file itself.
CannotStart(verdict) ==
  /\ ~SourceLost(Now) /\ Now \notin InMemory
  /\ Fails({}, <<>>, {NoPath})
  /\ dirs' \in {dirs, dirs \union {DirOf(OutputPath(Now, verdict = "low"))}}
  /\ UNCHANGED <<engine, caller>>
StartCopy(verdict) ==
  LET path == OutputPath(Now, verdict = "low") IN
  /\ ~SourceLost(Now) /\ Now \notin InMemory
  /\ dirs' = dirs \union {DirOf(path)}
  /\ Put(IF Kind[Now] \in InPlace THEN path ELSE Tmp(path), <<>>)
  /\ job' = [file |-> Now, path |-> path, at |-> 0, out |-> <<>>, layout |-> Layout(Now),
             gen |-> scans, list |-> ListLength(Now) * Chunk,
             marred |-> IF Guessed(Now) THEN {"guessed"} ELSE {}]
  /\ pc' = "copy"
  /\ UNCHANGED <<engine, caller, todo, records, seen, kept, faults>>

NextFile ==
  /\ pc = "next" /\ todo # <<>> /\ ~cancelled
  /\ \E verdict \in Verdicts(Now) :
       \/ SkipFile(verdict)
       \/ ~Refused(Now, verdict) /\ verdict = "repaired" /\ WriteRepaired
       \/ /\ ~Refused(Now, verdict) /\ verdict # "repaired"
          /\ \/ LoseSource \/ WriteInMemory
             \/ CannotStart(verdict) \/ StartCopy(verdict)

\* What position p of the file reads as.  An in-place copy asks the reader the
\* engine had when the file was begun, the others ask the recovery's own.
ReaderOpen == scan.open /\ scans = job.gen
Sees(p) ==
  IF Kind[job.file] \in InPlace THEN IF ReaderOpen THEN Unit(job.layout, job.file, p) ELSE Zero
  ELSE IF device # job.layout \/ ("guessed" \in job.marred /\ p > Chunk) THEN Junk
  ELSE Unit(device, job.file, p)

\* The drive read, the drive of the selected file and the drive of its layout
\* are one: no scan came between the sections of the recovery.
Steady == device = Head(todo).drive /\ job.layout = device

Remaining == Size - Len(job.out)
Copying == pc = "copy" /\ Remaining > 0 /\ job.at < job.list

(* Mutant: every loop goes on behind what it asked for. *)
TakeAsked(n, units) ==
  job' = [job EXCEPT !.out = @ \o units, !.at = @ + Chunk,
                     !.marred = @ \union IF n < Chunk /\ n < Remaining THEN {"short"} ELSE {}]

\* One ReadAt and the write of the n units it returned.
Take(n, units) ==
  job' = [job EXCEPT !.out = @ \o units,
                     !.at = @ + (IF Kind[job.file] \in ByCluster THEN Chunk ELSE n),
                     !.marred = @ \union IF n < Chunk /\ n < Remaining THEN {"short"} ELSE {}]

Copy ==
  /\ Copying
  /\ LET want == IF Chunk < Remaining THEN Chunk ELSE Remaining
         data(n) == [k \in 1..n |-> Sees(job.at + k)] IN
     \/ Take(want, data(want)) /\ UNCHANGED faults
     \/ /\ faults < MaxFaults /\ faults' = faults + 1
        /\ IF Kind[job.file] \in InPlace
           THEN Take(want, [k \in 1..want |-> Zero])   \* the resilient reader hides it
           ELSE \E n \in 1..(want - 1) : Take(n, data(n))
  /\ UNCHANGED <<engine, caller, pc, todo, records, seen, fs, dirs, kept>>

\* A read returns nothing, or a write, the rename or the verification fails.  The
\* temporary file is removed, or the renamed one: os.Remove may fail as well.  An
\* in-place output stays as it is.
CopyFails ==
  /\ pc = "copy"
  /\ IF Kind[job.file] \in InPlace
     THEN Copying /\ Fails({}, job.out, {job.path})
     ELSE Fails({Tmp(job.path), job.path}, job.out,
                {NoPath, Tmp(job.path)} \union IF Copying THEN {} ELSE {job.path})
  /\ UNCHANGED <<engine, caller, dirs>>

\* An in-place copy is done when it is copied: no check of its size, no hash.
CommitInPlace ==
  /\ Put(job.path, job.out)
  /\ Keep("success", job.path, Steady, job.marred)
  /\ Record("success", job.path, NoPath)
  /\ UNCHANGED <<seen, faults>>

(* Mutant: the size is not compared. *)
CommitShortUnseen ==
  /\ fs' = Placed(job.path, job.out, {Tmp(job.path)})
  /\ Keep("success", job.path, Steady, job.marred)
  /\ Record("success", job.path, NoPath)
  /\ UNCHANGED <<seen, faults>>
(* Mutant: the torso is not removed. *)
CommitShortLeft ==
  /\ fs' = Placed(job.path, job.out, {Tmp(job.path)})
  /\ Record("failed", NoPath, NoPath)
  /\ UNCHANGED <<seen, kept, faults>>

\* PartialWriteError: the file was renamed to its place and is removed again.
CommitShort ==
  /\ Removed(job.path, job.out)
  /\ Record("failed", NoPath, NoPath)
  /\ UNCHANGED seen

CommitWhole == Deliver(job.path, job.out, Steady, job.marred)

Commit ==
  /\ pc = "copy" /\ (Remaining = 0 \/ job.at >= job.list)
  /\ \/ Kind[job.file] \in InPlace /\ CommitInPlace
     \/ Kind[job.file] \notin InPlace /\ Remaining # 0 /\ CommitShort
     \/ Kind[job.file] \notin InPlace /\ Remaining = 0 /\ CommitWhole
  /\ UNCHANGED <<engine, caller, dirs>>

\* A read of the recovery's own reader does not come back: that reader, unlike
\* the scan's, has no time limit.  ValidateDeep and decompression read it too.
Hangs ==
  /\ \/ Copying /\ Kind[job.file] \notin InPlace
     \/ /\ pc = "next" /\ todo # <<>> /\ ~cancelled
        /\ Kind[Now] = "carver" \/ (Now \in InMemory /\ ~SourceLost(Now))
  /\ Fault
  /\ pc' = "hung"
  /\ UNCHANGED <<engine, caller, todo, job, records, seen, fs, dirs, kept>>

\* All done, or cancelled before the next file: the records are kept.
Finish ==
  /\ pc = "next" /\ (todo = <<>> \/ cancelled)
  /\ last' = records
  /\ Return
  /\ UNCHANGED <<engine, recoveries, fs, dirs, kept, faults>>

----------------------------------------------------------------------------
Scan == (\E d \in Drive : ScanStarts(d)) \/ (\E batch \in Batches : ScanFinds(batch)) \/ ScanEnds
User == StartRecovery \/ RetryFailed \/ StopRecovery
Goroutine ==
  \/ Open \/ OpenFails \/ Publish \/ Select \/ SelectNothing
  \/ NextFile \/ Copy \/ CopyFails \/ Commit \/ Hangs \/ Finish

Next == Scan \/ User \/ Goroutine

Spec == Init /\ [][Next]_vars
\* The goroutine goes on until a read hangs; nothing makes a scan end or a user
\* act.
FairSpec == Spec /\ WF_vars(Goroutine)

----------------------------------------------------------------------------
(* Properties. *)

Path == [dir : {"ntfs", "carver", "low"}, sub : {Dir[f] : f \in FileID},
         base : {Name[f].base : f \in FileID}, num : Nat, tmps : Nat]
Label == {"zero", "junk", "repaired"} \union {Content[d][f] : d \in Drive, f \in FileID}
Entry == [label : Label, at : 0..Size]
Data == Seq(Entry)

\* Every variable keeps its shape; in particular no file is longer than its size
\* and a job exists exactly while a file is being copied.
TypeOK ==
  /\ scan.drive \in Drive \union {NoDrive} /\ scan.open \in BOOLEAN /\ found \subseteq FileID
  /\ {recovering, canceller, cancelled} \subseteq BOOLEAN
  /\ pc \in {"idle", "open", "publish", "select", "next", "copy", "hung"}
  /\ (pc = "idle") = ~recovering /\ (canceller => recovering)
  /\ ids \subseteq FileID /\ ToSet(todo) \subseteq [file : FileID, drive : Drive]
  /\ (pc = "copy" => job # NoJob) /\ (job # NoJob => pc \in {"copy", "hung"})
  /\ (job # NoJob => job.file = Now /\ Len(job.out) <= Size /\ job.out \in Data)
  /\ \A i \in DOMAIN records : records[i].file \in FileID /\ records[i].state \in States
  /\ DOMAIN fs \subseteq Path /\ \A p \in DOMAIN fs : fs[p] \in Data
  /\ stopAt \in Int /\ scans \in 0..MaxScans /\ faults \in 0..MaxFaults

\* Not itself named like another output's temporary file.
Lasting(k) == k.state = "success" /\ k.path.tmps = 0
Holds(k) == k.path \in DOMAIN fs /\ fs[k.path] = Whole(k.drive, k.file)

\* A carved or NTFS file reported as recovered holds all its data, whatever
\* short reads, failures, stops, retries and later recoveries happen
\* (WriteFile and WriteNTFSFile go on at the next unread byte, and
\* resolveConflict never lets an output be overwritten); only a compressed file
\* that could not be read or decompressed wholly is reported as well.
RunsAreWhole ==
  \A k \in kept : /\ Lasting(k) /\ Kind[k.file] \in {"carver", "ntfs"} /\ k.steady
                  /\ "unit" \notin k.marred
                  => Holds(k)

\* So does a file copied cluster by cluster, if no read of it was short and its
\* clusters were not guessed from a closed reader.
ClustersAreWhole ==
  \A k \in kept : /\ Lasting(k) /\ Kind[k.file] \in ByCluster /\ k.steady
                  /\ k.marred = {}
                  => Holds(k)

\* Between files the output directory holds the reported files, and of the failed
\* ones what the code is known to leave: an in-place torso, the file of an
\* os.WriteFile that failed, a file that os.Remove did not remove.
NothingLeftOver ==
  pc \in {"idle", "next"} => \A q \in DOMAIN fs : \E k \in kept : k.path = q

\* engine.go:1125: an incomplete output is removed.  This does not hold: see
\* NothingLeftOver for what stays.
NoUnreportedFile ==
  pc \in {"idle", "next"} =>
    \A q \in DOMAIN fs : \E k \in kept : k.path = q /\ k.state # "left"

\* One recovery never reports two hashed files with the same content, and the
\* copy it keeps of an NTFS file's content is never the carved one.
Recovered == {i \in DOMAIN records : records[i].state = "success"
                                     /\ Kind[records[i].file] \notin InPlace
                                     /\ records[i].path.tmps = 0}
OneCopyOfEach ==
  /\ \A i, j \in Recovered : i # j => fs[records[i].path] # fs[records[j].path]
  /\ \A i \in DOMAIN records :
       Kind[records[i].file] = "ntfs" /\ records[i].of # NoPath => records[i].of.dir = "ntfs"

\* Once a stop found the recovery's cancel function, at most the file being
\* copied is still dealt with.
StopHonoured == cancelled => Len(records) <= stopAt + 1

\* engine.go:1522: a stop cancels the recovery that is under way, whenever the
\* user asks for it.  This does not hold: the flag is set before the cancel
\* function is.
StopIsHeard == recovering => canceller

\* Every recovery ends, whatever fails and whether or not it is stopped, unless
\* a read of the source never comes back.
RecoveryEnds == recovering ~> (~recovering \/ pc = "hung")

\* engine.go:1522: so does one that has been cancelled.  This does not hold: the
\* source is opened without the reader that limits the time of a read.
CancelledRecoveryEnds == cancelled ~> ~recovering

\* What the comment at engine.go:838 is there for: a file reported as recovered
\* holds its data, although the scan's reader is closed by then.
SuccessIsWhole == \A k \in kept : Lasting(k) /\ k.steady /\ "short" \notin k.marred => Holds(k)
=============================================================================
