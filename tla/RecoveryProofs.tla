--------------------------- MODULE RecoveryProofs ---------------------------
(***************************************************************************)
(* Proofs about Recovery, for every set of files, drives and requests,     *)
(* every size and every bound.                                             *)
(*                                                                         *)
(* The inductive invariant IInv adds to the properties what the code keeps *)
(* true while a file is being written: the units written so far are the    *)
(* file's own and the next read begins where they end (Exact), the output  *)
(* path is nobody else's (Standing, which rests on resolveConflict finding *)
(* a free name), whatever else lies in the directory is accounted for      *)
(* (Accounted), NTFS files go first (NtfsAhead), and the hashes of this    *)
(* recovery are those of the files that stand (Remembered).                *)
(***************************************************************************)
EXTENDS Recovery, TLAPS, FiniteSetTheorems, WellFoundedInduction

Early == {"idle", "open", "publish", "select"}
Rec == [file : FileID, state : States, path : Path \cup {NoPath}, of : Path \cup {NoPath}]
Job == [file : FileID, path : Path, at : Nat, out : Data, layout : Drive, gen : Int,
        list : Int, marred : SUBSET {"guessed", "short"}]
Selected == [file : FileID, drive : Drive]

TypedTask ==
  /\ scan \in [drive : Drive \cup {NoDrive}, open : BOOLEAN] /\ found \subseteq FileID
  /\ {recovering, canceller, cancelled} \subseteq BOOLEAN
  /\ pc \in Early \cup {"next", "copy", "hung"}
  /\ (pc = "idle") = ~recovering /\ (canceller => recovering)
  /\ pc # "idle" => scan.drive \in Drive /\ device \in Drive
  /\ ids \subseteq FileID /\ last \in Seq(Rec)
  /\ stopAt \in Int /\ scans \in 0..MaxScans /\ faults \in 0..MaxFaults

Directory == IsFiniteSet(DOMAIN fs) /\ fs \in [DOMAIN fs -> Data] /\ DOMAIN fs \subseteq Path
TypedFiles ==
  /\ todo \in Seq(Selected) /\ records \in Seq(Rec) /\ seen \subseteq [hash : Data, path : Path]
  /\ Directory
  /\ \A k \in kept : k.file \in FileID /\ k.path \in Path

TypedJob ==
  /\ job # NoJob => /\ job \in Job /\ todo # <<>> /\ job.file = Now
                    /\ Len(job.out) <= Size /\ pc \in {"copy", "hung"}
  /\ pc = "copy" => job # NoJob
  /\ pc \in Early => todo = <<>> /\ records = <<>> /\ seen = {}

(* A reported file stays where it is, and is not the one being written.      *)
Standing ==
  \A k \in kept : Lasting(k) => k.path \in DOMAIN fs /\ (pc = "copy" => job.path # k.path)

(* The files whose copy says something about their content.                  *)
Trusted == \/ Kind[job.file] \in {"carver", "ntfs"}
           \/ Kind[job.file] \in ByCluster /\ job.marred = {}

(* What has been written is a prefix of the file, and the next read begins   *)
(* where it ends or the file is complete.                                    *)
Exact ==
  pc = "copy" =>
    /\ "guessed" \in job.marred => Kind[job.file] = "fat"
    /\ Steady /\ Trusted =>
         /\ job.at = Len(job.out) \/ Len(job.out) = Size
         /\ \A i \in 1..Len(job.out) : job.out[i] = Unit(device, job.file, i)

Named ==
  pc = "copy" => /\ job.path.base = Name[job.file].base
                 /\ Kind[job.file] = "ntfs" => job.path.dir = "ntfs"

(* NothingLeftOver between any two steps.                                    *)
Writing == IF Kind[job.file] \in InPlace THEN job.path ELSE Tmp(job.path)
Accounted ==
  \A q \in DOMAIN fs : (\E k \in kept : k.path = q) \/ (job # NoJob /\ q = Writing)

IsNtfs(i) == Kind[todo[i].file] = "ntfs"
NtfsAhead ==
  /\ \A i, m \in DOMAIN todo : ~ IsNtfs(i) /\ IsNtfs(m) => m < i
  /\ (\E m \in DOMAIN todo : IsNtfs(m)) => \A s \in seen : s.path.dir = "ntfs"

(* A file this recovery reported still stands and its hash is known.         *)
Remembered ==
  \A i \in Recovered :
    /\ [hash |-> fs[records[i].path], path |-> records[i].path] \in seen
    /\ \E k \in kept : Lasting(k) /\ k.path = records[i].path

Stopped == cancelled => \/ Len(records) <= stopAt
                        \/ pc = "next" /\ Len(records) = stopAt + 1

Typed == TypedTask /\ TypedFiles /\ TypedJob

-----------------------------------------------------------------------------
(* Names and the output directory.                                           *)

(* A set of naturals that is not empty has a least element.                  *)
LEMMA LeastExists ==
  ASSUME NEW T, T \subseteq Nat, T # {}
  PROVE  \E n \in T : \A m \in T : n <= m
<1>1. PICK n \in T : \A m \in T : ~ (<<m, n>> \in OpToRel(<, Nat))
  BY NatLessThanWellFounded, WFMin, Zenon
<1>2. \A m \in T : m < n => <<m, n>> \in OpToRel(<, Nat)
  BY Zenon DEF OpToRel
<1>3. \A m \in T : ~ (m < n)
  BY <1>1, <1>2
<1> QED BY <1>3

(* The directory after one file has been put and others have gone.           *)
LEMMA PlacedIs ==
  ASSUME NEW path, NEW content, NEW gone, fs' = Placed(path, content, gone)
  PROVE  /\ DOMAIN fs' = (DOMAIN fs \ gone) \cup {path} /\ fs'[path] = content
         /\ \A q \in DOMAIN fs \ gone : q # path => fs'[q] = fs[q]
BY SMT DEF Placed

LEMMA PlacedFits ==
  ASSUME NEW path \in Path, NEW content \in Data, NEW gone, fs' = Placed(path, content, gone), Directory
  PROVE  Directory'
<1>1. DOMAIN fs' = (DOMAIN fs \ gone) \cup {path}
  BY PlacedIs
<1>2. IsFiniteSet(DOMAIN fs \ gone)
  BY FS_Subset DEF Directory
<1>3. IsFiniteSet(DOMAIN fs')
  BY <1>1, <1>2, FS_AddElement
<1>4. fs' \in [DOMAIN fs' -> Data]
  BY <1>1 DEF Placed, Directory
<1> QED BY <1>1, <1>3, <1>4 DEF Directory

LEMMA WithoutFits ==
  ASSUME NEW gone, fs' = Without(gone), Directory
  PROVE  Directory'
<1>1. DOMAIN fs' = DOMAIN fs \ gone
  BY DEF Without
<1>2. IsFiniteSet(DOMAIN fs')
  BY <1>1, FS_Subset DEF Directory
<1>3. fs' \in [DOMAIN fs' -> Data]
  BY <1>1 DEF Without, Directory
<1> QED BY <1>1, <1>2, <1>3 DEF Directory

LEMMA WithoutIs ==
  ASSUME NEW gone, fs' = Without(gone)
  PROVE  DOMAIN fs' = DOMAIN fs \ gone /\ \A q \in DOMAIN fs \ gone : fs'[q] = fs[q]
BY SMT DEF Without

(* resolveConflict finds a name that is free: among one more name than there *)
(* are files one is (the pigeonhole principle), so there is a least number.  *)
LEMMA ResolveIsFree ==
  ASSUME NEW b \in Path, IsFiniteSet(DOMAIN fs)
  PROVE  /\ Resolve(b) \in Path \ DOMAIN fs
         /\ Resolve(b).dir = b.dir /\ Resolve(b).base = b.base /\ Resolve(b).tmps = b.tmps
<1> DEFINE max  == Cardinality(DOMAIN fs)
           name == [n \in 0..max |-> [b EXCEPT !.num = n]]
           free == {n \in 0..max : [b EXCEPT !.num = n] \notin DOMAIN fs}
<1>1. max \in Nat
  BY FS_CardinalityType
<1>2. free # {}
  <2>1. SUFFICES ASSUME free = {} PROVE FALSE
    OBVIOUS
  <2>2. name \in [0..max -> DOMAIN fs]
    BY <2>1
  <2>3. IsFiniteSet(0..max) /\ Cardinality(0..max) = max + 1
    BY <1>1, FS_Interval
  <2>4. Cardinality(DOMAIN fs) < Cardinality(0..max)
    BY <1>1, <2>3
  <2>5. \A n \in 0..max : name[n].num = n
    BY DEF Path
  <2> HIDE DEF name, max
  <2>6. \E n, m \in 0..max : n # m /\ name[n] = name[m]
    BY <2>2, <2>3, <2>4, FS_PigeonHole, Zenon
  <2> QED BY <2>5, <2>6
<1> DEFINE least == \E n \in free : \A m \in free : n <= m
<1>3. least
  <2>1. free \subseteq Nat
    BY <1>1
  <2> HIDE DEF free
  <2> QED BY <1>2, <2>1, LeastExists
<1> DEFINE num == CHOOSE n \in free : \A m \in free : n <= m
<1>4. num \in free
  BY <1>3
<1>5. Resolve(b) = [b EXCEPT !.num = num]
  BY DEF Resolve
<1>6. num \in Nat
  BY <1>1, <1>4
<1> HIDE DEF num
<1> QED BY <1>4, <1>5, <1>6 DEF Path

LEMMA TmpIs ==
  ASSUME NEW q \in Path
  PROVE  Tmp(q) \in Path /\ Tmp(q).tmps = q.tmps + 1 /\ q.tmps \in Nat /\ Tmp(q) # q
BY DEF Tmp, Path

(* The output path of a file.                                                *)
LEMMA OutputPathIsFree ==
  ASSUME NEW f \in FileID, NEW low, IsFiniteSet(DOMAIN fs)
  PROVE  /\ OutputPath(f, low) \in Path \ DOMAIN fs
         /\ OutputPath(f, low).base = Name[f].base
         /\ Kind[f] = "ntfs" => OutputPath(f, low).dir = "ntfs"
<1> DEFINE in == IF Kind[f] = "ntfs" THEN "ntfs" ELSE IF low THEN "low" ELSE "carver"
           b == [dir |-> in, sub |-> Dir[f], base |-> Name[f].base, num |-> 0,
                 tmps |-> Name[f].tmps]
<1>1. in \in {"ntfs", "carver", "low"} /\ (Kind[f] = "ntfs" => in = "ntfs")
  OBVIOUS
<1>2. OutputPath(f, low) = Resolve(b)
  BY DEF OutputPath
<1> HIDE DEF in
<1>3. b \in Path /\ b.dir = in /\ b.base = Name[f].base
  BY <1>1, FilesAssumption DEF Path
<1> HIDE DEF b
<1> QED BY <1>1, <1>2, <1>3, ResolveIsFree

-----------------------------------------------------------------------------
(* Units, records and the selected files.                                    *)

LEMMA FillersAreEntries == Zero \in Entry /\ Junk \in Entry /\ Repaired \in Data
<1>1. {"zero", "junk", "repaired"} \subseteq Label
  BY DEF Label
<1>2. 0 \in 0..Size
  BY SizeAssumption
<1>3. \A l \in {"zero", "junk", "repaired"} : [label |-> l, at |-> 0] \in Entry
  BY <1>1, <1>2 DEF Entry
<1> HIDE DEF Entry
<1> QED BY <1>3 DEF Zero, Junk, Repaired, Data

LEMMA UnitIsEntry ==
  ASSUME NEW d \in Drive, NEW f \in FileID, NEW p \in Nat \ {0}
  PROVE  Unit(d, f, p) \in Entry
<1>1. Junk \in Entry
  BY FillersAreEntries
<1>2. CASE p <= Size
  <2>1. Content[d][f] \in Label
    BY DEF Label
  <2>2. [label |-> Content[d][f], at |-> p] \in Entry
    BY <1>2, <2>1, SizeAssumption DEF Entry
  <2> QED BY <1>2, <2>2 DEF Unit
<1> QED BY <1>1, <1>2, SizeAssumption DEF Unit

(* Whatever the drive and the two readers are by now.                        *)
LEMMA SeesEntry ==
  ASSUME Typed, pc = "copy", NEW p \in Nat \ {0}
  PROVE  Sees(p) \in Entry
<1>1. device \in Drive /\ job \in Job
  BY DEF Typed, TypedTask, TypedJob
<1>2. job.layout \in Drive /\ job.file \in FileID
  BY <1>1 DEF Job
<1>3. Junk \in Entry /\ Zero \in Entry
  BY FillersAreEntries
<1>4. Unit(device, job.file, p) \in Entry /\ Unit(job.layout, job.file, p) \in Entry
  BY <1>1, <1>2, UnitIsEntry
<1> QED BY <1>3, <1>4, Zenon DEF Sees

LEMMA NowIs ==
  ASSUME Typed, todo # <<>>
  PROVE  /\ Head(todo) = todo[1] /\ todo[1] \in Selected /\ 1 \in DOMAIN todo
         /\ Now \in FileID /\ Head(todo).drive \in Drive
<1>1. todo \in Seq(Selected)
  BY DEF Typed, TypedFiles
<1>2. Head(todo) = todo[1] /\ todo[1] \in Selected /\ 1 \in DOMAIN todo
  BY <1>1
<1> QED BY <1>2 DEF Now, Selected

(* What Record does to the records and to the files that are left.           *)
LEMMA RecordIs ==
  ASSUME Typed, todo # <<>>, NEW state \in States, NEW path \in Path \cup {NoPath},
         NEW of \in Path \cup {NoPath}, Record(state, path, of)
  PROVE  /\ records' \in Seq(Rec) /\ Len(records') = Len(records) + 1
         /\ DOMAIN records' = DOMAIN records \cup {Len(records')}
         /\ Len(records') \notin DOMAIN records
         /\ \A i \in DOMAIN records : records'[i] = records[i]
         /\ records'[Len(records')] = [file |-> Now, state |-> state, path |-> path, of |-> of]
         /\ todo' \in Seq(Selected)
         /\ \A i \in DOMAIN todo' : i + 1 \in DOMAIN todo /\ todo'[i] = todo[i + 1]
         /\ pc' = "next" /\ job' = NoJob
<1> DEFINE r == [file |-> Now, state |-> state, path |-> path, of |-> of]
<1>1. records \in Seq(Rec) /\ todo \in Seq(Selected)
  BY DEF Typed, TypedFiles
<1>2. r \in Rec
  BY NowIs DEF Rec
<1>3. records' = Append(records, r) /\ todo' = Tail(todo) /\ pc' = "next" /\ job' = NoJob
  BY DEF Record
<1> HIDE DEF r
<1>4. /\ records' \in Seq(Rec) /\ Len(records') = Len(records) + 1
      /\ \A i \in DOMAIN records : records'[i] = records[i]
      /\ records'[Len(records')] = r
  BY <1>1, <1>2, <1>3
<1>5. DOMAIN records' = DOMAIN records \cup {Len(records')} /\ Len(records') \notin DOMAIN records
  BY <1>1, <1>4
<1>6. /\ todo' \in Seq(Selected)
      /\ \A i \in DOMAIN todo' : i + 1 \in DOMAIN todo /\ todo'[i] = todo[i + 1]
  BY <1>1, <1>3
<1> QED BY <1>3, <1>4, <1>5, <1>6 DEF r

-----------------------------------------------------------------------------
(* The kinds of steps.                                                       *)

(* The scan, the user, a recovery that has not selected its files yet, and a *)
(* read that hangs.                                                          *)
Elsewhere ==
  /\ UNCHANGED <<todo, job, records, seen, fs, kept>>
  /\ \/ UNCHANGED <<pc, device>>
     \/ {pc, pc'} \subseteq Early
     \/ pc \in {"next", "copy"} /\ pc' = "hung" /\ UNCHANGED device

Ending ==
  /\ UNCHANGED <<fs, kept>> /\ pc \notin {"copy", "hung"}
  /\ todo' = <<>> /\ job' = NoJob /\ records' = <<>> /\ seen' = {} /\ pc' = "idle"

(* A file that is not written at all.                                        *)
Passed ==
  /\ pc = "next" /\ todo # <<>>
  /\ \E state \in {"skipped", "failed"} : Record(state, NoPath, NoPath)
  /\ UNCHANGED <<seen, fs, kept>>

(* A file that is written in one step, repaired.                             *)
Mended(path) ==
  /\ pc = "next" /\ todo # <<>> /\ path = OutputPath(Now, TRUE)
  /\ Put(path, Repaired) /\ Keep("partial", path, TRUE, {}) /\ Record("partial", path, NoPath)
  /\ UNCHANGED seen

Begun(verdict) == pc = "next" /\ todo # <<>> /\ StartCopy(verdict)

CommitIs(how) == pc = "copy" /\ how /\ UNCHANGED <<engine, caller, dirs>>

(* The place of the file that is dealt with: the one being written, or a     *)
(* name that nothing has.                                                    *)
Placing(path) ==
  /\ path \in Path /\ todo # <<>>
  /\ \/ pc = "copy" /\ path = job.path /\ Kind[job.file] \notin InPlace
     \/ pc = "next" /\ path \notin DOMAIN fs /\ (Kind[Now] = "ntfs" => path.dir = "ntfs")

(* A file that does not stay: it goes, or it is left over at q.              *)
Undone(gone, data, q) ==
  /\ pc \in {"next", "copy"} /\ todo # <<>> /\ data \in Data /\ UNCHANGED seen
  /\ \E state \in {"failed", "skipped"}, of \in {NoPath} \cup {s.path : s \in seen} :
       Record(state, NoPath, of)
  /\ \/ q = NoPath /\ fs' = Without(gone) /\ UNCHANGED kept
     \/ q \in Path /\ fs' = Placed(q, data, gone) /\ Keep("left", q, FALSE, {})
  /\ \A p \in DOMAIN fs : p.tmps = 0 /\ (pc = "copy" => p # job.path) => p \notin gone /\ p # q
  /\ pc = "copy" => Writing \in gone \cup {q}

(* A file that stands under its name, with a hash that nothing had.          *)
Delivered(path, data, steady, marred) ==
  /\ Placing(path) /\ data \in Data
  /\ \A s \in seen : s.hash # data
  /\ seen' = seen \cup {[hash |-> data, path |-> path]}
  /\ Keep("success", path, steady, marred) /\ Record("success", path, NoPath)
  /\ fs' = Placed(path, data, {Tmp(path)})
  /\ \/ /\ pc = "copy" /\ data = job.out /\ Remaining = 0
        /\ steady = Steady /\ marred = job.marred
     \/ /\ pc = "next" /\ Kind[Now] = "ntfs"
        /\ steady /\ "unit" \notin marred => data = Whole(Head(todo).drive, Now)

(* Names: of the file that is begun, and of its temporary file.              *)
LEMMA PlacingIs ==
  ASSUME Typed, NEW path, Placing(path)
  PROVE  /\ Tmp(path) \in Path /\ Tmp(path).tmps # 0
         /\ \A p \in DOMAIN fs : p.tmps = 0 /\ (pc = "copy" => p # job.path)
                                => p # path /\ p # Tmp(path)
         /\ pc = "copy" => Writing = Tmp(path)
<1>1. path \in Path
  BY DEF Placing
<1>2. Tmp(path) \in Path /\ Tmp(path).tmps = path.tmps + 1 /\ path.tmps \in Nat
  BY <1>1, TmpIs
<1>3. Tmp(path).tmps # 0
  BY <1>2
<1> QED BY <1>2, <1>3 DEF Placing, Writing

LEMMA OutputIsPlacing ==
  ASSUME Typed, pc = "next", todo # <<>>, NEW low
  PROVE  Placing(OutputPath(Now, low))
<1>1. Now \in FileID
  BY NowIs
<1> QED BY <1>1, OutputPathIsFree DEF Placing, Typed, TypedFiles, Directory

LEMMA JobIsPlacing ==
  ASSUME Typed, pc = "copy", Kind[job.file] \notin InPlace
  PROVE  Placing(job.path)
<1>1. job \in Job /\ todo # <<>>
  BY DEF Typed, TypedJob
<1> QED BY <1>1 DEF Placing, Job

(* What fails leaves nothing that was there before, but perhaps a torso.     *)
LEMMA FailsIs ==
  ASSUME Typed, NEW path, Placing(path), NEW data \in Data,
         NEW gone \in SUBSET {path, Tmp(path)},
         NEW places \in SUBSET {NoPath, path, Tmp(path)}, Fails(gone, data, places),
         pc = "copy" => Tmp(path) \in gone
  PROVE  \E q : Undone(gone, data, q)
<1>1. PICK q \in places :
        IF q = NoPath THEN fs' = Without(gone) /\ UNCHANGED kept
        ELSE fs' = Placed(q, data, gone) /\ Keep("left", q, FALSE, {})
  BY DEF Fails
<1>2. Record("failed", NoPath, NoPath) /\ UNCHANGED seen
  BY DEF Fails
<1>3. q = NoPath \/ q \in {path, Tmp(path)}
  BY <1>1
<1>4. path \in Path /\ Tmp(path) \in Path
  BY PlacingIs DEF Placing
<1>5. NoPath \notin Path
  <2>1. \A p \in Path : "tmps" \in DOMAIN p
    BY DEF Path
  <2>2. "tmps" \notin DOMAIN NoPath
    BY DEF NoPath
  <2> QED BY <2>1, <2>2
<1>6. \/ q = NoPath /\ fs' = Without(gone) /\ UNCHANGED kept
      \/ q \in Path /\ fs' = Placed(q, data, gone) /\ Keep("left", q, FALSE, {})
  BY <1>1, <1>3, <1>4
<1>7. \A p \in DOMAIN fs : p.tmps = 0 /\ (pc = "copy" => p # job.path) => p \notin gone /\ p # q
  <2>1. \A p \in DOMAIN fs : p \in Path
    BY DEF Typed, TypedFiles, Directory
  <2> QED BY <1>3, <1>5, <2>1, PlacingIs
<1>8. pc = "copy" => Writing \in gone \cup {q}
  BY PlacingIs
<1>9. pc \in {"next", "copy"} /\ todo # <<>>
  BY DEF Placing
<1>10. Undone(gone, data, q)
  BY <1>2, <1>6, <1>7, <1>8, <1>9, Zenon DEF Undone
<1> QED BY <1>10

LEMMA RemovedIs ==
  ASSUME Typed, NEW path, Placing(path), NEW data \in Data, Removed(path, data), UNCHANGED seen,
         NEW state \in {"failed", "skipped"}, NEW of \in {NoPath} \cup {s.path : s \in seen},
         Record(state, NoPath, of)
  PROVE  \E gone, q : Undone(gone, data, q)
<1>1. PICK gone \in SUBSET {path, Tmp(path)}, q \in {NoPath, path} :
        /\ \/ q = NoPath /\ fs' = Without(gone) /\ UNCHANGED kept
           \/ q = path /\ fs' = Placed(q, data, gone) /\ Keep("left", q, FALSE, {})
        /\ Tmp(path) \in gone
  <2>1. CASE fs' = Without({Tmp(path), path}) /\ UNCHANGED kept
    <3>1. {Tmp(path), path} \in SUBSET {path, Tmp(path)} /\ Tmp(path) \in {Tmp(path), path}
      OBVIOUS
    <3> QED BY <2>1, <3>1, Zenon
  <2>2. CASE fs' = Placed(path, data, {Tmp(path)}) /\ Keep("left", path, FALSE, {})
    <3>1. {Tmp(path)} \in SUBSET {path, Tmp(path)} /\ Tmp(path) \in {Tmp(path)}
      OBVIOUS
    <3> QED BY <2>2, <3>1, Zenon
  <2> QED BY <2>1, <2>2 DEF Removed
<1>2. path \in Path /\ pc \in {"next", "copy"} /\ todo # <<>>
  BY DEF Placing
<1>3. NoPath \notin DOMAIN fs
  <2>1. \A p \in Path : "tmps" \in DOMAIN p
    BY DEF Path
  <2>2. "tmps" \notin DOMAIN NoPath
    BY DEF NoPath
  <2> QED BY <2>1, <2>2 DEF Typed, TypedFiles, Directory
<1>4. \A p \in DOMAIN fs : p.tmps = 0 /\ (pc = "copy" => p # job.path) => p \notin gone /\ p # q
  BY <1>1, <1>3, PlacingIs
<1>5. pc = "copy" => Writing \in gone \cup {q}
  BY <1>1, PlacingIs
<1>6. \/ q = NoPath /\ fs' = Without(gone) /\ UNCHANGED kept
      \/ q \in Path /\ fs' = Placed(q, data, gone) /\ Keep("left", q, FALSE, {})
  BY <1>1, <1>2
<1>7. Undone(gone, data, q)
  BY <1>2, <1>4, <1>5, <1>6, Zenon DEF Undone
<1> QED BY <1>7

LEMMA DeliverIs ==
  ASSUME Typed, NEW path, Placing(path), NEW data \in Data, NEW steady, NEW marred,
         Deliver(path, data, steady, marred),
         \/ /\ pc = "copy" /\ data = job.out /\ Remaining = 0
            /\ steady = Steady /\ marred = job.marred
         \/ /\ pc = "next" /\ Kind[Now] = "ntfs"
            /\ steady /\ "unit" \notin marred => data = Whole(Head(todo).drive, Now)
  PROVE  (\E gone, q : Undone(gone, data, q)) \/ Delivered(path, data, steady, marred)
<1>1. CASE \E s \in seen : s.hash = data
  <2> DEFINE s == CHOOSE s \in seen : s.hash = data
  <2>1. s \in seen
    BY <1>1
  <2>2. Removed(path, data) /\ Record("skipped", NoPath, s.path) /\ UNCHANGED seen
    BY <1>1 DEF Deliver
  <2> HIDE DEF s
  <2>3. s.path \in {NoPath} \cup {o.path : o \in seen}
    BY <2>1
  <2> QED BY <2>2, <2>3, RemovedIs
<1>2. CASE ~ \E s \in seen : s.hash = data
  <2>1. /\ fs' = Placed(path, data, {Tmp(path)})
        /\ seen' = seen \cup {[hash |-> data, path |-> path]}
        /\ Keep("success", path, steady, marred) /\ Record("success", path, NoPath)
    BY <1>2 DEF Deliver
  <2>2. \A s \in seen : s.hash # data
    BY <1>2
  <2> QED BY <2>1, <2>2, Zenon DEF Delivered
<1> QED BY <1>1, <1>2

(* What a file put together in memory can come to.                           *)
LEMMA AssembledIs ==
  ASSUME Typed, pc = "next", todo # <<>>, NEW data \in Assembled
  PROVE  data \in Data
<1> DEFINE whole == Whole(scan.drive, Now)
<1>1. scan.drive \in Drive /\ Now \in FileID
  BY NowIs DEF Typed, TypedTask
<1>2. \A p \in 1..Size : Unit(scan.drive, Now, p) \in Entry
  BY <1>1, UnitIsEntry, SizeAssumption
<1>3. whole \in [1..Size -> Entry]
  BY <1>2 DEF Whole
<1>4. Zero \in Entry /\ Junk \in Entry
  BY FillersAreEntries
<1> HIDE DEF whole
<1>5. [whole EXCEPT ![1] = Zero] \in [1..Size -> Entry] /\ [p \in 1..Size |-> Junk] \in [1..Size -> Entry]
  BY <1>3, <1>4
<1>6. \A t \in [1..Size -> Entry] : t \in Seq(Entry)
  BY SizeAssumption
<1>7. SubSeq(whole, 1, Size - 1) \in Seq(Entry)
  <2>1. whole \in Seq(Entry) /\ Len(whole) = Size
    BY <1>3, <1>6, SizeAssumption
  <2> QED BY <2>1, SizeAssumption
<1> QED BY <1>3, <1>5, <1>6, <1>7, Zenon DEF Assembled, Data, whole

LEMMA MemoryIs ==
  ASSUME Typed, pc = "next", todo # <<>>, WriteInMemory
  PROVE  \/ \E gone, data, q : Undone(gone, data, q)
         \/ \E path, data, steady, marred : Delivered(path, data, steady, marred)
<1> DEFINE path == OutputPath(Now, FALSE)
           steady == device = Head(todo).drive /\ scan.drive = device
           whole == Whole(scan.drive, Now)
           marred(data) == IF data = whole THEN {} ELSE {"unit"}
<1>1. Placing(path)
  BY OutputIsPlacing
<1>2. Kind[Now] = "ntfs"
  BY MemoryAssumption DEF WriteInMemory
<1>3. \/ \E data \in Assembled : Deliver(path, data, steady, marred(data))
      \/ \E gone \in SUBSET {Tmp(path)} : Fails(gone, <<>>, {NoPath, Tmp(path), path})
  BY Zenon DEF WriteInMemory
<1>4. \A data : steady /\ "unit" \notin marred(data) => data = Whole(Head(todo).drive, Now)
  OBVIOUS
<1> HIDE DEF path, steady, marred, whole
<1>5. ASSUME NEW data \in Assembled, Deliver(path, data, steady, marred(data))
      PROVE  (\E gone, q : Undone(gone, data, q)) \/ Delivered(path, data, steady, marred(data))
  <2>1. data \in Data
    BY <1>5, AssembledIs
  <2> QED BY <1>1, <1>2, <1>4, <1>5, <2>1, DeliverIs
<1>6. ASSUME NEW gone \in SUBSET {Tmp(path)}, Fails(gone, <<>>, {NoPath, Tmp(path), path})
      PROVE  \E q : Undone(gone, <<>>, q)
  <2>1. <<>> \in Data /\ gone \in SUBSET {path, Tmp(path)}
        /\ {NoPath, Tmp(path), path} \in SUBSET {NoPath, path, Tmp(path)}
    BY <1>6 DEF Data
  <2> QED BY <1>1, <1>6, <2>1, FailsIs
<1> QED BY <1>3, <1>5, <1>6, Zenon

LEMMA NextFileIs ==
  ASSUME Typed, NextFile
  PROVE  \/ Passed \/ (\E path : Mended(path)) \/ (\E verdict : Begun(verdict))
         \/ \E gone, data, q : Undone(gone, data, q)
         \/ \E path, data, steady, marred : Delivered(path, data, steady, marred)
<1>1. pc = "next" /\ todo # <<>>
  BY DEF NextFile
<1>2. PICK verdict \in Verdicts(Now) :
        \/ SkipFile(verdict) \/ WriteRepaired \/ LoseSource \/ WriteInMemory
        \/ CannotStart(verdict) \/ StartCopy(verdict)
  BY DEF NextFile
<1>3. CASE SkipFile(verdict) \/ LoseSource
  BY <1>1, <1>3 DEF SkipFile, LoseSource, Passed
<1>4. CASE StartCopy(verdict)
  BY <1>1, <1>4 DEF Begun
<1>5. <<>> \in Data
  BY DEF Data
<1>6. CASE WriteRepaired
  <2> DEFINE path == OutputPath(Now, TRUE)
  <2>1. Placing(path)
    BY <1>1, OutputIsPlacing
  <2>2. \/ /\ Put(path, Repaired) /\ Keep("partial", path, TRUE, {})
           /\ Record("partial", path, NoPath) /\ UNCHANGED seen
        \/ Record("failed", NoPath, NoPath) /\ UNCHANGED <<fs, kept, seen>>
        \/ Fails({}, <<>>, {NoPath, path})
    BY <1>6 DEF WriteRepaired
  <2>3. CASE Fails({}, <<>>, {NoPath, path})
    <3> HIDE DEF path
    <3>1. {} \in SUBSET {path, Tmp(path)} /\ {NoPath, path} \in SUBSET {NoPath, path, Tmp(path)}
      OBVIOUS
    <3>2. \E q : Undone({}, <<>>, q)
      BY <1>1, <1>5, <2>1, <2>3, <3>1, FailsIs
    <3> QED BY <3>2
  <2>4. ASSUME Put(path, Repaired), Keep("partial", path, TRUE, {}),
               Record("partial", path, NoPath), UNCHANGED seen
        PROVE  Mended(path)
    BY <1>1, <2>4 DEF Mended
  <2> HIDE DEF path
  <2> QED BY <1>1, <2>2, <2>3, <2>4 DEF Passed
<1>7. CASE WriteInMemory
  BY <1>1, <1>7, MemoryIs
<1>8. CASE CannotStart(verdict)
  <2> DEFINE path == OutputPath(Now, TRUE)
  <2>1. Placing(path)
    BY <1>1, OutputIsPlacing
  <2>2. Fails({}, <<>>, {NoPath})
    BY <1>8 DEF CannotStart
  <2> HIDE DEF path
  <2>3. {} \in SUBSET {path, Tmp(path)} /\ {NoPath} \in SUBSET {NoPath, path, Tmp(path)}
    OBVIOUS
  <2>4. \E q : Undone({}, <<>>, q)
    BY <1>1, <1>5, <2>1, <2>2, <2>3, FailsIs
  <2> QED BY <2>4
<1> QED BY <1>2, <1>3, <1>4, <1>6, <1>7, <1>8

LEMMA CopyFailsIs ==
  ASSUME Typed, CopyFails
  PROVE  \E gone, data, q : Undone(gone, data, q)
<1>1. pc = "copy" /\ job \in Job /\ todo # <<>>
  BY DEF CopyFails, Typed, TypedJob
<1>2. job.out \in Data /\ job.path \in Path
  BY <1>1 DEF Job
<1>3. CASE Kind[job.file] \in InPlace
  <2>1. Fails({}, job.out, {job.path})
    BY <1>3 DEF CopyFails
  <2>2. job.path # NoPath
    <3>1. "tmps" \in DOMAIN job.path
      BY <1>2 DEF Path
    <3>2. "tmps" \notin DOMAIN NoPath
      BY DEF NoPath
    <3> QED BY <3>1, <3>2
  <2>3. /\ Record("failed", NoPath, NoPath) /\ UNCHANGED seen
        /\ fs' = Placed(job.path, job.out, {}) /\ Keep("left", job.path, FALSE, {})
    BY <2>1, <2>2 DEF Fails
  <2>4. Writing \in {} \cup {job.path}
    BY <1>3 DEF Writing
  <2>5. NoPath \in {NoPath} \cup {s.path : s \in seen}
    OBVIOUS
  <2>6. \A p \in DOMAIN fs : p # job.path => p \notin {} /\ p # job.path
    OBVIOUS
  <2>7. Undone({}, job.out, job.path)
    BY <1>1, <1>2, <2>3, <2>4, <2>5, <2>6, Zenon DEF Undone
  <2> QED BY <2>7
<1>4. CASE Kind[job.file] \notin InPlace
  <2> DEFINE places == {NoPath, Tmp(job.path)} \union IF Copying THEN {} ELSE {job.path}
  <2>1. Fails({Tmp(job.path), job.path}, job.out, places)
    BY <1>4 DEF CopyFails
  <2>2. places \in SUBSET {NoPath, job.path, Tmp(job.path)}
        /\ {Tmp(job.path), job.path} \in SUBSET {job.path, Tmp(job.path)}
        /\ Tmp(job.path) \in {Tmp(job.path), job.path}
    OBVIOUS
  <2>3. Placing(job.path)
    BY <1>1, <1>4, JobIsPlacing
  <2> HIDE DEF places
  <2>4. \E q : Undone({Tmp(job.path), job.path}, job.out, q)
    BY <1>2, <2>1, <2>2, <2>3, FailsIs
  <2> QED BY <2>4
<1> QED BY <1>3, <1>4

LEMMA CommitIsOne ==
  ASSUME Typed, Commit
  PROVE  \/ CommitIs(Kind[job.file] \in InPlace /\ CommitInPlace)
         \/ \E gone, data, q : Undone(gone, data, q)
         \/ \E path, data, steady, marred : Delivered(path, data, steady, marred)
<1>1. pc = "copy" /\ job \in Job /\ UNCHANGED <<engine, caller, dirs>>
  BY DEF Commit, Typed, TypedJob
<1>2. job.out \in Data
  BY <1>1 DEF Job
<1>3. CASE Kind[job.file] \in InPlace /\ CommitInPlace
  BY <1>1, <1>3 DEF CommitIs
<1>4. CASE Kind[job.file] \notin InPlace /\ CommitShort
  <2>1. Removed(job.path, job.out) /\ Record("failed", NoPath, NoPath) /\ UNCHANGED seen
    BY <1>4 DEF CommitShort
  <2>2. NoPath \in {NoPath} \cup {s.path : s \in seen} /\ "failed" \in {"failed", "skipped"}
    OBVIOUS
  <2>3. \E gone, q : Undone(gone, job.out, q)
    BY <1>1, <1>2, <1>4, <2>1, <2>2, JobIsPlacing, RemovedIs
  <2> QED BY <2>3
<1>5. CASE Kind[job.file] \notin InPlace /\ Remaining = 0 /\ CommitWhole
  <2>1. Deliver(job.path, job.out, Steady, job.marred)
    BY <1>5 DEF CommitWhole
  <2> DEFINE steady == Steady
  <2>2. Deliver(job.path, job.out, steady, job.marred) /\ steady = Steady
    BY <2>1
  <2> HIDE DEF steady
  <2>3. (\E gone, q : Undone(gone, job.out, q)) \/ Delivered(job.path, job.out, steady, job.marred)
    BY <1>1, <1>2, <1>5, <2>2, JobIsPlacing, DeliverIs
  <2> QED BY <2>3
<1> QED BY <1>3, <1>4, <1>5 DEF Commit

LEMMA StepIs ==
  ASSUME Typed, [Next]_vars
  PROVE  \/ Elsewhere \/ Ending \/ Select \/ Passed \/ (\E path : Mended(path))
         \/ (\E verdict : Begun(verdict)) \/ Copy
         \/ CommitIs(Kind[job.file] \in InPlace /\ CommitInPlace)
         \/ \E gone, data, q : Undone(gone, data, q)
         \/ \E path, data, steady, marred : Delivered(path, data, steady, marred)
<1>1. CASE Scan
  <2>1. UNCHANGED <<pc, todo, job, records, seen, fs, kept, device>>
    BY <1>1 DEF Scan, ScanStarts, ScanFinds, ScanEnds, caller
  <2> QED BY <2>1 DEF Elsewhere
<1>2. CASE User
  <2>1. CASE StopRecovery
    BY <2>1 DEF StopRecovery, Elsewhere
  <2>2. ASSUME NEW wanted, Begin(wanted) PROVE Elsewhere
    <3>1. pc = "idle"
      BY <2>2 DEF Begin, Typed, TypedTask
    <3> QED BY <2>2, <3>1 DEF Begin, Elsewhere, Early
  <2> QED BY <1>2, <2>1, <2>2 DEF User, StartRecovery, RetryFailed
<1>3. CASE Open \/ Publish
  BY <1>3 DEF Open, Publish, Elsewhere, Early
<1>4. CASE OpenFails \/ SelectNothing \/ Finish
  BY <1>4 DEF OpenFails, SelectNothing, Finish, Return, Ending
<1>5. CASE Hangs
  BY <1>5 DEF Hangs, Copying, Elsewhere, caller
<1>6. CASE UNCHANGED vars
  BY <1>6 DEF vars, Elsewhere
<1> QED BY <1>1, <1>2, <1>3, <1>4, <1>5, <1>6, NextFileIs, CopyFailsIs, CommitIsOne, Zenon
        DEF Next, Goroutine

(* A file is begun under a name that nothing has.                            *)
LEMMA BegunIs ==
  ASSUME Typed, NEW verdict, Begun(verdict)
  PROVE  /\ job' \in Job /\ job'.file = Now /\ job'.path \in Path \ DOMAIN fs
         /\ job'.path.base = Name[Now].base /\ (Kind[Now] = "ntfs" => job'.path.dir = "ntfs")
         /\ job'.at = 0 /\ job'.out = <<>> /\ ("guessed" \in job'.marred => Kind[Now] = "fat")
         /\ Put(IF Kind[Now] \in InPlace THEN job'.path ELSE Tmp(job'.path), <<>>)
         /\ pc' = "copy" /\ UNCHANGED <<todo, records, seen, kept, device>>
<1> DEFINE path == OutputPath(Now, verdict = "low")
           marred == IF Guessed(Now) THEN {"guessed"} ELSE {}
           list == ListLength(Now) * Chunk
<1>1. Now \in FileID /\ Head(todo).drive \in Drive
  BY NowIs DEF Begun
<1>2. path \in Path \ DOMAIN fs /\ path.base = Name[Now].base /\ (Kind[Now] = "ntfs" => path.dir = "ntfs")
  BY <1>1, OutputPathIsFree DEF Typed, TypedFiles, Directory
<1>3. /\ Put(IF Kind[Now] \in InPlace THEN path ELSE Tmp(path), <<>>)
      /\ job' = [file |-> Now, path |-> path, at |-> 0, out |-> <<>>, layout |-> Layout(Now),
                 gen |-> scans, list |-> list, marred |-> marred]
      /\ pc' = "copy" /\ UNCHANGED <<todo, records, seen, kept, device>>
  BY DEF Begun, StartCopy, caller
<1>4. Layout(Now) \in Drive
  BY <1>1 DEF Layout, Begun, Typed, TypedTask, Early
<1>5. marred \in SUBSET {"guessed", "short"} /\ ("guessed" \in marred => Kind[Now] = "fat")
  BY DEF Guessed
<1>6. list \in Int
  <2>1. Clusters \in Int
    BY SizeAssumption DEF Clusters
  <2> HIDE DEF Clusters
  <2>2. ListLength(Now) \in Int
    BY <2>1 DEF ListLength
  <2> HIDE DEF ListLength
  <2> QED BY <2>2, SizeAssumption
<1>7. <<>> \in Data /\ scans \in Int
  BY DEF Data, Typed, TypedTask
<1> HIDE DEF path, marred, list
<1>8. job' \in Job
  BY <1>1, <1>2, <1>3, <1>4, <1>5, <1>6, <1>7 DEF Job
<1> QED BY <1>2, <1>3, <1>5, <1>8

(* One read and the write of what it returned: the n units are appended, and *)
(* a loop by clusters that got fewer than it needed marks the file.          *)
CopyStep(n) ==
  /\ job' \in Job /\ job'.file = job.file /\ job'.path = job.path /\ job'.layout = job.layout
  /\ n \in 1..Remaining /\ n <= Chunk /\ Len(job'.out) = Len(job.out) + n
  /\ \A i \in 1..Len(job.out) : job'.out[i] = job.out[i]
  /\ Kind[job.file] \notin InPlace =>
       \A i \in 1..n : job'.out[Len(job.out) + i] = Sees(job.at + i)
  /\ job'.at = job.at + (IF Kind[job.file] \in ByCluster THEN Chunk ELSE n)
  /\ job.marred \subseteq job'.marred /\ ("guessed" \in job'.marred => "guessed" \in job.marred)
  /\ n < Chunk /\ n < Remaining => "short" \in job'.marred

LEMMA CopyIs ==
  ASSUME Typed, Copy
  PROVE  pc = "copy" /\ (\E n \in Nat : CopyStep(n))
         /\ UNCHANGED <<pc, todo, records, seen, fs, kept, device>>
<1> DEFINE want == IF Chunk < Remaining THEN Chunk ELSE Remaining
           got(n) == [k \in 1..n |-> Sees(job.at + k)]
           zeros == [k \in 1..want |-> Zero]
<1>1. pc = "copy" /\ job \in Job /\ Len(job.out) <= Size
  BY DEF Copy, Copying, Typed, TypedJob
<1>2. job.at \in Nat /\ job.out \in Seq(Entry) /\ job.file \in FileID
  BY <1>1 DEF Job, Data
<1>3. Remaining \in Nat \ {0} /\ want \in 1..Remaining /\ want <= Chunk
  BY <1>1, <1>2, SizeAssumption DEF Copy, Copying, Remaining
<1>4. \A n \in Nat : got(n) \in Seq(Entry) /\ Len(got(n)) = n
  <2>1. \A k \in Nat \ {0} : Sees(job.at + k) \in Entry
    BY <1>1, <1>2, SeesEntry
  <2> QED BY <2>1
<1>5. zeros \in Seq(Entry) /\ Len(zeros) = want
  BY <1>3, FillersAreEntries
<1>6. \E n \in 1..want, units \in Seq(Entry) :
         /\ Take(n, units) /\ Len(units) = n
         /\ Kind[job.file] \notin InPlace => units = got(n)
  <2>1. want \in 1..want /\ 1..(want - 1) \subseteq 1..want /\ 1..want \subseteq Nat
    BY <1>3
  <2>2. CASE Take(want, got(want))
    BY <1>4, <2>1, <2>2
  <2>3. CASE Kind[job.file] \in InPlace /\ Take(want, zeros)
    BY <1>5, <2>1, <2>3
  <2>4. CASE \E n \in 1..(want - 1) : Take(n, got(n))
    BY <1>4, <2>1, <2>4
  <2> HIDE DEF want, got, zeros
  <2> QED BY <2>2, <2>3, <2>4 DEF Copy, want, got, zeros
<1>7. PICK n \in 1..want, units \in Seq(Entry) :
         /\ Take(n, units) /\ Len(units) = n
         /\ Kind[job.file] \notin InPlace => units = got(n)
  BY <1>6
<1> DEFINE out == job.out \o units
           at == job.at + (IF Kind[job.file] \in ByCluster THEN Chunk ELSE n)
           marred == job.marred \union IF n < Chunk /\ n < Remaining THEN {"short"} ELSE {}
<1>8. /\ out \in Seq(Entry) /\ Len(out) = Len(job.out) + n
      /\ \A i \in 1..Len(job.out) : out[i] = job.out[i]
      /\ \A i \in 1..n : out[Len(job.out) + i] = units[i]
  BY <1>2, <1>7
<1>9. n \in 1..Remaining /\ n <= Chunk /\ n \in Nat
  BY <1>3, <1>7, SizeAssumption
<1>10. at \in Nat
  BY <1>2, <1>9, SizeAssumption
<1>11. /\ marred \in SUBSET {"guessed", "short"} /\ job.marred \subseteq marred
       /\ "guessed" \in marred => "guessed" \in job.marred
       /\ n < Chunk /\ n < Remaining => "short" \in marred
  BY <1>1 DEF Job
<1>12. Kind[job.file] \notin InPlace => \A i \in 1..n : out[Len(job.out) + i] = Sees(job.at + i)
  BY <1>7, <1>8
<1>13. job' = [job EXCEPT !.out = out, !.at = at, !.marred = marred]
  BY <1>7 DEF Take
<1> HIDE DEF want, got, zeros, out, at, marred
<1>14. /\ job' \in Job /\ job'.file = job.file /\ job'.path = job.path
       /\ job'.layout = job.layout /\ job'.out = out /\ job'.at = at /\ job'.marred = marred
  BY <1>1, <1>8, <1>10, <1>11, <1>13 DEF Job, Data
<1>15. CopyStep(n)
  BY <1>8, <1>9, <1>11, <1>12, <1>14 DEF CopyStep, at
<1>16. UNCHANGED <<pc, todo, records, seen, fs, kept, device>>
  BY DEF Copy, caller
<1> QED BY <1>1, <1>9, <1>15, <1>16

-----------------------------------------------------------------------------
(* The files of the output directory.                                        *)

(* The path and the content of the file being written.                       *)
LEMMA JobIs ==
  ASSUME Typed, pc = "copy"
  PROVE  /\ job \in Job /\ job.path \in Path /\ job.out \in Data /\ job.file \in FileID
         /\ Tmp(job.path) \in Path /\ Tmp(job.path).tmps # 0 /\ Tmp(job.path) # job.path
         /\ job.out \in Seq(Entry) /\ Len(job.out) <= Size /\ job.file = Now /\ todo # <<>>
<1>1. job \in Job
  BY DEF Typed, TypedJob
<1>2. job.path \in Path /\ job.out \in Data /\ job.file \in FileID
  BY <1>1 DEF Job
<1>3. Tmp(job.path) \in Path /\ Tmp(job.path).tmps # 0 /\ Tmp(job.path) # job.path
  BY <1>2, TmpIs
<1> QED BY <1>1, <1>2, <1>3 DEF Typed, TypedJob, Data

(* What a step does to the directory, to the reported files and to the       *)
(* hashes.                                                                   *)
LEMMA DirectoryStays ==
  ASSUME Typed, [Next]_vars
  PROVE  Directory'
<1>1. Directory
  BY DEF Typed, TypedFiles
<1>2. CASE UNCHANGED fs
  BY <1>1, <1>2 DEF Directory
<1>3. ASSUME NEW path, Mended(path) PROVE Directory'
  <2>1. path \in Path
    BY <1>1, <1>3, NowIs, OutputPathIsFree DEF Mended, Directory
  <2> QED BY <1>1, <1>3, <2>1, PlacedFits, FillersAreEntries DEF Mended, Put
<1>4. ASSUME NEW verdict, Begun(verdict) PROVE Directory'
  <2> DEFINE path == IF Kind[Now] \in InPlace THEN job'.path ELSE Tmp(job'.path)
  <2>1. path \in Path
    BY <1>4, BegunIs, TmpIs
  <2>2. Put(path, <<>>) /\ <<>> \in Data
    BY <1>4, BegunIs DEF Data
  <2> HIDE DEF path
  <2> QED BY <1>1, <2>1, <2>2, PlacedFits DEF Put
<1>5. ASSUME NEW gone, NEW data, NEW q, Undone(gone, data, q) PROVE Directory'
  <2>1. fs' = Without(gone) \/ (q \in Path /\ data \in Data /\ fs' = Placed(q, data, gone))
    BY <1>5 DEF Undone
  <2> QED BY <1>1, <2>1, PlacedFits, WithoutFits
<1>6. ASSUME NEW path, NEW data, NEW steady, NEW marred, Delivered(path, data, steady, marred)
      PROVE  Directory'
  <2>1. path \in Path /\ data \in Data /\ fs' = Placed(path, data, {Tmp(path)})
    BY <1>6 DEF Delivered, Placing
  <2> QED BY <1>1, <2>1, PlacedFits
<1>7. ASSUME pc = "copy", CommitInPlace PROVE Directory'
  <2>1. job.path \in Path /\ job.out \in Data
    BY <1>7, JobIs
  <2> QED BY <1>1, <1>7, <2>1, PlacedFits DEF CommitInPlace, Put
<1> QED BY <1>2, <1>3, <1>4, <1>5, <1>6, <1>7, StepIs
        DEF Elsewhere, Ending, Select, Passed, Copy, CommitIs

(* A file that is not a temporary one and not the one being written stays.   *)
Stays(q) == q \in DOMAIN fs' /\ fs'[q] = fs[q]
LEMMA OthersStay ==
  ASSUME NEW path, NEW content, NEW gone, fs' = Placed(path, content, gone) \/ fs' = Without(gone),
         NEW q \in DOMAIN fs, q \notin gone, q # path
  PROVE  Stays(q)
<1>1. CASE fs' = Placed(path, content, gone)
  BY <1>1 DEF Placed, Stays
<1>2. CASE fs' = Without(gone)
  BY <1>2 DEF Without, Stays
<1> QED BY <1>1, <1>2

LEMMA FilesStay ==
  ASSUME Typed, [Next]_vars, NEW q \in DOMAIN fs, q.tmps = 0, pc = "copy" => q # job.path
  PROVE  Stays(q)
<1>1. CASE UNCHANGED fs
  BY <1>1 DEF Stays
<1>2. ASSUME NEW path, Mended(path) PROVE Stays(q)
  <2>1. path \notin DOMAIN fs
    BY <1>2, NowIs, OutputPathIsFree DEF Mended, Typed, TypedFiles, Directory
  <2>2. fs' = Placed(path, Repaired, {})
    BY <1>2 DEF Mended, Put
  <2>3. q \notin {} /\ q # path
    BY <2>1
  <2> QED BY <2>2, <2>3, OthersStay
<1>3. ASSUME NEW verdict, Begun(verdict) PROVE Stays(q)
  <2> DEFINE path == IF Kind[Now] \in InPlace THEN job'.path ELSE Tmp(job'.path)
  <2>1. path # q
    <3>1. job'.path \in Path \ DOMAIN fs
      BY <1>3, BegunIs
    <3>2. Tmp(job'.path).tmps # 0
      BY <3>1, TmpIs
    <3> QED BY <3>1, <3>2
  <2>2. Put(path, <<>>)
    BY <1>3, BegunIs
  <2> HIDE DEF path
  <2> QED BY <2>1, <2>2, OthersStay DEF Put
<1>4. ASSUME NEW gone, NEW data, NEW path, Undone(gone, data, path) PROVE Stays(q)
  <2>1. fs' = Without(gone) \/ fs' = Placed(path, data, gone)
    BY <1>4 DEF Undone
  <2>2. q \notin gone /\ path # q
    BY <1>4 DEF Undone
  <2> QED BY <2>1, <2>2, OthersStay
<1>5. ASSUME NEW path, NEW data, NEW steady, NEW marred, Delivered(path, data, steady, marred)
      PROVE  Stays(q)
  <2>1. Placing(path) /\ fs' = Placed(path, data, {Tmp(path)})
    BY <1>5 DEF Delivered
  <2>2. q # path /\ q \notin {Tmp(path)}
    BY <2>1, PlacingIs
  <2> QED BY <2>1, <2>2, OthersStay
<1>6. ASSUME pc = "copy", CommitInPlace PROVE Stays(q)
  <2>1. q # job.path /\ q \notin {} /\ fs' = Placed(job.path, job.out, {})
    BY <1>6 DEF CommitInPlace, Put
  <2> QED BY <2>1, OthersStay
<1> QED BY <1>1, <1>2, <1>3, <1>4, <1>5, <1>6, StepIs
        DEF Elsewhere, Ending, Select, Passed, Copy, CommitIs

-----------------------------------------------------------------------------
(* What a step adds: to the selected files, to the reported files, to the    *)
(* hashes and to the records.                                                *)

Popped == todo # <<>> /\ \A i \in DOMAIN todo' : i + 1 \in DOMAIN todo /\ todo'[i] = todo[i + 1]

LEMMA TodoIs ==
  ASSUME Typed, [Next]_vars
  PROVE  todo' \in Seq(Selected) /\ (todo' = todo \/ todo' = <<>> \/ Popped \/ Select)
<1>1. todo \in Seq(Selected) /\ <<>> \in Seq(Selected)
  BY DEF Typed, TypedFiles
<1>2. ASSUME NEW state \in States, NEW path \in Path \cup {NoPath}, NEW of \in Path \cup {NoPath},
             todo # <<>>, Record(state, path, of)
      PROVE  todo' \in Seq(Selected) /\ Popped
  BY <1>2, RecordIs DEF Popped
<1>3. CASE Passed
  <2>1. PICK state \in {"skipped", "failed"} : Record(state, NoPath, NoPath)
    BY <1>3 DEF Passed
  <2> QED BY <1>2, <1>3, <2>1 DEF Passed, States
<1>4. ASSUME NEW path, Mended(path) PROVE todo' \in Seq(Selected) /\ Popped
  <2>1. path \in Path
    BY <1>4, NowIs, OutputPathIsFree DEF Mended, Typed, TypedFiles, Directory
  <2> QED BY <1>2, <1>4, <2>1 DEF Mended, States
<1>5. CASE Select
  <2>1. PICK s \in Order(Chosen) :
           todo' = [i \in DOMAIN s |-> [file |-> s[i], drive |-> scan.drive]]
    BY <1>5 DEF Select
  <2>2. scan.drive \in Drive /\ Chosen \subseteq FileID
    BY <1>5 DEF Select, Typed, TypedTask, Early, Chosen
  <2>3. Cardinality(Chosen) \in Nat
    BY <2>2, FilesAssumption, FS_Subset, FS_CardinalityType
  <2>4. s \in [1..Cardinality(Chosen) -> Chosen]
    BY <2>1 DEF Order, SetToSeqs
  <2> DEFINE size == Cardinality(Chosen)
             t == [i \in 1..size |-> [file |-> s[i], drive |-> scan.drive]]
  <2>5. todo' = t
    BY <2>1, <2>4
  <2>6. \A i \in 1..size : t[i] \in Selected
    BY <2>2, <2>4 DEF Selected
  <2> HIDE DEF t
  <2>7. t \in Seq(Selected)
    <3>1. t \in [1..size -> Selected]
      BY <2>6 DEF t
    <3> HIDE DEF size
    <3> QED BY <2>3, <3>1 DEF size
  <2> QED BY <1>5, <2>5, <2>7
<1>6. ASSUME NEW gone, NEW data, NEW q, Undone(gone, data, q) PROVE todo' \in Seq(Selected) /\ Popped
  <2>1. PICK state \in {"failed", "skipped"}, of \in {NoPath} \cup {s.path : s \in seen} :
          Record(state, NoPath, of)
    BY <1>6 DEF Undone
  <2>2. of \in Path \cup {NoPath}
    BY DEF Typed, TypedFiles
  <2>3. state \in States /\ todo # <<>>
    BY <1>6 DEF States, Undone
  <2> QED BY <1>2, <2>1, <2>2, <2>3
<1>7. ASSUME pc = "copy", CommitInPlace PROVE todo' \in Seq(Selected) /\ Popped
  BY <1>2, <1>7, JobIs DEF CommitInPlace, States
<1>8. ASSUME NEW path, NEW data, NEW steady, NEW marred, Delivered(path, data, steady, marred)
      PROVE  todo' \in Seq(Selected) /\ Popped
  <2>1. path \in Path /\ todo # <<>> /\ Record("success", path, NoPath)
    BY <1>8 DEF Delivered, Placing
  <2> QED BY <1>2, <2>1 DEF States
<1> QED BY <1>1, <1>3, <1>4, <1>5, <1>6, <1>7, <1>8, StepIs, BegunIs, CopyIs
        DEF Elsewhere, Ending, CommitIs

(* A file reported now is the one that has just been written, or has just    *)
(* been put together in memory.                                              *)
JustCopied(k) ==
  /\ pc = "copy" /\ k.file = job.file /\ k.path = job.path /\ k.drive = Head(todo).drive
  /\ k.steady = Steady /\ k.marred = job.marred
  /\ fs'[job.path] = job.out
  /\ Kind[job.file] \in InPlace \/ Len(job.out) = Size

JustAssembled(k) ==
  /\ pc = "next" /\ Kind[k.file] = "ntfs"
  /\ k.steady /\ "unit" \notin k.marred => fs'[k.path] = Whole(k.drive, k.file)

JustKept(k) ==
  /\ pc' = "next" /\ k.path \in DOMAIN fs'
  /\ JustCopied(k) \/ JustAssembled(k)

LEMMA KeptIs ==
  ASSUME Typed, [Next]_vars, NEW k \in kept'
  PROVE  k \in kept \/ (k.file \in FileID /\ k.path \in Path /\ (Lasting(k) => JustKept(k)))
<1>1. CASE UNCHANGED kept
  BY <1>1
<1>2. ASSUME NEW path, Mended(path)
      PROVE  k \in kept \/ (k.file \in FileID /\ k.path \in Path /\ ~ Lasting(k))
  <2>1. Now \in FileID /\ path \in Path
    BY <1>2, NowIs, OutputPathIsFree DEF Mended, Typed, TypedFiles, Directory
  <2>2. Keep("partial", path, TRUE, {})
    BY <1>2 DEF Mended
  <2>3. k \in kept \/ (k.file = Now /\ k.path = path /\ k.state = "partial")
    BY <2>2 DEF Keep
  <2> QED BY <2>1, <2>3 DEF Lasting
<1>3. ASSUME pc = "copy", CommitInPlace, Kind[job.file] \in InPlace
      PROVE  k \in kept \/ (k.file \in FileID /\ k.path \in Path /\ JustKept(k))
  <2>1. /\ pc' = "next" /\ Keep("success", job.path, Steady, job.marred)
        /\ fs' = Placed(job.path, job.out, {})
    BY <1>3, Zenon DEF CommitInPlace, Put, Record
  <2>2. k \in kept \/ /\ k.file = Now /\ k.path = job.path /\ k.drive = Head(todo).drive
                      /\ k.steady = Steady /\ k.marred = job.marred
    BY <2>1 DEF Keep
  <2>3. job.file = Now /\ job.file \in FileID /\ job.path \in Path
    BY <1>3, JobIs
  <2>4. job.path \in DOMAIN fs' /\ fs'[job.path] = job.out
    BY <2>1, Zenon DEF Placed
  <2>5. ASSUME k \notin kept PROVE k.file \in FileID /\ k.path \in Path /\ JustKept(k)
    <3>1. k.file = job.file /\ k.path = job.path /\ k.drive = Head(todo).drive
          /\ k.steady = Steady /\ k.marred = job.marred
      BY <2>2, <2>3, <2>5, Zenon
    <3>2. JustCopied(k)
      BY <1>3, <2>4, <3>1, Zenon DEF JustCopied
    <3>3. k.file \in FileID /\ k.path \in Path /\ k.path \in DOMAIN fs'
      BY <2>3, <2>4, <3>1
    <3> QED BY <2>1, <3>2, <3>3, Zenon DEF JustKept
  <2> QED BY <2>5
<1>4. ASSUME NEW gone, NEW data, NEW q, Undone(gone, data, q)
      PROVE  k \in kept \/ (k.file \in FileID /\ k.path \in Path /\ ~ Lasting(k))
  <2>1. CASE UNCHANGED kept
    BY <2>1
  <2>2. CASE q \in Path /\ Keep("left", q, FALSE, {})
    <3>1. k \in kept \/ (k.file = Now /\ k.path = q /\ k.state = "left")
      BY <2>2 DEF Keep
    <3>2. Now \in FileID
      BY <1>4, NowIs DEF Undone
    <3> QED BY <2>2, <3>1, <3>2 DEF Lasting
  <2> QED BY <1>4, <2>1, <2>2 DEF Undone
<1>5. ASSUME NEW path, NEW data, NEW steady, NEW marred, Delivered(path, data, steady, marred)
      PROVE  k \in kept \/ (k.file \in FileID /\ k.path \in Path /\ JustKept(k))
  <2>1. k \in kept \/ /\ k.file = Now /\ k.path = path /\ k.drive = Head(todo).drive
                      /\ k.steady = steady /\ k.marred = marred
    BY <1>5 DEF Delivered, Keep
  <2>2. path \in Path /\ todo # <<>> /\ pc' = "next" /\ fs' = Placed(path, data, {Tmp(path)})
    BY <1>5 DEF Delivered, Placing, Record
  <2>3. Now \in FileID
    BY <2>2, NowIs
  <2>4. path \in DOMAIN fs' /\ fs'[path] = data
    BY <2>2, Zenon DEF Placed
  <2>5. ASSUME pc = "copy", data = job.out, Remaining = 0, steady = Steady, marred = job.marred
        PROVE  k \in kept \/ JustCopied(k)
    <3>1. path = job.path
      BY <1>5, <2>5 DEF Delivered, Placing
    <3>2. job.file = Now /\ Len(job.out) \in Nat
      BY <2>5, JobIs
    <3>3. Len(job.out) = Size
      BY <2>5, <3>2, SizeAssumption DEF Remaining
    <3> QED BY <2>1, <2>4, <2>5, <3>1, <3>2, <3>3, Zenon DEF JustCopied
  <2>6. ASSUME pc = "next", Kind[Now] = "ntfs",
               steady /\ "unit" \notin marred => data = Whole(Head(todo).drive, Now)
        PROVE  k \in kept \/ JustAssembled(k)
    BY <2>1, <2>4, <2>6, Zenon DEF JustAssembled
  <2>7. k \in kept \/ JustCopied(k) \/ JustAssembled(k)
    BY <1>5, <2>5, <2>6, Zenon DEF Delivered
  <2>8. ASSUME k \notin kept PROVE k.file \in FileID /\ k.path \in Path /\ JustKept(k)
    <3>1. k.file = Now /\ k.path = path
      BY <2>1, <2>8, Zenon
    <3>2. k.file \in FileID /\ k.path \in Path /\ k.path \in DOMAIN fs'
      BY <2>2, <2>3, <2>4, <3>1
    <3> QED BY <2>2, <2>7, <2>8, <3>2, Zenon DEF JustKept
  <2> QED BY <2>8
<1> QED BY <1>1, <1>2, <1>3, <1>4, <1>5, StepIs, BegunIs, CopyIs
        DEF Elsewhere, Ending, Select, Passed, CommitIs

LEMMA KeptStays ==
  ASSUME Typed, [Next]_vars
  PROVE  kept \subseteq kept'
<1>1. CASE Elsewhere \/ Ending \/ Select \/ Passed
  BY <1>1 DEF Elsewhere, Ending, Select, Passed
<1>2. ASSUME NEW path, Mended(path) PROVE kept \subseteq kept'
  BY <1>2, Zenon DEF Mended, Keep
<1>3. CASE CommitInPlace
  BY <1>3, Zenon DEF CommitInPlace, Keep
<1>4. ASSUME NEW gone, NEW data, NEW q, Undone(gone, data, q) PROVE kept \subseteq kept'
  BY <1>4, Zenon DEF Undone, Keep
<1>5. ASSUME NEW path, NEW data, NEW steady, NEW marred, Delivered(path, data, steady, marred)
      PROVE  kept \subseteq kept'
  BY <1>5, Zenon DEF Delivered, Keep
<1> QED BY <1>1, <1>2, <1>3, <1>4, <1>5, StepIs, BegunIs, CopyIs DEF CommitIs

(* The step that has just hashed the file at path: nothing of this recovery  *)
(* had its content.                                                          *)
JustHashed(path, data) ==
  /\ Placing(path) /\ data \in Data /\ pc' = "next" /\ todo' = Tail(todo)
  /\ seen' = seen \cup {[hash |-> data, path |-> path]}
  /\ \A s \in seen : s.hash # data
  /\ fs'[path] = data /\ \E k \in kept' : k.path = path /\ k.state = "success"

LEMMA DeliveredIsHashed ==
  ASSUME NEW path, NEW data, NEW steady, NEW marred, Delivered(path, data, steady, marred)
  PROVE  JustHashed(path, data)
<1>1. fs' = Placed(path, data, {Tmp(path)}) /\ Record("success", path, NoPath)
  BY DEF Delivered
<1>2. fs'[path] = data
  BY <1>1, PlacedIs
<1>3. \E k \in kept' : k.path = path /\ k.state = "success"
  <2> DEFINE new == [file |-> Now, state |-> "success", path |-> path,
                     drive |-> Head(todo).drive, steady |-> steady, marred |-> marred]
  <2>1. new.path = path /\ new.state = "success"
    OBVIOUS
  <2>2. new \in kept'
    BY Zenon DEF Delivered, Keep
  <2> HIDE DEF new
  <2> QED BY <2>1, <2>2
<1>4. pc' = "next" /\ todo' = Tail(todo)
  BY <1>1 DEF Record
<1> QED BY <1>2, <1>3, <1>4, Zenon DEF JustHashed, Delivered

LEMMA SeenIs ==
  ASSUME Typed, [Next]_vars
  PROVE  \/ seen' = seen \/ (seen' = {} /\ records' = <<>>)
         \/ \E path, data : JustHashed(path, data)
<1>1. CASE Elsewhere \/ Ending \/ Select \/ Passed
  BY <1>1 DEF Elsewhere, Ending, Select, Passed
<1>2. ASSUME NEW path, Mended(path) PROVE seen' = seen
  BY <1>2 DEF Mended
<1>3. CASE CommitIs(Kind[job.file] \in InPlace /\ CommitInPlace)
  BY <1>3 DEF CommitIs, CommitInPlace
<1>4. ASSUME NEW gone, NEW data, NEW q, Undone(gone, data, q) PROVE seen' = seen
  BY <1>4 DEF Undone
<1> QED BY <1>1, <1>2, <1>3, <1>4, DeliveredIsHashed, StepIs, BegunIs, CopyIs

(* The last record, when a step adds one.                                    *)
NewRecord(state, path, of) ==
  /\ state \in States /\ path \in Path \cup {NoPath} /\ of \in Path \cup {NoPath}
  /\ todo # <<>> /\ pc \in {"next", "copy"} /\ Record(state, path, of)
  /\ of = NoPath \/ \E s \in seen : of = s.path
  /\ state = "success" => Kind[Now] \in InPlace \/ \E data : JustHashed(path, data)

LEMMA RecordsAre ==
  ASSUME Typed, [Next]_vars
  PROVE  \/ records' = records
         \/ records' = <<>> /\ pc' = "idle"
         \/ \E state, path, of : NewRecord(state, path, of)
<1>1. CASE Elsewhere \/ Ending \/ Select
  BY <1>1 DEF Elsewhere, Ending, Select
<1>2. CASE Passed
  <2>1. PICK state \in {"skipped", "failed"} : Record(state, NoPath, NoPath)
    BY <1>2 DEF Passed
  <2>2. NewRecord(state, NoPath, NoPath)
    BY <1>2, <2>1 DEF NewRecord, States, Passed
  <2> QED BY <2>2
<1>3. ASSUME NEW path, Mended(path) PROVE NewRecord("partial", path, NoPath)
  <2>1. path \in Path
    BY <1>3, NowIs, OutputPathIsFree DEF Mended, Typed, TypedFiles, Directory
  <2> QED BY <1>3, <2>1 DEF Mended, NewRecord, States
<1>4. ASSUME NEW gone, NEW data, NEW q, Undone(gone, data, q)
      PROVE  \E state, path, of : NewRecord(state, path, of)
  <2>1. PICK state \in {"failed", "skipped"}, of \in {NoPath} \cup {s.path : s \in seen} :
          Record(state, NoPath, of)
    BY <1>4 DEF Undone
  <2>2. of \in Path \cup {NoPath} /\ (of = NoPath \/ \E s \in seen : of = s.path)
    BY DEF Typed, TypedFiles
  <2>3. pc \in {"next", "copy"} /\ todo # <<>>
    BY <1>4 DEF Undone
  <2>4. NewRecord(state, NoPath, of)
    BY <2>1, <2>2, <2>3 DEF NewRecord, States
  <2> QED BY <2>4
<1>5. CASE CommitIs(Kind[job.file] \in InPlace /\ CommitInPlace)
  <2>1. NewRecord("success", job.path, NoPath)
    BY <1>5, JobIs DEF CommitIs, CommitInPlace, NewRecord, States
  <2> QED BY <2>1
<1>6. ASSUME NEW path, NEW data, NEW steady, NEW marred, Delivered(path, data, steady, marred)
      PROVE  NewRecord("success", path, NoPath)
  <2>1. path \in Path /\ todo # <<>> /\ pc \in {"next", "copy"} /\ Record("success", path, NoPath)
    BY <1>6 DEF Delivered, Placing
  <2> QED BY <1>6, <2>1, DeliveredIsHashed DEF NewRecord, States
<1> QED BY <1>1, <1>2, <1>3, <1>4, <1>5, <1>6, StepIs, BegunIs, CopyIs

-----------------------------------------------------------------------------
(* The inductive invariant.                                                  *)

IInv == /\ Typed /\ Standing /\ Exact /\ Named /\ Accounted /\ NtfsAhead /\ Remembered
        /\ Stopped /\ RunsAreWhole /\ ClustersAreWhole /\ OneCopyOfEach

LEMMA InitIsSound == Init => IInv
<1> SUFFICES ASSUME Init PROVE IInv
  OBVIOUS
<1>1. TypedTask
  <2>1. 0 \in 0..MaxScans /\ 0 \in 0..MaxFaults /\ stopAt \in Int
    BY BoundsAssumption DEF Init
  <2>2. scan \in [drive : Drive \cup {NoDrive}, open : BOOLEAN] /\ last \in Seq(Rec)
    BY DEF Init
  <2> QED BY <2>1, <2>2 DEF Init, TypedTask, Early
<1>2. DOMAIN fs = {}
  BY DEF Init
<1>3. Directory
  BY <1>2, FS_EmptySet DEF Directory, Init
<1>4. TypedFiles
  BY <1>3 DEF Init, TypedFiles
<1>5. TypedJob
  BY DEF Init, TypedJob
<1>6. Standing /\ Exact /\ Named /\ Accounted /\ RunsAreWhole /\ ClustersAreWhole /\ Stopped
  BY <1>2 DEF Init, Standing, Exact, Named, Accounted, RunsAreWhole, ClustersAreWhole, Stopped
<1>7. records = <<>> /\ todo = <<>>
  BY DEF Init
<1>8. NtfsAhead /\ Recovered = {} /\ DOMAIN records = {}
  BY <1>7 DEF NtfsAhead, Recovered
<1> QED BY <1>1, <1>4, <1>5, <1>6, <1>8 DEF IInv, Typed, Remembered, OneCopyOfEach

(* The steps of the goroutine that only deal with the files.                 *)
Working ==
  /\ UNCHANGED <<scan, found, scans, recovering, canceller, cancelled, device, ids, last, stopAt>>
  /\ pc # "idle" /\ pc' \in Early \cup {"next", "copy", "hung"} /\ pc' # "idle"
  /\ faults' = faults \/ (faults < MaxFaults /\ faults' = faults + 1)

LEMMA WorkIs ==
  ASSUME NextFile \/ Open \/ Select \/ Copy \/ CopyFails \/ Commit \/ Hangs
  PROVE  Working
<1> USE DEF Working, engine, caller, Early
<1>1. ASSUME NEW gone, NEW data, NEW places, Fails(gone, data, places)
      PROVE  pc' = "next" /\ faults < MaxFaults /\ faults' = faults + 1
  BY <1>1 DEF Fails, Fault, Record
<1>2. ASSUME NEW path, NEW data, Removed(path, data)
      PROVE  faults' = faults \/ (faults < MaxFaults /\ faults' = faults + 1)
  BY <1>2 DEF Removed, Fault
<1>3. ASSUME NEW path, NEW data, NEW steady, NEW marred, Deliver(path, data, steady, marred)
      PROVE  /\ pc' = "next"
             /\ faults' = faults \/ (faults < MaxFaults /\ faults' = faults + 1)
  BY <1>2, <1>3, Zenon DEF Deliver, Record
<1>4. CASE Open \/ Select
  BY <1>4 DEF Open, Select
<1>5. CASE NextFile
  <2>1. pc = "next"
    BY <1>5 DEF NextFile
  <2>2. PICK verdict \in Verdicts(Now) :
        \/ SkipFile(verdict) \/ WriteRepaired \/ LoseSource \/ WriteInMemory
        \/ CannotStart(verdict) \/ StartCopy(verdict)
    BY <1>5 DEF NextFile
  <2>3. CASE SkipFile(verdict) \/ LoseSource \/ StartCopy(verdict)
    BY <2>1, <2>3 DEF SkipFile, LoseSource, StartCopy, Record
  <2>4. CASE WriteRepaired
    BY <1>1, <2>1, <2>4 DEF WriteRepaired, Record
  <2>5. CASE WriteInMemory
    BY <1>1, <1>3, <2>1, <2>5 DEF WriteInMemory
  <2>6. CASE CannotStart(verdict)
    BY <1>1, <2>1, <2>6 DEF CannotStart
  <2> QED BY <2>2, <2>3, <2>4, <2>5, <2>6
<1>6. CASE Copy
  BY <1>6 DEF Copy, Copying
<1>7. CASE CopyFails
  BY <1>1, <1>7 DEF CopyFails
<1>8. CASE Commit
  <2>1. CASE CommitInPlace
    BY <1>8, <2>1 DEF Commit, CommitInPlace, Record
  <2>2. CASE CommitShort
    BY <1>2, <1>8, <2>2 DEF Commit, CommitShort, Record
  <2>3. CASE CommitWhole
    BY <1>3, <1>8, <2>3 DEF Commit, CommitWhole
  <2> QED BY <1>8, <2>1, <2>2, <2>3 DEF Commit
<1>9. CASE Hangs
  BY <1>9 DEF Hangs, Copying, Fault
<1> QED BY <1>4, <1>5, <1>6, <1>7, <1>8, <1>9

LEMMA TaskStays == ASSUME Typed, [Next]_vars PROVE TypedTask'
<1>0. TypedTask /\ records \in Seq(Rec)
  BY DEF Typed, TypedFiles
<1>1. ASSUME NEW d \in Drive, ScanStarts(d) PROVE TypedTask'
  BY <1>0, <1>1, BoundsAssumption DEF ScanStarts, TypedTask, caller
<1>2. ASSUME NEW batch \in Batches, ScanFinds(batch) PROVE TypedTask'
  BY <1>0, <1>2, FilesAssumption DEF ScanFinds, TypedTask, caller
<1>3. CASE ScanEnds
  BY <1>0, <1>3 DEF ScanEnds, TypedTask, caller
<1>4. ASSUME NEW wanted \in SUBSET FileID, Begin(wanted) PROVE TypedTask'
  BY <1>0, <1>4 DEF Begin, TypedTask, engine, Early
<1>5. RetryIDs \subseteq FileID
  <2>1. last \in Seq(Rec)
    BY <1>0 DEF TypedTask
  <2>2. \A i \in DOMAIN last : last[i] \in Rec
    BY <2>1
  <2>3. \A r \in Rec : r.file \in FileID
    BY DEF Rec
  <2> QED BY <2>2, <2>3, Zenon DEF RetryIDs
<1>6. CASE StopRecovery
  BY <1>0, <1>6 DEF StopRecovery, TypedTask, engine
<1>7. CASE Publish
  BY <1>0, <1>7 DEF Publish, TypedTask, engine, Early
<1>8. ASSUME Return, UNCHANGED engine, last' \in {last, records},
             faults' = faults \/ (faults < MaxFaults /\ faults' = faults + 1)
      PROVE  TypedTask'
  <2>1. faults' \in 0..MaxFaults /\ stopAt' \in Int
    BY <1>0, <1>8, BoundsAssumption DEF Return, TypedTask
  <2>2. last' \in Seq(Rec) /\ ids' \subseteq FileID /\ UNCHANGED <<scan, found, scans>>
    BY <1>0, <1>8 DEF Return, TypedTask, engine
  <2>3. /\ {recovering', canceller', cancelled'} \subseteq BOOLEAN
        /\ pc' = "idle" /\ ~ recovering' /\ ~ canceller'
    BY <1>8 DEF Return
  <2> QED BY <1>0, <2>1, <2>2, <2>3 DEF TypedTask, Early
<1>9. CASE OpenFails \/ SelectNothing \/ Finish
  BY <1>8, <1>9 DEF OpenFails, SelectNothing, Finish
<1>10. CASE Working
  BY <1>0, <1>10, BoundsAssumption DEF Working, TypedTask
<1>11. CASE UNCHANGED vars
  BY <1>0, <1>11 DEF vars, TypedTask
<1>12. CASE User
  BY <1>4, <1>5, <1>6, <1>12, FilesAssumption DEF User, StartRecovery, RetryFailed
<1>13. CASE Scan
  BY <1>1, <1>2, <1>3, <1>13 DEF Scan
<1> QED BY <1>7, <1>9, <1>10, <1>11, <1>12, <1>13, WorkIs DEF Next, Goroutine

LEMMA FilesStayTyped == ASSUME Typed, [Next]_vars PROVE TypedFiles'
<1>1. todo' \in Seq(Selected) /\ Directory'
  BY TodoIs, DirectoryStays
<1>2. records' \in Seq(Rec)
  <2>1. ASSUME NEW state, NEW path, NEW of, NewRecord(state, path, of) PROVE records' \in Seq(Rec)
    BY <2>1, RecordIs DEF NewRecord
  <2>2. records \in Seq(Rec) /\ <<>> \in Seq(Rec)
    BY DEF Typed, TypedFiles
  <2> QED BY <2>1, <2>2, RecordsAre, Zenon
<1>3. seen' \subseteq [hash : Data, path : Path]
  <2>1. ASSUME NEW path, NEW data, JustHashed(path, data)
        PROVE  seen' \subseteq [hash : Data, path : Path]
    <3>1. [hash |-> data, path |-> path] \in [hash : Data, path : Path]
      BY <2>1 DEF JustHashed, Placing
    <3> QED BY <2>1, <3>1 DEF JustHashed, Typed, TypedFiles
  <2> QED BY <2>1, SeenIs DEF Typed, TypedFiles
<1>4. \A k \in kept' : k.file \in FileID /\ k.path \in Path
  BY KeptIs DEF Typed, TypedFiles
<1> QED BY <1>1, <1>2, <1>3, <1>4 DEF TypedFiles

LEMMA JobStaysTyped == ASSUME Typed, [Next]_vars PROVE TypedJob'
<1>0. \A o \in Job : o # NoJob
  <2>1. \A o \in Job : "path" \in DOMAIN o
    BY DEF Job
  <2>2. "path" \notin DOMAIN NoJob
    BY DEF NoJob
  <2> QED BY <2>1, <2>2
<1>1. CASE Elsewhere \/ Ending
  <2>1. CASE Ending
    BY <2>1 DEF Ending, TypedJob, Early
  <2>2. CASE Elsewhere
    <3>1. UNCHANGED <<todo, job, records, seen>> /\ TypedJob
      BY <2>2 DEF Elsewhere, Typed
    <3>2. \/ pc' = pc \/ {pc, pc'} \subseteq Early
          \/ pc' = "hung" /\ pc \in {"next", "copy"}
      BY <2>2 DEF Elsewhere
    <3> QED BY <3>1, <3>2 DEF TypedJob, Early, Now
  <2> QED BY <1>1, <2>1, <2>2
<1>2. CASE Select
  <2>1. job = NoJob
    BY <1>2 DEF Select, Typed, TypedJob, Early
  <2> QED BY <1>2, <2>1 DEF Select, TypedJob, Early
<1>3. ASSUME NEW state, NEW path, NEW of, Record(state, path, of) PROVE TypedJob'
  BY <1>3 DEF Record, TypedJob, Early
<1>4. ASSUME NEW verdict, Begun(verdict) PROVE TypedJob'
  <2>1. /\ pc' = "copy" /\ job' \in Job /\ todo' = todo /\ todo # <<>> /\ job'.file = Now
        /\ job'.out = <<>>
    BY <1>4, BegunIs DEF Begun
  <2>2. Len(job'.out) <= Size /\ job' # NoJob
    BY <1>0, <2>1, SizeAssumption
  <2> QED BY <2>1, <2>2 DEF TypedJob, Early, Now
<1>5. CASE Copy
  <2>1. PICK n \in Nat : CopyStep(n)
    BY <1>5, CopyIs
  <2>2. pc = "copy" /\ UNCHANGED <<pc, todo>>
    BY <1>5, CopyIs
  <2>3. Len(job.out) \in Nat /\ job.file = Now /\ todo # <<>>
    BY <2>2, JobIs
  <2>4. job' \in Job /\ job'.file = job.file /\ Len(job'.out) <= Size
    BY <2>1, <2>3, SizeAssumption DEF CopyStep, Remaining
  <2> QED BY <1>0, <2>2, <2>3, <2>4 DEF TypedJob, Early, Now
<1>6. ASSUME NEW gone, NEW data, NEW q, Undone(gone, data, q) PROVE TypedJob'
  BY <1>3, <1>6 DEF Undone
<1>7. ASSUME NEW path, NEW data, NEW steady, NEW marred, Delivered(path, data, steady, marred)
      PROVE  TypedJob'
  BY <1>3, <1>7 DEF Delivered
<1>8. CASE Passed \/ CommitInPlace \/ \E path : Mended(path)
  BY <1>3, <1>8 DEF Passed, CommitInPlace, Mended
<1> QED BY <1>1, <1>2, <1>4, <1>5, <1>6, <1>7, <1>8, StepIs DEF CommitIs

(* While a file is being written a step has begun it, or has written more of *)
(* it, or has nothing to do with it.                                         *)
LEMMA InCopy ==
  ASSUME Typed, [Next]_vars, pc' = "copy"
  PROVE  \/ \E verdict : Begun(verdict)
         \/ /\ pc = "copy" /\ UNCHANGED <<todo, device>>
            /\ job' = job \/ \E n \in Nat : CopyStep(n)
<1>1. CASE Elsewhere
  BY <1>1 DEF Elsewhere, Early
<1>2. CASE Copy
  BY <1>2, CopyIs
<1>3. ASSUME NEW state, NEW path, NEW of, Record(state, path, of) PROVE FALSE
  BY <1>3 DEF Record
<1>4. ~ (Ending \/ Select \/ Passed \/ (\E path : Mended(path)) \/ CommitInPlace)
  BY <1>3 DEF Ending, Select, Passed, Mended, CommitInPlace
<1>5. ASSUME NEW gone, NEW data, NEW q, Undone(gone, data, q) PROVE FALSE
  BY <1>3, <1>5 DEF Undone
<1>6. ASSUME NEW path, NEW data, NEW steady, NEW marred, Delivered(path, data, steady, marred)
      PROVE  FALSE
  BY <1>3, <1>6 DEF Delivered
<1> QED BY <1>1, <1>2, <1>4, <1>5, <1>6, StepIs DEF CommitIs

(* A reported file stands, and is never the one being written.               *)
LEMMA StandingStays == ASSUME IInv, [Next]_vars PROVE Standing'
<1>0. Typed /\ Standing
  BY DEF IInv
<1>1. SUFFICES ASSUME NEW k \in kept', Lasting(k)
               PROVE  k.path \in DOMAIN fs' /\ (pc' = "copy" => job'.path # k.path)
  BY DEF Standing, Lasting
<1>2. k \in kept \/ JustKept(k)
  BY <1>0, <1>1, KeptIs
<1>3. CASE JustKept(k)
  BY <1>3 DEF JustKept
<1>4. CASE k \in kept
  <2>1. k.path \in DOMAIN fs /\ (pc = "copy" => job.path # k.path) /\ k.path.tmps = 0
    BY <1>0, <1>1, <1>4 DEF Standing, Lasting
  <2>2. k.path \in DOMAIN fs'
    BY <1>0, <2>1, FilesStay DEF Stays
  <2>3. ASSUME pc' = "copy" PROVE job'.path # k.path
    <3>1. CASE pc = "copy" /\ job'.path = job.path
      BY <2>1, <3>1
    <3>2. ASSUME NEW verdict, Begun(verdict) PROVE job'.path # k.path
      BY <1>0, <2>1, <3>2, BegunIs
    <3> QED BY <1>0, <2>3, <3>1, <3>2, InCopy DEF CopyStep
  <2> QED BY <2>2, <2>3
<1> QED BY <1>2, <1>3, <1>4

(* The output path keeps the name and the directory that were chosen.        *)
LEMMA NamedStays == ASSUME IInv, [Next]_vars PROVE Named'
<1>0. Typed /\ Named
  BY DEF IInv
<1>1. SUFFICES ASSUME pc' = "copy" PROVE Named'
  BY DEF Named
<1>2. ASSUME NEW verdict, Begun(verdict) PROVE Named'
  BY <1>0, <1>2, BegunIs DEF Named
<1>3. CASE pc = "copy" /\ job' = job
  BY <1>0, <1>3 DEF Named
<1>4. ASSUME pc = "copy", NEW n \in Nat, CopyStep(n) PROVE Named'
  BY <1>0, <1>4 DEF Named, CopyStep
<1> QED BY <1>0, <1>1, <1>2, <1>3, <1>4, InCopy

(* What is written stays a prefix of the file: the units a read returns are  *)
(* those behind it, because the read was made where it ends.                 *)
LEMMA ExactStays == ASSUME IInv, [Next]_vars PROVE Exact'
<1>0. Typed /\ Exact
  BY DEF IInv
<1>1. SUFFICES ASSUME pc' = "copy" PROVE Exact'
  BY DEF Exact
<1>2. ASSUME NEW verdict, Begun(verdict) PROVE Exact'
  <2>1. job'.at = 0 /\ job'.out = <<>> /\ ("guessed" \in job'.marred => Kind[job'.file] = "fat")
    BY <1>0, <1>2, BegunIs
  <2>2. Len(job'.out) = 0
    BY <2>1
  <2> QED BY <2>1, <2>2 DEF Exact
<1>3. CASE pc = "copy" /\ job' = job /\ UNCHANGED <<todo, device>>
  <2>1. pc' = pc
    BY <1>1, <1>3
  <2> QED BY <1>0, <1>3, <2>1 DEF Exact, Steady, Trusted
<1>4. ASSUME pc = "copy", UNCHANGED <<todo, device>>, NEW n \in Nat, CopyStep(n) PROVE Exact'
  <2>1. "guessed" \in job'.marred => Kind[job'.file] = "fat"
    BY <1>0, <1>4 DEF Exact, CopyStep
  <2>2. ASSUME Steady', Trusted'
        PROVE  /\ job'.at = Len(job'.out) \/ Len(job'.out) = Size
               /\ \A i \in 1..Len(job'.out) : job'.out[i] = Unit(device', job'.file, i)
    <3>1. Steady /\ job'.file = job.file /\ job.file \in FileID /\ Kind[job.file] \in Kinds
      BY <1>0, <1>4, <2>2, JobIs, KindAssumption DEF CopyStep, Steady
    <3>2. Trusted /\ Kind[job.file] \notin InPlace
      BY <1>4, <2>2, <3>1 DEF CopyStep, Trusted, ByCluster, ByOffset, InPlace, Kinds
    <3>3. job.at = Len(job.out) \/ Len(job.out) = Size
      BY <1>0, <1>4, <3>1, <3>2 DEF Exact
    <3>4. Len(job.out) \in Nat /\ Len(job.out) < Size /\ Len(job'.out) = Len(job.out) + n /\ n > 0
          /\ n <= Chunk /\ n <= Remaining
      BY <1>0, <1>4, JobIs, SizeAssumption DEF CopyStep, Remaining
    <3>5. job.at = Len(job.out)
      BY <3>3, <3>4, SizeAssumption
    <3>6. job'.at = Len(job'.out) \/ Len(job'.out) = Size
      <4>1. CASE Kind[job.file] \notin ByCluster
        BY <1>4, <3>4, <3>5, <4>1 DEF CopyStep
      <4>2. CASE Kind[job.file] \in ByCluster
        <5>1. "short" \notin job'.marred
          BY <2>2, <3>1, <4>2 DEF Trusted, ByCluster, ByOffset
        <5>2. n = Chunk \/ n = Remaining
          BY <1>4, <3>4, <5>1, SizeAssumption DEF CopyStep, Remaining
        <5> QED BY <1>4, <3>4, <3>5, <4>2, <5>2, SizeAssumption DEF CopyStep, Remaining
      <4> QED BY <4>1, <4>2
    <3>7. "guessed" \notin job.marred
      BY <1>0, <1>4, <3>2 DEF Exact, Trusted
    <3>8. device = job.layout
      BY <3>1 DEF Steady
    <3>9. \A p : Sees(p) = Unit(device, job.file, p)
      BY <3>2, <3>7, <3>8 DEF Sees
    <3>10. \A i \in 1..Len(job.out) : job'.out[i] = Unit(device, job.file, i)
      BY <1>0, <1>4, <3>1, <3>2 DEF Exact, CopyStep
    <3>11. \A i \in 1..n : job'.out[Len(job.out) + i] = Unit(device, job.file, Len(job.out) + i)
      BY <1>4, <3>2, <3>5, <3>9 DEF CopyStep
    <3>12. ASSUME NEW i \in 1..Len(job'.out) PROVE job'.out[i] = Unit(device', job'.file, i)
      <4>1. CASE i <= Len(job.out)
        BY <1>4, <3>1, <3>4, <3>10, <4>1
      <4>2. CASE i > Len(job.out)
        <5>1. i - Len(job.out) \in 1..n /\ i = Len(job.out) + (i - Len(job.out))
          BY <3>4, <4>2
        <5>2. job'.out[i] = Unit(device, job.file, i)
          BY <3>11, <5>1
        <5> QED BY <1>4, <3>1, <5>2
      <4> QED BY <3>4, <4>1, <4>2
    <3> QED BY <3>6, <3>12
  <2> QED BY <2>1, <2>2 DEF Exact
<1> QED BY <1>0, <1>1, <1>2, <1>3, <1>4, InCopy

(* A reported file holds its data: one reported before has not been touched, *)
(* one reported now was complete and a prefix of the file.                   *)
TrustedKept(k) == \/ Kind[k.file] \in {"carver", "ntfs"} /\ "unit" \notin k.marred
                  \/ Kind[k.file] \in ByCluster /\ k.marred = {}

LEMMA WholeStays ==
  ASSUME IInv, [Next]_vars
  PROVE  RunsAreWhole' /\ ClustersAreWhole'
<1>0. Typed /\ Standing /\ Exact /\ RunsAreWhole /\ ClustersAreWhole
  BY DEF IInv
<1>1. SUFFICES ASSUME NEW k \in kept', Lasting(k), TrustedKept(k), k.steady
               PROVE  k.path \in DOMAIN fs' /\ fs'[k.path] = Whole(k.drive, k.file)
  BY Zenon DEF RunsAreWhole, ClustersAreWhole, TrustedKept, Holds, Lasting
<1>2. k \in kept \/ JustKept(k)
  BY <1>0, <1>1, KeptIs
<1>3. CASE k \in kept
  <2>1. Holds(k)
    BY <1>0, <1>1, <1>3 DEF RunsAreWhole, ClustersAreWhole, TrustedKept
  <2>2. k.path.tmps = 0 /\ (pc = "copy" => k.path # job.path)
    BY <1>0, <1>1, <1>3 DEF Standing, Lasting
  <2> QED BY <1>0, <2>1, <2>2, FilesStay DEF Holds, Stays
<1>4. ASSUME JustCopied(k), k.path \in DOMAIN fs'
      PROVE  k.path \in DOMAIN fs' /\ fs'[k.path] = Whole(k.drive, k.file)
  <2>1. /\ pc = "copy" /\ k.file = job.file /\ k.path = job.path /\ k.drive = Head(todo).drive
        /\ k.marred = job.marred /\ fs'[job.path] = job.out
        /\ Kind[job.file] \in InPlace \/ Len(job.out) = Size
    BY <1>4 DEF JustCopied
  <2>2. k.steady = Steady
    BY <1>4 DEF JustCopied
  <2>3. Steady
    BY <1>1, <2>2, Zenon
  <2>4. Trusted /\ Kind[job.file] \notin InPlace
    BY <1>1, <2>1 DEF TrustedKept, Trusted, ByCluster, ByOffset, InPlace
  <2>5. Len(job.out) = Size /\ job.out \in Seq(Entry)
    BY <2>1, <2>4, <1>0, JobIs
  <2>6. \A i \in 1..Size : job.out[i] = Unit(device, job.file, i)
    BY <1>0, <2>1, <2>3, <2>4, <2>5 DEF Exact
  <2>7. device = k.drive
    BY <2>1, <2>3 DEF Steady
  <2>8. job.out = [p \in 1..Size |-> job.out[p]]
    BY <2>5
  <2>9. job.out = Whole(k.drive, k.file)
    BY <2>1, <2>6, <2>7, <2>8 DEF Whole
  <2> QED BY <1>4, <2>1, <2>9
<1>5. ASSUME JustAssembled(k) PROVE fs'[k.path] = Whole(k.drive, k.file)
  <2>1. "ntfs" \notin ByCluster
    BY DEF ByCluster, ByOffset
  <2>2. "unit" \notin k.marred
    BY <1>1, <1>5, <2>1 DEF TrustedKept, JustAssembled
  <2> QED BY <1>1, <1>5, <2>2, Zenon DEF JustAssembled
<1> QED BY <1>2, <1>3, <1>4, <1>5 DEF JustKept

(* Every file of the directory stays accounted for.                          *)
LEMMA AccountedStays == ASSUME IInv, [Next]_vars PROVE Accounted'
<1>0. Typed /\ Accounted
  BY DEF IInv
<1>1. SUFFICES ASSUME NEW q \in DOMAIN fs'
               PROVE  (\E k \in kept' : k.path = q) \/ (job' # NoJob /\ q = Writing')
  BY DEF Accounted
<1> DEFINE Known == \E k \in kept' : k.path = q
<1>2. q \in DOMAIN fs => Known \/ (job # NoJob /\ q = Writing)
  BY <1>0, KeptStays DEF Accounted
<1>3. (pc = "copy" => job # NoJob) /\ (job # NoJob => pc \in {"copy", "hung"})
  BY <1>0 DEF Typed, TypedJob
<1>4. CASE UNCHANGED <<fs, job>>
  <2>1. Writing' = Writing
    BY <1>4 DEF Writing, Tmp
  <2> QED BY <1>2, <1>4, <2>1
<1>5. CASE Elsewhere
  BY <1>4, <1>5 DEF Elsewhere
<1>6. CASE Ending \/ Select \/ Passed
  <2>1. fs' = fs
    BY <1>6 DEF Ending, Select, Passed
  <2>2. CASE Passed
    BY <1>2, <1>3, <2>1, <2>2 DEF Passed
  <2>3. CASE Select
    BY <1>2, <1>3, <2>1, <2>3 DEF Select
  <2>4. CASE Ending
    <3>1. pc # "hung" => job = NoJob
      BY <1>3, <2>4 DEF Ending
    <3>2. pc # "hung"
      BY <2>4 DEF Ending
    <3> QED BY <1>2, <2>1, <3>1, <3>2
  <2> QED BY <1>6, <2>2, <2>3, <2>4
<1>7. ASSUME NEW path, Mended(path) PROVE Known
  <2>1. fs' = Placed(path, Repaired, {}) /\ Keep("partial", path, TRUE, {}) /\ pc = "next"
    BY <1>7 DEF Mended, Put
  <2>2. q \in DOMAIN fs \/ q = path
    BY <2>1 DEF Placed
  <2>3. \E k \in kept' : k.path = path
    <3> DEFINE new == [file |-> Now, state |-> "partial", path |-> path,
                       drive |-> Head(todo).drive, steady |-> TRUE, marred |-> {}]
    <3>1. new.path = path
      OBVIOUS
    <3>2. new \in kept'
      BY <2>1, Zenon DEF Keep
    <3> HIDE DEF new
    <3> QED BY <3>1, <3>2
  <2> QED BY <1>2, <1>3, <2>1, <2>2, <2>3
<1>8. ASSUME NEW verdict, Begun(verdict) PROVE Known \/ (job' # NoJob /\ q = Writing')
  <2>1. /\ fs' = Placed(IF Kind[Now] \in InPlace THEN job'.path ELSE Tmp(job'.path), <<>>, {})
        /\ pc = "next" /\ pc' = "copy" /\ job'.file = Now
    BY <1>0, <1>8, BegunIs DEF Begun, Put
  <2>2. Writing' = IF Kind[Now] \in InPlace THEN job'.path ELSE Tmp(job'.path)
    BY <2>1 DEF Writing, Tmp
  <2>3. q \in DOMAIN fs \/ q = Writing'
    BY <2>1, <2>2 DEF Placed
  <2>4. job' # NoJob
    BY <1>0, <2>1, JobStaysTyped DEF TypedJob
  <2> QED BY <1>2, <1>3, <2>1, <2>3, <2>4
<1>9. CASE Copy
  <2>1. pc = "copy" /\ UNCHANGED <<pc, fs>> /\ job'.path = job.path /\ job'.file = job.file
    BY <1>0, <1>9, CopyIs DEF CopyStep
  <2>2. Writing' = Writing
    BY <2>1 DEF Writing, Tmp
  <2>3. job' # NoJob
    BY <1>0, <2>1, JobStaysTyped DEF TypedJob
  <2> QED BY <1>2, <2>1, <2>2, <2>3
<1>10. ASSUME NEW gone, NEW data, NEW path, Undone(gone, data, path) PROVE Known
  <2>1. pc \in {"next", "copy"} /\ (pc = "copy" => Writing \in gone \cup {path})
    BY <1>10 DEF Undone
  <2>2. CASE fs' = Without(gone) /\ path = NoPath
    <3>1. q \in DOMAIN fs /\ q \notin gone
      BY <2>2 DEF Without
    <3>2. NoPath \notin DOMAIN fs
      <4>1. \A p \in Path : "tmps" \in DOMAIN p
        BY DEF Path
      <4>2. "tmps" \notin DOMAIN NoPath
        BY DEF NoPath
      <4> QED BY <1>0, <4>1, <4>2 DEF Typed, TypedFiles, Directory
    <3> QED BY <1>2, <1>3, <2>1, <2>2, <3>1, <3>2
  <2>3. CASE fs' = Placed(path, data, gone) /\ Keep("left", path, FALSE, {})
    <3>1. q = path \/ (q \in DOMAIN fs /\ q \notin gone)
      BY <2>3 DEF Placed
    <3>2. \E k \in kept' : k.path = path
      <4> DEFINE new == [file |-> Now, state |-> "left", path |-> path,
                         drive |-> Head(todo).drive, steady |-> FALSE, marred |-> {}]
      <4>1. new.path = path
        OBVIOUS
      <4>2. new \in kept'
        BY <2>3, Zenon DEF Keep
      <4> HIDE DEF new
      <4> QED BY <4>1, <4>2
    <3> QED BY <1>2, <1>3, <2>1, <3>1, <3>2
  <2> QED BY <1>10, <2>2, <2>3 DEF Undone
<1>11. ASSUME NEW path, NEW data, NEW steady, NEW marred, Delivered(path, data, steady, marred)
       PROVE  Known
  <2>1. Placing(path) /\ fs' = Placed(path, data, {Tmp(path)})
    BY <1>11 DEF Delivered
  <2>2. q = path \/ (q \in DOMAIN fs /\ q # Tmp(path))
    BY <2>1 DEF Placed
  <2>3. \E k \in kept' : k.path = path
    BY <1>11, DeliveredIsHashed DEF JustHashed
  <2>4. pc \in {"next", "copy"} /\ (pc = "copy" => Writing = Tmp(path))
    BY <1>0, <2>1, PlacingIs DEF Placing
  <2> QED BY <1>2, <1>3, <2>2, <2>3, <2>4
<1>12. CASE CommitIs(Kind[job.file] \in InPlace /\ CommitInPlace)
  <2>1. /\ pc = "copy" /\ fs' = Placed(job.path, job.out, {})
        /\ Keep("success", job.path, Steady, job.marred)
    BY <1>12, Zenon DEF CommitIs, CommitInPlace, Put
  <2>2. q \in DOMAIN fs \/ q = job.path
    BY <2>1 DEF Placed
  <2>3. \E k \in kept' : k.path = job.path
    <3> DEFINE new == [file |-> Now, state |-> "success", path |-> job.path,
                       drive |-> Head(todo).drive, steady |-> Steady, marred |-> job.marred]
    <3>1. new.path = job.path
      OBVIOUS
    <3>2. new \in kept'
      BY <2>1, Zenon DEF Keep
    <3> HIDE DEF new
    <3> QED BY <3>1, <3>2
  <2>4. Writing = job.path
    BY <1>12 DEF CommitIs, Writing
  <2> QED BY <1>2, <2>2, <2>3, <2>4
<1> QED BY <1>0, <1>5, <1>6, <1>7, <1>8, <1>9, <1>10, <1>11, <1>12, StepIs

(* The NTFS files stay ahead of the others, and no other file has been       *)
(* hashed while one of them is left.                                         *)
LEMMA NtfsStaysAhead == ASSUME IInv, [Next]_vars PROVE NtfsAhead'
<1>0. Typed /\ Named /\ NtfsAhead /\ todo \in Seq(Selected) /\ todo' \in Seq(Selected)
  BY TodoIs DEF IInv, Typed, TypedFiles
<1>1. \A i, m \in DOMAIN todo' : ~ IsNtfs(i)' /\ IsNtfs(m)' => m < i
  <2>1. CASE todo' = todo
    BY <1>0, <2>1 DEF NtfsAhead, IsNtfs
  <2>2. CASE todo' = <<>>
    BY <2>2
  <2>3. CASE Popped
    <3>1. SUFFICES ASSUME NEW i \in DOMAIN todo', NEW m \in DOMAIN todo', ~ IsNtfs(i)', IsNtfs(m)'
                   PROVE  m < i
      OBVIOUS
    <3>2. /\ i + 1 \in DOMAIN todo /\ todo'[i] = todo[i + 1]
          /\ m + 1 \in DOMAIN todo /\ todo'[m] = todo[m + 1]
      BY <2>3 DEF Popped
    <3>3. ~ IsNtfs(i + 1) /\ IsNtfs(m + 1)
      BY <3>1, <3>2 DEF IsNtfs
    <3>4. m + 1 < i + 1 /\ m \in Int /\ i \in Int
      BY <1>0, <3>2, <3>3 DEF NtfsAhead
    <3> QED BY <3>4
  <2>4. CASE Select
    <3>1. PICK s \in Order(Chosen) :
             todo' = [i \in DOMAIN s |-> [file |-> s[i], drive |-> scan.drive]]
      BY <2>4 DEF Select
    <3>2. \A i \in DOMAIN todo' : i \in DOMAIN s /\ todo'[i].file = s[i]
      BY <3>1
    <3>3. NtfsFirst(s)
      BY <3>1 DEF Order
    <3> QED BY <3>2, <3>3 DEF NtfsFirst, IsNtfs
  <2> QED BY <1>0, <2>1, <2>2, <2>3, <2>4, TodoIs
<1>2. ASSUME NEW m \in DOMAIN todo', IsNtfs(m)', NEW s \in seen' PROVE s.path.dir = "ntfs"
  <2>1. CASE seen' = seen
    <3>1. CASE Select
      BY <1>0, <2>1, <3>1 DEF Select, Typed, TypedJob, Early
    <3>2. CASE todo' = todo
      BY <1>0, <1>2, <2>1, <3>2 DEF NtfsAhead, IsNtfs
    <3>3. CASE Popped
      <4>1. m + 1 \in DOMAIN todo /\ IsNtfs(m + 1)
        BY <1>2, <3>3 DEF Popped, IsNtfs
      <4> QED BY <1>0, <2>1, <4>1 DEF NtfsAhead
    <3> QED BY <1>0, <1>2, <3>1, <3>2, <3>3, TodoIs
  <2>2. ASSUME NEW path, NEW data, JustHashed(path, data) PROVE s.path.dir = "ntfs"
    <3>1. Placing(path) /\ todo # <<>> /\ todo' = Tail(todo)
      BY <2>2 DEF JustHashed, Placing
    <3>2. Now = todo[1].file /\ 1 \in DOMAIN todo
      BY <1>0, <3>1, NowIs DEF Now
    <3>3. m + 1 \in DOMAIN todo /\ todo'[m] = todo[m + 1] /\ m \in Nat \ {0}
      BY <1>0, <1>2, <3>1
    <3>4. IsNtfs(m + 1)
      BY <1>2, <3>3 DEF IsNtfs
    <3>5. IsNtfs(1)
      <4>1. ~ (m + 1 < 1)
        BY <3>3
      <4> QED BY <1>0, <3>2, <3>3, <3>4, <4>1 DEF NtfsAhead
    <3>6. path.dir = "ntfs"
      <4>1. Kind[Now] = "ntfs"
        BY <3>2, <3>5 DEF IsNtfs
      <4>2. CASE pc = "copy" /\ path = job.path
        BY <1>0, <4>1, <4>2, JobIs DEF Named
      <4> QED BY <3>1, <4>1, <4>2 DEF Placing
    <3>7. s \in seen \/ s.path = path
      BY <1>2, <2>2 DEF JustHashed
    <3>8. \A o \in seen : o.path.dir = "ntfs"
      BY <1>0, <3>3, <3>4 DEF NtfsAhead
    <3> QED BY <3>6, <3>7, <3>8
  <2>3. CASE seen' = {}
    BY <1>2, <2>3
  <2> QED BY <1>0, <2>1, <2>2, <2>3, SeenIs
<1> QED BY <1>1, <1>2 DEF NtfsAhead

(* The records of this recovery, the files they name and the hashes stay     *)
(* together.                                                                 *)
LEMMA RecordsStay ==
  ASSUME IInv, [Next]_vars
  PROVE  Remembered' /\ OneCopyOfEach'
<1>0. Typed /\ Standing /\ Named /\ NtfsAhead /\ Remembered /\ OneCopyOfEach /\ records \in Seq(Rec)
  BY DEF IInv, Typed, TypedFiles
<1> DEFINE path(i) == records[i].path
<1>1. ASSUME NEW i \in Recovered
      PROVE  /\ fs'[path(i)] = fs[path(i)] /\ [hash |-> fs[path(i)], path |-> path(i)] \in seen
             /\ \E k \in kept' : Lasting(k) /\ k.path = path(i)
  <2>1. PICK k \in kept : Lasting(k) /\ k.path = path(i)
    BY <1>0 DEF Remembered
  <2>2. path(i) \in DOMAIN fs /\ path(i).tmps = 0 /\ (pc = "copy" => path(i) # job.path)
    BY <1>0, <2>1 DEF Standing, Lasting
  <2>3. fs'[path(i)] = fs[path(i)]
    BY <1>0, <2>2, FilesStay DEF Stays
  <2>4. k \in kept'
    BY <1>0, KeptStays
  <2> QED BY <1>0, <2>1, <2>3, <2>4 DEF Remembered
<1>2. CASE records' = records
  <2>1. Recovered' = Recovered
    BY <1>2 DEF Recovered
  <2>2. records # <<>> => seen \subseteq seen'
    BY <1>0, <1>2, SeenIs DEF JustHashed
  <2>3. \A i \in Recovered : records # <<>>
    BY DEF Recovered
  <2>4. Remembered'
    BY <1>1, <1>2, <2>1, <2>2, <2>3 DEF Remembered, Lasting
  <2>5. OneCopyOfEach'
    <3>1. ASSUME NEW i \in Recovered, NEW m \in Recovered, i # m
          PROVE  fs'[records'[i].path] # fs'[records'[m].path]
      <4>1. fs[records[i].path] # fs[records[m].path]
        BY <1>0, <3>1 DEF OneCopyOfEach
      <4>2. fs'[records[i].path] = fs[records[i].path] /\ fs'[records[m].path] = fs[records[m].path]
        BY <1>1, <3>1
      <4> QED BY <1>2, <4>1, <4>2
    <3>2. ASSUME NEW i \in DOMAIN records', Kind[records'[i].file] = "ntfs",
                 records'[i].of # NoPath
          PROVE  records'[i].of.dir = "ntfs"
      BY <1>0, <1>2, <3>2 DEF OneCopyOfEach
    <3> QED BY <2>1, <3>1, <3>2 DEF OneCopyOfEach
  <2> QED BY <2>4, <2>5
<1>3. CASE records' = <<>>
  <2>1. DOMAIN records' = {} /\ Recovered' = {}
    BY <1>3 DEF Recovered
  <2> QED BY <2>1 DEF Remembered, OneCopyOfEach
<1>4. ASSUME NEW state, NEW to, NEW of, NewRecord(state, to, of)
      PROVE  Remembered' /\ OneCopyOfEach'
  <2> DEFINE n == Len(records')
  <2>1. /\ DOMAIN records' = DOMAIN records \cup {n} /\ n \notin DOMAIN records
        /\ \A i \in DOMAIN records : records'[i] = records[i]
        /\ records'[n] = [file |-> Now, state |-> state, path |-> to, of |-> of]
    BY <1>0, <1>4, RecordIs DEF NewRecord
  <2> HIDE DEF n
  <2>2. records'[n].file = Now /\ records'[n].state = state /\ records'[n].path = to
        /\ records'[n].of = of
    BY <2>1
  <2>3. \A i \in Recovered' : i \in Recovered \/ i = n
    BY <2>1 DEF Recovered
  <2>4. ASSUME n \in Recovered'
        PROVE  to.tmps = 0 /\ \E data : JustHashed(to, data)
    BY <1>4, <2>2, <2>4 DEF Recovered, NewRecord
  <2>5. seen \subseteq seen'
    <3>1. n \in DOMAIN records' => records' # <<>>
      OBVIOUS
    <3> QED BY <1>0, <2>1, <3>1, SeenIs DEF JustHashed
  <2>6. Remembered'
    <3>1. ASSUME NEW i \in Recovered'
          PROVE  /\ [hash |-> fs'[records'[i].path], path |-> records'[i].path] \in seen'
                 /\ \E k \in kept' : Lasting(k) /\ k.path = records'[i].path
      <4>1. CASE i \in Recovered
        <5>1. records'[i] = records[i]
          BY <2>1, <4>1 DEF Recovered
        <5> QED BY <1>1, <2>5, <4>1, <5>1
      <4>2. CASE i = n
        <5>1. to.tmps = 0 /\ \E data : JustHashed(to, data)
          BY <2>4, <3>1, <4>2
        <5>2. PICK data : JustHashed(to, data)
          BY <5>1
        <5> QED BY <2>2, <4>2, <5>1, <5>2 DEF JustHashed, Lasting
      <4> QED BY <2>3, <4>1, <4>2
    <3> QED BY <3>1 DEF Remembered, Lasting
  <2>7. ASSUME NEW i \in Recovered', NEW m \in Recovered', i # m
        PROVE  fs'[records'[i].path] # fs'[records'[m].path]
    <3>1. ASSUME NEW o \in Recovered PROVE records'[o] = records[o] /\ fs'[path(o)] = fs[path(o)]
      BY <1>1, <2>1 DEF Recovered
    <3>2. ASSUME NEW o \in Recovered, n \in Recovered' PROVE fs'[to] # fs'[path(o)]
      <4>1. PICK s \in seen : s.hash = fs[path(o)]
        BY <1>1
      <4>2. PICK data : JustHashed(to, data)
        BY <2>4, <3>2
      <4> QED BY <3>1, <3>2, <4>1, <4>2 DEF JustHashed
    <3>3. CASE i \in Recovered /\ m \in Recovered
      BY <1>0, <2>7, <3>1, <3>3 DEF OneCopyOfEach
    <3>4. CASE i = n /\ m \in Recovered
      BY <2>2, <2>7, <3>1, <3>2, <3>4
    <3>5. CASE i \in Recovered /\ m = n
      BY <2>2, <2>7, <3>1, <3>2, <3>5
    <3> QED BY <2>3, <2>7, <3>3, <3>4, <3>5
  <2>8. ASSUME NEW i \in DOMAIN records', Kind[records'[i].file] = "ntfs", records'[i].of # NoPath
        PROVE  records'[i].of.dir = "ntfs"
    <3>1. CASE i \in DOMAIN records
      BY <1>0, <2>1, <2>8, <3>1 DEF OneCopyOfEach
    <3>2. CASE i = n
      <4>1. PICK s \in seen : of = s.path
        BY <1>4, <2>2, <2>8, <3>2 DEF NewRecord
      <4>2. 1 \in DOMAIN todo /\ IsNtfs(1)
        BY <1>0, <1>4, <2>2, <2>8, <3>2, NowIs DEF NewRecord, IsNtfs, Now
      <4> QED BY <1>0, <2>2, <3>2, <4>1, <4>2 DEF NtfsAhead
    <3> QED BY <2>1, <3>1, <3>2
  <2> QED BY <2>6, <2>7, <2>8 DEF OneCopyOfEach
<1> QED BY <1>0, <1>2, <1>3, <1>4, RecordsAre

(* After a stop only the file that is being written is still recorded.       *)
LEMMA StopStays == ASSUME IInv, [Next]_vars PROVE Stopped'
<1>0. Typed /\ Stopped /\ records \in Seq(Rec) /\ stopAt \in Int
  BY DEF IInv, Typed, TypedFiles, TypedTask
<1>1. CASE UNCHANGED <<cancelled, stopAt, records>> /\ (pc = "next" => pc' = "next")
  BY <1>0, <1>1 DEF Stopped
<1>2. CASE Scan \/ UNCHANGED vars
  BY <1>1, <1>2 DEF Scan, ScanStarts, ScanFinds, ScanEnds, caller, vars
<1>3. CASE StopRecovery
  BY <1>0, <1>3 DEF StopRecovery, Stopped
<1>4. ASSUME NEW wanted, Begin(wanted) PROVE Stopped'
  <2>1. pc = "idle"
    BY <1>0, <1>4 DEF Begin, Typed, TypedTask
  <2> QED BY <1>1, <1>4, <2>1 DEF Begin
<1>5. CASE Open \/ Publish \/ Select
  BY <1>1, <1>5 DEF Open, Publish, Select, caller
<1>6. CASE OpenFails \/ SelectNothing \/ Finish
  BY <1>6 DEF OpenFails, SelectNothing, Finish, Return, Stopped
<1>7. CASE NextFile
  <2>1. ~ cancelled /\ cancelled' = cancelled
    BY <1>7, WorkIs DEF NextFile, Working
  <2> QED BY <2>1 DEF Stopped
<1>8. CASE Copy \/ Hangs
  <2>1. pc = "copy" \/ ~ cancelled
    BY <1>8 DEF Copy, Copying, Hangs
  <2>2. UNCHANGED <<cancelled, stopAt, records>> /\ (pc' = pc \/ pc' = "hung")
    BY <1>8 DEF Copy, Hangs, caller
  <2> QED BY <1>0, <2>1, <2>2 DEF Stopped
<1>9. CASE CopyFails \/ Commit
  <2>1. pc = "copy" /\ UNCHANGED <<cancelled, stopAt>>
    BY <1>9, WorkIs DEF CopyFails, Commit, Working
  <2>2. \E state, path, of : Record(state, path, of)
    <3>1. CASE CopyFails
      BY <1>0, <3>1, CopyFailsIs DEF Undone
    <3>2. CASE Commit
      BY <1>0, <3>2, CommitIsOne DEF CommitIs, CommitInPlace, Undone, Delivered
    <3> QED BY <1>9, <3>1, <3>2
  <2>3. pc' = "next" /\ \E o : records' = Append(records, o)
    BY <2>2 DEF Record
  <2>4. Len(records') = Len(records) + 1 /\ Len(records) \in Nat
    BY <1>0, <2>3
  <2> QED BY <1>0, <2>1, <2>3, <2>4 DEF Stopped
<1> QED BY <1>2, <1>3, <1>4, <1>5, <1>6, <1>7, <1>8, <1>9
        DEF Next, User, StartRecovery, RetryFailed, Goroutine

LEMMA StepIsSound == IInv /\ [Next]_vars => IInv'
<1> SUFFICES ASSUME IInv, [Next]_vars PROVE IInv'
  OBVIOUS
<1>1. Typed
  BY DEF IInv
<1>2. Typed'
  BY <1>1, TaskStays, FilesStayTyped, JobStaysTyped DEF Typed
<1> QED BY <1>2, StandingStays, ExactStays, NamedStays, AccountedStays, NtfsStaysAhead,
           RecordsStay, StopStays, WholeStays DEF IInv

LEMMA StaysSound == Spec => []IInv
<1>1. Init => IInv
  BY InitIsSound
<1>2. IInv /\ [Next]_vars => IInv'
  BY StepIsSound
<1> QED BY <1>1, <1>2, PTL DEF Spec

-----------------------------------------------------------------------------
(* The results.                                                              *)

(* Every variable keeps its shape: a recovery is under way exactly while its *)
(* flag is set, no output is longer than its file, every record has a state. *)
THEOREM TypeCorrect == Spec => []TypeOK
<1>1. IInv => TypeOK
  <2> SUFFICES ASSUME IInv PROVE TypeOK
    OBVIOUS
  <2>1. TypedTask /\ TypedFiles /\ TypedJob
    BY DEF IInv, Typed
  <2>2. ToSet(todo) \subseteq [file : FileID, drive : Drive]
    <3>1. \A i \in DOMAIN todo : todo[i] \in Selected
      BY <2>1 DEF TypedFiles
    <3> QED BY <3>1, Zenon DEF ToSet, Selected
  <2>4. (pc = "copy" => job # NoJob) /\ (job # NoJob => pc \in {"copy", "hung"})
    BY <2>1 DEF TypedJob
  <2>5. job # NoJob => job.file = Now /\ Len(job.out) <= Size /\ job.out \in Data
    BY <2>1 DEF TypedJob, Job
  <2>6. \A i \in DOMAIN records : records[i].file \in FileID /\ records[i].state \in States
    <3>1. \A i \in DOMAIN records : records[i] \in Rec
      BY <2>1 DEF TypedFiles
    <3>2. \A r \in Rec : r.file \in FileID /\ r.state \in States
      BY DEF Rec
    <3> QED BY <3>1, <3>2
  <2>7. DOMAIN fs \subseteq Path /\ \A p \in DOMAIN fs : fs[p] \in Data
    BY <2>1 DEF TypedFiles, Directory
  <2>8. scan.drive \in Drive \union {NoDrive} /\ scan.open \in BOOLEAN
    BY <2>1 DEF TypedTask
  <2>9. /\ found \subseteq FileID /\ {recovering, canceller, cancelled} \subseteq BOOLEAN
        /\ pc \in {"idle", "open", "publish", "select", "next", "copy", "hung"}
        /\ (pc = "idle") = ~recovering /\ (canceller => recovering) /\ ids \subseteq FileID
        /\ stopAt \in Int /\ scans \in 0..MaxScans /\ faults \in 0..MaxFaults
    BY <2>1, Zenon DEF TypedTask, Early
  <2> QED BY <2>2, <2>4, <2>5, <2>6, <2>7, <2>8, <2>9, Zenon DEF TypeOK
<1> QED BY <1>1, StaysSound, PTL

(* A carved or NTFS file that is reported as recovered holds all its data    *)
(* ever after, for any pattern of short reads, failures, stops and retries   *)
(* (the loops of WriteFile and WriteNTFSFile and the names of                *)
(* resolveConflict), unless it is compressed and not wholly decompressed.    *)
THEOREM RunsAreRecovered == Spec => []RunsAreWhole
<1>1. IInv => RunsAreWhole
  BY DEF IInv
<1> QED BY <1>1, StaysSound, PTL

(* The same for the files copied by clusters, if no read was short and no    *)
(* cluster guessed.                                                          *)
THEOREM ClustersAreRecovered == Spec => []ClustersAreWhole
<1>1. IInv => ClustersAreWhole
  BY DEF IInv
<1> QED BY <1>1, StaysSound, PTL

(* Between two files the output directory holds the reported files and what  *)
(* the failed ones are known to leave: nothing else is ever left in it.      *)
THEOREM NothingIsLeftOver == Spec => []NothingLeftOver
<1>1. IInv => NothingLeftOver
  <2> SUFFICES ASSUME IInv, pc \in {"idle", "next"} PROVE \A q \in DOMAIN fs : \E k \in kept : k.path = q
    BY DEF NothingLeftOver
  <2>1. job = NoJob
    BY DEF IInv, Typed, TypedJob
  <2> QED BY <2>1 DEF IInv, Accounted
<1> QED BY <1>1, StaysSound, PTL

(* One recovery keeps one copy of each content, the NTFS one if there is.    *)
THEOREM OneCopyIsKept == Spec => []OneCopyOfEach
<1>1. IInv => OneCopyOfEach
  BY DEF IInv
<1> QED BY <1>1, StaysSound, PTL

(* After a stop at most the file that is being copied is dealt with.         *)
THEOREM StopIsHonoured == Spec => []StopHonoured
<1>1. IInv => StopHonoured
  <2> SUFFICES ASSUME IInv, cancelled PROVE Len(records) <= stopAt + 1
    BY DEF StopHonoured
  <2>1. Len(records) \in Nat /\ stopAt \in Int
    BY DEF IInv, Typed, TypedFiles, TypedTask
  <2> QED BY <2>1 DEF IInv, Stopped
<1> QED BY <1>1, StaysSound, PTL

-----------------------------------------------------------------------------
(* Why a recovery ends: the safety half, for every value of the constants.   *)

(* Any finite set of files has an order with the ntfs files first.           *)
LEMMA OrderExists ==
  ASSUME NEW S, IsFiniteSet(S)
  PROVE  Order(S) # {}
<1> DEFINE N == {f \in S : Kind[f] = "ntfs"}
           O == {f \in S : Kind[f] # "ntfs"}
           n == Cardinality(N)
           m == Cardinality(O)
<1>1. IsFiniteSet(N) /\ IsFiniteSet(O)
  BY FS_Subset
<1>2. n \in Nat /\ m \in Nat
  BY <1>1, FS_CardinalityType
<1>3. PICK a \in Bijection(1..n, N) : TRUE
  BY <1>1, FS_CardinalityType DEF ExistsBijection
<1>4. PICK b \in Bijection(1..m, O) : TRUE
  BY <1>1, FS_CardinalityType DEF ExistsBijection
<1>5. /\ \A i \in 1..n : a[i] \in N
      /\ \A i, j \in 1..n : a[i] = a[j] => i = j
      /\ \A f \in N : \E i \in 1..n : a[i] = f
  BY <1>3 DEF Bijection, Injection, IsInjective, Surjection
<1>6. /\ \A i \in 1..m : b[i] \in O
      /\ \A i, j \in 1..m : b[i] = b[j] => i = j
      /\ \A f \in O : \E i \in 1..m : b[i] = f
  BY <1>4 DEF Bijection, Injection, IsInjective, Surjection
<1>n. /\ \A f \in S : f \in N <=> Kind[f] = "ntfs"
      /\ \A f \in S : f \in O <=> Kind[f] # "ntfs"
      /\ N \subseteq S /\ O \subseteq S /\ N \cap O = {} /\ N \cup O = S
  OBVIOUS
<1> HIDE DEF N, O, n, m
<1> DEFINE s == [i \in 1..(n + m) |-> IF i <= n THEN a[i] ELSE b[i - n]]
<1>7. \A i \in 1..(n + m) : IF i <= n THEN i \in 1..n /\ s[i] = a[i] /\ s[i] \in N
                            ELSE i - n \in 1..m /\ s[i] = b[i - n] /\ s[i] \in O
  BY <1>2, <1>5, <1>6
<1>8. s \in [1..(n + m) -> S]
  BY <1>7, <1>n
<1>9. \A i, j \in 1..(n + m) : s[i] = s[j] => i = j
  <2> SUFFICES ASSUME NEW i \in 1..(n + m), NEW j \in 1..(n + m), s[i] = s[j]
               PROVE  i = j
    OBVIOUS
  <2> HIDE DEF s
  <2>1. (i <= n) <=> (j <= n)
    BY <1>7, <1>n
  <2>2. CASE i <= n
    BY <1>5, <1>7, <2>1, <2>2
  <2>3. CASE ~(i <= n)
    <3>1. i - n = j - n
      BY <1>6, <1>7, <2>1, <2>3
    <3> QED BY <1>2, <3>1
  <2> QED BY <2>2, <2>3
<1>10. \A f \in S : \E i \in 1..(n + m) : s[i] = f
  <2> SUFFICES ASSUME NEW f \in S PROVE \E i \in 1..(n + m) : s[i] = f
    OBVIOUS
  <2>1. CASE f \in N
    <3>1. PICK i \in 1..n : a[i] = f
      BY <1>5, <2>1
    <3> QED BY <1>2, <3>1
  <2>2. CASE f \in O
    <3>1. PICK i \in 1..m : b[i] = f
      BY <1>6, <2>2
    <3>2. i + n \in 1..(n + m) /\ ~(i + n <= n) /\ (i + n) - n = i
      BY <1>2
    <3>3. s[i + n] = f
      BY <3>1, <3>2
    <3> QED BY <3>2, <3>3
  <2> QED BY <1>n, <2>1, <2>2
<1> HIDE DEF s
<1>11. s \in Bijection(1..(n + m), S)
  BY <1>8, <1>9, <1>10 DEF Bijection, Injection, IsInjective, Surjection
<1>12. Cardinality(S) = n + m
  <2>1. n + m \in Nat /\ ExistsBijection(1..(n + m), S)
    BY <1>2, <1>11 DEF ExistsBijection
  <2> QED BY <2>1, FS_CountingElements
<1>13. s \in SetToSeqs(S)
  BY <1>8, <1>9, <1>12 DEF SetToSeqs
<1>14. NtfsFirst(s)
  <2> SUFFICES ASSUME NEW i \in 1..(n + m), NEW j \in 1..(n + m),
                      Kind[s[i]] # "ntfs", Kind[s[j]] = "ntfs"
               PROVE  j < i
    BY <1>8 DEF NtfsFirst
  <2>1. ~(i <= n) /\ j <= n
    BY <1>7, <1>8, <1>n
  <2> QED BY <1>2, <2>1
<1> QED BY <1>13, <1>14 DEF Order

(* When the recovery's goroutine can go: always before the files are chosen; *)
(* then if they can be ordered, if the next file has a verdict, if there is  *)
(* something to read or the file is at its end.                              *)
GoroutineGoes ==
  \/ pc \in {"open", "publish"}
  \/ pc = "select" /\ (Chosen = {} \/ Order(Chosen) # {})
  \/ pc = "next" /\ (todo = <<>> \/ cancelled \/ Verdicts(Now) # {})
  \/ pc = "copy" /\ ((Remaining > 0 /\ job.at < job.list) \/ Remaining = 0 \/ job.at >= job.list)

(* A recovery that is under way can always go on, whatever it was asked for, *)
(* whatever was found, failed or was stopped, and whatever the scans do      *)
(* meanwhile: only a read that never comes back makes it stand.              *)
THEOREM RecoveryNeverStands == Spec => [](recovering => GoroutineGoes \/ pc = "hung")
<1>1. IInv => (recovering => GoroutineGoes \/ pc = "hung")
  <2> SUFFICES ASSUME IInv, recovering, pc # "hung" PROVE GoroutineGoes
    OBVIOUS
  <2>1. pc \in {"open", "publish", "select", "next", "copy"}
    BY DEF IInv, Typed, TypedTask, Early
  <2>2. CASE pc = "select"
    <3>1. IsFiniteSet(Chosen)
      BY FilesAssumption, FS_Subset DEF Chosen, IInv, Typed, TypedTask
    <3> QED BY <2>2, <3>1, OrderExists DEF GoroutineGoes
  <2>3. CASE pc = "next"
    BY <2>3 DEF GoroutineGoes, Verdicts
  <2>4. CASE pc = "copy"
    <3>1. job \in Job /\ Len(job.out) <= Size
      BY <2>4 DEF IInv, Typed, TypedJob
    <3>2. Len(job.out) \in Nat /\ job.at \in Nat /\ job.list \in Int
      BY <3>1 DEF Job, Data
    <3>3. Remaining \in Nat
      BY <3>1, <3>2, SizeAssumption DEF Remaining
    <3>4. Remaining > 0 \/ Remaining = 0
      BY <3>3
    <3>5. job.at < job.list \/ job.at >= job.list
      BY <3>2
    <3> QED BY <2>4, <3>4, <3>5 DEF GoroutineGoes
  <2> QED BY <2>1, <2>2, <2>3, <2>4 DEF GoroutineGoes
<1> QED BY <1>1, StaysSound, PTL

(* What is left to do: of the recovery, and of the file at the head of todo. *)
PhaseLeft ==
  CASE pc = "open" -> 4 [] pc = "publish" -> 3 [] pc = "select" -> 2
    [] pc \in {"next", "copy"} -> 1 [] OTHER -> 0
FileLeft == IF pc = "copy" THEN Remaining + 1 ELSE Size + 2
(* The recovery comes nearer to its end, or a file is done with, or one more *)
(* unit of it at least is written.                                           *)
LessLeft ==
  \/ PhaseLeft' < PhaseLeft
  \/ PhaseLeft' = PhaseLeft /\ Len(todo') < Len(todo)
  \/ PhaseLeft' = PhaseLeft /\ UNCHANGED todo /\ FileLeft' \in 0..(FileLeft - 1)

LEMMA GoroutineLowers ==
  ASSUME Typed, Goroutine
  PROVE  LessLeft
<1>0. ASSUME NEW state, NEW path, NEW of, Record(state, path, of), pc \in {"next", "copy"},
             todo # <<>>
      PROVE  LessLeft
  <2>1. todo' = Tail(todo) /\ pc' = "next" /\ todo \in Seq(Selected)
    BY <1>0 DEF Record, Typed, TypedFiles
  <2>2. Len(todo') < Len(todo)
    BY <1>0, <2>1
  <2> QED BY <1>0, <2>1, <2>2 DEF LessLeft, PhaseLeft
<1>1. CASE Open \/ OpenFails \/ Publish \/ Select \/ SelectNothing \/ Finish \/ Hangs
  <2>1. PhaseLeft' < PhaseLeft
    BY <1>1 DEF Open, OpenFails, Publish, Select, SelectNothing, Finish, Hangs, Copying, Return,
                PhaseLeft
  <2> QED BY <2>1 DEF LessLeft
<1>2. CASE NextFile
  <2>1. CASE Passed \/ \E path : Mended(path)
    BY <1>0, <2>1 DEF Passed, Mended
  <2>2. ASSUME NEW gone, NEW data, NEW q, Undone(gone, data, q) PROVE LessLeft
    BY <1>0, <2>2 DEF Undone
  <2>3. ASSUME NEW path, NEW data, NEW steady, NEW marred, Delivered(path, data, steady, marred)
        PROVE  LessLeft
    BY <1>0, <2>3 DEF Delivered, Placing
  <2>4. ASSUME NEW verdict, Begun(verdict) PROVE LessLeft
    <3>1. pc = "next" /\ job'.out = <<>> /\ pc' = "copy" /\ UNCHANGED todo
      BY <2>4, BegunIs DEF Begun
    <3>2. FileLeft' = Size + 1 /\ FileLeft = Size + 2
      BY <3>1, SizeAssumption DEF FileLeft, Remaining
    <3>3. FileLeft' \in 0..(FileLeft - 1)
      BY <3>2, SizeAssumption
    <3> QED BY <3>1, <3>3 DEF LessLeft, PhaseLeft
  <2> QED BY <1>2, <2>1, <2>2, <2>3, <2>4, NextFileIs
<1>3. CASE Copy
  <2>1. PICK n \in Nat : CopyStep(n)
    BY <1>3, CopyIs
  <2>2. pc = "copy" /\ pc' = pc /\ todo' = todo
    BY <1>3, CopyIs
  <2>3. n \in 1..Remaining /\ Len(job'.out) = Len(job.out) + n
    BY <2>1 DEF CopyStep
  <2>4. Len(job.out) \in Nat
    BY <2>2, JobIs
  <2>5. Remaining \in Int /\ Remaining' = Remaining - n
    BY <2>3, <2>4, SizeAssumption DEF Remaining
  <2>6. FileLeft = Remaining + 1 /\ FileLeft' = Remaining' + 1
    BY <2>2 DEF FileLeft
  <2>7. FileLeft' \in 0..(FileLeft - 1)
    BY <2>3, <2>5, <2>6
  <2> QED BY <2>2, <2>7 DEF LessLeft, PhaseLeft
<1>4. CASE CopyFails \/ Commit
  <2>1. ASSUME NEW gone, NEW data, NEW q, Undone(gone, data, q) PROVE LessLeft
    BY <1>0, <2>1 DEF Undone
  <2>2. ASSUME NEW path, NEW data, NEW steady, NEW marred, Delivered(path, data, steady, marred)
        PROVE  LessLeft
    BY <1>0, <2>2 DEF Delivered, Placing
  <2>3. CASE CommitIs(Kind[job.file] \in InPlace /\ CommitInPlace)
    <3>1. pc = "copy" /\ Record("success", job.path, NoPath)
      BY <2>3 DEF CommitIs, CommitInPlace
    <3> QED BY <1>0, <3>1, JobIs
  <2> QED BY <1>4, <2>1, <2>2, <2>3, CopyFailsIs, CommitIsOne
<1> QED BY <1>1, <1>2, <1>3, <1>4 DEF Goroutine

(* Every step of the goroutine leaves less to do, and while a recovery is    *)
(* under way no step of a scan or of the user adds to it: a recovery takes   *)
(* finitely many steps, and as one can always be taken it ends.              *)
THEOREM RecoveryRunsDown ==
  Spec => [][/\ Goroutine => LessLeft
             /\ recovering /\ ~Goroutine => UNCHANGED <<pc, todo, job>>]_vars
<1>1. ASSUME Typed, Scan \/ User, recovering PROVE UNCHANGED <<pc, todo, job>>
  <2>1. ~ StartRecovery /\ ~ RetryFailed
    BY <1>1 DEF StartRecovery, RetryFailed, Begin
  <2> QED BY <1>1, <2>1 DEF Scan, ScanStarts, ScanFinds, ScanEnds, User, StopRecovery, caller
<1>2. IInv /\ [Next]_vars =>
        [/\ Goroutine => LessLeft
         /\ recovering /\ ~Goroutine => UNCHANGED <<pc, todo, job>>]_vars
  BY <1>1, GoroutineLowers DEF IInv, Next
<1> QED BY <1>2, StaysSound, PTL DEF Spec
=============================================================================
