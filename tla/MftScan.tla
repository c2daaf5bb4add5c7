------------------------------- MODULE MftScan -------------------------------
(***************************************************************************)
(* The scan of an NTFS volume (internal/ntfs/parser.go, usn_journal.go and *)
(* scanNTFSPartition): the boot sector, record 0 of the MFT, then every    *)
(* record in the order of the runs of the MFT; the deleted files, their    *)
(* paths, the names that only the journal still knows.                     *)
(*                                                                         *)
(* A volume has a boot sector, the cells of the disk by the address where  *)
(* they begin, and the end of the disk.  Addresses and sizes are in units  *)
(* of half a record.  A record is [used, dir, attrs, raw, over, marks]:    *)
(* its attributes, what they look like while the marks of the sectors are  *)
(* still in place, the sector ends each one covers, and whether the mark   *)
(* of each sector is right.                                                *)
(***************************************************************************)
EXTENDS Integers, Sequences, SequencesExt, FiniteSetsExt

CONSTANTS
  MftVolumes,
  Root,          \* record of the root directory (5)
  FirstUser,     \* records below are of the system (24)
  MaxRefs,       \* records that are read for an attribute list (64)
  MaxList,       \* elements of an attribute list on the disk (1 MB)
  MaxPath,       \* depth of a path (100)
  Interval,      \* records between two looks at the context (20)
  MaxJournal,    \* units of the journal that are read (64 MB)
  None,          \* no name
  SystemNames,   \* names that begin with $
  JournalName,   \* $UsnJrnl
  JournalStream, \* $J
  ExtendNames    \* names that contain $Extend

VARIABLES
  mft,      \* the volume
  stage,
  run, at, number,  \* run, place in it, number of the next record
  entries,  \* what was parsed
  live,     \* files reported while the MFT was read
  listed,   \* files of the result
  hints,    \* names from the journal
  stopped   \* the context is cancelled

mftVars == <<mft, stage, run, at, number, entries, live, listed, hints, stopped>>

-----------------------------------------------------------------------------
(* The disk *)

Cell(x, len) ==
  IF x + len > mft.end THEN [kind |-> "short"]
  ELSE IF x \in DOMAIN mft.disk THEN mft.disk[x]
  ELSE [kind |-> "zeros"]

ClusterSize == mft.boot.cluster

MFTRecordSize ==
  IF mft.boot.perRecord > 0 THEN mft.boot.perRecord * ClusterSize ELSE 2 ^ (-mft.boot.perRecord)

ValidBoot == mft.boot.ok /\ ClusterSize > 0 /\ MFTRecordSize > 0 /\ mft.boot.mft >= 0

RunSize(r) == r.len * ClusterSize
RunsSize(runs) == FoldLeft(LAMBDA sum, r : sum + RunSize(r), 0, runs)

-----------------------------------------------------------------------------
(* One record *)

(* Mutant: the marks are left in the sectors.                               *)
applyFixupNever(cell) == [ok |-> TRUE, attrs |-> cell.raw]

(* Sectors are restored up to the first one whose mark is wrong.            *)
applyFixup(cell) ==
  LET wrong == {i \in DOMAIN cell.marks : ~cell.marks[i]}
      restored == IF wrong = {} THEN Len(cell.marks) ELSE Min(wrong) - 1
  IN [ok |-> wrong = {},
      attrs |-> [i \in DOMAIN cell.attrs |->
                   IF cell.over[i] \subseteq 1 .. restored THEN cell.attrs[i] ELSE cell.raw[i]]]

(* The attributes up to the end mark or one whose length cannot be right.   *)
UpToEnd(attrs) ==
  LET end == SelectInSeq(attrs, LAMBDA a : a.kind = "end")
  IN IF end = 0 THEN attrs ELSE SubSeq(attrs, 1, end - 1)

AttributesOf(cell) == UpToEnd(applyFixup(cell).attrs)

handleFileNameAttr(e, a) ==
  IF a.nonresident \/ a.name = None THEN e
  ELSE LET better == \/ e.name = None
                     \/ a.space \in {"win32", "both"}
                     \/ e.space = "dos" /\ a.space # "dos"
       IN [e EXCEPT !.name = IF better THEN a.name ELSE @,
                    !.space = IF better THEN a.space ELSE @,
                    !.parent = a.parent,
                    !.size = IF @ = 0 THEN a.at38 ELSE @]

(* A named stream.  The place of its runs is read at +0x40.                 *)
collectADSStream(a) ==
  IF a.nonresident
  THEN IF a.at40 THEN <<[name |-> a.stream, runs |-> a.runs]>> ELSE <<>>
  ELSE IF a.content # <<>> THEN <<[name |-> a.stream, runs |-> <<>>]>> ELSE <<>>

(* The place of the runs is read at +0x40; a later attribute replaces the   *)
(* runs of an earlier one, and resident data leaves a size that is known.   *)
handleDataAttr(e, a) ==
  IF a.stream # None THEN [e EXCEPT !.streams = @ \o collectADSStream(a)]
  ELSE IF a.nonresident
  THEN LET sized == [e EXCEPT !.compressed = @ \/ a.compressed,
                              !.size = IF a.size > 0 THEN a.size ELSE @]
       IN IF a.at40 /\ a.runs # <<>>
          THEN [sized EXCEPT !.runs = a.runs, !.resident = FALSE] ELSE sized
  ELSE IF a.content = <<>> THEN e
  ELSE [e EXCEPT !.resident = TRUE, !.content = a.content,
                 !.size = IF @ = 0 THEN Len(a.content) ELSE @]

(* Records of an attribute list: each once, none of the system, not its     *)
(* own; the list ends at an element that is broken (0).                     *)
parseAttributeListContent(e, content) ==
  LET broken == SelectInSeq(content, LAMBDA r : r = 0)
      whole == IF broken = 0 THEN content ELSE SubSeq(content, 1, broken - 1)
  IN [e EXCEPT !.refs = FoldLeft(LAMBDA refs, r :
        IF r = e.number \/ r < FirstUser \/ r \in Range(refs) THEN refs ELSE Append(refs, r),
        @, whole)]

handleAttributeListAttr(e, a) ==
  IF a.nonresident
  THEN [e EXCEPT !.listSize = a.size, !.listRuns = IF a.runs = <<>> THEN @ ELSE a.runs]
  ELSE parseAttributeListContent(e, a.content)

parseAttribute(e, a) ==
  CASE a.kind = "name" -> handleFileNameAttr(e, a)
    [] a.kind = "data" -> handleDataAttr(e, a)
    [] a.kind = "list" -> handleAttributeListAttr(e, a)
    [] OTHER -> e

parseMFTEntry(cell, n) ==
  FoldLeft(parseAttribute,
    [number |-> n, used |-> cell.used, dir |-> cell.dir, deleted |-> FALSE,
     name |-> None, space |-> "posix", parent |-> -1, size |-> 0, resident |-> FALSE,
     content |-> <<>>, runs |-> <<>>, compressed |-> FALSE, refs |-> <<>>,
     listRuns |-> <<>>, listSize |-> 0, streams |-> <<>>, path |-> <<>>,
     fixupFailed |-> ~applyFixup(cell).ok],
    AttributesOf(cell))

-----------------------------------------------------------------------------
(* The MFT itself *)

Entry0 == Cell(mft.partition + mft.boot.mft * ClusterSize, MFTRecordSize)

(* The first unnamed $DATA with runs in record 0; <<>> if there is none.    *)
parseMFTEntryForDataRuns ==
  SelectSeq(AttributesOf(Entry0), LAMBDA a :
    a.kind = "data" /\ a.stream = None /\ a.nonresident /\ a.at40 /\ a.runs # <<>>)

MftRuns == Head(parseMFTEntryForDataRuns).runs

MftSize ==
  LET size == Head(parseMFTEntryForDataRuns).size
  IN IF size > 0 THEN size ELSE RunsSize(MftRuns)

(* Where a record is, -1 if in no run or in a hole.                         *)
PlaceIn(runs, target, i) ==
  IF i = 0 THEN -1
  ELSE IF runs[i].sparse THEN -1
  ELSE mft.partition + runs[i].at * ClusterSize + target - RunsSize(SubSeq(runs, 1, i - 1))

RunOf(runs, target) ==
  SelectInSeq([i \in DOMAIN runs |-> RunsSize(SubSeq(runs, 1, i))], LAMBDA end : target < end)

AddressIn(runs, target) == PlaceIn(runs, target, RunOf(runs, target))

AddressOf(n) == AddressIn(MftRuns, n * MFTRecordSize)

(* An attribute list on the disk: a cluster that cannot be read makes the   *)
(* whole list unknown, a hole or the end of the disk ends it.               *)
expandNonResidentAttributeList(e) ==
  LET cells == [i \in DOMAIN e.listRuns |->
                  IF e.listRuns[i].sparse THEN [kind |-> "zeros"]
                  ELSE Cell(mft.partition + e.listRuns[i].at * ClusterSize, ClusterSize)]
      content == FlattenSeq([i \in DOMAIN cells |->
                               IF cells[i].kind = "list" THEN cells[i].refs ELSE <<0>>])
  IN IF e.listSize \notin 1 .. MaxList \/ \E i \in DOMAIN cells : cells[i].kind = "bad" THEN e
     ELSE parseAttributeListContent(e, SubSeq(content, 1, Min({Len(content), e.listSize})))

(* The runs that other records have for this file are put behind its own.   *)
MergeChild(main, child) ==
  [main EXCEPT !.runs = @ \o child.runs,
               !.content = IF ~main.resident /\ child.resident THEN @ \o child.content ELSE @]

MergeCell(main, cell, n) ==
  IF cell.kind = "record" THEN MergeChild(main, parseMFTEntry(cell, n)) ELSE main

MergeAt(main, place, n) ==
  IF place < 0 THEN main ELSE MergeCell(main, Cell(place, MFTRecordSize), n)

MergeRefs(full) ==
  FoldLeft(LAMBDA main, n : MergeAt(main, AddressOf(n), n), full,
           SubSeq(full.refs, 1, Min({Len(full.refs), MaxRefs})))

resolveAttributeList(e) == MergeRefs(expandNonResidentAttributeList(e))

-----------------------------------------------------------------------------
(* What is made of the records *)

HasData(e) == e.runs # <<>> \/ (e.resident /\ e.content # <<>>)

FindDeletedFiles ==
  SelectSeq(entries, LAMBDA e :
    e.deleted /\ ~e.dir /\ e.size > 0 /\ HasData(e) /\ e.name # None /\ e.name \notin SystemNames)

isLikelyRecoverable(e) ==
  /\ e.deleted /\ ~e.dir
  /\ e.size > 0
  /\ e.name # None /\ e.name \notin SystemNames
  /\ HasData(e)

(* A path leads up until a record that is not known, the root, a record     *)
(* that is its own parent, or the limit.                                    *)
buildPath[i \in DOMAIN entries, depth \in 0 .. MaxPath + 1] ==
  LET e == entries[i]
      parents == {j \in DOMAIN entries : entries[j].number = e.parent}
  IN IF depth > MaxPath \/ e.parent \in {e.number, Root} \/ parents = {} THEN <<e.name>>
     ELSE LET above == buildPath[CHOOSE j \in parents : TRUE, depth + 1]
          IN IF above = <<None>> THEN <<e.name>> ELSE Append(above, e.name)

mftEntryToRecoveredFile(e) ==
  [number |-> e.number, name |-> e.name, size |-> e.size,
   path |-> IF e.path = <<>> THEN <<e.name>> ELSE e.path,
   offset |-> IF e.runs = <<>> THEN 0 ELSE mft.partition + e.runs[1].at * ClusterSize,
   runs |-> e.runs, content |-> IF e.resident THEN e.content ELSE <<>>]

-----------------------------------------------------------------------------
(* The journal of changes *)

FindUSNJournalEntry(tree) ==
  SelectSeq(tree, LAMBDA e : e.name = JournalName /\ Range(e.path) \cap ExtendNames # {})

(* The units of the first stream $J; the partition is not added.            *)
ReadUSNJournalStream(e) ==
  LET streams == SelectSeq(e.streams, LAMBDA s : s.name = JournalStream)
      cells(r) == [k \in 1 .. RunSize(r) |->
                     IF r.sparse THEN [kind |-> "zeros"] ELSE Cell(r.at * ClusterSize + k - 1, 1)]
      all == IF streams = <<>> THEN <<>>
             ELSE FlattenSeq([i \in DOMAIN Head(streams).runs |-> cells(Head(streams).runs[i])])
      units == SubSeq(all, 1, Min({Len(all), MaxJournal}))
      lost == SelectInSeq(units, LAMBDA c : c.kind \in {"bad", "short"})
  IN IF lost = 0 THEN units ELSE SubSeq(units, 1, lost - 1)

(* Zeros are passed over; what is no journal ends it; records of another    *)
(* version are left out.                                                    *)
ParseUSNJournal(units) ==
  LET end == SelectInSeq(units, LAMBDA c : c.kind \notin {"zeros", "journal"})
      read == IF end = 0 THEN units ELSE SubSeq(units, 1, end - 1)
      records == FlattenSeq([i \in DOMAIN read |->
                   IF read[i].kind = "journal" THEN read[i].records ELSE <<>>])
  IN SelectSeq(records, LAMBDA r : r.version = 2)

(* The deletions, the first of each record and name.                        *)
ExtractDeletedFiles(records) ==
  FoldLeft(LAMBDA out, r :
    IF ~r.deletes \/ r.name = None \/ \E s \in Range(out) : s.entry = r.entry /\ s.name = r.name
    THEN out ELSE Append(out, [entry |-> r.entry, name |-> r.name]), <<>>, records)

ScanDeletedFileNames(tree) ==
  IF FindUSNJournalEntry(tree) = <<>> THEN <<>>
  ELSE ExtractDeletedFiles(
         ParseUSNJournal(ReadUSNJournalStream(Head(FindUSNJournalEntry(tree)))))

(* By name: the last event of a name replaces the earlier ones.             *)
UsnDeletedNames(events) ==
  {events[i] : i \in {i \in DOMAIN events :
     \A j \in DOMAIN events : j > i => events[j].name # events[i].name}}

-----------------------------------------------------------------------------
MftInit ==
  /\ mft \in MftVolumes
  /\ stage = "boot" /\ run = 1 /\ at = 0 /\ number = 0
  /\ entries = <<>> /\ live = <<>> /\ listed = <<>> /\ hints = {} /\ stopped = FALSE

CancelMft ==
  /\ stage \notin {"done", "failed", "cancelled"} /\ ~stopped
  /\ stopped' = TRUE
  /\ UNCHANGED <<mft, stage, run, at, number, entries, live, listed, hints>>

ReadBoot ==
  /\ stage = "boot"
  /\ LET found == /\ ValidBoot
                  /\ Entry0.kind = "record"
                  /\ parseMFTEntryForDataRuns # <<>>
                  /\ MftSize >= MFTRecordSize
     IN stage' = IF found THEN "scan" ELSE "failed"
  /\ UNCHANGED <<mft, run, at, number, entries, live, listed, hints, stopped>>

Room == run <= Len(MftRuns) /\ at + MFTRecordSize <= RunSize(MftRuns[run])

(* Where the loop looks at the context: before a run, and now and then.     *)
Looks == run <= Len(MftRuns) /\ (at = 0 \/ (Room /\ number % Interval = 0))

WithRefs(e) == IF e.refs = <<>> THEN e ELSE resolveAttributeList(e)

(* A record that is free and has a name is a deleted file.                  *)
Marked(e) == [e EXCEPT !.deleted = ~e.used /\ e.name # None]

TakeEntry(e) ==
  /\ entries' = Append(entries, e)
  /\ live' = IF isLikelyRecoverable(e) THEN Append(live, mftEntryToRecoveredFile(e)) ELSE live

TakeCell(cell) ==
  IF cell.kind = "record" /\ number >= FirstUser
  THEN TakeEntry(WithRefs(Marked(parseMFTEntry(cell, number))))
  ELSE UNCHANGED <<entries, live>>

(* A record that cannot be read still has its number.  A record of the      *)
(* system is left out.                                                      *)
ReadRecord ==
  /\ stage = "scan" /\ Room
  /\ ~(stopped /\ Looks)
  /\ TakeCell(Cell(mft.partition + MftRuns[run].at * ClusterSize + at, MFTRecordSize))
  /\ at' = at + MFTRecordSize
  /\ number' = number + 1
  /\ UNCHANGED <<mft, stage, run, listed, hints, stopped>>

NextRun ==
  /\ stage = "scan" /\ run <= Len(MftRuns) /\ ~Room
  /\ ~(stopped /\ Looks)
  /\ run' = run + 1 /\ at' = 0
  /\ UNCHANGED <<mft, stage, number, entries, live, listed, hints, stopped>>

MftRead ==
  /\ stage = "scan" /\ run > Len(MftRuns)
  /\ stage' = "select"
  /\ UNCHANGED <<mft, run, at, number, entries, live, listed, hints, stopped>>

(* FindDeletedFiles is a view of the entries.                               *)
SelectDeleted ==
  /\ stage = "select" /\ ~stopped
  /\ stage' = "tree"
  /\ UNCHANGED <<mft, run, at, number, entries, live, listed, hints, stopped>>

RebuildDirectoryTree ==
  /\ stage = "tree" /\ ~stopped
  /\ LET tree == [i \in DOMAIN entries |-> [entries[i] EXCEPT !.path = buildPath[i, 0]]]
     IN /\ entries' = tree
        /\ hints' = UsnDeletedNames(ScanDeletedFileNames(tree))
  /\ stage' = "list"
  /\ UNCHANGED <<mft, run, at, number, live, listed, stopped>>

ListFile ==
  /\ stage = "list" /\ ~stopped
  /\ Len(listed) < Len(FindDeletedFiles)
  /\ listed' = Append(listed, mftEntryToRecoveredFile(FindDeletedFiles[Len(listed) + 1]))
  /\ UNCHANGED <<mft, stage, run, at, number, entries, live, hints, stopped>>

(* The names of the journal that no file of the result has are added; this  *)
(* part does not look at the context.                                       *)
AddHints ==
  /\ stage = "list"
  /\ Len(listed) = Len(FindDeletedFiles)
  /\ hints' = {h \in hints : \A i \in DOMAIN listed : listed[i].name # h.name}
  /\ stage' = "done"
  /\ UNCHANGED <<mft, run, at, number, entries, live, listed, stopped>>

(* Whoever finds the context cancelled returns; files that were listed      *)
(* before are returned with the error.                                      *)
Abandon ==
  /\ stopped
  /\ \/ stage = "scan" /\ Looks
     \/ stage \in {"select", "tree"}
     \/ stage = "list" /\ Len(listed) < Len(FindDeletedFiles)
  /\ stage' = "cancelled"
  /\ hints' = {}
  /\ UNCHANGED <<mft, run, at, number, entries, live, listed, stopped>>

MftStep ==
  \/ ReadBoot \/ ReadRecord \/ NextRun \/ MftRead
  \/ SelectDeleted \/ RebuildDirectoryTree \/ ListFile \/ AddHints \/ Abandon

-----------------------------------------------------------------------------
(* The volume as it was written: mft.nodes, the files and directories with  *)
(* their records, and mft.place, the address of each record.                *)

Healthy(n) == mft.disk[mft.place[n]].kind = "record"
              /\ \A ok \in Range(mft.disk[mft.place[n]].marks) : ok

Torn(n) == mft.disk[mft.place[n]].kind = "record" /\ ~Healthy(n)

(* A file as the reader expects it: the runs at +0x40, nothing at +0x38 of  *)
(* the name of a resident file, a resident attribute list that is not too   *)
(* long, and the size in its own record.                                    *)
Usual(node) ==
  /\ Len(node.records) <= MaxRefs + 1
  /\ \A n \in Range(node.records) : Healthy(n) /\ \A a \in Range(mft.disk[mft.place[n]].attrs) :
       /\ a.kind = "data" /\ a.nonresident => a.at40
       /\ a.kind = "name" /\ node.content # <<>> => a.at38 = 0
       /\ a.kind = "list" => ~a.nonresident
  /\ \E a \in Range(mft.disk[mft.place[node.number]].attrs) : a.kind = "data" /\ a.stream = None

SoundMft ==
  /\ mft.boot.ok /\ Healthy(0)
  /\ \A a \in Range(Entry0.attrs) : a.kind = "data" => a.at40
  /\ \A r \in Range(MftRuns) : ~r.sparse /\ RunSize(r) % MFTRecordSize = 0

WasDeleted(node) == ~node.used /\ ~node.dir /\ node.size > 0 /\ node.name \notin SystemNames

ParentsOf(node) == {p \in mft.nodes : p.number = node.parent /\ p.dir}

(* The nodes above, from the root down.  A node is stale if the record of   *)
(* its directory is another's now: its true path is lost, as it is below a  *)
(* record whose sectors do not belong together, which may give any name.    *)
Above[node \in mft.nodes, n \in 0 .. MaxPath] ==
  IF n = 0 \/ node.parent = Root \/ ParentsOf(node) = {} THEN <<>>
  ELSE LET p == CHOOSE p \in ParentsOf(node) : TRUE IN Append(Above[p, n - 1], p)

Names(nodes) == [i \in DOMAIN nodes |-> nodes[i].name]

TrueFileOf(f, node) ==
  LET above == Above[node, MaxPath]
      chain == Append(above, node)
      whole == \A p \in Range(above) : Healthy(p.number)
  IN /\ f.number = node.number /\ f.name = node.name
     /\ f.size = node.size /\ f.runs = node.runs /\ f.content = node.content
     /\ (\A p \in Range(chain) : ~p.stale /\ ~Torn(p.number)) =>
          IsSuffix(f.path, Names(chain)) /\ (whole => f.path = Names(chain))

NoCycle == \A p \in mft.nodes : Above[p, MaxPath] = <<>> \/ Head(Above[p, MaxPath]).parent = Root

FilesTrue ==
  /\ \A node \in mft.nodes : WasDeleted(node) /\ Usual(node) =>
       \E f \in Range(listed) : TrueFileOf(f, node)
  /\ \A f \in Range(listed) : \E node \in mft.nodes :
       node.number = f.number /\ (Usual(node) => WasDeleted(node))

HintsTrue ==
  \A h \in hints :
    /\ h.name \notin {f.name : f \in Range(listed)}
    /\ mft.partition = 0 => h \in mft.deletions

(* What the scan showed while it ran is what it lists in the end; a volume  *)
(* whose MFT is in order has every deleted file whose own records are, with *)
(* its runs in order and its path as far as it can be known, no file that   *)
(* is not deleted, and only names from its journal (ScanMFT,                *)
(* FindDeletedFiles, isLikelyRecoverable, RebuildDirectoryTree).            *)
MftDelivers ==
  /\ SoundMft => stage # "failed"
  /\ stage = "done" =>
       /\ [i \in DOMAIN live |-> [live[i] EXCEPT !.path = <<>>]]
            = [i \in DOMAIN listed |-> [listed[i] EXCEPT !.path = <<>>]]
       /\ SoundMft /\ NoCycle => FilesTrue /\ HintsTrue
=============================================================================
