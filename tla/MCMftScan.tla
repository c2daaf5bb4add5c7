------------------------------ MODULE MCMftScan ------------------------------
(* Volumes for checking MftScan: nodes and how they are written, then one   *)
(* thing that is unusual or damaged.  Records 0 .. 3 are of the system, 1   *)
(* is the root.                                                             *)
EXTENDS Integers, Sequences, SequencesExt

NoName == "none"
MftRoot == 1

Node(number, name, parent, dir, used, size, content, runs, records) ==
  [number |-> number, name |-> name, parent |-> parent, dir |-> dir, used |-> used,
   size |-> size, content |-> content, runs |-> runs, records |-> records, stale |-> FALSE]

At(a, len) == [at |-> a, len |-> len, sparse |-> FALSE]
HoleOf(len) == [at |-> 0, len |-> len, sparse |-> TRUE]

(* A directory in the directory "a", a short file and one in three records  *)
(* that were deleted, a file that is in use, one of the system.             *)
Tree ==
  {Node(4, "a", 1, TRUE, TRUE, 0, <<>>, <<>>, <<4>>),
   Node(5, "b", 4, TRUE, FALSE, 0, <<>>, <<>>, <<5>>),
   Node(6, "short", 5, FALSE, FALSE, 2, <<7, 8>>, <<>>, <<6>>),
   Node(7, "long", 4, FALSE, FALSE, 9, <<>>, <<At(60, 2), HoleOf(1), At(70, 1), At(65, 3)>>,
        <<7, 8, 9>>),
   Node(10, "inuse", 1, FALSE, TRUE, 2, <<>>, <<At(80, 1)>>, <<10>>),
   Node(11, "$gone", 1, FALSE, FALSE, 2, <<>>, <<At(81, 1)>>, <<11>>)}

(* A directory whose name holds $Extend and a journal in it, which knows    *)
(* two files that are no longer in the MFT and one that is.                 *)
Journal == {Node(12, "my$Extend", 1, TRUE, TRUE, 0, <<>>, <<>>, <<12>>)}

Usn(entry, name, deletes, version) ==
  [entry |-> entry, name |-> name, deletes |-> deletes, version |-> version]

Records ==
  <<<<Usn(20, "lost", TRUE, 2), Usn(6, "short", TRUE, 2), Usn(21, "lost", TRUE, 2)>>,
    <<Usn(20, "lost", TRUE, 2), Usn(22, "new", FALSE, 2), Usn(23, "v3", TRUE, 3)>>>>

Deletions == {[entry |-> 20, name |-> "lost"], [entry |-> 6, name |-> "short"],
              [entry |-> 21, name |-> "lost"]}

-----------------------------------------------------------------------------
(* How a record is written *)

NameAttr(name, parent, at38, space) ==
  [kind |-> "name", nonresident |-> FALSE, name |-> name, parent |-> parent, at38 |-> at38,
   space |-> space]
ResidentData(content) ==
  [kind |-> "data", stream |-> NoName, nonresident |-> FALSE, content |-> content]
RunData(stream, size, runs, at40) ==
  [kind |-> "data", stream |-> stream, nonresident |-> TRUE, size |-> size, runs |-> runs,
   compressed |-> FALSE, at40 |-> at40]
ListAttr(records) == [kind |-> "list", nonresident |-> FALSE, content |-> records]
ListOnDisk(runs, size) ==
  [kind |-> "list", nonresident |-> TRUE, runs |-> runs, size |-> size]
EndMark == [kind |-> "end"]

Garbled(a) ==
  CASE a.kind = "name" -> [a EXCEPT !.name = "??"]
    [] a.kind = "data" -> IF a.nonresident THEN [a EXCEPT !.runs = <<At(99, 1)>>]
                          ELSE [a EXCEPT !.content = <<99>>]
    [] OTHER -> a

(* The last attribute before the end covers the end of the first sector.    *)
Record(used, dir, attrs) ==
  [kind |-> "record", used |-> used, dir |-> dir, attrs |-> Append(attrs, EndMark),
   raw |-> [i \in 1 .. Len(attrs) + 1 |->
              IF i = Len(attrs) THEN Garbled(attrs[i]) ELSE Append(attrs, EndMark)[i]],
   over |-> [i \in 1 .. Len(attrs) + 1 |-> IF i = Len(attrs) THEN {1} ELSE {}],
   marks |-> <<TRUE, TRUE>>]

(* The first run of a file is in its own record, the rest in the others.    *)
RecordRuns(node) ==
  IF Len(node.records) = 1 THEN <<node.runs>>
  ELSE <<SubSeq(node.runs, 1, 2), SubSeq(node.runs, 3, 3), SubSeq(node.runs, 4, 4)>>

Base(node, odd) ==
  Record(node.used, node.dir,
    (IF odd = "names" THEN <<NameAttr("A~1", node.parent, 0, "dos")>> ELSE <<>>)
    \o <<NameAttr(node.name, node.parent, IF odd = "size" THEN 1 ELSE 0, "win32")>>
    \o (IF odd = "names" THEN <<NameAttr("A~2", node.parent, 0, "dos")>> ELSE <<>>)
    \o (IF Len(node.records) = 1 THEN <<>>
        ELSE CASE odd = "list" -> <<ListOnDisk(<<At(90, 1)>>, 3)>>
               [] odd = "lists" -> <<ListOnDisk(<<At(90, 1), HoleOf(1)>>, 2),
                                     ListAttr(SubSeq(node.records, 1, 2))>>
               [] OTHER -> <<ListAttr(<<2, 7, 8, 8, 9, 0, 10>>)>>)
    \o (IF node.dir THEN <<>>
        ELSE IF node.content # <<>> THEN <<ResidentData(node.content)>>
        ELSE <<RunData(NoName, node.size, RecordRuns(node)[1], odd # "runs")>>))

JournalRecord ==
  Record(TRUE, FALSE,
    <<NameAttr("$UsnJrnl", 12, 0, "win32"), RunData("$J", 2, <<HoleOf(1), At(95, 2)>>, TRUE)>>)

RecordOf(nodes, n, odd) ==
  LET owners == {node \in nodes : n \in Range(node.records)}
      owner == CHOOSE node \in owners : TRUE
      piece == CHOOSE i \in DOMAIN owner.records : owner.records[i] = n
  IN IF n = 13 /\ 12 \in {node.number : node \in nodes} THEN JournalRecord
     ELSE IF owners = {} THEN Record(TRUE, TRUE, <<NameAttr("sys", 1, 0, "win32")>>)
     ELSE IF piece = 1 THEN Base(owner, odd)
     ELSE Record(FALSE, FALSE, <<RunData(NoName, 0, RecordRuns(owner)[piece], odd # "runs")>>)

-----------------------------------------------------------------------------
(* Geometries: units of a cluster, how the size of a record is given, where *)
(* the partition begins, and the runs of the MFT.                           *)
NbRecords == 14

Geometries ==
  {[cluster |-> 2, per |-> 1, partition |-> 0, runs |-> <<At(1, 14)>>],
   [cluster |-> 4, per |-> -1, partition |-> 200, runs |-> <<At(20, 3), At(1, 4)>>],
   [cluster |-> 1, per |-> 2, partition |-> 0, runs |-> <<At(40, 10), At(2, 18)>>],
   [cluster |-> 1, per |-> 2, partition |-> 0, runs |-> <<At(40, 9), At(2, 19)>>]}

(* Units of the runs, one after the other.                                  *)
UnitsOf(g) ==
  FlattenSeq([i \in DOMAIN g.runs |->
    [k \in 1 .. g.runs[i].len * g.cluster |-> g.partition + g.runs[i].at * g.cluster + k - 1]])

Places(g) == [n \in 0 .. NbRecords - 1 |-> UnitsOf(g)[2 * n + 1]]

Volume(g, nodes, odd, damaged, how) ==
  LET place == Places(g)
      numberAt(x) == CHOOSE n \in DOMAIN place : place[n] = x
      clean(n) == IF n = 0 THEN Record(TRUE, FALSE, <<NameAttr("$MFT", 1, 0, "win32"),
                                 RunData(NoName, 2 * NbRecords, g.runs, odd # "mft")>>)
                  ELSE RecordOf(nodes, n, odd)
      cell(n) == IF n \notin damaged THEN clean(n)
                 ELSE IF how = "torn" THEN [clean(n) EXCEPT !.marks = <<FALSE, TRUE>>]
                 ELSE [kind |-> how]
      list == g.partition + 90 * g.cluster
      journal == {95 * g.cluster, 95 * g.cluster + 1}
  IN [boot |-> [ok |-> odd # "boot", cluster |-> g.cluster, perRecord |-> g.per,
                mft |-> g.runs[1].at],
      partition |-> g.partition, end |-> 2000,
      disk |-> [x \in Range(place) \cup {list} \cup journal |->
                  IF x \in Range(place) THEN cell(numberAt(x))
                  ELSE IF x = list THEN [kind |-> "list", refs |-> <<7, 8, 9>>]
                  ELSE [kind |-> "journal", records |-> Records[x - 95 * g.cluster + 1]]],
      place |-> place, nodes |-> nodes, deletions |-> Deletions]

Odd == {"none", "names", "size", "list", "lists", "runs", "mft", "boot"}

Moved(number, parent, stale) ==
  {IF node.number = number THEN [node EXCEPT !.parent = parent, !.stale = stale] ELSE node :
     node \in Tree}

MCMftVolumes ==
  {Volume(g, Tree, odd, {}, "none") : g \in Geometries, odd \in Odd}
  \cup {Volume(g, Tree \cup Journal, "none", {n}, how) :
          g \in Geometries, n \in 0 .. 13, how \in {"bad", "zeros", "torn"}}
  \cup {Volume(g, Tree \cup Journal, "none", {}, "none") : g \in Geometries}
  \cup {Volume(g, nodes, "none", {}, "none") : g \in Geometries,
          nodes \in {Moved(4, 5, FALSE), Moved(4, 4, FALSE), Moved(6, 10, TRUE),
                     Moved(5, 30, TRUE)}}
=============================================================================
