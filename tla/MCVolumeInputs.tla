------------------------------ MODULE MCVolumeInputs ------------------------------
(* Arrays, directories, trees and files for checking VolumeReaders.          *)
EXTENDS Integers, Sequences, SequencesExt, FiniteSetsExt, Functions, TLC

(* Arrays for checking RaidArray: every level, every loss of up to two      *)
(* disks, the disks in order with two that do not belong to them, or the    *)
(* other way round.  Parities are sums over the units of a row, so one unit *)
(* that is not zero, in every place, is enough.                             *)
RaidShapes == {<<0, 3>>, <<1, 2>>, <<5, 3>>, <<5, 4>>, <<6, 4>>, <<6, 5>>, <<10, 4>>}

UnitsPerRow(level, n) ==
  2 * CASE level = 0 -> n [] level = 1 -> 1 [] level = 5 -> n - 1
        [] level = 6 -> n - 2 [] level = 10 -> n \div 2

Path(d) == [own |-> TRUE, role |-> d, disk |-> d]
Strangers == <<[own |-> FALSE, role |-> 0, disk |-> 1], [own |-> TRUE, role |-> 99, disk |-> 2]>>

PathsOf(n, lost) ==
  LET left == SelectSeq([k \in 1 .. n |-> Path(k - 1)], LAMBDA p : p.role \notin lost)
  IN {left \o Strangers, Reverse(left)}

Array(level, n, paths, at) ==
  [level |-> level, n |-> n, stripe |-> 2, rows |-> n + 1, paths |-> paths,
   data |-> [u \in 0 .. (n + 1) * UnitsPerRow(level, n) - 1 |-> IF u = at THEN 5 ELSE 0]]

MCArrays ==
  UNION {{Array(s[1], s[2], p, at) :
            at \in {a \in 0 .. (s[2] + 1) * UnitsPerRow(s[1], s[2]) - 1 : a % 2 = 1},
            p \in UNION {PathsOf(s[2], lost) :
                          lost \in {l \in SUBSET (0 .. s[2] - 1) : Cardinality(l) <= 2}}} :
           s \in RaidShapes}

MCReads == {[offset |-> o, want |-> w] : o \in {0, 5}, w \in {3, 12, 99}}

-----------------------------------------------------------------------------
(* Volumes for checking DirWalk: three clusters or six inodes, every FAT    *)
(* and every target of two directory entries; most of them are damaged.     *)
Slotted(t, n, ref, id, del) == [t |-> t, n |-> n, del |-> del, ref |-> ref, id |-> id]

MCHeap == 2 .. 4
MCFat == [MCHeap -> {0, 1} \cup MCHeap]

(* exFAT: an entry and the slot that belongs to it, which may lie in the    *)
(* next cluster of the chain.                                               *)
XFile(id) == Slotted("file", 1, 0, id, FALSE)
XDir(ref) == Slotted("dir", 1, ref, 0, FALSE)
More == Slotted("more", 1, 0, 0, FALSE)
Zero == Slotted("zero", 0, 0, 0, FALSE)
Label(n) == Slotted("other", n, 0, 0, FALSE)

XData(x, y) ==
  {[c \in MCHeap |-> CASE c = 2 -> <<Label(0), XDir(x), More, XFile(1), More>>
                       [] c = 3 -> <<XFile(2), More, XDir(y), More, Zero, Zero>>
                       [] c = 4 -> <<XFile(3), More, Zero>>],
   [c \in MCHeap |-> CASE c = 2 -> <<XDir(x), More, XFile(1)>>
                       [] c = 3 -> <<XFile(2), More, Zero, Zero>>
                       [] c = 4 -> <<More, XDir(y), More>>]}

ExfatDisks ==
  {[fs |-> "exfat", root |-> 2, fat |-> f, data |-> d, inodes |-> <<>>] :
     f \in MCFat, d \in UNION {XData(x, y) : x \in 2 .. 5, y \in {0, 3, 4}}}

SFile(id) == Slotted("file", 0, 0, id, id = 2)
SDir(ref, del) == Slotted("dir", 0, ref, 0, del)

FData(x, y, root) ==
  [c \in {0} \cup MCHeap |->
     CASE c = root -> <<SDir(x, FALSE), SFile(1)>>
       [] c = 3 -> <<SFile(2), SDir(y, FALSE), SDir(4, TRUE)>>
       [] c = 4 -> <<SFile(3), Zero>>
       [] OTHER -> <<SFile(4)>>]

FatDisks ==
  {[fs |-> "fat", root |-> r, fat |-> f, data |-> FData(x, y, r), inodes |-> <<>>] :
     r \in {0, 2}, f \in MCFat, x \in {3, 4, 5}, y \in {0, 2, 4}}

(* ext: inode 2 is the root, 3 and 4 may be directories, the others are     *)
(* files, gone, deleted or not.                                             *)
NodeOf(kind, del, data) ==
  [dir |-> kind = "dir", reg |-> kind = "reg", del |-> del, data |-> data]

EntryOf(i, del) == Slotted(IF i \in 2 .. 4 THEN "dir" ELSE "file", 0, i, i, del)

ExtDisks ==
  {[fs |-> "ext", root |-> 2, fat |-> <<>>, data |-> <<>>,
    inodes |-> [i \in 1 .. 6 |->
       CASE i = 2 -> NodeOf("dir", FALSE, <<EntryOf(x, FALSE), EntryOf(5, ghost)>>)
         [] i = 3 -> NodeOf("dir", FALSE, <<EntryOf(y, FALSE), EntryOf(6, FALSE)>>)
         [] i = 4 -> NodeOf("dir", FALSE, <<EntryOf(z, FALSE), EntryOf(4, TRUE)>>)
         [] i = 5 -> NodeOf("reg", ghost, <<>>)
         [] i = 6 -> NodeOf(k, gone, <<>>)
         [] OTHER -> NodeOf("none", FALSE, <<>>)]] :
    x \in 2 .. 4, y \in 3 .. 6, z \in {3, 5, 6}, ghost \in BOOLEAN, gone \in BOOLEAN,
    k \in {"reg", "none"}}

MCDisks == ExfatDisks \cup FatDisks \cup ExtDisks

-----------------------------------------------------------------------------
(* Volumes for checking TreeWalk.  Blocks 1 .. 9; the map is in 1 and 2     *)
(* (and 3), the roots of Btrfs in 4, the files in 5 .. 8 and 9.             *)
Rec(t, id, parent, dir, off, xid) ==
  [t |-> t, id |-> id, parent |-> parent, dir |-> dir, off |-> off, xid |-> xid]

MapTo(a, at, xid) == Rec("map", a, 0, FALSE, at, xid)
RootAt(a) == Rec("root", 0, 0, FALSE, a, 0)
InodeOf(id, dir) == Rec("inode", id, 0, dir, 0, 0)
EntryFor(id, parent, dir) == Rec("entry", id, parent, dir, 0, 0)
Extent(id, off) == Rec("extent", id, 0, FALSE, off, 0)

Leaf(recs, ok) == [ok |-> ok, leaf |-> TRUE, kids |-> <<>>, recs |-> recs]
Inner(kids) == [ok |-> TRUE, leaf |-> FALSE, kids |-> kids, recs |-> <<>>]

(* File 11 in the root, directory 12 with file 13.  p is the parent of 12.  *)
First == <<EntryFor(11, 10, FALSE), InodeOf(10, TRUE), InodeOf(11, FALSE), Extent(11, 0)>>
Second(p) == <<EntryFor(12, p, TRUE), InodeOf(12, TRUE), Extent(11, 1)>>
Third == <<EntryFor(13, 12, FALSE), InodeOf(13, FALSE), Extent(13, 0), Extent(13, 1)>>

(* Addresses 21 .. 24 of the second tree; 25 is unknown to the map.         *)
Kids == {<<22, 23, 24>>, <<22, 25, 24>>, <<22, 23>>, <<22, 21>>, <<23, 22, 22>>, <<22, 0, 23>>}

MapLeaf(newest) ==
  <<MapTo(21, 5, 1), MapTo(22, 6, 1), MapTo(22, 9, newest), MapTo(23, 7, 2), MapTo(24, 8, 1)>>

(* mapKids and third are the children of the object map's root and the      *)
(* other node of the map.                                                   *)
ApfsVolume(mapKids, third, kids, newest, ok, inner, p, x) ==
  [fs |-> "apfs", sys |-> <<>>, mapRoot |-> 1, root |-> 21, catalog |-> <<>>, maxXid |-> x,
   node |-> [b \in {1, 2, 3, 5, 6, 7, 8, 9} |->
     CASE b = 1 -> Inner(mapKids)
       [] b = 2 -> Leaf(MapLeaf(newest), TRUE)
       [] b = 3 -> third
       [] b = 5 -> Inner(kids)
       [] b = 6 -> Leaf(First, TRUE)
       [] b = 7 -> IF inner THEN Inner(<<24, 21>>) ELSE Leaf(Second(p), ok)
       [] b = 8 -> Leaf(Third, TRUE)
       [] b = 9 -> Leaf(<<InodeOf(10, TRUE)>>, TRUE)]]

OneMore(ok) == Leaf(<<MapTo(24, 8, 3)>>, ok)
Many == Leaf([i \in 1 .. 3 |-> MapTo(25 + i, 9, 1)], TRUE)

ApfsVolumes ==
  {ApfsVolume(mapKids, OneMore(okMap), kids, newest, ok, inner, p, x) :
     mapKids \in {<<2>>, <<2, 3>>, <<1, 3, 0, 2>>}, kids \in Kids, newest \in {0, 2, 5},
     okMap \in BOOLEAN, ok \in BOOLEAN, inner \in BOOLEAN, p \in {10, 12}, x \in {2, 9}}

(* Object maps of three levels, too large, or in a circle.                  *)
OddMaps ==
  {ApfsVolume(mapKids, third, <<22, 23, 24>>, 5, TRUE, FALSE, 10, 9) :
     mapKids \in {<<2, 3>>, <<3, 2>>, <<3>>, <<2>>, <<3, 1, 2>>},
     third \in {Inner(<<2>>), Inner(<<3, 2>>), Inner(<<2, 1>>), Inner(<<1>>), Inner(<<4, 0>>), Many}}

(* Logical addresses 31 .. 33 are known to the system chunks, the others    *)
(* are in the chunk tree.                                                   *)
Sys == [a \in 31 .. 33 |-> [at |-> a - 30, xid |-> 0]]

BtrfsVolumes ==
  {[fs |-> "btrfs", sys |-> Sys, mapRoot |-> 31, root |-> 34, catalog |-> <<>>, maxXid |-> 0,
    node |-> [b \in 1 .. 9 |->
       CASE b = 1 -> Inner(mapKids)
         [] b = 2 -> Leaf([i \in 1 .. 3 |-> MapTo(33 + i, 3 + i, 0)], TRUE)
         [] b = 3 -> Leaf([i \in 1 .. 3 |-> MapTo(36 + i, 6 + i, 0)], okMap)
         [] b = 4 -> Leaf(roots, TRUE)
         [] b = 5 -> Inner(kids)
         [] b = 6 -> Leaf(First, TRUE)
         [] b = 7 -> IF inner THEN Inner(<<38, 35>>) ELSE Leaf(Second(p), ok)
         [] b = 8 -> Leaf(Third, TRUE)
         [] b = 9 -> Leaf(First, TRUE)]] :
     mapKids \in {<<32>>, <<32, 33>>, <<33, 32, 40>>}, okMap \in BOOLEAN, ok \in BOOLEAN,
     inner \in BOOLEAN, p \in {10, 12},
     roots \in {<<RootAt(35)>>, <<RootAt(39), RootAt(35)>>, <<RootAt(40), RootAt(35)>>},
     kids \in {<<36, 37, 38>>, <<36, 40, 38>>, <<36, 35>>, <<36, 37>>}}

HfsVolumes ==
  {[fs |-> "hfs", sys |-> <<>>, mapRoot |-> 0, root |-> 0, catalog |-> c, maxXid |-> 0,
    node |-> [b \in 1 .. 4 |->
       CASE b = 1 -> Inner(<<2, 3>>)
         [] b = 2 -> Leaf(<<EntryFor(11, 10, FALSE), EntryFor(12, p, TRUE)>>, ok)
         [] b = 3 -> Leaf(<<EntryFor(13, 12, FALSE), EntryFor(14, q, TRUE)>>, TRUE)
         [] b = 4 -> Leaf(<<EntryFor(15, 14, FALSE)>>, ok2)]] :
     c \in {<<1, 2, 3, 4>>, <<1, 3, 2>>, <<3, 4>>}, p \in {10, 12, 14}, q \in {10, 12, 14, 16},
     ok \in BOOLEAN, ok2 \in BOOLEAN}

MCVolumes == ApfsVolumes \cup OddMaps \cup BtrfsVolumes \cup HfsVolumes

-----------------------------------------------------------------------------
(* Files for checking FileImage: one to three pieces, in any order on the   *)
(* disk or holes, as each file system describes them.                       *)
MCBase == 4
FatHeap == 2 .. 9

Piece(at, len) == [at |-> at, len |-> len]  \* at 0: a hole

Apart(s) ==
  \A i, j \in DOMAIN s :
    i # j /\ s[i].at # 0 /\ s[j].at # 0 =>
      s[i].at + s[i].len <= s[j].at \/ s[j].at + s[j].len <= s[i].at

Pieces == {Piece(at, len) : at \in {0, 2, 3, 5, 8}, len \in 1 .. 2}
Layouts == {s \in [{1} -> Pieces] \cup [1 .. 2 -> Pieces] \cup [1 .. 3 -> Pieces] : Apart(s)}
Dense == {s \in Layouts : \A i \in DOMAIN s : s[i].at # 0}

BlocksIn(s) ==
  FlattenSeq([i \in DOMAIN s |-> [k \in 1 .. s[i].len |-> IF s[i].at = 0 THEN 0 ELSE s[i].at + k - 1]])

File(fs, size, blocks, meta) ==
  [fs |-> fs, size |-> size, blocks |-> blocks, lost |-> {}, blank |-> {}, meta |-> meta]

(* A file of every size for each layout and its description.                *)
Described(fs, meta) ==
  {File(fs, 2 * Len(BlocksIn(s)) - less, BlocksIn(s), meta[s]) : s \in DOMAIN meta, less \in {0, 1}}

(* The numbers of the blocks from piece i on.                               *)
From(s, i) == Len(BlocksIn(SubSeq(s, 1, i - 1))) + 1 .. Len(BlocksIn(s))
FirstHole(s) == Min({i \in DOMAIN s : s[i].at = 0})
Holed == {s \in Layouts : \E i \in DOMAIN s : s[i].at = 0}
Recorded(s) == SelectSeq(s, LAMBDA p : p.at # 0)

(* The description meta of a layout of dom lacks the blocks from piece at   *)
(* on; the file may be shorter than what is described.                      *)
Lacking(fs, dom, meta(_), at(_)) ==
  {[File(fs, 2 * Len(BlocksIn(s)) - less, BlocksIn(s), meta(s)) EXCEPT !.lost = From(s, at(s))] :
     s \in {s \in dom : Len(BlocksIn(s)) > 1}, less \in {1, 3}}

SecondPiece(s) == 2
FirstPiece(s) == 1
LastPiece(s) == Len(s)

Split == {s \in Layouts : Len(s) >= 2}

-----------------------------------------------------------------------------
(* NTFS: runs with their distance from the one before.                      *)
LastAt(s, i) ==
  LET before == {j \in 1 .. i - 1 : s[j].at # 0} IN IF before = {} THEN 0 ELSE s[Max(before)].at

RunsOf(s) ==
  [runs |-> [i \in DOMAIN s |->
     [sparse |-> s[i].at = 0, count |-> s[i].len,
      delta |-> IF s[i].at = 0 THEN 0 ELSE s[i].at - LastAt(s, i)]]]

NtfsFiles ==
  Described("ntfs", [s \in Layouts |-> RunsOf(s)])
  \cup Lacking("ntfs", Split, LAMBDA s : RunsOf(Front(s)), LastPiece)
  \cup {File("resident", 3, <<2, 3>>, [data |-> <<4, 5, 6>>])}

(* FAT, exFAT: the chain of the file in a table that is free otherwise, or  *)
(* a file without a chain.                                                  *)
Chain(blocks, c, eoc) ==
  LET its == {i \in DOMAIN blocks : blocks[i] = c}
  IN IF its = {} THEN 0 ELSE IF Max(its) = Len(blocks) THEN eoc ELSE blocks[Max(its) + 1]

Table(s, eoc) == [c \in FatHeap |-> Chain(BlocksIn(s), c, eoc)]

Digit(v, d) ==
  IF d = 0 THEN v % MCBase
  ELSE IF d = 1 THEN (v \div MCBase) % MCBase ELSE v \div (MCBase * MCBase)

Nibbles(f) ==
  [k \in 0 .. 36 |-> IF k \div 3 \in DOMAIN f THEN Digit(f[k \div 3], k % 3) ELSE 0]

Fat(s, eoc) == [first |-> s[1].at, table |-> Nibbles(Table(s, eoc))]
FatLast(s) == Fat(s, 62)
FatFirst(s) == Fat(s, 56)

Exfat(s) == [first |-> s[1].at, noChain |-> FALSE, table |-> Table(s, 1)]

(* The chain breaks off behind the first piece, or leads back to its start. *)
Broken(s, next) == [Table(s, 62) EXCEPT ![s[1].at + s[1].len - 1] = next]
BrokenFat(s) == [first |-> s[1].at, table |-> Nibbles(Broken(s, 0))]
CircularFat(s) == [first |-> s[1].at, table |-> Nibbles(Broken(s, s[1].at))]
BrokenExfat(s) == [first |-> s[1].at, noChain |-> FALSE, table |-> Broken(s, 0)]

WithoutChain(fs, first, size, meta) ==
  File(fs, size, [i \in 1 .. (size + 1) \div 2 |-> first + i - 1], meta)

FatFiles ==
  Described("fat", [s \in Dense |-> FatLast(s)]) \cup Described("fat", [s \in Dense |-> FatFirst(s)])
  \cup {WithoutChain("fat", f, z, [first |-> f, table |-> [k \in 0 .. 36 |-> 0]]) :
          z \in 1 .. 6, f \in {2, 5}}
  \cup Described("exfat", [s \in Dense |-> Exfat(s)])
  \cup Lacking("fat", Split \cap Dense, BrokenFat, SecondPiece)
  \cup Lacking("fat", Split \cap Dense, CircularFat, SecondPiece)
  \cup Lacking("exfat", Split \cap Dense, BrokenExfat, SecondPiece)
  \cup {WithoutChain("exfat", f, z, [first |-> f, noChain |-> TRUE, table |-> [c \in FatHeap |-> 0]]) :
          z \in 1 .. 6, f \in {2, 5}}

(* ext: extents, those of a hole longer than an initialised one can be; in  *)
(* the inode or in two leaves, of which one may be unreadable; or pointers. *)
Entries(s) == [i \in DOMAIN s |-> IF s[i].at = 0 THEN [at |-> 9, len |-> s[i].len + 2] ELSE s[i]]
ExtNode(ok, entries) == [ok |-> ok, entries |-> entries]

Flat(s) == [depth |-> 0, nodes |-> [k \in {0} |-> ExtNode(TRUE, Entries(s))]]
Leaves(ok1, entries1, ok2, entries2, ok3, entries3) ==
  [depth |-> 1,
   nodes |-> [k \in 0 .. 3 |-> CASE k = 0 -> ExtNode(TRUE, <<1, 2, 3>>)
                                 [] k = 1 -> ExtNode(ok1, entries1)
                                 [] k = 2 -> ExtNode(ok2, entries2)
                                 [] k = 3 -> ExtNode(ok3, entries3)]]

Deep(s) == Leaves(TRUE, <<Entries(s)[1]>>, TRUE, Tail(Entries(s)), TRUE, <<>>)
TornEnd(s) == Leaves(TRUE, <<Entries(s)[1]>>, FALSE, Tail(Entries(s)), TRUE, <<>>)
TornStart(s) == Leaves(FALSE, <<Entries(s)[1]>>, TRUE, Tail(Entries(s)), TRUE, <<>>)
TornMiddle(s) ==
  Leaves(TRUE, <<Entries(s)[1]>>, FALSE, <<Entries(s)[2]>>, TRUE, Tail(Tail(Entries(s))))
Gapped(s) == Flat(Recorded(s))

Nth(b, i) == IF i <= Len(b) THEN b[i] ELSE 0
Pointers(s) ==
  LET b == BlocksIn(s)
  IN [direct |-> <<Nth(b, 1), Nth(b, 2)>>,
      indirect |-> <<IF Len(b) > 2 THEN 1 ELSE 0, IF Len(b) > 4 THEN 2 ELSE 0>>,
      nodes |-> [k \in 0 .. 3 |-> CASE k = 0 -> ExtNode(TRUE, <<>>)
                                    [] k = 1 -> ExtNode(TRUE, <<Nth(b, 3), Nth(b, 4)>>)
                                    [] k = 2 -> ExtNode(TRUE, <<3, 0>>)
                                    [] k = 3 -> ExtNode(TRUE, <<Nth(b, 5), Nth(b, 6)>>)]]

Without(s, node) == [Pointers(s) EXCEPT !.nodes[node].ok = FALSE]

(* Blocks 3 and 4, or 5 and 6, are a hole without pointer blocks.           *)
SparseFile(fifth, b) ==
  [File("ext-indirect", 2 * Len(b) - 1, b,
        [direct |-> <<b[1], b[2]>>, indirect |-> <<IF fifth THEN 1 ELSE 0, 2>>,
         nodes |-> [k \in 0 .. 3 |->
            CASE k = 0 -> ExtNode(TRUE, <<>>)
              [] k = 1 -> ExtNode(TRUE, <<b[3], b[4]>>)
              [] k = 2 -> ExtNode(TRUE, IF fifth THEN <<0, 3>> ELSE <<3, 0>>)
              [] k = 3 -> ExtNode(TRUE, <<b[Len(b) - 1], b[Len(b)]>>)]])
     EXCEPT !.lost = (IF fifth THEN 5 ELSE 3) .. Len(b)]

ExtFiles ==
  Described("ext", [s \in Split |-> Flat(s)]) \cup Described("ext", [s \in Split |-> Deep(s)])
  \cup Described("ext-indirect", [s \in Layouts |-> Pointers(s)])
  \cup Lacking("ext", Split, TornEnd, SecondPiece) \cup Lacking("ext", Split, TornStart, FirstPiece)
  \cup Lacking("ext", {s \in Split : Len(s) = 3}, TornMiddle, SecondPiece)
  \cup Lacking("ext", Holed \ {s \in Layouts : Recorded(s) = <<>>}, Gapped, FirstHole)
  \cup {[f EXCEPT !.lost = 3 .. Len(f.blocks)] :
          f \in {File("ext-indirect", 2 * Len(BlocksIn(s)) - 1, BlocksIn(s), Without(s, 1)) :
                   s \in {s \in Split : Len(BlocksIn(s)) > 2}}}
  \cup {SparseFile(TRUE, <<2, 3, 5, 6, 0, 0, 8, 9>>), SparseFile(FALSE, <<2, 3, 0, 0, 8, 9>>)}

(* Btrfs: logical 20 .. 23 is 6 .. 9, 24 .. 27 is 2 .. 5.                   *)
Chunks == <<[start |-> 20, len |-> 4, phys |-> 6], [start |-> 24, len |-> 4, phys |-> 2]>>
LogicalOf(b) == IF b <= 5 THEN b + 22 ELSE b + 14
TwoTo(len) == [k \in 1 .. len |-> 3 + k]  \* len units from block 2 on

BtrfsExtent(kind, at, len, off, compressed, data) ==
  [kind |-> kind, disk |-> at, len |-> len, off |-> off, compressed |-> compressed, data |-> data]

BtrfsMeta(extents) ==
  [chunks |-> Chunks, expands |-> [b \in {3, 6} |-> TwoTo(6)], extents |-> extents]

(* Holes that no record of an extent stands for.                            *)
NoHoles(s) ==
  BtrfsMeta([i \in DOMAIN Recorded(s) |->
               BtrfsExtent("regular", LogicalOf(Recorded(s)[i].at), Recorded(s)[i].len, 0, FALSE, <<>>)])

(* Three blocks of which the first two are where no chunk is (at 30), or    *)
(* packed in a way that cannot be undone (at 21), as it was or beginning    *)
(* inside a piece on the disk.                                              *)
Unreadable(at, packed) ==
  [File("btrfs", 5, <<3, 4, 8>>,
        BtrfsMeta(<<BtrfsExtent("regular", at, 2, 0, packed, <<>>),
                    BtrfsExtent("regular", 22, 1, 0, FALSE, <<>>)>>)) EXCEPT !.blank = {1, 2}]

Inside ==
  [File("btrfs", 5, <<6, 7, 8>>,
        BtrfsMeta(<<BtrfsExtent("regular", 22, 1, 0, FALSE, <<>>),
                    BtrfsExtent("regular", 20, 2, 1, FALSE, <<>>)>>))
     EXCEPT !.blocks = <<8, 7, 8>>, !.lost = {2, 3}]

WithHoles(s) ==
  BtrfsMeta([i \in DOMAIN s |-> BtrfsExtent("regular", IF s[i].at = 0 THEN 0 ELSE LogicalOf(s[i].at),
                                            s[i].len, 0, FALSE, <<>>)])
Preallocated(s) ==
  BtrfsMeta([i \in DOMAIN s |-> BtrfsExtent(IF s[i].at = 0 THEN "prealloc" ELSE "regular",
                                            IF s[i].at = 0 THEN 20 ELSE LogicalOf(s[i].at),
                                            s[i].len, 0, FALSE, <<>>)])

BtrfsFiles ==
  Described("btrfs", [s \in Layouts |-> WithHoles(s)]) \cup Described("btrfs", [s \in Layouts |-> Preallocated(s)])
  \cup Lacking("btrfs", Holed \ {s \in Layouts : Recorded(s) = <<>>}, NoHoles, FirstHole)
  \cup {Unreadable(30, FALSE), Unreadable(30, TRUE), Unreadable(21, TRUE), Inside}
  \cup {File("btrfs", 5, <<3, 4, 8>>,
             BtrfsMeta(<<BtrfsExtent("regular", at, 2, 1, TRUE, <<>>),
                         BtrfsExtent("regular", 22, 1, 0, FALSE, <<>>)>>)) : at \in {20, 25}}
  \cup {File("btrfs", 3, <<3, 4>>, BtrfsMeta(<<BtrfsExtent("inline", 0, 2, 0, FALSE, <<6, 7, 8>>)>>))}

(* APFS and HFS+: the pieces themselves.                                    *)
ThePieces(s) == [extents |-> s]

(* A catalog record has room for a part of the extents only.                *)
InCatalog(s) == ThePieces(Front(s))

MacFiles ==
  Described("hfs", [s \in Dense |-> ThePieces(s)])
  \cup Lacking("hfs", Split \cap Dense, InCatalog, LastPiece)
  \cup Described("apfs", [s \in Layouts |-> ThePieces(s)])

MCFiles == NtfsFiles \cup FatFiles \cup ExtFiles \cup BtrfsFiles \cup MacFiles
=============================================================================
