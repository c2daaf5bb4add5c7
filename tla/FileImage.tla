------------------------------ MODULE FileImage ------------------------------
(***************************************************************************)
(* From what a file system says of a file to the bytes that are written:   *)
(* the clusters, runs or extents of a file are listed and then copied one  *)
(* after the other (internal/recovery/writer.go and the scans of APFS and  *)
(* HFS+).  A block is two units long; a unit is named by its place on the  *)
(* disk, 0 is a zero, so that what is written shows where it came from.    *)
(*                                                                         *)
(* A file is [fs, size, blocks, lost, blank, meta]: its true blocks in     *)
(* order (0: a hole), its size in units, the numbers of the blocks that    *)
(* its description does not lead to and of those that it leads to but that *)
(* cannot be had, and how the volume describes it.                         *)
(***************************************************************************)
EXTENDS Integers, Sequences, SequencesExt, FiniteSetsExt, Functions, FatChain

CONSTANTS
  Files,
  Base,     \* of a digit of FAT12 (16)
  Heap,     \* the clusters of a FAT or exFAT volume
  MaxExtent,\* the longest initialised extent of ext (32768)
  NDirect,  \* direct blocks of an inode (12)
  PerBlock, \* pointers in a block (256)
  MaxShort  \* short reads of one copy in an instance

VARIABLES
  file,
  todo,   \* segments that are still to be copied: [at, data, packed]
  out,    \* what the output has
  result, \* "listing", "writing", "ok", "partial", "failed"
  shorts  \* history: how long the output was after each read that came up short

imageVars == <<file, todo, out, result, shorts>>

Unit(b, k) == 2 * b + k
Zeros(len) == [k \in 1 .. len |-> 0]
DiskUnits(b, len) == [k \in 1 .. len |-> Unit(b, k - 1)]

(* A segment is read from the disk (at a block), deciphered from there if   *)
(* it is packed, or at hand (at 0).                                         *)
FromDisk(b, len) == [at |-> b, data |-> DiskUnits(b, len), packed |-> FALSE]
Packed(b, data) == [at |-> b, data |-> data, packed |-> TRUE]
Ready(data) == [at |-> 0, data |-> data, packed |-> FALSE]
Hole(len) == Ready(Zeros(len))
Segment(b, len) == IF b = 0 THEN Hole(len) ELSE FromDisk(b, len)

Cut(data, first, last) == SubSeq(data, first, IF last < Len(data) THEN last ELSE Len(data))

BlocksOf(size) == (size + 1) \div 2

-----------------------------------------------------------------------------
(* The lists *)

(* Mutant: a run is placed relative to the beginning of the volume.         *)
parseDataRunsAbsolute(runs) ==
  [i \in DOMAIN runs |->
     IF runs[i].sparse THEN Hole(2 * runs[i].count)
     ELSE FromDisk(runs[i].delta, 2 * runs[i].count)]

(* parseDataRuns: a run is placed relative to the one before it that is not *)
(* sparse.                                                                  *)
parseDataRuns(runs) ==
  LET at(i) == FoldFunctionOnSet(LAMBDA a, b : a + b, 0, [j \in DOMAIN runs |-> runs[j].delta],
                                 {j \in 1 .. i : ~runs[j].sparse})
  IN [i \in DOMAIN runs |->
        IF runs[i].sparse THEN Hole(2 * runs[i].count) ELSE FromDisk(at(i), 2 * runs[i].count)]

(* FAT12: the marks of the table are brought to those of FAT32.             *)
Eoc == 1
BadCluster == 0
FatEntry(table) ==
  [c \in Heap |->
     LET value == Fat12Entry(table, Base, c)
     IN IF value >= Base * Base * Base - 8 THEN Eoc
        ELSE IF value = Base * Base * Base - 9 THEN BadCluster ELSE value]

ClusterList ==
  LET needed == BlocksOf(file.size)
      first == file.meta.first
  IN IF file.fs = "fat"
     THEN FatClusterList(FollowFATChain(FatEntry(file.meta.table), Heap, Eoc, first).chain,
                         first, needed, Heap)
     ELSE ExfatClusterList(file.meta.noChain,
                           FollowFATChain(file.meta.table, Heap, Eoc, first).chain,
                           first, needed, Heap)

(* walkExtentTree: a node that cannot be read is passed over; an extent     *)
(* that is too long is not initialised.  Nothing looks at the number of the *)
(* block in the file: where an extent is missing, what follows moves up.    *)
walkExtentTree[id \in Nat, depth \in Nat] ==
  LET node == file.meta.nodes[id]
  IN IF ~node.ok THEN <<>>
     ELSE IF depth = 0
     THEN [i \in DOMAIN node.entries |->
             LET e == node.entries[i]
             IN IF e.len > MaxExtent THEN Hole(2 * (e.len - MaxExtent))
                ELSE Segment(e.at, 2 * e.len)]
     ELSE FlattenSeq([i \in DOMAIN node.entries |-> walkExtentTree[node.entries[i], depth - 1]])

(* walkIndirectBlocks: the direct blocks, then those of the pointer blocks; *)
(* a missing pointer block above the lowest level gives no block at all.    *)
walkIndirect[id \in Nat, level \in Nat] ==
  LET node == file.meta.nodes[id]
  IN IF id = 0 \/ ~node.ok THEN <<>>
     ELSE IF level = 1 THEN [i \in 1 .. PerBlock |-> Segment(node.entries[i], 2)]
     ELSE FlattenSeq([i \in 1 .. PerBlock |-> walkIndirect[node.entries[i], level - 1]])

walkIndirectBlocks ==
  [i \in 1 .. NDirect |-> Segment(file.meta.direct[i], 2)]
    \o walkIndirect[file.meta.indirect[1], 1] \o walkIndirect[file.meta.indirect[2], 2]

(* MapLogical: the chunk that ends after the address, if it has begun.      *)
MapLogical(logical) ==
  LET after == SelectSeq(file.meta.chunks, LAMBDA c : c.start + c.len > logical)
  IN IF after = <<>> \/ Head(after).start > logical THEN 0
     ELSE Head(after).phys + logical - Head(after).start

(* An extent of Btrfs.  What is compressed is decoded (expands) and cut; an *)
(* address that no chunk maps and data that cannot be decoded give zeros.   *)
BtrfsSegment(e) ==
  LET len == 2 * e.len
      at == MapLogical(e.disk)
  IN CASE e.kind = "inline" -> Ready(e.data)
       [] e.kind = "prealloc" \/ (e.kind = "regular" /\ e.disk = 0) -> Hole(len)
       [] e.kind = "regular" /\ e.disk # 0 ->
            IF at = 0 THEN Hole(len)
            ELSE IF ~e.compressed THEN FromDisk(at, len)
            ELSE Packed(at, IF at \in DOMAIN file.meta.expands
                            THEN Cut(file.meta.expands[at], 2 * e.off + 1, 2 * e.off + len)
                            ELSE Zeros(len))

Segments ==
  CASE file.fs = "resident" -> <<Ready(file.meta.data)>>
    [] file.fs = "ntfs" -> parseDataRuns(file.meta.runs)
    [] file.fs \in {"fat", "exfat"} ->
         [i \in DOMAIN ClusterList |-> FromDisk(ClusterList[i], 2)]
    [] file.fs = "ext" -> walkExtentTree[0, file.meta.depth]
    [] file.fs = "ext-indirect" -> walkIndirectBlocks
    [] file.fs = "btrfs" -> [i \in DOMAIN file.meta.extents |-> BtrfsSegment(file.meta.extents[i])]
    [] file.fs \in {"apfs", "hfs"} ->
         [i \in DOMAIN file.meta.extents |->
            Segment(file.meta.extents[i].at, 2 * file.meta.extents[i].len)]

-----------------------------------------------------------------------------
ImageInit ==
  /\ file \in Files
  /\ todo = <<>> /\ out = <<>> /\ result = "listing" /\ shorts = <<>>

(* A file with nothing to copy is refused.                                  *)
List ==
  /\ result = "listing"
  /\ todo' = Segments
  /\ result' = IF Segments = <<>> THEN "failed" ELSE "writing"
  /\ UNCHANGED <<file, out, shorts>>

Left == file.size - Len(out)

Copying == result = "writing" /\ todo # <<>> /\ (Left > 0 \/ file.fs = "apfs")

(* APFS copies whole extents, whatever the size of the file.                *)
Asked == LET data == Head(todo).data
         IN IF file.fs = "apfs" THEN data ELSE Cut(data, 1, Left)

WriteSegment ==
  /\ Copying
  /\ out' = out \o Asked
  /\ todo' = Tail(todo)
  /\ UNCHANGED <<file, result, shorts>>

(* A read fails and gives nothing.                                          *)
ReadFails ==
  /\ Copying /\ Head(todo).at # 0
  /\ result' = "failed"
  /\ UNCHANGED <<file, todo, out, shorts>>

(* A read fails after it has given something, which is no failure for the   *)
(* writers.  NTFS, APFS and HFS+ go on where it stopped, the others with    *)
(* the next segment.  What is packed is then deciphered in part or replaced *)
(* by zeros.                                                                *)
GoesOn == file.fs \in {"ntfs", "apfs", "hfs"}

ReadShort ==
  /\ Copying /\ Head(todo).at # 0 /\ Len(shorts) < MaxShort
  /\ \E got \in 0 .. Len(Asked) - 1 :
       /\ got > 0 \/ Head(todo).packed
       /\ out' = out \o SubSeq(Asked, 1, got)
       /\ todo' = IF GoesOn
                  THEN <<[Head(todo) EXCEPT !.data = SubSeq(@, got + 1, Len(@))]>> \o Tail(todo)
                  ELSE Tail(todo)
       /\ shorts' = Append(shorts, Len(out) + got)
  /\ UNCHANGED <<file, result>>

Undeciphered ==
  /\ Copying /\ Head(todo).packed /\ Len(shorts) < MaxShort
  /\ out' = out \o Zeros(Len(Asked))
  /\ todo' = Tail(todo)
  /\ shorts' = Append(shorts, Len(out))
  /\ UNCHANGED <<file, result>>

(* The size is compared, except for APFS and HFS+.                          *)
Finish ==
  /\ result = "writing" /\ (todo = <<>> \/ (Left <= 0 /\ file.fs # "apfs"))
  /\ result' = IF Len(out) # file.size /\ file.fs \notin {"apfs", "hfs"} THEN "partial" ELSE "ok"
  /\ UNCHANGED <<file, todo, out, shorts>>

ImageNext == List \/ WriteSegment \/ ReadFails \/ ReadShort \/ Undeciphered \/ Finish

ImageSpec == ImageInit /\ [][ImageNext]_imageVars

-----------------------------------------------------------------------------
(* The bytes of the file.                                                  *)
TrueUnits ==
  [u \in 1 .. file.size |->
     LET b == file.blocks[(u + 1) \div 2] IN IF b = 0 THEN 0 ELSE Unit(b, (u - 1) % 2)]

(* Blocks that cannot be had are zeros.                                     *)
Expected(u) == IF (u + 1) \div 2 \in file.blank THEN 0 ELSE TrueUnits[u]

(* The units before the first block that the description does not lead to   *)
(* and before the first short read that was not made up for.                *)
Sure(u) ==
  /\ u <= file.size
  /\ \A i \in file.lost : u <= 2 * (i - 1)
  /\ GoesOn \/ \A i \in DOMAIN shorts : u <= shorts[i]

Undisturbed == file.lost = {} /\ (GoesOn \/ shorts = <<>>)

(* However the blocks of a file lie and are described, nothing is moved,    *)
(* repeated or taken from another file before the first block that the      *)
(* description does not lead to or the first read that came up short, and a *)
(* block that cannot be had is zeros; if there is neither, what is reported *)
(* as recovered is as long as the file.  Only                               *)
(* APFS and HFS+ report another length as recovered; a file that is too     *)
(* short for the others has lost something (WriteNTFSFile, WriteFATFile,    *)
(* WriteEXFATFile, WriteEXTFile, WriteBtrfsFile, recoverAPFSFile,           *)
(* recoverHFSPlusFile).                                                     *)
ImageIsTrue ==
  /\ \A u \in DOMAIN out : Sure(u) => out[u] = Expected(u)
  /\ result = "ok" =>
       /\ Undisturbed => Len(out) >= file.size
       /\ file.fs # "apfs" => Len(out) <= file.size
       /\ file.fs \notin {"apfs", "hfs"} => Len(out) = file.size
  /\ result = "partial" => Len(out) < file.size /\ ~Undisturbed

(* What is reported as recovered has the bytes of the file.  This does not  *)
(* hold: see Sure and Expected for what does.                               *)
RecoveredIsWhole == result = "ok" => TrueUnits = Cut(out, 1, file.size)
=============================================================================
