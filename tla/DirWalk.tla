------------------------------- MODULE DirWalk -------------------------------
(***************************************************************************)
(* The walk over the directories of one volume: exFAT (internal/exfat),    *)
(* FAT (internal/fat) and ext (internal/ext4).  A directory is a sequence  *)
(* of slots that the walk reads in order; a sub-directory is walked on the *)
(* spot, so the frames of the recursion are a stack.  The disk may be      *)
(* damaged: entries may point anywhere and chains may be broken or loop.   *)
(*                                                                         *)
(* A slot is [t, n, del, ref, id]: "file" and "dir" entries name a first   *)
(* cluster or an inode (ref), a file has an identity (id); in exFAT an     *)
(* entry is followed by n "more" slots, and an "other" entry (volume       *)
(* label, bitmap) has n in the byte where an entry has its count; "zero"   *)
(* is an empty slot.                                                       *)
(***************************************************************************)
EXTENDS Naturals, Sequences, SequencesExt, FiniteSets, FatChain

CONSTANTS
  NbClusters,  \* the cluster heap is 2 .. NbClusters + 1
  MaxInode,    \* inodes of an ext volume: 1 .. MaxInode; 2 is the root
  FirstInode,  \* the first inode that is not reserved (11)
  MaxDepth,    \* 32
  MaxDirClusters, \* clusters read of an exFAT directory (512)
  ZeroLimit,   \* empty slots in a row that end an exFAT directory (4)
  Disks        \* the volumes of this instance: [fs, root, fat, data, inodes]

VARIABLES
  disk,
  stack,     \* frames of walkDir: [data, pos, depth, zeros]
  visited,   \* directories (ext), first clusters (exFAT), clusters (FAT)
  found,     \* what onFound was called with, in order
  opened,    \* history: the directories that were read
  inum,      \* ext: the next inode of the second pass
  phase,     \* "start", "tree", "orphans", "over"
  cancelled

vars == <<disk, stack, visited, found, opened, inum, phase, cancelled>>

DataClusters == 2 .. NbClusters + 1
EOC == 1      \* end-of-chain mark of a FAT entry
Bad == 0      \* any other value that is not a cluster

Follow(first) == FollowFATChain(disk.fat, DataClusters, EOC, first)

Clusters(chain) == FlattenSeq([i \in DOMAIN chain |-> disk.data[chain[i]]])

(* An exFAT directory is read along its chain or, if that is broken, as     *)
(* consecutive clusters.                                                    *)
readDirFollowingFAT(first) ==
  LET walk == Follow(first)
      last == IF first + MaxDirClusters - 1 \in DataClusters THEN first + MaxDirClusters - 1
              ELSE NbClusters + 1
  IN IF walk.ok
     THEN Clusters(SubSeq(walk.chain, 1, IF Len(walk.chain) < MaxDirClusters
                                         THEN Len(walk.chain) ELSE MaxDirClusters))
     ELSE Clusters([i \in 1 .. last + 1 - first |-> first + i - 1])

-----------------------------------------------------------------------------
(* Opening a directory: what is marked as visited, whether it is read, and *)
(* its slots *)

Refused == [marks |-> {}, read |-> FALSE, data |-> <<>>]

OpenExfat(ref, depth) ==
  IF depth > MaxDepth \/ ref \notin DataClusters \/ ref \in visited THEN Refused
  ELSE [marks |-> {ref}, read |-> TRUE, data |-> readDirFollowingFAT(ref)]

(* FAT: every cluster of the chain is marked, also of a directory that lies *)
(* too deep to be walked; a broken chain is used as far as it goes.         *)
OpenFat(ref, depth) ==
  LET chain == Follow(ref).chain
  IN IF ref \in visited \/ chain = <<>> THEN Refused
     ELSE [marks |-> Range(chain), read |-> depth <= MaxDepth, data |-> Clusters(chain)]

OpenExt(ref, depth) ==
  IF depth > MaxDepth \/ ref \in visited \/ ~disk.inodes[ref].dir THEN Refused
  ELSE [marks |-> {ref}, read |-> TRUE, data |-> disk.inodes[ref].data]

OpenDir(ref, depth) ==
  CASE disk.fs = "exfat" -> OpenExfat(ref, depth)
    [] disk.fs = "fat" -> OpenFat(ref, depth)
    [] disk.fs = "ext" -> OpenExt(ref, depth)

Frame(data, depth) == [data |-> data, pos |-> 1, depth |-> depth, zeros |-> 0]

(* Walk the directory, then go on with the frames below.                    *)
Walk(ref, depth, below) ==
  LET dir == OpenDir(ref, depth)
  IN /\ visited' = visited \cup dir.marks
     /\ opened' = IF dir.read THEN Append(opened, ref) ELSE opened
     /\ stack' = IF dir.read THEN Append(below, Frame(dir.data, depth)) ELSE below

-----------------------------------------------------------------------------
Init ==
  /\ disk \in Disks
  /\ stack = <<>> /\ visited = {} /\ found = <<>> /\ opened = <<>>
  /\ inum = FirstInode /\ phase = "start" /\ cancelled = FALSE

Cancel ==
  /\ ~cancelled /\ phase # "over"
  /\ cancelled' = TRUE
  /\ UNCHANGED <<disk, stack, visited, found, opened, inum, phase>>

(* ScanDirectory, ScanFiles: the root.  The root directory of FAT12 and     *)
(* FAT16 is a region of its own (root = 0), whose slots are in data[0].     *)
Begin ==
  /\ phase = "start" /\ phase' = "tree"
  /\ IF disk.fs = "fat" /\ disk.root = 0
     THEN /\ stack' = <<Frame(disk.data[0], 0)>>
          /\ opened' = <<0>> /\ UNCHANGED visited
     ELSE Walk(disk.root, 0, <<>>)
  /\ UNCHANGED <<disk, found, inum, cancelled>>

Top == Last(stack)
Slot == Top.data[Top.pos]

(* There is a slot to read, and the context, looked at before each of them, *)
(* is alive.                                                                *)
Reading ==
  /\ phase = "tree" /\ stack # <<>> /\ ~cancelled
  /\ Top.pos <= Len(Top.data)

(* ParseEntrySet: an entry is complete if all its slots are there; how many *)
(* slots are stepped over.                                                  *)
IsEntry == Slot.t \in {"file", "dir"}
Complete ==
  /\ IsEntry
  /\ disk.fs = "exfat" => Slot.n >= 1 /\ Top.pos + Slot.n <= Len(Top.data)
Consumed ==
  IF disk.fs # "exfat" \/ (IsEntry /\ ~Complete) THEN 1 ELSE 1 + Slot.n

Advanced == Append(Front(stack), [Top EXCEPT !.pos = @ + Consumed, !.zeros = 0])

(* exFAT: too many empty slots in a row end the directory; FAT: one does.   *)
EmptySlot ==
  /\ Reading /\ Slot.t = "zero"
  /\ stack' = IF disk.fs = "exfat" /\ Top.zeros < ZeroLimit
              THEN Append(Front(stack), [Top EXCEPT !.pos = @ + 1, !.zeros = @ + 1])
              ELSE Front(stack)
  /\ UNCHANGED <<disk, visited, found, opened, inum, phase, cancelled>>

(* A file, also a deleted one; in ext its inode says what it is.            *)
ReportFile ==
  /\ Reading /\ Slot.t = "file" /\ Complete
  /\ disk.fs = "ext" => disk.inodes[Slot.ref].reg
  /\ found' = Append(found, Slot.id)
  /\ stack' = Advanced
  /\ UNCHANGED <<disk, visited, opened, inum, phase, cancelled>>

(* Mutant: the rest of a directory is dropped when a sub-directory is       *)
(* entered.                                                                 *)
EnterDirectoryAndLeave ==
  /\ Reading /\ Slot.t = "dir" /\ ~Slot.del /\ Complete
  /\ Walk(Slot.ref, Top.depth + 1, Front(stack))
  /\ UNCHANGED <<disk, found, inum, phase, cancelled>>

EnterDirectory ==
  /\ Reading /\ Slot.t = "dir" /\ ~Slot.del /\ Complete
  /\ Walk(Slot.ref, Top.depth + 1, Advanced)
  /\ UNCHANGED <<disk, found, inum, phase, cancelled>>

(* Anything else is stepped over: labels and bitmaps, what is left of a     *)
(* broken entry, deleted directories, inodes of another kind.               *)
PassOver ==
  /\ Reading /\ Slot.t # "zero"
  /\ ~(Slot.t = "dir" /\ ~Slot.del /\ Complete)
  /\ ~(Slot.t = "file" /\ Complete /\ (disk.fs = "ext" => disk.inodes[Slot.ref].reg))
  /\ stack' = Advanced
  /\ UNCHANGED <<disk, visited, found, opened, inum, phase, cancelled>>

EndOfDirectory ==
  /\ phase = "tree" /\ stack # <<>>
  /\ cancelled \/ Top.pos > Len(Top.data)
  /\ stack' = Front(stack)
  /\ UNCHANGED <<disk, visited, found, opened, inum, phase, cancelled>>

EndOfTree ==
  /\ phase = "tree" /\ stack = <<>>
  /\ phase' = IF disk.fs = "ext" THEN "orphans" ELSE "over"
  /\ UNCHANGED <<disk, stack, visited, found, opened, inum, cancelled>>

(* ext, second pass: deleted regular files with a size whose inode was not  *)
(* visited.  The first pass marks directories only.                         *)
Orphan(i) == disk.inodes[i].reg /\ disk.inodes[i].del /\ i \notin visited

ReadOrphan ==
  /\ phase = "orphans" /\ ~cancelled /\ inum <= MaxInode
  /\ found' = IF Orphan(inum) THEN Append(found, inum) ELSE found
  /\ visited' = IF Orphan(inum) THEN visited \cup {inum} ELSE visited
  /\ inum' = inum + 1
  /\ UNCHANGED <<disk, stack, opened, phase, cancelled>>

EndOfOrphans ==
  /\ phase = "orphans" /\ (cancelled \/ inum > MaxInode)
  /\ phase' = "over"
  /\ UNCHANGED <<disk, stack, visited, found, opened, inum, cancelled>>

Step ==
  \/ Begin \/ EmptySlot \/ ReportFile \/ EnterDirectory \/ PassOver
  \/ EndOfDirectory \/ EndOfTree \/ ReadOrphan \/ EndOfOrphans

Next == Step \/ Cancel

Spec == Init /\ [][Next]_vars

FairSpec == Spec /\ WF_vars(Step)

-----------------------------------------------------------------------------
(* What is on the volume, without a walk *)

(* The slots of a directory, for a volume whose chains are in order.        *)
Slots(ref) ==
  IF disk.fs = "ext" THEN disk.inodes[ref].data
  ELSE IF disk.fs = "fat" /\ disk.root = 0 /\ ref = 0 THEN disk.data[0]
  ELSE Clusters(Follow(ref).chain)

Subdirs(ref) == {s.ref : s \in {s \in Range(Slots(ref)) : s.t = "dir" /\ ~s.del}}

(* The directories at most n levels below the root.                         *)
Within[n \in Nat] ==
  IF n = 0 THEN {disk.root} ELSE Within[n - 1] \cup UNION {Subdirs(d) : d \in Within[n - 1]}

Directories == Within[MaxDepth]

(* A sound volume: the directories form a tree no deeper than the limit,    *)
(* their chains are whole and apart, the slots after the first empty one    *)
(* are empty, an exFAT entry is complete, and an exFAT volume has no label. *)
SoundDir(d) ==
  /\ IF disk.fs = "ext" THEN disk.inodes[d].dir
     ELSE (d = 0 /\ disk.root = 0) \/ Follow(d).ok
  /\ \A i, j \in DOMAIN Slots(d) : i < j /\ Slots(d)[i].t = "zero" => Slots(d)[j].t = "zero"
  /\ disk.fs = "exfat" =>
       /\ d # 0 /\ Len(Follow(d).chain) <= MaxDirClusters
       /\ \A i \in DOMAIN Slots(d) :
            /\ Slots(d)[i].t \in {"file", "dir"} =>
                 /\ Slots(d)[i].n >= 1
                 /\ \A k \in 1 .. Slots(d)[i].n :
                      i + k \in DOMAIN Slots(d) /\ Slots(d)[i + k].t = "more"
            /\ Slots(d)[i].t = "other" => Slots(d)[i].n = 0

Sound ==
  /\ \A d \in Directories :
       /\ disk.fs # "ext" /\ d # disk.root => d \in DataClusters
       /\ SoundDir(d)
       /\ Subdirs(d) \subseteq Directories
       /\ \A i, j \in DOMAIN Slots(d) :
            Slots(d)[i].t = "dir" /\ Slots(d)[j].t = "dir" /\ i # j =>
              Slots(d)[i].ref # Slots(d)[j].ref
  /\ \A d, e \in Directories :
       d # e => /\ Subdirs(d) \cap Subdirs(e) = {}
                /\ disk.fs # "ext" /\ 0 \notin {d, e} =>
                     Range(Follow(d).chain)
                       \cap Range(Follow(e).chain) = {}
  /\ \A d \in Directories : disk.root \notin Subdirs(d)

Entries(d) == {s \in Range(Slots(d)) : s.t = "file"}

TreeFiles ==
  {s.id : s \in {s \in UNION {Entries(d) : d \in Directories} :
                  disk.fs = "ext" => disk.inodes[s.ref].reg}}

OrphanFiles ==
  IF disk.fs = "ext"
  THEN {i \in FirstInode .. MaxInode : disk.inodes[i].reg /\ disk.inodes[i].del}
  ELSE {}

(* However damaged the volume, the walk comes to an end, and unless it was  *)
(* cancelled it has then reported every file of a sound volume, in exFAT    *)
(* and FAT exactly once (ScanDirectory, ScanFiles).                         *)
WalkDelivers ==
  <>(/\ phase = "over"
     /\ Sound /\ ~cancelled =>
          /\ Range(found) = TreeFiles \cup OrphanFiles
          /\ disk.fs # "ext" => Len(found) = Cardinality(TreeFiles))

(* A directory is read at most once, even if the volume is damaged.         *)
ReadOnce == \A i, j \in DOMAIN opened : i # j => opened[i] # opened[j]
=============================================================================
