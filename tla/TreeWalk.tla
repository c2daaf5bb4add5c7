------------------------------ MODULE TreeWalk ------------------------------
(***************************************************************************)
(* The file systems whose files are records in the leaves of B-trees:      *)
(* Btrfs (internal/btrfs), APFS (internal/apfs), HFS+ (internal/hfsplus    *)
(* and its scan).  A first tree maps the addresses of the second one: the  *)
(* chunk tree of Btrfs, the object map of APFS, which also keeps older     *)
(* versions of a node.  Btrfs then has a tree of roots.  The catalog of    *)
(* HFS+ is not descended, its nodes are read one after the other.  The     *)
(* records found are put together to files with their paths and extents.   *)
(*                                                                         *)
(* A node is [ok, leaf, kids, recs]: ok if it can be read and parsed; an   *)
(* inner node has the addresses of its children, a leaf has records [t,    *)
(* id, parent, dir, off, xid]: "map" (id at off, as of xid), "root" (off), *)
(* "inode", "entry" (id in the directory parent) and "extent" (of id, at   *)
(* off in the file).                                                       *)
(***************************************************************************)
EXTENDS Naturals, Sequences, SequencesExt, FiniteSets, Functions

CONSTANTS
  Volumes,   \* [fs, node, sys, mapRoot, root, catalog, maxXid]
  MaxDepth,  \* 64 (Btrfs), 32 (APFS)
  PathDepth, \* 256 (Btrfs), 64 (APFS)
  MaxMap,    \* the objects after which an object map is given up: 1000000
  StackRoom, \* the calls within each other that the stack of a goroutine holds (1 GB)
  RootId     \* the root directory: 256 (Btrfs), 1 (APFS), 2 (HFS+)

VARIABLES
  vol,
  phase,   \* "map", "roots", "files", "over"; "crashed": the stack ran over and the
           \* program is gone; "endless": a loop that nothing ends
  agenda,  \* roots that are to be walked
  stack,   \* frames of walkNode: [at, kids, depth]
  got,     \* the records of the leaves, in the order they were read
  map,     \* address -> [at, xid]
  failed   \* the walk of the present tree ended with an error

vars == <<vol, phase, agenda, stack, got, map, failed>>

Nowhere == 0  \* an address that no map knows, and a block that is no node

SortedByOff(s) == SortSeq(s, LAMBDA a, b : a.off < b.off)

-----------------------------------------------------------------------------
(* Where a node is: mapLogical, ResolveVirtual.  The first tree is reached  *)
(* by the system chunks of the superblock or directly.                      *)
Translate(a) ==
  CASE vol.fs = "hfs" -> a
    [] vol.fs = "apfs" /\ phase = "map" -> a
    [] vol.fs = "apfs" /\ phase # "map" ->
         IF a \in DOMAIN map THEN map[a].at ELSE Nowhere
    [] vol.fs = "btrfs" ->
         LET known == IF map = <<>> THEN vol.sys ELSE map
         IN IF a \in DOMAIN known THEN known[a].at ELSE Nowhere

Readable(at) == at \in DOMAIN vol.node /\ vol.node[at].ok

(* An error below the root of a tree: Btrfs gives the walk up, APFS goes on *)
(* with the next child.                                                     *)
Fails(below) ==
  /\ stack' = IF vol.fs = "btrfs" THEN <<>> ELSE below
  /\ failed' = IF vol.fs = "btrfs" \/ below = <<>> THEN TRUE ELSE failed
  /\ UNCHANGED got

(* walkNode, walkOmapTree: the records of a leaf are taken, an inner node is *)
(* descended.  A node of the HFS+ catalog that is no leaf is passed over.   *)
(* An object map has no depth limit.                                        *)
TooDeep(depth) == depth > MaxDepth /\ ~(vol.fs = "apfs" /\ phase = "map")

Visit(at, depth, below) ==
  IF TooDeep(depth) \/ ~Readable(at) THEN Fails(below)
  ELSE /\ got' = IF vol.node[at].leaf THEN got \o vol.node[at].recs ELSE got
       /\ stack' = IF vol.node[at].leaf \/ vol.fs = "hfs" THEN below
                   ELSE Append(below, [at |-> at, kids |-> vol.node[at].kids, depth |-> depth])
       /\ UNCHANGED failed

-----------------------------------------------------------------------------
Init ==
  /\ vol \in Volumes
  /\ phase = (IF vol.fs = "hfs" THEN "files" ELSE "map")
  /\ agenda = (IF vol.fs = "hfs" THEN vol.catalog ELSE <<vol.mapRoot>>)
  /\ stack = <<>> /\ got = <<>> /\ map = <<>> /\ failed = FALSE

Busy == phase # "over" /\ phase # "crashed" /\ phase # "endless"

(* The next tree; one that fails does not keep the next from being walked.  *)
NextRoot ==
  /\ Busy /\ stack = <<>> /\ agenda # <<>>
  /\ agenda' = Tail(agenda)
  /\ Visit(Translate(Head(agenda)), 0, <<>>)
  /\ UNCHANGED <<vol, phase, map>>

Top == Last(stack)
Rest == Append(Front(stack), [Top EXCEPT !.kids = Tail(@)])

(* A child that is passed over without an error: no address, the node       *)
(* itself (object map), an object the map does not know.                    *)
Ignored(a) ==
  /\ vol.fs = "apfs"
  /\ a = Nowhere \/ (phase = "map" /\ a = Top.at) \/ Translate(a) = Nowhere

OfType(t) == SelectSeq(got, LAMBDA r : r.t = t)

(* LoadOmap, LoadOmapAtXID: of each object the newest version that is not   *)
(* younger than the snapshot.                                               *)
Versions(id) ==
  {r \in Range(OfType("map")) : r.id = id /\ (vol.fs = "apfs" => r.xid <= vol.maxXid)}

Newest(id) == CHOOSE r \in Versions(id) : \A s \in Versions(id) : s.xid <= r.xid

LoadedMap ==
  [id \in {r.id : r \in {r \in Range(OfType("map")) : Versions(r.id) # {}}} |->
     [at |-> Newest(id).off, xid |-> Newest(id).xid]]

(* An object map of too many objects: the call returns an error, the one    *)
(* above goes on and finds the same.                                        *)
GivenUp == vol.fs = "apfs" /\ phase = "map" /\ Cardinality(DOMAIN LoadedMap) > MaxMap

Descend ==
  /\ Busy /\ stack # <<>> /\ Top.kids # <<>>
  /\ CASE Ignored(Head(Top.kids)) -> stack' = Rest /\ UNCHANGED <<got, failed>>
       [] ~Ignored(Head(Top.kids)) /\ GivenUp -> Fails(Front(stack))
       [] ~Ignored(Head(Top.kids)) /\ ~GivenUp ->
            /\ Len(stack) < StackRoom
            /\ Visit(Translate(Head(Top.kids)), Top.depth + 1, Rest)
  /\ UNCHANGED <<vol, phase, agenda, map>>

(* Inner nodes of an object map that form a circle of two or more are       *)
(* descended until the stack runs over, which no Go program survives.       *)
Overflow ==
  /\ Busy /\ Len(stack) = StackRoom /\ Top.kids # <<>>
  /\ ~Ignored(Head(Top.kids)) /\ ~GivenUp
  /\ phase' = "crashed"
  /\ UNCHANGED <<vol, agenda, stack, got, map, failed>>

Ascend ==
  /\ Busy /\ stack # <<>> /\ Top.kids = <<>>
  /\ stack' = Front(stack)
  /\ UNCHANGED <<vol, phase, agenda, got, map, failed>>

(* NewChunkCatalog: the system chunks take precedence.                      *)
Catalog == [id \in DOMAIN vol.sys \cup DOMAIN LoadedMap |->
              IF id \in DOMAIN vol.sys THEN vol.sys[id] ELSE LoadedMap[id]]

WalkEnded == Busy /\ stack = <<>> /\ agenda = <<>>

(* The first tree has been walked.  A chunk tree that cannot be read leaves *)
(* the system chunks; without an object map there is no volume.             *)
MapLoaded ==
  /\ WalkEnded /\ phase = "map"
  /\ map' = IF failed THEN <<>> ELSE IF vol.fs = "btrfs" THEN Catalog ELSE LoadedMap
  /\ agenda' = <<vol.root>>
  /\ phase' = IF vol.fs = "btrfs" THEN "roots" ELSE IF failed THEN "over" ELSE "files"
  /\ got' = <<>> /\ failed' = FALSE
  /\ UNCHANGED <<vol, stack>>

(* The roots of the sub-volumes.                                            *)
RootsKnown ==
  /\ WalkEnded /\ phase = "roots"
  /\ phase' = IF failed THEN "over" ELSE "files"
  /\ agenda' = [i \in DOMAIN OfType("root") |-> OfType("root")[i].off]
  /\ got' = <<>> /\ failed' = FALSE
  /\ UNCHANGED <<vol, stack, map>>

LastEntry(id) == Last(SelectSeq(OfType("entry"), LAMBDA r : r.id = id))

(* buildHFSPlusPaths: the parents are followed upwards until a folder is    *)
(* missing or its own parent.                                               *)
IsFolder(id) == \E r \in Range(OfType("entry")) : r.id = id /\ r.dir
Climbs(id) == id # RootId /\ IsFolder(id) /\ LastEntry(id).parent # id

(* The folder that n steps lead to.  A climb that goes on after as many     *)
(* steps as there are entries has come to a folder twice and never ends.    *)
climb[id \in Nat, n \in Nat] ==
  IF n = 0 \/ ~Climbs(id) THEN id ELSE climb[LastEntry(id).parent, n - 1]

ClimbsForever(id) == Climbs(climb[id, Len(OfType("entry"))])

(* In APFS a root that cannot be read leaves the volume without files.  In  *)
(* HFS+ the paths are built before anything is reported.                    *)
FilesKnown ==
  /\ WalkEnded /\ phase = "files"
  /\ phase' = IF /\ vol.fs = "hfs"
                 /\ \E r \in Range(OfType("entry")) : ~r.dir /\ ClimbsForever(r.parent)
              THEN "endless" ELSE "over"
  /\ UNCHANGED <<vol, agenda, stack, got, map, failed>>

Next == NextRoot \/ Descend \/ Overflow \/ Ascend \/ MapLoaded \/ RootsKnown \/ FilesKnown

Spec == Init /\ [][Next]_vars /\ WF_vars(Next)

-----------------------------------------------------------------------------
(* The files *)

Inodes == {r.id : r \in Range(OfType("inode"))}
Directory(id) == \E r \in Range(OfType("inode")) : r.id = id /\ r.dir
Named(id) == \E r \in Range(OfType("entry")) : r.id = id
ExtentsOf(id) == SelectSeq(OfType("extent"), LAMBDA r : r.id = id)

(* EnumerateFSTreeFiles: names, parents and extents by inode; the path is   *)
(* traced upwards and starts over where a name is missing.                  *)
resolve[id \in Nat, depth \in Nat] ==
  IF id = RootId \/ depth > PathDepth \/ ~Named(id) THEN <<>>
  ELSE Append(resolve[LastEntry(id).parent, depth + 1], id)

BtrfsFiles ==
  {[id |-> id, path |-> resolve[id, 0], extents |-> [i \in DOMAIN ExtentsOf(id) |->
                                                       ExtentsOf(id)[i].off]] :
     id \in {id \in Inodes : ~Directory(id)}}

(* EnumerateFiles: the entries are followed down from the root; an entry    *)
(* without an inode is passed over, with all that is below it.              *)
EntriesIn(dir) == {r \in Range(OfType("entry")) : r.parent = dir /\ r.id \in Inodes}

Below[dir \in Nat, path \in Seq(Nat)] ==
  IF Len(path) > PathDepth THEN {}
  ELSE {[id |-> r.id, path |-> Append(path, r.id), dir |-> r.dir] : r \in EntriesIn(dir)}
       \cup UNION {Below[r.id, Append(path, r.id)] : r \in {r \in EntriesIn(dir) : r.dir}}

ApfsFiles ==
  {[id |-> f.id, path |-> f.path,
    extents |-> LET sorted == SortedByOff(ExtentsOf(f.id))
                IN [i \in DOMAIN sorted |-> sorted[i].off]] :
     f \in {f \in Below[RootId, <<>>] : ~f.dir}}

(* The path of a folder whose climb ends.                                   *)
folderPath[id \in Nat] ==
  IF id = RootId \/ ~IsFolder(id) THEN <<>>
  ELSE IF LastEntry(id).parent = id THEN <<id>>
  ELSE Append(folderPath[LastEntry(id).parent], id)

HfsFiles ==
  {[id |-> r.id, path |-> Append(folderPath[r.parent], r.id), extents |-> <<>>] :
     r \in {r \in Range(OfType("entry")) : ~r.dir}}

TreeFileSet ==
  CASE vol.fs = "btrfs" -> BtrfsFiles
    [] vol.fs = "apfs" -> IF failed \/ map = <<>> THEN {} ELSE ApfsFiles
    [] vol.fs = "hfs" -> HfsFiles

-----------------------------------------------------------------------------
(* What is on the volume, without a walk *)

ChildrenOf(at) == IF Readable(at) /\ ~vol.node[at].leaf THEN Range(vol.node[at].kids) ELSE {}

RecordsIn(nodes) ==
  UNION {Range(vol.node[at].recs) : at \in {at \in nodes : Readable(at) /\ vol.node[at].leaf}}

(* The nodes at most n levels below the root of the first tree.             *)
MapTree == IF vol.fs = "btrfs" THEN {vol.sys[vol.mapRoot].at} ELSE {vol.mapRoot}

MapAddress(a) ==
  IF vol.fs # "btrfs" THEN a ELSE IF a \in DOMAIN vol.sys THEN vol.sys[a].at ELSE Nowhere

(* Where an address of the other trees should lead.                         *)
MapNodes[n \in Nat] ==
  IF n = 0 THEN MapTree
  ELSE MapNodes[n - 1] \cup {MapAddress(a) : a \in UNION {ChildrenOf(at) : at \in MapNodes[n - 1]}}

Current(a) ==
  LET versions == {r \in RecordsIn(MapNodes[MaxDepth]) : /\ r.t = "map" /\ r.id = a
                                                         /\ vol.fs = "apfs" => r.xid <= vol.maxXid}
  IN IF vol.fs = "btrfs" /\ a \in DOMAIN vol.sys THEN vol.sys[a].at
     ELSE IF versions = {} THEN Nowhere
     ELSE (CHOOSE r \in versions : \A s \in versions : s.xid <= r.xid).off

Level[n \in Nat, roots \in SUBSET Nat, mapped \in BOOLEAN] ==
  IF n = 0 THEN roots
  ELSE {IF mapped THEN Current(a) ELSE MapAddress(a) :
          a \in UNION {ChildrenOf(at) : at \in Level[n - 1, roots, mapped]}}

(* The nodes of a tree, and that it is a tree: not too deep, all its nodes  *)
(* can be read, no node has two parents.                                    *)
NodesOf(roots, mapped) == UNION {Level[n, roots, mapped] : n \in 0 .. MaxDepth}

WholeTree(roots, mapped) ==
  /\ Level[MaxDepth + 1, roots, mapped] = {}
  /\ \A at \in NodesOf(roots, mapped) :
       /\ Readable(at) /\ at # Nowhere
       /\ ~vol.node[at].leaf => IsInjective(vol.node[at].kids)
       /\ \A other \in NodesOf(roots, mapped) \ {at} :
            ChildrenOf(at) \cap ChildrenOf(other) = {}
  /\ \A at \in NodesOf(roots, mapped) : roots \cap ChildrenOf(at) = {}

FileRoots ==
  IF vol.fs = "btrfs"
  THEN {Current(r.off) : r \in {r \in RecordsIn(NodesOf({Current(vol.root)}, TRUE)) : r.t = "root"}}
  ELSE {Current(vol.root)}

FileRecords ==
  IF vol.fs = "hfs" THEN RecordsIn(Range(vol.catalog)) ELSE RecordsIn(NodesOf(FileRoots, TRUE))

(* Everything that leads to the files can be read, there is one sub-volume  *)
(* and every file and directory has one entry in a directory below the      *)
(* root.  In HFS+ the nodes need not be whole: each is read by itself.      *)
Parent(id) == (CHOOSE r \in FileRecords : r.t = "entry" /\ r.id = id).parent
EntryIds == {r.id : r \in {r \in FileRecords : r.t = "entry"}}

RECURSIVE Descends(_, _)
Descends(id, n) ==
  id = RootId \/ (n > 0 /\ id \in EntryIds /\ Descends(Parent(id), n - 1))

(* The walk of an object map goes on for ever from a node on if each of     *)
(* some nodes has another of them as a child; the path of an HFS+ file if   *)
(* each of some folders has another of them as its parent.                  *)
EndlessMap ==
  vol.fs = "apfs" /\
  \E nodes \in SUBSET {at \in DOMAIN vol.node : Readable(at) /\ ~vol.node[at].leaf} :
    vol.mapRoot \in nodes /\ \A at \in nodes : (ChildrenOf(at) \ {at}) \cap nodes # {}

Folders == {r.id : r \in {r \in FileRecords : r.t = "entry" /\ r.dir}} \ {RootId}

EndlessPaths ==
  vol.fs = "hfs" /\
  \E circle \in SUBSET Folders :
    /\ \A id \in circle : Parent(id) \in circle \ {id}
    /\ \E r \in FileRecords : r.t = "entry" /\ ~r.dir /\ r.parent \in circle

MapFits ==
  vol.fs = "apfs" => Cardinality({r.id : r \in RecordsIn(MapNodes[MaxDepth])}) <= MaxMap

Whole ==
  /\ vol.fs # "hfs" =>
       /\ WholeTree(MapTree, FALSE) /\ MapFits
       /\ WholeTree(FileRoots, TRUE) /\ Cardinality(FileRoots) = 1
  /\ vol.fs = "btrfs" => WholeTree({Current(vol.root)}, TRUE)
  /\ \A r, s \in FileRecords : r.t = "entry" /\ s.t = "entry" /\ r.id = s.id => r = s
  /\ \A id \in EntryIds : Descends(id, PathDepth)
  /\ vol.fs # "hfs" => EntryIds = {r.id : r \in {r \in FileRecords : r.t = "inode"}} \ {RootId}
  /\ \A r \in FileRecords : r.t = "entry" =>
       \A s \in FileRecords : s.t = "inode" /\ s.id = r.id => s.dir = r.dir

TrueFile(f) ==
  /\ \E r \in FileRecords : r.t = "entry" /\ r.id = f.id /\ ~r.dir
  /\ f.path # <<>> /\ Last(f.path) = f.id
  /\ \A i \in DOMAIN f.path :
       \E r \in FileRecords : /\ r.t = "entry" /\ r.id = f.path[i]
                              /\ r.parent = IF i = 1 THEN RootId ELSE f.path[i - 1]
  /\ vol.fs # "hfs" =>
       /\ Range(f.extents) = {r.off : r \in {r \in FileRecords : r.t = "extent" /\ r.id = f.id}}
       /\ \A i, j \in DOMAIN f.extents : i < j => f.extents[i] < f.extents[j]

(* The walk comes to an end unless the nodes of an object map or the        *)
(* folders of HFS+ lead in a circle of two or more; if what leads to the    *)
(* files is whole, every file is then known with its own path and its       *)
(* extents in order, as of the newest version (walkOmapTree, walkNode,      *)
(* EnumerateFSTreeFiles, EnumerateFiles, buildHFSPlusPaths).                *)
TreeDelivers ==
  <>(/\ ~Busy
     /\ phase = "crashed" => EndlessMap
     /\ EndlessMap /\ MapFits => phase = "crashed"
     /\ (phase = "endless") = EndlessPaths
     /\ phase = "over" /\ Whole =>
          /\ \A f \in TreeFileSet : TrueFile(f)
          /\ {f.id : f \in TreeFileSet} =
               {r.id : r \in {r \in FileRecords : r.t = "entry" /\ ~r.dir}})

(* The walk of a tree ends with what it has found.  This does not hold: see *)
(* EndlessMap and EndlessPaths.                                             *)
TreeEnds == <>(phase = "over")

(* In APFS and HFS+ a node that cannot be read costs no record of another   *)
(* node: what a readable path of nodes leads to is taken.                   *)
RECURSIVE Reached(_, _)
Reached(nodes, n) ==
  IF n = 0 THEN nodes
  ELSE Reached(nodes \cup {Current(a) : a \in UNION {ChildrenOf(at) : at \in nodes}}, n - 1)

DamageIsLocal ==
  phase = "over" /\ vol.fs = "apfs" /\ ~failed /\ map # <<>> /\
  WholeTree(MapTree, FALSE) /\ MapFits =>
    RecordsIn(Reached({Current(vol.root)}, MaxDepth)) \subseteq Range(got)
=============================================================================
