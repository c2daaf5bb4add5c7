---------------------------- MODULE VolumeReaders ----------------------------
(***************************************************************************)
(* The readers that work on one volume, one array, one file or one         *)
(* candidate at a time and share nothing but the disk below them: the walk *)
(* over directories (DirWalk), over B-trees (TreeWalk), the reads of an    *)
(* array (RaidArray), the listing and copying of a file's blocks           *)
(* (FileImage), the size of a carved file (CarveSize), the records of an   *)
(* MFT (MftScan), an encrypted volume (EncryptedVolume), files that come   *)
(* from shares and backups (FileSources).  A behaviour is the work of one  *)
(* of them on one of its inputs.                                           *)
(***************************************************************************)
EXTENDS RaidArray

CONSTANTS
  NbClusters, MaxInode, FirstInode, MaxDepth, MaxDirClusters, ZeroLimit, DirVolumes,
  Volumes, PathDepth, MaxMap, StackRoom, RootId,
  Files, DigitBase, Heap, MaxExtent, NDirect, PerBlock, MaxShort,
  Candidates, CellBase, Block, MinFrames, MaxTracks,
  MftVolumes, Root, FirstUser, MaxRefs, MaxList, MaxPath, Interval, MaxJournal,
  None, SystemNames, JournalName, JournalStream, ExtendNames,
  EncVolumes, CacheSectors, HeaderRoom, MemoryChunk, SystemHeader, SectorSizes, HashNames,
  CipherNames, Workers, ReadRequests, MaxReads,
  Sources, Buffer, CbcChunk, NfsPort, SmbPort, PortmapPort, DefaultDepth, DefaultFiles

ASSUME LimitsAssumption ==
  {NbClusters, MaxInode, MaxDepth, ZeroLimit, PathDepth, FieldBits, Block,
   MaxRefs, MaxPath, MaxJournal, CacheSectors, Workers, MaxReads, MaxMap, StackRoom,
   MaxShort} \subseteq Nat

VARIABLES
  reader, \* which of them works
  disk, stack, visited, found, opened, inum, phase, cancelled,
  vol, treePhase, agenda, nodes, got, map, failed,
  file, todo, out, result, shorts,
  cand, pos, sizePhase, frames, best, size,
  mft, stage, run, at, number, entries, live, listed, hints, stopped,
  enc, step, shown, handles, source, jobs, tasks, won, stopFlag, cached, request, answer, count,
  sources, scan, sessions, reported, origin, copy, target, shut

dirVars == <<disk, stack, visited, found, opened, inum, phase, cancelled>>
treeVars == <<vol, treePhase, agenda, nodes, got, map, failed>>
fileVars == <<file, todo, out, result, shorts>>
sizeVars == <<cand, pos, sizePhase, frames, best, size>>
mftVars == <<mft, stage, run, at, number, entries, live, listed, hints, stopped>>
encVars == <<enc, step, shown, handles, source, jobs, tasks, won, stopFlag, cached, request,
             answer, count>>
sourceVars == <<sources, scan, sessions, reported, origin, copy, target, shut>>
vars == <<reader, dirVars, treeVars, raidVars, fileVars, sizeVars, mftVars, encVars, sourceVars>>

D == INSTANCE DirWalk WITH Disks <- DirVolumes
T == INSTANCE TreeWalk WITH phase <- treePhase, stack <- nodes
F == INSTANCE FileImage WITH Base <- DigitBase
S == INSTANCE CarveSize WITH phase <- sizePhase, Base <- CellBase
M == INSTANCE MftScan
E == INSTANCE EncryptedVolume WITH listed <- shown, opened <- source
N == INSTANCE FileSources

(* A reader that has nothing to do has no state.                            *)
DirsIdle ==
  /\ disk = <<>> /\ stack = <<>> /\ visited = <<>> /\ found = <<>>
  /\ opened = <<>> /\ inum = <<>> /\ phase = <<>> /\ cancelled = <<>>

TreesIdle ==
  /\ vol = <<>> /\ treePhase = <<>> /\ agenda = <<>> /\ nodes = <<>>
  /\ got = <<>> /\ map = <<>> /\ failed = <<>>

RaidIdle ==
  array = <<>> /\ offset = <<>> /\ want = <<>> /\ buf = <<>> /\ state = <<>> /\ guessed = <<>>

FilesIdle == file = <<>> /\ todo = <<>> /\ out = <<>> /\ result = <<>> /\ shorts = <<>>

SizesIdle ==
  cand = <<>> /\ pos = <<>> /\ sizePhase = <<>> /\ frames = <<>> /\ best = <<>> /\ size = <<>>

MftIdle ==
  /\ mft = <<>> /\ stage = <<>> /\ run = <<>> /\ at = <<>> /\ number = <<>>
  /\ entries = <<>> /\ live = <<>> /\ listed = <<>> /\ hints = <<>> /\ stopped = <<>>

EncIdle ==
  /\ enc = <<>> /\ step = <<>> /\ shown = <<>> /\ handles = <<>> /\ source = <<>>
  /\ jobs = <<>> /\ tasks = <<>> /\ won = <<>> /\ stopFlag = <<>> /\ cached = <<>>
  /\ request = <<>> /\ answer = <<>> /\ count = <<>>

SourcesIdle ==
  /\ sources = <<>> /\ scan = <<>> /\ sessions = <<>> /\ reported = <<>>
  /\ origin = <<>> /\ copy = <<>> /\ target = <<>> /\ shut = <<>>

Init ==
  \/ /\ reader = "directories" /\ D!Init
     /\ TreesIdle /\ RaidIdle /\ FilesIdle /\ SizesIdle /\ MftIdle /\ EncIdle /\ SourcesIdle
  \/ /\ reader = "trees" /\ T!Init
     /\ DirsIdle /\ RaidIdle /\ FilesIdle /\ SizesIdle /\ MftIdle /\ EncIdle /\ SourcesIdle
  \/ /\ reader = "arrays" /\ RaidInit
     /\ DirsIdle /\ TreesIdle /\ FilesIdle /\ SizesIdle /\ MftIdle /\ EncIdle /\ SourcesIdle
  \/ /\ reader = "files" /\ F!ImageInit
     /\ DirsIdle /\ TreesIdle /\ RaidIdle /\ SizesIdle /\ MftIdle /\ EncIdle /\ SourcesIdle
  \/ /\ reader = "sizes" /\ S!SizeInit
     /\ DirsIdle /\ TreesIdle /\ RaidIdle /\ FilesIdle /\ MftIdle /\ EncIdle /\ SourcesIdle
  \/ /\ reader = "mft" /\ M!MftInit
     /\ DirsIdle /\ TreesIdle /\ RaidIdle /\ FilesIdle /\ SizesIdle /\ EncIdle /\ SourcesIdle
  \/ /\ reader = "encrypted" /\ E!EncInit
     /\ DirsIdle /\ TreesIdle /\ RaidIdle /\ FilesIdle /\ SizesIdle /\ MftIdle
     /\ SourcesIdle
  \/ /\ reader = "sources" /\ N!SourcesInit
     /\ DirsIdle /\ TreesIdle /\ RaidIdle /\ FilesIdle /\ SizesIdle /\ MftIdle /\ EncIdle

WalkDirectories ==
  /\ reader = "directories" /\ D!Step
  /\ UNCHANGED <<reader, treeVars, raidVars, fileVars, sizeVars, mftVars, encVars, sourceVars>>

CancelWalk ==
  /\ reader = "directories" /\ D!Cancel
  /\ UNCHANGED <<reader, treeVars, raidVars, fileVars, sizeVars, mftVars, encVars, sourceVars>>

WalkTrees ==
  /\ reader = "trees" /\ T!Next
  /\ UNCHANGED <<reader, dirVars, raidVars, fileVars, sizeVars, mftVars, encVars, sourceVars>>

ReadArray ==
  /\ reader = "arrays" /\ RaidNext
  /\ UNCHANGED <<reader, dirVars, treeVars, fileVars, sizeVars, mftVars, encVars, sourceVars>>

CopyFile ==
  /\ reader = "files" /\ F!ImageNext
  /\ UNCHANGED <<reader, dirVars, treeVars, raidVars, sizeVars, mftVars, encVars, sourceVars>>

FindSize ==
  /\ reader = "sizes" /\ S!SizeNext
  /\ UNCHANGED <<reader, dirVars, treeVars, raidVars, fileVars, mftVars, encVars, sourceVars>>

ScanMft ==
  /\ reader = "mft" /\ (M!MftStep \/ M!CancelMft)
  /\ UNCHANGED <<reader, dirVars, treeVars, raidVars, fileVars, sizeVars, encVars, sourceVars>>

ReadEncrypted ==
  /\ reader = "encrypted" /\ E!EncNext
  /\ UNCHANGED <<reader, dirVars, treeVars, raidVars, fileVars, sizeVars, mftVars,
                 sourceVars>>

CopyFromSource ==
  /\ reader = "sources" /\ N!SourcesNext
  /\ UNCHANGED <<reader, dirVars, treeVars, raidVars, fileVars, sizeVars, mftVars, encVars>>

Next ==
  \/ WalkDirectories \/ CancelWalk \/ WalkTrees \/ ReadArray \/ CopyFile \/ FindSize
  \/ ScanMft \/ ReadEncrypted \/ CopyFromSource

Spec == Init /\ [][Next]_vars

(* A loop that is not blocked goes on; nothing obliges a user to cancel.    *)
FairSpec == Spec /\ WF_vars(WalkDirectories \/ WalkTrees \/ FindSize)

-----------------------------------------------------------------------------
(* However damaged a volume is, no directory is read twice, no node costs   *)
(* the records of another and both walks come to an end, unless the nodes   *)
(* of an object map or the folders of HFS+ lead in a circle; a volume that  *)
(* is in order has then given all its files (WalkDelivers, ReadOnce,        *)
(* TreeDelivers, DamageIsLocal; ScanDirectory, ScanFiles, EnumerateFiles).  *)
WalksDeliver ==
  /\ reader = "directories" => D!WalkDelivers /\ []D!ReadOnce
  /\ reader = "trees" => T!TreeDelivers /\ []T!DamageIsLocal

(* "防止过深 / 损坏 metadata 死循环" (apfs/omap.go:137): no damage makes the    *)
(* walk of a tree go on for ever.  This does not hold.                      *)
WalksEnd == reader = "trees" => T!TreeEnds

(* What is read of an array with missing disks, what is written of a file   *)
(* that is reported as recovered, what the scan of an MFT lists, what is    *)
(* read of an unlocked volume, listed of a share or a backup and copied     *)
(* from it, is what was stored (ReadsWhatWasStored, ImageIsTrue,            *)
(* MftDelivers, VolumeUnlocks, SourcesAreTrue; raid.Reader.ReadAt, the      *)
(* writers, scanNTFSPartition, the decrypting readers, the scans of shares  *)
(* and backups).                                                            *)
BytesAreTrue ==
  /\ reader = "arrays" => ReadsWhatWasStored
  /\ reader = "files" => F!ImageIsTrue
  /\ reader = "mft" => M!MftDelivers
  /\ reader = "encrypted" => E!VolumeUnlocks
  /\ reader = "sources" => N!SourcesAreTrue

(* "严格模式：部分恢复视为失败，删除不完整输出，避免导出不可用文件" (engine.go:1125): *)
(* what is reported as recovered has the bytes of the file.  This does not  *)
(* hold.                                                                    *)
RecoveredIsWhole == reader = "files" => F!RecoveredIsWhole

(* The size found for an intact carved file is its own, but for the line    *)
(* end of a PDF at the end of the disk (CarveSize!SizeIsTrue,               *)
(* determineFileSize).                                                      *)
SizesAreTrue == reader = "sizes" => S!SizeIsTrue
=============================================================================
