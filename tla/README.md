# Verification of data-recovery-win

This directory holds TLA+ models of the recovery tool: of its concurrent and
crash-prone core, and of the algorithms that decide which files are found, how long
they are and which bytes they get. With them come the TLC configurations that check
them on small instances and proofs of the main theorems for every value of the
constants. Paths below are relative to the repository; comments of the source are
quoted as they stand.

## 1. The system

The program is a desktop application (Go with a web front end) that scans a disk
for deleted files and recovers them.

| component | state | operations | interacts with | hard behaviour | what makes it correct |
|---|---|---|---|---|---|
| Scan engine, `internal/recovery/engine.go` | `scanning`, `scanCancel`, `scanDone`, `reader`, `results`, carver fields, `nextResumeCarverOffset` | `ScanWithOptions`, `Stop`, `SetResumeCarverOffset`, `CurrentCarverOffset`, `Results` | application (calls, callbacks), carver, readers | start, stop and restart interleave; done channels outlive scans; a cancelled scan must not look finished | one scan at a time; Stop cancels what it waits for; results belong to the reader |
| Recovery, `engine.go`, `writer.go`, `output_helper.go` | `recovering`, `recoverCancel`, the list of files, the output directory | `RecoverWithOptions`, `StopRecovery`, `FailedRecoveryFileIDs`, the writers | engine fields of the last scan, disk, output disk | a scan replaces reader and results under a recovery; reads come back short; writes fail; two files want one name | what is called a success is whole; nothing else stays behind |
| Carver, `internal/carver/engine.go` | chunk and match queues, `bytesScanned`, deduplication window | `Scan`, `BytesScanned` | engine, reader | pipeline of IO, workers and collector; cancellation at each queue; resume | every header once, none missed; the scan returns |
| Formats, `internal/carver/formats.go`, `iso_bmff_size.go` | local | `determineFileSize` | carver | marks across the ends of buffers, hostile data behind a file | the size of an intact file is its own |
| Damaged-disk readers, `internal/disk/resilient.go`, `timeout.go` | bad-sector list, poison cache, reads in flight | `ReadAt`, `Cancel`, `BadSectors` | device | retry, skip mode, reads that outlive their timeout | each sector of a request is the device's or reported bad |
| File-system stages, `internal/recovery/*_scan.go` | list of the stage, sources in the engine's maps, pool of goroutines | `run*Scan` | engine, parsers | a damaged volume, a cancellation or a second goroutine at the wrong moment | what is shown can be recovered; a sound volume loses nothing |
| Parsers of volumes (`internal/fat`, `exfat`, `ext4`, `btrfs`, `apfs`, `hfsplus`, `ntfs`) | local to one call | walks, chains, extents, runs | stages, writers | damaged and cyclic structures, fragments, holes | walks end and deliver; the bytes are the file's |
| RAID arrays, `internal/raid`, `internal/volmgr` | member disks | `AssembleConfig`, `ReadAt` | scan of an array | parity that moves from row to row, missing disks | what is read is what was stored |
| Session store, `internal/session/session.go` | snapshot, temporary file, append log, mutex | `Save`, `AppendFiles`, `Compact`, `Load`, `Clear` | application goroutines, file system | crashes between file operations, short writes, concurrent callers | what was acknowledged is found again, once |
| Found-file delivery, `internal/scanevent/batcher.go`, `cmd/data-recovery/app.go` | pending batch, emit channel, emitter | `Add`, `Flush`, emit callback, emitter loop | scan goroutines, front end, session store | full channel, late flush, events out of order | no file lost or doubled; all reach the log |
| Application shell, `cmd/data-recovery/app.go` | `currentDrive`, `scanActive`, `scanProgress`, `scanFiles`, cancel functions of background tasks | `StartScan`, `StopScan`, `ResumeLastScan`, `DiscardSession`, `shutdown`, `persistLoop`, imaging, pulls, share scans and their cancel calls | engine, store, front end | the tail of an old scan runs beside the new one; a persist tick races the final save; one field per kind of task | what is saved describes the scan it is saved for; Cancel reaches the task it is meant for |
| Multi-disk scan, `internal/parallel/multidisk.go` | semaphore, one engine per disk | `ScanMultiple`, cancellation watcher | engines | cancellation before registration | a disk that is being read is let go |
| Updater, `internal/updater` | pending manifest, executable, backup | download, `SavePending`, `RunApplyHelper`, `ApplyPendingUpdateOnStartup`, rollback | file system, another process | crash between backup, replacement and clean-up; two processes at once | the executable is always a whole, wanted one |
| Encrypted volumes, `internal/bitlocker`, `luks`, `veracrypt` | metadata and headers, cache of sectors, trial goroutines, handles | detection, `Unlock*`, `ReadAt` | application, scan | redundant and damaged metadata, several slots, parallel trials, reads across sectors and ends | the right secret opens; each unit is deciphered with the number of its sector |
| Shares and backups, `internal/netfs`, `internal/ios`, `internal/android`, `recovery/*_scan.go` | sessions, source maps, mounts, keys, temporary files | `ScanSMBShare`, `ScanNFSExport`, `ScanIOSBackup`, `ScanAndroidBackup`, copies | application, recovery, `Shutdown` | refusals and short answers, limits, passwords, deadlines, equal IDs | a listing that ends well is complete; a copy is the file that was chosen |
| Validation, codecs, forensics, front end | local to one call | | | sequential | see section 7 |

`PROJECT.json` lists every part with its source files, and under `hazards` each
place where this code can go wrong in a way a test would hardly reach.

## 2. Modules

| module | contents |
|---|---|
| `ScanSlot` | what the engine promises its callers: one slot, scans that come and go, Stops that wait for the very scan they found |
| `ScanEngine` | the scan life cycle of `recovery.Engine`, one action per section under `Engine.mu` and per visible statement outside it |
| `Recovery` | a recovery beside the scans that replace what it reads from |
| `Carver` | the pipeline of the deep scan with its channels, cancellation and resume |
| `ResilientRead` | retry, skip mode, poison cache and timeouts below every read |
| `FsStages` | the seven file-system stages: search, pool of goroutines, report, sources, errors |
| `SessionStore` | the session store at the granularity of file operations, with failing operations and crashes |
| `FoundDelivery`, `FoundPipeline` | what the delivery of found files promises; batcher, bounded channel, emitter and the end of a scan |
| `ScanApp` | the application's calls, the goroutine of a scan, `persistLoop` and the shutdown hook, on top of `ScanSlot` |
| `BackgroundTasks` | imaging, multi-disk scan, pulls, share scans, duplicates and OCR with their cancel functions |
| `UpdateApply` | download, pending manifest, helper process, replacement and rollback, with crashes |
| `VolumeReaders` | composes the readers below: a behaviour is the work of one of them on one input |
| `DirWalk` | directories of FAT, exFAT and ext, the inode pass of ext |
| `TreeWalk` | B-trees of Btrfs, APFS and HFS+, from their maps to files with paths and extents |
| `RaidArray` | roles of the disks, reads of levels 0, 1, 5, 6 and 10 with missing disks, the finite field |
| `FileImage`, `FatChain` | from runs, chains, extents and pointers to the bytes that are written |
| `CarveSize` | how long a carved file is |
| `MftScan` | the records of an MFT, attribute lists, paths, the names of the USN journal |
| `EncryptedVolume` | BitLocker, LUKS and VeraCrypt: what is found, unlocking, the reads through the volume |
| `FileSources` | SMB and NFS shares, iOS and Android backups: sessions, scans, copies |
| `*Proofs` | the theorems about the modules they extend |
| `MC*` | constants and inputs for TLC |

`ScanEngine` implements `ScanSlot` and `ScanApp` uses it, so what `ScanApp` shows of the slot
holds of the engine. `FoundPipeline` implements `FoundDelivery`. The others stand alone:
`ScanApp` takes a Save as one step, `FoundPipeline` an append, `Recovery` and `FsStages`
a read, and each of those steps is a module of its own.

Definitions whose comment begins with "Mutant" are deliberately wrong variants of a neighbouring
action. No specification uses them; each is the bug one of the properties is there to exclude, and
putting it in place of the action makes that property fail. Some properties are stated and in no
run, because the code breaks them: `CompletedStays` and `SavedOffsetOfDrive` of `ScanApp`;
`CancelledReadFails` and `OnlyOwnData` of `ResilientRead`; `SuccessIsWhole`, `NoUnreportedFile`,
`StopIsHeard` and `CancelledRecoveryEnds` of `Recovery`; `ShownHasSource` of `FsStages`; `WalksEnd`
and `RecoveredIsWhole` of `VolumeReaders`. Put in the cfg of its module, each is violated
(`CancelledReadFails` with `Marked = FALSE`); it stands beside the one that does hold, and section 5
says how it fails.

### ScanEngine

An element of `Scans` is one call of `ScanWithOptions`: its reader, its context and
its done channel carry its name. `pc[s]` is where the call is: `opening` (before
`Open`), `wrapped` (after `resilientReader` was assigned), the phases between the
two sections under `Engine.mu` (`fs`, `pop`, `size`, `carve`, `verify`, `leave`),
`closing` (the slot is free, `close(scanDone)` still to come) and `over` or
`refused`. `scanDone = s` says which channel the field holds; the channel is closed
when `pc[s] = "over"`. As in the code the field is not cleared, so a Stop may find
the channel of a scan long over. `ctxDone` and `handleClosed` are the contexts
cancelled and the device handles pulled by `reader.Cancel()`; the handle the owner
closes on return plays no part.

`Stop` is five steps: the snapshot of the three fields (one section), the poll
while no scan was ever registered, `cancel()`, `reader.Cancel()`, `<-done`. The
carver is its IO goroutine (look at the context, `ReadAt`, count or give up) and
the end of `Scan`, which a cancelled collector reaches without waiting for the IO
goroutine. A file-system stage is one phase that ends well or badly; in a full
scan the context is looked at after each, in a quick scan it is not. What a stage
parses and what the carver recognises is the single step `Find`.

`ImplementsSlot` maps the phases to the four of `ScanSlot` and hides everything
else. The inductive invariants are

- `SlotInv`: ties the fields, the phase of the owner and the three values a
  committed Stop carries to each other. The properties about Stop are not
  inductive alone: that the scan a waiting Stop waits for is cancelled depends on
  the snapshot having been consistent two steps earlier;
- `CarverInv`: a chunk in flight is one of those that remain;
- `CutInv`: a cut-short scan is past its last look at the context and on its way
  out with an error.

### SessionStore

State: the four things on disk (`snapshot`, `tmp`, `log`, and `tail`, a last line
without its newline) and, per client, the operation it is in. Each operation
holds `Store.mu` from first to last step, as in the code, and every file access is
a step of its own, so a crash falls between any two. A crash is the death of
the process: what the operating system has accepted stays. `AppendLine` is one
record with its newline; a write that stops short leaves the beginning of a record
(`Torn`) or a whole record without a newline, and the next record written behind it
makes a line that does not parse. A write of several records may stop after any of
them, as buffered writes do. `faults` bounds crashes and failed writes.

The order of records has no meaning to the program, so a list of records is a
function that counts them: `Plus` is append. The history variables say what was
acknowledged (`acked`), what a Save dropped (`dropped`) and what was hidden behind
a torn line (`glued`). `AckedLostOnlyKnown` is the promise that holds: nothing
else is ever lost. The promise of the comments, `NoAckedFileLost`, does not hold
(section 5).

The inductive invariant `StoreInv` joins `TypeOK`, `LockInv` (only the lock's holder is
inside an operation), `OpInv` (what an operation half-way through relies on: the
temporary file, the buffer and what it was computed from), `AckedInv` (where
acknowledged records are, counted against the torn appends) and `OnceInv`.

### FoundPipeline

`Add` and `Flush` are one step under the batcher's mutex and hand a batch to their
goroutine; then it is enqueued or, if the channel is full, shown and logged by
that goroutine. Whether the interval has passed is a free choice. The emitter
takes batches out of the channel one at a time. `Scanner` flushes when the scan's
goroutines are done and then sends the last event; `Closer` is the shutdown hook
and may flush at any time. `logged` is what was handed to `AppendFiles`;
that a write may fail there is the store's business. `ImplementsDelivery` says the
path implements `FoundDelivery`: the log grows, by files that were found, each once.
`InOnePlace` is stated over sets (pending, in hands, queued, in the emitter's hands,
logged), which are disjoint and each without repetition; that form is inductive with
`InStep` (a hand is full exactly when its actor is busy) and so can be proved.

### ScanApp

An element of `Scans` is one call of `StartScan`, together with the two goroutines it starts.
`call[s]` is how far the call is: `load` (ResumeLastScan has the session), `check` and
the states of the automatic stop (`stop`, `stopping`, `poll`, `recheck`), `record`
(`currentDrive`), `activate` (`scanActive`, then the goroutines are started), `wait` (for
`registered`). `task[s]` is the goroutine that scans: `open`, `fs`, `popped`, `carve` and
`leaving` are inside `ScanWithOptions`, `ended` to `done` what follows it. `loop[s]` is its
`persistLoop`. Each step that concerns the slot is the conjunction with the step of
`ScanSlot` of that meaning (`Slot!Claim(s)`, `Slot!Await(s)`, ...). `saveMetadataSnapshot`
is three steps, since the code reads the drive under `App.mu` and the offset under
`Engine.mu` before it saves; a caller is a tick, a final save or the shutdown hook
(`Savers`).

The saved session (`snap`) keeps what the properties speak of: drive, resume offset,
completed. An offset is known by the drive it was reached on, and 0 is `None`. `by` is the scan
whose final save it was, a history variable like `late` (scans whose `StartScan` gave up
waiting before they were registered), `asked` (scans whose `StartScan` had returned
when `StopScan` was called) and `atExit`.

The front end waits for one call before it makes the next and asks only for full scans
(`App.tsx`). It enables the start button when `StopScan` returns, not when the last event
of the stopped scan has come; `Hasty` says whether the user makes use of that. The
poll for the flag and its 500 looks are bounded by time, which is not modelled: `Poll` and
`GivenUp` may end at any moment. The model ends with the flush of the shutdown hook, as
the process does soon after.

`StopInv` is the inductive invariant behind `StopMeansStopped`. The property is about the
moment `StopScan` returns, but rests on facts established when the scan was
started: that the slot was free when its call last looked, that no other call is under
way since, and that it registered before the call returned. The part about a scan
being registered holds only while `late` is empty, hence the condition in the property.

### ResilientRead

A device is a row of units, a few of which make a sector; unit `d` contains `d`, so that a wrong
unit is seen. A call of `ReadAt` goes through `direct` (the request as a whole), then sector by
sector: poisoned sectors are zero-filled, others are retried up to `MaxRetry` times, a failure is
recorded, and after `Threshold` failures in a row a probe is read that doubles up to `MaxChunk`. The
two lists (`bad`, `poisoned`) are shared by all callers and written in separate steps, as in the
code. A read that times out leaves its goroutine behind (`late`) with the buffer it was given. Each
caller has a chunk buffer from a pool and uses it again for its next call, as `chunkPool` of the
carver does, so `Consume` keeps the late reads of the chunk; those of the sector and probe buffers
end with their call. When such a read lands, `strays` takes up each unit of the caller's present
call that now holds the data of another place. `ReturnedIsTrue` says of every unit handed back that
it is the device's own, or zeros that are reported, or exactly such a stray, and never what was in
the buffer before. `OnlyOwnData`, the same without strays, is what the comments claim, and fails.
`Marked` says whether a cancelled device returns `ErrReaderCancelled` (Windows) or the error of a
closed file.

### Recovery

Two drives, scans that find files and end (their reader is closed), and one recovery goroutine:
`open` and `publish` are its first two sections, `select` the choice of the requested files, `next`
and `copy` the loop. A file's kind decides the writer: `ByOffset` writers go on at the next unread
byte, `ByCluster` ones at the next cluster, `InPlace` ones copy straight into the output file. The
path is chosen as `resolveConflict` does, against temporary and existing names. `fs` is the output
directory, `kept` is a history of what was reported and of what is known to stay behind: an
`os.WriteFile` that fails half-way leaves its file (the output of a repaired picture, the temporary
file of a copy or of a file written from memory), a failing `os.Remove` leaves what it was to
remove, and an `InPlace` writer leaves its torso. `NothingLeftOver` says that nothing else lies in
the directory, and `NoUnreportedFile` states the comment, which knows none of this. `WriteInMemory`
is the path of resident and compressed NTFS files; one with a unit that could not be deciphered is
`marred` by "unit". The recovery reads through a raw reader without a time limit, so any of its
reads may hang (`Hangs`, `pc = "hung"`) and nothing follows: `RecoveryEnds` excepts that,
`CancelledRecoveryEnds` states what the comments on stopping promise. The flag `recovering` is set
some steps before the cancel function; a stop in between is lost, and `StopIsHeard` says it should
not be. A short read of a `ByCluster` writer leaves a hole (`marred`), and files whose clusters are
guessed from a closed reader get others' (`guessed`); a recovery during which the drive's reader was
replaced is not `steady`. The properties name these conditions because the code has them.

### Carver

One IO goroutine, `Workers`, one collector; the two channels are sequences with
capacities. Headers are intervals of the device with a signature, and a chunk has those
that lie in it wholly. The collector's window of seen offsets is pruned against the
highest offset (`SoftCap`, `KeepLag`), each send and receive can be abandoned when the
context is done, `SaveOffset` is the application's look at the progress, `Resume` the next
scan. `dropped` is a history of matches that a cancelled pipeline left in its queues, those that a
worker sends after the collector has left too. Nothing bounds how far a worker is behind, so an
offset can be forgotten before its second match arrives: `OffsetOnce` excepts the offsets the
collector may have forgotten (`Forgettable`), and no others.

### FsStages

`kind` is the stage; `cond` gives each volume its condition: sound, broken (its walk
fails somewhere) or skipped. The search finds volumes fast or block by block, `rounds` is
the list of batches that are walked with one pool of goroutines each. A goroutine takes a
volume, walks it file by file: append to the list, then the source into the engine's map,
then the report, or the other way round where the stage does so. NTFS goes over the MFT twice: the
first pass shows deleted files at once (`LiveFile`, collected in `live`), the second
lists them with their sources; names from the USN journal (`hints`) are shown after it and have no
source at all. The volumes of an APFS container share their IDs (`Id`), so
two files may have one place in the map. `SourceBeforeReport` says exactly which files
a recovery can ask for: all of the second pass or of a single pass from their report on, all of a
returned list, those of a first pass only when the stage ended well on a volume that could be
walked; the source is the file's own unless another file was listed under the same ID.
`ShownHasSource` is the contract of `scanner.go`, which has none of these conditions. That a goroutine's
walk is finite is taken from `WalksDeliver`, with its exceptions. What a stage returns
when it was cancelled, when a walk failed and when there is no volume differs from stage
to stage and is modelled for each.

### BackgroundTasks

One field per kind of task and four ways to use it (`Policy`): refuse, replace, overwrite,
and fill late. A task goes through `arm`, `run`, `end`, `clear`; a cancel call reads the
field and calls the function in two steps where the code releases the mutex between them.
The multi-disk scan has a job and a watcher per disk. With two tasks of one kind under way
a Cancel may reach only one of them and the end of the first may clear the field of the
second: that is why `LoneTaskIsCancelled` speaks of a task that is alone.

### UpdateApply

Processes are windows, boots or helpers. Files are inodes under names because `copyFile`
truncates a `.new` file that another process may be writing and then renames it; contents
are a version, cut short, or damaged. A step is one file operation or one decision. `spoiled`
notes the situations in which a promise is off: two processes wrote the same file, or a
download renamed the file of another (`shared`); a helper was started for a file and found no
manifest to check it with (`unchecked`); a helper was started while another was at work
(`crossed`), or the pending update was cancelled then (`cancelled`). `ExeIsComplete` needs only
the first two to be absent. `KeptOrNewer` needs the third as well: a helper whose own backup failed
may roll back to what an earlier update left in `.bak` while another helper backs up the current
version (it takes three errors, so the instance of the run does not reach it).

`windows` says on which kind of system the program runs. It is chosen at the start and never
changes, so one run covers both. On Windows a running executable cannot be replaced (`Locked`),
and the helper runs from the very file it is to replace: it fails, restores and ends, and the update
stays pending. `StartOpens` therefore promises a window except on Windows with an update pending,
and says that on Windows the installed version is never replaced (section 5).

### VolumeReaders

The readers share nothing but the disk below them, so they are composed by a
disjunction and checked in one run; a reader that is idle has no state. Inputs are sets
of small volumes, most of them damaged.

- `DirWalk`: the recursion is a stack of frames. Slots of a directory point anywhere,
  chains loop or break, exFAT entry sets run across clusters, `visited` is what the code keeps
  (inodes for ext, first clusters for exFAT, clusters for FAT). `Sound` states when every file has to be
  found: sub-directories that exist and are apart, and in exFAT no volume label
  (see section 5).
- `TreeWalk`: the first tree is the map of the second (chunk tree, object map with versions),
  then come the roots, then the records are put together. `Whole` states when all files
  have to be known with their paths and extents in order. Structures that lead in a circle are among the
  inputs: inner nodes of an APFS object map are descended until the stack has no room
  (`StackRoom`, phase "crashed"), HFS+ folders that are each other's parents are climbed for ever
  (phase "endless"), and a map with more than `MaxMap` objects is given up (`GivenUp`).
  `TreeDelivers` says that the walk ends unless the volume is one of these (`EndlessMap`,
  `EndlessPaths`) and that those do not end; `WalksEnd` is the claim of the comments.
- `RaidArray`: the roles, what is accepted, and reads that are cut at the stripes. The field of RAID
  6 has `FieldBits` bits, its tables are built as in `galois.go`. A member may give a part of its
  stripe with an error; units rebuilt from the missing rest are `guessed`. `ReadsWhatWasStored`
  leaves out those and, where the second parity is needed, the rows in which the columns of data are
  not in ascending order (`Ascending`), and names what a degraded RAID 5 adds past its end
  (`PastTheEnd`).
- `FileImage`: lists of clusters, runs or extents and the copying of them. The
  contents of a unit is its place on the disk, so what is written shows where it came from. Files
  have holes and extents without a place or that cannot be deciphered (`blank`), any node of their
  tree of extents or pointers may be unreadable (`lost`), and pieces may be read short (`shorts`).
  `ImageIsTrue` says of a file reported as recovered what its bytes are in each of
  these cases: its own where all was read, zeros at exactly the blank places (`Expected`), and so up to
  the first short read or lost piece (`Sure`), behind which they are moved and nothing is promised but
  the length. `RecoveredIsWhole`, that they are simply its own, fails.
- `CarveSize`: the disk is a sequence of cells, where a field that the code reads is a cell;
  records are walked, end marks are searched block by block. `TablesHelp` leaves out MP4 files
  whose sample tables mislead the code when the file is not at offset 0, and `LineEndIsLost` is
  the PDF whose line end of one byte is the last byte of the disk: its size is one short (section 5).

- `MftScan`: the boot sector, record 0, then record after record in the order of the runs. A
  record carries its attributes twice, as written and as they look while the marks of the sectors
  are in place, so that a torn record gives what the code would see. `mft.nodes` is the
  volume as it was written; `Usual` and `SoundMft` leave out what the reader gets wrong (section 5).
- `EncryptedVolume`: a behaviour looks at a disk, asks for a secret, unlocks and reads. Ciphers
  and key derivations are symbols: a box gives its contents to its key, and a sector its units
  only to the right key and number. `enc.data` is what is true of the volume, apart from its
  headers; `sound` marks those that must open with the secret that was entered, and
  `checked` those whose headers cannot name a wrong key (a LUKS2 slot without a digest can).
- `FileSources`: one scan after the other dials, lists and tells files, a copy goes by an ID that
  was told, and a cancellation, the end of an NFS connection's minute or `Shutdown` may come at any
  step. A server is what it answers and what it refuses, a backup its property lists, rows and
  blocks with boxes for ciphers; a name is a sequence of tokens, so that IDs that are joined by "_"
  may be equal. `Ambiguous` marks the sources for which they are, `Doubtful` the files that the code
  copies wrongly (section 5). Both connections of an NFS session expire together, scans do not
  overlap, and after `Shutdown` only a scan that was dialling is followed.

## 3. Runs

| run | question | result |
|---|---|---|
| `scan_engine` | safety of the slot, Stop, results and success, refinement of `ScanSlot`; does every Stop return and every scan end | holds |
| `session_store` | what can be lost or doubled under crashes and failures | holds |
| `session_save` | is nothing acknowledged lost without faults (`session.go:120`) | violated |
| `found_pipeline` | no file lost, doubled or left behind; refinement of `FoundDelivery` | holds |
| `app_session` | with a patient user, is what is saved true of the scan it is saved for, and does StopScan stop what was started | holds |
| `resilient_read` | is what a damaged disk returns its own, reported, or the stray of a read given up, and does every read return | holds |
| `recovery` | are recovered files whole, is nothing left behind but what is known, is each content kept once, does a recovery end unless a read hangs | holds |
| `carver` | is each header found once, none missed, and what does a resume lose; does the scan return | holds |
| `update` | is the executable whole, never an older one, and does the program open, except on Windows with an update pending | holds |
| `tasks` | does Cancel reach the task it is meant for and no other, do disks in a cancelled multi-disk scan stop | holds |
| `fs_stages` | which of what is shown can be recovered and from when on, is a stage that ends well complete, does it end | holds |
| `volume_readers` | which walks end and deliver, where are bytes the true ones, are sizes | holds |

Bounds and why they are enough:

- `scan_engine`: two scans in all modes, one goroutine that may call Stop any number
  of times, one file-system stage, a device of one chunk, resume offsets inside
  the device and past its end. Two scans suffice for a Stop to hold the fields of
  one while another owns the slot. Several Stoppers do not interact except through the
  fields, and the theorems cover any number of them, of stages and of chunks.
- `session_store`: two clients, three records, two values of the metadata, three
  faults: a torn append, a second one behind it and a crash fit together.
  `session_save` allows no fault at all.
- `found_pipeline`: two goroutines, four files, batches of two, a channel of one
  batch, so that two full batches meet a full channel while a third is with the
  emitter. The program has batches of 200 and a channel of 64. Deadlock is not checked
  here: the scan ends and nothing follows.
- `app_session`: two scans on two drives, one tick, and any session an earlier run may have
  left: none, or one of a drive with or without an offset. Two scans suffice for the
  fields of one to be read for the other; more ticks only write the same fields
  again. Deadlock is not checked: the program is closed, or all calls are used up.
- `resilient_read`: two callers and two calls, which may share a sector; five sectors of two units
  of which four are damaged, so that a probe doubles past a sector and beyond the end of a request;
  a threshold of two, two retries, one timeout.
- `recovery`: two drives, five files (a carved and an NTFS copy of one picture, an exFAT file with
  doubtful content, an NTFS file that is written from memory, an APFS file), asked for two at a time
  or alone; three units per file and two per cluster, so that the last cluster is partial; two
  scans, two recoveries, one failure.
- `carver`: two workers, five headers (one across the border of two chunks, two in the overlap, two
  at one offset at the end of the device), a device of seven units in two chunks of four with an
  overlap of two, one place in the channel of chunks and two in that of matches, so that a
  collector that leaves can leave matches behind; two scans, one failing read. The
  collector begins to forget at three offsets (`SoftCap`) and keeps one unit (`KeepLag`), so the run
  meets offsets that are forgotten and found again.
- `update`: three processes, so that a window, a helper and one more of either kind are up at
  once; two attempts to replace, two actions of users, one error, kill or damaged
  download. Both kinds of system (`windows`).
- `tasks`: two tasks, one kind for each policy, two disks with one at a time, two callers that
  cancel twice together: the second disk is admitted after the cancellation.
- `fs_stages`: all seven stages, a container of two volumes and one of one volume, two goroutines,
  two files per volume, each volume in each condition, a cancellation at any step.
- `volume_readers`: three clusters or six inodes with every FAT over them; trees of nine blocks of
  which any may be unreadable, cyclic or unknown to the map, maps with circles and with one object
  more than the limit, folders in a circle; arrays of three to five disks with up to two missing and
  strangers among them, members that give a part of a stripe, data that differs in one unit
  (parities are sums, so each place is tried alone); files of one to three pieces in any order, with
  holes, blank pieces, short reads and each node lost in turn; fourteen formats, intact files in
  several surroundings, the end of the disk among them, and files with each cell overwritten. MFTs
  in two runs of up to ten records, each record torn, zeroed or unreadable in turn, attribute lists
  in and out of their record, directories that are reused or cyclic, and a cancellation. Encrypted
  volumes of three sectors behind headers that are sound, damaged or unreadable, with right and
  wrong secrets, a cache of two sectors (one read needs three), two goroutines that share up to
  three cases of two ciphers, and three reads of seven places. Two dozen sequences of one or two
  servers and backups: directories of several batches, with entries without attributes, deeper and
  longer than the limits, shares that refuse; property lists in both forms, wrong passwords,
  unreadable and padded blocks; files of no, some and whole buffers.

Symmetry is used for scans, drives, records and clients in safety runs only. Where
`CHECK_DEADLOCK FALSE` is set, the system of that run ends: its bounded calls are used up
or its one job is done. Whether it ends too early is what the liveness property of
the same run checks.

## 4. Fairness

Always weak fairness, and only for what a scheduler, a device or a loop does by itself;
no user action, cancellation or start of a process is fair.

- `ScanEngine`: the steps of a scan that has been called, its IO goroutine, a Stop that has
  been called. The timeout reader bounds each `ReadAt` and a stage terminates (that is
  what `StageEnds`, `WalksDeliver` and `ReadReturns` say), unless a volume leads in a circle: for such a
  volume nothing here promises that a scan ends or a Stop returns. `Stop` has no timeout, so
  `StopReturns` rests on `ScanEnds`.
- `FoundPipeline`: each goroutine that has a batch, the emitter and the end of the scan; this
  assumes that the front end takes its events and that the process is not shut down first.
- `ResilientRead`: the steps of a call; a device answers or the timeout does.
- `Recovery`: the recovery goroutine, but not its reads: a read may hang, and then the recovery is at
  "hung" and takes no further step. `Carver`: the IO goroutine, the collector and each worker.
- `UpdateApply`: a process that boots, a helper, a download, and a window that has been told to quit.
- `BackgroundTasks`: watchers, and a job whose scan was stopped. That an unstopped job
  ends is not assumed.
- `FsStages`: the stage's goroutine and each of its pool; `VolumeReaders`: the loops of the readers.

## 5. What the checks found

`findings` in `PROJECT.json` quotes the line each of these contradicts. One is a run
(`session_save`); the others were met while a module was written or are counterexamples to a
stronger property than the one that is kept.

Lost or wrong results:

- A metadata Save after a Compact drops the compacted records (`session_save`); with
  more than 5000 files `persistLoop` does this five seconds after each Compact.
- `CurrentCarverOffset` goes on returning the last carver's offset during the next
  scan's file-system stages, and a tick saves it with the next scan's drive
  (`SavedOffsetOfDrive`); the resume would skip that part of the drive.
- Closing `stopPersist` does not wait for a tick under way, which then marks a completed
  session incomplete (`CompletedStays`).
- Btrfs: an uncompressed extent that a file refers to from its middle is read from its
  beginning.
- LZNT1: the width of a token's offset shrinks as the output grows, where it should grow.
- MP4: the size computed from the sample tables is taken relative to the disk, so it is
  right only at offset 0. TIFF: the end of a strip is the larger of offset and length, not their sum.
- exFAT: the length of a volume label is taken for a number of slots to skip.
- RAID 6: the second parity is computed over columns in one order and used in another, and a
  member that gives a part of its stripe with an error is taken with zeros for the rest.
- A read that timed out keeps its buffer, and the carver's pool hands that buffer to another
  chunk: what lands late is taken for the bytes of the chunk (`OnlyOwnData`).
- NTFS files are shown in the first pass before any source is kept, and names of the journal without
  one; APFS volumes of one container overwrite each other's sources (`ShownHasSource`).
- Btrfs extents without a chunk or that cannot be deciphered, and the units of a compressed NTFS file,
  become zeros in a file that is reported as recovered. A short read, a hole of ext, an
  unreadable node of extents or pointers and a short Btrfs extent move the bytes behind them
  forward; APFS and HFS+ compare no size, and elsewhere the slack of the last cluster may
  make up for it (`RecoveredIsWhole`).
- A PDF that ends with the disk loses a line end of one byte, which its test tolerates; behind its
  end a degraded RAID 5 gives zeros as data.
- A sound APFS volume of more than a million objects is passed over.

Things that do not end, stop or start:

- An object map of APFS whose inner nodes lead in a circle is descended until the stack runs
  over, which ends the program; HFS+ folders that are each other's parents are climbed for ever
  (`WalksEnd`).
- A recovery reads without a time limit: a read that hangs holds it for ever, cancelled or not, and
  all later ones are refused (`CancelledRecoveryEnds`). A stop that comes before the source is open is
  lost (`StopIsHeard`).
- On Windows the helper runs from the executable it is to replace, and so cannot: a start
  with an update pending ends without a window, again at every start (`StartOpens` says so).

Promises of comments that do not hold:

- An incomplete output is not always removed: an `os.WriteFile` that fails half-way, a failing
  `os.Remove` and the `InPlace` writers leave a file behind (`NoUnreportedFile`).
- Closing the done channel does not mean that nobody reads: the carver's IO
  goroutine is in no wait group (`engine.go:1507`).
- scan:completed may overtake queued batches, a batch may overtake the queue, and nothing
  waits for the queue at shutdown.
- With a hasty user, who starts a scan as soon as `StopScan` returns, the end of the stopped scan's
  goroutine clears `scanActive` of the next one (`ShutdownSavesRunning` needs `~Hasty`).
- After a cancellation `ScanMultiple` admits the remaining disks, and one whose watcher
  stops before it has registered is scanned in full.
- `ErrReaderCancelled` is returned on Windows only (`CancelledReadFails`).
- The stages differ from the contract in `scanner.go` on cancelled scans and disks without
  a volume of their kind.
- An offset set for a resume stays when the resumed scan does not reach its carver.
- The comment on the collector's window takes a worker to be at most about `N` chunks behind
  (`carver/engine.go:540`). A worker that is not scheduled may be any number behind; then an offset
  that was forgotten is reported again.
- NTFS: the runs of a file are looked up at +0x40 of their attribute instead of +0x20; a
  non-resident attribute list is never read; the flags of a name are taken for a resident file's size;
  the USN journal is never found, because `$Extend` is not among the records handed out.
- Unlocked volumes: a key found in an image of memory is not the one that opens the volume, and a
  recovery after such a scan reopens a path that is no device.
- Shares and phone backups: what is found there cannot be selected for a recovery; an NFS scan
  of more than a minute loses the rest without a word; NFS files that fill the last buffer are
  refused; an iOS file that cannot be read to its end counts as recovered; a session that is dialled
  during `Shutdown` stays, with its deciphered list of files.
- The mark of a file found to be in pieces is overwritten by the validation.

## 6. Proofs

Eight modules of proofs, for all values of the constants under the assumptions named in the
modules. Each follows one pattern: the inductive invariant holds initially, one step per
action shows that it is kept, and the property follows from it.

- `ScanEngineProofs`: `TypeCorrect`, `SlotIsConsistent`, `StopNeverWaitsInVain`,
  `HandleOutlivesContext`, `ResultsMatchReader`, `ResultsSurviveRefusal`, `SuccessCoversTheDisk`,
  `OffsetStaysOnDevice` and `EngineImplementsSlot`, from `SlotInv`, `CarverInv` and `CutInv`. The
  refinement theorem shows that the initial states map to initial states and that each
  step maps to a step of `ScanSlot` or a stutter, using `SlotInv` for the steps of Stop.
- `StoreAndUpdateProofs` holds the proofs of two components that share no state. For `SessionStore`:
  `TypeCorrect`, `LossesAreKnown`, `MetadataNeverUndone`, `OnceUnlessCutOff` and `StepsKeepRecords`,
  from `StoreInv`. Files may be infinitely many: the bound on records lost to torn appends is proved
  with finiteness of `glued` as a part of the invariant. For `UpdateApply`: `UpdateTypeCorrect`,
  `ExeStaysComplete` and `BackupIsKept`, for any finite number of processes. Unconditionally, no two
  names share an inode and exe always has one (`Distinct`), and a process has files in hand exactly
  while it copies or downloads (`Hands`); `UnusedExists` counts the inodes in use, so that there is
  always a new one to open. While nothing is shared or unchecked (`CleanOK`): no two processes write
  one inode (`Apart`), a copy writes the inode that its `.new` name has and a download one that no
  name but `asset.tmp` has (`Own`), nobody writes what a copy reads (`Reads`), and what stands under
  exe, bak and asset, or was copied on its way there, is complete (`Whole`; `asset` may be damaged
  until a helper has compared its hash). While no helper meets another (`Single`), the executable,
  the backup and every copy under way are at least as new as any backup made (`Kept`), and a backup
  under way is of the executable as it is (`Backing`). Steps that write nothing are handled together
  (`Quiet`, `Same`). Its specification is `UpdateInit`, `UpdateNext`, `UpdateSpec`; its theorems
  hold for both values of `windows`.
- `ScanAppProofs`: `TypeCorrect`; `StopIsEffective`, an action property: from `StopInv`,
  the only step that ends the user's Stop is `StopScanReturns`, and it needs the awaited scan
  to be over; and, for a patient user, `CompletedNamesItsDrive` and `ShutdownNamesTheScan`. Behind
  these two are `Calm` (one call and one tail at a time, so nobody writes `currentDrive` or
  `scanActive` beside the scan they belong to), `Named` (each of the three steps of each saver,
  and what it has read so far) and `AtExit`.
- `FoundPipelineProofs`: `TypeCorrect`, `NoneLostOrDoubled`, `LogFollowsFrontEnd` and
  `PipelineDelivers` (the refinement of `FoundDelivery`), from `InStep`, `OneInv` and `ShownInv`. The
  lemmas about sequences say what appending and taking a batch does to the set of queued
  files and to their being disjoint.
- `FsStagesProofs`: `TypeCorrect` and `SourcesAreKept`, from `Kept`: a file on its way from the list
  to the report has in the map its own source or that of another listed file with the same ID,
  and a source gives way only to such a one; what the first pass of NTFS shows is reached
  when all workers have left a stage that was not cancelled (`AllLeft`). `OkStageIsComplete`, from
  `Shown` (what is in the list of files is reported or held by a goroutine between its event and its
  report) and `Complete` (a goroutine leaves the pool only when no volume is left or the
  scan is cancelled, and a volume counts as done only after its last file). It needs a pool that
  is finite and not empty: the code makes `runtime.NumCPU()` goroutines, which is at least 1.
- `ResilientReadProofs`: `TypeCorrect`, `PoisonIsReported` and `ReadsAreTrue`. Between `recordBad` and
  `markPoisoned` the region is in the list already (`Entered`), and a key of the cache is
  the start of a sector (`WholeSectors`), without which a poisoned key could hide a
  neighbour. `Truthful` says what each unit of each buffer holds at each step of a call: what the step
  has put there, or a pair that is in `strays`, which a late landing extends by the units it has
  misplaced (`Misplaced`) and nothing else.
- `RecoveryProofs`: `TypeCorrect`, `RunsAreRecovered`, `ClustersAreRecovered`, `NothingIsLeftOver`,
  `OneCopyIsKept` and `StopIsHonoured`. While a file is being written, the units so far are its own
  and the next read begins where they end (`Exact`); its output path is nobody else's (`Standing`);
  whatever lies in the directory is a reported file, a known leftover (a failed write, a failed
  removal, an in-place torso) or the file under way (`Accounted`); NTFS files go first
  (`NtfsAhead`), so that a duplicate is judged against the hashes of files that stand
  (`Remembered`). `Standing` rests on `resolveConflict` finding a free name: the lemma
  `ResolveIsFree` is the pigeonhole principle for the numbered names, and `LeastExists` (a set of
  naturals has a least element) stands in for induction. Assumed are finitely many files, since a
  scan's results are a slice, and names with a natural number of `.tmp` endings.
- `CarverAndTasksProofs` holds the proofs of two components that share no state. For `Carver`:
  `TypeCorrect`, `OffsetsAreOnce`, `NothingIsMissed` and `OnlyTheQueuedAreLost`. Nobody leaves
  before the stage in front of it has, unless the scan was cancelled (`Closing`); a header whose
  chunk was read is in a channel, with a worker, reported, or dropped by a cancellation (`InHand`),
  and one that lies before a resumed start was reported or dropped by an earlier scan (`Earlier`);
  the collector knows the offsets it has reported except those it may have forgotten (`Collected`,
  `Known`). `Matches` is defined by a CHOOSE; the lemma `OrderExists` shows, by the least
  counterexample, that the order it asks for exists. Assumed are at least one worker
  (`runtime.NumCPU()` of them by default) and finitely many headers that lie on the device. For
  `BackgroundTasks`: `TaskTypeCorrect`, `CancelReaches` and `CancelIsMeant`, from `Meant` and
  `Reaching`: the field of a kind holds the function of its lone task from `arm` to `end`, and a
  function that a caller holds is that of a task its Cancel was pressed for. Its specification is
  `TaskInit`, `TaskNext`, `TaskSpec`, so that the two can be extended by one module.

What the liveness properties rest on is proved too. Under weak fairness a component ends what
it began for two reasons: it can always take a step, and each step leaves it less to do. Both
are safety, and hold for every value of the constants:

| Module | can always go on | each step leaves less | behind the property |
|---|---|---|---|
| `ScanEngine` | `EngineNeverStands` | `EngineRunsDown` | `StopReturns`, `ScanEnds` |
| `FoundPipeline` | `EndIsComplete` | `DeliveryRunsDown` | `FoundIsLogged` |
| `FsStages` | `StageNeverStands` | `StageRunsDown` | `StageEnds` |
| `ResilientRead` | `ReadsNeverStand` | `ReadsRunDown` | `ReadReturns` |
| `Carver` | `ScanNeverStands` | `ScanRunsDown` | `ScanReturns` |
| `Recovery` | `RecoveryNeverStands` (unless a read hangs) | `RecoveryRunsDown` | `RecoveryEnds` |

- "Can go on" is written out as the conditions of the steps (`ScanGoes`, `WorkGoes`, `Goes` ...), since
  the prover has no `ENABLED`. On small instances TLC compared these conditions with
  `ENABLED` of the actions in all reachable states, and they agree; that they do in general is read
  off the guards. The proofs are about channels at their capacity, cancelled consumers, closed channels
  and the CHOOSE of an order (`OrderExists`): that is where a goroutine could be left waiting.
- "Less" is lexicographic: a phase that only advances, then a count in the naturals (or a finite
  set that shrinks), then the next. Steps of other actors are shown to raise none of it; for a call
  of `ReadAt` this includes reads that land late, and for a scan the end of its context.
- `EngineNeverStands` does not say that a Stop always can go: it may wait, but then for a scan that
  is cancelled, can go on and, by `EngineRunsDown`, begins no other read. This is the argument that
  `Stop` returns, for any number of overlapping scans and stoppers.
- `ProgressIsExact`: an uncancelled scan of the carver ends with its progress at exactly the range
  it had to read, for any chunk size (the last chunk is partial, and unreadable chunks count).

What TLC alone shows is the step from these to "eventually", which needs the fairness of the
specification.

The proof of `StageNeverStands` first failed, on a volume without files (`NbFiles = 0`): a goroutine
in the first pass of NTFS had no step to fail or be cancelled by. The code checks the context and
the error of the first pass however many records it found; `Underway` now says so.

Only model-checked:

- The liveness properties themselves: `StopReturns`, `ScanEnds`, `FoundIsLogged`, `StageEnds`,
  `ReadReturns`, `ScanReturns`, `RecoveryEnds`, `StartOpens` and `ScanningJobsStop`. Fairness and
  `ENABLED` are beyond the prover; the table above says which halves are proved.
- `BytesAreTrue`, `SizesAreTrue` and `WalksDeliver` of `VolumeReaders`: they compare what recursive
  definitions and folds compute with a reference, for which induction over data would be needed. One of
  the modules it composes, `TreeWalk`, has RECURSIVE operators and is not meant to be proved about.

## 7. Not modelled

- Formats: OLE2, TIFF and BMP sizes, the automaton that searches for signatures, stitchers
  of fragmented files, classification by content, the validators and the repair of JPEG
  files; the codecs (LZNT1, LZX, zlib); the fields of boot sectors, superblocks, names and times.
- XFS, F2FS, ReFS and ZFS: no part of the program calls them.
- The ciphers and key derivations themselves, FileVault, self-encrypting drives and the search
  for images of memory on a disk.
- Device drivers, the imager's files, external tools, the bytes of network protocols, MTP, the discovery
  of hosts, logging, packaging, the rendering of the front end, exports, settings and dialogs.
- Power failure below the file system: the store never syncs, and what is left
  then is the operating system's choice, not the code's.
- In `ScanApp`: failures of the store (they are `SessionStore`'s), quick and deep scans and the
  progress record.
- The race in the first construction of the batcher, and the end of the process with
  batches queued.

The map covers about a quarter of the repository's lines. Much of the rest is data rather than
control: tables of signatures, field offsets, text of the front end, wrappers of platform calls,
and packages that no part of the program uses.

## 8. Plan

Done so far, in this order: the slot and the engine, the session store, delivery, the application
shell; then the readers of damaged disks, recovery, the carver's pipeline, the updater, background
tasks, the file-system stages, and the readers of volumes, arrays, files, formats, MFTs and
encrypted volumes. Left:

1. The stitchers of fragmented files.
2. An abstract specification of the updater (one program, replaced in one step by a newer one or
   not at all) that `UpdateApply` implements while helpers do not meet, with its refinement proved.
