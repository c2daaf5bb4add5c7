----------------------------- MODULE UpdateApply -----------------------------
(* The self-update of the program (src/internal/updater, App.DownloadUpdate  *)
(* and its neighbours): a download in the background, the pending manifest,  *)
(* and the helper, a second process of the same executable that replaces it. *)
(* Several windows and helpers may run at once: nothing in the program       *)
(* prevents it.  Files are inodes under names, since copyFile truncates a    *)
(* ".new" file that another process may still be writing and renames it.     *)
(*                                                                           *)
(* Abstractions: contents are a version, CutShort or Damaged.  What GitHub   *)
(* serves is the version asked for, and is a program (not the archive that   *)
(* the Linux releases carry).                                                *)
EXTENDS Integers, FiniteSets

CONSTANTS
  Proc,        \* slots for processes
  Installed,   \* the version that is installed at first
  Latest,      \* the version the update check offers
  Older,       \* the version an earlier update may have left in .bak
  Tries,       \* attempts to replace the executable (10 in the code)
  MaxActs,     \* bound: starts of the program and downloads
  MaxTroubles, \* bound: I/O errors, killed processes, damaged downloads
  Nil          \* no process, inode, manifest

ASSUME VersionsAssumption ==
  Installed \in Nat /\ Latest \in Nat /\ Older \in Nat
    /\ Older < Installed /\ Installed < Latest
ASSUME NilAssumption == Nil \notin Int /\ Nil \notin Proc
ASSUME BoundsAssumption ==
  /\ {Tries, MaxActs, MaxTroubles} \subseteq Nat
  /\ IsFiniteSet(Proc)

Version == {Older, Installed, Latest}
CutShort == 0 - 1  \* cut short: another size and another hash
Damaged == 0 - 2   \* the size of a version and another hash
Content == Version \cup {CutShort, Damaged}
Size(c) == IF c = CutShort THEN CutShort ELSE Latest
Name == {"exe", "exe.new", "bak", "bak.new", "asset", "asset.tmp"}
Inode == 1 .. (6 + 3 * Cardinality(Proc))  \* enough for a new file at any time

VARIABLES
  windows,  \* whether a running executable cannot be replaced; never changes
  file,     \* name -> inode or Nil
  data,     \* inode -> contents
  manifest, \* pending/manifest.json: whether it is there, and the size it records
  pc,       \* where each process is
  runs,     \* the version whose code the process runs
  image,    \* the inode it was started from
  in, out,  \* the inodes a copy or a download has in hand, or Nil
  phase,    \* which copy of RunApplyHelper it is in
  tries,    \* attempts made
  got,      \* the download of a window: "none", "opened", ... (downloadActive)
  kept,     \* helper: whether this run's backup succeeded, and of what
  bounds,   \* [acts, troubles] used up
  spoiled   \* what has gone wrong between processes, of Trespass

updateVars == <<file, data, manifest, pc, runs, image, in, out, phase, tries, got, kept,
                bounds, spoiled>>
disk == <<file, data, manifest>>
local == <<runs, image, phase, tries, kept>>

(* Two processes wrote one file at a time, or a download put another's file  *)
(* in the place of its own; a helper found no manifest with the hash of its  *)
(* file and went on; while a helper was at work another was started, or the  *)
(* pending update was cancelled.                                             *)
Trespass == {"shared", "unchecked", "crossed", "cancelled"}

UpdateTypeOK ==
  /\ windows \in BOOLEAN
  /\ file \in [Name -> Inode \cup {Nil}]
  /\ data \in [Inode -> Content]
  /\ manifest \in [is : {"absent", "torn", "saved"}, size : {Latest, CutShort, Nil}]
  /\ pc \in [Proc -> {"off", "boot", "open", "quit", "wait", "check", "from", "write",
                      "rename", "restart", "clear"}]
  /\ runs \in [Proc -> Version] /\ image \in [Proc -> Inode]
  /\ in \in [Proc -> Inode \cup {Nil}] /\ out \in [Proc -> Inode \cup {Nil}]
  /\ phase \in [Proc -> {"backup", "replace", "rollback"}]
  /\ tries \in [Proc -> 0 .. Tries] /\ kept \in [Proc -> Content \cup {Nil}]
  /\ got \in [Proc -> {"none", "opened", "written", "named", "saving"}]
  /\ bounds \in [{"acts", "troubles"} -> Nat]
  /\ spoiled \subseteq Trespass

NoManifest == [is |-> "absent", size |-> Nil]
TornManifest == [is |-> "torn", size |-> Nil]

Contents(n) == IF file[n] = Nil THEN Nil ELSE data[file[n]]
Running(p) == pc[p] # "off"
Windowed(p) == pc[p] = "open"
Helping(p) == pc[p] \in {"wait", "check", "from", "write", "rename", "restart", "clear"}

Spoil(how, when) == spoiled' = IF when THEN spoiled \cup {how} ELSE spoiled

Use(b) == bounds' = [bounds EXCEPT ![b] = @ + 1]
May(b, max) == bounds[b] < max
Trouble == May("troubles", MaxTroubles) /\ Use("troubles")

First == CHOOSE p \in Proc : TRUE

(* An installed program, perhaps with the .bak of an earlier update (nothing *)
(* ever removes it), perhaps a new version that is already pending, perhaps  *)
(* a window.                                                                 *)
UpdateInit ==
  /\ windows \in BOOLEAN
  /\ \E old \in {Nil, 2}, new \in {Nil, 3} :
       /\ old = Nil => new = Nil
       /\ file = [n \in Name |-> CASE n = "exe" -> 1 [] n = "bak" -> old
                                   [] n = "asset" -> new [] OTHER -> Nil]
       /\ manifest = IF new = Nil THEN NoManifest ELSE [is |-> "saved", size |-> Latest]
  /\ data = [i \in Inode |-> CASE i = 2 -> Older [] i = 3 -> Latest
                               [] i = 1 -> Installed [] OTHER -> CutShort]
  /\ \E at \in {"off", "open"} :
       /\ pc = [p \in Proc |-> IF p = First THEN at ELSE "off"]
       /\ bounds = [acts |-> IF at = "open" THEN 1 ELSE 0, troubles |-> 0]
  /\ runs = [p \in Proc |-> Installed]
  /\ image = [p \in Proc |-> 1]
  /\ in = [p \in Proc |-> Nil] /\ out = [p \in Proc |-> Nil]
  /\ phase = [p \in Proc |-> "backup"]
  /\ tries = [p \in Proc |-> 0]
  /\ got = [p \in Proc |-> "none"]
  /\ kept = [p \in Proc |-> Nil]
  /\ spoiled = {}

-----------------------------------------------------------------------------
(* Files.                                                                    *)

Unused ==
  Inode \ ({file[n] : n \in Name} \cup {in[p] : p \in Proc} \cup {out[p] : p \in Proc}
           \cup {image[p] : p \in {q \in Proc : Running(q)}})

(* os.OpenFile(O_CREATE|O_TRUNC): the inode the name has, or a new one.      *)
OpenTrunc(p, n) ==
  LET unused == Unused
      i == IF file[n] # Nil THEN file[n] ELSE CHOOSE j \in unused : TRUE
  IN /\ file' = [file EXCEPT ![n] = i]
     /\ data' = [j \in Inode |-> IF j = i \/ j \in unused THEN CutShort ELSE data[j]]
     /\ out' = [out EXCEPT ![p] = i]
     /\ Spoil("shared", \E q \in Proc \ {p} : out[q] = i)

(* Mutant: an existing backup is not replaced. *)
RenameKeepsBackup(from, to) ==
  file' = [file EXCEPT ![to] = IF to = "bak" /\ file[to] # Nil THEN @ ELSE file[from],
                       ![from] = Nil]

Rename(from, to) == file' = [file EXCEPT ![to] = file[from], ![from] = Nil]
Remove(n) == file' = [file EXCEPT ![n] = Nil]

(* On Windows the image of a running process cannot be replaced.             *)
Locked(n) == windows /\ \E p \in Proc : Running(p) /\ image[p] = file[n]

(* LoadPending: a manifest that parses, whose file is there and has the size *)
(* that was recorded (a size of 0 is not compared).                          *)
LoadPending ==
  IF /\ manifest.is = "saved" /\ file["asset"] # Nil
     /\ manifest.size \in {Nil, Size(Contents("asset"))}
  THEN Latest ELSE Nil

(* ClearPending: os.RemoveAll of the whole directory.                        *)
ClearPending ==
  /\ file' = [file EXCEPT !["asset"] = Nil, !["asset.tmp"] = Nil]
  /\ manifest' = NoManifest

-----------------------------------------------------------------------------
(* Processes.                                                                *)

(* The slots are interchangeable: a new process takes any free one.          *)
Free == \E p \in Proc : pc[p] = "off"
Slot == CHOOSE p \in Proc : pc[p] = "off"

(* The process that `starter' leaves behind, in state `next', and the new    *)
(* one, in state `at', from what the name exe holds.                         *)
Spawn(starter, next, at) ==
  /\ Free
  /\ pc' = [p \in Proc |-> IF p = Slot THEN at ELSE IF p = starter THEN next ELSE pc[p]]
  /\ runs' = [runs EXCEPT ![Slot] = Contents("exe")]
  /\ image' = [image EXCEPT ![Slot] = file["exe"]]
  /\ phase' = [phase EXCEPT ![Slot] = "backup"]
  /\ tries' = [tries EXCEPT ![Slot] = 0]
  /\ kept' = [kept EXCEPT ![Slot] = Nil]

Executable == Contents("exe") \in Version

Start ==
  /\ May("acts", MaxActs) /\ Executable
  /\ Spawn(Nil, "off", "boot")
  /\ Use("acts") /\ UNCHANGED <<disk, in, out, got, spoiled>>

(* ApplyPendingUpdateOnStartup: the version must differ from the running one *)
(* (the comment asks for a newer one).                                       *)
ToApply(p) == LoadPending \notin {Nil, runs[p]}

BootSpawns(p) ==
  /\ pc[p] = "boot" /\ ToApply(p) /\ Executable
  /\ Spawn(p, "off", "wait") /\ Spoil("crossed", \E q \in Proc : Helping(q))
  /\ UNCHANGED <<disk, in, out, got, bounds>>

BootOpens(p) ==
  /\ pc[p] = "boot" /\ ~ (ToApply(p) /\ Executable)
  /\ pc' = [pc EXCEPT ![p] = "open"]
  /\ UNCHANGED <<disk, local, in, out, got, bounds, spoiled>>

(* ApplyPendingUpdate: spawn the helper, quit half a second later.           *)
ApplyPendingUpdate(p) ==
  /\ pc[p] = "open" /\ LoadPending # Nil /\ Executable
  /\ Spawn(p, "quit", "wait") /\ Spoil("crossed", \E q \in Proc : Helping(q))
  /\ UNCHANGED <<disk, in, out, got, bounds>>

CancelPendingUpdate(p) ==
  /\ pc[p] = "open" /\ ClearPending /\ Spoil("cancelled", \E q \in Proc : Helping(q))
  /\ UNCHANGED <<data, pc, local, in, out, got, bounds>>

(* A process ends; with a window its download ends where it is.              *)
Ends(p) ==
  /\ pc' = [pc EXCEPT ![p] = "off"]
  /\ got' = [got EXCEPT ![p] = "none"]
  /\ in' = [in EXCEPT ![p] = Nil] /\ out' = [out EXCEPT ![p] = Nil]
  /\ runs' = [runs EXCEPT ![p] = Installed] /\ image' = [image EXCEPT ![p] = 1]
  /\ phase' = [phase EXCEPT ![p] = "backup"] /\ tries' = [tries EXCEPT ![p] = 0]
  /\ kept' = [kept EXCEPT ![p] = Nil]

Quit(p) ==
  /\ pc[p] \in {"open", "quit"} /\ Ends(p)
  /\ UNCHANGED <<disk, bounds, spoiled>>

Killed(p) ==
  /\ Helping(p) \/ pc[p] = "boot"
  /\ Trouble
  /\ Ends(p)
  /\ UNCHANGED <<disk, spoiled>>

(* The downloaded file is damaged before a helper has compared its hash.     *)
Damage ==
  /\ file["asset"] # Nil /\ \A p \in Proc : Helping(p) => pc[p] = "wait"
  /\ Trouble /\ data' = [data EXCEPT ![file["asset"]] = Damaged]
  /\ UNCHANGED <<file, manifest, pc, local, in, out, got, spoiled>>

-----------------------------------------------------------------------------
(* DownloadUpdate: one download per window (downloadActive).                 *)

GotStep(p, from, to) ==
  /\ Windowed(p) \/ pc[p] = "quit"
  /\ got[p] = from /\ got' = [got EXCEPT ![p] = to]
  /\ UNCHANGED <<pc, local, in>>

DownloadUpdate(p) ==
  /\ Windowed(p) /\ May("acts", MaxActs) /\ Use("acts")
  /\ GotStep(p, "none", "opened")
  /\ OpenTrunc(p, "asset.tmp")
  /\ UNCHANGED manifest

DownloadBody(p) ==
  /\ GotStep(p, "opened", "written")
  /\ data' = [data EXCEPT ![out[p]] = Latest]
  /\ UNCHANGED <<file, manifest, out, bounds, spoiled>>

DownloadBreaks(p) ==
  /\ GotStep(p, "opened", "none")
  /\ Trouble
  /\ Remove("asset.tmp") /\ out' = [out EXCEPT ![p] = Nil]
  /\ UNCHANGED <<data, manifest, spoiled>>

DownloadNamed(p) ==
  /\ file["asset.tmp"] # Nil /\ GotStep(p, "written", "named")
  /\ Rename("asset.tmp", "asset") /\ out' = [out EXCEPT ![p] = Nil]
  /\ Spoil("shared", file["asset.tmp"] # out[p])
  /\ UNCHANGED <<data, manifest, bounds>>

DownloadUnnamed(p) ==
  /\ file["asset.tmp"] = Nil /\ GotStep(p, "written", "none")
  /\ out' = [out EXCEPT ![p] = Nil]
  /\ UNCHANGED <<disk, bounds, spoiled>>

(* IsVersionNewer and the published checksum; then os.Stat and SavePending,  *)
(* whose WriteFile truncates before it writes.                               *)
DownloadAccepted(p) ==
  /\ Latest > runs[p] /\ GotStep(p, "named", "saving")
  /\ manifest' = TornManifest
  /\ UNCHANGED <<file, data, out, bounds, spoiled>>

DownloadRejected(p) ==
  /\ Latest <= runs[p] /\ GotStep(p, "named", "none")
  /\ Remove("asset")
  /\ UNCHANGED <<data, manifest, out, bounds, spoiled>>

SaveWrites(p) ==
  /\ GotStep(p, "saving", "none")
  /\ manifest' = IF manifest.is = "absent" THEN manifest
                 ELSE [is |-> "saved",
                       size |-> IF file["asset"] = Nil THEN Nil ELSE Size(Contents("asset"))]
  /\ UNCHANGED <<file, data, out, bounds, spoiled>>

-----------------------------------------------------------------------------
(* RunApplyHelper.                                                           *)

Go(p, to) == pc' = [pc EXCEPT ![p] = to]

(* The two seconds are over; the hash is compared if there is a manifest.    *)
HashDiffers == LoadPending \notin {Nil, Contents("asset")}

Check(p) ==
  /\ pc[p] = "wait" /\ ~ HashDiffers
  /\ Go(p, "from")
  /\ Spoil("unchecked", LoadPending = Nil)
  /\ UNCHANGED <<disk, local, in, out, got, bounds>>

Reject(p) ==
  /\ pc[p] = "wait" /\ HashDiffers
  /\ ClearPending /\ Ends(p)
  /\ UNCHANGED <<data, bounds, spoiled>>

(* copyFile(Source, Target) of the three copies.                             *)
Source(p) == CASE phase[p] = "backup" -> "exe" [] phase[p] = "replace" -> "asset" [] OTHER -> "bak"
Target(p) == IF phase[p] = "backup" THEN "bak" ELSE "exe"
(* Mutant: copyFile writes to the file itself. *)
FreshIsTarget(p) == Target(p)

Fresh(p) == IF phase[p] = "backup" THEN "bak.new" ELSE "exe.new"

CopyOpens(p) ==
  /\ pc[p] = "from" /\ file[Source(p)] # Nil
  /\ in' = [in EXCEPT ![p] = file[Source(p)]]
  /\ OpenTrunc(p, Fresh(p)) /\ Go(p, "write")
  /\ UNCHANGED <<manifest, local, got, bounds>>

CopyWrites(p) ==
  /\ pc[p] = "write"
  /\ data' = [data EXCEPT ![out[p]] = data[in[p]]]
  /\ Go(p, "rename")
  /\ UNCHANGED <<file, manifest, local, in, out, got, bounds, spoiled>>

(* What follows a copy, by phase.                                            *)
AfterGood(p) ==
  CASE phase[p] = "backup" -> [at |-> "from", phase |-> "replace", tries |-> 0]
    [] phase[p] = "replace" -> [at |-> "restart", phase |-> "replace", tries |-> tries[p]]
    [] OTHER -> [at |-> "off", phase |-> "rollback", tries |-> tries[p]]

AfterBad(p) ==
  CASE phase[p] = "backup" -> [at |-> "from", phase |-> "replace", tries |-> 0]
    [] phase[p] = "replace" /\ tries[p] + 1 < Tries ->
         [at |-> "from", phase |-> "replace", tries |-> tries[p] + 1]
    [] phase[p] = "replace" /\ tries[p] + 1 >= Tries ->
         [at |-> IF file["bak"] = Nil THEN "off" ELSE "from", phase |-> "rollback",
          tries |-> Tries]
    [] OTHER -> [at |-> "off", phase |-> "rollback", tries |-> tries[p]]

Continue(p, a) ==
  /\ Go(p, a.at) /\ phase' = [phase EXCEPT ![p] = a.phase]
  /\ tries' = [tries EXCEPT ![p] = a.tries]
  /\ in' = [in EXCEPT ![p] = Nil] /\ out' = [out EXCEPT ![p] = Nil]
  /\ UNCHANGED <<data, manifest, runs, image, got, spoiled>>

CopyRenames(p) ==
  /\ pc[p] = "rename" /\ file[Fresh(p)] # Nil /\ ~ Locked(Target(p))
  /\ Rename(Fresh(p), Target(p))
  /\ kept' = IF phase[p] = "backup" THEN [kept EXCEPT ![p] = Contents(Fresh(p))] ELSE kept
  /\ Continue(p, AfterGood(p)) /\ UNCHANGED bounds

(* The source is gone, the rename is refused, or an I/O error: the ".new"    *)
(* file is removed except after a failed Sync or Close.                      *)
CopyFails(p) ==
  /\ \/ /\ pc[p] = "from" /\ file[Source(p)] = Nil
        /\ UNCHANGED <<file, bounds>>
     \/ /\ pc[p] = "rename" /\ (file[Fresh(p)] = Nil \/ Locked(Target(p)))
        /\ Remove(Fresh(p)) /\ UNCHANGED bounds
     \/ /\ pc[p] \in {"from", "write", "rename"} /\ Trouble
        /\ \/ pc[p] # "from" /\ Remove(Fresh(p))
           \/ pc[p] # "rename" /\ UNCHANGED file
  /\ UNCHANGED kept
  /\ Continue(p, AfterBad(p))

(* Mutant: the new version is not started. *)
RestartForgotten(p) ==
  /\ pc[p] = "restart" /\ Executable
  /\ Go(p, "clear")
  /\ UNCHANGED <<disk, local, in, out, got, bounds, spoiled>>

Restart(p) ==
  /\ pc[p] = "restart" /\ Executable
  /\ Spawn(p, "clear", "boot")
  /\ UNCHANGED <<disk, in, out, got, bounds, spoiled>>

RestartFails(p) ==
  /\ pc[p] = "restart" /\ ~ Executable /\ Ends(p)
  /\ UNCHANGED <<disk, bounds, spoiled>>

Clear(p) ==
  /\ pc[p] = "clear" /\ ClearPending /\ Ends(p)
  /\ UNCHANGED <<data, bounds, spoiled>>

-----------------------------------------------------------------------------
Downloading(p) ==
  \/ DownloadBody(p) \/ DownloadBreaks(p) \/ DownloadNamed(p) \/ DownloadUnnamed(p)
  \/ DownloadAccepted(p) \/ DownloadRejected(p) \/ SaveWrites(p)

Helper(p) ==
  \/ Check(p) \/ Reject(p) \/ CopyOpens(p) \/ CopyWrites(p) \/ CopyRenames(p) \/ CopyFails(p)
  \/ Restart(p) \/ RestartFails(p) \/ Clear(p)

UpdateNext ==
  \/ Start \/ Damage
  \/ \E p \in Proc :
       \/ BootSpawns(p) \/ BootOpens(p) \/ DownloadUpdate(p) \/ Downloading(p)
       \/ ApplyPendingUpdate(p) \/ CancelPendingUpdate(p) \/ Quit(p) \/ Killed(p) \/ Helper(p)

UpdateSpec == UpdateInit /\ [][UpdateNext /\ UNCHANGED windows]_<<updateVars, windows>>

(* Processes and goroutines run; no user action is fair.                     *)
UpdateFairSpec ==
  /\ UpdateSpec
  /\ \A p \in Proc :
       /\ WF_updateVars(BootSpawns(p) \/ BootOpens(p))
       /\ WF_updateVars(Helper(p))
       /\ WF_updateVars(Downloading(p))
       /\ WF_updateVars(pc[p] = "quit" /\ Quit(p))

-----------------------------------------------------------------------------
(* Whatever fails and whoever is killed when, the program can be started:    *)
(* copyFile replaces it by a rename of a complete file.  The exception is    *)
(* that two helpers wrote one file at the same time, or that a helper found  *)
(* no manifest with the hash of the file it was started for, and went on.    *)
ExeIsComplete == spoiled \cap {"shared", "unchecked"} # {} \/ Executable

(* Neither a failed replacement nor its rollback leaves a version older than *)
(* the one a helper has backed up.  (A helper whose own backup failed may    *)
(* restore what an earlier update left in .bak; it keeps nothing.)           *)
KeptOrNewer ==
  \/ spoiled \cap {"shared", "unchecked", "crossed"} # {}
  \/ \A p \in Proc : kept[p] # Nil => Contents("exe") >= kept[p]

(* A start of the program ends with a window, by way of the helper and the   *)
(* new version when an update is pending, unless an error, a kill or another *)
(* process came in between (RunApplyHelper, ApplyPendingUpdateOnStartup).    *)
(* Not so on Windows: a helper runs from the very file it has to replace, so *)
(* that each attempt is refused and it ends without starting anything; the   *)
(* version never changes, and as the update stays pending, no later start    *)
(* ends with a window either.                                                *)
StartOpens ==
  /\ \A p \in Proc :
       pc[p] = "boot" ~> \/ \E q \in Proc : Windowed(q)
                         \/ spoiled # {} \/ bounds["troubles"] > 0
                         \/ windows /\ LoadPending = Latest
  /\ [](windows => Contents("exe") = Installed)
=============================================================================
