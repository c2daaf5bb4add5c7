----------------------------- MODULE FileSources -----------------------------
(***************************************************************************)
(* Files that are listed and copied whole instead of being read from a     *)
(* disk: shares of SMB and NFS (internal/netfs, recovery/nas_scan.go),     *)
(* backups of iOS and Android (internal/ios, internal/android,             *)
(* recovery/ios_scan.go, android_scan.go).  A scan opens a session, which  *)
(* the engine keeps until Shutdown, and remembers for the ID of every file *)
(* where it came from; the copy of a file goes by that ID.  The scans of a *)
(* behaviour follow each other (BackgroundTasks lets them overlap).        *)
(*                                                                         *)
(* A name is a sequence of tokens, "_" and "/" among them.  What is stored *)
(* is a sequence of blocks [data, pad]: units of a file, the last block    *)
(* padded if the file is sealed; a box [key, of] gives its contents to its *)
(* key and Junk to any other.                                              *)
(***************************************************************************)
EXTENDS Integers, Sequences, SequencesExt, FiniteSetsExt, Functions, TLC

CONSTANTS
  Sources,      \* sequences of the sources that are scanned one after the other
  Buffer,       \* units that are copied at once (64 KB)
  CbcChunk,     \* blocks that are deciphered at once (512 and 256)
  NfsPort, SmbPort, PortmapPort,    \* 2049, 445, 111
  DefaultDepth, DefaultFiles        \* 50 and a million

VARIABLES
  sources,
  scan,     \* the scan in progress [phase, todo, share, agenda, here, count]
  sessions, \* of source i: [open, mounts, expired, temp, keys, cancelled, end]
  reported, \* files found: [session, id, item]
  origin,   \* ID -> [session, item] (nasSources, iosSources, androidSources)
  copy,     \* the copy in progress [file, from, part, state]
  target,   \* what stands at the output path
  shut      \* Shutdown was called

sourceVars == <<sources, scan, sessions, reported, origin, copy, target, shut>>

Nothing == [kind |-> "nothing"]
NoFile == <<"no file">>
Junk == "junk"
Now == Len(sessions)
Src(i) == sources[i]
Unseal(box, key) == IF box.key = key THEN box.of ELSE Junk
Joined(parts) == FoldLeft(LAMBDA s, p : s \o <<"_">> \o p, parts[1], Tail(parts))
LimitOf(asked, default) == IF asked <= 0 THEN default ELSE asked

-----------------------------------------------------------------------------
(* Network: what a server answers.  A call that fails for one reason fails  *)
(* like any other: no answer, an answer to something else, a refusal, too   *)
(* little data.  The deadline is set once, when the connection is made.     *)

newRPCClient(s, port) == port \in s.ports

call(i, what) == sessions[i].open /\ ~sessions[i].expired /\ what \notin Src(i).refuses

(* 0: the service is not registered, or the portmapper does not answer.     *)
portmapGetPort(s, program) ==
  IF newRPCClient(s, PortmapPort) /\ program \in DOMAIN s.registered
  THEN s.registered[program] ELSE 0

DialMount(s) ==
  LET port == IF s.mountPort = 0 THEN portmapGetPort(s, "mount") ELSE s.mountPort
  IN port # 0 /\ newRPCClient(s, port)

DialNFS(s) ==
  LET port == IF s.nfsPort = 0 THEN NfsPort ELSE s.nfsPort
      mapped == portmapGetPort(s, "nfs")
  IN \/ newRPCClient(s, port)
     \/ port = NfsPort /\ mapped \notin {0, NfsPort} /\ newRPCClient(s, mapped)

DialNFSSession(s) == DialMount(s) /\ DialNFS(s)

DialSMB(s) == (IF s.smbPort = 0 THEN SmbPort ELSE s.smbPort) \in s.ports /\ s.login

(* All exports; of the shares those that are not administrative.            *)
ListExports(i) == Src(i).listing
ListShares(i) == SelectSeq(Src(i).listing, LAMBDA n : Last(n) # "$")

Mnt(i, share) == share \in DOMAIN Src(i).root /\ call(i, <<"mount", share>>)

(* A root that was mounted before is not asked for again.                   *)
MountExport(i, share) == share \in sessions[i].mounts \/ Mnt(i, share)

-----------------------------------------------------------------------------
(* iOS: property lists, keys, records *)

(* A binary list is a table of objects that name each other by number; an   *)
(* XML list is the tree itself, in which keys and values of a dictionary    *)
(* alternate.  A dictionary with an unreadable member is unreadable.        *)
Bad == [kind |-> "bad"]

RECURSIVE decodeObject(_, _)
decodeObject(objects, i) ==
  IF i \notin DOMAIN objects THEN Bad
  ELSE LET o == objects[i]
           kids(refs) == [j \in DOMAIN refs |-> decodeObject(objects, refs[j])]
       IN CASE o.kind = "array" ->
                 IF \E v \in Range(kids(o.refs)) : v = Bad THEN Bad
                 ELSE [kind |-> "array", items |-> kids(o.refs)]
            [] o.kind = "dict" ->
                 LET ks == kids(o.keys) vs == kids(o.refs)
                 IN IF \E v \in Range(ks) : v.kind # "string" THEN Bad
                    ELSE IF \E v \in Range(vs) : v = Bad THEN Bad
                    ELSE [kind |-> "dict", of |->
                           [k \in {v.text : v \in Range(ks)} |->
                              vs[Max({j \in DOMAIN ks : ks[j].text = k})]]]
            [] OTHER -> o

RECURSIVE decodeXMLElement(_)
decodeXMLElement(e) ==
  CASE e.tag = "dict" ->
         LET n == Len(e.kids) \div 2
             vs == [j \in 1 .. n |-> decodeXMLElement(e.kids[2 * j])]
         IN IF \/ Len(e.kids) % 2 = 1
               \/ \E j \in DOMAIN e.kids : (e.kids[j].tag = "key") # (j % 2 = 1) THEN Bad
            ELSE IF \E v \in Range(vs) : v = Bad THEN Bad
            ELSE [kind |-> "dict", of |->
                   [k \in {e.kids[2 * j - 1].text : j \in 1 .. n} |->
                      vs[Max({j \in 1 .. n : e.kids[2 * j - 1].text = k})]]]
    [] e.tag = "array" ->
         LET vs == [j \in DOMAIN e.kids |-> decodeXMLElement(e.kids[j])]
         IN IF \E v \in Range(vs) : v = Bad THEN Bad ELSE [kind |-> "array", items |-> vs]
    [] e.tag = "value" -> e.value
    [] OTHER -> [kind |-> "null"]

ParseXMLPlist(p) == IF p.form = "xml" THEN decodeXMLElement(p.root) ELSE Bad

ParsePlist(p) ==
  IF p.form = "binary" THEN decodeObject(p.objects, p.top) ELSE ParseXMLPlist(p)

Member(v, key, kind) ==
  v.kind = "dict" /\ key \in DOMAIN v.of /\ v.of[key].kind = kind

GetBool(v, key) == Member(v, key, "bool") /\ v.of[key].bool
GetData(v, key) == IF Member(v, key, "data") THEN v.of[key].data ELSE Nothing

(* A wrapped key belongs to the class before it, salts and rounds to the    *)
(* bag wherever they stand.  A bag without salt or rounds is none.          *)
ParseKeybag(tags) ==
  LET value(t) == IF \E i \in DOMAIN tags : tags[i].tag = t
                  THEN tags[Max({i \in DOMAIN tags : tags[i].tag = t})].val ELSE ""
      classes == {i \in DOMAIN tags : tags[i].tag = "CLAS"}
      wrapped(i) == {j \in DOMAIN tags : j > i /\ tags[j].tag = "WPKY"
                                           /\ ~\E c \in classes : i < c /\ c < j}
  IN [ok |-> value("SALT") # "" /\ value("ITER") # "",
      salt |-> value("SALT"), double |-> value("DPSL"),
      classes |-> {[class |-> tags[i].val, box |-> tags[Max(wrapped(i))].val] :
                     i \in {i \in classes : wrapped(i) # {}}}]

(* What is wrapped with another key is left out: some key is enough.        *)
UnlockKeybag(bag, password) ==
  LET first == IF bag.double = "" THEN <<password>> ELSE <<"sha256", password, bag.double>>
      key == <<"sha1", first, bag.salt>>
      opened == {c \in bag.classes : c.box.key = key}
  IN [n \in {c.class : c \in opened} |-> (CHOOSE c \in opened : c.class = n).box.of]

(* A class key opens what names its class.                                  *)
UnwrapWith(keys, sealed) ==
  IF sealed = Nothing \/ sealed.class \notin DOMAIN keys THEN Junk
  ELSE Unseal(sealed.box, keys[sealed.class])

NoKeys == [n \in {} |-> Junk]

OpenBackup(s) ==
  LET manifest == ParsePlist(s.manifest)
  IN [ok |-> manifest # Bad, encrypted |-> GetBool(manifest, "IsEncrypted"),
      tags |-> GetData(manifest, "BackupKeyBag"), key |-> GetData(manifest, "ManifestKey")]

(* How a backup is opened: [end, keys, temp].  The list of files of a       *)
(* sealed backup is deciphered to a temporary file, which goes with the     *)
(* session or with the error.                                               *)
DialIOS(s) ==
  LET backup == OpenBackup(s)
      bag == ParseKeybag(backup.tags.tags)
      keys == IF backup.tags = Nothing \/ ~bag.ok THEN NoKeys ELSE UnlockKeybag(bag, s.password)
      failed == [end |-> "failed", keys |-> NoKeys, temp |-> FALSE]
  IN IF ~backup.ok THEN failed
     ELSE IF ~backup.encrypted
          THEN [failed EXCEPT !.end = IF s.database = "plain" THEN "open" ELSE "failed"]
     ELSE IF s.password = "" THEN [failed EXCEPT !.end = "password"]
     ELSE IF keys = NoKeys \/ UnwrapWith(keys, backup.key) # s.database THEN failed
     ELSE [end |-> "open", keys |-> keys, temp |-> TRUE]

(* The key of a file stands in the archive of its attributes: the first     *)
(* object with as many keys as values.                                      *)
extractFileAttrs(archive) ==
  LET root == ParsePlist(archive)
      objects == IF Member(root, "$objects", "array") THEN root.of["$objects"].items ELSE <<>>
      deref(v) == IF v.kind = "uid" /\ v.uid < Len(objects) THEN objects[v.uid + 1] ELSE v
      lists(o) == /\ Member(o, "NS.keys", "array") /\ Member(o, "NS.objects", "array")
                  /\ Len(o.of["NS.keys"].items) = Len(o.of["NS.objects"].items)
      dicts == {i \in DOMAIN objects : lists(objects[i])}
  IN IF dicts = {} THEN Nothing
     ELSE LET o == objects[Min(dicts)].of
              at == {j \in DOMAIN o["NS.keys"].items :
                       /\ deref(o["NS.keys"].items[j]) = [kind |-> "string", text |-> "EncryptionKey"]
                       /\ deref(o["NS.objects"].items[j]).kind = "data"}
          IN IF at = {} THEN Nothing ELSE deref(o["NS.objects"].items[Max(at)]).data

-----------------------------------------------------------------------------
(* Android: header, master key, the stream of a tar *)

ParseHeader(h) ==
  h.magic /\ h.version \in 1 .. 5 /\ h.compressed \in {0, 1} /\ h.encryption \in {"none", "AES-256"}

computeMasterKeyChecksum(key, salt, version) ==
  <<IF version >= 3 THEN <<"chars", key>> ELSE <<key>>, salt>>

fallbackVersion(version) == IF version >= 3 THEN 1 ELSE 3

DeriveAndDecryptMasterKey(h, password) ==
  LET blob == h.blob.of
      sums == {computeMasterKeyChecksum(blob.key, h.sumSalt, v) :
                 v \in {h.version, fallbackVersion(h.version)}}
  IN IF h.blob.key = <<password, h.userSalt>> /\ blob.checksum \in sums THEN blob.key ELSE Junk

DialAndroid(s) ==
  LET key == DeriveAndDecryptMasterKey(s.header, s.password)
      ended(end) == [end |-> end, keys |-> NoKeys, temp |-> FALSE]
  IN IF ~ParseHeader(s.header) THEN ended("failed")
     ELSE IF s.header.encryption = "none" THEN ended("open")
     ELSE IF s.password = "" THEN ended("password")
     ELSE IF key = Junk THEN ended("failed")
     ELSE [ended("open") EXCEPT !.keys = 0 :> key]

DataOf(blocks) == FlattenSeq([i \in DOMAIN blocks |-> blocks[i].data])
UnitsOf(blocks) == FlattenSeq([i \in DOMAIN blocks |-> blocks[i].data \o blocks[i].pad])

(* Only the last block is padded; without a padding there is nothing.       *)
Unpadded(blocks) ==
  IF Last(blocks).pad # <<>>
  THEN [units |-> UnitsOf(Front(blocks)) \o Last(blocks).data, error |-> FALSE]
  ELSE [units |-> <<>>, error |-> TRUE]

(* The last block that was deciphered is held back, because it may be the   *)
(* one that is padded.                                                      *)
RECURSIVE cbcStream(_, _)
cbcStream(prevBlock, rest) ==
  IF Len(rest) >= CbcChunk
  THEN LET all == prevBlock \o SubSeq(rest, 1, CbcChunk)
           later == cbcStream(<<Last(all)>>, SubSeq(rest, CbcChunk + 1, Len(rest)))
       IN [units |-> UnitsOf(Front(all)) \o later.units, error |-> later.error]
  ELSE IF prevBlock \o rest = <<>> THEN [units |-> <<>>, error |-> FALSE]
  ELSE Unpadded(prevBlock \o rest)

(* The payload, deciphered and inflated as far as it goes.                  *)
openTarReader(s, keys) ==
  IF s.header.encryption = "none" THEN [units |-> UnitsOf(s.payload.blocks), error |-> s.payload.cut]
  ELSE IF keys = NoKeys \/ s.payload.cut THEN [units |-> <<>>, error |-> TRUE]
  ELSE cbcStream(<<>>, s.payload.blocks)

(* Where the headers [head, name, type, size, manifest] of the tar stand;   *)
(* the units up to the next one are the body.                               *)
Entries(stream) ==
  SetToSortSeq({j \in DOMAIN stream.units : stream.units[j].head}, <)

Body(stream, at) ==
  LET ends == {j \in Range(Entries(stream)) : j > at}
      last == IF ends = {} THEN Len(stream.units) ELSE Min(ends) - 1
  IN [j \in 1 .. last - at |-> stream.units[at + j].is]

Whole(stream, at) == Len(Body(stream, at)) = stream.units[at].size

-----------------------------------------------------------------------------
(* A scan *)

NewSession ==
  [open |-> FALSE, mounts |-> {}, expired |-> FALSE, temp |-> FALSE, keys |-> NoKeys,
   cancelled |-> FALSE, end |-> "none"]

NoScan == [phase |-> "idle", todo |-> <<>>, agenda |-> <<>>, here |-> <<>>, count |-> 0]
NoCopy == [state |-> "none", file |-> <<>>, from |-> <<>>, part |-> <<>>]

SourcesInit ==
  /\ sources \in Sources
  /\ scan = NoScan /\ sessions = <<>> /\ reported = <<>> /\ origin = <<>>
  /\ copy = NoCopy /\ target = NoFile /\ shut = FALSE

Remote(s) == s.kind \in {"nfs", "smb"}
Cancelled == sessions[Now].cancelled
Share == Head(scan.todo)

(* The files are told one by one; an ID that comes again leads to the later *)
(* file.                                                                    *)
Tell(files) ==
  /\ reported' = reported \o files
  /\ origin' = FoldLeft(LAMBDA o, r : (r.id :> r) @@ o, origin, files)

FileOf(parts, item) == [session |-> Now, id |-> Joined(parts), item |-> item]

Ended(end) ==
  /\ sessions' = [sessions EXCEPT ![Now].end = end] /\ scan' = NoScan

StartScan ==
  /\ scan.phase = "idle" /\ Now < Len(sources) /\ ~shut
  /\ sessions' = Append(sessions, NewSession)
  /\ scan' = [NoScan EXCEPT !.phase = "dial"]
  /\ UNCHANGED <<sources, reported, origin, copy, target, shut>>

(* Only the network listens to a cancellation here.                         *)
Dialled(s) ==
  LET opened(ok) == [end |-> IF ok THEN "open" ELSE "failed", keys |-> NoKeys, temp |-> FALSE]
  IN CASE s.kind = "nfs" -> opened(DialNFSSession(s))
       [] s.kind = "smb" -> opened(DialSMB(s))
       [] s.kind = "ios" -> DialIOS(s)
       [] s.kind = "android" -> DialAndroid(s)

Dial ==
  /\ scan.phase = "dial"
  /\ LET s == Src(Now)
         got == Dialled(s)
     IN \/ /\ got.end = "open"
           /\ sessions' = [sessions EXCEPT ![Now].open = TRUE, ![Now].keys = got.keys,
                                           ![Now].temp = got.temp]
           /\ scan' = [scan EXCEPT !.phase = IF Remote(s) THEN "list" ELSE "rows"]
        \/ /\ got.end # "open" /\ Ended(got.end)
        \/ /\ Remote(s) /\ Cancelled /\ Ended("failed")
  /\ UNCHANGED <<sources, reported, origin, copy, target, shut>>

(* The session of a scan that fails stays open until Shutdown.              *)
ListShared ==
  /\ scan.phase = "list" /\ ~shut
  /\ LET s == Src(Now)
         all == IF s.kind = "nfs" THEN ListExports(Now) ELSE ListShares(Now)
     IN IF s.asked = <<>> /\ ~call(Now, <<"list">>) THEN Ended("failed")
        ELSE /\ scan' = [scan EXCEPT !.phase = "shares",
                                     !.todo = IF s.asked = <<>> THEN all ELSE s.asked]
             /\ UNCHANGED sessions
  /\ UNCHANGED <<sources, reported, origin, copy, target, shut>>

(* A share that cannot be mounted is passed over.                           *)
NextShare ==
  /\ scan.phase = "shares" /\ ~shut
  /\ IF scan.todo = <<>> THEN Ended("completed")
     ELSE IF Cancelled THEN Ended("failed")
     ELSE IF ~MountExport(Now, Share)
     THEN scan' = [scan EXCEPT !.todo = Tail(@)] /\ UNCHANGED sessions
     ELSE /\ scan' = [scan EXCEPT !.phase = "walk", !.count = 0, !.here = <<>>,
                !.agenda = <<[handle |-> Src(Now).root[Share], path |-> <<>>, depth |-> 0,
                              type |-> "dir"]>>]
          /\ sessions' = IF Src(Now).kind = "nfs"
                         THEN [sessions EXCEPT ![Now].mounts = @ \cup {Share}] ELSE sessions
  /\ UNCHANGED <<sources, reported, origin, copy, target, shut>>

(* However the walk over a share ends, the next share follows.              *)
ShareDone(s) == [s EXCEPT !.phase = "shares", !.todo = Tail(@), !.agenda = <<>>, !.here = <<>>]

Child(dir, e) ==
  [handle |-> e.handle, type |-> e.type, depth |-> dir.depth + 1,
   path |-> IF dir.path = <<>> THEN e.name ELSE dir.path \o <<"/">> \o e.name]

NasFile(c) == FileOf(<< <<Src(Now).kind>>, Src(Now).host, Share, c.path>>, c.handle)

(* NFS: the directories wait on a stack.                                    *)
TakeDirectory ==
  /\ scan.phase = "walk" /\ Src(Now).kind = "nfs" /\ scan.here = <<>> /\ ~shut
  /\ scan' = IF scan.agenda = <<>> \/ Cancelled THEN ShareDone(scan)
             ELSE [scan EXCEPT !.here = <<Last(scan.agenda), 1>>, !.agenda = Front(@)]
  /\ UNCHANGED <<sources, sessions, reported, origin, copy, target, shut>>

(* What has no attributes counts as a file; the file beyond the limit is    *)
(* told before the share is given up.                                       *)
WalkExport(dir, entries) ==
  LET limit == LimitOf(Src(Now).maxFiles, DefaultFiles)
      depth == LimitOf(Src(Now).maxDepth, DefaultDepth)
      Take(acc, e) ==
        LET c == Child(dir, e)
        IN IF acc.over \/ e.name \in {<<".">>, <<"..">>} THEN acc
           ELSE IF e.type # "dir"
           THEN [acc EXCEPT !.files = Append(@, NasFile(c)), !.count = @ + 1,
                            !.over = acc.count + 1 > limit]
           ELSE IF c.depth <= depth /\ e.handle # 0
           THEN [acc EXCEPT !.agenda = Append(@, c)] ELSE acc
  IN FoldLeft(Take, [files |-> <<>>, agenda |-> scan.agenda, count |-> scan.count,
                     over |-> FALSE], entries)

(* An answer with an error, or an empty one, ends the directory silently.   *)
ReadBatch ==
  /\ scan.phase = "walk" /\ Src(Now).kind = "nfs" /\ scan.here # <<>> /\ ~shut
  /\ LET dir == scan.here[1]
         n == scan.here[2]
         s == Src(Now)
     IN IF \/ ~call(Now, <<"read", dir.handle>>) \/ dir.handle \notin DOMAIN s.dirs
           \/ n \notin DOMAIN s.dirs[dir.handle]
        THEN scan' = [scan EXCEPT !.here = <<>>] /\ UNCHANGED <<reported, origin>>
        ELSE LET batch == s.dirs[dir.handle][n]
                 got == WalkExport(dir, batch.entries)
             IN /\ Tell(got.files)
                /\ scan' = IF got.over THEN ShareDone(scan)
                           ELSE [scan EXCEPT !.agenda = got.agenda, !.count = got.count,
                                   !.here = IF batch.eof \/ batch.entries = <<>> THEN <<>>
                                            ELSE <<dir, n + 1>>]
  /\ UNCHANGED <<sources, sessions, copy, target, shut>>

(* SMB: one entry at a time, a directory before its entries.  The file      *)
(* beyond the limit is not told, nor is what has no attributes.             *)
WalkShare ==
  /\ scan.phase = "walk" /\ Src(Now).kind = "smb" /\ ~shut
  /\ IF scan.agenda = <<>> \/ Cancelled
     THEN scan' = ShareDone(scan) /\ UNCHANGED <<reported, origin>>
     ELSE LET c == Head(scan.agenda)
              s == Src(Now)
              kids == IF c.type = "dir" /\ call(Now, <<"read", c.handle>>)
                      THEN [j \in DOMAIN s.dirs[c.handle][1].entries |->
                              Child(c, s.dirs[c.handle][1].entries[j])] ELSE <<>>
              listed == c.type = "file" /\ c.path # <<>>
              tooDeep == Cardinality({j \in DOMAIN c.path : c.path[j] = "/"})
                           > LimitOf(s.maxDepth, DefaultDepth)
              tooMany == scan.count + 1 > LimitOf(s.maxFiles, DefaultFiles)
          IN IF tooDeep THEN scan' = [scan EXCEPT !.agenda = Tail(@)] /\ UNCHANGED <<reported, origin>>
             ELSE IF listed /\ tooMany THEN scan' = ShareDone(scan) /\ UNCHANGED <<reported, origin>>
             ELSE /\ scan' = [scan EXCEPT !.agenda = kids \o Tail(@),
                                          !.count = IF listed THEN @ + 1 ELSE @]
                  /\ IF listed THEN Tell(<<NasFile(c)>>) ELSE UNCHANGED <<reported, origin>>
  /\ UNCHANGED <<sources, sessions, copy, target, shut>>

(* The rows of the list of files; files with an ID and a name are told.     *)
EnumerateRows ==
  /\ scan.phase = "rows" /\ Src(Now).kind = "ios" /\ ~shut
  /\ LET s == Src(Now)
         n == scan.count + 1
     IN IF n > Len(s.rows)
        THEN /\ \E end \in (IF s.damaged THEN {"failed"} ELSE {"completed"})
                             \cup (IF Cancelled THEN {"failed"} ELSE {}) : Ended(end)
             /\ UNCHANGED <<reported, origin>>
        ELSE IF Cancelled THEN Ended("failed") /\ UNCHANGED <<reported, origin>>
        ELSE /\ scan' = [scan EXCEPT !.count = n] /\ UNCHANGED sessions
             /\ IF s.rows[n].file /\ s.rows[n].id # <<>> /\ s.rows[n].named
                THEN Tell(<<FileOf(<< <<"ios">>, s.udid, s.rows[n].id>>, n)>>)
                ELSE UNCHANGED <<reported, origin>>
  /\ UNCHANGED <<sources, copy, target, shut>>

shouldInclude(h) == h.type # "dir" /\ h.name # <<>> /\ ~h.manifest

(* The entries of the archive as far as it can be read.                     *)
EnumerateEntries ==
  /\ scan.phase = "rows" /\ Src(Now).kind = "android" /\ ~shut
  /\ LET s == Src(Now)
         stream == openTarReader(s, sessions[Now].keys)
         entries == Entries(stream)
         n == scan.count + 1
         cut == stream.error \/ \E at \in Range(entries) : ~Whole(stream, at)
     IN IF n > Len(entries) \/ Cancelled
        THEN /\ Ended(IF cut \/ Cancelled THEN "failed" ELSE "completed")
             /\ UNCHANGED <<reported, origin>>
        ELSE /\ scan' = [scan EXCEPT !.count = n] /\ UNCHANGED sessions
             /\ LET h == stream.units[entries[n]]
                IN IF shouldInclude(h)
                THEN Tell(<<FileOf(<< <<"android">>, s.base, h.name>>, h.name)>>)
                ELSE UNCHANGED <<reported, origin>>
  /\ UNCHANGED <<sources, copy, target, shut>>

CancelScan ==
  /\ scan.phase # "idle" /\ ~Cancelled /\ ~shut
  /\ sessions' = [sessions EXCEPT ![Now].cancelled = TRUE]
  /\ UNCHANGED <<sources, scan, reported, origin, copy, target, shut>>

(* A minute after an NFS connection was made, it answers no more.           *)
Expire ==
  /\ ~shut
  /\ \E i \in DOMAIN sessions :
       /\ Src(i).kind = "nfs" /\ sessions[i].open /\ ~sessions[i].expired
       /\ sessions' = [sessions EXCEPT ![i].expired = TRUE]
  /\ UNCHANGED <<sources, scan, reported, origin, copy, target, shut>>

-----------------------------------------------------------------------------
(* The copy of a file that was found, by its ID *)

Reaches(r) == call(r.session, <<"content", r.item>>)
CopyEnds(end) == copy' = [copy EXCEPT !.state = end]

(* Only SMB opens the file first.                                           *)
StartCopy ==
  /\ copy.state = "none" /\ ~shut
  /\ \E r \in Range(reported) :
       LET from == origin[r.id]
       IN copy' = [state |-> IF Src(from.session).kind = "smb" /\ ~Reaches(from)
                             THEN "refused" ELSE "copying",
                   file |-> r, from |-> from, part |-> <<>>]
  /\ UNCHANGED <<sources, scan, sessions, reported, origin, target, shut>>

From == copy.from
FromKind == Src(From.session).kind

(* The end of a file shows in SMB when nothing is read, in NFS when less    *)
(* than asked for is read: there an empty answer is an error.               *)
ReadAt(kind, all, at) ==
  LET n == IF at + Buffer <= Len(all) THEN Buffer ELSE Len(all) - at
  IN [units |-> SubSeq(all, at + 1, at + n), fails |-> kind = "nfs" /\ n = 0,
      ends |-> IF kind = "nfs" THEN n < Buffer ELSE n = 0]

(* A share is read into a ".part", which is renamed at the end.             *)
CopyPart ==
  /\ copy.state = "copying" /\ FromKind \in {"nfs", "smb"} /\ ~shut
  /\ LET got == ReadAt(FromKind, Src(From.session).content[From.item], Len(copy.part))
     IN IF ~Reaches(From) \/ got.fails
        THEN CopyEnds("refused") /\ UNCHANGED target
        ELSE /\ copy' = [copy EXCEPT !.part = @ \o got.units,
                                     !.state = IF got.ends THEN "done" ELSE @]
             /\ target' = IF got.ends THEN copy'.part ELSE target
  /\ UNCHANGED <<sources, scan, sessions, reported, origin, shut>>

(* A minute for a file of SMB, ten for one of NFS.                          *)
CopyTooLong ==
  /\ copy.state = "copying" /\ FromKind \in {"nfs", "smb"} /\ ~shut
  /\ CopyEnds("late")
  /\ UNCHANGED <<sources, scan, sessions, reported, origin, target, shut>>

(* What a copy of a backup's file writes: [units, end].  Whatever cannot be *)
(* read of a plain file ends it as if it were its end.                      *)
RecoverFile(r) ==
  LET s == Src(r.session)
      row == s.rows[r.item]
      sealed == extractFileAttrs(row.archive)
      stored == s.stored[row.id]
      tail == Len(stored.blocks) - ((Len(stored.blocks) - 1) % CbcChunk)
      last == Unpadded(SubSeq(stored.blocks, tail, Len(stored.blocks)))
  IN IF row.id \notin DOMAIN s.stored THEN [units |-> NoFile, end |-> "refused"]
     ELSE IF sessions[r.session].keys = NoKeys \/ sealed = Nothing
     THEN [units |-> IF stored.sealed THEN <<Junk>> ELSE UnitsOf(SubSeq(stored.blocks, 1, stored.readable)),
           end |-> "done"]
     ELSE IF UnwrapWith(sessions[r.session].keys, sealed) = Junk
     THEN [units |-> NoFile, end |-> "refused"]
     ELSE IF stored.blocks = <<>> THEN [units |-> <<>>, end |-> "done"]
     ELSE IF stored.readable < Len(stored.blocks)
     THEN [units |-> UnitsOf(SubSeq(stored.blocks, 1, stored.readable - (stored.readable % CbcChunk))),
           end |-> "refused"]
     ELSE [units |-> UnitsOf(SubSeq(stored.blocks, 1, tail - 1)) \o last.units,
           end |-> IF last.error THEN "refused" ELSE "done"]

(* The first entry of that name.  Nothing is written for an entry that is   *)
(* neither a file nor a link.                                               *)
RecoverEntry(r) ==
  LET stream == openTarReader(Src(r.session), sessions[r.session].keys)
      named == {at \in Range(Entries(stream)) : stream.units[at].name = r.item}
      at == Min(named)
  IN IF named = {} THEN [units |-> NoFile, end |-> "refused"]
     ELSE CASE stream.units[at].type = "file" ->
                 [units |-> Body(stream, at), end |-> IF Whole(stream, at) THEN "done" ELSE "refused"]
            [] stream.units[at].type = "link" -> [units |-> stream.units[at].link, end |-> "done"]
            [] OTHER -> [units |-> NoFile, end |-> "done"]

(* Written to the output itself, where what was written stays.              *)
CopyBackup ==
  /\ copy.state = "copying" /\ FromKind \in {"ios", "android"} /\ ~shut
  /\ LET got == IF FromKind = "ios" THEN RecoverFile(From) ELSE RecoverEntry(From)
     IN CopyEnds(got.end) /\ target' = got.units
  /\ UNCHANGED <<sources, scan, sessions, reported, origin, shut>>

(* No room where the file goes.                                             *)
CopyOutOfRoom ==
  /\ copy.state = "copying" /\ ~shut
  /\ CopyEnds("no room")
  /\ IF FromKind \in {"nfs", "smb"} THEN UNCHANGED target
     ELSE LET got == IF FromKind = "ios" THEN RecoverFile(From) ELSE RecoverEntry(From)
          IN /\ got.units \notin {NoFile, <<>>}
             /\ \E n \in 0 .. Len(got.units) - 1 : target' = SubSeq(got.units, 1, n)
  /\ UNCHANGED <<sources, scan, sessions, reported, origin, shut>>

(* An export that is no longer reached stays mounted at the server.         *)
Closed(s) ==
  [s EXCEPT !.open = FALSE, !.temp = FALSE, !.keys = NoKeys,
            !.mounts = IF s.expired THEN @ ELSE {}]

(* A scan that is still dialling goes on doing so.                          *)
Shutdown ==
  /\ ~shut /\ shut' = TRUE
  /\ sessions' = [i \in DOMAIN sessions |-> Closed(sessions[i])]
  /\ origin' = <<>>
  /\ UNCHANGED <<sources, scan, reported, copy, target>>

SourcesNext ==
  \/ StartScan \/ Dial \/ ListShared \/ NextShare \/ TakeDirectory \/ ReadBatch \/ WalkShare
  \/ EnumerateRows \/ EnumerateEntries \/ CancelScan \/ Expire
  \/ StartCopy \/ CopyPart \/ CopyTooLong \/ CopyBackup \/ CopyOutOfRoom \/ Shutdown

-----------------------------------------------------------------------------
(* Whose names could be mistaken: a "_" in a name, two backups of one name, *)
(* an archive that holds a name twice.                                      *)
Ambiguous(i) ==
  \/ Src(i).doubled
  \/ \E j \in DOMAIN sessions : i # j /\ Src(i).kind = Src(j).kind /\ ~Remote(Src(i))
       /\ IF Src(i).kind = "ios" THEN Src(i).udid = Src(j).udid ELSE Src(i).base = Src(j).base

(* What a share or an export holds within the depth: its files, and in NFS  *)
(* what has no attributes.                                                  *)
RECURSIVE Below(_, _)
Below(s, dir) ==
  IF \/ <<"read", dir.handle>> \in s.refuses \/ dir.handle \notin DOMAIN s.dirs
     \/ dir.depth > LimitOf(s.maxDepth, DefaultDepth)
  THEN {}
  ELSE UNION {LET c == Child(dir, e)
              IN IF e.name \in {<<".">>, <<"..">>} THEN {}
                 ELSE IF e.type = "dir" THEN Below(s, c)
                 ELSE IF e.type = "file" \/ s.kind = "nfs" THEN {c} ELSE {} :
              e \in UNION {Range(b.entries) : b \in Range(s.dirs[dir.handle])}}

SharesOf(s) ==
  {n \in Range(IF s.asked # <<>> THEN s.asked
               ELSE SelectSeq(s.listing, LAMBDA x : s.kind = "nfs" \/ Last(x) # "$")) :
     n \in DOMAIN s.root /\ <<"mount", n>> \notin s.refuses}

ToldBy(i) == SelectSeq(reported, LAMBDA r : r.session = i)

(* A scan that was neither cancelled nor cut off has told every file of     *)
(* every share once, or as many as the limit lets pass; that of a backup    *)
(* every file there is (ScanNFSExport, ScanSMBShare, ScanIOSBackup,         *)
(* ScanAndroidBackup).                                                      *)
ListingIsTrue ==
  \A i \in DOMAIN sessions :
    LET s == Src(i)
        told == [j \in DOMAIN ToldBy(i) |-> ToldBy(i)[j].id]
        ids(n) == {Joined(<< <<s.kind>>, s.host, n, c.path>>) :
                     c \in Below(s, [handle |-> s.root[n], path |-> <<>>, depth |-> 0])}
        limit == LimitOf(s.maxFiles, DefaultFiles)
        passed == IF s.kind = "nfs" THEN limit + 1 ELSE limit
    IN sessions[i].end = "completed" /\ ~s.doubled
       => CASE Remote(s) /\ ~sessions[i].cancelled /\ ~sessions[i].expired ->
                 /\ IsInjective(told)
                 /\ Range(told) \subseteq UNION {ids(n) : n \in SharesOf(s)}
                 /\ \A n \in SharesOf(s) :
                      LET all == Cardinality(ids(n))
                      IN Cardinality(ids(n) \cap Range(told)) = IF all > passed THEN passed ELSE all
            [] s.kind = "ios" ->
                 Range(told) = {Joined(<< <<"ios">>, s.udid, w.id>>) :
                                  w \in {w \in Range(s.rows) : w.file /\ w.named /\ w.id # <<>>}}
            [] OTHER -> TRUE

(* What is stored under a file that was found.                              *)
Content(r) ==
  LET s == Src(r.session)
  IN CASE Remote(s) -> s.content[r.item]
       [] s.kind = "ios" -> DataOf(s.stored[s.rows[r.item].id].blocks)
       [] s.kind = "android" -> s.bodies[r.item]

(* Found to be copied wrongly: a plain file of a backup that cannot be read *)
(* to its end, a sealed one whose record does not give its key, an entry    *)
(* that is neither a file nor a link (copyFile, RecoverFile, writeTarEntry).*)
Doubtful(r) ==
  LET s == Src(r.session)
  IN \/ Ambiguous(r.session)
     \/ s.kind = "ios" /\ LET w == s.rows[r.item]
                          IN \/ w.id \in DOMAIN s.stored /\ s.stored[w.id].readable < Len(s.stored[w.id].blocks)
                             \/ s.stored[w.id].sealed /\ extractFileAttrs(w.archive) = Nothing
     \/ s.kind = "android" /\ r.item \notin DOMAIN s.bodies

(* A copy that is reported as done is the file that was chosen, whatever    *)
(* was scanned since; a file of a share is there when it is whole, and only *)
(* then (recoverNASFile, DecryptBackupFile, RecoverMany).                   *)
CopyIsTrue ==
  /\ copy.state = "done" /\ ~Doubtful(copy.file) => target = Content(copy.file)
  /\ copy.state \notin {"none", "done"} /\ Remote(Src(From.session)) => target = NoFile

(* The copy of an intact file is refused for a reason only: the connection  *)
(* that is too old, what the server or the backup does not give, the size   *)
(* that ends with a buffer.                                                 *)
RefusedForCause ==
  copy.state = "refused" =>
    LET s == Src(From.session)
    IN CASE s.kind = "nfs" -> \/ ~Reaches(From)
                              \/ Len(s.content[From.item]) % Buffer = 0
         [] s.kind = "smb" -> ~Reaches(From)
         [] OTHER -> s.damaged

(* What was deciphered, the keys and the connections go with the session;   *)
(* Shutdown leaves none behind but that of a scan that was still dialling,  *)
(* and no mount but where the connection was too old.                       *)
NothingLeft ==
  \A i \in DOMAIN sessions :
    LET s == sessions[i]
    IN /\ ~s.open => ~s.temp /\ s.keys = NoKeys /\ (s.mounts = {} \/ s.expired)
       /\ shut /\ s.open => i = Now /\ scan.phase \notin {"idle", "dial"} /\ ToldBy(i) = <<>>

(* A sealed backup opens with its password and no other; what is in order,  *)
(* backup or server, opens and is listed to the end.                        *)
OpensIfItMay ==
  \A i \in DOMAIN sessions :
    LET s == Src(i)
    IN /\ sessions[i].end = "failed" /\ ~s.damaged /\ ~sessions[i].cancelled /\ ~sessions[i].expired
          => ~Remote(s) /\ s.password # s.owner
       /\ ~Remote(s) /\ s.owner # ""
          => /\ sessions[i].open /\ ~shut => s.password = s.owner
             /\ sessions[i].end = "password" <=> s.password = "" /\ sessions[i].end # "none"

SourcesAreTrue ==
  ListingIsTrue /\ CopyIsTrue /\ RefusedForCause /\ NothingLeft /\ OpensIfItMay
=============================================================================
