--------------------------- MODULE EncryptedVolume ---------------------------
(***************************************************************************)
(* Finding, unlocking and reading volumes of BitLocker, LUKS and VeraCrypt *)
(* (internal/bitlocker, luks, veracrypt, disk/sector_cache.go and the      *)
(* calls of the application that open the disk and close it again).        *)
(*                                                                         *)
(* Ciphers are symbols: a box [key, of] gives its contents to its key and  *)
(* Junk to any other.  The disk is a row of units, a few of which make a   *)
(* sector; unit x of a volume contains x, sealed with the volume's key and *)
(* the number of its sector.  A volume carries what is true of it          *)
(* (enc.data) apart from what its headers say.                             *)
(***************************************************************************)
EXTENDS Integers, Sequences, SequencesExt, FiniteSetsExt

CONSTANTS
  EncVolumes,
  CacheSectors,  \* capacity of the cache of sectors (8192)
  HeaderRoom,    \* units of a LUKS2 header that are read (16 KB)
  MemoryChunk,   \* blocks of a memory image that are read at once (1 MB)
  SystemHeader,  \* place of the header of an encrypted system (31744)
  SectorSizes,   \* units in a sector: 512 and 4096 bytes
  HashNames,     \* sequence of hashes (SupportedHashes)
  CipherNames,   \* sequence of ciphers and cascades (supportedCiphers)
  Workers,       \* goroutines of parallelUnlock (runtime.NumCPU)
  ReadRequests,  \* requests [off, len]
  MaxReads

VARIABLES
  enc,     \* the disk, the volume and the secret that was entered
  step,
  listed,  \* volumes found on the disk
  handles, \* open handles: the disk, the image of memory
  opened,  \* the reader [off, size, iv, plain, key, sector]
  jobs, tasks, won, stopFlag,  \* parallelUnlock
  cached,  \* sectors in the cache, the last one used first
  request, answer, count

encVars == <<enc, step, listed, handles, opened, jobs, tasks, won, stopFlag, cached,
             request, answer, count>>

Nothing == [value |-> "none", protection |-> "none"]
Junk == "junk"
JunkKey == [key |-> Junk, method |-> Junk]
Unseal(box, key) == IF box.key = key THEN box.of ELSE Junk
Derive(secret, salt) == <<secret, salt>>

SmallSector == CHOOSE n \in SectorSizes : \A m \in SectorSizes : n <= m

-----------------------------------------------------------------------------
(* BitLocker: metadata blocks, protectors, keys *)

(* A list ends where an entry cannot be parsed. *)
parseDatumList(list) ==
  LET bad == {i \in DOMAIN list : ~list[i].ok}
  IN  IF bad = {} THEN list ELSE SubSeq(list, 1, Min(bad) - 1)

Nested == {"vmk", "stretch", "aesccm", "concat", "external", "use"}
Children(d) == IF d.value \in Nested THEN parseDatumList(d.kids) ELSE <<>>

RECURSIVE FindAllDatumByValueType(_, _)
FindAllDatumByValueType(datums, v) ==
  FlattenSeq([i \in DOMAIN datums |->
    (IF datums[i].value = v THEN <<datums[i]>> ELSE <<>>)
      \o FindAllDatumByValueType(Children(datums[i]), v)])

FirstOr(s, none) == IF s = <<>> THEN none ELSE s[1]
FindDatumByValueType(datums, v) == FirstOr(FindAllDatumByValueType(datums, v), Nothing)

(* The first of the three copies whose header can be read, whatever its     *)
(* list of datums looks like.                                               *)
loadFirstFVEMetadata(v) ==
  LET good == {i \in DOMAIN v.copies : v.copies[i].off > 0 /\ v.copies[i].header = "ok"}
  IN  IF good = {} THEN Nothing
      ELSE [key |-> "metadata", datums |-> parseDatumList(v.copies[Min(good)].datums)]

FindVMKs(m) == FindAllDatumByValueType(m.datums, "vmk")

Protector(m, kind) == FirstOr(SelectSeq(FindVMKs(m), LAMBDA d : d.protection = kind), Nothing)

Sealed(datums) ==
  LET k == FindDatumByValueType(datums, "aesccm")
  IN  IF k # Nothing THEN k ELSE FindDatumByValueType(datums, "concat")

findAESCCMForVMK(vmk) ==
  LET kids == Children(vmk)
      inner == {i \in DOMAIN kids : kids[i].value = "stretch" /\ Sealed(Children(kids[i])) # Nothing}
      direct == {i \in DOMAIN kids : kids[i].value \in {"aesccm", "concat"}}
  IN  IF inner # {} THEN Sealed(Children(kids[Min(inner)]))
      ELSE IF direct # {} THEN kids[Min(direct)]
      ELSE Nothing

(* Six digits that are no multiple of 11 are refused before any key is      *)
(* tried; with a key from a file nothing is derived.                        *)
UnlockVMK(kind, secret, vmk) ==
  LET stretch == FindDatumByValueType(Children(vmk), "stretch")
      box == findAESCCMForVMK(vmk)
  IN  IF \/ kind # "startup" /\ stretch = Nothing
         \/ kind = "recovery" /\ ~secret.wellFormed
         \/ box = Nothing THEN Junk
      ELSE Unseal(box.box, IF kind = "startup" THEN secret.text
                         ELSE Derive(secret.text, stretch.salt))

ExtractFVEKFromMetadata(m, vmk) ==
  LET infos == SelectSeq(m.datums, LAMBDA d : d.type = "fvek")
      box == IF infos = <<>> THEN Nothing ELSE Sealed(Children(infos[1]))
  IN  IF box = Nothing THEN JunkKey
      ELSE IF box.box.key = vmk THEN box.box.of ELSE JunkKey

(* A candidate is two blocks that stand at any block of the image.  Chunks  *)
(* overlap by a candidate; one that cannot be read is left out.             *)
SearchVMKInMemoryImage(image, box) ==
  LET chunk(i) == i - (i % MemoryChunk)
      hits == {i \in 0..(Len(image.blocks) - 2) :
                 /\ chunk(i) \notin image.unreadable
                 /\ image.blocks[i + 1] = <<box.key, 1>> /\ image.blocks[i + 2] = <<box.key, 2>>}
  IN  IF hits = {} THEN Junk ELSE image.blocks[Min(hits) + 1][1]

KnownMethods == {"xts128", "xts256", "cbc128", "cbc256", "diff128", "diff256"}

(* The boot sector of the volume gives the three copies.                    *)
Detect(v) == v.boot /\ v.start \notin v.bad /\ v.start < v.end

UnlockBitLocker(v) ==
  LET m == loadFirstFVEMetadata(v)
      key == IF v.kind = "memory"
             THEN LET all == FindVMKs(m)
                      box == IF all = <<>> THEN Nothing ELSE findAESCCMForVMK(all[1])
                  IN IF box = Nothing THEN Junk ELSE SearchVMKInMemoryImage(v.secret, box.box)
             ELSE LET p == Protector(m, v.kind)
                  IN IF p = Nothing THEN Junk ELSE UnlockVMK(v.kind, v.secret, p)
      fvek == IF key = Junk THEN JunkKey ELSE ExtractFVEKFromMetadata(m, key)
      headers == SelectSeq(m.datums, LAMBDA d : d.type = "header" /\ d.ok)
  IN IF m = Nothing THEN {}
     ELSE IF fvek.method \notin KnownMethods THEN {}
     ELSE {[off |-> v.start, size |-> v.end, iv |-> 0, key |-> fvek.key, sector |-> SmallSector,
            plain |-> IF headers = <<>> THEN 0 ELSE headers[1].size]}

-----------------------------------------------------------------------------
(* LUKS *)

(* Where the data begins is a multiple of the sector on the disk, and on    *)
(* the disk.                                                                *)
NewDecryptedReader(v, off, size, iv, key, sector) ==
  LET length == IF size = 0 THEN v.end - off ELSE size
  IN IF sector \notin SectorSizes \/ off < 0 \/ off % sector # 0 \/ length < 0 THEN {}
     ELSE {[off |-> off, size |-> length, iv |-> iv, plain |-> 0, key |-> key, sector |-> sector]}

Readable(v, at, len) == at + len <= v.end /\ at .. (at + len - 1) \cap v.bad = {}

(* What a slot gives: nothing if its area cannot be read to the end.        *)
tryUnlockKeyslot(v, slot) ==
  IF slot.ok /\ Readable(v, v.start + slot.at, slot.len)
  THEN Unseal(slot.box, Derive(v.secret.text, slot.salt)) ELSE Junk

(* The first slot whose key has the digest of the header.                   *)
UnlockLUKS1(v) ==
  LET hits == {i \in DOMAIN v.slots :
                 v.slots[i].active /\ tryUnlockKeyslot(v, v.slots[i]) = v.digest}
  IN IF hits = {} \/ ~v.cipherOk THEN {}
     ELSE NewDecryptedReader(v, v.start + v.payload, 0, 0, v.digest, SmallSector)

(* Any digest that names the slot is taken; a slot that none names, and one *)
(* of another type, is not checked.                                         *)
verifyLUKS2Digest(v, i, key) ==
  LET naming == {d \in v.digests : i \in d.slots}
  IN IF naming = {} THEN {TRUE} ELSE {d.type # "pbkdf2" \/ d.key = key : d \in naming}

pickDefaultSegment(v) ==
  LET crypt == {i \in DOMAIN v.segments : v.segments[i].type = "crypt"}
  IN IF 0 \in crypt THEN {v.segments[0]} ELSE {v.segments[i] : i \in crypt}

(* Slots, digests and segments are maps, which have no order.  A key that   *)
(* does not open a slot is still a key of some kind: Junk.  Nothing: a key  *)
(* was found, but the segment that was picked cannot be read.               *)
UnlockLUKS2(v) ==
  LET keys == {tryUnlockKeyslot(v, v.slots[i]) : i \in
                 {i \in DOMAIN v.slots :
                    /\ v.slots[i].type = "luks2" /\ v.slots[i].ok
                    /\ Readable(v, v.start + v.slots[i].at, v.slots[i].len)
                    /\ TRUE \in verifyLUKS2Digest(v, i, tryUnlockKeyslot(v, v.slots[i]))}}
      readers(key, s) ==
        LET r == NewDecryptedReader(v, v.start + s.off, s.size, s.iv, key, s.sector)
        IN IF ~s.cipherOk \/ r = {} THEN {Nothing} ELSE r
  IN IF v.headerSize < 16 \/ Min({v.headerSize, HeaderRoom}) < v.jsonEnd \/ DOMAIN v.slots = {}
     THEN {}
     ELSE UNION {readers(key, s) : key \in keys, s \in pickDefaultSegment(v)}

-----------------------------------------------------------------------------
(* VeraCrypt and TrueCrypt *)

Iterations(v, case) ==
  CASE case.trueCrypt -> <<"truecrypt", case.hash, 0>>
    [] case.system -> <<"system", case.hash, IF case.hash = "ripemd160" THEN v.pim ELSE 0>>
    [] OTHER -> <<"standard", case.hash, v.pim>>

(* VeraCrypt with each hash, then TrueCrypt, which has no SHA-256 and no    *)
(* factor (PIM).                                                            *)
unlockCases(v, system) ==
  LET cases(hashes, trueCrypt) == [i \in DOMAIN hashes |->
        [hash |-> hashes[i], trueCrypt |-> trueCrypt, system |-> system]]
  IN cases(HashNames, FALSE)
       \o IF v.pim = 0 /\ ~system THEN cases(SelectSeq(HashNames, LAMBDA h : h # "sha256"), TRUE)
          ELSE <<>>

HeaderAt(v, system) == IF system THEN v.start + SystemHeader ELSE v.start

VolumeHeader(v, system) ==
  IF HeaderAt(v, system) \in DOMAIN v.headers THEN v.headers[HeaderAt(v, system)]
  ELSE [salt |-> 0, box |-> Nothing]

ParseDecryptedHeader(h) ==
  /\ h.sig \in {"VERA", "TRUE"} /\ h.crc /\ h.keysCrc
  /\ h.sector = SmallSector /\ h.volume > 0 /\ h.size > 0

(* Only the right password, hash, number of rounds and cipher give a header *)
(* whose signature and sums are right.                                      *)
tryUnlockWithCipher(v, case, cipher) ==
  LET header == VolumeHeader(v, case.system)
      key == <<Derive(v.secret.text, header.salt), Iterations(v, case), cipher>>
  IN IF header.box = Nothing THEN {}
     ELSE IF header.box.key # key \/ ~ParseDecryptedHeader(header.box.of) THEN {}
     ELSE NewDecryptedReader(v, v.start + header.box.of.payload, header.box.of.size,
            header.box.of.payload \div SmallSector, header.box.of.key, SmallSector)

-----------------------------------------------------------------------------
(* What is found on a disk (enc.at gives what stands at an address) *)

At(v, off) == IF off \in DOMAIN v.at /\ off \notin v.bad THEN v.at[off] ELSE "none"

(* BitLocker at the start of the disk and of every partition.               *)
FindVolumesFast(v) ==
  LET tried == FoldLeft(LAMBDA s, off : IF off \in Range(s) THEN s ELSE Append(s, off),
                        <<0>>, v.gpt \o v.mbr)
  IN SelectSeq(tried, LAMBDA off : At(v, off) = "bitlocker")

(* LUKS and VeraCrypt only at the start of the disk; VeraCrypt is what looks *)
(* random and is no known file system, GPT or MBR.                          *)
ScanEncryptedVolumes(v) ==
  LET entry(kind, off) == [kind |-> kind, off |-> off]
      bitlocker == [i \in DOMAIN FindVolumesFast(v) |-> entry("bitlocker", FindVolumesFast(v)[i])]
      apfs == [i \in DOMAIN v.apfs |->
                 entry(IF v.apfs[i].encrypted THEN "filevault" ELSE "apfs-volume", v.apfs[i].off)]
      luks == IF At(v, 0) = "luks" THEN <<entry("luks", 0)>> ELSE <<>>
      veracrypt == IF At(v, 0) = "random" /\ v.gpt = <<>> /\ v.mbr = <<>>
                   THEN <<entry("veracrypt", 0)>> ELSE <<>>
      dedupe(s, e) == IF e \in Range(s) THEN s ELSE Append(s, e)
  IN FoldLeft(dedupe, <<>>, bitlocker \o apfs \o luks \o veracrypt)

-----------------------------------------------------------------------------
(* Opening and unlocking *)

BitLockerKinds == {"recovery", "password", "startup", "memory"}
VeraCryptKinds == {"container", "system", "auto"}

IdleWorker == [case |-> Nothing, next |-> 1, looked |-> FALSE]

EncInit ==
  /\ enc \in EncVolumes
  /\ step = "look" /\ listed = <<>> /\ handles = {} /\ opened = Nothing
  /\ jobs = <<>> /\ tasks = <<>> /\ won = <<>> /\ stopFlag = FALSE
  /\ cached = <<>> /\ request = Nothing /\ answer = Nothing /\ count = 0

(* The user is shown what is on the disk before a secret is asked for.      *)
LookForVolumes ==
  /\ step = "look"
  /\ step' = "open"
  /\ listed' = IF enc.opens THEN ScanEncryptedVolumes(enc) ELSE <<>>
  /\ UNCHANGED <<enc, handles, opened, jobs, tasks, won, stopFlag, cached, request, answer, count>>

Fail ==
  /\ step' = "failed" /\ handles' = {}
  /\ UNCHANGED <<opened, jobs, tasks, won, stopFlag, cached>>

OpenDisk ==
  /\ step = "open"
  /\ \/ enc.opens /\ handles' = {"disk"} /\ step' = "unlock"
        /\ UNCHANGED <<opened, jobs, tasks, won, stopFlag, cached>>
     \/ ~enc.opens /\ Fail
  /\ UNCHANGED <<enc, listed, request, answer, count>>

(* The image of memory is opened once the volume is known, and closed when  *)
(* it has been searched.                                                    *)
OpenImage ==
  /\ step = "unlock" /\ enc.kind = "memory" /\ "image" \notin handles
  /\ \/ Detect(enc) /\ enc.secret.opens /\ handles' = handles \cup {"image"}
        /\ UNCHANGED <<step, opened, jobs, tasks, won, stopFlag, cached>>
     \/ ~(Detect(enc) /\ enc.secret.opens) /\ Fail
  /\ UNCHANGED <<enc, listed, request, answer, count>>

Readers ==
  CASE enc.kind \in BitLockerKinds -> IF Detect(enc) THEN UnlockBitLocker(enc) ELSE {}
    [] enc.kind = "luks1" -> UnlockLUKS1(enc)
    [] enc.kind = "luks2" -> UnlockLUKS2(enc)
    [] OTHER -> {}

(* The end of the disk may come before the end of what is asked for.        *)
HeaderReadable(at, len) == at .. (Min({at + len, enc.end}) - 1) \cap enc.bad = {}

(* BitLocker and LUKS find their key in one go.                             *)
Unlock ==
  /\ step = "unlock" /\ enc.kind \notin VeraCryptKinds
  /\ enc.kind = "memory" => "image" \in handles
  /\ \/ HeaderReadable(enc.start, enc.room) /\ \E r \in Readers \ {Nothing} : opened' = r
        /\ step' = "scan" /\ handles' = {"disk"}
        /\ UNCHANGED <<jobs, tasks, won, stopFlag, cached>>
     \/ (Readers = {} \/ Nothing \in Readers \/ ~HeaderReadable(enc.start, enc.room)) /\ Fail
  /\ UNCHANGED <<enc, listed, request, answer, count>>

(* openAndUnlockInternal: the header is read once, then Workers goroutines  *)
(* share the cases.                                                         *)
StartWorkers ==
  /\ step \in {"unlock", "system"} /\ enc.kind \in VeraCryptKinds /\ tasks = <<>>
  /\ LET system == step = "system" \/ enc.kind = "system"
         cases == unlockCases(enc, system)
     IN \/ HeaderReadable(HeaderAt(enc, system), 1) /\ jobs' = cases
           /\ tasks' = [w \in 1 .. Min({Workers, Len(cases)}) |-> IdleWorker]
           /\ UNCHANGED <<step, handles, opened, won, stopFlag, cached>>
        \/ ~HeaderReadable(HeaderAt(enc, system), 1) /\ Fail
  /\ UNCHANGED <<enc, listed, request, answer, count>>

GoneWorker == [case |-> Nothing, next |-> 0, looked |-> FALSE]

TakeCase(w) ==
  /\ tasks # <<>> /\ tasks[w] = IdleWorker
  /\ IF jobs = <<>> THEN tasks' = [tasks EXCEPT ![w] = GoneWorker] /\ UNCHANGED jobs
     ELSE /\ jobs' = Tail(jobs)
          /\ tasks' = [tasks EXCEPT ![w] = IF stopFlag THEN GoneWorker
                                           ELSE [IdleWorker EXCEPT !.case = Head(jobs)]]
  /\ UNCHANGED <<enc, listed, step, handles, opened, won, stopFlag, cached, request, answer, count>>

(* Before each cipher a worker looks whether another has found the volume.  *)
LookAtFlag(w) ==
  /\ tasks # <<>> /\ tasks[w].case # Nothing /\ ~tasks[w].looked
  /\ tasks' = [tasks EXCEPT ![w] = IF stopFlag THEN GoneWorker ELSE [@ EXCEPT !.looked = TRUE]]
  /\ UNCHANGED <<enc, listed, step, handles, opened, jobs, won, stopFlag, cached, request, answer, count>>

TryCipher(w) ==
  /\ tasks # <<>> /\ tasks[w].looked
  /\ LET t == tasks[w]
         found == tryUnlockWithCipher(enc, t.case, CipherNames[t.next])
     IN \/ /\ found # {}
           /\ \E r \in found : won' = Append(won, r)
           /\ stopFlag' = TRUE
           /\ tasks' = [tasks EXCEPT ![w] = GoneWorker]
        \/ /\ found = {}
           /\ tasks' = [tasks EXCEPT ![w] =
                IF t.next = Len(CipherNames) THEN IdleWorker
                ELSE [t EXCEPT !.next = @ + 1, !.looked = FALSE]]
           /\ UNCHANGED <<won, stopFlag>>
  /\ UNCHANGED <<enc, listed, step, handles, opened, jobs, cached, request, answer, count>>

(* The first result is returned while other workers may still be trying.    *)
TakeResult ==
  /\ step \in {"unlock", "system"} /\ won # <<>>
  /\ opened' = Head(won) /\ step' = "scan"
  /\ UNCHANGED <<enc, listed, handles, jobs, tasks, won, stopFlag, cached, request, answer, count>>

(* All have failed: "auto" goes on with the header of an encrypted system.  *)
NoResult ==
  /\ step \in {"unlock", "system"} /\ tasks # <<>> /\ won = <<>>
  /\ \A w \in DOMAIN tasks : tasks[w] = GoneWorker
  /\ \/ step = "unlock" /\ enc.kind = "auto"
        /\ step' = "system" /\ tasks' = <<>> /\ jobs' = <<>>
        /\ UNCHANGED <<handles, opened, won, stopFlag, cached>>
     \/ ~(step = "unlock" /\ enc.kind = "auto") /\ Fail
  /\ UNCHANGED <<enc, listed, request, answer, count>>

-----------------------------------------------------------------------------
(* Reading through the volume *)

StillSealed == -1
Noise == -2

(* A unit as it stands on the disk, and a sector after it was deciphered.   *)
RawUnit(a) ==
  IF a - enc.data.off \in 0 .. (enc.data.plain - 1) THEN a - enc.data.off ELSE StillSealed

Decipher(at, number) ==
  LET place == at - enc.data.off
      right == /\ place \in enc.data.plain .. (enc.data.size - 1)
               /\ place % enc.data.sector = 0 /\ opened.sector = enc.data.sector
               /\ opened.key = enc.data.key
               /\ number = enc.data.iv + place \div enc.data.sector
  IN [i \in 1 .. opened.sector |-> IF right THEN place + i - 1 ELSE Noise]

(* SectorCache: the one used first is given up first.                       *)
Cached(number) == \E i \in DOMAIN cached : cached[i].number = number

Touch(cache, number) ==
  LET i == SelectInSeq(cache, LAMBDA c : c.number = number)
  IN IF i = 0 THEN cache ELSE <<cache[i]>> \o RemoveAt(cache, i)

Put(cache, number, units) ==
  IF SelectInSeq(cache, LAMBDA c : c.number = number) # 0 THEN Touch(cache, number)
  ELSE SubSeq(<<[number |-> number, units |-> units]>> \o cache, 1,
              Min({CacheSectors, Len(cache) + 1}))

UnitsOf(cache, number) == cache[SelectInSeq(cache, LAMBDA c : c.number = number)].units

BitLocker == enc.kind \in BitLockerKinds

(* What a request is about: its sectors, their numbers, the length that is  *)
(* asked of the disk.  LUKS and VeraCrypt cut a request at the end of the   *)
(* volume, BitLocker does not know where that is.                           *)
FirstSector == request.off \div opened.sector
Want == IF BitLocker THEN request.len ELSE Min({request.len, opened.size - request.off})
LastSector == (request.off + Want - 1) \div opened.sector
NumberOf(s) == s + opened.iv
PlainSector(s) == s * opened.sector < opened.plain

AllHit ==
  /\ ~PlainSector(FirstSector)
  /\ \A s \in FirstSector .. LastSector : Cached(NumberOf(s))

(* The sectors that were found before the first one that is not there.      *)
Probed ==
  LET missing == {s \in FirstSector .. LastSector : ~Cached(NumberOf(s))}
      upTo == IF PlainSector(FirstSector) \/ missing = {} THEN 0 ELSE Min(missing) - FirstSector
  IN FoldLeft(Touch, cached, [i \in 1 .. upTo |-> NumberOf(FirstSector + i - 1)])

Answer(units, cut) ==
  LET skip == request.off - FirstSector * opened.sector
      given == SubSeq(units, skip + 1, Min({Len(units), skip + Want}))
  IN [units |-> given, cut |-> cut]

AskFor ==
  /\ step = "scan" /\ request = Nothing /\ count < MaxReads
  /\ \E r \in ReadRequests : request' = r
  /\ count' = count + 1 /\ answer' = Nothing
  /\ UNCHANGED <<enc, listed, step, handles, opened, jobs, tasks, won, stopFlag, cached>>

Finish(a, cache) ==
  /\ answer' = a /\ cached' = cache
  /\ UNCHANGED <<enc, listed, step, handles, opened, jobs, tasks, won, stopFlag, request, count>>

OutsideVolume ==
  /\ step = "scan" /\ request # Nothing /\ answer = Nothing
  /\ ~BitLocker /\ request.off >= opened.size
  /\ Finish([units |-> <<>>, cut |-> FALSE], cached)

ServeFromCache ==
  /\ step = "scan" /\ request # Nothing /\ answer = Nothing
  /\ BitLocker \/ request.off < opened.size
  /\ AllHit
  /\ LET numbers == [i \in 1 .. (LastSector - FirstSector + 1) |-> NumberOf(FirstSector + i - 1)]
     IN Finish(Answer(FlattenSeq([i \in DOMAIN numbers |-> UnitsOf(cached, numbers[i])]), FALSE),
               FoldLeft(Touch, cached, numbers))

(* What the disk gives: everything up to its end, or nothing or what lies   *)
(* before the first unit that it cannot read, and an error.                 *)
DeviceReads(at, len) ==
  LET last == Min({at + len, enc.end})
      lost == {a \in at .. (last - 1) : a \in enc.bad}
  IN IF lost = {} THEN {[n |-> IF last > at THEN last - at ELSE 0, error |-> FALSE]}
     ELSE {[n |-> n, error |-> TRUE] : n \in {0, Min(lost) - at}}

(* The whole sectors of what came are deciphered, unless they are in the    *)
(* cache or before the end of the plain header.  BitLocker takes what came  *)
(* with an error and hands out a sector that is not whole as it is; the     *)
(* others refuse the one and drop the other.                                *)
ServeFromDisk ==
  /\ step = "scan" /\ request # Nothing /\ answer = Nothing
  /\ BitLocker \/ request.off < opened.size
  /\ ~AllHit
  /\ LET at == opened.off + FirstSector * opened.sector
     IN \E got \in DeviceReads(at, (LastSector - FirstSector + 1) * opened.sector) :
          LET whole == got.n \div opened.sector
              sectors == [i \in 1 .. whole |-> FirstSector + i - 1]
              unitsOf(s) ==
                IF PlainSector(s) THEN [i \in 1 .. opened.sector |->
                                          RawUnit(opened.off + s * opened.sector + i - 1)]
                ELSE IF Cached(NumberOf(s)) THEN UnitsOf(cached, NumberOf(s))
                ELSE Decipher(opened.off + s * opened.sector, NumberOf(s))
              rest == [i \in 1 .. (got.n % opened.sector) |->
                         RawUnit(at + whole * opened.sector + i - 1)]
              keep(cache, s) ==
                IF PlainSector(s) THEN cache ELSE Put(cache, NumberOf(s), unitsOf(s))
          IN IF got.error /\ (got.n = 0 \/ ~BitLocker)
             THEN Finish([units |-> <<>>, cut |-> TRUE], Probed)
             ELSE Finish(Answer(FlattenSeq([i \in DOMAIN sectors |-> unitsOf(sectors[i])])
                                  \o (IF BitLocker THEN rest ELSE <<>>),
                                got.error \/ got.n % opened.sector # 0),
                         FoldLeft(keep, Probed, sectors))

Answered ==
  /\ step = "scan" /\ request # Nothing /\ answer # Nothing
  /\ request' = Nothing /\ answer' = Nothing
  /\ UNCHANGED <<enc, listed, step, handles, opened, jobs, tasks, won, stopFlag, cached, count>>

(* The goroutine of the scan closes the disk when the scan is over.         *)
CloseDisk ==
  /\ step = "scan" /\ request = Nothing
  /\ step' = "over" /\ handles' = {} /\ cached' = <<>>
  /\ UNCHANGED <<enc, listed, opened, jobs, tasks, won, stopFlag, request, answer, count>>

EncNext ==
  \/ LookForVolumes \/ OpenDisk \/ OpenImage \/ Unlock \/ StartWorkers \/ TakeResult \/ NoResult
  \/ \E w \in DOMAIN tasks : TakeCase(w) \/ LookAtFlag(w) \/ TryCipher(w)
  \/ AskFor \/ OutsideVolume \/ ServeFromCache \/ ServeFromDisk \/ Answered \/ CloseDisk

-----------------------------------------------------------------------------
(* With the right secret a volume whose headers are in order is opened, and *)
(* what was opened is the volume with its true key (UnlockBitLocker...,     *)
(* OpenAndUnlock of luks and veracrypt).                                    *)
RightSecretOpens ==
  /\ enc.sound => step # "failed"
  /\ (opened # Nothing /\ enc.checked) =>
       /\ opened.key = enc.data.key /\ opened.sector = enc.data.sector
       /\ opened.off = enc.data.off /\ opened.iv = enc.data.iv

(* Every unit that is read is the volume's at that place, whether it came   *)
(* from the disk or from the cache; a unit the volume has may be missing    *)
(* only where the disk fails.  The last sector of a read the disk cut short *)
(* is excepted (DecryptingReader.ReadAt, DecryptedReader.ReadAt).           *)
UnitsAreTrue ==
  (enc.sound /\ answer # Nothing) =>
    /\ \A i \in DOMAIN answer.units :
         LET x == request.off + i - 1
         IN x < enc.data.size => answer.units[i] \in {x} \cup
              (IF answer.cut /\ BitLocker THEN {StillSealed} ELSE {})
    /\ ~answer.cut => Len(answer.units) = Max({0, Min({Want, enc.end - opened.off - request.off})})

(* Nothing stays open when the unlocking has failed or the scan is over,    *)
(* and the disk stays open as long as it is read (the unlock calls of App). *)
HandlesHeld ==
  /\ step \in {"failed", "over"} => handles = {}
  /\ step = "scan" => handles = {"disk"}

(* The list names every encrypted volume that stands where the program      *)
(* looks, and no other as encrypted (ScanEncryptedVolumes).                 *)
ListIsTrue ==
  (step # "look" /\ enc.opens) =>
    /\ {e.off : e \in {e \in Range(listed) : e.kind # "apfs-volume"}} \subseteq enc.encrypted
    /\ \A off \in enc.encrypted : (off = 0 \/ At(enc, off) # "luks") =>
         \E e \in Range(listed) : e.off = off /\ e.kind # "apfs-volume"

VolumeUnlocks == ListIsTrue /\ RightSecretOpens /\ UnitsAreTrue /\ HandlesHeld
=============================================================================
