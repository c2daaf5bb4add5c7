--------------------------- MODULE MCFileSources ---------------------------
(* Shares and backups of MCVolumeReaders.  A buffer holds two units, two     *)
(* blocks are deciphered at once.                                            *)
EXTENDS Integers, Sequences, TLC

SrcFile(name, handle) == [name |-> name, type |-> "file", handle |-> handle]
SrcDir(name, handle) == [name |-> name, type |-> "dir", handle |-> handle]
SrcLast(entries) == [entries |-> entries, eof |-> TRUE]
SrcMore(entries) == [entries |-> entries, eof |-> FALSE]

SrcTexts ==
  [h \in {11, 12, 13, 14, 15} |->
     CASE h = 11 -> <<"a", "b", "c">> [] h = 12 -> <<"d", "e">> [] h = 13 -> <<>>
       [] h = 14 -> <<"f">> [] h = 15 -> <<"g", "h", "i">>]

(* The root holds a file, an entry without attributes and a directory, in    *)
(* two answers; the directory a file and a directory of one more file.       *)
SrcNfsDirs ==
  [h \in {1, 2, 3} |->
     CASE h = 1 -> <<SrcMore(<<SrcDir(<<".">>, 1), SrcFile(<<"x">>, 11), SrcDir(<<"s">>, 2)>>),
                     SrcLast(<<[name |-> <<"u">>, type |-> "unknown", handle |-> 12]>>)>>
       [] h = 2 -> <<SrcLast(<<SrcFile(<<"y">>, 13), SrcDir(<<"t">>, 3)>>)>>
       [] h = 3 -> <<SrcMore(<<SrcFile(<<"z">>, 14)>>), SrcMore(<<>>)>>]

SrcNfs ==
  [kind |-> "nfs", host |-> <<"n">>, ports |-> {111, 600, 2049},
   registered |-> "mount" :> 600, mountPort |-> 0, nfsPort |-> 0, refuses |-> {},
   listing |-> << <<"e">>, <<"gone">> >>, asked |-> <<>>, root |-> <<"e">> :> 1,
   dirs |-> SrcNfsDirs, content |-> SrcTexts, maxDepth |-> 0, maxFiles |-> 0,
   doubled |-> FALSE, damaged |-> FALSE, owner |-> ""]

SrcSmb ==
  [kind |-> "smb", host |-> <<"n">>, ports |-> {445}, smbPort |-> 0, login |-> TRUE, refuses |-> {},
   listing |-> << <<"e">>, <<"c", "$">> >>, asked |-> <<>>,
   root |-> (<<"e">> :> 1) @@ (<<"c", "$">> :> 3),
   dirs |-> [h \in {1, 2, 3} |->
      IF h = 1 THEN <<SrcLast(<<SrcDir(<<"s">>, 2), [name |-> <<"u">>, type |-> "unknown", handle |-> 12],
                                SrcFile(<<"x">>, 11)>>)>>
      ELSE <<SrcLast(SrcNfsDirs[h][1].entries)>>],
   content |-> SrcTexts, maxDepth |-> 0, maxFiles |-> 0,
   doubled |-> FALSE, damaged |-> FALSE, owner |-> ""]

(* Two exports, the first asked for twice over a limit; one of the second's  *)
(* directories cannot be read.                                               *)
SrcShares ==
  {<<[SrcNfs EXCEPT !.maxFiles = 2]>>,
   <<[SrcNfs EXCEPT !.maxDepth = 1, !.refuses = {<<"content", 12>>}]>>,
   <<[SrcNfs EXCEPT !.asked = << <<"none">>, <<"e">>, <<"f">> >>,
        !.root = (<<"e">> :> 3) @@ (<<"f">> :> 2), !.refuses = {<<"read", 3>>},
        !.registered = "nfs" :> 2050, !.ports = {111, 601, 2050}, !.mountPort = 601]>>,
   <<[SrcNfs EXCEPT !.refuses = {<<"list">>}, !.damaged = TRUE]>>,
   <<[SrcNfs EXCEPT !.registered = "nfs" :> 2050, !.damaged = TRUE], [SrcNfs EXCEPT !.ports = {111, 600}, !.damaged = TRUE]>>,
   <<[SrcNfs EXCEPT !.root = <<"e">> :> 2], [SrcNfs EXCEPT !.root = <<"e">> :> 3]>>,
   <<[SrcSmb EXCEPT !.maxFiles = 2], [SrcSmb EXCEPT !.login = FALSE, !.damaged = TRUE]>>,
   <<[SrcSmb EXCEPT !.maxDepth = 1, !.refuses = {<<"content", 11>>}]>>,
   <<[SrcSmb EXCEPT !.refuses = {<<"read", 2>>}, !.asked = << <<"none">>, <<"c", "$">>, <<"e">> >>],
     [SrcNfs EXCEPT !.asked = << <<"e">> >>, !.root = <<"e">> :> 3]>>,
   <<[SrcSmb EXCEPT !.refuses = {<<"list">>}, !.damaged = TRUE]>>,
   (* Two shares whose names and paths make one ID. *)
   <<[SrcSmb EXCEPT !.doubled = TRUE, !.listing = << <<"e">>, <<"e", "_", "y">> >>,
        !.root = (<<"e">> :> 1) @@ (<<"e", "_", "y">> :> 3),
        !.dirs = [h \in {1, 3} |->
          IF h = 1 THEN <<SrcLast(<<SrcFile(<<"y", "_", "z">>, 11)>>)>>
          ELSE <<SrcLast(<<SrcFile(<<"z">>, 12)>>)>>]]>>}

-----------------------------------------------------------------------------
SrcText(t) == [kind |-> "string", text |-> t]
SrcBool(b) == [kind |-> "bool", bool |-> b]
SrcData(d) == [kind |-> "data", data |-> d]
SrcUid(n) == [kind |-> "uid", uid |-> n]
SrcDict(keys, refs) == [kind |-> "dict", keys |-> keys, refs |-> refs]
SrcArray(refs) == [kind |-> "array", refs |-> refs]

SrcXml(tag) == [tag |-> tag]
SrcKey(k) == [tag |-> "key", text |-> k]
SrcValue(v) == [tag |-> "value", value |-> v]

SrcTag(t, v) == [tag |-> t, val |-> v]
SrcWrapKey(password) == <<"sha1", <<"sha256", password, "dpsl">>, "salt">>
SrcBag ==
  [tags |-> <<SrcTag("UUID", "bag"), SrcTag("SALT", "salt"), SrcTag("ITER", "1"), SrcTag("DPSL", "dpsl"),
      SrcTag("CLAS", 1), SrcTag("WPKY", [key |-> SrcWrapKey("pw"), of |-> "K1"]),
      SrcTag("CLAS", 2), SrcTag("CLAS", 3),
      SrcTag("WPKY", [key |-> <<"sha1", <<"pw">>, "device">>, of |-> "K3"])>>]

(* A manifest in either form.                                                *)
SrcPlainManifest ==
  [form |-> "xml", root |->
     [tag |-> "dict", kids |-> <<SrcKey("Version"), SrcValue(SrcText("10")),
                                 SrcKey("IsEncrypted"), SrcValue(SrcBool(FALSE))>>]]
SrcBrokenManifest ==
  [form |-> "xml", root |->
     [tag |-> "dict", kids |-> <<SrcKey("Version"), [tag |-> "dict", kids |-> <<SrcValue(SrcBool(TRUE))>>],
                                 SrcKey("IsEncrypted"), SrcValue(SrcBool(FALSE))>>]]
SrcSealedManifest ==
  [form |-> "binary", top |-> 1, objects |->
     <<SrcDict(<<2, 4, 6>>, <<3, 5, 7>>), SrcText("IsEncrypted"), SrcBool(TRUE),
       SrcText("BackupKeyBag"), SrcData(SrcBag), SrcText("ManifestKey"),
       SrcData([class |-> 1, box |-> [key |-> "K1", of |-> "database"]])>>]

(* Attributes of a file; the second has lists of different lengths, the      *)
(* third names a class whose key was not unwrapped.                          *)
SrcArchive(class) ==
  [form |-> "binary", top |-> 1, objects |->
     <<SrcDict(<<2>>, <<3>>), SrcText("$objects"), SrcArray(<<4, 5, 6, 7>>),
       SrcText("$null"), SrcDict(<<8, 9>>, <<10, 11>>), SrcText("EncryptionKey"),
       SrcData([class |-> class, box |-> [key |-> "K1", of |-> "file key"]]),
       SrcText("NS.keys"), SrcText("NS.objects"), SrcArray(<<12>>), SrcArray(<<13>>),
       SrcUid(2), SrcUid(3)>>]
SrcNoKey == [SrcArchive(1) EXCEPT !.objects = [@ EXCEPT ![11] = SrcArray(<<13, 13>>)]]
SrcNoArchive == [form |-> "none"]

SrcBlock(u) == [data |-> <<u>>, pad |-> <<>>]
SrcEnd(u) == [data |-> u, pad |-> <<"pad">>]
SrcStored(blocks) == [blocks |-> blocks, sealed |-> FALSE, readable |-> Len(blocks)]
SrcSealed(blocks) == [SrcStored(blocks) EXCEPT !.sealed = TRUE]
SrcRow(id, archive) == [id |-> id, file |-> TRUE, named |-> TRUE, archive |-> archive]

SrcIos ==
  [kind |-> "ios", refuses |-> {}, manifest |-> SrcPlainManifest, password |-> "", owner |-> "",
   database |-> "plain", udid |-> <<"phone">>, doubled |-> FALSE, damaged |-> FALSE,
   rows |-> <<SrcRow(<<"p">>, SrcNoArchive),
              [SrcRow(<<"q">>, SrcNoArchive) EXCEPT !.file = FALSE],
              SrcRow(<<"r">>, SrcNoArchive)>>,
   stored |-> (<<"p">> :> SrcStored(<<SrcBlock("a"), SrcBlock("b"), SrcBlock("c")>>))
                @@ (<<"r">> :> SrcStored(<<>>))]

SrcIosSealed ==
  [SrcIos EXCEPT !.manifest = SrcSealedManifest, !.password = "pw", !.owner = "pw",
     !.database = "database",
     !.rows = <<SrcRow(<<"p">>, SrcArchive(1)), SrcRow(<<"r">>, SrcArchive(1))>>,
     !.stored = (<<"p">> :> SrcSealed(<<SrcBlock("a"), SrcBlock("b"), SrcEnd(<<"c">>)>>))
                  @@ (<<"r">> :> SrcSealed(<<SrcBlock("d"), SrcEnd(<<>>)>>))]

SrcIosDamaged ==
  [SrcIosSealed EXCEPT !.damaged = TRUE,
     !.rows = <<SrcRow(<<"p">>, SrcNoKey), SrcRow(<<"r">>, SrcArchive(2)), SrcRow(<<"o">>, SrcArchive(1)),
                SrcRow(<<"t">>, SrcArchive(1)), SrcRow(<<"v">>, SrcArchive(1))>>,
     !.stored = @ @@ (<<"t">> :> SrcSealed(<<SrcBlock("a"), SrcBlock("b"), SrcBlock("c")>>))
                  @@ (<<"v">> :> [SrcSealed(<<SrcBlock("a"), SrcBlock("b"), SrcEnd(<<"c">>)>>)
                                    EXCEPT !.readable = 1])]

SrcPhones ==
  {<<SrcIos>>, <<SrcIosSealed>>, <<SrcIosDamaged>>,
   <<[SrcIos EXCEPT !.stored = [@ EXCEPT ![<<"p">>].readable = 2]]>>,
   <<[SrcIos EXCEPT !.manifest = SrcBrokenManifest, !.damaged = TRUE], [SrcIos EXCEPT !.damaged = TRUE, !.stored = <<>>]>>,
   <<[SrcIosSealed EXCEPT !.password = "other"], [SrcIosSealed EXCEPT !.password = ""]>>,
   <<[SrcIosSealed EXCEPT !.damaged = TRUE, !.database = "lost"], SrcIosSealed>>,
   <<[SrcIos EXCEPT !.rows = <<SrcRow(<<"p">>, SrcNoArchive)>>],
     [SrcIos EXCEPT !.stored = <<"p">> :> SrcStored(<<SrcBlock("new")>>),
                    !.rows = <<SrcRow(<<"p">>, SrcNoArchive)>>]>>}

-----------------------------------------------------------------------------
SrcHead(name, type, n) ==
  [head |-> TRUE, name |-> name, type |-> type, size |-> n, manifest |-> FALSE,
   link |-> <<"where">>]
SrcBody(u) == [head |-> FALSE, is |-> u]
SrcTar(units) == [j \in DOMAIN units |-> SrcBlock(units[j])]

SrcTarUnits ==
  <<SrcHead(<<"d">>, "dir", 0), [SrcHead(<<"m">>, "file", 0) EXCEPT !.manifest = TRUE],
    SrcHead(<<"p">>, "file", 2), SrcBody("a"), SrcBody("b"), SrcHead(<<"l">>, "link", 0),
    SrcHead(<<"f">>, "fifo", 0), SrcHead(<<"q">>, "file", 1), SrcBody("c")>>

SrcAb ==
  [kind |-> "android", refuses |-> {}, base |-> <<"b">>, password |-> "", owner |-> "",
   doubled |-> FALSE, damaged |-> FALSE,
   header |-> [magic |-> TRUE, version |-> 5, compressed |-> 1, encryption |-> "none"],
   payload |-> [blocks |-> SrcTar(SrcTarUnits), cut |-> FALSE],
   bodies |-> (<<"p">> :> <<"a", "b">>) @@ (<<"q">> :> <<"c">>)
                @@ (<<"l">> :> <<"where">>)]

SrcAbHeader(version, made) ==
  [magic |-> TRUE, version |-> version, compressed |-> 0, encryption |-> "AES-256",
   userSalt |-> "us", sumSalt |-> "ss",
   blob |-> [key |-> <<"pw", "us">>, of |->
     [key |-> "master", checksum |-> <<IF made >= 3 THEN <<"chars", "master">> ELSE <<"master">>, "ss">>]]]

SrcAbSealed(version, made) ==
  [SrcAb EXCEPT !.header = SrcAbHeader(version, made), !.password = "pw", !.owner = "pw",
     !.payload.blocks = [j \in 1 .. 9 |-> IF j < 9 THEN SrcBlock(SrcTarUnits[j])
                                           ELSE SrcEnd(<<SrcTarUnits[9]>>)]]

SrcBackups ==
  {<<SrcAb>>, <<SrcAbSealed(5, 5)>>,
   <<SrcAbSealed(2, 3), [SrcAbSealed(3, 3) EXCEPT !.password = "other"],
     [SrcAbSealed(3, 3) EXCEPT !.password = ""]>>,
   <<[SrcAbSealed(5, 5) EXCEPT !.damaged = TRUE, !.payload.blocks = SrcTar(SrcTarUnits)]>>,
   <<[SrcAbSealed(5, 5) EXCEPT !.damaged = TRUE, !.header.encryption = "AES-128"],
     [SrcAb EXCEPT !.damaged = TRUE,
        !.payload = [blocks |-> SrcTar(SubSeq(SrcTarUnits, 1, 4)), cut |-> TRUE]]>>}

MCSources == SrcShares \cup SrcPhones \cup SrcBackups
=============================================================================
