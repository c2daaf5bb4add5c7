-------------------------- MODULE MCEncryptedVolume --------------------------
(* Encrypted volumes, sound and damaged, with the secrets that are entered. *)
EXTENDS Integers, Sequences, TLC

EncDisk ==
  [kind |-> "other", opens |-> TRUE, start |-> 0, end |-> 12, bad |-> {}, boot |-> TRUE,
   room |-> 2, data |-> [off |-> 0, size |-> 8, iv |-> 0, plain |-> 0, key |-> "k", sector |-> 2],
   sound |-> FALSE, checked |-> TRUE,
   at |-> <<>>, gpt |-> <<>>, mbr |-> <<>>, apfs |-> <<>>, encrypted |-> {}]

Entered(text) == [text |-> text, wellFormed |-> TRUE]

(* What the disks of the list hold.                                         *)
EncListed ==
  {[at |-> 0 :> "random"] @@ [encrypted |-> {0}] @@ EncDisk,
   [at |-> 0 :> "luks"] @@ [encrypted |-> {0}] @@ EncDisk,
   [at |-> (0 :> "random" @@ 4 :> "bitlocker" @@ 8 :> "bitlocker")]
     @@ [gpt |-> <<4, 8, 4>>, encrypted |-> {4, 8}] @@ EncDisk,
   [at |-> (2 :> "luks" @@ 4 :> "bitlocker" @@ 8 :> "bitlocker")]
     @@ [mbr |-> <<2, 4, 8>>, bad |-> {8},
         apfs |-> <<[off |-> 10, encrypted |-> FALSE], [off |-> 6, encrypted |-> TRUE]>>]
     @@ [encrypted |-> {2, 4, 6}] @@ EncDisk}

-----------------------------------------------------------------------------
(* BitLocker *)

Datum == [value |-> "", type |-> "", protection |-> "", ok |-> TRUE, kids |-> <<>>,
          box |-> <<>>, salt |-> 0, size |-> 0]
BoxDatum(key, of) == [value |-> "aesccm", box |-> [key |-> key, of |-> of]] @@ Datum
Vmk(protection, kids) == [value |-> "vmk", protection |-> protection, kids |-> kids] @@ Datum
Stretch(salt, kids) == [value |-> "stretch", salt |-> salt, kids |-> kids] @@ Datum

Fvek(method) ==
  [type |-> "fvek", value |-> "use",
   kids |-> <<BoxDatum("vmk", [key |-> "k", method |-> method])>>] @@ Datum
PlainHeader == [type |-> "header", size |-> 2] @@ Datum

BrokenDatum == [ok |-> FALSE] @@ Datum

(* The recovery key comes after the password; the box of the one stands     *)
(* within the datum that stretches it, that of the other beside it.         *)
BitLockerDatums(method) ==
  <<Vmk("password", <<Stretch(1, <<>>), BoxDatum(<<"pass", 1>>, "vmk")>>),
    Vmk("recovery", <<Stretch(2, <<BoxDatum(<<"digits", 2>>, "vmk")>>), BoxDatum(<<"other", 2>>, "old")>>),
    Vmk("startup", <<[value |-> "concat", box |-> [key |-> "file", of |-> "vmk"]] @@ Datum>>),
    PlainHeader, Fvek(method)>>

Copies(datums) ==
  <<[off |-> 0, header |-> "ok", datums |-> datums],
    [off |-> 6, header |-> "bad", datums |-> datums],
    [off |-> 8, header |-> "ok", datums |-> datums]>>

BitLockerDisk ==
  [start |-> 1, end |-> 13, copies |-> Copies(BitLockerDatums("xts128")),
   data |-> [off |-> 1, size |-> 8, iv |-> 0, plain |-> 2, key |-> "k", sector |-> 2]] @@ EncDisk

BitLockerOf(kind, text) == [kind |-> kind, secret |-> Entered(text)] @@ BitLockerDisk

EncBitLocker ==
  {[sound |-> TRUE] @@ BitLockerOf("password", "pass"),
   [sound |-> TRUE] @@ BitLockerOf("recovery", "digits"),
   [sound |-> TRUE, bad |-> {6}] @@ BitLockerOf("startup", "file"),
   [sound |-> TRUE, bad |-> {5, 8}] @@ BitLockerOf("password", "pass"),
   [sound |-> TRUE, end |-> 8] @@ BitLockerOf("password", "pass"),
   [opens |-> FALSE] @@ BitLockerOf("password", "pass"),
   [boot |-> FALSE] @@ BitLockerOf("password", "pass"),
   [secret |-> [text |-> "digits", wellFormed |-> FALSE]] @@ BitLockerOf("recovery", "digits"),
   BitLockerOf("password", "pas"),
   [copies |-> Copies(BitLockerDatums("unknown"))] @@ BitLockerOf("password", "pass"),
   [copies |-> Copies(<<BrokenDatum>> \o BitLockerDatums("xts128"))] @@ BitLockerOf("password", "pass"),
   [copies |-> <<>>] @@ BitLockerOf("password", "pass")}

(* The key of the box is what the search finds in the memory.               *)
MemoryDisk(blocks, unreadable, opens) ==
  [kind |-> "memory", secret |-> [opens |-> opens, blocks |-> blocks, unreadable |-> unreadable],
   copies |-> Copies(<<Vmk("recovery", <<BoxDatum("stretched", "vmk")>>), Fvek("xts128")>>)]
    @@ BitLockerDisk

EncMemory ==
  {MemoryDisk(<<<<"vmk", 1>>, <<"vmk", 2>>, <<"stretched", 1>>, <<"stretched", 2>>>>, {}, TRUE),
   MemoryDisk(<<<<"stretched", 1>>, <<"stretched", 2>>>>, {0}, TRUE),
   MemoryDisk(<<>>, {}, FALSE)}

-----------------------------------------------------------------------------
(* LUKS *)

Luks1Slot(active, text, ok, bytes) ==
  [active |-> active, ok |-> ok, at |-> 2, len |-> 2, salt |-> 3,
   box |-> [key |-> <<text, 3>>, of |-> bytes]]

Luks1Disk ==
  [kind |-> "luks1", secret |-> Entered("pass"), digest |-> "k", payload |-> 4, cipherOk |-> TRUE,
   slots |-> <<Luks1Slot(FALSE, "pass", TRUE, "old"), Luks1Slot(TRUE, "else", TRUE, "k"),
               Luks1Slot(TRUE, "pass", TRUE, "k")>>,
   end |-> 11, data |-> [off |-> 4, size |-> 7, iv |-> 0, plain |-> 0, key |-> "k", sector |-> 2]]
    @@ EncDisk

EncLuks1 ==
  {[sound |-> TRUE] @@ Luks1Disk,
   [sound |-> TRUE, bad |-> {7}] @@ Luks1Disk,
   [bad |-> {3}] @@ Luks1Disk,
   [bad |-> {1}] @@ Luks1Disk,
   [secret |-> Entered("pas")] @@ Luks1Disk,
   [cipherOk |-> FALSE] @@ Luks1Disk}

Luks2Slot(type, at, text, bytes) ==
  [type |-> type, ok |-> TRUE, at |-> at, len |-> 1, salt |-> 3,
   box |-> [key |-> <<text, 3>>, of |-> bytes]]
Segment(type, off, size, iv, sector) ==
  [type |-> type, off |-> off, size |-> size, iv |-> iv, sector |-> sector, cipherOk |-> TRUE]
Digest(slots, type, key) == [slots |-> slots, type |-> type, key |-> key]

Luks2Disk ==
  [kind |-> "luks2", secret |-> Entered("pass"), headerSize |-> 16, jsonEnd |-> 5, start |-> 0,
   slots |-> (0 :> Luks2Slot("luks2", 2, "pass", "k") @@ 2 :> Luks2Slot("luks2", 3, "else", "k")
              @@ 5 :> Luks2Slot("reencrypt", 3, "pass", "k")),
   digests |-> {Digest({0, 2}, "pbkdf2", "k")},
   segments |-> (0 :> Segment("crypt", 4, 8, 3, 4) @@ 1 :> Segment("crypt", 8, 0, 0, 2)),
   end |-> 13, data |-> [off |-> 4, size |-> 8, iv |-> 3, plain |-> 0, key |-> "k", sector |-> 4]]
    @@ EncDisk

EncLuks2 ==
  {[sound |-> TRUE] @@ Luks2Disk,
   [sound |-> TRUE, end |-> 11] @@ Luks2Disk,
   [sound |-> TRUE, bad |-> {8}] @@ Luks2Disk,
   [secret |-> Entered("pas")] @@ Luks2Disk,
   [checked |-> FALSE, secret |-> Entered("pas"), digests |-> {Digest({2}, "pbkdf2", "k")}] @@ Luks2Disk,
   [headerSize |-> 8] @@ Luks2Disk,
   [jsonEnd |-> 17] @@ Luks2Disk,
   [checked |-> FALSE, segments |-> (1 :> Segment("crypt", 8, 0, 0, 2) @@ 2 :> Segment("crypt", 4, 8, 3, 4)
                   @@ 3 :> Segment("linear", 4, 8, 3, 4))] @@ Luks2Disk,
   [segments |-> (0 :> Segment("crypt", 6, 4, 0, 4))] @@ Luks2Disk}

-----------------------------------------------------------------------------
(* VeraCrypt and TrueCrypt *)

VcHeader(rounds, cipher, sig) ==
  [salt |-> 7, box |-> [key |-> <<<<"pass", 7>>, rounds, cipher>>,
     of |-> [sig |-> sig, crc |-> TRUE, keysCrc |-> TRUE, sector |-> 2, volume |-> 6, size |-> 6,
             payload |-> 4, key |-> "k"]]]

VeraCryptDisk(kind, at, rounds, cipher) ==
  [kind |-> kind, secret |-> Entered("pass"), pim |-> 0,
   headers |-> at :> VcHeader(rounds, cipher, "VERA"),
   end |-> 12, data |-> [off |-> 4, size |-> 6, iv |-> 2, plain |-> 0, key |-> "k", sector |-> 2]]
    @@ EncDisk

EncVeraCrypt ==
  {[sound |-> TRUE] @@ VeraCryptDisk("container", 0, <<"standard", "sha512", 0>>, "aes"),
   [sound |-> TRUE, pim |-> 5] @@ VeraCryptDisk("auto", 0, <<"standard", "sha256", 5>>, "cascade"),
   [sound |-> TRUE] @@ VeraCryptDisk("auto", 0, <<"truecrypt", "sha512", 0>>, "aes"),
   [sound |-> TRUE] @@ VeraCryptDisk("system", 3, <<"system", "sha256", 0>>, "cascade"),
   [sound |-> TRUE] @@ VeraCryptDisk("auto", 3, <<"system", "sha512", 0>>, "aes"),
   VeraCryptDisk("container", 3, <<"system", "sha512", 0>>, "aes"),
   [secret |-> Entered("pas")] @@ VeraCryptDisk("container", 0, <<"standard", "sha512", 0>>, "aes"),
   [bad |-> {0}] @@ VeraCryptDisk("auto", 0, <<"standard", "sha512", 0>>, "aes"),
   [opens |-> FALSE] @@ VeraCryptDisk("auto", 0, <<"standard", "sha512", 0>>, "aes")}

-----------------------------------------------------------------------------
MCEncVolumes == EncListed \cup EncBitLocker \cup EncMemory \cup EncLuks1 \cup EncLuks2 \cup EncVeraCrypt

MCHashes == <<"sha512", "sha256">>
MCCiphers == <<"aes", "cascade">>
EncRequests ==
  {[off |-> 0, len |-> 3], [off |-> 1, len |-> 1], [off |-> 2, len |-> 4], [off |-> 3, len |-> 2],
   [off |-> 4, len |-> 6], [off |-> 7, len |-> 3], [off |-> 9, len |-> 2]}
=============================================================================
