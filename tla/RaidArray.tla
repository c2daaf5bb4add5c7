------------------------------ MODULE RaidArray ------------------------------
(***************************************************************************)
(* A software RAID read through its member disks (internal/raid): the      *)
(* disks are put in the order of their roles (internal/volmgr), a read is  *)
(* cut at the stripes, and what a missing disk holds is computed from the  *)
(* others of the same row: by parity, or in RAID 6 by a second parity over *)
(* a finite field.                                                         *)
(*                                                                         *)
(* An array is [level, n, stripe, rows, paths, data]: data is what was     *)
(* stored, unit by unit; paths are the disks in the order the user gave    *)
(* them, [own, role, disk], of this array or not, role Spare for a spare.  *)
(***************************************************************************)
EXTENDS Naturals, Sequences, FiniteSets, SequencesExt, FiniteSetsExt, Functions

CONSTANTS
  FieldBits, \* a unit has so many bits (8)
  Reducer,   \* the generator polynomial without its highest term (0x1D)
  ShortWithin, \* bound: a short read of a disk is one of the first units of a call
  Arrays,    \* the arrays of this instance
  Reads      \* [offset, want]

VARIABLES
  array,
  offset, want, \* the call of ReadAt
  buf,          \* what has been read
  state,        \* "reading", "ended", "failed"
  guessed       \* history: the places of buf that were computed from what was not read

raidVars == <<array, offset, want, buf, state, guessed>>

n == array.n
stripe == array.stripe
Disks == 0 .. array.n - 1
Spare == 99
Missing == 99

-----------------------------------------------------------------------------
(* The finite field *)

Order == 2^FieldBits - 1
Field == 0 .. Order

Xor ==
  [a, b \in Field |->
     FoldFunction(LAMBDA x, y : x + y, 0,
       [i \in 1 .. FieldBits |->
          ((a \div 2^(i - 1) + b \div 2^(i - 1)) % 2) * 2^(i - 1)])]

XorOver(f) == FoldFunction(LAMBDA x, y : Xor[x, y], 0, f)

gfExp[i \in 0 .. Order - 1] ==
  IF i = 0 THEN 1
  ELSE LET x == 2 * gfExp[i - 1]
       IN IF x > Order THEN Xor[x - 2^FieldBits, Reducer] ELSE x

gfLog == [a \in Field \ {0} |-> CHOOSE i \in 0 .. Order - 1 : gfExp[i] = a]

gfMul(a, b) == IF a = 0 \/ b = 0 THEN 0 ELSE gfExp[(gfLog[a] + gfLog[b]) % Order]
gfDiv(a, b) == IF a = 0 THEN 0 ELSE gfExp[(gfLog[a] + Order - gfLog[b]) % Order]
gfPow(i) == gfExp[i % Order]

-----------------------------------------------------------------------------
(* The array as it was written *)

DataPerRow ==
  CASE array.level = 0 -> n [] array.level = 1 -> 1 [] array.level = 5 -> n - 1
    [] array.level = 6 -> n - 2 [] array.level = 10 -> n \div 2

Size == DataPerRow * array.rows * stripe

Stored(row, k, off) == array.data[(row * DataPerRow + k) * stripe + off]

(* Left-symmetric: the stripes go around the disks, the parities from the   *)
(* last disk down.                                                          *)
P(row) == n - 1 - (row % n)
Q(row) == (n + n - 2 - (row % n)) % n

Holds(disk, at) ==
  LET row == at \div stripe
      off == at % stripe
      inRow == IF disk > P(row) THEN disk - P(row) - 1 ELSE disk + n - P(row) - 1
  IN CASE array.level = 0 -> Stored(row, disk, off)
       [] array.level = 1 -> Stored(row, 0, off)
       [] array.level = 10 -> Stored(row, disk \div 2, off)
       [] array.level \in {5, 6} ->
            CASE disk = P(row) ->
                   XorOver([k \in 0 .. DataPerRow - 1 |-> Stored(row, k, off)])
              [] array.level = 6 /\ disk = Q(row) ->
                   XorOver([k \in 0 .. DataPerRow - 1 |-> gfMul(gfPow(k), Stored(row, k, off))])
              [] OTHER -> Stored(row, inRow, off)

-----------------------------------------------------------------------------
(* DetectRAIDArrays: a path is put where its role says, the last one wins.  *)
Slot(i) ==
  LET its == SelectSeq(array.paths, LAMBDA s : s.own /\ s.role = i)
  IN IF its = <<>> THEN Missing ELSE Last(its).disk

Present(i) == Slot(i) # Missing
Absent == {i \in Disks : ~Present(i)}

(* NewReader: how many disks there must be.                                 *)
Accepted ==
  /\ n >= 2
  /\ CASE array.level = 0 -> Absent = {}
       [] array.level = 1 -> Absent # Disks
       [] array.level = 5 -> n >= 3 /\ Cardinality(Absent) <= 1
       [] array.level = 6 -> n >= 4 /\ Cardinality(Absent) <= 2
       [] array.level = 10 ->
            n >= 4 /\ n % 2 = 0 /\ \A i \in Disks : i % 2 = 0 => ~({i, i + 1} \subseteq Absent)

(* A disk gives what it has before its end.                                 *)
DiskRead(i, at, count) ==
  LET end == array.rows * stripe
      got == IF at >= end THEN 0 ELSE IF end - at < count THEN end - at ELSE count
  IN [k \in 1 .. got |-> Holds(Slot(i), at + k - 1)]

(* What is used of a disk if its read is short: zeros.                      *)
Padded(i, at, count) ==
  LET got == DiskRead(i, at, count)
  IN [k \in 1 .. count |-> IF k \in DOMAIN got THEN got[k] ELSE 0]

XorDisks(disks, at, count) ==
  [k \in 1 .. count |-> XorOver([i \in disks |-> Padded(i, at, count)[k]])]

-----------------------------------------------------------------------------
(* Where a logical stripe is: [disk, row] *)

parityCol(row) == (n - 1 - (row % n) + n) % n

qCol(row) == (n + n - 2 - (row % n)) % n

(* raid6DataCols: from the disk after Q around, without P.                  *)
raid6DataCols(row) ==
  LET around == [k \in 1 .. n |-> (qCol(row) + k) % n]
  IN SelectSeq(around, LAMBDA c : c # parityCol(row) /\ c # qCol(row))

(* dataStripesView: the data disks by their number.                         *)
dataStripesView(row) ==
  SelectSeq([k \in 1 .. n |-> k - 1], LAMBDA c : c # parityCol(row) /\ c # qCol(row))

Placed(s) ==
  LET row == s \div DataPerRow
      col == s % DataPerRow
  IN CASE array.level = 0 -> [disk |-> col, row |-> row]
       [] array.level = 10 ->
            [disk |-> IF Present(2 * col) THEN 2 * col ELSE 2 * col + 1, row |-> row]
       [] array.level = 5 -> [disk |-> (parityCol(row) + 1 + col) % n, row |-> row]
       [] array.level = 6 -> [disk |-> raid6DataCols(row)[col + 1], row |-> row]

(* rebuildRAID5Row: all the others.  Behind their end they give zeros.      *)
rebuildRAID5Row(disk, at, count) == XorDisks(Disks \ {disk}, at, count)

(* rebuildRAID6Row reads the whole row of every disk that is there; a read  *)
(* that fails after it has given something, cut[i] units, leaves zeros.     *)
RowData(row, cut) ==
  [i \in Disks \ Absent |->
     [k \in 1 .. stripe |-> IF k <= cut[i] THEN Holds(Slot(i), row * stripe + k - 1) ELSE 0]]

XorRow(d, disks) == [k \in 1 .. stripe |-> XorOver([i \in disks |-> d[i][k]])]

(* rebuildSingleDataDiskFromQ, RAID6RecoverTwoDataDisks: the equations of   *)
(* the second parity, with the data disks counted by dataStripesView.       *)
FromQ(row, d, disk) ==
  LET view == dataStripesView(row)
      x == CHOOSE i \in DOMAIN view : view[i] = disk
  IN [k \in 1 .. stripe |->
        gfDiv(Xor[d[qCol(row)][k],
                  XorOver([i \in DOMAIN view \ {x} |-> gfMul(gfPow(i - 1), d[view[i]][k])])],
              gfPow(x - 1))]

TwoDataDisks(row, d, disk) ==
  LET view == dataStripesView(row)
      lost == {i \in DOMAIN view : ~Present(view[i])}
      x == Min(lost)
      y == Max(lost)
      rest == DOMAIN view \ lost
      A(k) == Xor[d[parityCol(row)][k], XorOver([i \in rest |-> d[view[i]][k]])]
      B(k) == Xor[d[qCol(row)][k], XorOver([i \in rest |-> gfMul(gfPow(i - 1), d[view[i]][k])])]
      dy(k) == gfDiv(Xor[gfMul(gfPow(x - 1), A(k)), B(k)], Xor[gfPow(x - 1), gfPow(y - 1)])
  IN [k \in 1 .. stripe |-> IF disk = view[x] THEN Xor[A(k), dy(k)] ELSE dy(k)]

rebuildRAID6Row(row, d, disk) ==
  IF Absent = {disk} \/ Absent = {disk, qCol(row)}
  THEN XorRow(d, Disks \ {disk, qCol(row)})
  ELSE IF parityCol(row) \in Absent THEN FromQ(row, d, disk)
  ELSE TwoDataDisks(row, d, disk)

-----------------------------------------------------------------------------
RaidInit ==
  /\ array \in Arrays
  /\ \E r \in Reads : offset = r.offset /\ want = r.want
  /\ buf = <<>> /\ state = "reading" /\ guessed = {}

Reading == state = "reading" /\ Accepted

Got(got) ==
  /\ buf' = buf \o got
  /\ state' = IF got = <<>> \/ Len(buf') >= want THEN "ended" ELSE "reading"
  /\ UNCHANGED <<array, offset, want>>

(* readRAID1: the first disk that is there, in one piece.                   *)
ReadMirror ==
  /\ Reading /\ array.level = 1
  /\ buf' = DiskRead(Min(Disks \ Absent), offset, want)
  /\ state' = "ended"
  /\ UNCHANGED <<array, offset, want, guessed>>

Logical == offset + Len(buf)
Target == Placed(Logical \div stripe)
Within == Logical % stripe
Count == Min({stripe - Within, want - Len(buf)})

(* One turn of the loop of readRAID0, 5, 6 and 10: up to the next stripe.   *)
ReadChunk ==
  /\ Reading /\ array.level # 1
  /\ Present(Target.disk) \/ array.level = 5
  /\ LET at == Target.row * stripe + Within
     IN Got(IF Present(Target.disk) THEN DiskRead(Target.disk, at, Count)
            ELSE rebuildRAID5Row(Target.disk, at, Count))
  /\ UNCHANGED guessed

(* The same where a disk of RAID 6 is missing: the reads of the others are  *)
(* whole or, behind the end, give nothing; one may be short.                *)
Cuts ==
  {[i \in Disks \ Absent |-> stripe]}
    \cup {[i \in Disks \ Absent |-> IF i = short THEN units ELSE stripe] :
            short \in IF guessed = {} /\ Len(buf) < ShortWithin THEN Disks \ Absent ELSE {},
            units \in 1 .. stripe - 1}

RebuildChunk ==
  /\ Reading /\ array.level = 6 /\ ~Present(Target.disk)
  /\ IF Target.row >= array.rows THEN Got(<<>>) /\ UNCHANGED guessed
     ELSE \E cut \in Cuts :
            /\ Got(SubSeq(rebuildRAID6Row(Target.row, RowData(Target.row, cut), Target.disk),
                          Within + 1, Within + Count))
            /\ guessed' = guessed \cup
                 {Len(buf) + k : k \in {k \in 1 .. Count :
                                         \E i \in Disks \ Absent : Within + k > cut[i]}}

(* A disk reports an error: no other disk is tried.                         *)
DiskFails ==
  /\ Reading /\ state' = "failed"
  /\ UNCHANGED <<array, offset, want, buf, guessed>>

RaidNext == ReadMirror \/ ReadChunk \/ RebuildChunk \/ DiskFails

RaidSpec == RaidInit /\ [][RaidNext]_raidVars

-----------------------------------------------------------------------------
(* The second parity is computed over the data disks in the order of their  *)
(* stripes, but taken for one in the order of their numbers: the two agree  *)
(* where the columns of the row are ascending.                              *)
NeedsQ(row) ==
  /\ array.level = 6 /\ Cardinality(Absent) = 2
  /\ qCol(row) \notin Absent

Ascending(row) == raid6DataCols(row) = dataStripesView(row)

RowOf(unit) == (unit \div stripe) \div DataPerRow

(* Behind its end a RAID 5 that lacks a disk gives zeros.                   *)
PastTheEnd == array.level = 5 /\ Absent # {} /\ offset + want > Size

(* Whatever disks are missing, in whatever order the others were given and  *)
(* wherever the read begins: if the array is accepted, every unit read is   *)
(* the one that was stored, but where it was computed from a row of which a *)
(* disk gave a part only or by the second parity in another order; and a    *)
(* read that did not fail is as long as the array allows, but for zeros     *)
(* behind the end of a RAID 5 (raid.Reader.ReadAt).                         *)
ReadsWhatWasStored ==
  Accepted =>
    /\ \A k \in DOMAIN buf :
         IF offset + k - 1 >= Size THEN PastTheEnd /\ buf[k] = 0
         ELSE k \notin guessed /\ (NeedsQ(RowOf(offset + k - 1)) => Ascending(RowOf(offset + k - 1)))
                => buf[k] = array.data[offset + k - 1]
    /\ state = "ended" /\ ~PastTheEnd =>
         Len(buf) = IF offset >= Size THEN 0 ELSE Min({want, Size - offset})
=============================================================================
