------------------------- MODULE ResilientReadProofs -------------------------
(***************************************************************************)
(* The reader of a damaged disk, proved for any device, any set of damaged *)
(* sectors, any callers and requests, aligned or not.                      *)
(***************************************************************************)
EXTENDS ResilientRead, TLAPS

Points == {"idle", "read", "got", "loop", "mark", "back"}
Good == {"ok", "eof"}

(* The buffers have the lengths they were made with, a read fits the buffer *)
(* it fills and the rest of the caller's, and a direct read is a first read. *)
Placed(s, p) ==
  /\ Len(s.mem.direct) = s.len /\ s.total <= s.len
  /\ p # "idle" => Len(s.mem.probe) = MaxChunk /\ Len(s.mem.sector) = SectorSize
  /\ p \in {"read", "got", "mark"} =>
       s.total + s.size <= s.len /\ s.size <= Len(s.mem[s.kind])
  /\ p \in {"read", "got"} /\ s.kind = "direct" => s.total = 0
  /\ p = "got" /\ s.res \in Good => s.n <= s.size
  /\ p = "back" => s.n <= s.len

(* What may stand for unit d of the device in a buffer handed back, when    *)
(* list names the bad regions and w is what late reads put elsewhere.       *)
Names(list, sector) == \E b \in list : Overlaps(b, sector)
Faithful(list, w, d, v) ==
  d < Size => v = d \/ (v = Zero /\ Names(list, Sector(d))) \/ <<d, v>> \in w

(* What a call has put in its buffer so far is faithful; what was just read *)
(* is the device's, and ends early only at its end; what was just given up  *)
(* is zero: but where a late read has written since.                        *)
Truthful(list, w, s, p) ==
  /\ p \in {"read", "got", "loop", "mark"} =>
       \A i \in 1 .. s.total : Faithful(list, w, s.off + i - 1, s.mem.direct[i])
  /\ p = "got" /\ s.res \in Good =>
       /\ \A i \in 1 .. s.n :
            s.mem[s.kind][i] = At(s) + i - 1 \/ <<At(s) + i - 1, s.mem[s.kind][i]>> \in w
       /\ s.n < s.size => At(s) + s.n >= Size
  /\ p = "mark" =>
       \A i \in s.total + 1 .. s.total + s.size :
         \/ s.mem.direct[i] \in {Zero, s.off + i - 1}
         \/ <<s.off + i - 1, s.mem.direct[i]>> \in w
  /\ p = "back" =>
       \A i \in 1 .. s.n : Faithful(list, w, s.off + i - 1, s.mem.direct[i])

(* Between recordBad and markPoisoned the region is in the list already.    *)
Entered(list, s, p) == p = "mark" => [off |-> At(s), size |-> s.size] \in list

Sound(c) ==
  /\ Placed(call[c], pc[c]) /\ Entered(bad, call[c], pc[c])
  /\ Truthful(bad, strays[c], call[c], pc[c])

(* A key of the cache is the start of a sector, so what the cache withholds *)
(* at a key is that sector and no other.                                    *)
WholeSectors == \A p \in poisoned : p % SectorSize = 0

Typed ==
  /\ pc \in [Callers -> Points] /\ call \in [Callers -> Calls]
  /\ poisoned \subseteq Nat /\ bad \subseteq [off : Nat, size : Nat]
  /\ cancelled \in BOOLEAN
  /\ late \subseteq [by : Callers, kind : Kinds, off : Nat, size : Nat]
  /\ strays \in [Callers -> SUBSET (Nat \X Nat)]
  /\ calls \in 0 .. MaxCalls /\ timeouts \in 0 .. MaxTimeouts

IInv ==
  /\ Typed /\ WholeSectors /\ PoisonedIsReported
  /\ \A c \in Callers : Sound(c)

USE GeometryAssumption, LimitsAssumption

-----------------------------------------------------------------------------
(* A unit lies in its sector, and the units of a sector that starts at a    *)
(* multiple of its size lie in that one.                                    *)
LEMMA SectorOfUnit ==
  ASSUME NEW d \in Nat
  PROVE  /\ Sector(d) \in Nat /\ Sector(d) <= d /\ d < Sector(d) + SectorSize
         /\ Sector(d) % SectorSize = 0
<1> DEFINE k == d \div SectorSize
           r == d % SectorSize
<1>1. k \in Nat /\ r \in 0 .. SectorSize - 1 /\ d = (k * SectorSize) + r
  OBVIOUS
<1>2. Sector(d) = k * SectorSize /\ Sector(d) = d - r
  BY <1>1 DEF Sector
<1>3. (k * SectorSize) % SectorSize = 0 /\ k * SectorSize \in Nat
  BY <1>1
<1> HIDE DEF k, r
<1> QED
  BY <1>1, <1>2, <1>3

LEMMA UnitsOfSector ==
  ASSUME NEW p \in Nat, p % SectorSize = 0, NEW d \in p .. p + SectorSize - 1
  PROVE  Sector(d) = p
<1> DEFINE k == p \div SectorSize
           r == d - p
<1>1. k \in Nat /\ r \in 0 .. SectorSize - 1 /\ p = k * SectorSize
  OBVIOUS
<1>2. ((k * SectorSize) + r) % SectorSize = r
  BY <1>1
<1>3. d = (k * SectorSize) + r /\ p = d - r
  BY <1>1
<1> HIDE DEF k, r
<1> QED
  BY <1>2, <1>3 DEF Sector

(* The list names the sector of every unit of a region it holds.            *)
LEMMA RegionIsNamed ==
  ASSUME NEW list, NEW b \in [off : Nat, size : Nat], b \in list,
         NEW d \in b.off .. b.off + b.size - 1
  PROVE  Names(list, Sector(d))
<1>1. b.off \in Nat /\ b.size \in Nat /\ d \in Nat
  OBVIOUS
<1>2. Sector(d) \in Nat /\ Sector(d) <= d /\ d < Sector(d) + SectorSize
  BY <1>1, SectorOfUnit
<1> QED
  BY <1>1, <1>2 DEF Names, Overlaps

(* What is faithful stays so as the list of bad regions and late reads grow. *)
LEMMA TruthfulStays ==
  ASSUME NEW old, NEW list, old \subseteq list, NEW x, NEW w, x \subseteq w,
         NEW s, NEW p, Truthful(old, x, s, p)
  PROVE  Truthful(list, w, s, p)
<1>1. \A d, v : Faithful(old, x, d, v) => Faithful(list, w, d, v)
  BY DEF Faithful, Names
<1> QED
  BY <1>1 DEF Truthful

-----------------------------------------------------------------------------
(* The buffer operators *)

LEMMA FillFits ==
  ASSUME NEW b \in Seq(Int), NEW n \in Nat, NEW d \in Nat
  PROVE  /\ Fill(b, n, d) \in Seq(Int) /\ Len(Fill(b, n, d)) = Len(b)
         /\ \A i \in 1 .. Len(b) : Fill(b, n, d)[i] = IF i <= n THEN d + i - 1 ELSE b[i]
BY DEF Fill

LEMMA BlankFits ==
  ASSUME NEW s \in Calls
  PROVE  /\ Blank(s) \in Seq(Int) /\ Len(Blank(s)) = Len(s.mem.direct)
         /\ \A i \in 1 .. Len(s.mem.direct) :
              Blank(s)[i] = IF s.total < i /\ i <= s.total + s.size THEN Zero
                            ELSE s.mem.direct[i]
<1>1. s.mem.direct \in Seq(Int) /\ s.total \in Nat /\ s.size \in Nat
  BY DEF Calls, Kinds
<1> QED
  BY <1>1 DEF Blank, Zero

(* A call with another buffer of the caller's is a call.                    *)
LEMMA WithBuffer ==
  ASSUME NEW s \in Calls, NEW b \in Seq(Int)
  PROVE  LET m == [s.mem EXCEPT !.direct = b]
         IN /\ m \in [Kinds -> Seq(Int)] /\ m.direct = b
            /\ m.probe = s.mem.probe /\ m.sector = s.mem.sector
<1>1. s.mem \in [Kinds -> Seq(Int)]
  BY DEF Calls
<1> QED
  BY <1>1 DEF Kinds

LEMMA WithTries ==
  ASSUME NEW s \in Calls, NEW tries \in Nat
  PROVE  LET t == [s EXCEPT !.tries = tries]
         IN /\ t \in Calls /\ t.mem = s.mem /\ t.len = s.len /\ t.total = s.total
            /\ t.off = s.off
BY DEF Calls

LEMMA CopyInFits ==
  ASSUME NEW s \in Calls, s.n <= Len(s.mem[s.kind])
  PROVE  /\ CopyIn(s) \in Seq(Int) /\ Len(CopyIn(s)) = Len(s.mem.direct)
         /\ \A i \in 1 .. Len(s.mem.direct) :
              CopyIn(s)[i] = IF s.total < i /\ i <= s.total + s.n
                             THEN s.mem[s.kind][i - s.total] ELSE s.mem.direct[i]
<1> DEFINE b == s.mem.direct
           k == s.mem[s.kind]
<1>1. b \in Seq(Int) /\ k \in Seq(Int) /\ s.total \in Nat /\ s.n \in Nat /\ s.n <= Len(k)
  BY DEF Calls, Kinds
<1>2. CopyIn(s) = [i \in 1 .. Len(b) |->
        IF s.total < i /\ i <= s.total + s.n THEN k[i - s.total] ELSE b[i]]
  BY DEF CopyIn
<1> SUFFICES /\ CopyIn(s) \in Seq(Int) /\ Len(CopyIn(s)) = Len(b)
             /\ \A i \in 1 .. Len(b) :
                  CopyIn(s)[i] = IF s.total < i /\ i <= s.total + s.n
                                 THEN k[i - s.total] ELSE b[i]
  OBVIOUS
<1> HIDE DEF b, k
<1>3. \A i \in 1 .. Len(b) : s.total < i /\ i <= s.total + s.n => k[i - s.total] \in Int
  BY <1>1
<1> QED
  BY <1>1, <1>2, <1>3
-----------------------------------------------------------------------------
(* A step of one caller leaves the others sound, since the list only grows. *)
LEMMA StepIsSound ==
  ASSUME IInv, NEW c \in Callers, NEW t \in Calls, NEW q \in Points,
         pc' = [pc EXCEPT ![c] = q], call' = [call EXCEPT ![c] = t],
         bad \subseteq bad', \A u \in Callers \ {c} : strays[u] \subseteq strays'[u],
         Placed(t, q), Entered(bad', t, q), Truthful(bad', strays'[c], t, q)
  PROVE  /\ pc' \in [Callers -> Points] /\ call' \in [Callers -> Calls]
         /\ \A u \in Callers : Sound(u)'
<1>1. pc' \in [Callers -> Points] /\ call' \in [Callers -> Calls]
  BY DEF IInv, Typed
<1>2. pc'[c] = q /\ call'[c] = t
  BY DEF IInv, Typed
<1>3. ASSUME NEW u \in Callers \ {c} PROVE Sound(u)'
  <2>1. pc'[u] = pc[u] /\ call'[u] = call[u]
    BY DEF IInv, Typed
  <2>2. Sound(u)
    BY DEF IInv
  <2>3. Entered(bad', call[u], pc[u])
    BY <2>2 DEF Sound, Entered
  <2>4. Truthful(bad', strays'[u], call[u], pc[u])
    BY <2>2, TruthfulStays DEF Sound
  <2> QED
    BY <2>1, <2>2, <2>3, <2>4 DEF Sound
<1>4. Sound(c)'
  BY <1>2 DEF Sound
<1> QED
  BY <1>1, <1>3, <1>4

LEMMA InitSound == Init => IInv
<1> SUFFICES ASSUME Init PROVE IInv
  OBVIOUS
<1>1. NoCall \in Calls
  BY DEF NoCall, Calls, Kinds
<1>2. Placed(NoCall, "idle") /\ \A list, w : Entered(list, NoCall, "idle") /\ Truthful(list, w, NoCall, "idle")
  BY DEF NoCall, Kinds, Placed, Entered, Truthful
<1>3. \A c \in Callers : pc[c] = "idle" /\ call[c] = NoCall
  BY DEF Init
<1>4. \A c \in Callers : Sound(c)
  BY <1>2, <1>3 DEF Sound
<1>5. pc \in [Callers -> Points] /\ call \in [Callers -> Calls]
  BY <1>1 DEF Init, Points
<1>6. calls \in 0 .. MaxCalls /\ timeouts \in 0 .. MaxTimeouts
  BY DEF Init
<1>7. Typed
  BY <1>5, <1>6 DEF Init, Typed
<1> QED
  BY <1>4, <1>7 DEF Init, IInv, WholeSectors, PoisonedIsReported

(* The two ways on that several actions share.                              *)
LEMMA IssueIsSound ==
  ASSUME IInv, NEW c \in Callers, NEW s \in Calls, NEW kind \in Kinds, NEW size \in Nat,
         Issue(c, s, kind, size), UNCHANGED <<bad, strays>>, Placed(s, "loop"),
         s.total + size <= s.len, size <= Len(s.mem[kind]), kind = "direct" => s.total = 0,
         Truthful(bad, strays[c], s, "loop")
  PROVE  /\ pc' \in [Callers -> Points] /\ call' \in [Callers -> Calls]
         /\ \A u \in Callers : Sound(u)'
<1> DEFINE t == [s EXCEPT !.kind = kind, !.size = size, !.closed = cancelled]
<1>1. t \in Calls
  BY DEF IInv, Typed, Calls
<1>2. /\ t.mem = s.mem /\ t.off = s.off /\ t.total = s.total /\ t.len = s.len
      /\ t.kind = kind /\ t.size = size
  BY DEF Calls
<1>3. pc' = [pc EXCEPT ![c] = "read"] /\ call' = [call EXCEPT ![c] = t]
  BY DEF Issue
<1> HIDE DEF t
<1>4. Placed(t, "read")
  BY <1>2 DEF Placed
<1>5. Entered(bad', t, "read") /\ (Truthful(bad', strays'[c], t, "read"))
  BY <1>2 DEF Entered, Truthful
<1> QED
  BY <1>1, <1>3, <1>4, <1>5, StepIsSound DEF Points

LEMMA ReturnIsSound ==
  ASSUME IInv, NEW c \in Callers, NEW s \in Calls, NEW n \in Nat,
         NEW res \in {"none", "ok", "eof", "bad", "cancelled"},
         Return(c, s, n, res), Placed(s, "loop"), n <= s.len,
         \A i \in 1 .. n : Faithful(bad, strays[c], s.off + i - 1, s.mem.direct[i])
  PROVE  /\ pc' \in [Callers -> Points] /\ call' \in [Callers -> Calls]
         /\ \A u \in Callers : Sound(u)'
<1> DEFINE t == [s EXCEPT !.n = n, !.res = res]
<1>1. t \in Calls
  BY DEF Calls
<1>2. /\ t.mem = s.mem /\ t.off = s.off /\ t.total = s.total /\ t.len = s.len
      /\ t.n = n
  BY DEF Calls
<1>3. pc' = [pc EXCEPT ![c] = "back"] /\ call' = [call EXCEPT ![c] = t]
      /\ bad' = bad /\ strays' = strays
  BY DEF Return
<1> HIDE DEF t
<1>4. Placed(t, "back")
  BY <1>2 DEF Placed
<1>5. Entered(bad', t, "back") /\ (Truthful(bad', strays'[c], t, "back"))
  BY <1>2, <1>3 DEF Entered, Truthful
<1> QED
  BY <1>1, <1>3, <1>4, <1>5, StepIsSound DEF Points

-----------------------------------------------------------------------------
(* A read that succeeds gives no more than was asked for, and less only at  *)
(* the end of the device.                                                   *)
LEMMA OutcomesFit ==
  ASSUME NEW off \in Nat, NEW size \in Nat, NEW o \in OpenOutcomes(off, size)
  PROVE  /\ o.res \in {"ok", "eof", "bad"} /\ o.n \in Nat /\ o.n <= size
         /\ o.res \in Good /\ o.n < size => off + o.n >= Size
<1>1. CASE off >= Size
  BY <1>1 DEF OpenOutcomes, Good
<1>2. CASE off < Size /\ Unreadable(off, size)
  BY <1>2 DEF OpenOutcomes, Good
<1>3. CASE off < Size /\ ~Unreadable(off, size)
  BY <1>3 DEF OpenOutcomes, Good, Least
<1> QED
  BY <1>1, <1>2, <1>3

LEMMA ReadOutcomesFit ==
  ASSUME cancelled \in BOOLEAN, NEW s \in Calls, NEW o \in Outcomes(s)
  PROVE  /\ o.res \in {"none", "ok", "eof", "bad", "cancelled"} /\ o.n \in Nat
         /\ o.n <= s.size
         /\ o.res \in Good /\ o.n < s.size => At(s) + o.n >= Size
<1>1. At(s) \in Nat /\ s.size \in Nat
  BY DEF At, Calls
<1>2. o \in OpenOutcomes(At(s), s.size) \/ o = CancelOutcome \/ o = [res |-> "bad", n |-> 0]
  BY DEF Outcomes, Calls
<1>3. CASE o \in OpenOutcomes(At(s), s.size)
  BY <1>1, <1>3, OutcomesFit
<1>4. CASE o = CancelOutcome \/ o = [res |-> "bad", n |-> 0]
  BY <1>1, <1>4 DEF CancelOutcome, Good
<1> QED
  BY <1>2, <1>3, <1>4

LEMMA LandIsSound ==
  ASSUME IInv, NEW c \in Callers, Land(c)
  PROVE  /\ pc' \in [Callers -> Points] /\ call' \in [Callers -> Calls]
         /\ \A u \in Callers : Sound(u)'
<1> DEFINE s == call[c]
           b == s.mem[s.kind]
<1>1. /\ s \in Calls /\ pc[c] = "read" /\ Placed(s, "read")
      /\ Truthful(bad, strays[c], s, "read")
  BY DEF IInv, Typed, Land, Sound
<1>2. PICK o \in Outcomes(s) :
        call' = [call EXCEPT ![c].mem[call[c].kind] = Fill(@, o.n, At(call[c])),
                             ![c].res = o.res, ![c].n = o.n]
  BY DEF Land
<1>3. /\ o.res \in {"none", "ok", "eof", "bad", "cancelled"} /\ o.n \in Nat
      /\ o.n <= s.size /\ (o.res \in Good /\ o.n < s.size => At(s) + o.n >= Size)
  BY <1>1, ReadOutcomesFit DEF IInv, Typed
<1> DEFINE f == Fill(b, o.n, At(s))
           t == [s EXCEPT !.mem[s.kind] = f, !.res = o.res, !.n = o.n]
<1>4. call' = [call EXCEPT ![c] = t] /\ pc' = [pc EXCEPT ![c] = "got"]
      /\ UNCHANGED <<bad, strays>>
  <2>1. call' = [call EXCEPT ![c] = t]
    BY <1>2
  <2>2. pc' = [pc EXCEPT ![c] = "got"] /\ UNCHANGED <<bad, strays>>
    BY DEF Land
  <2> QED
    BY <2>1, <2>2
<1>5. b \in Seq(Int) /\ At(s) \in Nat /\ s.kind \in Kinds
  <2>1. s.mem \in [Kinds -> Seq(Int)] /\ s.kind \in Kinds
    BY <1>1 DEF Calls
  <2>2. At(s) \in Nat
    BY <1>1 DEF Calls, At
  <2> QED
    BY <2>1, <2>2
<1>6. /\ f \in Seq(Int) /\ Len(f) = Len(b)
      /\ \A i \in 1 .. o.n : i <= Len(b) => f[i] = At(s) + i - 1
  <2>1. o.n \in Nat
    BY <1>3
  <2> HIDE DEF b
  <2> QED
    BY <1>5, <2>1, FillFits
<1> HIDE DEF f
<1>7. t \in Calls
  BY <1>1, <1>3, <1>6 DEF Calls
<1>8. /\ t.off = s.off /\ t.total = s.total /\ t.len = s.len /\ t.kind = s.kind
      /\ t.size = s.size /\ t.res = o.res /\ t.n = o.n
  BY <1>1 DEF Calls
<1>9. t.mem[s.kind] = f /\ \A k \in Kinds \ {s.kind} : t.mem[k] = s.mem[k]
  BY <1>1 DEF Calls
<1> HIDE DEF s, t, b
<1>10. Placed(t, "got")
  BY <1>1, <1>3, <1>5, <1>6, <1>8, <1>9 DEF Placed, Kinds, Good, b
<1>11. Truthful(bad, strays[c], t, "got")
  <2>1. \A i \in 1 .. t.total : Faithful(bad, strays[c], t.off + i - 1, t.mem.direct[i])
    BY <1>1, <1>8, <1>9, <1>11 DEF Placed, Truthful, Kinds
  <2>2. \A i \in 1 .. t.n : t.mem[t.kind][i] = At(t) + i - 1
    <3>1. At(t) = At(s) /\ t.mem[t.kind] = f /\ t.n = o.n
      BY <1>8, <1>9 DEF At
    <3>2. Len(b) \in Nat /\ s.size \in Nat /\ s.size <= Len(b)
      BY <1>1, <1>5 DEF Placed, Calls, b
    <3> QED
      BY <1>3, <1>6, <3>1, <3>2
  <2> QED
    BY <1>3, <1>8, <2>1, <2>2 DEF Truthful, At
<1> QED
  BY <1>4, <1>7, <1>10, <1>11, StepIsSound DEF Points, Entered

(* What was read joins what the call has, a sector that ends short counted  *)
(* as a whole: the rest of it is beyond the device.                         *)
LEMMA CopiedIsFaithful ==
  ASSUME NEW list, NEW w, NEW s \in Calls, Placed(s, "got"), s.res \in Good, NEW m \in {s.n, s.size}
  PROVE  /\ s.total + m <= s.len
         /\ Truthful(list, w, s, "got") =>
              \A i \in 1 .. s.total + m : Faithful(list, w, s.off + i - 1, CopyIn(s)[i])
<1>1. /\ s.off \in Nat /\ s.total \in Nat /\ s.n \in Nat /\ s.size \in Nat /\ s.len \in Nat
      /\ Size \in Nat /\ s.mem.direct \in Seq(Int)
  BY DEF Calls, Kinds
<1>2. /\ s.total + s.size <= s.len /\ s.n <= s.size /\ Len(s.mem.direct) = s.len
      /\ s.size <= Len(s.mem[s.kind]) /\ Len(s.mem[s.kind]) \in Nat
  BY DEF Placed, Calls
<1>3. s.total + m <= s.len /\ m \in Nat
  BY <1>1, <1>2
<1>4. \A i \in 1 .. s.len :
        CopyIn(s)[i] = IF s.total < i /\ i <= s.total + s.n
                       THEN s.mem[s.kind][i - s.total] ELSE s.mem.direct[i]
  <2>1. s.n <= Len(s.mem[s.kind])
    BY <1>1, <1>2
  <2> QED
    BY <1>2, <2>1, CopyInFits
<1>5. ASSUME Truthful(list, w, s, "got"), NEW i \in 1 .. s.total + m
      PROVE  Faithful(list, w, s.off + i - 1, CopyIn(s)[i])
  <2>1. i \in 1 .. s.len
    BY <1>1, <1>3
  <2>2. CASE i <= s.total
    <3>1. i \in 1 .. s.total
      BY <1>1, <2>1, <2>2
    <3>2. Faithful(list, w, s.off + i - 1, s.mem.direct[i])
      BY <1>5, <3>1 DEF Truthful
    <3>3. CopyIn(s)[i] = s.mem.direct[i]
      BY <1>1, <1>4, <2>1, <2>2
    <3> QED
      BY <3>2, <3>3
  <2>3. CASE s.total < i /\ i <= s.total + s.n
    <3>1. i - s.total \in 1 .. s.n
      BY <1>1, <2>1, <2>3
    <3>2. \/ s.mem[s.kind][i - s.total] = At(s) + (i - s.total) - 1
          \/ <<At(s) + (i - s.total) - 1, s.mem[s.kind][i - s.total]>> \in w
      BY <1>5, <3>1 DEF Truthful
    <3>4. At(s) + (i - s.total) - 1 = s.off + i - 1
      BY <1>1, <2>1 DEF At
    <3>3. CopyIn(s)[i] = s.off + i - 1 \/ <<s.off + i - 1, CopyIn(s)[i]>> \in w
      BY <1>1, <1>4, <2>1, <2>3, <3>2, <3>4
    <3> QED
      BY <3>3 DEF Faithful
  <2>4. CASE s.total + s.n < i
    <3>1. s.n < s.size
      BY <1>1, <1>2, <2>1, <2>4
    <3>2. s.off + s.total + s.n >= Size
      BY <1>5, <3>1 DEF Truthful, At
    <3> QED
      BY <1>1, <2>1, <2>4, <3>2 DEF Faithful
  <2> QED
    BY <1>1, <2>1, <2>2, <2>3, <2>4
<1> QED
  BY <1>3, <1>5

LEMMA BlankedIsFaithful ==
  ASSUME NEW list, NEW w, NEW s \in Calls, Len(s.mem.direct) = s.len, s.total + s.size <= s.len,
         \A i \in 1 .. s.total : Faithful(list, w, s.off + i - 1, s.mem.direct[i]),
         \A d \in At(s) .. At(s) + s.size - 1 : Names(list, Sector(d))
  PROVE  \A i \in 1 .. s.total + s.size : Faithful(list, w, s.off + i - 1, Blank(s)[i])
<1>1. s.off \in Nat /\ s.total \in Nat /\ s.size \in Nat /\ s.len \in Nat
  BY DEF Calls
<1>2. \A i \in 1 .. s.len :
        Blank(s)[i] = IF s.total < i /\ i <= s.total + s.size THEN Zero ELSE s.mem.direct[i]
  BY BlankFits
<1>3. ASSUME NEW i \in 1 .. s.total + s.size
      PROVE  Faithful(list, w, s.off + i - 1, Blank(s)[i])
  <2>1. i \in 1 .. s.len
    BY <1>1
  <2>2. CASE i <= s.total
    <3>1. i \in 1 .. s.total
      BY <1>1, <2>1, <2>2
    <3>2. Blank(s)[i] = s.mem.direct[i]
      BY <1>1, <1>2, <2>1, <2>2
    <3> QED
      BY <3>1, <3>2
  <2>3. CASE s.total < i
    <3>1. s.off + i - 1 \in At(s) .. At(s) + s.size - 1
      <4>1. i \in Nat /\ s.total < i /\ i <= s.total + s.size
        BY <1>1, <2>3
      <4>2. At(s) = s.off + s.total /\ s.off + i - 1 \in Int
        BY <1>1, <4>1 DEF At
      <4>3. s.off + s.total <= s.off + i - 1 /\ s.off + i - 1 <= s.off + s.total + s.size - 1
        BY <1>1, <4>1
      <4> QED
        BY <1>1, <4>2, <4>3
    <3> QED
      BY <1>2, <2>1, <2>3, <3>1 DEF Faithful
  <2> QED
    BY <1>1, <2>2, <2>3
<1> QED
  BY <1>3

-----------------------------------------------------------------------------
(* One lemma for each action that changes a call.                           *)
LEMMA ReadAtIsSound ==
  ASSUME IInv, NEW c \in Callers, ReadAt(c)
  PROVE  /\ pc' \in [Callers -> Points] /\ call' \in [Callers -> Calls]
         /\ \A u \in Callers : Sound(u)'
<1>1. PICK q \in Requests :
        Issue(c, [NoCall EXCEPT !.off = q.off, !.len = q.len, !.chunk = SectorSize,
                    !.after = cancelled,
                    !.mem = [direct |-> Fresh(q.len), probe |-> Fresh(MaxChunk),
                             sector |-> Fresh(SectorSize)]], "direct", q.len)
  BY DEF ReadAt
<1> DEFINE s == [NoCall EXCEPT !.off = q.off, !.len = q.len, !.chunk = SectorSize,
                   !.after = cancelled,
                   !.mem = [direct |-> Fresh(q.len), probe |-> Fresh(MaxChunk),
                            sector |-> Fresh(SectorSize)]]
<1>2. \A l \in Nat : Fresh(l) \in Seq(Int) /\ Len(Fresh(l)) = l
  BY DEF Fresh, Stale
<1>3. q.off \in Nat /\ q.len \in Nat /\ SectorSize \in Nat
  OBVIOUS
<1>4. [direct |-> Fresh(q.len), probe |-> Fresh(MaxChunk), sector |-> Fresh(SectorSize)]
        \in [Kinds -> Seq(Int)]
  BY <1>2, <1>3 DEF Kinds
<1>5. s \in Calls
  BY <1>3, <1>4 DEF NoCall, Calls, Kinds, IInv, Typed
<1>6. /\ s.total = 0 /\ s.len = q.len
      /\ s.mem.direct = Fresh(q.len) /\ s.mem.probe = Fresh(MaxChunk)
      /\ s.mem.sector = Fresh(SectorSize)
  BY DEF NoCall
<1> HIDE DEF s
<1>7. Placed(s, "loop")
  BY <1>2, <1>3, <1>6 DEF Placed
<1>8. Truthful(bad, strays[c], s, "loop")
  BY <1>6 DEF Truthful
<1>9. s.total + q.len <= s.len /\ q.len <= Len(s.mem["direct"])
  <2>1. Len(s.mem["direct"]) = q.len
    BY <1>2, <1>3, <1>6
  <2> QED
    BY <1>3, <1>6, <2>1
<1>10. UNCHANGED <<bad, strays>>
  BY DEF ReadAt
<1>11. Issue(c, s, "direct", q.len)
  BY <1>1 DEF s
<1> QED
  BY <1>3, <1>5, <1>6, <1>7, <1>8, <1>9, <1>10, <1>11, IssueIsSound DEF Kinds

LEMMA TimeoutIsSound ==
  ASSUME IInv, NEW c \in Callers, Timeout(c)
  PROVE  /\ pc' \in [Callers -> Points] /\ call' \in [Callers -> Calls]
         /\ \A u \in Callers : Sound(u)'
<1> DEFINE s == call[c]
           t == [s EXCEPT !.res = "bad", !.n = 0]
<1>1. /\ s \in Calls /\ Placed(s, "read")
      /\ Truthful(bad, strays[c], s, "read")
  BY DEF IInv, Typed, Timeout, Sound
<1>2. call' = [call EXCEPT ![c] = t] /\ pc' = [pc EXCEPT ![c] = "got"]
      /\ UNCHANGED <<bad, strays>>
  BY DEF Timeout
<1>3. t \in Calls
  BY <1>1 DEF Calls
<1>4. /\ t.off = s.off /\ t.total = s.total /\ t.len = s.len /\ t.kind = s.kind
      /\ t.size = s.size /\ t.res = "bad" /\ t.mem = s.mem
  BY <1>1 DEF Calls
<1> HIDE DEF s, t
<1>5. Placed(t, "got")
  BY <1>1, <1>4 DEF Placed, Good
<1>6. Truthful(bad, strays[c], t, "got")
  BY <1>1, <1>4 DEF Truthful, Good
<1> QED
  BY <1>2, <1>3, <1>5, <1>6, StepIsSound DEF Points, Entered

(* What a late read gives lies where the ledger of strays says.             *)
LEMMA LateWrite ==
  ASSUME IInv, NEW l \in late, NEW n \in Nat, pc[l.by] # "idle",
         n <= l.size, NEW f, f = Fill(call[l.by].mem[l.kind], n, l.off)
  PROVE  LET s == call[l.by]
             t == [s EXCEPT !.mem[l.kind] = f]
         IN Truthful(bad, strays[l.by] \cup Misplaced(l, n), t, pc[l.by])
<1> DEFINE s == call[l.by]
           b == s.mem[l.kind]
           t == [s EXCEPT !.mem[l.kind] = f]
           w == strays[l.by]
           x == w \cup Misplaced(l, n)
           p == pc[l.by]
<1>1. l.by \in Callers /\ l.kind \in Kinds /\ l.off \in Nat /\ l.size \in Nat
  BY DEF IInv, Typed
<1>2. s \in Calls /\ Truthful(bad, w, s, p) /\ Placed(s, p)
  BY <1>1 DEF IInv, Typed, Sound
<1>3. b \in Seq(Int) /\ s.mem \in [Kinds -> Seq(Int)] /\ s.kind \in Kinds
  BY <1>1, <1>2 DEF Calls
<1>n. s.off \in Nat /\ s.total \in Nat /\ s.size \in Nat /\ s.n \in Nat /\ At(s) \in Nat
      /\ At(s) = s.off + s.total /\ s.len \in Nat
  <2>1. s \in Calls
    BY <1>2
  <2> HIDE DEF s
  <2>2. s.off \in Nat /\ s.total \in Nat /\ s.size \in Nat /\ s.n \in Nat /\ s.len \in Nat
    BY <2>1 DEF Calls
  <2> QED BY <2>2 DEF At
<1>4. \A i \in 1 .. Len(b) : f[i] = IF i <= n THEN l.off + i - 1 ELSE b[i]
  <2> DEFINE d == l.off
  <2>1. b \in Seq(Int) /\ d \in Nat /\ f = Fill(b, n, d)
    BY <1>1, <1>3
  <2> HIDE DEF b, d
  <2>2. \A i \in 1 .. Len(b) : Fill(b, n, d)[i] = IF i <= n THEN d + i - 1 ELSE b[i]
    BY <2>1, FillFits
  <2>3. \A i \in 1 .. Len(b) : f[i] = IF i <= n THEN d + i - 1 ELSE b[i]
    BY Zenon, <2>1, <2>2
  <2> QED BY <2>3 DEF d
<1>5. /\ t.off = s.off /\ t.total = s.total /\ t.len = s.len /\ t.kind = s.kind
      /\ t.size = s.size /\ t.res = s.res /\ t.n = s.n /\ At(t) = At(s)
      /\ t.mem[l.kind] = f /\ \A k \in Kinds \ {l.kind} : t.mem[k] = s.mem[k]
  BY <1>1, <1>2 DEF Calls, At
<1>6. Truthful(bad, x, s, p)
  BY <1>2, TruthfulStays
<1> DEFINE place == IF l.kind = "direct" THEN s.off ELSE At(s)
<1>7. l.kind = "direct" \/ (p = "got" /\ s.kind = l.kind) =>
        \A i \in 1 .. Len(b) : f[i] = b[i] \/ f[i] = place + i - 1 \/ <<place + i - 1, f[i]>> \in x
  <2> SUFFICES ASSUME l.kind = "direct" \/ (p = "got" /\ s.kind = l.kind), NEW i \in 1 .. Len(b)
               PROVE  f[i] = b[i] \/ f[i] = place + i - 1 \/ <<place + i - 1, f[i]>> \in x
    OBVIOUS
  <2>1. Len(b) \in Nat /\ i \in Nat /\ i >= 1
    BY <1>3
  <2>2. CASE ~(i <= n)
    BY <1>4, <2>2
  <2>3. CASE i <= n /\ place = l.off
    BY <1>4, <2>3
  <2>4. CASE i <= n /\ place # l.off
    <3>1. Misplaced(l, n) = {<<place + j, l.off + j>> : j \in 0 .. n - 1}
      BY <2>4 DEF Misplaced
    <3>2. i - 1 \in 0 .. n - 1
      BY <2>1, <2>4
    <3>3. <<place + (i - 1), l.off + (i - 1)>> \in x
      BY <3>1, <3>2
    <3>4. f[i] = l.off + i - 1
      BY <1>4, <2>4
    <3>5. place \in Nat
      BY <1>n
    <3>6. l.off + (i - 1) = l.off + i - 1 /\ place + (i - 1) = place + i - 1
      BY <1>1, <2>1, <3>5
    <3> HIDE DEF place, x
    <3> QED BY <3>3, <3>4, <3>6
  <2> HIDE DEF place, x, b
  <2> QED BY <2>2, <2>3, <2>4
<1>8. Len(s.mem.direct) = s.len /\ s.total <= s.len
      /\ (p \in {"got", "mark"} => s.total + s.size <= s.len /\ s.size <= Len(s.mem[s.kind]))
      /\ (p = "got" /\ s.kind = "direct" => s.total = 0)
      /\ (p = "got" /\ s.res \in Good => s.n <= s.size) /\ (p = "back" => s.n <= s.len)
  BY <1>2 DEF Placed
<1> HIDE DEF s, t, w, x, p, place
<1>9. \A i \in 1 .. s.len : \/ t.mem.direct[i] = s.mem.direct[i] \/ t.mem.direct[i] = s.off + i - 1
                           \/ <<s.off + i - 1, t.mem.direct[i]>> \in x
  <2>1. CASE l.kind = "direct"
    BY <1>5, <1>7, <1>8, <2>1 DEF place
  <2>2. CASE l.kind # "direct"
    BY <1>5, <2>2 DEF Kinds
  <2> QED BY <2>1, <2>2
<1>10. ASSUME NEW i \in 1 .. s.len, Faithful(bad, x, s.off + i - 1, s.mem.direct[i])
       PROVE  Faithful(bad, x, s.off + i - 1, t.mem.direct[i])
  BY <1>9, <1>10 DEF Faithful
<1>11. \A m \in 0 .. s.len : (\A i \in 1 .. m : Faithful(bad, x, s.off + i - 1, s.mem.direct[i]))
         => \A i \in 1 .. m : Faithful(bad, x, s.off + i - 1, t.mem.direct[i])
  <2> SUFFICES ASSUME NEW m \in 0 .. s.len, NEW i \in 1 .. m,
                      Faithful(bad, x, s.off + i - 1, s.mem.direct[i])
               PROVE  Faithful(bad, x, s.off + i - 1, t.mem.direct[i])
    OBVIOUS
  <2>1. i \in 1 .. s.len
    BY <1>n
  <2> QED BY <1>10, <2>1
<1>12. p \in {"read", "got", "loop", "mark"} =>
         \A i \in 1 .. t.total : Faithful(bad, x, t.off + i - 1, t.mem.direct[i])
  <2>1. s.total \in 0 .. s.len
    BY <1>n, <1>8
  <2> QED BY <1>5, <1>6, <1>11, <2>1 DEF Truthful
<1>13. p = "back" => \A i \in 1 .. t.n : Faithful(bad, x, t.off + i - 1, t.mem.direct[i])
  <2>1. p = "back" => s.n \in 0 .. s.len
    BY <1>n, <1>8
  <2> QED BY <1>5, <1>6, <1>11, <2>1 DEF Truthful
<1>14. p = "mark" => \A i \in t.total + 1 .. t.total + t.size :
         t.mem.direct[i] \in {Zero, t.off + i - 1} \/ <<t.off + i - 1, t.mem.direct[i]>> \in x
  <2> SUFFICES ASSUME p = "mark", NEW i \in s.total + 1 .. s.total + s.size
               PROVE  \/ t.mem.direct[i] \in {Zero, s.off + i - 1}
                      \/ <<s.off + i - 1, t.mem.direct[i]>> \in x
    BY <1>5
  <2>1. i \in 1 .. s.len
    BY <1>n, <1>8
  <2>2. s.mem.direct[i] \in {Zero, s.off + i - 1} \/ <<s.off + i - 1, s.mem.direct[i]>> \in x
    BY <1>6 DEF Truthful
  <2> QED BY <1>9, <2>1, <2>2
<1>15. p = "got" /\ t.res \in Good =>
         /\ \A i \in 1 .. t.n :
              t.mem[t.kind][i] = At(t) + i - 1 \/ <<At(t) + i - 1, t.mem[t.kind][i]>> \in x
         /\ t.n < t.size => At(t) + t.n >= Size
  <2> SUFFICES ASSUME p = "got", s.res \in Good
               PROVE  /\ \A i \in 1 .. s.n : \/ t.mem[s.kind][i] = At(s) + i - 1
                                            \/ <<At(s) + i - 1, t.mem[s.kind][i]>> \in x
                      /\ s.n < s.size => At(s) + s.n >= Size
    BY <1>5
  <2>1. /\ \A i \in 1 .. s.n : \/ s.mem[s.kind][i] = At(s) + i - 1
                                \/ <<At(s) + i - 1, s.mem[s.kind][i]>> \in x
        /\ s.n < s.size => At(s) + s.n >= Size
    BY <1>6 DEF Truthful
  <2>2. CASE s.kind # l.kind
    BY <1>3, <1>5, <2>1, <2>2
  <2>3. CASE s.kind = l.kind
    <3>1. place = At(s)
      BY <1>n, <1>8, <2>3 DEF place
    <3>2. \A i \in 1 .. Len(s.mem[s.kind]) : \/ f[i] = s.mem[s.kind][i] \/ f[i] = At(s) + i - 1
                                            \/ <<At(s) + i - 1, f[i]>> \in x
      BY <1>7, <2>3, <3>1
    <3>3. s.n <= Len(s.mem[s.kind]) /\ Len(s.mem[s.kind]) \in Nat
      <4>1. s.n <= s.size /\ s.size <= Len(s.mem[s.kind]) /\ s.mem[s.kind] \in Seq(Int)
        BY <1>3, <1>8, <2>3
      <4>2. Len(s.mem[s.kind]) \in Nat
        BY <4>1
      <4> QED BY <1>n, <4>1, <4>2
    <3>4. \A i \in 1 .. s.n : i \in 1 .. Len(s.mem[s.kind])
      BY <1>n, <3>3
    <3>5. t.mem[s.kind] = f
      BY <1>5, <2>3
    <3> QED BY <2>1, <3>2, <3>4, <3>5
  <2> QED BY <2>2, <2>3
<1>16. Truthful(bad, x, t, p)
  BY <1>12, <1>13, <1>14, <1>15 DEF Truthful
<1> QED BY <1>16 DEF t, x, p, w, s

LEMMA LateLandIsSound ==
  ASSUME IInv, NEW l \in late, LateLand(l)
  PROVE  /\ pc' \in [Callers -> Points] /\ call' \in [Callers -> Calls]
         /\ \A u \in Callers : Sound(u)'
<1> DEFINE c == l.by
           s == call[c]
           b == s.mem[l.kind]
<1>1. /\ c \in Callers /\ l.kind \in Kinds /\ l.off \in Nat /\ l.size \in Nat
  BY DEF IInv, Typed
<1>2. s \in Calls /\ Placed(s, pc[c]) /\ Entered(bad, s, pc[c]) /\ pc[c] \in Points
  BY <1>1 DEF IInv, Typed, Sound
<1>3. PICK o \in OpenOutcomes(l.off, l.size) :
        /\ call' = [call EXCEPT ![l.by].mem[l.kind] = Fill(@, o.n, l.off)]
        /\ strays' = [strays EXCEPT ![l.by] = @ \cup Misplaced(l, o.n)]
  BY DEF LateLand
<1>4. o.n \in Nat /\ o.n <= l.size
  BY <1>1, OutcomesFit
<1> DEFINE f == Fill(b, o.n, l.off)
           t == [s EXCEPT !.mem[l.kind] = f]
<1>5. call' = [call EXCEPT ![c] = t] /\ pc' = [pc EXCEPT ![c] = pc[c]]
      /\ bad' = bad
  BY <1>3 DEF LateLand, IInv, Typed
<1>6. b \in Seq(Int)
  BY <1>1, <1>2 DEF Calls
<1>7. f \in Seq(Int) /\ Len(f) = Len(b)
  <2>1. l.off \in Nat
    BY <1>1
  <2> HIDE DEF b
  <2> QED
    BY <1>4, <1>6, <2>1, FillFits
<1>w. Truthful(bad', strays'[c], t, pc[c])
  <2>1. pc[c] # "idle"
    BY DEF LateLand
  <2>2. strays'[c] = strays[c] \cup Misplaced(l, o.n)
    BY <1>1, <1>3 DEF IInv, Typed
  <2> QED BY <1>4, <1>5, <2>1, <2>2, LateWrite
<1>v. \A u \in Callers \ {c} : strays[u] \subseteq strays'[u]
  BY <1>1, <1>3 DEF IInv, Typed
<1> HIDE DEF f
<1>8. t \in Calls
  BY <1>1, <1>2, <1>7 DEF Calls
<1>9. /\ t.off = s.off /\ t.total = s.total /\ t.len = s.len /\ t.kind = s.kind
      /\ t.size = s.size /\ t.res = s.res /\ t.n = s.n
  BY <1>2 DEF Calls
<1>10. \A k \in Kinds : Len(t.mem[k]) = Len(s.mem[k])
  BY <1>1, <1>2, <1>7 DEF Calls
<1>11. s.kind \in Kinds
  BY <1>2 DEF Calls
<1> HIDE DEF s, t, b, c
<1>12. Placed(t, pc[c])
  BY <1>2, <1>9, <1>10, <1>11 DEF Placed, Kinds
<1>13. Entered(bad, t, pc[c])
  BY <1>2, <1>9 DEF Entered, At
<1> QED
  BY <1>1, <1>2, <1>5, <1>8, <1>12, <1>13, <1>v, <1>w, StepIsSound DEF c

LEMMA AnswersAreSound ==
  ASSUME IInv, NEW c \in Callers, DirectGood(c) \/ Cancelled(c) \/ Done(c)
  PROVE  /\ pc' \in [Callers -> Points] /\ call' \in [Callers -> Calls]
         /\ \A u \in Callers : Sound(u)'
<1> DEFINE s == call[c]
<1>1. s \in Calls /\ s.n \in Nat /\ s.total \in Nat /\ s.off \in Nat /\ s.len \in Nat
  BY DEF IInv, Typed, Calls
<1>2. Placed(s, pc[c]) /\ Truthful(bad, strays[c], s, pc[c])
  BY DEF IInv, Sound
<1>3. Placed(s, "loop")
  BY <1>2 DEF Placed, DirectGood, Cancelled, Done, Got
<1>4. CASE DirectGood(c)
  <2>1. /\ pc[c] = "got" /\ s.kind = "direct" /\ s.res \in Good /\ Return(c, s, s.n, s.res)
    BY <1>4 DEF DirectGood, Got, Good
  <2>2. s.total = 0 /\ s.n <= s.len
    BY <1>1, <1>2, <2>1 DEF Placed, Calls
  <2>3. ASSUME NEW i \in 1 .. s.n
        PROVE  Faithful(bad, strays[c], s.off + i - 1, s.mem.direct[i])
    <3>1. \/ s.mem[s.kind][i] = At(s) + i - 1
          \/ <<At(s) + i - 1, s.mem[s.kind][i]>> \in strays[c]
      BY <1>2, <2>1, <2>3 DEF Truthful
    <3>3. s.mem[s.kind] = s.mem.direct /\ At(s) = s.off
      BY <1>1, <2>1, <2>2 DEF At
    <3>2. \/ s.mem.direct[i] = s.off + i - 1
          \/ <<s.off + i - 1, s.mem.direct[i]>> \in strays[c]
      BY <3>1, <3>3
    <3> QED
      BY <3>2 DEF Faithful
  <2> QED
    BY <1>1, <1>3, <2>1, <2>2, <2>3, ReturnIsSound DEF Good
<1>5. CASE Cancelled(c)
  <2>1. pc[c] = "got" /\ Return(c, s, s.total, "cancelled") /\ s.total <= s.len
    BY <1>2, <1>5 DEF Cancelled, Got, Placed
  <2>2. \A i \in 1 .. s.total : Faithful(bad, strays[c], s.off + i - 1, s.mem.direct[i])
    BY <1>2, <2>1 DEF Truthful
  <2> QED
    BY <1>1, <1>3, <2>1, <2>2, ReturnIsSound
<1>6. CASE Done(c)
  <2>1. pc[c] = "loop" /\ Return(c, s, s.total, "ok") /\ s.total <= s.len
    BY <1>2, <1>6 DEF Done, Placed
  <2>2. \A i \in 1 .. s.total : Faithful(bad, strays[c], s.off + i - 1, s.mem.direct[i])
    BY <1>2, <2>1 DEF Truthful
  <2> QED
    BY <1>1, <1>3, <2>1, <2>2, ReturnIsSound
<1> QED
  BY <1>4, <1>5, <1>6

LEMMA DirectBadIsSound ==
  ASSUME IInv, NEW c \in Callers, DirectBad(c)
  PROVE  /\ pc' \in [Callers -> Points] /\ call' \in [Callers -> Calls]
         /\ \A u \in Callers : Sound(u)'
<1>1. call[c] \in Calls /\ Placed(call[c], "got")
      /\ Truthful(bad, strays[c], call[c], "got")
  BY DEF IInv, Typed, Sound, DirectBad, Got
<1>2. pc' = [pc EXCEPT ![c] = "loop"] /\ call' = [call EXCEPT ![c] = call[c]]
      /\ UNCHANGED <<bad, strays>>
  BY DEF DirectBad, IInv, Typed
<1>3. Placed(call[c], "loop") /\ Truthful(bad, strays[c], call[c], "loop")
  BY <1>1 DEF Placed, Truthful
<1> QED
  BY <1>1, <1>2, <1>3, StepIsSound DEF Points, Entered

LEMMA ReadsAreSound ==
  ASSUME IInv, NEW c \in Callers, Probe(c) \/ ReadSector(c) \/ SectorRetry(c)
  PROVE  /\ pc' \in [Callers -> Points] /\ call' \in [Callers -> Calls]
         /\ \A u \in Callers : Sound(u)'
<1> DEFINE s == call[c]
<1>1. /\ s \in Calls /\ s.total \in Nat /\ s.chunk \in Nat /\ s.len \in Nat
      /\ s.size \in Nat /\ s.tries \in Nat
  BY DEF IInv, Typed, Calls
<1>2. Placed(s, pc[c]) /\ Truthful(bad, strays[c], s, pc[c])
  BY DEF IInv, Sound
<1>3. Placed(s, "loop") /\ Truthful(bad, strays[c], s, "loop")
  BY <1>2 DEF Placed, Truthful, Probe, ReadSector, SectorRetry, Got
<1>4. /\ Len(s.mem["probe"]) = MaxChunk /\ Len(s.mem["sector"]) = SectorSize
  BY <1>3 DEF Placed
<1>5. CASE Probe(c)
  <2> DEFINE size == Least(Least(s.chunk, MaxChunk), s.len - s.total)
  <2>1. Issue(c, s, "probe", size) /\ UNCHANGED <<bad, strays>> /\ s.len - s.total > 0
    BY <1>5 DEF Probe, Rest
  <2>2. size \in Nat /\ size <= MaxChunk /\ s.total + size <= s.len
    BY <1>1, <2>1 DEF Least
  <2> HIDE DEF size
  <2> QED
    BY <1>1, <1>3, <1>4, <2>1, <2>2, IssueIsSound DEF Kinds
<1> DEFINE size == Least(SectorSize, s.len - s.total)
           t == [s EXCEPT !.tries = 0]
           r == [s EXCEPT !.tries = @ + 1]
<1>6. /\ t \in Calls /\ t.mem = s.mem /\ t.len = s.len /\ t.total = s.total /\ t.off = s.off
  BY <1>1, WithTries
<1>r. /\ r \in Calls /\ r.mem = s.mem /\ r.len = s.len /\ r.total = s.total /\ r.off = s.off
  <2>1. s.tries + 1 \in Nat /\ r = [s EXCEPT !.tries = s.tries + 1]
    BY <1>1
  <2> QED
    BY <1>1, <2>1, WithTries
<1>7. CASE ReadSector(c)
  <2>1. Issue(c, t, "sector", size) /\ UNCHANGED <<bad, strays>> /\ s.len - s.total > 0
    BY <1>7 DEF ReadSector, Rest
  <2>2. size \in Nat /\ size <= SectorSize /\ s.total + size <= s.len
    BY <1>1, <2>1 DEF Least
  <2> HIDE DEF size, t, s
  <2>3. Placed(t, "loop") /\ Truthful(bad, strays[c], t, "loop")
    BY <1>3, <1>6 DEF Placed, Truthful
  <2> QED
    BY <1>4, <1>6, <2>1, <2>2, <2>3, IssueIsSound DEF Kinds
<1>8. CASE SectorRetry(c)
  <2>1. /\ Issue(c, r, "sector", s.size) /\ UNCHANGED <<bad, strays>>
        /\ pc[c] = "got" /\ s.kind = "sector"
    BY <1>8 DEF SectorRetry, Got
  <2>2. s.size <= Len(s.mem["sector"]) /\ s.total + s.size <= s.len
    BY <1>2, <2>1 DEF Placed
  <2> HIDE DEF r, s
  <2>3. Placed(r, "loop") /\ Truthful(bad, strays[c], r, "loop")
    BY <1>3, <1>r DEF Placed, Truthful
  <2> QED
    BY <1>1, <1>r, <2>1, <2>2, <2>3, IssueIsSound DEF Kinds
<1> QED
  BY <1>5, <1>7, <1>8

LEMMA SkipPoisonedIsSound ==
  ASSUME IInv, NEW c \in Callers, SkipPoisoned(c)
  PROVE  /\ pc' \in [Callers -> Points] /\ call' \in [Callers -> Calls]
         /\ \A u \in Callers : Sound(u)'
<1> DEFINE z == call[c]
           w == Least(SectorSize, z.len - z.total)
           s == [z EXCEPT !.size = w]
           t == [Failed(s) EXCEPT !.mem.direct = Blank(s), !.total = @ + s.size]
<1>1. /\ z \in Calls /\ z.total \in Nat /\ z.len \in Nat /\ z.fails \in Nat /\ z.off \in Nat
      /\ pc[c] = "loop" /\ Placed(z, "loop") /\ z.len - z.total > 0 /\ At(z) \in poisoned
      /\ Truthful(bad, strays[c], z, "loop")
  BY DEF IInv, Typed, Calls, Sound, SkipPoisoned, Rest
<1>2. call' = [call EXCEPT ![c] = t] /\ pc' = [pc EXCEPT ![c] = "loop"]
      /\ UNCHANGED <<bad, strays>>
  BY DEF SkipPoisoned, IInv, Typed, Rest
<1>3. w \in Nat /\ w <= SectorSize /\ z.total + w <= z.len
  BY <1>1 DEF Least
<1> HIDE DEF w
<1>4. /\ s \in Calls /\ s.size = w /\ s.total = z.total /\ s.len = z.len /\ s.off = z.off
      /\ s.mem = z.mem /\ s.fails = z.fails
  BY <1>1, <1>3 DEF Calls
<1>5. At(s) = At(z) /\ At(s) \in Nat
  BY <1>1, <1>4 DEF At
<1>6. Len(s.mem.direct) = s.len /\ s.total + s.size <= s.len
  BY <1>1, <1>3, <1>4 DEF Placed
<1>7. ASSUME NEW d \in At(s) .. At(s) + s.size - 1 PROVE Names(bad, Sector(d))
  <2>1. At(s) % SectorSize = 0 /\ Reported(At(s))
    BY <1>1, <1>5 DEF IInv, WholeSectors, PoisonedIsReported
  <2>2. d \in At(s) .. At(s) + SectorSize - 1
    BY <1>3, <1>4, <1>5
  <2>3. Sector(d) = At(s)
    BY <1>5, <2>1, <2>2, UnitsOfSector
  <2> QED
    BY <2>1, <2>3 DEF Reported, Names
<1> HIDE DEF s
<1>8. Blank(s) \in Seq(Int) /\ Len(Blank(s)) = s.len
  BY <1>4, <1>6, BlankFits
<1>9. t \in Calls
  <2> DEFINE m == [s.mem EXCEPT !.direct = Blank(s)]
  <2>1. m \in [Kinds -> Seq(Int)]
    BY <1>4, <1>8, WithBuffer
  <2>2. t = [Failed(s) EXCEPT !.mem = m, !.total = s.total + s.size]
    BY <1>4 DEF t, Failed, Calls
  <2>3. s.total + s.size \in Nat /\ s.fails + 1 \in Nat
        /\ (s.fails + 1 >= Threshold) \in BOOLEAN
    BY <1>1, <1>3, <1>4
  <2> HIDE DEF m, t
  <2> QED
    BY <1>4, <2>1, <2>2, <2>3 DEF Failed, Calls
<1>10. /\ t.mem.direct = Blank(s) /\ t.mem.probe = s.mem.probe /\ t.mem.sector = s.mem.sector
       /\ t.total = s.total + s.size /\ t.len = s.len /\ t.off = s.off
  BY <1>4 DEF Failed, Calls, Kinds
<1> HIDE DEF t
<1>11. Placed(t, "loop")
  BY <1>1, <1>4, <1>6, <1>8, <1>10 DEF Placed
<1>12. Truthful(bad, strays[c], t, "loop")
  <2>1. \A i \in 1 .. s.total : Faithful(bad, strays[c], s.off + i - 1, s.mem.direct[i])
    BY <1>1, <1>4, <1>12 DEF Truthful
  <2>2. \A i \in 1 .. s.total + s.size : Faithful(bad, strays[c], s.off + i - 1, Blank(s)[i])
    BY <1>4, <1>6, <1>7, <2>1, BlankedIsFaithful
  <2> QED
    BY <1>10, <2>2 DEF Truthful
<1> QED
  BY <1>2, <1>9, <1>11, <1>12, StepIsSound DEF Points, Entered

LEMMA SectorGoodIsSound ==
  ASSUME IInv, NEW c \in Callers, SectorGood(c)
  PROVE  /\ pc' \in [Callers -> Points] /\ call' \in [Callers -> Calls]
         /\ \A u \in Callers : Sound(u)'
<1> DEFINE s == call[c]
           t == [s EXCEPT !.mem.direct = CopyIn(s), !.fails = 0, !.total = @ + s.size]
<1>1. /\ s \in Calls /\ s.total \in Nat /\ s.size \in Nat /\ s.n \in Nat
      /\ Placed(s, "got") /\ s.res \in Good
      /\ Truthful(bad, strays[c], s, "got")
  BY DEF IInv, Typed, Calls, Sound, SectorGood, Got, Good
<1>2. call' = [call EXCEPT ![c] = t] /\ pc' = [pc EXCEPT ![c] = "loop"]
      /\ UNCHANGED <<bad, strays>>
  BY DEF SectorGood, IInv, Typed
<1>3. /\ s.total + s.size <= s.len
      /\ \A i \in 1 .. s.total + s.size :
           Faithful(bad, strays[c], s.off + i - 1, CopyIn(s)[i])
  BY <1>1, CopiedIsFaithful
<1>4. s.n <= Len(s.mem[s.kind])
  <2>1. Len(s.mem[s.kind]) \in Nat /\ s.n <= s.size /\ s.size <= Len(s.mem[s.kind])
    BY <1>1 DEF Calls, Placed
  <2>2. s.n \in Nat /\ s.size \in Nat
    BY <1>1
  <2> HIDE DEF s
  <2> QED
    BY <2>1, <2>2
<1>5. CopyIn(s) \in Seq(Int) /\ Len(CopyIn(s)) = s.len
  BY <1>1, <1>4, CopyInFits DEF Placed
<1> HIDE DEF s
<1>6. t \in Calls
  <2> DEFINE m == [s.mem EXCEPT !.direct = CopyIn(s)]
  <2>1. m \in [Kinds -> Seq(Int)]
    BY <1>1, <1>5, WithBuffer
  <2>2. t = [s EXCEPT !.mem = m, !.fails = 0, !.total = s.total + s.size]
    BY DEF t
  <2>3. s.total + s.size \in Nat /\ s \in Calls
    BY <1>1
  <2> HIDE DEF m, t
  <2> QED
    BY <2>1, <2>2, <2>3 DEF Calls
<1>7. /\ t.mem.direct = CopyIn(s) /\ t.mem.probe = s.mem.probe /\ t.mem.sector = s.mem.sector
      /\ t.total = s.total + s.size /\ t.len = s.len /\ t.off = s.off
  BY <1>1 DEF Calls, Kinds
<1> HIDE DEF t
<1>8. Placed(t, "loop") /\ Truthful(bad, strays[c], t, "loop")
  BY <1>1, <1>3, <1>5, <1>7 DEF Placed, Truthful
<1> QED
  BY <1>2, <1>6, <1>8, StepIsSound DEF Points, Entered, s

LEMMA ProbeGoodIsSound ==
  ASSUME IInv, NEW c \in Callers, ProbeGood(c)
  PROVE  /\ pc' \in [Callers -> Points] /\ call' \in [Callers -> Calls]
         /\ \A u \in Callers : Sound(u)'
<1> DEFINE s == call[c]
           t == [s EXCEPT !.mem.direct = CopyIn(s), !.total = @ + s.n,
                          !.fails = 0, !.skip = FALSE, !.chunk = SectorSize]
<1>1. /\ s \in Calls /\ s.total \in Nat /\ s.size \in Nat /\ s.n \in Nat
      /\ Placed(s, "got") /\ s.res \in Good
      /\ Truthful(bad, strays[c], s, "got")
  BY DEF IInv, Typed, Calls, Sound, ProbeGood, Got, Good
<1>2. /\ s.total + s.n <= s.len
      /\ \A i \in 1 .. s.total + s.n :
           Faithful(bad, strays[c], s.off + i - 1, CopyIn(s)[i])
  BY <1>1, CopiedIsFaithful
<1>3. s.n <= Len(s.mem[s.kind])
  <2>1. Len(s.mem[s.kind]) \in Nat /\ s.n <= s.size /\ s.size <= Len(s.mem[s.kind])
    BY <1>1 DEF Calls, Placed
  <2>2. s.n \in Nat /\ s.size \in Nat
    BY <1>1
  <2> HIDE DEF s
  <2> QED
    BY <2>1, <2>2
<1>4. CopyIn(s) \in Seq(Int) /\ Len(CopyIn(s)) = s.len
  BY <1>1, <1>3, CopyInFits DEF Placed
<1>5. IF s.res = "eof" THEN Return(c, t, t.total, "ok")
      ELSE call' = [call EXCEPT ![c] = t] /\ pc' = [pc EXCEPT ![c] = "loop"]
           /\ UNCHANGED <<bad, strays>>
  BY DEF ProbeGood
<1> HIDE DEF s
<1>6. t \in Calls
  <2> DEFINE m == [s.mem EXCEPT !.direct = CopyIn(s)]
  <2>1. m \in [Kinds -> Seq(Int)]
    BY <1>1, <1>4, WithBuffer
  <2>2. t = [s EXCEPT !.mem = m, !.total = s.total + s.n,
                     !.fails = 0, !.skip = FALSE, !.chunk = SectorSize]
    BY DEF t
  <2>3. s.total + s.n \in Nat /\ s \in Calls
    BY <1>1
  <2> HIDE DEF m, t
  <2> QED
    BY <2>1, <2>2, <2>3 DEF Calls
<1>7. /\ t.mem.direct = CopyIn(s) /\ t.mem.probe = s.mem.probe /\ t.mem.sector = s.mem.sector
      /\ t.total = s.total + s.n /\ t.len = s.len /\ t.off = s.off
  BY <1>1 DEF Calls, Kinds
<1> HIDE DEF t
<1>8. Placed(t, "loop") /\ Truthful(bad, strays[c], t, "loop")
  BY <1>1, <1>2, <1>4, <1>7 DEF Placed, Truthful
<1>9. CASE s.res = "eof"
  <2>1. /\ t.total \in Nat /\ t.total <= t.len
        /\ \A i \in 1 .. t.total : Faithful(bad, strays[c], t.off + i - 1, t.mem.direct[i])
    BY <1>1, <1>2, <1>7
  <2> QED
    BY <1>5, <1>6, <1>8, <1>9, <2>1, ReturnIsSound
<1>10. CASE s.res # "eof"
  BY <1>5, <1>6, <1>8, <1>10, StepIsSound DEF Points, Entered
<1> QED
  BY <1>9, <1>10

LEMMA RecordBadIsSound ==
  ASSUME IInv, NEW c \in Callers, RecordBad(c)
  PROVE  /\ pc' \in [Callers -> Points] /\ call' \in [Callers -> Calls]
         /\ \A u \in Callers : Sound(u)'
<1> DEFINE s == call[c]
           t == [s EXCEPT !.mem.direct = Blank(s)]
           b == [off |-> At(s), size |-> s.size]
<1>1. /\ s \in Calls /\ s.total \in Nat /\ s.size \in Nat /\ s.off \in Nat /\ s.len \in Nat
      /\ Placed(s, "got") /\ pc[c] = "got"
      /\ Truthful(bad, strays[c], s, "got")
  BY DEF IInv, Typed, Calls, Sound, RecordBad, GivenUp, Got
<1>2. /\ call' = [call EXCEPT ![c] = t] /\ pc' = [pc EXCEPT ![c] = "mark"]
      /\ bad' = bad \cup {b} /\ strays' = strays
  BY DEF RecordBad, IInv, Typed
<1>3. /\ Blank(s) \in Seq(Int) /\ Len(Blank(s)) = s.len /\ s.total + s.size <= s.len
      /\ \A i \in 1 .. s.len :
           Blank(s)[i] = IF s.total < i /\ i <= s.total + s.size THEN Zero ELSE s.mem.direct[i]
  <2>1. Len(s.mem.direct) = s.len /\ s.total + s.size <= s.len
    BY <1>1 DEF Placed
  <2> QED
    BY <1>1, <2>1, BlankFits
<1>4. s.kind \in Kinds
  BY <1>1 DEF Calls
<1>5. s.kind = "probe" \/ s.kind = "sector"
  BY DEF RecordBad, GivenUp, Got
<1> HIDE DEF s
<1>6. t \in Calls /\ t.mem.direct = Blank(s) /\ t.mem.probe = s.mem.probe /\ t.mem.sector = s.mem.sector
      /\ t.total = s.total /\ t.len = s.len /\ t.off = s.off /\ t.size = s.size /\ t.kind = s.kind
  <2> DEFINE m == [s.mem EXCEPT !.direct = Blank(s)]
  <2>1. m \in [Kinds -> Seq(Int)] /\ m.direct = Blank(s) /\ m.probe = s.mem.probe
        /\ m.sector = s.mem.sector
    <3>1. s \in Calls /\ Blank(s) \in Seq(Int)
      BY <1>1, <1>3
    <3> QED
      BY <3>1, WithBuffer
  <2>2. t = [s EXCEPT !.mem = m]
    OBVIOUS
  <2> HIDE DEF m, t
  <2>3. t \in Calls
    BY <1>1, <2>1, <2>2 DEF Calls
  <2>4. t.mem = m /\ t.total = s.total /\ t.len = s.len /\ t.off = s.off /\ t.size = s.size
        /\ t.kind = s.kind
    BY <1>1, <2>2 DEF Calls
  <2> QED
    BY <2>1, <2>3, <2>4
<1> HIDE DEF t
<1>7. Placed(t, "mark")
  BY <1>1, <1>3, <1>5, <1>6 DEF Placed
<1>8. Entered(bad', t, "mark")
  BY <1>2, <1>6 DEF Entered, At
<1>9. Truthful(bad', strays'[c], t, "mark")
  <2>1. Truthful(bad', strays'[c], s, "got")
    BY <1>1, <1>2, <1>9, TruthfulStays
  <2>2. ASSUME NEW i \in 1 .. s.total PROVE Faithful(bad', strays'[c], s.off + i - 1, Blank(s)[i])
    <3>1. i \in 1 .. s.len /\ ~ (s.total < i)
      <4>1. s.total \in Nat /\ s.len \in Nat /\ s.total <= s.len
        BY <1>1 DEF Calls, Placed
      <4> QED
        BY <4>1
    <3>2. Blank(s)[i] = s.mem.direct[i]
      BY <1>3, <3>1
    <3> QED
      BY <2>1, <3>2 DEF Truthful
  <2>3. ASSUME NEW i \in s.total + 1 .. s.total + s.size PROVE Blank(s)[i] = Zero
    <3>1. i \in 1 .. s.len /\ s.total < i /\ i <= s.total + s.size
      <4>1. s.total \in Nat /\ s.len \in Nat /\ s.size \in Nat /\ s.total + s.size <= s.len
        BY <1>1, <1>3 DEF Calls
      <4> QED
        BY <4>1
    <3> QED
      BY <1>3, <3>1
  <2> QED
    BY <1>6, <2>2, <2>3 DEF Truthful
<1> QED
  BY <1>2, <1>6, <1>7, <1>8, <1>9, StepIsSound DEF Points

LEMMA MarkPoisonedIsSound ==
  ASSUME IInv, NEW c \in Callers, MarkPoisoned(c)
  PROVE  /\ pc' \in [Callers -> Points] /\ call' \in [Callers -> Calls]
         /\ \A u \in Callers : Sound(u)'
         /\ poisoned' \subseteq Nat /\ WholeSectors' /\ PoisonedIsReported'
<1> DEFINE s == call[c]
           z == IF s.kind = "probe" THEN [s EXCEPT !.chunk = Least(2 * s.chunk, MaxChunk)]
                ELSE Failed(s)
           t == [z EXCEPT !.total = @ + s.size]
           b == [off |-> At(s), size |-> s.size]
<1>1. /\ s \in Calls /\ s.total \in Nat /\ s.size \in Nat /\ s.off \in Nat /\ s.len \in Nat
      /\ s.chunk \in Nat /\ s.fails \in Nat
      /\ Placed(s, "mark") /\ Entered(bad, s, "mark")
      /\ Truthful(bad, strays[c], s, "mark")
  BY DEF IInv, Typed, Calls, Sound, MarkPoisoned
<1>2. /\ call' = [call EXCEPT ![c] = t] /\ pc' = [pc EXCEPT ![c] = "loop"]
      /\ UNCHANGED <<bad, strays>>
      /\ poisoned' = poisoned \cup SectorsOf(At(s), s.size)
  BY DEF MarkPoisoned
<1>3. b \in bad /\ b \in [off : Nat, size : Nat] /\ At(s) \in Nat
  BY <1>1 DEF Entered, At
<1> HIDE DEF s
<1>4. z \in Calls /\ z.mem = s.mem /\ z.total = s.total /\ z.len = s.len /\ z.off = s.off
  <2>1. Least(2 * s.chunk, MaxChunk) \in Nat /\ s.fails + 1 \in Nat
        /\ (s.fails + 1 >= Threshold) \in BOOLEAN
    BY <1>1 DEF Least
  <2>2. s \in Calls
    BY <1>1
  <2>3. CASE s.kind = "probe"
    BY <2>1, <2>2, <2>3 DEF Calls
  <2>4. CASE s.kind # "probe"
    BY <2>1, <2>2, <2>4 DEF Failed, Calls
  <2> QED
    BY <2>3, <2>4
<1> HIDE DEF z
<1>5. t \in Calls /\ t.mem = s.mem /\ t.total = s.total + s.size /\ t.len = s.len /\ t.off = s.off
  <2>1. z \in Calls /\ z.total = s.total /\ s.total + s.size \in Nat
    BY <1>1, <1>4
  <2> QED
    BY <1>4, <2>1 DEF Calls
<1> HIDE DEF t
<1>6. Placed(t, "loop")
  BY <1>1, <1>5 DEF Placed
<1>7. ASSUME NEW d \in At(s) .. At(s) + s.size - 1 PROVE Names(bad, Sector(d))
  BY <1>3, RegionIsNamed
<1>8. ASSUME NEW i \in 1 .. s.total + s.size
      PROVE  Faithful(bad, strays[c], s.off + i - 1, s.mem.direct[i])
  <2>1. CASE i <= s.total
    <3>1. i \in 1 .. s.total
      BY <1>1, <2>1
    <3> QED
      BY <1>1, <1>8, <3>1 DEF Truthful
  <2>2. CASE s.total < i
    <3>1. i \in s.total + 1 .. s.total + s.size
      BY <1>1, <2>2
    <3>2. \/ s.mem.direct[i] \in {Zero, s.off + i - 1}
          \/ <<s.off + i - 1, s.mem.direct[i]>> \in strays[c]
      BY <1>1, <1>8, <3>1 DEF Truthful
    <3>3. s.off + i - 1 \in At(s) .. At(s) + s.size - 1
      BY <1>1, <3>1 DEF At
    <3> QED
      BY <1>7, <3>2, <3>3 DEF Faithful
  <2> QED
    BY <1>1, <2>1, <2>2
<1>9. Truthful(bad, strays[c], t, "loop")
  BY <1>5, <1>8 DEF Truthful
<1>10. ASSUME NEW p \in poisoned' PROVE p \in Nat /\ p % SectorSize = 0 /\ Reported(p)'
  <2>1. CASE p \in poisoned
    BY <1>2, <2>1 DEF IInv, Typed, WholeSectors, PoisonedIsReported, Reported, Overlaps
  <2>2. CASE p \in SectorsOf(At(s), s.size)
    <3>1. PICK d \in At(s) .. At(s) + s.size - 1 : p = Sector(d)
      BY <2>2 DEF SectorsOf
    <3>2. d \in Nat
      BY <1>1, <1>3
    <3>3. Names(bad', p)
      BY <1>2, <1>7, <3>1
    <3> QED
      BY <3>1, <3>2, <3>3, SectorOfUnit DEF Reported, Names
  <2> QED
    BY <1>2, <2>1, <2>2
<1>11. poisoned' \subseteq Nat /\ WholeSectors' /\ PoisonedIsReported'
  BY <1>10 DEF WholeSectors, PoisonedIsReported
<1> QED
  BY <1>2, <1>5, <1>6, <1>9, <1>11, StepIsSound DEF Points, Entered

LEMMA ConsumeIsSound ==
  ASSUME IInv, NEW c \in Callers, Consume(c)
  PROVE  /\ pc' \in [Callers -> Points] /\ call' \in [Callers -> Calls]
         /\ \A u \in Callers : Sound(u)'
<1>1. NoCall \in Calls
  BY DEF NoCall, Calls, Kinds
<1>2. Placed(NoCall, "idle") /\ Entered(bad, NoCall, "idle") /\ Truthful(bad, {}, NoCall, "idle")
  BY DEF NoCall, Kinds, Placed, Entered, Truthful
<1>3. pc' = [pc EXCEPT ![c] = "idle"] /\ call' = [call EXCEPT ![c] = NoCall]
      /\ bad' = bad /\ strays' = [strays EXCEPT ![c] = {}]
  BY DEF Consume
<1>4. strays'[c] = {} /\ \A u \in Callers \ {c} : strays[u] \subseteq strays'[u]
  BY <1>3 DEF IInv, Typed
<1>5. Entered(bad', NoCall, "idle") /\ Truthful(bad', strays'[c], NoCall, "idle")
  BY <1>2, <1>3, <1>4
<1> QED
  BY <1>1, <1>2, <1>3, <1>4, <1>5, StepIsSound DEF Points

-----------------------------------------------------------------------------
LEMMA StaysSound == IInv /\ [Next]_vars => IInv'
<1> SUFFICES ASSUME IInv, [Next]_vars PROVE IInv'
  OBVIOUS
<1> DEFINE Kept == /\ pc' \in [Callers -> Points] /\ call' \in [Callers -> Calls]
                   /\ \A u \in Callers : Sound(u)'
<1>1. ASSUME Kept, UNCHANGED <<poisoned, calls>>, bad' = bad, cancelled' \in BOOLEAN,
             late' \subseteq [by : Callers, kind : Kinds, off : Nat, size : Nat],
             strays' \in [Callers -> SUBSET (Nat \X Nat)], timeouts' \in 0 .. MaxTimeouts
      PROVE  IInv'
  <2>1. WholeSectors' /\ PoisonedIsReported'
    BY <1>1 DEF IInv, WholeSectors, PoisonedIsReported, Reported, Overlaps
  <2>2. Typed'
    BY <1>1 DEF IInv, Typed
  <2> QED
    BY <1>1, <2>1, <2>2 DEF IInv
<1>2. ASSUME NEW c \in Callers, ReadAt(c) PROVE IInv'
  <2>1. Kept
    BY <1>2, ReadAtIsSound
  <2>2. /\ UNCHANGED <<poisoned, bad, cancelled, late, strays, timeouts>>
        /\ calls' \in 0 .. MaxCalls
    BY <1>2 DEF ReadAt, IInv, Typed
  <2>3. WholeSectors' /\ PoisonedIsReported' /\ Typed'
    BY <2>1, <2>2 DEF IInv, Typed, WholeSectors, PoisonedIsReported, Reported, Overlaps
  <2> QED
    BY <2>1, <2>3 DEF IInv
<1>3. ASSUME NEW c \in Callers, Step(c) PROVE IInv'
  <2>1. CASE Timeout(c)
    <3>1. Kept
      BY <2>1, TimeoutIsSound
    <3>2. /\ timeouts' \in 0 .. MaxTimeouts
          /\ UNCHANGED <<poisoned, bad, cancelled, strays, calls>>
      BY <2>1 DEF Timeout, IInv, Typed
    <3>3. late' \subseteq [by : Callers, kind : Kinds, off : Nat, size : Nat]
      <4>1. call[c].kind \in Kinds /\ At(call[c]) \in Nat /\ call[c].size \in Nat
        BY DEF IInv, Typed, Calls, At
      <4>2. late \subseteq [by : Callers, kind : Kinds, off : Nat, size : Nat]
        BY DEF IInv, Typed
      <4>3. late' = late \cup {[by |-> c, kind |-> call[c].kind, off |-> At(call[c]),
                              size |-> call[c].size]}
        BY <2>1 DEF Timeout
      <4> QED
        BY <4>1, <4>2, <4>3
    <3> QED
      BY <1>1, <3>1, <3>2, <3>3 DEF IInv, Typed
  <2>2. CASE Land(c)
    <3>1. UNCHANGED <<poisoned, bad, cancelled, late, strays, calls, timeouts>>
      BY <2>2 DEF Land
    <3> QED
      BY <1>1, <2>2, <3>1, LandIsSound DEF IInv, Typed
  <2>3. CASE DirectGood(c) \/ Cancelled(c) \/ Done(c)
    <3>1. UNCHANGED <<poisoned, bad, cancelled, late, strays, calls, timeouts>>
      BY <2>3 DEF DirectGood, Cancelled, Done, Return
    <3> QED
      BY <1>1, <2>3, <3>1, AnswersAreSound DEF IInv, Typed
  <2>4. CASE DirectBad(c)
    <3>1. UNCHANGED <<poisoned, bad, cancelled, late, strays, calls, timeouts>>
      BY <2>4 DEF DirectBad
    <3> QED
      BY <1>1, <2>4, <3>1, DirectBadIsSound DEF IInv, Typed
  <2>5. CASE Probe(c) \/ ReadSector(c) \/ SectorRetry(c)
    <3>1. UNCHANGED <<poisoned, bad, cancelled, late, strays, calls, timeouts>>
      BY <2>5 DEF Probe, ReadSector, SectorRetry
    <3> QED
      BY <1>1, <2>5, <3>1, ReadsAreSound DEF IInv, Typed
  <2>6. CASE SkipPoisoned(c)
    <3>1. UNCHANGED <<poisoned, bad, cancelled, late, strays, calls, timeouts>>
      BY <2>6 DEF SkipPoisoned
    <3> QED
      BY <1>1, <2>6, <3>1, SkipPoisonedIsSound DEF IInv, Typed
  <2>7. CASE ProbeGood(c)
    <3>1. UNCHANGED <<poisoned, bad, cancelled, late, strays, calls, timeouts>>
      BY <2>7 DEF ProbeGood, Return
    <3> QED
      BY <1>1, <2>7, <3>1, ProbeGoodIsSound DEF IInv, Typed
  <2>8. CASE SectorGood(c)
    <3>1. UNCHANGED <<poisoned, bad, cancelled, late, strays, calls, timeouts>>
      BY <2>8 DEF SectorGood
    <3> QED
      BY <1>1, <2>8, <3>1, SectorGoodIsSound DEF IInv, Typed
  <2>9. CASE RecordBad(c)
    <3>1. Kept
      BY <2>9, RecordBadIsSound
    <3>2. /\ UNCHANGED <<poisoned, cancelled, late, strays, calls, timeouts>>
          /\ bad' = bad \cup {[off |-> At(call[c]), size |-> call[c].size]}
      BY <2>9 DEF RecordBad
    <3>3. bad' \subseteq [off : Nat, size : Nat]
      BY <3>2 DEF IInv, Typed, Calls, At
    <3>4. WholeSectors' /\ PoisonedIsReported'
      BY <3>2 DEF IInv, WholeSectors, PoisonedIsReported, Reported, Overlaps
    <3>5. Typed'
      BY <3>1, <3>2, <3>3 DEF IInv, Typed
    <3> QED
      BY <3>1, <3>4, <3>5 DEF IInv
  <2>10. CASE MarkPoisoned(c)
    <3>1. Kept /\ poisoned' \subseteq Nat /\ WholeSectors' /\ PoisonedIsReported'
      BY <2>10, MarkPoisonedIsSound
    <3>2. UNCHANGED <<bad, cancelled, late, strays, calls, timeouts>>
      BY <2>10 DEF MarkPoisoned
    <3>3. Typed'
      BY <3>1, <3>2 DEF IInv, Typed
    <3> QED
      BY <3>1, <3>3 DEF IInv
  <2> QED
    BY <1>3, <2>1, <2>2, <2>3, <2>4, <2>5, <2>6, <2>7, <2>8, <2>9, <2>10 DEF Step
<1>4. ASSUME NEW c \in Callers, Consume(c) PROVE IInv'
  <2>1. /\ UNCHANGED <<poisoned, bad, cancelled, calls, timeouts>>
        /\ late' \subseteq late /\ strays' \in [Callers -> SUBSET (Nat \X Nat)]
    BY <1>4 DEF Consume, IInv, Typed
  <2> QED
    BY <1>1, <1>4, <2>1, ConsumeIsSound DEF IInv, Typed
<1>5. ASSUME NEW l \in late, LateFail(l) PROVE IInv'
  <2>1. /\ UNCHANGED <<pc, call, poisoned, bad, cancelled, strays, calls, timeouts>>
        /\ late' \subseteq late
    BY <1>5 DEF LateFail
  <2>2. Kept
    BY <2>1 DEF IInv, Typed, Sound
  <2> QED
    BY <1>1, <2>1, <2>2 DEF IInv, Typed
<1>6. ASSUME NEW l \in late, LateLand(l) PROVE IInv'
  <2>1. /\ UNCHANGED <<poisoned, bad, cancelled, calls, timeouts>>
        /\ late' \subseteq late /\ l.by \in Callers
    BY <1>6 DEF LateLand, IInv, Typed
  <2>2. strays' \in [Callers -> SUBSET (Nat \X Nat)]
    <3>1. PICK n \in Nat : strays' = [strays EXCEPT ![l.by] = @ \cup Misplaced(l, n)]
      <4>1. l.off \in Nat /\ l.size \in Nat
        BY DEF IInv, Typed
      <4> QED BY <1>6, <4>1, OutcomesFit DEF LateLand
    <3>2. Misplaced(l, n) \subseteq Nat \X Nat
      <4>1. l.off \in Nat /\ call[l.by].off \in Nat /\ At(call[l.by]) \in Nat
        BY <2>1 DEF IInv, Typed, Calls, At
      <4> QED BY <4>1 DEF Misplaced
    <3> QED BY <3>1, <3>2 DEF IInv, Typed
  <2> QED
    BY <1>1, <1>6, <2>1, <2>2, LateLandIsSound DEF IInv, Typed
<1>7. CASE Cancel \/ UNCHANGED vars
  <2>1. UNCHANGED <<pc, call, poisoned, bad, late, strays, calls, timeouts>>
    BY <1>7 DEF Cancel, vars
  <2>2. cancelled' \in BOOLEAN
    BY <1>7 DEF Cancel, vars, IInv, Typed
  <2>3. Kept
    BY <2>1 DEF IInv, Typed, Sound
  <2> QED
    BY <1>1, <2>1, <2>2, <2>3 DEF IInv, Typed
<1> QED
  BY <1>2, <1>3, <1>4, <1>5, <1>6, <1>7 DEF Next

(* Every reachable state is well typed; in particular no step of a call     *)
(* reaches beyond the buffer its caller gave.                               *)
THEOREM TypeCorrect == Spec => []TypeOK
<1>1. IInv => TypeOK
  <2> SUFFICES ASSUME IInv PROVE TypeOK
    OBVIOUS
  <2>1. \A c \in Callers : InBuffer(call[c], pc[c])
    BY DEF IInv, Sound, Placed, InBuffer
  <2> QED
    BY <2>1 DEF IInv, Typed, TypeOK, Points
<1> QED
  BY <1>1, InitSound, StaysSound, PTL DEF Spec

(* A sector the shared cache withholds is named, in part at least, by the   *)
(* list of bad sectors, also while another caller is between the two.       *)
THEOREM PoisonIsReported == Spec => []PoisonedIsReported
<1>1. IInv => PoisonedIsReported
  BY DEF IInv
<1> QED
  BY <1>1, InitSound, StaysSound, PTL DEF Spec

(* ReadAt hands back the device's own data, or zeros in sectors it reports, *)
(* for any device, damage, requests, threshold, retries and probe size, but *)
(* in the very units where a read that timed out put other data later, in   *)
(* its own call or in another one that was given the same buffer.           *)
THEOREM ReadsAreTrue == Spec => []ReturnedIsTrue
<1>1. IInv => ReturnedIsTrue
  <2> SUFFICES ASSUME IInv, NEW c \in Callers, pc[c] = "back",
                      NEW i \in 1 .. call[c].n, call[c].off + i - 1 < Size
               PROVE  \/ True(call[c].off + i - 1, call[c].mem.direct[i])
                      \/ <<call[c].off + i - 1, call[c].mem.direct[i]>> \in strays[c]
    BY DEF ReturnedIsTrue, Handed
  <2>1. Truthful(bad, strays[c], call[c], "back") /\ call[c] \in Calls
    BY DEF IInv, Typed, Sound
  <2>3. Faithful(bad, strays[c], call[c].off + i - 1, call[c].mem.direct[i])
    BY <2>1 DEF Truthful
  <2> QED
    BY <2>3 DEF Faithful, Names, Reported, True
<1> QED
  BY <1>1, InitSound, StaysSound, PTL DEF Spec

-----------------------------------------------------------------------------
(* What bounds a call: its attempts, a probe and a read of at least one     *)
(* unit, a read that succeeds with at least one; and a read that ended has  *)
(* a result.                                                                *)
Ready(s, p) ==
  /\ s.tries < MaxRetry
  /\ p # "idle" => s.chunk >= 1
  /\ p \in {"read", "got", "mark"} => s.size >= 1
  /\ p = "mark" => s.kind # "direct"
  /\ p = "got" => s.res # "none" /\ (s.res = "ok" => s.n >= 1)
Bounded == \A c \in Callers : Ready(call[c], pc[c])

(* How far a call is from its answer: the direct read comes first, then the *)
(* part of the request that is left, then the attempts at the next piece.   *)
First(s, p) == IF p \in {"read", "got"} /\ s.kind = "direct" THEN 1 ELSE 0
Stage(s, p) ==
  CASE p = "loop" -> 2 * MaxRetry + 3
    [] p = "read" -> 2 * (MaxRetry - s.tries) + 2
    [] p = "got" -> 2 * (MaxRetry - s.tries) + 1
    [] p = "mark" -> 1
    [] OTHER -> 0
Less(s, p, t, q) ==
  \/ First(t, q) < First(s, p)
  \/ First(t, q) = First(s, p) /\ Rest(t) < Rest(s)
  \/ First(t, q) = First(s, p) /\ Rest(t) = Rest(s) /\ Stage(t, q) < Stage(s, p)
Lower(c) == Less(call[c], pc[c], call'[c], pc'[c])
Kept(c) ==
  /\ First(call'[c], pc'[c]) = First(call[c], pc[c]) /\ Rest(call'[c]) = Rest(call[c])
  /\ Stage(call'[c], pc'[c]) = Stage(call[c], pc[c])
Lowers(c) == Bounded' /\ Lower(c) /\ \A u \in Callers \ {c} : Kept(u)

LEMMA OneLowers ==
  ASSUME IInv, Bounded, NEW c \in Callers, NEW t, NEW q, pc' = [pc EXCEPT ![c] = q],
         call' = [call EXCEPT ![c] = t], Ready(t, q), Less(call[c], pc[c], t, q)
  PROVE  Lowers(c)
<1>1. pc'[c] = q /\ call'[c] = t
  BY DEF IInv, Typed
<1>2. \A u \in Callers \ {c} : pc'[u] = pc[u] /\ call'[u] = call[u]
  BY DEF IInv, Typed
<1>3. Lower(c)
  BY <1>1 DEF Lower
<1>4. \A u \in Callers \ {c} : Kept(u) /\ Ready(call'[u], pc'[u])
  BY <1>2 DEF Kept, Bounded
<1>5. Bounded'
  BY <1>1, <1>4 DEF Bounded
<1> QED
  BY <1>3, <1>4, <1>5 DEF Lowers

(* A read that succeeds without meeting the end has read something.         *)
LEMMA OutcomesCount ==
  ASSUME cancelled \in BOOLEAN, NEW s \in Calls, s.size >= 1, NEW o \in Outcomes(s)
  PROVE  o.res # "none" /\ (o.res = "ok" => o.n >= 1)
<1>1. At(s) \in Nat /\ s.size \in Nat /\ s.closed \in BOOLEAN
  BY DEF At, Calls
<1>2. o \in OpenOutcomes(At(s), s.size) \/ o = CancelOutcome \/ o = [res |-> "bad", n |-> 0]
  BY DEF Outcomes, Calls
<1>3. CASE o \in OpenOutcomes(At(s), s.size)
  <2> DEFINE off == At(s)
             size == s.size
  <2>1. off \in Nat /\ size \in Nat /\ size >= 1 /\ o \in OpenOutcomes(off, size)
    BY <1>1, <1>3
  <2> HIDE DEF off, size
  <2>2. CASE off >= Size
    BY <2>1, <2>2 DEF OpenOutcomes
  <2>3. CASE off < Size /\ Unreadable(off, size)
    BY <2>1, <2>3 DEF OpenOutcomes
  <2>4. CASE off < Size /\ ~Unreadable(off, size)
    <3>1. Least(size, Size - off) >= 1
      BY <2>1, <2>4 DEF Least
    <3> QED BY <2>1, <2>4, <3>1 DEF OpenOutcomes
  <2> QED BY <2>1, <2>2, <2>3, <2>4
<1>4. CASE o = CancelOutcome \/ o = [res |-> "bad", n |-> 0]
  BY <1>4 DEF CancelOutcome
<1> QED BY <1>2, <1>3, <1>4

(* There is always an outcome.                                              *)
LEMMA OutcomesExist ==
  ASSUME cancelled \in BOOLEAN, NEW s \in Calls
  PROVE  Outcomes(s) # {}
<1>1. At(s) \in Nat /\ s.size \in Nat /\ s.closed \in BOOLEAN
  BY DEF At, Calls
<1>2. OpenOutcomes(At(s), s.size) # {}
  <2> DEFINE off == At(s)
             size == s.size
  <2>1. off \in Nat /\ size \in Nat
    BY <1>1
  <2> SUFFICES OpenOutcomes(off, size) # {}
    OBVIOUS
  <2> HIDE DEF off, size
  <2>2. CASE off >= Size
    <3>1. [res |-> "eof", n |-> 0] \in OpenOutcomes(off, size)
      BY <2>1, <2>2 DEF OpenOutcomes
    <3> QED BY <3>1
  <2>3. CASE off < Size /\ Unreadable(off, size)
    <3>1. [res |-> "bad", n |-> 0] \in OpenOutcomes(off, size)
      BY <2>1, <2>3 DEF OpenOutcomes
    <3> QED BY <3>1
  <2>4. CASE off < Size /\ ~Unreadable(off, size)
    <3>1. [res |-> "ok", n |-> Least(size, Size - off)] \in OpenOutcomes(off, size)
      BY <2>1, <2>4 DEF OpenOutcomes
    <3> QED BY <3>1
  <2> QED BY <2>1, <2>2, <2>3, <2>4
<1>3. CASE ~cancelled
  BY <1>2, <1>3 DEF Outcomes
<1>4. CASE cancelled
  BY <1>1, <1>2, <1>4 DEF Outcomes
<1> QED BY <1>3, <1>4

(* The numbers of a call under way.                                         *)
LEMMA Numbers ==
  ASSUME IInv, Bounded, NEW c \in Callers
  PROVE  LET s == call[c] IN
         /\ s \in Calls /\ s.kind \in Kinds /\ Ready(s, pc[c])
         /\ s.total \in Nat /\ s.len \in Nat /\ s.tries \in Nat /\ s.size \in Nat
         /\ s.chunk \in Nat /\ s.n \in Nat /\ s.off \in Nat /\ s.total <= s.len
         /\ pc[c] \in {"read", "got", "mark"} => s.total + s.size <= s.len
<1>1. call[c] \in Calls
  BY DEF IInv, Typed
<1>2. Placed(call[c], pc[c]) /\ Ready(call[c], pc[c])
  BY DEF IInv, Sound, Bounded
<1> DEFINE s == call[c]
<1>3. /\ s.kind \in Kinds /\ s.total \in Nat /\ s.len \in Nat /\ s.tries \in Nat
      /\ s.size \in Nat /\ s.chunk \in Nat /\ s.n \in Nat /\ s.off \in Nat
  <2>1. s \in Calls
    BY <1>1
  <2> HIDE DEF s
  <2> QED BY <2>1 DEF Calls
<1>4. s.total <= s.len /\ (pc[c] \in {"read", "got", "mark"} => s.total + s.size <= s.len)
  BY <1>2 DEF Placed
<1> QED
  BY <1>1, <1>2, <1>3, <1>4

-----------------------------------------------------------------------------
LEMMA LandLowers ==
  ASSUME IInv, Bounded, NEW c \in Callers, Land(c) \/ Timeout(c)
  PROVE  Lowers(c)
<1> DEFINE s == call[c]
<1>1. /\ s \in Calls /\ s.kind \in Kinds /\ s.tries \in Nat /\ s.tries < MaxRetry
      /\ s.chunk >= 1 /\ s.size >= 1 /\ pc[c] = "read"
  BY Numbers DEF Land, Timeout, Ready
<1>2. ASSUME NEW t, call' = [call EXCEPT ![c] = t], pc' = [pc EXCEPT ![c] = "got"],
             t.kind = s.kind, t.tries = s.tries, t.chunk = s.chunk, t.size = s.size,
             t.total = s.total, t.len = s.len, t.res # "none", t.res = "ok" => t.n >= 1
      PROVE  Lowers(c)
  <2>1. Ready(t, "got")
    BY <1>1, <1>2 DEF Ready
  <2>2. First(t, "got") = First(s, "read") /\ Rest(t) = Rest(s)
    BY <1>2 DEF First, Rest
  <2>3. Stage(t, "got") < Stage(s, "read")
    BY <1>1, <1>2 DEF Stage
  <2> QED
    BY <1>1, <1>2, <2>1, <2>2, <2>3, OneLowers DEF Less
<1>3. CASE Land(c)
  <2>1. PICK o \in Outcomes(s) :
          call' = [call EXCEPT ![c].mem[call[c].kind] = Fill(@, o.n, At(call[c])),
                               ![c].res = o.res, ![c].n = o.n]
    BY <1>3 DEF Land
  <2>2. o.res # "none" /\ (o.res = "ok" => o.n >= 1)
    <3>1. cancelled \in BOOLEAN
      BY DEF IInv, Typed
    <3> HIDE DEF s
    <3> QED BY <1>1, <3>1, OutcomesCount
  <2> DEFINE f == Fill(s.mem[s.kind], o.n, At(s))
             t == [s EXCEPT !.mem[s.kind] = f, !.res = o.res, !.n = o.n]
  <2>3. call' = [call EXCEPT ![c] = t] /\ pc' = [pc EXCEPT ![c] = "got"]
    <3>1. call' = [call EXCEPT ![c] = t]
      BY <2>1
    <3>2. pc' = [pc EXCEPT ![c] = "got"]
      BY <1>3 DEF Land
    <3> QED BY <3>1, <3>2
  <2>4. /\ t.kind = s.kind /\ t.tries = s.tries /\ t.chunk = s.chunk /\ t.size = s.size
        /\ t.total = s.total /\ t.len = s.len /\ t.res = o.res /\ t.n = o.n
    BY <1>1 DEF Calls
  <2> HIDE DEF t, s
  <2> QED BY <1>2, <2>2, <2>3, <2>4
<1>4. CASE Timeout(c)
  <2> DEFINE t == [s EXCEPT !.res = "bad", !.n = 0]
  <2>1. call' = [call EXCEPT ![c] = t] /\ pc' = [pc EXCEPT ![c] = "got"]
    BY <1>4 DEF Timeout
  <2>2. /\ t.kind = s.kind /\ t.tries = s.tries /\ t.chunk = s.chunk /\ t.size = s.size
        /\ t.total = s.total /\ t.len = s.len /\ t.res = "bad"
    BY <1>1 DEF Calls
  <2>3. t.res # "none" /\ (t.res = "ok" => t.n >= 1)
    BY <2>2
  <2> HIDE DEF t, s
  <2> QED BY <1>2, <2>1, <2>2, <2>3
<1> HIDE DEF s
<1> QED BY Zenon, <1>3, <1>4

(* A call that answers.                                                     *)
LEMMA ReturnLowers ==
  ASSUME IInv, Bounded, NEW c \in Callers, NEW t,
         call' = [call EXCEPT ![c] = t], pc' = [pc EXCEPT ![c] = "back"],
         t.tries = call[c].tries, t.chunk >= 1, t.len = call[c].len, t.total \in Nat,
         call[c].total <= t.total, pc[c] \in {"got", "loop"}
  PROVE  Lowers(c)
<1> DEFINE z == call[c]
<1>1. z.total \in Nat /\ z.len \in Nat /\ z.tries \in Nat /\ z.tries < MaxRetry
  BY Numbers DEF Ready
<1>2. t.tries = z.tries /\ t.len = z.len /\ z.total <= t.total
  OBVIOUS
<1> HIDE DEF z
<1>3. Ready(t, "back")
  BY <1>1, <1>2 DEF Ready
<1>4. First(t, "back") = 0 /\ First(z, pc[c]) \in {0, 1}
  BY DEF First
<1>5. Stage(t, "back") = 0
  BY DEF Stage
<1>6. Stage(z, pc[c]) > 0
  <2>1. CASE pc[c] = "got"
    BY <1>1, <2>1 DEF Stage
  <2>2. CASE pc[c] = "loop"
    BY <2>2 DEF Stage
  <2> QED BY <2>1, <2>2
<1>7. Rest(t) = Rest(z) \/ Rest(t) < Rest(z)
  BY <1>1, <1>2 DEF Rest
<1>8. Less(z, pc[c], t, "back")
  BY <1>4, <1>5, <1>6, <1>7 DEF Less
<1> QED
  BY <1>3, <1>8, OneLowers DEF z

LEMMA AnswersLower ==
  ASSUME IInv, Bounded, NEW c \in Callers, DirectGood(c) \/ Cancelled(c) \/ Done(c)
  PROVE  Lowers(c)
<1> DEFINE s == call[c]
<1>1. s \in Calls /\ Ready(s, pc[c]) /\ s.total \in Nat
  BY Numbers
<1>2. pc[c] \in {"got", "loop"}
  BY DEF DirectGood, Cancelled, Done, Got
<1>3. s.chunk >= 1
  BY <1>1, <1>2 DEF Ready
<1>4. \E n, res : Return(c, s, n, res)
  BY DEF DirectGood, Cancelled, Done
<1>5. PICK n, res : Return(c, s, n, res)
  BY <1>4
<1> DEFINE t == [s EXCEPT !.n = n, !.res = res]
<1>6. call' = [call EXCEPT ![c] = t] /\ pc' = [pc EXCEPT ![c] = "back"]
  BY <1>5 DEF Return
<1>7. t.tries = s.tries /\ t.chunk = s.chunk /\ t.total = s.total /\ t.len = s.len
  BY <1>1 DEF Calls
<1>8. t.chunk >= 1 /\ t.total \in Nat /\ s.total <= t.total
  BY <1>1, <1>3, <1>7
<1> HIDE DEF t
<1> QED
  BY <1>2, <1>6, <1>7, <1>8, ReturnLowers

LEMMA DirectBadLowers ==
  ASSUME IInv, Bounded, NEW c \in Callers, DirectBad(c)
  PROVE  Lowers(c)
<1>1. pc' = [pc EXCEPT ![c] = "loop"] /\ call' = [call EXCEPT ![c] = call[c]]
      /\ pc[c] = "got" /\ call[c].kind = "direct"
  BY DEF DirectBad, Got, IInv, Typed
<1>2. Ready(call[c], "loop")
  BY <1>1, Numbers DEF Ready
<1>3. Less(call[c], pc[c], call[c], "loop")
  BY <1>1 DEF Less, First
<1> QED
  BY <1>1, <1>2, <1>3, OneLowers

(* A further read of at least one unit: the next piece, or another attempt. *)
LEMMA IssueLowers ==
  ASSUME IInv, Bounded, NEW c \in Callers, NEW s \in Calls, NEW kind \in {"probe", "sector"},
         NEW size \in Nat, Issue(c, s, kind, size), size >= 1, s.tries < MaxRetry,
         s.chunk = call[c].chunk, s.total = call[c].total, s.len = call[c].len,
         \/ pc[c] = "loop"
         \/ pc[c] = "got" /\ call[c].kind = "sector" /\ s.tries = call[c].tries + 1
  PROVE  Lowers(c)
<1> DEFINE t == [s EXCEPT !.kind = kind, !.size = size, !.closed = cancelled]
           z == call[c]
<1>1. call' = [call EXCEPT ![c] = t] /\ pc' = [pc EXCEPT ![c] = "read"]
  BY DEF Issue
<1>2. /\ t.kind = kind /\ t.size = size /\ t.tries = s.tries /\ t.chunk = z.chunk
      /\ t.total = z.total /\ t.len = z.len
  BY DEF Calls
<1>3. s.tries \in Nat
  BY DEF Calls
<1>4. z.tries \in Nat /\ z.tries < MaxRetry /\ z.chunk >= 1
  BY Numbers DEF Ready
<1>5. \/ pc[c] = "loop"
      \/ pc[c] = "got" /\ z.kind = "sector" /\ s.tries = z.tries + 1
  OBVIOUS
<1> HIDE DEF t, z
<1>6. Ready(t, "read")
  BY <1>2, <1>4 DEF Ready
<1>7. First(t, "read") = 0 /\ First(z, pc[c]) = 0
  BY <1>2, <1>5 DEF First
<1>8. Rest(t) = Rest(z)
  BY <1>2 DEF Rest
<1>9. Stage(t, "read") < Stage(z, pc[c])
  <2>1. Stage(t, "read") = 2 * (MaxRetry - s.tries) + 2
    BY <1>2 DEF Stage
  <2>2. CASE pc[c] = "loop"
    BY <1>3, <2>1, <2>2 DEF Stage
  <2>3. CASE pc[c] = "got" /\ s.tries = z.tries + 1
    BY <1>3, <1>4, <2>1, <2>3 DEF Stage
  <2> QED BY <1>5, <2>2, <2>3
<1>10. Less(z, pc[c], t, "read")
  BY <1>7, <1>8, <1>9 DEF Less
<1> QED
  BY <1>1, <1>6, <1>10, OneLowers DEF z

LEMMA ReadsLower ==
  ASSUME IInv, Bounded, NEW c \in Callers, Probe(c) \/ ReadSector(c) \/ SectorRetry(c)
  PROVE  Lowers(c)
<1> DEFINE s == call[c]
<1>1. /\ s \in Calls /\ s.total \in Nat /\ s.chunk \in Nat /\ s.len \in Nat
      /\ s.size \in Nat /\ s.tries \in Nat /\ s.tries < MaxRetry
      /\ pc[c] # "idle" => s.chunk >= 1
      /\ pc[c] = "got" => s.size >= 1
  BY Numbers DEF Ready
<1>2. CASE Probe(c)
  <2> DEFINE size == Least(Least(s.chunk, MaxChunk), s.len - s.total)
  <2>1. Issue(c, s, "probe", size) /\ s.len - s.total > 0 /\ pc[c] = "loop"
    BY <1>2 DEF Probe, Rest
  <2>2. size \in Nat /\ size >= 1
    BY <1>1, <2>1 DEF Least
  <2> HIDE DEF size
  <2> QED
    BY <1>1, <2>1, <2>2, IssueLowers
<1> DEFINE size == Least(SectorSize, s.len - s.total)
           t == [s EXCEPT !.tries = 0]
           r == [s EXCEPT !.tries = @ + 1]
<1>3. CASE ReadSector(c)
  <2>1. Issue(c, t, "sector", size) /\ s.len - s.total > 0 /\ pc[c] = "loop"
    BY <1>3 DEF ReadSector, Rest
  <2>2. size \in Nat /\ size >= 1
    BY <1>1, <2>1 DEF Least
  <2>3. t \in Calls /\ t.tries = 0 /\ t.chunk = s.chunk /\ t.total = s.total /\ t.len = s.len
    BY <1>1 DEF Calls
  <2> HIDE DEF size, t
  <2> QED
    BY <2>1, <2>2, <2>3, IssueLowers
<1>4. CASE SectorRetry(c)
  <2>1. /\ Issue(c, r, "sector", s.size) /\ s.tries + 1 < MaxRetry
        /\ pc[c] = "got" /\ s.kind = "sector"
    BY <1>4 DEF SectorRetry, Got
  <2>2. r \in Calls /\ r.tries = s.tries + 1 /\ r.chunk = s.chunk /\ r.total = s.total
        /\ r.len = s.len
    <3>1. s.tries + 1 \in Nat /\ r = [s EXCEPT !.tries = s.tries + 1]
      BY <1>1
    <3> HIDE DEF r
    <3> QED BY <1>1, <3>1 DEF Calls
  <2> HIDE DEF r
  <2> QED
    BY <1>1, <2>1, <2>2, IssueLowers
<1> QED
  BY <1>2, <1>3, <1>4

(* A piece more is done: copied, zero-filled or counted.                    *)
LEMMA DoneLowers ==
  ASSUME IInv, Bounded, NEW c \in Callers, NEW t, NEW k \in Nat, k >= 1,
         call' = [call EXCEPT ![c] = t], pc' = [pc EXCEPT ![c] = "loop"],
         t.tries = call[c].tries, t.chunk >= 1, t.len = call[c].len,
         t.total = call[c].total + k, pc[c] \in {"got", "loop", "mark"}
  PROVE  Lowers(c)
<1> DEFINE z == call[c]
<1>1. z.total \in Nat /\ z.len \in Nat /\ z.tries < MaxRetry
  BY Numbers DEF Ready
<1>2. Ready(t, "loop")
  BY <1>1 DEF Ready
<1>3. First(t, "loop") = 0 /\ First(z, pc[c]) \in {0, 1} /\ Rest(t) < Rest(z)
  BY <1>1 DEF First, Rest
<1>4. Less(z, pc[c], t, "loop")
  BY <1>3 DEF Less
<1> QED
  BY <1>2, <1>4, OneLowers

LEMMA PiecesLower ==
  ASSUME IInv, Bounded, NEW c \in Callers,
         SkipPoisoned(c) \/ SectorGood(c) \/ ProbeGood(c) \/ MarkPoisoned(c)
  PROVE  Lowers(c)
<1> DEFINE s == call[c]
<1>1. /\ s \in Calls /\ s.total \in Nat /\ s.chunk \in Nat /\ s.len \in Nat /\ s.kind \in Kinds
      /\ s.size \in Nat /\ s.n \in Nat /\ s.tries \in Nat
  BY Numbers
<1>2. Ready(s, pc[c])
  BY Numbers
<1>3. CASE SkipPoisoned(c)
  <2> DEFINE w == Least(SectorSize, s.len - s.total)
             z == [s EXCEPT !.size = w]
             t == [Failed(z) EXCEPT !.mem.direct = Blank(z), !.total = @ + z.size]
  <2>1. /\ call' = [call EXCEPT ![c] = t] /\ pc' = [pc EXCEPT ![c] = "loop"]
        /\ pc[c] = "loop" /\ s.len - s.total > 0
    BY <1>3 DEF SkipPoisoned, IInv, Typed, Rest
  <2>2. w \in Nat /\ w >= 1
    BY <1>1, <2>1 DEF Least
  <2> HIDE DEF w
  <2>3. t.tries = s.tries /\ t.chunk = s.chunk /\ t.len = s.len /\ t.total = s.total + w
    BY <1>1 DEF Calls, Failed
  <2>4. s.chunk >= 1
    BY <1>2, <2>1 DEF Ready
  <2> HIDE DEF t, z
  <2> QED
    BY <2>1, <2>2, <2>3, <2>4, DoneLowers
<1>4. CASE SectorGood(c)
  <2> DEFINE t == [s EXCEPT !.mem.direct = CopyIn(s), !.fails = 0, !.total = @ + s.size]
  <2>1. call' = [call EXCEPT ![c] = t] /\ pc' = [pc EXCEPT ![c] = "loop"] /\ pc[c] = "got"
    BY <1>4 DEF SectorGood, Got
  <2>2. t.tries = s.tries /\ t.chunk = s.chunk /\ t.len = s.len /\ t.total = s.total + s.size
    BY <1>1 DEF Calls
  <2>3. s.chunk >= 1 /\ s.size >= 1
    BY <1>2, <2>1 DEF Ready
  <2> HIDE DEF t
  <2> QED
    BY <1>1, <2>1, <2>2, <2>3, DoneLowers
<1>5. CASE ProbeGood(c)
  <2> DEFINE t == [s EXCEPT !.mem.direct = CopyIn(s), !.total = @ + s.n,
                            !.fails = 0, !.skip = FALSE, !.chunk = SectorSize]
  <2>1. /\ pc[c] = "got" /\ s.res \in {"ok", "eof"}
        /\ IF s.res = "eof" THEN Return(c, t, t.total, "ok")
           ELSE call' = [call EXCEPT ![c] = t] /\ pc' = [pc EXCEPT ![c] = "loop"]
    BY <1>5 DEF ProbeGood, Got
  <2>2. /\ t.tries = s.tries /\ t.chunk = SectorSize /\ t.len = s.len
        /\ t.total = s.total + s.n
    BY <1>1 DEF Calls
  <2>3. pc[c] = "got" /\ s.chunk >= 1
    BY <1>2, <2>1 DEF Ready
  <2>4. CASE s.res = "eof"
    <3> DEFINE r == [t EXCEPT !.n = t.total, !.res = "ok"]
    <3>1. call' = [call EXCEPT ![c] = r] /\ pc' = [pc EXCEPT ![c] = "back"]
      BY <2>1, <2>4 DEF Return
    <3>2. r.tries = t.tries /\ r.chunk = t.chunk /\ r.total = t.total /\ r.len = t.len
      BY <1>1 DEF Calls
    <3>3. s.total + s.n \in Nat /\ s.total <= s.total + s.n /\ SectorSize >= 1
      BY <1>1
    <3> HIDE DEF r, t
    <3> QED
      BY <2>2, <2>3, <3>1, <3>2, <3>3, ReturnLowers
  <2>5. CASE s.res # "eof"
    <3>1. s.n >= 1 /\ s.n \in Nat /\ SectorSize >= 1
      BY <1>1, <1>2, <2>1, <2>5 DEF Ready
    <3>2. call' = [call EXCEPT ![c] = t] /\ pc' = [pc EXCEPT ![c] = "loop"]
      BY <2>1, <2>5
    <3> HIDE DEF t
    <3> QED
      BY <2>2, <2>3, <3>1, <3>2, DoneLowers
  <2> QED BY <2>4, <2>5
<1>6. CASE MarkPoisoned(c)
  <2> DEFINE z == IF s.kind = "probe" THEN [s EXCEPT !.chunk = Least(2 * s.chunk, MaxChunk)]
                  ELSE Failed(s)
             t == [z EXCEPT !.total = @ + s.size]
  <2>1. call' = [call EXCEPT ![c] = t] /\ pc' = [pc EXCEPT ![c] = "loop"] /\ pc[c] = "mark"
    BY <1>6 DEF MarkPoisoned
  <2>2. s.chunk >= 1 /\ s.size >= 1
    BY <1>2, <2>1 DEF Ready
  <2>3. Least(2 * s.chunk, MaxChunk) >= 1
    BY <1>1, <2>2 DEF Least
  <2>4. /\ t.tries = s.tries /\ t.len = s.len /\ t.total = s.total + s.size
        /\ t.chunk \in {s.chunk, Least(2 * s.chunk, MaxChunk)}
    <3>1. CASE s.kind = "probe"
      BY <1>1, <3>1 DEF Calls
    <3>2. CASE s.kind # "probe"
      BY <1>1, <3>2 DEF Calls, Failed
    <3> QED BY <3>1, <3>2
  <2> HIDE DEF t
  <2>5. t.chunk >= 1
    BY <2>2, <2>3, <2>4
  <2> QED
    BY <1>1, <2>1, <2>2, <2>4, <2>5, DoneLowers
<1> QED
  BY <1>3, <1>4, <1>5, <1>6

LEMMA RecordBadLowers ==
  ASSUME IInv, Bounded, NEW c \in Callers, RecordBad(c)
  PROVE  Lowers(c)
<1> DEFINE s == call[c]
           t == [s EXCEPT !.mem.direct = Blank(s)]
<1>1. call' = [call EXCEPT ![c] = t] /\ pc' = [pc EXCEPT ![c] = "mark"] /\ pc[c] = "got"
      /\ s.kind \in {"probe", "sector"}
  BY DEF RecordBad, GivenUp, Got
<1>2. s \in Calls /\ s.tries \in Nat /\ Ready(s, "got")
  BY <1>1, Numbers
<1>3. /\ t.tries = s.tries /\ t.chunk = s.chunk /\ t.len = s.len /\ t.total = s.total
      /\ t.kind = s.kind /\ t.size = s.size
  BY <1>2 DEF Calls
<1> HIDE DEF t, s
<1>4. Ready(t, "mark")
  BY <1>1, <1>2, <1>3 DEF Ready
<1>5. First(t, "mark") = 0 /\ First(s, "got") = 0 /\ Rest(t) = Rest(s)
  BY <1>1, <1>3 DEF First, Rest
<1>6. Stage(t, "mark") < Stage(s, "got")
  BY <1>2 DEF Stage, Ready
<1> QED
  BY <1>1, <1>4, <1>5, <1>6, OneLowers DEF Less, s

(* Each step of a call.                                                     *)
LEMMA StepLowers ==
  ASSUME IInv, Bounded, NEW c \in Callers, Step(c)
  PROVE  Lowers(c)
BY LandLowers, AnswersLower, DirectBadLowers, ReadsLower, PiecesLower, RecordBadLowers DEF Step

(* The other steps leave the calls under way where they are.                *)
Running(c) == pc[c] \notin {"idle", "back"}
LEMMA OthersKeep ==
  ASSUME IInv, Bounded, [Next]_vars, ~ \E c \in Callers : Step(c)
  PROVE  Bounded' /\ \A u \in Callers : Running(u) => Kept(u)
<1>1. ASSUME NEW c \in Callers, ReadAt(c) PROVE Bounded' /\ \A u \in Callers \ {c} : Kept(u)
  <2>1. PICK q \in Requests :
          Issue(c, [NoCall EXCEPT !.off = q.off, !.len = q.len, !.chunk = SectorSize,
                      !.after = cancelled,
                      !.mem = [direct |-> Fresh(q.len), probe |-> Fresh(MaxChunk),
                               sector |-> Fresh(SectorSize)]], "direct", q.len)
    BY <1>1 DEF ReadAt
  <2> DEFINE z == [NoCall EXCEPT !.off = q.off, !.len = q.len, !.chunk = SectorSize,
                     !.after = cancelled,
                     !.mem = [direct |-> Fresh(q.len), probe |-> Fresh(MaxChunk),
                              sector |-> Fresh(SectorSize)]]
             t == [z EXCEPT !.kind = "direct", !.size = q.len, !.closed = cancelled]
  <2>2. call' = [call EXCEPT ![c] = t] /\ pc' = [pc EXCEPT ![c] = "read"]
    BY <2>1 DEF Issue
  <2>3. t.tries = 0 /\ t.chunk = SectorSize /\ t.size = q.len /\ t.kind = "direct"
    BY DEF NoCall
  <2> HIDE DEF t, z
  <2>4. Ready(t, "read")
    BY <2>3 DEF Ready
  <2>5. pc'[c] = "read" /\ call'[c] = t
        /\ \A u \in Callers \ {c} : pc'[u] = pc[u] /\ call'[u] = call[u]
    BY <2>2 DEF IInv, Typed
  <2> QED BY <2>4, <2>5 DEF Bounded, Kept
<1>2. ASSUME NEW c \in Callers, Consume(c) PROVE Bounded' /\ \A u \in Callers \ {c} : Kept(u)
  <2>1. pc'[c] = "idle" /\ call'[c] = NoCall
        /\ \A u \in Callers \ {c} : pc'[u] = pc[u] /\ call'[u] = call[u]
    BY <1>2 DEF Consume, IInv, Typed
  <2>2. Ready(NoCall, "idle")
    BY DEF Ready, NoCall
  <2> QED BY <2>1, <2>2 DEF Bounded, Kept
<1>3. ASSUME NEW l \in late, LateLand(l) PROVE Bounded' /\ \A u \in Callers : Kept(u)
  <2> DEFINE c == l.by
             s == call[c]
  <2>1. PICK o \in OpenOutcomes(l.off, l.size) :
          call' = [call EXCEPT ![l.by].mem[l.kind] = Fill(@, o.n, l.off)]
    BY <1>3 DEF LateLand
  <2> DEFINE t == [s EXCEPT !.mem[l.kind] = Fill(s.mem[l.kind], o.n, l.off)]
  <2>2. c \in Callers /\ s \in Calls
    BY DEF IInv, Typed
  <2>3. call' = [call EXCEPT ![c] = t] /\ pc' = pc
    BY <1>3, <2>1 DEF LateLand
  <2>4. /\ t.tries = s.tries /\ t.chunk = s.chunk /\ t.len = s.len /\ t.total = s.total
        /\ t.kind = s.kind /\ t.size = s.size /\ t.res = s.res /\ t.n = s.n
    BY <2>2 DEF Calls
  <2> HIDE DEF t
  <2>5. call'[c] = t /\ \A u \in Callers \ {c} : call'[u] = call[u]
    BY <2>2, <2>3 DEF IInv, Typed
  <2>6. Kept(c) /\ Ready(t, pc[c])
    BY <2>2, <2>3, <2>4, <2>5 DEF Kept, First, Rest, Stage, Ready, Bounded
  <2> QED BY <2>3, <2>5, <2>6 DEF Bounded, Kept
<1>4. CASE Cancel \/ UNCHANGED vars \/ \E l \in late : LateFail(l)
  <2>1. UNCHANGED <<pc, call>>
    BY <1>4 DEF Cancel, vars, LateFail
  <2> QED BY <2>1 DEF Bounded, Kept
<1>5. ASSUME NEW c \in Callers, ReadAt(c) \/ Consume(c) PROVE ~ Running(c)
  BY <1>5 DEF Running, ReadAt, Consume
<1>6. CASE \E c \in Callers : ReadAt(c) \/ Consume(c)
  <2>1. PICK c \in Callers : ReadAt(c) \/ Consume(c)
    BY <1>6
  <2>2. Bounded' /\ (\A u \in Callers \ {c} : Kept(u)) /\ ~ Running(c)
    BY <2>1, <1>1, <1>2, <1>5
  <2> QED BY <2>2
<1>7. CASE \E l \in late : LateLand(l)
  BY <1>3, <1>7
<1>8. \/ \E c \in Callers : ReadAt(c) \/ Consume(c)
      \/ \E l \in late : LateLand(l)
      \/ Cancel \/ UNCHANGED vars \/ \E l \in late : LateFail(l)
  BY Zenon DEF Next
<1> QED
  BY <1>4, <1>6, <1>7, <1>8

LEMMA BoundInvariance == Spec => [](IInv /\ Bounded)
<1>1. Init => Bounded
  <2>1. Ready(NoCall, "idle")
    BY DEF Ready, NoCall
  <2>2. Init => \A c \in Callers : pc[c] = "idle" /\ call[c] = NoCall
    BY DEF Init
  <2> QED BY <2>1, <2>2 DEF Bounded
<1>2. IInv /\ Bounded /\ [Next]_vars => Bounded'
  BY StepLowers, OthersKeep DEF Lowers
<1> QED
  BY <1>1, <1>2, InitSound, StaysSound, PTL DEF Spec

(* Every step of a call brings it nearer to its answer, and no step of      *)
(* another caller, no late read and no cancellation takes it further away:  *)
(* for any retries, probe size, damage and requests a ReadAt takes finitely *)
(* many steps, the skipped, retried and poisoned sectors included.          *)
THEOREM ReadsRunDown ==
  Spec => [][\A c \in Callers :
              /\ Step(c) => Lower(c)
              /\ Running(c) => Lower(c) \/ Kept(c)]_vars
<1>1. ASSUME IInv, Bounded, Next, NEW c \in Callers
      PROVE  (Step(c) => Lower(c)) /\ (Running(c) => Lower(c) \/ Kept(c))
  <2>1. CASE \E u \in Callers : Step(u)
    BY <1>1, <2>1, StepLowers DEF Lowers
  <2>2. CASE ~ \E u \in Callers : Step(u)
    BY <1>1, <2>2, OthersKeep
  <2> QED BY <2>1, <2>2
<1>2. IInv /\ Bounded /\ [Next]_vars =>
        [\A c \in Callers : /\ Step(c) => Lower(c)
                            /\ Running(c) => Lower(c) \/ Kept(c)]_vars
  BY <1>1
<1> QED
  BY <1>2, BoundInvariance, PTL DEF Spec

(* A call under way can always go on: the device gives some outcome, every  *)
(* result is handled for every kind of read, and the loop has a next piece  *)
(* or ends.                                                                 *)
Goes(c) ==
  \/ pc[c] = "read" /\ Outcomes(call[c]) # {}
  \/ Got(c, {"direct", "probe"}, {"ok", "eof", "bad", "cancelled"})
  \/ Got(c, {"sector"}, {"ok", "eof", "cancelled"})
  \/ Got(c, {"sector"}, {"bad"}) /\ (call[c].tries + 1 < MaxRetry \/ GivenUp(c))
  \/ pc[c] = "loop" /\ (call[c].total >= call[c].len \/ Rest(call[c]) > 0)
  \/ pc[c] = "mark"
THEOREM ReadsNeverStand == Spec => [](\A c \in Callers : Running(c) => Goes(c))
<1>1. ASSUME IInv, Bounded, NEW c \in Callers, Running(c) PROVE Goes(c)
  <2> DEFINE s == call[c]
  <2>1. /\ s \in Calls /\ s.kind \in Kinds /\ s.total \in Nat /\ s.len \in Nat /\ s.tries \in Nat
        /\ Ready(s, pc[c])
    BY <1>1, Numbers
  <2>2. pc[c] \in {"read", "got", "loop", "mark"}
    BY <1>1 DEF Running, IInv, Typed, Points
  <2>3. CASE pc[c] = "read"
    <3>1. cancelled \in BOOLEAN
      BY <1>1 DEF IInv, Typed
    <3> QED BY <2>1, <2>3, <3>1, OutcomesExist DEF Goes
  <2>4. CASE pc[c] = "got"
    <3>1. s.res \in {"ok", "eof", "bad", "cancelled"}
      BY <2>1, <2>4 DEF Calls, Ready
    <3> QED BY <2>1, <2>4, <3>1 DEF Goes, Got, GivenUp, Kinds
  <2>5. CASE pc[c] = "loop"
    BY <2>1, <2>5 DEF Goes, Rest
  <2>6. CASE pc[c] = "mark"
    BY <2>6 DEF Goes
  <2> QED BY <2>2, <2>3, <2>4, <2>5, <2>6
<1>2. IInv /\ Bounded => \A c \in Callers : Running(c) => Goes(c)
  BY <1>1
<1> QED
  BY <1>2, BoundInvariance, PTL
=============================================================================
