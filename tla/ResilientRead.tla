---------------------------- MODULE ResilientRead ---------------------------
(***************************************************************************)
(* Reading a damaged disk (internal/disk/resilient.go, timeout.go): several *)
(* callers share one ResilientReader, which tries the request as a whole,  *)
(* then sector by sector, zero-fills and reports what it cannot read, goes *)
(* into a skip mode with growing probes in a bad region, and keeps a cache *)
(* of the sectors known to be bad.  Underneath, TimeoutReader gives up     *)
(* waiting for a read that goes on in its goroutine and may still write    *)
(* into the buffer it was given, which the caller may use for another call *)
(* by then: the carver takes the buffers of its chunks from a pool.        *)
(*                                                                         *)
(* Positions are counted in units, a few of which make a sector, so that a *)
(* request need not be aligned.  The content of unit d of the device is d. *)
(***************************************************************************)
EXTENDS Integers, Sequences

CONSTANTS
  Callers,
  Size,         \* units on the device
  SectorSize,   \* units in a sector
  Damaged,      \* the sectors (their first units) the device cannot read
  Requests,     \* the [off, len] callers ask for
  Threshold,    \* consecutiveFailureThreshold
  MaxRetry,
  MaxChunk,     \* maxSkipChunkBytes, in units
  Marked,       \* reads of a cancelled device return ErrReaderCancelled
                \* (windowsReader), not the error of a closed file (the others)
  MaxCalls,     \* bound: calls of ReadAt
  MaxTimeouts   \* bound: reads that time out

ASSUME GeometryAssumption ==
  /\ Size \in Nat /\ SectorSize \in Nat \ {0} /\ MaxChunk \in Nat
  /\ MaxChunk >= SectorSize
  /\ Requests \subseteq [off : Nat, len : Nat \ {0}]
ASSUME LimitsAssumption ==
  /\ Threshold \in Nat \ {0} /\ MaxRetry \in Nat \ {0}
  /\ MaxCalls \in Nat /\ MaxTimeouts \in Nat /\ Marked \in BOOLEAN

Zero == -1     \* a zero-filled unit
Stale == -2    \* what was in a buffer before

Sector(d) == d - (d % SectorSize)
SectorsOf(off, size) == {Sector(d) : d \in off .. off + size - 1}
Least(a, b) == IF a <= b THEN a ELSE b

VARIABLES
  pc,
  call,      \* of each caller: the local variables of its call
  poisoned,  \* keys of poisonCache
  bad,       \* badSectors
  cancelled, \* Cancel was called on the device
  late,      \* reads that timed out and are still under way
  strays,    \* history: of each caller, the <<d, e>> such that a late read put
             \* the content of unit e where its call keeps that of unit d
  calls, timeouts

vars == <<pc, call, poisoned, bad, cancelled, late, strays, calls, timeouts>>

Kinds == {"direct", "probe", "sector"}   \* whose buffer a read fills

NoCall == [off |-> 0, len |-> 0, total |-> 0, fails |-> 0, skip |-> FALSE,
           chunk |-> 0, tries |-> 0, kind |-> "direct", size |-> 0, res |-> "none",
           n |-> 0, after |-> FALSE, closed |-> FALSE,
           mem |-> [k \in Kinds |-> <<>>]]

Calls == [off : Nat, len : Nat, total : Nat, fails : Nat, skip : BOOLEAN,
          chunk : Nat, tries : Nat, kind : Kinds, size : Nat,
          res : {"none", "ok", "eof", "bad", "cancelled"}, n : Nat,
          after : BOOLEAN, closed : BOOLEAN,
          mem : [Kinds -> Seq(Int)]]

(* What is read next, or zero-filled, lies in the caller's buffer.          *)
InBuffer(s, at) ==
  /\ Len(s.mem.direct) = s.len /\ s.total <= s.len
  /\ at \in {"read", "got", "mark"} => s.total + s.size <= s.len

TypeOK ==
  /\ pc \in [Callers -> {"idle", "read", "got", "loop", "mark", "back"}]
  /\ call \in [Callers -> Calls]
  /\ \A c \in Callers : InBuffer(call[c], pc[c])
  /\ poisoned \subseteq Nat
  /\ bad \subseteq [off : Nat, size : Nat]
  /\ cancelled \in BOOLEAN
  /\ late \subseteq [by : Callers, kind : Kinds, off : Nat, size : Nat]
  /\ strays \in [Callers -> SUBSET (Nat \X Nat)]
  /\ calls \in 0 .. MaxCalls /\ timeouts \in 0 .. MaxTimeouts

Init ==
  /\ pc = [c \in Callers |-> "idle"]
  /\ call = [c \in Callers |-> NoCall]
  /\ poisoned = {} /\ bad = {} /\ cancelled = FALSE
  /\ late = {} /\ strays = [c \in Callers |-> {}] /\ calls = 0 /\ timeouts = 0

-----------------------------------------------------------------------------
(* The buffers of a call: the caller's, sectorBuf and probeBuf *)

At(s) == s.off + s.total                 \* offset + totalRead
Fresh(l) == [i \in 1 .. l |-> Stale]
Fill(b, n, d) == [i \in 1 .. Len(b) |-> IF i <= n THEN d + i - 1 ELSE b[i]]
Blank(s) == [i \in 1 .. Len(s.mem.direct) |->
  IF s.total < i /\ i <= s.total + s.size THEN Zero ELSE s.mem.direct[i]]
CopyIn(s) == [i \in 1 .. Len(s.mem.direct) |->
  IF s.total < i /\ i <= s.total + s.n THEN s.mem[s.kind][i - s.total]
  ELSE s.mem.direct[i]]

-----------------------------------------------------------------------------
(* TimeoutReader on the reader of the device *)

Unreadable(off, size) ==
  SectorsOf(off, Least(size, Size - off)) \cap Damaged # {}

(* What a read of a device that is open gives: beyond its end an EOF, a     *)
(* short count or an error, depending on the platform.                      *)
OpenOutcomes(off, size) ==
  CASE off >= Size -> {[res |-> r, n |-> 0] : r \in {"eof", "bad"}}
    [] off < Size /\ Unreadable(off, size) -> {[res |-> "bad", n |-> 0]}
    [] off < Size /\ ~Unreadable(off, size) ->
         {[res |-> r, n |-> Least(size, Size - off)] :
            r \in IF off + size <= Size THEN {"ok"} ELSE {"ok", "eof"}}

CancelOutcome == [res |-> IF Marked THEN "cancelled" ELSE "bad", n |-> 0]

(* A read under way when the device is cancelled may still finish, or is    *)
(* aborted with an error of the system.                                     *)
Outcomes(s) ==
  CASE ~cancelled -> OpenOutcomes(At(s), s.size)
    [] cancelled /\ s.closed -> {CancelOutcome}
    [] cancelled /\ ~s.closed ->
         OpenOutcomes(At(s), s.size) \cup {CancelOutcome, [res |-> "bad", n |-> 0]}

Issue(c, s, kind, size) ==
  /\ pc' = [pc EXCEPT ![c] = "read"]
  /\ call' = [call EXCEPT ![c] =
       [s EXCEPT !.kind = kind, !.size = size, !.closed = cancelled]]

Land(c) ==
  /\ pc[c] = "read"
  /\ \E o \in Outcomes(call[c]) :
       call' = [call EXCEPT
         ![c].mem[call[c].kind] = Fill(@, o.n, At(call[c])),
         ![c].res = o.res, ![c].n = o.n]
  /\ pc' = [pc EXCEPT ![c] = "got"]
  /\ UNCHANGED <<poisoned, bad, cancelled, late, strays, calls, timeouts>>

(* The timer fires: an error for the caller, the read stays under way.      *)
Timeout(c) ==
  /\ pc[c] = "read" /\ timeouts < MaxTimeouts
  /\ timeouts' = timeouts + 1
  /\ late' = late \cup {[by |-> c, kind |-> call[c].kind, off |-> At(call[c]),
                         size |-> call[c].size]}
  /\ call' = [call EXCEPT ![c].res = "bad", ![c].n = 0]
  /\ pc' = [pc EXCEPT ![c] = "got"]
  /\ UNCHANGED <<poisoned, bad, cancelled, strays, calls>>

(* It ends later: with an error or in a buffer that is not in use, or by    *)
(* writing what it read where the caller keeps something else by then.      *)
LateFail(l) ==
  /\ l \in late /\ late' = late \ {l}
  /\ UNCHANGED <<pc, call, poisoned, bad, cancelled, strays, calls, timeouts>>

Misplaced(l, n) ==
  LET s == call[l.by]
      place == IF l.kind = "direct" THEN s.off ELSE At(s)
  IN {<<place + i, l.off + i>> : i \in
        IF place = l.off \/ (l.kind # "direct" /\ (pc[l.by] # "got" \/ s.kind # l.kind))
        THEN {} ELSE 0 .. n - 1}

LateLand(l) ==
  /\ l \in late /\ late' = late \ {l} /\ pc[l.by] # "idle"
  /\ \E o \in OpenOutcomes(l.off, l.size) :
       /\ o.n > 0
       /\ call' = [call EXCEPT ![l.by].mem[l.kind] = Fill(@, o.n, l.off)]
       /\ strays' = [strays EXCEPT ![l.by] = @ \cup Misplaced(l, o.n)]
  /\ UNCHANGED <<pc, poisoned, bad, cancelled, calls, timeouts>>

-----------------------------------------------------------------------------
(* ResilientReader.ReadAt *)

ReadAt(c) ==
  /\ pc[c] = "idle" /\ calls < MaxCalls
  /\ calls' = calls + 1
  /\ \E q \in Requests :
       LET s == [NoCall EXCEPT !.off = q.off, !.len = q.len, !.chunk = SectorSize,
                   !.after = cancelled,
                   !.mem = [direct |-> Fresh(q.len), probe |-> Fresh(MaxChunk),
                            sector |-> Fresh(SectorSize)]]
       IN Issue(c, s, "direct", q.len)
  /\ UNCHANGED <<poisoned, bad, cancelled, late, strays, timeouts>>

Return(c, s, n, res) ==
  /\ pc' = [pc EXCEPT ![c] = "back"]
  /\ call' = [call EXCEPT ![c] = [s EXCEPT !.n = n, !.res = res]]
  /\ UNCHANGED <<poisoned, bad, cancelled, late, strays, calls, timeouts>>

Got(c, kinds, results) ==
  pc[c] = "got" /\ call[c].kind \in kinds /\ call[c].res \in results

DirectGood(c) ==
  /\ Got(c, {"direct"}, {"ok", "eof"})
  /\ Return(c, call[c], call[c].n, call[c].res)

Cancelled(c) ==
  /\ Got(c, Kinds, {"cancelled"})
  /\ Return(c, call[c], call[c].total, "cancelled")

DirectBad(c) ==
  /\ Got(c, {"direct"}, {"bad"})
  /\ pc' = [pc EXCEPT ![c] = "loop"]
  /\ UNCHANGED <<call, poisoned, bad, cancelled, late, strays, calls, timeouts>>

(* readWithRetry *)
Done(c) ==
  /\ pc[c] = "loop" /\ call[c].total >= call[c].len
  /\ Return(c, call[c], call[c].total, "ok")

Rest(s) == s.len - s.total
Failed(s) == [s EXCEPT !.fails = @ + 1, !.skip = s.fails + 1 >= Threshold]

Probe(c) ==
  /\ pc[c] = "loop" /\ Rest(call[c]) > 0 /\ call[c].skip
  /\ Issue(c, call[c], "probe", Least(Least(call[c].chunk, MaxChunk), Rest(call[c])))
  /\ UNCHANGED <<poisoned, bad, cancelled, late, strays, calls, timeouts>>

SkipPoisoned(c) ==
  /\ pc[c] = "loop" /\ Rest(call[c]) > 0 /\ ~call[c].skip
  /\ At(call[c]) \in poisoned
  /\ LET s == [call[c] EXCEPT !.size = Least(SectorSize, Rest(call[c]))]
     IN call' = [call EXCEPT ![c] =
          [Failed(s) EXCEPT !.mem.direct = Blank(s), !.total = @ + s.size]]
  /\ UNCHANGED <<pc, poisoned, bad, cancelled, late, strays, calls, timeouts>>

ReadSector(c) ==
  /\ pc[c] = "loop" /\ Rest(call[c]) > 0 /\ ~call[c].skip
  /\ At(call[c]) \notin poisoned
  /\ Issue(c, [call[c] EXCEPT !.tries = 0], "sector", Least(SectorSize, Rest(call[c])))
  /\ UNCHANGED <<poisoned, bad, cancelled, late, strays, calls, timeouts>>

(* A probe that can be read ends skip mode; at the end of the device it     *)
(* ends the call.                                                           *)
ProbeGood(c) ==
  /\ Got(c, {"probe"}, {"ok", "eof"})
  /\ LET s == [call[c] EXCEPT !.mem.direct = CopyIn(call[c]), !.total = @ + call[c].n,
                              !.fails = 0, !.skip = FALSE, !.chunk = SectorSize]
     IN IF call[c].res = "eof" THEN Return(c, s, s.total, "ok")
        ELSE /\ pc' = [pc EXCEPT ![c] = "loop"]
             /\ call' = [call EXCEPT ![c] = s]
             /\ UNCHANGED <<poisoned, bad, cancelled, late, strays, calls, timeouts>>

(* A sector counts as a whole, also one that ends short.                    *)
SectorGood(c) ==
  /\ Got(c, {"sector"}, {"ok", "eof"})
  /\ call' = [call EXCEPT ![c].mem.direct = CopyIn(call[c]), ![c].fails = 0,
                          ![c].total = @ + call[c].size]
  /\ pc' = [pc EXCEPT ![c] = "loop"]
  /\ UNCHANGED <<poisoned, bad, cancelled, late, strays, calls, timeouts>>

(* Mutant: the attempts are not counted.                                    *)
SectorRetryUncounted(c) ==
  /\ Got(c, {"sector"}, {"bad"})
  /\ Issue(c, call[c], "sector", call[c].size)
  /\ UNCHANGED <<poisoned, bad, cancelled, late, strays, calls, timeouts>>

SectorRetry(c) ==
  /\ Got(c, {"sector"}, {"bad"}) /\ call[c].tries + 1 < MaxRetry
  /\ Issue(c, [call[c] EXCEPT !.tries = @ + 1], "sector", call[c].size)
  /\ UNCHANGED <<poisoned, bad, cancelled, late, strays, calls, timeouts>>

GivenUp(c) ==
  \/ Got(c, {"probe"}, {"bad"})
  \/ Got(c, {"sector"}, {"bad"}) /\ call[c].tries + 1 >= MaxRetry

(* Mutant: a part that could not be read is not zero-filled.                *)
RecordBadOnly(c) ==
  /\ GivenUp(c)
  /\ bad' = bad \cup {[off |-> At(call[c]), size |-> call[c].size]}
  /\ pc' = [pc EXCEPT ![c] = "mark"]
  /\ UNCHANGED <<call, poisoned, cancelled, late, strays, calls, timeouts>>

(* Mutant: a bad region is reported by its first sector only.               *)
RecordFirst(c) ==
  /\ GivenUp(c)
  /\ bad' = bad \cup {[off |-> At(call[c]), size |-> Least(SectorSize, call[c].size)]}
  /\ call' = [call EXCEPT ![c].mem.direct = Blank(call[c])]
  /\ pc' = [pc EXCEPT ![c] = "mark"]
  /\ UNCHANGED <<poisoned, cancelled, late, strays, calls, timeouts>>

(* Zero-fill and recordBad, then markPoisoned: two sections under the mutex *)
RecordBad(c) ==
  /\ GivenUp(c)
  /\ bad' = bad \cup {[off |-> At(call[c]), size |-> call[c].size]}
  /\ call' = [call EXCEPT ![c].mem.direct = Blank(call[c])]
  /\ pc' = [pc EXCEPT ![c] = "mark"]
  /\ UNCHANGED <<poisoned, cancelled, late, strays, calls, timeouts>>

MarkPoisoned(c) ==
  /\ pc[c] = "mark"
  /\ poisoned' = poisoned \cup SectorsOf(At(call[c]), call[c].size)
  /\ LET s == call[c]
         t == IF s.kind = "probe" THEN [s EXCEPT !.chunk = Least(2 * s.chunk, MaxChunk)]
              ELSE Failed(s)
     IN call' = [call EXCEPT ![c] = [t EXCEPT !.total = @ + s.size]]
  /\ pc' = [pc EXCEPT ![c] = "loop"]
  /\ UNCHANGED <<bad, cancelled, late, strays, calls, timeouts>>

(* The caller has used its buffer and puts it back into the pool its next    *)
(* call takes one from; sectorBuf and probeBuf are the call's own, and go.  *)
Consume(c) ==
  /\ pc[c] = "back"
  /\ pc' = [pc EXCEPT ![c] = "idle"]
  /\ call' = [call EXCEPT ![c] = NoCall]
  /\ late' = {l \in late : l.by # c \/ l.kind = "direct"}
  /\ strays' = [strays EXCEPT ![c] = {}]
  /\ UNCHANGED <<poisoned, bad, cancelled, calls, timeouts>>

(* Engine.Stop closes the handle from another goroutine.                    *)
Cancel ==
  /\ ~cancelled /\ cancelled' = TRUE
  /\ UNCHANGED <<pc, call, poisoned, bad, late, strays, calls, timeouts>>

-----------------------------------------------------------------------------
Step(c) ==
  \/ Land(c) \/ Timeout(c) \/ DirectGood(c) \/ DirectBad(c) \/ Cancelled(c)
  \/ Done(c) \/ Probe(c) \/ SkipPoisoned(c) \/ ReadSector(c)
  \/ ProbeGood(c) \/ SectorGood(c) \/ SectorRetry(c) \/ RecordBad(c) \/ MarkPoisoned(c)

Next ==
  \/ \E c \in Callers : ReadAt(c) \/ Step(c) \/ Consume(c)
  \/ \E l \in late : LateFail(l) \/ LateLand(l)
  \/ Cancel

Spec == Init /\ [][Next]_vars
FairSpec == Spec /\ \A c \in Callers : WF_vars(Step(c))

-----------------------------------------------------------------------------
Overlaps(b, sector) == b.off < sector + SectorSize /\ sector < b.off + b.size
Reported(sector) == \E b \in bad : Overlaps(b, sector)

True(d, v) == v = d \/ (v = Zero /\ Reported(Sector(d)))
Handed(c) == {i \in 1 .. call[c].n : call[c].off + i - 1 < Size}

(* What ReadAt hands back for a unit of the device is the device's own      *)
(* data, or zeros in a sector that BadSectors reports, whichever callers    *)
(* shared the poison cache and wherever the request began, or the data of   *)
(* another place that a read given up put into that very unit: never what   *)
(* was in the buffer before, and never zeros nobody reports                 *)
(* (resilient.go:131-146, timeout.go:43-60).                                *)
ReturnedIsTrue ==
  \A c \in Callers : pc[c] = "back" => \A i \in Handed(c) :
    LET d == call[c].off + i - 1
        v == call[c].mem.direct[i]
    IN True(d, v) \/ <<d, v>> \in strays[c]

(* A read that timed out counts as an error, which ends as a bad sector and *)
(* zeros (timeout.go:55-57), and a chunk's buffer can be put back safely    *)
(* (carver/engine.go:439): what is handed back is true without exception.   *)
(* This does not hold: the read given up still has the buffer.              *)
OnlyOwnData ==
  \A c \in Callers : pc[c] = "back" => \A i \in Handed(c) :
    True(call[c].off + i - 1, call[c].mem.direct[i])

(* A sector the cache withholds from every later caller is one the list of  *)
(* bad sectors names, in part at least (resilient.go:88-104, 222-224).      *)
PoisonedIsReported == \A p \in poisoned : Reported(p)

(* Each ReadAt comes back, whatever fails, times out or is cancelled.       *)
ReadReturns == \A c \in Callers : pc[c] = "read" ~> pc[c] = "back"

(* ErrReaderCancelled 必须穿透，不能当坏扇区 0-fill: a read that begins after *)
(* Cancel is never answered with success (resilient.go:127-129).            *)
CancelledReadFails ==
  \A c \in Callers : pc[c] = "back" /\ call[c].after => call[c].res = "cancelled"
=============================================================================
