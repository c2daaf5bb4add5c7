------------------------------- MODULE Carver -------------------------------
(***************************************************************************)
(* The deep scan's pipeline (internal/carver/engine.go, Engine.Scan): one  *)
(* IO goroutine reads overlapping chunks into a bounded channel, workers   *)
(* search them for file headers and send the matches into a second bounded *)
(* channel, and one collector drops repeated offsets, determines the size  *)
(* of each file and reports it.  The application notes from time to time   *)
(* how far the IO goroutine is; a cancelled scan is resumed from there.    *)
(*                                                                         *)
(* A header is [at, len, sig]: signature sig matches the bytes from at to  *)
(* at + len.  What a format's detector says of it is Sized(header).        *)
(***************************************************************************)
EXTENDS Integers, Sequences, SequencesExt, FiniteSets

CONSTANTS
  Workers,
  Headers,     \* the headers on the device
  FileSize,    \* header -> size found by its format's detector, 0 for none
  End,         \* size of the device
  Chunk, Overlap,
  ChunkCap, MatchCap,     \* capacities of the two channels
  SoftCap, KeepLag,       \* when the collector forgets offsets, and which
  MaxFile,     \* Config.MaxFileSize
  MaxScans, MaxFaults

ASSUME SizesAssumption ==
  /\ {End, Chunk, ChunkCap, MatchCap, SoftCap, MaxFile, MaxScans} \subseteq Nat \ {0}
  /\ {Overlap, KeepLag, MaxFaults} \subseteq Nat
\* DefaultConfig: at least one worker.
ASSUME WorkersAssumption == Workers # {}
\* Every header lies on the device.
ASSUME HeadersAssumption ==
  /\ IsFiniteSet(Headers) /\ FileSize \in [Headers -> Nat]
  /\ \A h \in Headers : h.at \in Nat /\ h.len \in Nat \ {0} /\ h.at + h.len <= End
\* NewEngine: the longest header less one byte.
ASSUME OverlapAssumption == \A h \in Headers : h.len - 1 <= Overlap

VARIABLES
  start,      \* where this scan began
  io, pos,    \* the IO goroutine and its offset
  scanned,    \* e.bytesScanned
  chunkCh, matchCh,
  worker,     \* of each worker: [st, hits], the matches it has still to send
  collector,  \* "running" or "done"
  seen, top,  \* the collector's offsets and their maximum
  emitted,    \* files reported in this scan, in order
  cancelled, phase,
  saved,      \* the offset the application noted last
  scans, faults,
  (* history: headers reported before this scan, chunks that could not be    *)
  (* read, matches dropped by workers and by cancelled scans                 *)
  before, unread, dropped

vars == <<start, io, pos, scanned, chunkCh, matchCh, worker, collector, seen, top, emitted,
          cancelled, phase, saved, scans, faults, before, unread, dropped>>
history == <<before, unread, dropped>>
fixed == <<start, cancelled, phase, saved, scans, before>>

Least(a, b) == IF a < b THEN a ELSE b

----------------------------------------------------------------------------
\* What a chunk that was read at off contains.
(* Mutant: chunks do not overlap. *)
ReadSizeAlone(off) == Least(Chunk, End - off)
ReadSize(off) == Least(Chunk + Overlap, End - off)
Within(h, off) == off <= h.at /\ h.at + h.len <= off + ReadSize(off)
\* The automaton reports matches in the order in which they end.
Ordered(s) == \A i, j \in DOMAIN s : i < j => s[i].at + s[i].len <= s[j].at + s[j].len
Matches == [off \in 0..End |->
              CHOOSE s \in SetToSeqs({h \in Headers : Within(h, off)}) : Ordered(s)]
Search(off) == Matches[off]

\* determineFileSize, and the limit the collector puts on it.
Sized(h) == Least(FileSize[h], MaxFile)

Idle == [st |-> "idle", hits |-> <<>>]
Gone == [st |-> "exited", hits |-> <<>>]
Exited == \A w \in Workers : worker[w] = Gone

----------------------------------------------------------------------------
Fresh(from) ==
  /\ start' = from /\ pos' = from /\ scanned' = 0 /\ io' = "loop"
  /\ chunkCh' = <<>> /\ matchCh' = <<>> /\ worker' = [w \in Workers |-> Idle]
  /\ collector' = "running" /\ seen' = {} /\ top' = 0 /\ emitted' = <<>>
  /\ cancelled' = FALSE /\ phase' = "running"

Init ==
  /\ start = 0 /\ pos = 0 /\ scanned = 0 /\ io = "loop"
  /\ chunkCh = <<>> /\ matchCh = <<>> /\ worker = [w \in Workers |-> Idle]
  /\ collector = "running" /\ seen = {} /\ top = 0 /\ emitted = <<>>
  /\ cancelled = FALSE /\ phase = "running" /\ saved = 0 /\ scans = 1 /\ faults = 0
  /\ before = {} /\ unread = {} /\ dropped = {}

\* IO goroutine.  A step of Chunk, the last one cut to the end of the device.
Advance ==
  /\ pos' = pos + Chunk
  /\ scanned' = scanned + Least(Chunk, End - pos)
  /\ io' = "loop"

IORead ==
  /\ io = "loop" /\ pos < End /\ ~cancelled
  /\ io' = "send"
  /\ UNCHANGED <<fixed, pos, scanned, chunkCh, matchCh, worker, collector, seen, top, emitted,
                 faults, unread, dropped>>

\* A chunk that cannot be read is skipped.
IOFails ==
  /\ io = "loop" /\ pos < End /\ ~cancelled /\ faults < MaxFaults
  /\ Advance
  /\ faults' = faults + 1 /\ unread' = unread \union {pos}
  /\ UNCHANGED <<fixed, chunkCh, matchCh, worker, collector, seen, top, emitted, dropped>>

IOSend ==
  /\ io = "send" /\ Len(chunkCh) < ChunkCap
  /\ chunkCh' = Append(chunkCh, pos)
  /\ Advance
  /\ UNCHANGED <<fixed, matchCh, worker, collector, seen, top, emitted, faults, unread, dropped>>

\* The loop ends, or the context does; the deferred close ends chunkCh.
IOExit ==
  /\ \/ io = "loop" /\ (pos >= End \/ cancelled)
     \/ io = "send" /\ cancelled
  /\ io' = "exited"
  /\ UNCHANGED <<fixed, pos, scanned, chunkCh, matchCh, worker, collector, seen, top, emitted,
                 faults, unread, dropped>>

\* Worker w takes a chunk and searches it.
WorkerTakes(w) ==
  /\ worker[w] = Idle /\ chunkCh # <<>> /\ ~cancelled
  /\ worker' = [worker EXCEPT ![w] = [st |-> "busy", hits |-> Search(Head(chunkCh))]]
  /\ chunkCh' = Tail(chunkCh)
  /\ UNCHANGED <<fixed, io, pos, scanned, matchCh, collector, seen, top, emitted, faults,
                 unread, dropped>>

WorkerSends(w) ==
  /\ worker[w].hits # <<>> /\ Len(matchCh) < MatchCap
  /\ matchCh' = Append(matchCh, Head(worker[w].hits))
  /\ worker' = [worker EXCEPT ![w].hits = Tail(@)]
  /\ UNCHANGED <<fixed, io, pos, scanned, chunkCh, collector, seen, top, emitted, faults,
                 unread, dropped>>

WorkerDone(w) ==
  /\ worker[w].st = "busy" /\ worker[w].hits = <<>>
  /\ worker' = [worker EXCEPT ![w] = Idle]
  /\ UNCHANGED <<fixed, io, pos, scanned, chunkCh, matchCh, collector, seen, top, emitted,
                 faults, unread, dropped>>

(* Mutant: a worker does not look at the context. *)
WorkerExitsAtEnd(w) ==
  /\ worker[w] = Idle /\ chunkCh = <<>> /\ io = "exited"
  /\ worker' = [worker EXCEPT ![w] = Gone]
  /\ UNCHANGED <<fixed, io, pos, scanned, chunkCh, matchCh, collector, seen, top, emitted, faults,
                 unread, dropped>>
\* chunkCh is closed and empty, or the context is cancelled: then what the
\* worker has in hand is dropped.
WorkerExits(w) ==
  /\ \/ worker[w] = Idle /\ chunkCh = <<>> /\ io = "exited" /\ UNCHANGED <<chunkCh, dropped>>
     \/ /\ worker[w] = Idle /\ chunkCh # <<>> /\ cancelled
        /\ chunkCh' = Tail(chunkCh)
        /\ dropped' = dropped \union ToSet(Search(Head(chunkCh)))
     \/ /\ worker[w].st = "busy" /\ cancelled
        /\ dropped' = dropped \union ToSet(worker[w].hits)
        /\ UNCHANGED chunkCh
  /\ worker' = [worker EXCEPT ![w] = Gone]
  /\ UNCHANGED <<fixed, io, pos, scanned, matchCh, collector, seen, top, emitted, faults, unread>>

(* Mutant: everything behind the highest offset is forgotten. *)
PrunedBehind(offsets, highest) == {o \in offsets : o >= highest}
\* Offsets far behind the highest one are forgotten when there are too many.
Pruned(offsets, highest) ==
  IF Cardinality(offsets) > SoftCap THEN {o \in offsets : o >= highest - KeepLag} ELSE offsets

\* The collector's loop body: the first match at an offset decides.
Collect ==
  /\ collector = "running" /\ matchCh # <<>> /\ ~cancelled
  /\ LET h == Head(matchCh)
         highest == IF h.at > top THEN h.at ELSE top IN
     /\ top' = highest
     /\ IF h.at \in seen THEN UNCHANGED <<seen, emitted>>
        ELSE /\ seen' = Pruned(seen \union {h.at}, highest)
             /\ emitted' = IF Sized(h) > 0 THEN Append(emitted, h) ELSE emitted
  /\ matchCh' = Tail(matchCh)
  /\ UNCHANGED <<fixed, io, pos, scanned, chunkCh, worker, collector, faults, unread, dropped>>

\* matchCh is closed when every worker is gone.
CollectorExits ==
  /\ collector = "running"
  /\ \/ matchCh = <<>> /\ Exited
     \/ matchCh # <<>> /\ cancelled
  /\ collector' = "done"
  /\ UNCHANGED <<fixed, io, pos, scanned, chunkCh, matchCh, worker, seen, top, emitted, faults,
                 unread, dropped>>

\* Scan waits for the collector only.
Return ==
  /\ phase = "running" /\ collector = "done"
  /\ phase' = "over"
  /\ UNCHANGED <<start, io, pos, scanned, chunkCh, matchCh, worker, collector, seen, top,
                 emitted, cancelled, saved, scans, faults, history>>

Cancel ==
  /\ phase = "running" /\ ~cancelled
  /\ cancelled' = TRUE
  /\ UNCHANGED <<start, io, pos, scanned, chunkCh, matchCh, worker, collector, seen, top,
                 emitted, phase, saved, scans, faults, history>>

(* Mutant: the chunk that is being read counts. *)
SaveAhead ==
  /\ phase = "running" /\ saved' = Least(pos + Chunk, End)
  /\ UNCHANGED <<start, io, pos, scanned, chunkCh, matchCh, worker, collector, seen, top,
                 emitted, cancelled, phase, scans, faults, history>>
\* The application's persistLoop: the absolute offset of the IO goroutine.
SaveOffset ==
  /\ phase = "running" /\ saved' = start + scanned
  /\ UNCHANGED <<start, io, pos, scanned, chunkCh, matchCh, worker, collector, seen, top,
                 emitted, cancelled, phase, scans, faults, history>>

\* A cancelled scan is continued at the noted offset, with a new engine; what the
\* channels still held is gone, a match that was sent after the collector left too.
Resume ==
  /\ phase = "over" /\ cancelled /\ scans < MaxScans /\ saved < End
  /\ Exited /\ io = "exited"
  /\ Fresh(saved)
  /\ scans' = scans + 1
  /\ before' = before \union ToSet(emitted)
  /\ dropped' = dropped \union ToSet(matchCh)
                       \union UNION {ToSet(Search(off)) : off \in ToSet(chunkCh)}
  /\ UNCHANGED <<saved, faults, unread>>

IO == IORead \/ IOFails \/ IOSend \/ IOExit
Work(w) == WorkerTakes(w) \/ WorkerSends(w) \/ WorkerDone(w) \/ WorkerExits(w)
Collector == Collect \/ CollectorExits \/ Return
Next == IO \/ (\E w \in Workers : Work(w)) \/ Collector \/ Cancel \/ SaveOffset \/ Resume

Spec == Init /\ [][Next]_vars
\* Reads return and every goroutine runs; cancelling and resuming is up to the user.
FairSpec == Spec /\ WF_vars(IO) /\ WF_vars(Collector) /\ \A w \in Workers : WF_vars(Work(w))

----------------------------------------------------------------------------
(* Properties. *)

\* Every variable keeps its shape; the channels stay within their capacities.
TypeOK ==
  /\ start \in 0..End /\ saved \in 0..End /\ pos \in 0..(End + Chunk) /\ top \in 0..End
  /\ io \in {"loop", "send", "exited"} /\ collector \in {"running", "done"}
  /\ scanned \in 0..(End - start)
  /\ chunkCh \in Seq(0..End) /\ Len(chunkCh) <= ChunkCap
  /\ matchCh \in Seq(Headers) /\ Len(matchCh) <= MatchCap
  /\ worker \in [Workers -> [st : {"idle", "busy", "exited"}, hits : Seq(Headers)]]
  /\ emitted \in Seq(Headers) /\ seen \subseteq 0..End
  /\ cancelled \in BOOLEAN /\ phase \in {"running", "over"}
  /\ scans \in 1..MaxScans /\ faults \in 0..MaxFaults
  /\ {before, dropped} \subseteq SUBSET Headers /\ unread \subseteq 0..End

\* No offset is reported twice in one scan, although a header in the overlap is
\* found in two chunks by two workers in any order, unless the collector has forgotten
\* it: there are more offsets than SoftCap, and one more than KeepLag ahead.
Offsets == {h.at : h \in Headers}
Forgettable(o) == Cardinality(Offsets) > SoftCap /\ top > o + KeepLag
OffsetOnce ==
  \A i, j \in DOMAIN emitted :
    i # j /\ emitted[i].at = emitted[j].at => Forgettable(emitted[i].at)

\* The headers a scan has to report: they begin behind its start, end on the device,
\* begin in a chunk that could be read, and no other signature matches there.
Alone(h) == \A g \in Headers : g.at = h.at => g = h
ChunkOf(h) == h.at - ((h.at - start) % Chunk)
Findable(h) == /\ FileSize[h] > 0 /\ Alone(h)
               /\ h.at >= start /\ h.at + h.len <= End
               /\ ChunkOf(h) \notin unread

\* A scan that ran to its end reported every file whose header a chunk holds: none
\* is lost in the channels, in the overlap or at the end of the device.
NoneMissed ==
  phase = "over" /\ ~cancelled => \A h \in Headers : Findable(h) => h \in ToSet(emitted)

\* After a cancelled scan was resumed and ran to its end, a file is missing only if
\* the cancelled scan dropped its header from a channel or a worker: the noted
\* offset never runs ahead of what had been read.
OnlyQueuedLost ==
  phase = "over" /\ ~cancelled =>
    \A h \in Headers :
      (FileSize[h] > 0 /\ Alone(h) /\ \A off \in unread : ~Within(h, off))
        => h \in before \union ToSet(emitted) \union dropped

\* The progress of a scan that was not cancelled ends at exactly the whole range,
\* the partial last chunk included.
ProgressExact == io = "exited" /\ ~cancelled => scanned = End - start

\* Every scan returns, cancelled or not: nobody waits forever on a full channel.
ScanReturns == phase = "running" ~> phase = "over"
=============================================================================
