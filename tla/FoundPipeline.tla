---------------------------- MODULE FoundPipeline ---------------------------
(***************************************************************************)
(* The path of a found file: scan goroutines hand it to the batcher        *)
(* (internal/scanevent/batcher.go), a full or overdue batch goes into a    *)
(* bounded channel or, if that is full, is emitted on the spot, and the    *)
(* emitter goroutine takes batches out of the channel, sends each to the   *)
(* front end and appends it to the session log                             *)
(* (cmd/data-recovery/app.go).  `Scanner' is the goroutine of the scan,    *)
(* which flushes the batcher when the scan is over and then sends          *)
(* scan:completed or scan:error; `Closer' is the shutdown hook, which      *)
(* flushes at any time.                                                    *)
(***************************************************************************)
EXTENDS Naturals, Sequences, SequencesExt

CONSTANTS
  Workers,    \* goroutines of a scan that report files
  Scanner, Closer,
  Files,
  BatchSize,  \* files in a full batch
  QueueSize   \* capacity of the emitter's channel

ASSUME SizesAssumption == BatchSize \in Nat \ {0} /\ QueueSize \in Nat \ {0}
ASSUME ActorsAssumption == Scanner # Closer /\ {Scanner, Closer} \cap Workers = {}

VARIABLES
  pending,  \* FileFoundBatcher.pending
  queue,    \* emitCh
  pc, held, \* of each goroutine: where it is in emit, and the batch it has
  emitting, \* the emitter's batch and whether the front end has it already
  phase,    \* the scan: running, flushing its last batch, or over
  (* history: files found, files sent to the front end, files handed to      *)
  (* AppendFiles, in order                                                   *)
  found, shown, logged

vars == <<pending, queue, pc, held, emitting, phase, found, shown, logged>>

Actors == Workers \cup {Scanner, Closer}
Batches == Seq(Files)

TypeOK ==
  /\ pending \in Batches /\ Len(pending) < BatchSize
  /\ queue \in Seq(Batches) /\ Len(queue) <= QueueSize
  /\ pc \in [Actors -> {"idle", "emit", "show", "log"}]
  /\ held \in [Actors -> Batches]
  /\ emitting \in [batch : Batches, shown : BOOLEAN]
  /\ phase \in {"running", "flushing", "over"}
  /\ found \subseteq Files
  /\ shown \in Batches
  /\ logged \in Batches

Init ==
  /\ pending = <<>> /\ queue = <<>>
  /\ pc = [a \in Actors |-> "idle"]
  /\ held = [a \in Actors |-> <<>>]
  /\ emitting = [batch |-> <<>>, shown |-> FALSE]
  /\ phase = "running"
  /\ found = {} /\ shown = <<>> /\ logged = <<>>

-----------------------------------------------------------------------------
(* FileFoundBatcher: one section under its mutex, then emit outside it *)

Take(a, batch) ==
  /\ pending' = <<>>
  /\ held' = [held EXCEPT ![a] = batch]
  /\ pc' = [pc EXCEPT ![a] = "emit"]

(* Mutant: what is pending is not cleared when its batch is taken.          *)
AddKeepsPending(a, f) ==
  /\ phase = "running" /\ pc[a] = "idle" /\ f \notin found
  /\ found' = found \cup {f}
  /\ held' = [held EXCEPT ![a] = Append(pending, f)]
  /\ pc' = [pc EXCEPT ![a] = "emit"]
  /\ pending' = IF Len(pending) + 1 < BatchSize THEN Append(pending, f) ELSE <<>>
  /\ UNCHANGED <<queue, emitting, phase, shown, logged>>

(* A batch leaves when it is full, or when the last one left too long ago.  *)
Add(a, f) ==
  /\ phase = "running" /\ pc[a] = "idle" /\ f \notin found
  /\ found' = found \cup {f}
  /\ \/ Take(a, Append(pending, f))
     \/ /\ Len(pending) + 1 < BatchSize
        /\ pending' = Append(pending, f)
        /\ UNCHANGED <<held, pc>>
  /\ UNCHANGED <<queue, emitting, phase, shown, logged>>

(* Mutant: Flush leaves the batch it takes in pending.                      *)
FlushKeepsPending(a) ==
  /\ pc[a] = "idle" /\ pending # <<>>
  /\ held' = [held EXCEPT ![a] = pending]
  /\ pc' = [pc EXCEPT ![a] = "emit"]
  /\ UNCHANGED <<pending, queue, emitting, phase, found, shown, logged>>

Flush(a) ==
  /\ pc[a] = "idle" /\ pending # <<>>
  /\ Take(a, pending)
  /\ UNCHANGED <<queue, emitting, phase, found, shown, logged>>

-----------------------------------------------------------------------------
(* The emit callback: into the channel, or on the spot if it is full *)

Enqueue(a) ==
  /\ pc[a] = "emit" /\ Len(queue) < QueueSize
  /\ queue' = Append(queue, held[a])
  /\ held' = [held EXCEPT ![a] = <<>>]
  /\ pc' = [pc EXCEPT ![a] = "idle"]
  /\ UNCHANGED <<pending, emitting, phase, found, shown, logged>>

(* Mutant: a batch for which there is no room is dropped.                   *)
OverflowDrops(a) ==
  /\ pc[a] = "emit" /\ Len(queue) = QueueSize
  /\ held' = [held EXCEPT ![a] = <<>>]
  /\ pc' = [pc EXCEPT ![a] = "idle"]
  /\ UNCHANGED <<pending, queue, emitting, phase, found, shown, logged>>

Overflow(a) ==
  /\ pc[a] = "emit" /\ Len(queue) = QueueSize
  /\ pc' = [pc EXCEPT ![a] = "show"]
  /\ UNCHANGED <<pending, queue, held, emitting, phase, found, shown, logged>>

(* directEmitBatch, called by a goroutine of the scan or the shutdown hook. *)
DirectShow(a) ==
  /\ pc[a] = "show"
  /\ shown' = shown \o held[a]
  /\ pc' = [pc EXCEPT ![a] = "log"]
  /\ UNCHANGED <<pending, queue, held, emitting, phase, found, logged>>

DirectLog(a) ==
  /\ pc[a] = "log"
  /\ logged' = logged \o held[a]
  /\ held' = [held EXCEPT ![a] = <<>>]
  /\ pc' = [pc EXCEPT ![a] = "idle"]
  /\ UNCHANGED <<pending, queue, emitting, phase, found, shown>>

-----------------------------------------------------------------------------
(* runFileFoundEmitter *)

Receive ==
  /\ emitting.batch = <<>> /\ queue # <<>>
  /\ emitting' = [batch |-> Head(queue), shown |-> FALSE]
  /\ queue' = Tail(queue)
  /\ UNCHANGED <<pending, pc, held, phase, found, shown, logged>>

EmitterShow ==
  /\ emitting.batch # <<>> /\ ~emitting.shown
  /\ shown' = shown \o emitting.batch
  /\ emitting' = [emitting EXCEPT !.shown = TRUE]
  /\ UNCHANGED <<pending, queue, pc, held, phase, found, logged>>

EmitterLog ==
  /\ emitting.shown
  /\ logged' = logged \o emitting.batch
  /\ emitting' = [batch |-> <<>>, shown |-> FALSE]
  /\ UNCHANGED <<pending, queue, pc, held, phase, found, shown>>

-----------------------------------------------------------------------------
(* The end of the scan: its goroutines have returned from their callbacks,  *)
(* what is pending is flushed, and the last event is sent.  After success   *)
(* saveSnapshot flushes first and the flush of emitScanCompleted finds      *)
(* nothing: the two are one here.                                           *)

ScanOver ==
  /\ phase = "running" /\ \A w \in Workers : pc[w] = "idle"
  /\ pc[Scanner] = "idle"
  /\ phase' = "flushing"
  /\ IF pending = <<>> THEN UNCHANGED <<pending, held, pc>> ELSE Take(Scanner, pending)
  /\ UNCHANGED <<queue, emitting, found, shown, logged>>

Completed ==
  /\ phase = "flushing" /\ pc[Scanner] = "idle"
  /\ phase' = "over"
  /\ UNCHANGED <<pending, queue, pc, held, emitting, found, shown, logged>>

-----------------------------------------------------------------------------
EmitStep(a) == Enqueue(a) \/ Overflow(a) \/ DirectShow(a) \/ DirectLog(a)

EmitterStep == Receive \/ EmitterShow \/ EmitterLog

Next ==
  \/ \E w \in Workers, f \in Files : Add(w, f)
  \/ Flush(Closer)  \* saveSnapshot, from flushSessionIfActive
  \/ \E a \in Actors : EmitStep(a)
  \/ EmitterStep
  \/ ScanOver \/ Completed

Spec == Init /\ [][Next]_vars

(* Every goroutine that can go on does (the front end takes its events and *)
(* the file system its writes), and a scan ends.                           *)
Fairness ==
  /\ \A a \in Actors : WF_vars(EmitStep(a))
  /\ WF_vars(EmitterStep) /\ WF_vars(ScanOver) /\ WF_vars(Completed)

FairSpec == Spec /\ Fairness

-----------------------------------------------------------------------------
(* Correctness *)

(* Where a found file may be on its way to the log.                         *)
InHands == UNION {ToSet(held[a]) : a \in Actors}
Queued  == UNION {ToSet(queue[i]) : i \in DOMAIN queue}
Places  == <<ToSet(pending), InHands, Queued, ToSet(emitting.batch), ToSet(logged)>>

(* Each file that was found is in exactly one place on its way to the log:  *)
(* pending, in the hands of one goroutine, in the channel, with the emitter *)
(* or in the log.  No interleaving of Add, Flush, the emitter and a full    *)
(* channel loses one or has one twice.                                      *)
InOnePlace ==
  /\ found = UNION ToSet(Places)
  /\ \A i, j \in DOMAIN Places : i # j => Places[i] \cap Places[j] = {}
  /\ \A a, b \in Actors : a # b => ToSet(held[a]) \cap ToSet(held[b]) = {}
  /\ \A i, j \in DOMAIN queue : i # j => ToSet(queue[i]) \cap ToSet(queue[j]) = {}
  /\ \A s \in {pending, emitting.batch, logged} \cup ToSet(queue) \cup {held[a] : a \in Actors} :
       IsInjective(s)

(* The front end hears of a file before the log has it, and the two differ  *)
(* by the batches that are between EventsEmit and AppendFiles.              *)
ShownBeforeLogged ==
  /\ ToSet(logged) \subseteq ToSet(shown)
  /\ \A f \in ToSet(shown) \ ToSet(logged) :
       \/ emitting.shown /\ f \in ToSet(emitting.batch)
       \/ \E a \in Actors : pc[a] = "log" /\ f \in ToSet(held[a])

Delivery == INSTANCE FoundDelivery

(* The pipeline implements FoundDelivery: no file reaches the log that was  *)
(* not found, and none again.                                               *)
ImplementsDelivery == Delivery!Spec

(* Every file that was found reaches the log: the last flush leaves nothing *)
(* behind and the emitter drains the channel.                               *)
FoundIsLogged == \A f \in Files : f \in found ~> f \in ToSet(logged)

(* What the comments on runFileFoundEmitter and emitScanCompleted say: the  *)
(* scan is reported over only when the front end has every file.            *)
ShownBeforeCompleted == phase = "over" => found \subseteq ToSet(shown)
=============================================================================
