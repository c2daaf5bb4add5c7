---------------------------- MODULE FoundDelivery ---------------------------
(***************************************************************************)
(* What the path of a found file from the scan to the session log          *)
(* promises: only files that were found reach the log, each once, and the  *)
(* log only grows.                                                         *)
(***************************************************************************)
EXTENDS SequencesExt

CONSTANT Files

VARIABLES found, logged

Init == found = {} /\ logged = <<>>

Find(f) ==
  /\ f \notin found
  /\ found' = found \cup {f}
  /\ UNCHANGED logged

Write ==
  /\ IsStrictPrefix(logged, logged')
  /\ IsInjective(logged') /\ ToSet(logged') \subseteq found
  /\ UNCHANGED found

Next == (\E f \in Files : Find(f)) \/ Write

Spec == Init /\ [][Next]_<<found, logged>>
=============================================================================
