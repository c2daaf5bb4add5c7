----------------------------- MODULE MCScanApp ------------------------------
(* Constants for checking ScanApp. *)
EXTENDS ScanApp, TLC

CONSTANTS s1, s2, d1, d2

MCScans == {s1, s2}
MCDrives == {d1, d2}

MCOldSessions ==
  {None} \cup {[drive |-> d, offset |-> d, completed |-> FALSE, by |-> None] : d \in MCDrives}

MCSymmetry == Permutations(MCScans) \cup Permutations(MCDrives)
=============================================================================
