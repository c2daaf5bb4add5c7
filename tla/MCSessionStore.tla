---------------------------- MODULE MCSessionStore --------------------------
(* Constants for TLC: two goroutines, three records, two metadata values.   *)
EXTENDS SessionStore, TLC

CONSTANTS c1, c2, f1, f2, f3, m1, m2

MCClients == {c1, c2}
MCFiles == {f1, f2, f3}
MCMetas == {m1, m2}

(* Interchangeable model values: there are safety properties only.          *)
MCSymmetry == Permutations(MCClients) \cup Permutations(MCFiles)
                \cup Permutations(MCMetas)
=============================================================================
