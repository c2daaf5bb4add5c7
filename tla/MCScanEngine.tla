---------------------------- MODULE MCScanEngine ----------------------------
(* Constants for TLC: two scans that compete for the slot, one goroutine    *)
(* that calls Stop again and again, and a resume offset past the end of the *)
(* device. Liveness is checked, so there is no symmetry.                    *)
EXTENDS ScanEngine

CONSTANTS s1, s2, t1

MCScans == {s1, s2}
MCStoppers == {t1}
MCResumeOffsets == {2}
=============================================================================
