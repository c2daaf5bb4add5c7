--------------------------- MODULE MCResilientRead --------------------------
(* Two callers on a device of five sectors of two units, all damaged but   *)
(* the last one, so that a probe grows beyond a sector; requests for the    *)
(* whole device, for parts that reach beyond the end, one of them not aligned, *)
(* and for one that can be read at once.                                    *)
EXTENDS ResilientRead

CONSTANTS c1, c2

MCCallers == {c1, c2}
MCDamaged == {0, 2, 4, 6}
MCRequests == {[off |-> 0, len |-> 10], [off |-> 4, len |-> 8], [off |-> 7, len |-> 5],
               [off |-> 8, len |-> 4]}
=============================================================================
