---------------------------- MODULE MCUpdateApply ----------------------------
(* Constants for checking UpdateApply: room for a window, a helper and one   *)
(* more process of either kind.                                              *)
EXTENDS UpdateApply

CONSTANTS p1, p2, p3

MCProc == {p1, p2, p3}
=============================================================================
