---------------------------- MODULE MCShareLinks ----------------------------
(***************************************************************************)
(* Instance of ShareLinks for TLC.                                         *)
(***************************************************************************)
EXTENDS ShareLinks

CONSTANTS r1, r2, p1, o1, v1
=============================================================================
