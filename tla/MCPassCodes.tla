---------------------------- MODULE MCPassCodes ----------------------------
(***************************************************************************)
(* Instances of PassCodes for TLC.                                         *)
(***************************************************************************)
EXTENDS PassCodes

CONSTANTS r1, r2, n1, u1, u2, c1, c2
=============================================================================
