-------------------------- MODULE MCSecurityGateway --------------------------
(***************************************************************************)
(* Instance of SecurityGateway for TLC.                                    *)
(***************************************************************************)
EXTENDS SecurityGateway, TLC

CONSTANTS u1, u2, i1, i2, q1, q2, q3

Symmetry == Permutations({q1, q2, q3}) \cup Permutations({i1, i2})
=============================================================================
