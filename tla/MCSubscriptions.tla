-------------------------- MODULE MCSubscriptions --------------------------
(***************************************************************************)
(* Instance of Subscriptions for TLC.                                      *)
(***************************************************************************)
EXTENDS Subscriptions

CONSTANTS a1, a2
=============================================================================
