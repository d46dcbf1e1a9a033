-------------------------- MODULE MCAccountStatus --------------------------
(***************************************************************************)
(* Instance of AccountStatus for TLC: one account with a document or       *)
(* without, a second one, an unchecked image and a bad report of each.     *)
(***************************************************************************)
EXTENDS AccountStatus, TLC

CONSTANTS h1, h2, u1, u2, i1, p1, p2

OneItem == [i \in Items |-> u1]
TwoAuthors == [r \in Reports |-> IF r = p1 THEN u1 ELSE u2]

\* The clicks are told apart by nothing but their progress.
ClickSymmetry == Permutations(Clicks)
=============================================================================
