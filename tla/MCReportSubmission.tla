------------------------- MODULE MCReportSubmission -------------------------
(***************************************************************************)
(* Instances of ReportSubmission for TLC.                                  *)
(***************************************************************************)
EXTENDS ReportSubmission, TLC

CONSTANTS s1, s2, u1, u2, good, bad, lewd

\* Runs and accounts are interchangeable.
Runs == Permutations(Submissions)
=============================================================================
