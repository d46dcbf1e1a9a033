--------------------------- MODULE MCSavedReports ---------------------------
(***************************************************************************)
(* Instances of SavedReports for TLC: two tabs of a browser.               *)
(***************************************************************************)
EXTENDS SavedReports

CONSTANTS t1, t2, a1, a2, x1, x2, r1, r2

Symmetry == Permutations({t1, t2}) \cup Permutations({a1, a2})
            \cup Permutations({x1, x2}) \cup Permutations({r1, r2})
=============================================================================
