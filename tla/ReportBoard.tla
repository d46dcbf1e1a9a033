---------------------------- MODULE ReportBoard ----------------------------
(***************************************************************************)
(* What submitting a report promises, without saying how: a submission     *)
(* appears on the board at most once, the user is told something about it  *)
(* at most once, and what the user is told is true.  "published" means the *)
(* report is on the board, "refused" that it is not and never will be;     *)
(* "unknown" is an error message, after which both are possible.           *)
(***************************************************************************)
CONSTANT Submissions

VARIABLES
    board,  \* submissions whose report is in the collection
    told    \* what the user was told about each

vars == <<board, told>>

Verdicts == {"nothing", "published", "refused", "unknown"}

Init ==
    /\ board = {}
    /\ told = [s \in Submissions |-> "nothing"]

\* The report may also appear before the user hears of it, or after an error.
Publish(s) ==
    /\ s \notin board
    /\ told[s] # "refused"
    /\ board' = board \cup {s}
    /\ UNCHANGED told

Tell(s, v) ==
    /\ told[s] = "nothing"
    /\ v = "published" => s \in board
    /\ v = "refused" => s \notin board
    /\ told' = [told EXCEPT ![s] = v]
    /\ UNCHANGED board

Next ==
    \E s \in Submissions :
        \/ Publish(s)
        \/ \E v \in Verdicts \ {"nothing"} : Tell(s, v)

Spec == Init /\ [][Next]_vars
=============================================================================
