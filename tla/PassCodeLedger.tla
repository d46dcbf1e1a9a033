--------------------------- MODULE PassCodeLedger ---------------------------
(***************************************************************************)
(* What pass codes promise even when their use races: a spent code stays   *)
(* spent, only an attempt that found its code unspent is ever granted, for *)
(* that one code, and an attempt that was turned away never is.            *)
(***************************************************************************)
CONSTANTS Attempts, Codes, NoCode

VARIABLES
    spent,   \* codes marked as used
    open,    \* the code that an attempt found unspent
    granted, \* attempts that made their account premium
    turned   \* attempts that were told no

vars == <<spent, open, granted, turned>>

Init ==
    /\ spent = {}
    /\ open = [a \in Attempts |-> NoCode]
    /\ granted = {}
    /\ turned = {}

Open(a, c) ==
    /\ open[a] = NoCode
    /\ a \notin turned
    /\ c \notin spent
    /\ open' = [open EXCEPT ![a] = c]
    /\ UNCHANGED <<spent, granted, turned>>

\* Only a code that some attempt found unspent gets spent.
Spend(c) ==
    /\ \E a \in Attempts : open[a] = c
    /\ spent' = spent \cup {c}
    /\ UNCHANGED <<open, granted, turned>>

Grant(a) ==
    /\ open[a] # NoCode
    /\ granted' = granted \cup {a}
    /\ UNCHANGED <<spent, open, turned>>

TurnAway(a) ==
    /\ open[a] = NoCode
    /\ turned' = turned \cup {a}
    /\ UNCHANGED <<spent, open, granted>>

Next ==
    \/ \E a \in Attempts :
         \/ \E c \in Codes : Open(a, c)
         \/ Grant(a)
         \/ TurnAway(a)
    \/ \E c \in Codes : Spend(c)

Spec == Init /\ [][Next]_vars
=============================================================================
