---------------------------- MODULE SlidingWindow ----------------------------
(***************************************************************************)
(* What the limiter of the gateway promises: it counts exactly.  Every     *)
(* instance admits a request as long as it admitted fewer than Limit of    *)
(* the same account in the last Window, and refuses it only if it admitted *)
(* that many.  Only what is admitted goes through.                         *)
(*                                                                         *)
(* Nothing is pruned here: an instance knows every request that it ever    *)
(* admitted, until it forgets them all.                                    *)
(***************************************************************************)
EXTENDS Integers, FiniteSets

CONSTANTS Users, Instances, Requests, Limit, Window, Unknown

VARIABLES
    now,
    user,      \* the account of each request
    inst,      \* the instance that handles it
    at,        \* when it was admitted
    granted,   \* the requests that each instance admitted
    through,   \* admitted requests that are being served or have been
    refused    \* requests that are being refused or have been

Init ==
    /\ now = 0
    /\ user = [q \in Requests |-> Unknown]
    /\ inst \in [Requests -> Instances]
    /\ at = [q \in Requests |-> 0]
    /\ granted = [i \in Instances |-> {}]
    /\ through = {} /\ refused = {}

\* The requests of the account of q that its instance admitted of late.
Recent(q) == {p \in granted[inst[q]] : user[p] = user[q] /\ at[p] > now - Window}

Pass ==
    /\ now' > now
    /\ UNCHANGED <<user, inst, at, granted, through, refused>>

Arrive(q, u) ==
    /\ q \notin through \cup refused \cup UNION {granted[i] : i \in Instances}
    /\ user' = [user EXCEPT ![q] = u]
    /\ UNCHANGED <<now, inst, at, granted, through, refused>>

Admit(q) ==
    /\ q \notin through \cup refused
    /\ Cardinality(Recent(q)) < Limit
    /\ at' = [at EXCEPT ![q] = now]
    /\ granted' = [granted EXCEPT ![inst[q]] = @ \cup {q}]
    /\ through' = through \cup {q}
    /\ UNCHANGED <<now, user, inst, refused>>

Refuse(q) ==
    /\ q \notin through \cup refused
    /\ Cardinality(Recent(q)) >= Limit
    /\ refused' = refused \cup {q}
    /\ UNCHANGED <<now, user, inst, at, granted, through>>

\* Requests are lost on the way to their answer.
Lose ==
    /\ through' \subseteq through /\ refused' \subseteq refused
    /\ UNCHANGED <<now, user, inst, at>>

Drop == Lose /\ UNCHANGED granted

Forget(i) == Lose /\ granted' = [granted EXCEPT ![i] = {}]

Next ==
    \/ Pass
    \/ Drop
    \/ \E q \in Requests : Admit(q) \/ Refuse(q) \/ \E u \in Users : Arrive(q, u)
    \/ \E i \in Instances : Forget(i)

Spec == Init /\ [][Next]_<<now, user, inst, at, granted, through, refused>>
=============================================================================
