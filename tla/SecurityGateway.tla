--------------------------- MODULE SecurityGateway ---------------------------
(***************************************************************************)
(* The request handler securityGateway (functions/index.js): it turns      *)
(* blocked accounts away, limits the requests of an account in a minute,   *)
(* and raises an alarm when the account was logged often in an hour.       *)
(*                                                                         *)
(* The limiter counts in the memory of an instance, which is cleared every *)
(* hour and lost with the instance; accounts and log are in Firestore.     *)
(* The paths of the requests, which the limiter keeps apart, are one here. *)
(***************************************************************************)
EXTENDS Integers, FiniteSets

CONSTANTS
    Users,
    Instances,
    Requests,
    Limit,     \* requests in a window (100)
    Window,    \* length of the window (60 s)
    Threshold, \* log entries in an hour (50)
    Hour,
    MaxTime,   \* bound: the time that passes
    MaxLost,   \* bound: log entries that cannot be written
    Unknown    \* the userId of a request whose token is not valid

ASSUME RequestsAssumption == IsFiniteSet(Requests)
ASSUME UnknownAssumption  == Unknown \notin Users
ASSUME TimesAssumption ==
    Window \in Nat /\ Hour \in Nat /\ MaxTime \in Nat /\ Limit \in Nat /\ Threshold \in Nat

VARIABLES
    now,      \* Date.now()
    status,   \* users/<uid>.status of each account
    pc,       \* what each request waits for, or how it was answered
    user,     \* whose token it has
    inst,     \* the instance that handles it
    at,       \* when the limiter let it through
    kept,     \* requestCounts of each instance: the requests it remembers
    log,      \* security_logs
    accepted, \* history: let through by each instance since its memory was cleared
    free,     \* history: requests whose account was not blocked at some time
    before,   \* history: the log entries of its account when a request came
    counted,  \* history: when the entries were counted for a request
    unlogged  \* history: log entries that could not be written

requestVars == <<pc, user, inst, at>>
memory      == <<kept, accepted>>
logVars     == <<log, unlogged>>
vars        == <<now, status, requestVars, memory, logVars, free, before, counted>>

-----------------------------------------------------------------------------
Statuses == {"active", "blocked", "suspended"}
Waiting  == {"status", "blocked log", "limit log", "query", "alarm log", "access log"}
Answers  == {"401", "403", "429", "served", "dropped"}
Events   == {"INVALID_TOKEN", "BLOCKED_USER_ACCESS", "RATE_LIMIT_EXCEEDED",
             "RAPID_ACTIONS", "API_ACCESS"}

Times == 0 .. MaxTime

Entry == [event : Events, userId : Users \cup {Unknown}, of : Requests, time : Times]

EntriesOf(u) == {e \in log : e.userId = u}

Init ==
    /\ now = 0
    /\ status = [u \in Users |-> "active"]
    /\ pc = [q \in Requests |-> "none"]
    /\ user = [q \in Requests |-> Unknown]
    /\ inst \in [Requests -> Instances]
    /\ at = [q \in Requests |-> 0]
    /\ kept = [i \in Instances |-> {}] /\ accepted = [i \in Instances |-> {}]
    /\ log = {} /\ unlogged = {}
    /\ free = {}
    /\ before = [q \in Requests |-> {}] /\ counted = [q \in Requests |-> 0]

Tick ==
    /\ now < MaxTime
    /\ now' = now + 1
    /\ UNCHANGED <<status, requestVars, memory, logVars, free, before, counted>>

\* An account is blocked, suspended or free again; its requests go on.
SetStatus(u, s) ==
    /\ status' = [status EXCEPT ![u] = s]
    /\ free' = IF s = "active"
               THEN free \cup {q \in Requests : pc[q] \in Waiting /\ user[q] = u}
               ELSE free
    /\ UNCHANGED <<now, requestVars, memory, logVars, before, counted>>

-----------------------------------------------------------------------------
(***************************************************************************)
(* A request.                                                              *)
(***************************************************************************)
\* logSecurityEvent swallows the error of a write.
Log(q, u, event) ==
    LET e == [event |-> event, userId |-> u, of |-> q, time |-> now]
    IN \/ log' = log \cup {e} /\ UNCHANGED unlogged
       \/ /\ Cardinality(unlogged) < MaxLost
          /\ unlogged' = unlogged \cup {e} /\ UNCHANGED log

Goes(q, where) == pc' = [pc EXCEPT ![q] = where]

Arrive(q, u) ==
    /\ pc[q] = "none"
    /\ Goes(q, "status")
    /\ user' = [user EXCEPT ![q] = u]
    /\ before' = [before EXCEPT ![q] = EntriesOf(u)]
    /\ free' = IF status[u] = "active" THEN free \cup {q} ELSE free
    /\ UNCHANGED <<now, status, inst, at, memory, logVars, counted>>

\* No authorization header: answered without an entry in the log.
ArriveBare(q) ==
    /\ pc[q] = "none"
    /\ Goes(q, "401")
    /\ UNCHANGED <<now, status, user, inst, at, memory, logVars, free, before, counted>>

ArriveInvalid(q) ==
    /\ pc[q] = "none"
    /\ Goes(q, "401") /\ Log(q, Unknown, "INVALID_TOKEN")
    /\ UNCHANGED <<now, status, user, inst, at, memory, free, before, counted>>

\* Mutant: accounts that are suspended come through.
IsBlocked(u) == status[u] = "blocked"
IsUserBlocked(u) == status[u] \in {"blocked", "suspended"}

\* Mutant: the requests of the last window are forgotten one moment early.
InShortWindow(q) == {p \in kept[inst[q]] : user[p] = user[q] /\ at[p] > now - Window + 1}
\* Mutant: what is remembered counts, however old it is.
InMemory(q) == {p \in kept[inst[q]] : user[p] = user[q]}
\* The requests of the account in the window that the instance remembers.
InWindow(q) == {p \in kept[inst[q]] : user[p] = user[q] /\ at[p] > now - Window}

OfOthers(q) == {p \in kept[inst[q]] : user[p] # user[q]}

\* Mutant: the start of the window is remembered.
StampStart == now - Window
Stamp == now

\* Nothing is awaited between the answer about the account and the limiter.
LetThrough(q) ==
    /\ Goes(q, "query")
    /\ at' = [at EXCEPT ![q] = Stamp]
    /\ kept' = [kept EXCEPT ![inst[q]] = OfOthers(q) \cup InWindow(q) \cup {q}]
    /\ accepted' = [accepted EXCEPT ![inst[q]] = @ \cup {q}]

TurnAway(q, where) == Goes(q, where) /\ UNCHANGED <<at, memory>>

ReadStatus(q) ==
    /\ pc[q] = "status"
    /\ \/ IsUserBlocked(user[q]) /\ TurnAway(q, "blocked log")
       \/ /\ ~IsUserBlocked(user[q])
          /\ IF Cardinality(InWindow(q)) >= Limit THEN TurnAway(q, "limit log")
             ELSE LetThrough(q)
    /\ UNCHANGED <<now, status, user, inst, logVars, free, before, counted>>

WriteLog(q, where, event, then) ==
    /\ pc[q] = where
    /\ Log(q, user[q], event)
    /\ Goes(q, then)
    /\ UNCHANGED <<now, status, user, inst, at, memory, free, before, counted>>

Refuse403(q) == WriteLog(q, "blocked log", "BLOCKED_USER_ACCESS", "403")
Refuse429(q) == WriteLog(q, "limit log", "RATE_LIMIT_EXCEEDED", "429")

\* Mutant: entries are counted over a window of the limiter.
InLastWindow(entries) == {e \in entries : e.time > now - Window}
InLastHour(entries) == {e \in entries : e.time > now - Hour}

Count(q) ==
    /\ pc[q] = "query"
    /\ Goes(q, IF Cardinality(InLastHour(EntriesOf(user[q]))) > Threshold
               THEN "alarm log" ELSE "access log")
    /\ counted' = [counted EXCEPT ![q] = now]
    /\ UNCHANGED <<now, status, user, inst, at, memory, logVars, free, before>>

RaiseAlarm(q) == WriteLog(q, "alarm log", "RAPID_ACTIONS", "access log")
Serve(q)      == WriteLog(q, "access log", "API_ACCESS", "served")

\* A read of Firestore throws, which nobody catches.
Throw(q) ==
    /\ pc[q] \in {"status", "query"}
    /\ Goes(q, "dropped")
    /\ UNCHANGED <<now, status, user, inst, at, memory, logVars, free, before, counted>>

-----------------------------------------------------------------------------
Clear(i) ==
    /\ kept' = [kept EXCEPT ![i] = {}]
    /\ accepted' = [accepted EXCEPT ![i] = {}]
    /\ UNCHANGED <<now, status, logVars, user, inst, at, free, before, counted>>

HourlyClear(i) == Clear(i) /\ UNCHANGED pc

\* The instance is stopped, with the requests it handles.
StopInstance(i) ==
    /\ Clear(i)
    /\ pc' = [q \in Requests |-> IF inst[q] = i /\ pc[q] \in Waiting THEN "dropped" ELSE pc[q]]

-----------------------------------------------------------------------------
RequestStep(q) ==
    \/ ArriveBare(q) \/ ArriveInvalid(q) \/ \E u \in Users : Arrive(q, u)
    \/ ReadStatus(q) \/ Refuse403(q) \/ Refuse429(q)
    \/ Count(q) \/ RaiseAlarm(q) \/ Serve(q) \/ Throw(q)

Next ==
    \/ Tick
    \/ \E u \in Users, s \in Statuses : SetStatus(u, s)
    \/ \E q \in Requests : RequestStep(q)
    \/ \E i \in Instances : HourlyClear(i) \/ StopInstance(i)

Spec == Init /\ [][Next]_vars

-----------------------------------------------------------------------------
TypeOK ==
    /\ now \in Times
    /\ status \in [Users -> Statuses]
    /\ pc \in [Requests -> {"none"} \cup Waiting \cup Answers]
    /\ user \in [Requests -> Users \cup {Unknown}]
    /\ inst \in [Requests -> Instances]
    /\ at \in [Requests -> Times]
    /\ kept \in [Instances -> SUBSET Requests]
    /\ accepted \in [Instances -> SUBSET Requests]
    /\ log \subseteq Entry /\ unlogged \subseteq Entry
    /\ free \subseteq Requests
    /\ before \in [Requests -> SUBSET Entry]
    /\ counted \in [Requests -> Times]
    /\ \A q \in Requests : pc[q] \in Waiting \cup {"403", "429", "served"} => user[q] \in Users

\* In no window of time does an instance let more than Limit requests of an
\* account through, unless its memory is cleared (index.js:31-59).
WithinLimit ==
    \A i \in Instances, u \in Users, t \in Times :
        Cardinality({q \in accepted[i] : user[q] = u /\ t - Window < at[q] /\ at[q] <= t})
            <= Limit

Through == {q \in Requests : pc[q] \in {"query", "alarm log", "access log", "served"}}
Refused == {q \in Requests : pc[q] \in {"limit log", "429"}}

Limiter == INSTANCE SlidingWindow WITH
              granted <- accepted, through <- Through, refused <- Refused

\* The limiter counts exactly, although it forgets what fell out of the window
\* when it looks, and only for the account that asks: it implements the one
\* that forgets nothing.  Nobody is refused below the limit, and nobody gets
\* past it without being counted (index.js:40-59, 168).
LimiterIsExact == Limiter!Spec

\* A request of an account that was blocked or suspended all the while is never
\* served (index.js:157).
BlockedTurnedAway == \A q \in Requests : pc[q] = "served" => q \in free

\* A request is served with an alarm if its account had more than Threshold log
\* entries when it came, which were not older than an hour when they were
\* counted, unless the alarm could not be written (index.js:93-120, 187).
AlarmRaised ==
    \A q \in Requests :
        /\ pc[q] = "served"
        /\ Cardinality({e \in before[q] : e.time > counted[q] - Hour}) > Threshold
        => \E e \in log \cup unlogged : e.of = q /\ e.event = "RAPID_ACTIONS"
=============================================================================
