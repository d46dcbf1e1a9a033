--------------------------- MODULE AccountStatus ---------------------------
(***************************************************************************)
(* Who is blocked, and why: the admin panel (admin.html) rules on reports  *)
(* and on unchecked images, counts violations, scans and blocks; a timer   *)
(* of the panel blocks repeat offenders; the functions blockUser and       *)
(* unblockUser, and a redeemed pass code, write the same field.            *)
(*                                                                         *)
(* Each handler is a chain of Firestore requests without a transaction.  A *)
(* click is one run of such a handler; two clicks may be in flight, in two *)
(* windows of the panel or because the panel stays usable.                 *)
(***************************************************************************)
EXTENDS Integers, FiniteSets

CONSTANTS
    Clicks,         \* runs of the handlers that take several requests
    Users,          \* user ids found in reports, items and logs
    Items,          \* entries of moderation_pending
    ItemOwner,      \* userId of each item
    Reports,        \* reports on the board
    Author,         \* userId of each report
    Bad,            \* reports with a prohibited keyword
    ViolationLimit, \* confirmed images that block the account (3)
    OffenderLimit,  \* log entries that block the account (5)
    MaxLogs,        \* bound: more log entries are not told apart
    MaxFailures,    \* bound: requests that fail, panels that are closed
    Nobody

ASSUME UsersAssumption == Nobody \notin Users
ASSUME ReportsAssumption == Author \in [Reports -> Users] /\ Bad \subseteq Reports
ASSUME ItemsAssumption == ItemOwner \in [Items -> Users]
ASSUME LimitsAssumption ==
    /\ {ViolationLimit, OffenderLimit} \subseteq Nat \ {0}
    /\ {MaxLogs, MaxFailures} \subseteq Nat /\ OffenderLimit <= MaxLogs

VARIABLES
    status,     \* status in users/<uid>; "none": there is no such document
    violations, \* violations in users/<uid>
    logs,       \* high entries of the last 30 days in security_logs
    board,      \* the collection reports
    flagged,    \* those of them that are flagged
    at,         \* the request each click is about to make
    read,       \* what a review read from the account
    left,       \* reports a click still has to write
    owners,     \* accounts a click still has to write
    offenders,  \* accounts the timer still has to look up
    looked,     \* the account the timer found not to be blocked
    failures,   \* failed requests and closed panels so far
    decided,    \* history: the last decision about each account
    muddled,    \* history: its status changed behind a review's back
    tally,      \* history: reviews that counted a violation
    miscounted, \* history: two reviews of the account overlapped
    open,       \* history: reports ruled against since the last block
    dropped     \* history: accounts whose block a failure cut off

accountVars == <<status, violations, logs>>
boardVars   == <<board, flagged>>
clickVars   == <<at, left, owners, read>>
timerVars   == <<offenders, looked>>
decideVars  == <<decided, muddled>>
countVars   == <<tally, miscounted>>
rulingVars  == <<open, dropped>>
histVars    == <<decideVars, countVars, rulingVars>>
vars == <<accountVars, boardVars, clickVars, timerVars, failures, histVars>>

-----------------------------------------------------------------------------
Steps == {"readAccount", "count", "judge", "block", "log",
          "delete", "scan", "blockOwners"}

InFlight(h) == at[h] \in Steps

Init ==
    /\ status \in [Users -> {"none", "active"}]
    /\ violations = [u \in Users |-> 0]
    /\ logs = [u \in Users |-> 0]
    /\ board = Reports
    /\ flagged \in {{}, Bad}     \* an earlier scan flagged them
    /\ at = [h \in Clicks |-> "idle"]
    /\ read = [h \in Clicks |-> [n |-> 0, st |-> "active"]]
    /\ left = [h \in Clicks |-> {}]
    /\ owners = [h \in Clicks |-> {}]
    /\ offenders = {}
    /\ looked = Nobody
    /\ failures = 0
    /\ decided = [u \in Users |-> "none"]
    /\ muddled = {}
    /\ tally = [u \in Users |-> 0]
    /\ miscounted = {}
    /\ open = {}
    /\ dropped = {}

-----------------------------------------------------------------------------
\* Reviews of u between the read of the account and the write.
Reviewing(u) == {h \in Clicks : at[h] = "count" /\ u \in owners[h]}

\* A write of status that is a decision about u.
Decide(u, d, others) ==
    /\ status' = [status EXCEPT ![u] = IF d = "block" THEN "blocked" ELSE "active"]
    /\ decided' = [decided EXCEPT ![u] = d]
    /\ muddled' = IF others = {} THEN muddled \ {u} ELSE muddled \cup {u}

\* updateDoc of the account with status blocked.
Block(u, others) ==
    /\ Decide(u, "block", others)
    /\ open' = {r \in open : Author[r] # u}
    /\ dropped' = dropped \ {u}

\* An entry of severity high.
Log(u) == logs' = [logs EXCEPT ![u] = IF @ < MaxLogs THEN @ + 1 ELSE @]

\* The click goes on with a request, or has done the last one.
Go(h, step) == at' = [at EXCEPT ![h] = step]

Keep(h, rs, us) ==
    /\ left' = [left EXCEPT ![h] = rs]
    /\ owners' = [owners EXCEPT ![h] = us]

\* The click stops here; accounts it was to block are not blocked.
Stop(h) ==
    /\ Go(h, "done")
    /\ dropped' = dropped \cup
          IF at[h] \in {"block", "scan", "blockOwners"} THEN owners[h] ELSE {}
    /\ UNCHANGED <<accountVars, boardVars, left, owners, read, timerVars,
                   decideVars, countVars, open>>

-----------------------------------------------------------------------------
(***************************************************************************)
(* The clicks.  The lists were rendered earlier: an item on one of them    *)
(* may be reviewed already, a report cleared or deleted.                   *)
(***************************************************************************)
Click(h, step, rs, us) ==
    /\ at[h] = "idle"
    /\ Go(h, step)
    /\ Keep(h, rs, us)
    /\ UNCHANGED <<accountVars, boardVars, read, timerVars, failures, histVars>>

\* ClickBlockUser is the function blockUser, which the list of users calls.
ClickBlockItem(h, i)  == Click(h, "readAccount", {}, {ItemOwner[i]})
ClickConfirm(h, r)    == Click(h, "judge", {r}, {Author[r]})
ClickBlockUser(h, u)  == Click(h, "block", {}, {u})
ClickScan(h) ==
    Bad \cap board # {} /\ Click(h, "scan", Bad \cap board, {})
ClickDeleteFlagged(h) ==
    flagged # {} /\ Click(h, "delete", flagged, {})
ClickBlockOwners(h) ==
    flagged # {} /\ Click(h, "blockOwners", {}, {Author[r] : r \in flagged})

-----------------------------------------------------------------------------
(***************************************************************************)
(* Review of an image that could not be checked.                           *)
(***************************************************************************)
\* Mutant: violations starts from 0 each time.
AccountStatusOnly(u) == [n |-> 0, st |-> status[u]]
AccountData(u) == [n |-> violations[u], st |-> status[u]]

\* Mutant: userSnap.exists() is not asked.
AfterAnyRead(u) == "count"
AfterRead(u) == IF status[u] = "none" THEN "done" ELSE "count"

ReadAccount(h, u) ==
    /\ at[h] = "readAccount" /\ u \in owners[h]
    /\ Go(h, AfterRead(u))
    /\ read' = [read EXCEPT ![h] = AccountData(u)]
    /\ UNCHANGED <<accountVars, boardVars, left, owners, timerVars, failures,
                   histVars>>

\* Mutant: the account is active below the limit.
NewStatusActive(h) == "active"

\* Below the limit the status that was read is written back.
NewStatus(h) == read[h].st

WriteBack(h, u, others) ==
    /\ status' = [status EXCEPT ![u] = NewStatus(h)]
    /\ muddled' = IF others = {} THEN muddled ELSE muddled \cup {u}
    /\ UNCHANGED <<decided, rulingVars>>

CountViolation(h, u) ==
    LET n == read[h].n + 1
        others == Reviewing(u) \ {h}
    IN
    /\ at[h] = "count" /\ u \in owners[h]
    /\ Go(h, "done")
    /\ violations' = [violations EXCEPT ![u] = n]
    /\ tally' = [tally EXCEPT ![u] = @ + 1]
    /\ miscounted' = IF others = {} THEN miscounted ELSE miscounted \cup {u}
    /\ \/ n >= ViolationLimit /\ Block(u, others)
       \/ n < ViolationLimit /\ WriteBack(h, u, others)
    /\ UNCHANGED <<logs, boardVars, left, owners, read, timerVars, failures>>

-----------------------------------------------------------------------------
(***************************************************************************)
(* Rulings: on one report, or on all of a snapshot one after the other.    *)
(***************************************************************************)
Judge(h, r) ==
    /\ at[h] = "judge" /\ r \in left[h]
    /\ Go(h, IF r \in board THEN "block" ELSE "done")
    /\ open' = IF r \in board THEN open \cup {r} ELSE open
    /\ UNCHANGED <<accountVars, boardVars, left, owners, read, timerVars,
                   failures, decideVars, countVars, dropped>>

\* Mutant: the author is not collected.
CollectedNobody(h, r) == owners[h]
Collected(h, r) == owners[h] \cup {Author[r]}

\* One request per report with a keyword, cleared ones included.
ScanReport(h, r) ==
    /\ at[h] = "scan" /\ r \in left[h] \cap board
    /\ flagged' = flagged \cup {r}
    /\ Keep(h, left[h] \ {r}, Collected(h, r))
    /\ open' = open \cup {r}
    /\ Go(h, IF left[h] = {r} THEN "blockOwners" ELSE "scan")
    /\ UNCHANGED <<accountVars, board, read, timerVars, failures, decideVars,
                   countVars, dropped>>

\* updateDoc of a report that was deleted throws: nobody is blocked.
ScanAborts(h, r) ==
    /\ at[h] = "scan" /\ r \in left[h] \ board
    /\ Stop(h)
    /\ UNCHANGED failures

DeleteFlagged(h, r) ==
    /\ at[h] = "delete" /\ r \in left[h]
    /\ board' = board \ {r}
    /\ flagged' = flagged \ {r}
    /\ Keep(h, left[h] \ {r}, {})
    /\ Go(h, IF left[h] = {r} THEN "done" ELSE "delete")
    /\ UNCHANGED <<accountVars, read, timerVars, failures, histVars>>

\* After one account there is a log entry, after several there is none.
BlockNext(h, u) ==
    IF at[h] = "block" THEN "log"
    ELSE IF owners[h] = {u} THEN "done" ELSE "blockOwners"

BlockOwner(h, u) ==
    /\ at[h] \in {"block", "blockOwners"} /\ u \in owners[h] /\ status[u] # "none"
    /\ Block(u, Reviewing(u))
    /\ Go(h, BlockNext(h, u))
    /\ Keep(h, left[h], IF at[h] = "block" THEN {u} ELSE owners[h] \ {u})
    /\ UNCHANGED <<violations, logs, boardVars, read, timerVars, failures,
                   countVars>>

\* updateDoc of no document throws.
OwnerMissing(h, u) ==
    /\ at[h] \in {"block", "blockOwners"} /\ u \in owners[h] /\ status[u] = "none"
    /\ Stop(h)
    /\ UNCHANGED failures

LogBlock(h, u) ==
    /\ at[h] = "log" /\ u \in owners[h]
    /\ Go(h, "done")
    /\ Log(u)
    /\ UNCHANGED <<status, violations, boardVars, left, owners, read,
                   timerVars, failures, histVars>>

\* A request fails or the panel is closed.
ClickFails(h) ==
    /\ InFlight(h)
    /\ failures < MaxFailures
    /\ failures' = failures + 1
    /\ Stop(h)

-----------------------------------------------------------------------------
(***************************************************************************)
(* Repeat offenders: a timer of the panel, every six hours.                *)
(***************************************************************************)
Offenders == {u \in Users : logs[u] >= OffenderLimit}

StartRound ==
    /\ offenders = {} /\ Offenders # {}
    /\ offenders' = Offenders
    /\ UNCHANGED <<accountVars, boardVars, clickVars, looked, failures, histVars>>

EndRound == offenders' = {} /\ looked' = Nobody

\* Mutant: return instead of going on with the next account.
SkipAll(u) == EndRound
Skip(u) == offenders' = offenders \ {u} /\ UNCHANGED looked

\* userDoc.exists is a function here: data() of no document throws.
LookUp(u) ==
    /\ u \in offenders /\ looked = Nobody
    /\ \/ status[u] = "none" /\ EndRound
       \/ /\ status[u] = "active"
          /\ looked' = u
          /\ UNCHANGED offenders
       \/ status[u] = "blocked" /\ Skip(u)
    /\ UNCHANGED <<accountVars, boardVars, clickVars, failures, histVars>>

BlockOffender ==
    /\ looked # Nobody
    /\ Block(looked, Reviewing(looked))
    /\ offenders' = offenders \ {looked}
    /\ looked' = Nobody
    /\ UNCHANGED <<violations, logs, boardVars, clickVars, failures, countVars>>

RoundFails ==
    /\ offenders # {}
    /\ failures < MaxFailures
    /\ failures' = failures + 1
    /\ EndRound
    /\ UNCHANGED <<accountVars, boardVars, clickVars, histVars>>

-----------------------------------------------------------------------------
(***************************************************************************)
(* Handlers of one request, and the functions.                             *)
(***************************************************************************)
\* The account stays as it is.
ClearFlag(r) ==
    /\ r \in board
    /\ flagged' = flagged \ {r}
    /\ UNCHANGED <<accountVars, board, clickVars, timerVars, failures, histVars>>

FixExpiredUser(u) ==
    /\ status[u] # "none"
    /\ Block(u, Reviewing(u))
    /\ UNCHANGED <<violations, logs, boardVars, clickVars, timerVars, failures,
                   countVars>>

Lift(u) ==
    /\ Decide(u, "lift", Reviewing(u))
    /\ UNCHANGED <<violations, logs, boardVars, clickVars, timerVars, failures,
                   countVars, rulingVars>>

UnblockUser(u) == status[u] # "none" /\ Lift(u)

\* The PATCH of a redeemed pass code creates the document if there is none.
RedeemCode(u) == Lift(u)

\* securityGateway: access of a blocked account, many actions, a bad token.
GatewayLogs(u) ==
    /\ Log(u)
    /\ UNCHANGED <<status, violations, boardVars, clickVars, timerVars,
                   failures, histVars>>

LogAges(u) ==
    /\ logs[u] > 0
    /\ logs' = [logs EXCEPT ![u] = @ - 1]
    /\ UNCHANGED <<status, violations, boardVars, clickVars, timerVars,
                   failures, histVars>>

-----------------------------------------------------------------------------
ClickStart(h) ==
    \/ \E i \in Items : ClickBlockItem(h, i)
    \/ \E r \in Reports : ClickConfirm(h, r)
    \/ \E u \in Users : ClickBlockUser(h, u)
    \/ ClickDeleteFlagged(h) \/ ClickScan(h) \/ ClickBlockOwners(h)

ClickStep(h) ==
    \/ \E u \in Users : \/ ReadAccount(h, u) \/ CountViolation(h, u)
                        \/ BlockOwner(h, u) \/ OwnerMissing(h, u) \/ LogBlock(h, u)
    \/ \E r \in Reports : \/ Judge(h, r) \/ ScanReport(h, r) \/ ScanAborts(h, r)
                          \/ DeleteFlagged(h, r)

TimerStep == BlockOffender \/ \E u \in Users : LookUp(u)

OneRequest(u) ==
    FixExpiredUser(u) \/ UnblockUser(u) \/ RedeemCode(u) \/ GatewayLogs(u) \/ LogAges(u)

Next ==
    \/ \E h \in Clicks : ClickStart(h) \/ ClickStep(h) \/ ClickFails(h)
    \/ \E r \in Reports : ClearFlag(r)
    \/ StartRound \/ TimerStep \/ RoundFails
    \/ \E u \in Users : OneRequest(u)

Spec == Init /\ [][Next]_vars

\* The panel stays open, its timer goes off again and its requests settle.
FairSpec == Spec /\ WF_vars(StartRound) /\ WF_vars(TimerStep)

-----------------------------------------------------------------------------
TypeOK ==
    /\ status \in [Users -> {"none", "active", "blocked"}]
    /\ violations \in [Users -> Nat] /\ logs \in [Users -> 0 .. MaxLogs]
    /\ flagged \subseteq board /\ board \subseteq Reports
    /\ at \in [Clicks -> Steps \cup {"idle", "done"}]
    /\ read \in [Clicks -> [n : Nat, st : {"none", "active", "blocked"}]]
    /\ left \in [Clicks -> SUBSET Reports]
    /\ owners \in [Clicks -> SUBSET Users]
    /\ offenders \subseteq Users /\ looked \in offenders \cup {Nobody}
    /\ failures \in Nat
    /\ decided \in [Users -> {"none", "block", "lift"}]
    /\ tally \in [Users -> Nat]
    /\ muddled \subseteq Users /\ miscounted \subseteq Users
    /\ open \subseteq Reports /\ dropped \subseteq Users
    /\ \A h \in Clicks :
          /\ at[h] = "count" => read[h].st # "none"
          /\ at[h] \in {"readAccount", "count", "judge", "block", "log"} =>
                \E u \in Users : owners[h] = {u}

\* An account is blocked exactly if the last decision about it was to block
\* it, whoever decided and in whatever order the requests went out, unless the
\* status was written between the read and the write of a review: a review
\* writes back the status it read (admin.html:1131).
StatusAsDecided ==
    \A u \in Users \ muddled : status[u] = "blocked" <=> decided[u] = "block"

\* The violations of an account are the reviews that blocked an image of it,
\* unless two reviews of the account overlapped (admin.html:1130).
CountedInTurn ==
    \A u \in Users \ miscounted : violations[u] = tally[u]

\* However reviews overlap, an account never has more violations than reviews
\* counted for it, so that it is not blocked for too few images, and the first
\* one is never lost again (admin.html:1130).
CountedWithin ==
    \A u \in Users : /\ violations[u] <= tally[u]
                     /\ tally[u] > 0 => violations[u] > 0

\* What the reviews of an account leave in its document: each one counted if
\* they came in turn, some lost and none made up if they overlapped.
ViolationsAreCounted == CountedInTurn /\ CountedWithin

\* The author of a report that was confirmed or flagged is about to be blocked
\* by the click that ruled on it, has been blocked since, or the click failed
\* half way (admin.html:1163-1186 and 1307-1324 write report and account apart).
RulingsReachAccounts ==
    \A r \in open :
        \/ Author[r] \in dropped
        \/ \E h \in Clicks : /\ at[h] \in {"block", "scan", "blockOwners"}
                             /\ Author[r] \in owners[h]

\* An account with enough high log entries is blocked while the panel is open,
\* however often it was unblocked, unless entries age or an offender without a
\* document ends the timer's rounds (admin.html:602-642).
OffendersBlocked ==
    \A u \in Users :
        u \in Offenders ~> \/ status[u] = "blocked" \/ u \notin Offenders
                           \/ \E v \in Offenders : status[v] = "none"
=============================================================================
