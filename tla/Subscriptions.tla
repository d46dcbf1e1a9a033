---------------------------- MODULE Subscriptions ----------------------------
(***************************************************************************)
(* The end of a subscription: users/<uid>.hasActiveSubscription against    *)
(* subscriptionExpiry.  The daily Cloud Function checkExpiringSubscriptions *)
(* (functions/index.js), the hourly autoFixExpiredUsers of an open admin   *)
(* page and the admin's Fix button (admin.html) read accounts first and    *)
(* write them one by one, while accounts are renewed.                      *)
(***************************************************************************)
EXTENDS Integers

CONSTANTS
    Accounts,
    Plans,        \* lengths of the plans, in days
    ReminderDays, \* days before the end at which a reminder is sent
    Retries,      \* how often the scheduler starts a failed run again
    MaxDay,       \* bound: the last day
    MaxMishaps,   \* bound: calls to Firestore of the daily run that fail
    Never         \* an account without subscriptionExpiry

ASSUME PlansAssumption   == Plans \subseteq Nat /\ ReminderDays \subseteq Nat
ASSUME BoundsAssumption  == MaxDay \in Nat /\ MaxMishaps \in Nat /\ Retries \in Nat
ASSUME NeverAssumption   == Never \notin Int

VARIABLES
    today,
    active,   \* hasActiveSubscription
    expiry,   \* subscriptionExpiry
    reminded, \* the reminder_<d>_day_sent flags
    st,       \* the daily run: "idle", "running" or "failed"
    tries,    \* runs started today
    now,      \* the day on which the daily run started, while it runs
    batch,    \* accounts that the daily run has yet to handle, as it read them
    hourly,   \* expired accounts that the hourly round has yet to handle
    listed,   \* expired accounts on the admin's page
    sent,     \* history: reminders sent
    mishaps,  \* history: failed calls of the daily run
    touched,  \* history: accounts that were renewed, or made active by the
              \* admin, since the daily run read them
    stale,    \* history: accounts ended by who had read them before a renewal
    freed     \* history: accounts that the admin set to free

account == <<active, expiry, reminded>>
run     == <<st, tries, now, batch>>
ends    == <<stale, freed>>
vars    == <<today, account, run, touched, hourly, listed, sent, mishaps, ends>>

-----------------------------------------------------------------------------
Days == 0 .. MaxDay

Expiries == Int \cup {Never}

Expired(e, day) == e # Never /\ e < day

Without(f, u) == [v \in DOMAIN f \ {u} |-> f[v]]

\* What a reader remembers of the accounts that are over their expiry.
Overdue == [u \in {v \in Accounts : active[v] /\ Expired(expiry[v], today)} |-> expiry[u]]

Init ==
    /\ today = 0
    /\ active = [u \in Accounts |-> FALSE]
    /\ expiry = [u \in Accounts |-> Never]
    /\ reminded = [u \in Accounts |-> {}]
    /\ st = "idle" /\ tries = 0 /\ now = 0 /\ batch = <<>>
    /\ hourly = <<>> /\ listed = <<>>
    /\ sent = [u \in Accounts |-> [d \in ReminderDays |-> 0]]
    /\ mishaps = 0 /\ stale = {} /\ freed = {} /\ touched = {}

\* A day that passes takes the failed run of the day before with it.
Tick ==
    /\ today < MaxDay
    /\ today' = today + 1
    /\ tries' = 0
    /\ st' = IF st = "failed" THEN "idle" ELSE st
    /\ UNCHANGED <<account, now, batch, touched, hourly, listed, sent, mishaps, ends>>

-----------------------------------------------------------------------------
(***************************************************************************)
(* Subscriptions begin, and begin again, with a pass code.  The reminder   *)
(* flags stay.                                                             *)
(***************************************************************************)
\* History: a daily run may have read these.
Touch(us) == touched' = IF st = "running" THEN touched \cup us ELSE touched

Subscribe(u, days) ==
    /\ active' = [active EXCEPT ![u] = TRUE]
    /\ expiry' = [expiry EXCEPT ![u] = today + days]
    /\ stale' = stale \ {u} /\ freed' = freed \ {u} /\ Touch({u})
    /\ UNCHANGED <<today, reminded, run, hourly, listed, sent, mishaps>>

\* The admin sets the type of an account by hand; its expiry stays.  On the
\* last day the admin page begins nothing new (bound), here and below.
FixUserModal(u, free) ==
    /\ today < MaxDay
    /\ active' = [active EXCEPT ![u] = ~free]
    /\ stale' = stale \ {u}
    /\ IF free THEN freed' = freed \cup {u} /\ touched' = touched \ {u}
       ELSE freed' = freed \ {u} /\ Touch({v \in {u} : ~active[v]})
    /\ UNCHANGED <<today, expiry, reminded, run, hourly, listed, sent, mishaps>>

\* A write that ends a subscription read with expiry e.
End(u, e) ==
    /\ active' = [active EXCEPT ![u] = FALSE]
    /\ stale' = IF e = expiry[u] THEN stale \ {u} ELSE stale \cup {u}
    /\ UNCHANGED <<expiry, reminded, freed>>

-----------------------------------------------------------------------------
(***************************************************************************)
(* The daily run.                                                          *)
(***************************************************************************)
\* Mutant: the query asks for the accounts that have ended.
QueriedEnded == {u \in Accounts : ~active[u]}
Queried == {u \in Accounts : active[u]}

\* The run of the day, or its retry.
MayStart ==
    \/ st = "idle" /\ tries = 0
    \/ st = "failed" /\ tries <= Retries

StartDaily ==
    /\ MayStart
    /\ st' = "running" /\ tries' = tries + 1 /\ now' = today
    /\ batch' = [u \in Queried |-> [expiry |-> expiry[u], reminded |-> reminded[u]]]
    /\ UNCHANGED <<today, account, touched, hourly, listed, sent, mishaps, ends>>

\* Mutant: the loop is left at the first account.
LeaveLoop(u) ==
    /\ batch' = <<>>
    /\ UNCHANGED <<st, now, touched, mishaps>>
\* After a write the run goes on, or it throws and ends; the write may have
\* arrived all the same.
GoOn(u) ==
    /\ batch' = Without(batch, u)
    /\ UNCHANGED <<st, now, touched, mishaps>>

Throw ==
    /\ mishaps < MaxMishaps
    /\ mishaps' = mishaps + 1
    /\ st' = "failed" /\ now' = 0 /\ batch' = <<>> /\ touched' = {}

\* Mutant: the last day counts as over.
OverOnLastDay(u) == batch[u].expiry # Never /\ batch[u].expiry <= now
IsOver(u) == Expired(batch[u].expiry, now)

\* The query that a run begins with fails: nothing is read.
StartFails ==
    /\ MayStart
    /\ tries' = tries + 1
    /\ Throw
    /\ UNCHANGED <<today, account, hourly, listed, sent, ends>>

EndRead(u) ==
    /\ IsOver(u)
    /\ \/ End(u, batch[u].expiry) /\ (GoOn(u) \/ Throw)
       \/ Throw /\ UNCHANGED <<account, ends>>
    /\ UNCHANGED sent

\* Mutant: the flags are not looked at.
DueUnasked(u) ==
    IF batch[u].expiry = Never THEN {} ELSE {batch[u].expiry - now} \cap ReminderDays
\* The reminder that the account is due today, if any.
Due(u) ==
    IF batch[u].expiry = Never THEN {}
    ELSE ({batch[u].expiry - now} \cap ReminderDays) \ batch[u].reminded

\* Mutant: the flag of another day is set.
FlagsNext(u, d) == reminded[u] \cup {d - 1}
Flags(u, d) == reminded[u] \cup {d}

\* The reminder is sent before its flag is written.
Remind(u, d) ==
    /\ ~IsOver(u) /\ d \in Due(u)
    /\ sent' = [sent EXCEPT ![u][d] = @ + 1]
    /\ \/ reminded' = [reminded EXCEPT ![u] = Flags(u, d)] /\ (GoOn(u) \/ Throw)
       \/ Throw /\ UNCHANGED reminded
    /\ UNCHANGED <<active, expiry, ends>>

Pass(u) ==
    /\ ~IsOver(u) /\ Due(u) = {}
    /\ GoOn(u)
    /\ UNCHANGED <<account, ends, sent>>

Handle(u) ==
    /\ EndRead(u) \/ Pass(u) \/ \E d \in ReminderDays : Remind(u, d)
    /\ UNCHANGED <<today, tries, hourly, listed>>

FinishDaily ==
    /\ st = "running" /\ batch = <<>>
    /\ st' = "idle" /\ now' = 0 /\ touched' = {}
    /\ UNCHANGED <<today, account, tries, batch, hourly, listed, sent, mishaps, ends>>

DailyStep == (\E u \in DOMAIN batch : Handle(u)) \/ FinishDaily

-----------------------------------------------------------------------------
(***************************************************************************)
(* The admin page: the hourly round, and the list with the Fix buttons.    *)
(***************************************************************************)
StartHourly ==
    /\ today < MaxDay /\ hourly = <<>>
    /\ hourly' = Overdue
    /\ UNCHANGED <<today, account, touched, run, listed, sent, mishaps, ends>>

FixNext(u) ==
    /\ End(u, hourly[u])
    /\ hourly' = Without(hourly, u)
    /\ UNCHANGED <<today, run, touched, listed, sent, mishaps>>

\* A write fails, or the page is closed.
HourlyEnds ==
    /\ hourly # <<>> /\ hourly' = <<>>
    /\ UNCHANGED <<today, account, touched, run, listed, sent, mishaps, ends>>

LoadList ==
    /\ today < MaxDay
    /\ listed' = Overdue
    /\ UNCHANGED <<today, account, touched, run, hourly, sent, mishaps, ends>>

FixExpiredUser(u) ==
    /\ End(u, listed[u])
    /\ UNCHANGED <<today, run, touched, hourly, listed, sent, mishaps>>

-----------------------------------------------------------------------------
AccountStep ==
    \E u \in Accounts : \/ \E p \in Plans : Subscribe(u, p)
                        \/ \E free \in BOOLEAN : FixUserModal(u, free)

PageStep ==
    \/ StartHourly \/ HourlyEnds \/ LoadList
    \/ \E u \in DOMAIN hourly : FixNext(u)
    \/ \E u \in DOMAIN listed : FixExpiredUser(u)

Next == Tick \/ AccountStep \/ StartDaily \/ StartFails \/ DailyStep \/ PageStep

\* Days pass, and the scheduler starts a run every day and lets it go on.  The
\* admin page may be closed.
Fairness == WF_vars(Tick) /\ WF_vars(StartDaily) /\ WF_vars(DailyStep)

Spec     == Init /\ [][Next]_vars
FairSpec == Spec /\ Fairness

-----------------------------------------------------------------------------
AsRead == [expiry : Expiries, reminded : SUBSET ReminderDays]

\* The daily run holds accounts only while it runs.
TypeOK ==
    /\ today \in Days
    /\ active \in [Accounts -> BOOLEAN]
    /\ expiry \in [Accounts -> Expiries]
    /\ reminded \in [Accounts -> SUBSET ReminderDays]
    /\ st \in {"idle", "running", "failed"}
    /\ tries \in 0 .. Retries + 1 /\ now \in 0 .. today
    /\ DOMAIN batch \subseteq Accounts /\ batch \in [DOMAIN batch -> AsRead]
    /\ DOMAIN hourly \subseteq Accounts /\ hourly \in [DOMAIN hourly -> Int]
    /\ DOMAIN listed \subseteq Accounts /\ listed \in [DOMAIN listed -> Int]
    /\ sent \in [Accounts -> [ReminderDays -> Nat]]
    /\ mishaps \in 0 .. MaxMishaps
    /\ stale \subseteq Accounts /\ freed \subseteq Accounts /\ touched \subseteq Accounts
    /\ st # "running" => batch = <<>>

\* An account that is paid for is active, unless the admin set it to free or a
\* run, or the admin's list, had read it before it was renewed
\* (index.js:910-918, admin.html:579-588 and 805-818).
PaidIsActive ==
    \A u \in Accounts :
        /\ expiry[u] # Never /\ expiry[u] >= today
        /\ u \notin stale \cup freed
        => active[u]

\* A reminder is sent once for each account and number of days, whatever is
\* renewed meanwhile; each more is a failed write of the daily run
\* (index.js:920-942).
RemindedOnce ==
    \A u \in Accounts, d \in ReminderDays :
        sent[u][d] <= (IF d \in reminded[u] THEN 1 ELSE 0) + mishaps

\* A daily run that gets to its end, through whatever the admin page does
\* meanwhile and however often it was started again, leaves no account active
\* that was over and none without the flag of its reminder, of those that
\* nobody renewed since it read them (index.js:894-950).
RunIsComplete ==
    [][FinishDaily =>
          \A u \in Accounts \ touched :
             active[u] /\ expiry[u] # Never =>
                /\ expiry[u] >= now
                /\ {expiry[u] - now} \cap ReminderDays \subseteq reminded[u]]_vars

\* A subscription that is over ends or is renewed, even if no admin looks and
\* runs fail (index.js:887, 910-918).
ExpiredEnds ==
    \A u \in Accounts :
        active[u] /\ Expired(expiry[u], today) ~> ~active[u] \/ ~Expired(expiry[u], today)
=============================================================================
