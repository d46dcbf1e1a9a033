------------------------ MODULE SubscriptionsProofs ------------------------
(***************************************************************************)
(* Proofs about Subscriptions, for any accounts, plans, reminders, number  *)
(* of days and number of failures.                                         *)
(***************************************************************************)
EXTENDS Subscriptions, TLAPS

LEMMA WithoutType ==
    ASSUME NEW S, NEW f, f \in [DOMAIN f -> S], NEW u
    PROVE  /\ DOMAIN Without(f, u) = DOMAIN f \ {u}
           /\ Without(f, u) \in [DOMAIN Without(f, u) -> S]
           /\ \A v \in DOMAIN f \ {u} : Without(f, u)[v] = f[v]
BY DEF Without

LEMMA NoneType ==
    ASSUME NEW S PROVE DOMAIN <<>> = {} /\ <<>> \in [DOMAIN <<>> -> S]
OBVIOUS

-----------------------------------------------------------------------------
(***************************************************************************)
(* Types, one part per writer.                                             *)
(***************************************************************************)
DayType     == today \in Days /\ now \in 0 .. today
AccountType ==
    /\ active \in [Accounts -> BOOLEAN] /\ expiry \in [Accounts -> Expiries]
    /\ reminded \in [Accounts -> SUBSET ReminderDays]
    /\ sent \in [Accounts -> [ReminderDays -> Nat]]
    /\ stale \subseteq Accounts /\ freed \subseteq Accounts
BatchType == DOMAIN batch \subseteq Accounts /\ batch \in [DOMAIN batch -> AsRead]
RunType ==
    /\ st \in {"idle", "running", "failed"} /\ tries \in 0 .. Retries + 1
    /\ mishaps \in 0 .. MaxMishaps /\ touched \subseteq Accounts
    /\ st # "running" => batch = <<>>
PageType ==
    /\ DOMAIN hourly \subseteq Accounts /\ hourly \in [DOMAIN hourly -> Int]
    /\ DOMAIN listed \subseteq Accounts /\ listed \in [DOMAIN listed -> Int]

LEMMA Parts == TypeOK <=> DayType /\ AccountType /\ BatchType /\ RunType /\ PageType
BY DEF TypeOK, DayType, AccountType, BatchType, RunType, PageType

LEMMA PartsNext ==
    DayType' /\ AccountType' /\ BatchType' /\ RunType' /\ PageType' => TypeOK'
BY DEF TypeOK, DayType, AccountType, BatchType, RunType, PageType

LEMMA AccountSame ==
    ASSUME AccountType, UNCHANGED <<account, sent, ends>> PROVE AccountType'
BY DEF AccountType, account, ends

LEMMA RunSame ==
    ASSUME BatchType, RunType, UNCHANGED <<run, touched, mishaps>> PROVE BatchType' /\ RunType'
BY DEF BatchType, RunType, run

LEMMA PageSame == ASSUME PageType, UNCHANGED <<hourly, listed>> PROVE PageType'
BY DEF PageType

LEMMA DaySame == ASSUME DayType, UNCHANGED <<today, now>> PROVE DayType'
BY DEF DayType

LEMMA InitType == Init => TypeOK
<1> SUFFICES ASSUME Init PROVE TypeOK
  OBVIOUS
<1>1. DayType /\ AccountType /\ RunType
  BY BoundsAssumption DEF Init, DayType, AccountType, RunType, Days, Expiries
<1>2. BatchType /\ PageType
  BY NoneType DEF Init, BatchType, PageType
<1>3. QED
  BY <1>1, <1>2, Parts

LEMMA EndType ==
    ASSUME AccountType, NEW u \in Accounts, NEW e, End(u, e), UNCHANGED sent
    PROVE  AccountType'
BY DEF AccountType, End

LEMMA OverdueType ==
    ASSUME AccountType
    PROVE  /\ DOMAIN Overdue \subseteq Accounts /\ Overdue \in [DOMAIN Overdue -> Int]
           /\ \A u \in DOMAIN Overdue : Overdue[u] < today
<1>1. \A u \in DOMAIN Overdue : u \in Accounts /\ Overdue[u] = expiry[u]
                                /\ expiry[u] # Never /\ expiry[u] < today
  BY DEF Overdue, Expired
<1>2. \A u \in DOMAIN Overdue : expiry[u] \in Int
  BY <1>1 DEF AccountType, Expiries
<1>3. Overdue = [u \in DOMAIN Overdue |-> Overdue[u]]
  BY DEF Overdue
<1>4. QED
  BY <1>1, <1>2, <1>3

\* What the daily run does to itself when it handles an account.
LEMMA MovesOn ==
    ASSUME TypeOK, st = "running", NEW u \in DOMAIN batch, UNCHANGED <<today, tries>>,
           GoOn(u) \/ Throw
    PROVE  DayType' /\ BatchType' /\ RunType'
<1>1. DayType /\ BatchType /\ RunType
  BY Parts
<1>2. CASE GoOn(u)
  <2>1. BatchType'
    <3>1. batch \in [DOMAIN batch -> AsRead] /\ DOMAIN batch \subseteq Accounts
      BY <1>1 DEF BatchType
    <3>2. /\ DOMAIN Without(batch, u) = DOMAIN batch \ {u}
          /\ Without(batch, u) \in [DOMAIN Without(batch, u) -> AsRead]
      BY <3>1, WithoutType
    <3>3. batch' = Without(batch, u)
      BY <1>2 DEF GoOn
    <3>4. QED
      BY <3>1, <3>2, <3>3 DEF BatchType
  <2>2. QED
    BY <1>1, <1>2, <2>1 DEF GoOn, DayType, RunType
<1>3. CASE Throw
  <2>1. BatchType'
    BY <1>3, NoneType DEF Throw, BatchType
  <2>2. DayType' /\ RunType'
    BY <1>1, <1>3, BoundsAssumption DEF Throw, DayType, RunType, Days
  <2>3. QED
    BY <2>1, <2>2
<1>4. QED
  BY <1>2, <1>3

LEMMA Running ==
    ASSUME TypeOK, NEW u \in DOMAIN batch PROVE st = "running" /\ u \in Accounts
BY Parts, NoneType DEF RunType, BatchType

LEMMA RemindType ==
    ASSUME AccountType, NEW u \in Accounts, NEW d \in ReminderDays, Remind(u, d)
    PROVE  AccountType'
<1>1. sent[u][d] + 1 \in Nat /\ sent[u] \in [ReminderDays -> Nat]
  BY DEF AccountType
<1>2. [sent[u] EXCEPT ![d] = @ + 1] \in [ReminderDays -> Nat]
  BY <1>1
<1>3. sent' \in [Accounts -> [ReminderDays -> Nat]]
  BY <1>2 DEF AccountType, Remind
<1>4. reminded' \in [Accounts -> SUBSET ReminderDays]
  BY DEF AccountType, Remind, Flags
<1>5. QED
  BY <1>3, <1>4 DEF AccountType, Remind, ends

LEMMA HandleType ==
    ASSUME TypeOK, NEW u \in DOMAIN batch, Handle(u) PROVE TypeOK'
<1>1. AccountType /\ PageType /\ st = "running" /\ u \in Accounts
  BY Parts, Running
<1>2. GoOn(u) \/ Throw
  BY DEF Handle, EndRead, Pass, Remind
<1>3. DayType' /\ BatchType' /\ RunType'
  BY <1>1, <1>2, MovesOn DEF Handle
<1>4. AccountType'
  <2>1. CASE EndRead(u)
    BY <1>1, <2>1, EndType, AccountSame DEF EndRead
  <2>2. CASE Pass(u)
    BY <1>1, <2>2, AccountSame DEF Pass
  <2>3. ASSUME NEW d \in ReminderDays, Remind(u, d) PROVE AccountType'
    BY <1>1, <2>3, RemindType
  <2>4. QED
    BY <2>1, <2>2, <2>3 DEF Handle
<1>5. QED
  BY <1>1, <1>3, <1>4, PageSame, PartsNext DEF Handle

LEMMA StartType == ASSUME TypeOK, StartDaily PROVE TypeOK'
<1>1. DayType /\ AccountType /\ RunType /\ PageType
  BY Parts
<1>2. \A u \in Queried : [expiry |-> expiry[u], reminded |-> reminded[u]] \in AsRead
  BY <1>1 DEF AccountType, AsRead, Queried
<1>3. BatchType'
  <2>1. DOMAIN batch' = Queried /\ Queried \subseteq Accounts
    BY DEF StartDaily, Queried
  <2>2. batch' \in [Queried -> AsRead]
    BY <1>2 DEF StartDaily
  <2>3. QED
    BY <2>1, <2>2 DEF BatchType
<1>4. DayType' /\ RunType'
  BY <1>1, BoundsAssumption DEF StartDaily, MayStart, DayType, RunType, Days
<1>5. QED
  BY <1>1, <1>3, <1>4, AccountSame, PageSame, PartsNext DEF StartDaily

LEMMA StartFailsType == ASSUME TypeOK, StartFails PROVE TypeOK'
<1>1. DayType /\ AccountType /\ RunType /\ PageType
  BY Parts
<1>2. BatchType'
  BY NoneType DEF StartFails, Throw, BatchType
<1>3. DayType' /\ RunType'
  BY <1>1, BoundsAssumption DEF StartFails, MayStart, Throw, DayType, RunType, Days
<1>4. QED
  BY <1>1, <1>2, <1>3, AccountSame, PageSame, PartsNext DEF StartFails

LEMMA PageStepType == ASSUME TypeOK, PageStep PROVE TypeOK'
<1>1. DayType /\ AccountType /\ BatchType /\ RunType /\ PageType
  BY Parts
<1>2. ASSUME UNCHANGED <<today, run, touched, mishaps>>, AccountType', PageType' PROVE TypeOK'
  <2>1. DayType'
    BY <1>1, <1>2, DaySame DEF run
  <2>2. QED
    BY <1>1, <1>2, <2>1, RunSame, PartsNext
<1>3. CASE StartHourly \/ HourlyEnds \/ LoadList
  <2>1. PageType'
    BY <1>1, <1>3, OverdueType, NoneType DEF StartHourly, HourlyEnds, LoadList, PageType
  <2>2. QED
    BY <1>1, <1>2, <1>3, <2>1, AccountSame DEF StartHourly, HourlyEnds, LoadList
<1>4. ASSUME NEW u \in DOMAIN hourly, FixNext(u) PROVE TypeOK'
  <2>1. PageType'
    <3>1. /\ DOMAIN Without(hourly, u) = DOMAIN hourly \ {u}
          /\ Without(hourly, u) \in [DOMAIN Without(hourly, u) -> Int]
      BY <1>1, WithoutType DEF PageType
    <3>2. hourly' = Without(hourly, u) /\ listed' = listed
      BY <1>4 DEF FixNext
    <3>3. QED
      BY <1>1, <3>1, <3>2 DEF PageType
  <2>2. u \in Accounts
    BY <1>1 DEF PageType
  <2>3. QED
    BY <1>1, <1>2, <1>4, <2>1, <2>2, EndType DEF FixNext
<1>5. ASSUME NEW u \in DOMAIN listed, FixExpiredUser(u) PROVE TypeOK'
  <2>1. u \in Accounts
    BY <1>1 DEF PageType
  <2>2. QED
    BY <1>1, <1>2, <1>5, <2>1, EndType, PageSame DEF FixExpiredUser
<1>6. QED
  BY <1>3, <1>4, <1>5 DEF PageStep

LEMMA TypeStep == ASSUME TypeOK, [Next]_vars PROVE TypeOK'
<1>1. DayType /\ AccountType /\ BatchType /\ RunType /\ PageType
  BY Parts
<1>2. CASE Tick
  <2>1. DayType'
    BY <1>1, <1>2, BoundsAssumption DEF Tick, DayType, Days
  <2>2. BatchType' /\ RunType'
    BY <1>1, <1>2, BoundsAssumption DEF Tick, BatchType, RunType
  <2>3. QED
    BY <1>1, <1>2, <2>1, <2>2, AccountSame, PageSame, PartsNext DEF Tick
<1>3. ASSUME NEW u \in Accounts, NEW p \in Plans, Subscribe(u, p) PROVE TypeOK'
  <2>1. today + p \in Expiries
    BY <1>1, PlansAssumption, BoundsAssumption DEF DayType, Days, Expiries
  <2>2. AccountType'
    BY <1>1, <1>3, <2>1 DEF Subscribe, AccountType
  <2>3. DayType'
    BY <1>1, <1>3, DaySame DEF Subscribe, run
  <2>4. RunType' /\ BatchType'
    BY <1>1, <1>3 DEF Subscribe, Touch, RunType, BatchType, run
  <2>5. QED
    BY <1>1, <1>3, <2>2, <2>3, <2>4, PageSame, PartsNext DEF Subscribe
<1>4. ASSUME NEW u \in Accounts, NEW free \in BOOLEAN, FixUserModal(u, free) PROVE TypeOK'
  <2>1. AccountType'
    BY <1>1, <1>4 DEF FixUserModal, AccountType
  <2>2. DayType'
    BY <1>1, <1>4, DaySame DEF FixUserModal, run
  <2>3. RunType' /\ BatchType'
    BY <1>1, <1>4 DEF FixUserModal, Touch, RunType, BatchType, run
  <2>4. QED
    BY <1>1, <1>4, <2>1, <2>2, <2>3, PageSame, PartsNext DEF FixUserModal
<1>5. CASE FinishDaily
  <2>1. DayType' /\ BatchType' /\ RunType'
    BY <1>1, <1>5, BoundsAssumption DEF FinishDaily, DayType, BatchType, RunType, Days
  <2>2. QED
    BY <1>1, <1>5, <2>1, AccountSame, PageSame, PartsNext DEF FinishDaily
<1>6. CASE UNCHANGED vars
  <2>1. DayType'
    BY <1>1, <1>6, DaySame DEF vars, run
  <2>2. QED
    BY <1>1, <1>6, <2>1, AccountSame, RunSame, PageSame, PartsNext DEF vars
<1>7. QED
  BY <1>2, <1>3, <1>4, <1>5, <1>6, HandleType, StartType, StartFailsType, PageStepType
     DEF Next, AccountStep, DailyStep

\* Every variable keeps its type, and a daily run that is over holds nothing.
THEOREM TypeCorrect == Spec => []TypeOK
BY InitType, TypeStep, PTL DEF Spec

-----------------------------------------------------------------------------
(***************************************************************************)
(* A paid account is active.                                               *)
(***************************************************************************)
\* What the page remembers was over when it was read.
PageWasRight ==
    /\ \A u \in DOMAIN hourly : hourly[u] < today
    /\ \A u \in DOMAIN listed : listed[u] < today

PaidInv == PaidIsActive /\ PageWasRight

LEMMA PaidInit == Init => PaidInv
BY NoneType DEF Init, PaidInv, PaidIsActive, PageWasRight

\* An end that was due when the account was read.
LEMMA EndPaid ==
    ASSUME TypeOK, PaidIsActive, NEW u \in Accounts, NEW e, e \in Expiries, e # Never,
           e < today, End(u, e), UNCHANGED today
    PROVE  PaidIsActive'
<1>1. AccountType /\ today \in Int
  BY Parts, BoundsAssumption DEF DayType, Days
<1>2. ASSUME NEW v \in Accounts, expiry'[v] # Never, expiry'[v] >= today,
             v \notin stale', v \notin freed'
      PROVE  active'[v]
  <2>1. CASE v = u
    BY <1>1, <1>2, <2>1 DEF End, Expiries
  <2>2. CASE v # u
    BY <1>1, <1>2, <2>2 DEF End, AccountType, PaidIsActive
  <2>3. QED
    BY <2>1, <2>2
<1>3. QED
  BY <1>2 DEF PaidIsActive

LEMMA PaidStep ==
    ASSUME TypeOK, PaidInv, [Next]_vars PROVE PaidInv'
<1>1. DayType /\ AccountType /\ BatchType /\ PageType /\ today \in Int
  BY Parts, BoundsAssumption DEF DayType, Days
<1>2. PaidIsActive /\ PageWasRight
  BY DEF PaidInv
<1>3. ASSUME UNCHANGED <<today, hourly, listed>> PROVE PageWasRight'
  BY <1>2, <1>3 DEF PageWasRight
<1>4. ASSUME UNCHANGED <<today, account, ends>> PROVE PaidIsActive'
  BY <1>2, <1>4 DEF PaidIsActive, account, ends
<1>5. CASE Tick
  <2>1. PageWasRight'
    BY <1>1, <1>2, <1>5 DEF Tick, PageWasRight, PageType
  <2>2. PaidIsActive'
    BY <1>1, <1>2, <1>5 DEF Tick, PaidIsActive, account, ends, AccountType, Expiries
  <2>3. QED
    BY <2>1, <2>2 DEF PaidInv
<1>6. ASSUME NEW u \in Accounts, NEW p \in Plans, Subscribe(u, p) PROVE PaidInv'
  <2>1. PaidIsActive'
    BY <1>1, <1>2, <1>6 DEF Subscribe, PaidIsActive, AccountType
  <2>2. QED
    BY <1>3, <1>6, <2>1 DEF Subscribe, PaidInv
<1>7. ASSUME NEW u \in Accounts, NEW free \in BOOLEAN, FixUserModal(u, free) PROVE PaidInv'
  <2>1. PaidIsActive'
    BY <1>1, <1>2, <1>7 DEF FixUserModal, PaidIsActive, AccountType
  <2>2. QED
    BY <1>3, <1>7, <2>1 DEF FixUserModal, PaidInv
<1>8. CASE StartDaily \/ StartFails \/ FinishDaily
  BY <1>3, <1>4, <1>8 DEF StartDaily, StartFails, FinishDaily, PaidInv
<1>9. ASSUME NEW u \in DOMAIN batch, Handle(u) PROVE PaidInv'
  <2>1. PageWasRight' /\ UNCHANGED today /\ u \in Accounts
    BY <1>1, <1>3, <1>9 DEF Handle, BatchType
  <2>2. ASSUME IsOver(u), End(u, batch[u].expiry) PROVE PaidIsActive'
    <3>1. /\ batch[u].expiry \in Expiries /\ batch[u].expiry # Never
          /\ batch[u].expiry < today
      BY <1>1, <2>2, BoundsAssumption
         DEF BatchType, AsRead, IsOver, Expired, DayType, Days, Expiries
    <3>2. QED
      BY <1>2, <2>1, <2>2, <3>1, EndPaid
  <2>3. ASSUME UNCHANGED <<active, expiry, ends>> PROVE PaidIsActive'
    BY <1>2, <2>1, <2>3 DEF PaidIsActive, ends
  <2>4. \/ IsOver(u) /\ End(u, batch[u].expiry)
        \/ UNCHANGED <<active, expiry, ends>>
    BY <1>9 DEF Handle, EndRead, Pass, Remind, account
  <2>5. QED
    BY <2>1, <2>2, <2>3, <2>4 DEF PaidInv
<1>10. CASE StartHourly \/ HourlyEnds \/ LoadList
  <2>1. PageWasRight'
    BY <1>1, <1>2, <1>10, OverdueType, NoneType
       DEF StartHourly, HourlyEnds, LoadList, PageWasRight
  <2>2. QED
    BY <1>4, <1>10, <2>1 DEF StartHourly, HourlyEnds, LoadList, PaidInv
<1>11. ASSUME NEW u \in DOMAIN hourly, FixNext(u) PROVE PaidInv'
  <2>1. /\ u \in Accounts /\ hourly[u] \in Int /\ hourly[u] # Never
        /\ hourly[u] < today
    BY <1>1, <1>2, NeverAssumption DEF PageType, PageWasRight
  <2>2. PaidIsActive'
    BY <1>2, <1>11, <2>1, EndPaid DEF FixNext, Expiries
  <2>3. PageWasRight'
    BY <1>1, <1>2, <1>11 DEF FixNext, PageWasRight, Without
  <2>4. QED
    BY <2>2, <2>3 DEF PaidInv
<1>12. ASSUME NEW u \in DOMAIN listed, FixExpiredUser(u) PROVE PaidInv'
  <2>1. /\ u \in Accounts /\ listed[u] \in Int /\ listed[u] # Never
        /\ listed[u] < today
    BY <1>1, <1>2, NeverAssumption DEF PageType, PageWasRight
  <2>2. PaidIsActive'
    BY <1>2, <1>12, <2>1, EndPaid DEF FixExpiredUser, Expiries
  <2>3. QED
    BY <1>3, <1>12, <2>2 DEF FixExpiredUser, PaidInv
<1>13. CASE UNCHANGED vars
  BY <1>3, <1>4, <1>13 DEF vars, PaidInv
<1>14. QED
  BY <1>5, <1>6, <1>7, <1>8, <1>9, <1>10, <1>11, <1>12, <1>13
     DEF Next, AccountStep, DailyStep, PageStep

\* A paid account is active, unless the admin set it to free or who ended it
\* had read it before it was renewed.
THEOREM PaidKeepsActive == Spec => []PaidIsActive
<1>1. TypeOK /\ PaidInv /\ [Next]_vars => PaidInv'
  BY PaidStep
<1>2. PaidInv => PaidIsActive
  BY DEF PaidInv
<1>3. QED
  BY <1>1, <1>2, PaidInit, TypeCorrect, PTL DEF Spec

-----------------------------------------------------------------------------
(***************************************************************************)
(* One reminder.                                                           *)
(***************************************************************************)
\* Nobody but the daily run writes the flags, and it handles an account once.
FlagsAsRead == \A u \in DOMAIN batch : batch[u].reminded = reminded[u]

RemindInv == RemindedOnce /\ FlagsAsRead

LEMMA RemindInit == Init => RemindInv
BY NoneType, BoundsAssumption DEF Init, RemindInv, RemindedOnce, FlagsAsRead

LEMMA RemindedByRun ==
    ASSUME TypeOK, RemindInv, NEW u \in DOMAIN batch, NEW d \in ReminderDays, Remind(u, d)
    PROVE  RemindInv'
<1>1. /\ AccountType /\ BatchType /\ u \in Accounts /\ mishaps \in Nat
  BY Parts, Running, BoundsAssumption DEF RunType
<1>2. d \notin reminded[u]
  BY DEF Remind, Due, RemindInv, FlagsAsRead
<1>3. sent[u][d] \in Nat /\ sent[u][d] <= mishaps
  BY <1>1, <1>2 DEF AccountType, RemindInv, RemindedOnce
<1>4. /\ \A v \in Accounts, c \in ReminderDays :
            sent'[v][c] = IF v = u /\ c = d THEN sent[u][d] + 1 ELSE sent[v][c]
      /\ \A v \in Accounts : v # u => reminded'[v] = reminded[v]
      /\ reminded[u] \subseteq reminded'[u]
  BY <1>1 DEF AccountType, Remind, Flags
<1>5. \/ d \in reminded'[u] /\ GoOn(u) /\ mishaps' = mishaps
      \/ Throw /\ mishaps' = mishaps + 1
  BY <1>1 DEF AccountType, Remind, Flags, GoOn, Throw
<1>6. RemindedOnce'
  <2>1. ASSUME NEW v \in Accounts, NEW c \in ReminderDays
        PROVE  sent'[v][c] <= (IF c \in reminded'[v] THEN 1 ELSE 0) + mishaps'
    <3>1. CASE v = u /\ c = d
      BY <1>1, <1>3, <1>4, <1>5, <3>1
    <3>2. CASE ~(v = u /\ c = d)
      <4>1. sent[v][c] \in Nat
            /\ sent[v][c] <= (IF c \in reminded[v] THEN 1 ELSE 0) + mishaps
        BY <1>1 DEF AccountType, RemindInv, RemindedOnce
      <4>2. sent'[v][c] = sent[v][c] /\ (c \in reminded[v] => c \in reminded'[v])
        BY <1>4, <3>2
      <4>3. mishaps' >= mishaps /\ mishaps' \in Nat
        BY <1>1, <1>5
      <4>4. QED
        BY <1>1, <4>1, <4>2, <4>3
    <3>3. QED
      BY <3>1, <3>2
  <2>2. QED
    BY <2>1 DEF RemindedOnce
<1>7. FlagsAsRead'
  <2>1. CASE GoOn(u)
    BY <1>1, <1>4, <2>1 DEF GoOn, Without, FlagsAsRead, RemindInv, BatchType
  <2>2. CASE Throw
    BY <2>2, NoneType DEF Throw, FlagsAsRead
  <2>3. QED
    BY <1>5, <2>1, <2>2
<1>8. QED
  BY <1>6, <1>7 DEF RemindInv

LEMMA RemindStep ==
    ASSUME TypeOK, RemindInv, [Next]_vars PROVE RemindInv'
<1>1. AccountType /\ BatchType /\ mishaps \in Nat
  BY Parts, BoundsAssumption DEF RunType
<1>2. ASSUME UNCHANGED <<reminded, sent>>, mishaps' = mishaps \/ mishaps' = mishaps + 1
      PROVE  RemindedOnce'
  <2>1. \A v \in Accounts, c \in ReminderDays : sent[v][c] \in Nat
    BY <1>1 DEF AccountType
  <2>2. QED
    BY <1>1, <1>2, <2>1 DEF RemindInv, RemindedOnce
<1>3. ASSUME UNCHANGED <<reminded, batch>> PROVE FlagsAsRead'
  BY <1>3 DEF RemindInv, FlagsAsRead
<1>4. ASSUME UNCHANGED <<reminded, sent, batch, mishaps>> PROVE RemindInv'
  BY <1>2, <1>3, <1>4 DEF RemindInv
<1>5. CASE Tick \/ FinishDaily \/ UNCHANGED vars
  BY <1>4, <1>5 DEF Tick, FinishDaily, vars, account, run
<1>6. CASE AccountStep \/ PageStep
  BY <1>4, <1>6 DEF AccountStep, PageStep, Subscribe, FixUserModal, StartHourly,
                    HourlyEnds, LoadList, FixNext, FixExpiredUser, End, account, run
<1>7. CASE StartDaily
  <2>1. FlagsAsRead'
    BY <1>7 DEF StartDaily, FlagsAsRead, account
  <2>2. QED
    BY <1>2, <1>7, <2>1 DEF StartDaily, RemindInv, account
<1>8. ASSUME NEW u \in DOMAIN batch, Handle(u) PROVE RemindInv'
  <2>1. CASE \E d \in ReminderDays : Remind(u, d)
    BY <2>1, RemindedByRun
  <2>2. CASE EndRead(u) \/ Pass(u)
    <3>1. UNCHANGED <<reminded, sent>> /\ (GoOn(u) \/ Throw)
      BY <2>2 DEF EndRead, Pass, End, account
    <3>2. mishaps' = mishaps \/ mishaps' = mishaps + 1
      BY <3>1 DEF GoOn, Throw
    <3>3. FlagsAsRead'
      BY <3>1, NoneType DEF GoOn, Throw, Without, FlagsAsRead, RemindInv
    <3>4. QED
      BY <1>2, <3>1, <3>2, <3>3 DEF RemindInv
  <2>3. QED
    BY <1>8, <2>1, <2>2 DEF Handle
<1>9. CASE StartFails
  <2>1. FlagsAsRead'
    BY <1>9, NoneType DEF StartFails, Throw, FlagsAsRead
  <2>2. QED
    BY <1>2, <1>9, <2>1 DEF StartFails, Throw, RemindInv, account
<1>10. QED
  BY <1>5, <1>6, <1>7, <1>8, <1>9 DEF Next, DailyStep

\* A reminder is sent once, and once more for each failed call at most.
THEOREM OneReminder == Spec => []RemindedOnce
<1>1. TypeOK /\ RemindInv /\ [Next]_vars => RemindInv'
  BY RemindStep
<1>2. RemindInv => RemindedOnce
  BY DEF RemindInv
<1>3. QED
  BY <1>1, <1>2, RemindInit, TypeCorrect, PTL DEF Spec
-----------------------------------------------------------------------------
(***************************************************************************)
(* A run that gets to its end.                                             *)
(***************************************************************************)
\* What a daily run is to see to.
SeenTo(u) ==
    expiry[u] # Never =>
        /\ expiry[u] >= now
        /\ {expiry[u] - now} \cap ReminderDays \subseteq reminded[u]

\* An account that the run no longer holds is seen to, one that it holds is as
\* the run read it, but for those that others made active meanwhile.
Halfway ==
    st = "running" =>
        \A u \in Accounts \ touched :
            active[u] => IF u \in DOMAIN batch
                         THEN batch[u].expiry = expiry[u] /\ batch[u].reminded = reminded[u]
                         ELSE SeenTo(u)

LEMMA CompleteInit == Init => Halfway
BY DEF Init, Halfway

LEMMA CompleteStart == ASSUME StartDaily PROVE Halfway'
<1>1. \A u \in Accounts : u \notin DOMAIN batch' => ~active'[u]
  BY DEF StartDaily, Queried, account
<1>2. \A u \in DOMAIN batch' :
         batch'[u].expiry = expiry'[u] /\ batch'[u].reminded = reminded'[u]
  BY DEF StartDaily, account
<1>3. QED
  BY <1>1, <1>2 DEF Halfway

\* Others may end accounts, and what they make active is touched.
LEMMA CompleteOthers ==
    ASSUME Halfway, UNCHANGED run,
           st = "running" =>
              \A u \in Accounts \ touched' :
                 active'[u] => /\ u \notin touched /\ active[u]
                               /\ expiry'[u] = expiry[u] /\ reminded'[u] = reminded[u]
    PROVE  Halfway'
<1>1. SUFFICES ASSUME st = "running", NEW u \in Accounts \ touched', active'[u]
               PROVE  IF u \in DOMAIN batch
                      THEN batch[u].expiry = expiry'[u] /\ batch[u].reminded = reminded'[u]
                      ELSE SeenTo(u)'
  BY DEF Halfway, run
<1>2. /\ u \in Accounts \ touched /\ active[u]
      /\ expiry'[u] = expiry[u] /\ reminded'[u] = reminded[u] /\ now' = now
  BY <1>1 DEF run
<1>3. CASE u \in DOMAIN batch
  BY <1>1, <1>2, <1>3 DEF Halfway
<1>4. CASE u \notin DOMAIN batch
  <2>1. SeenTo(u)
    BY <1>1, <1>2, <1>4 DEF Halfway
  <2>2. QED
    BY <1>2, <1>4, <2>1 DEF SeenTo
<1>5. QED
  BY <1>3, <1>4

LEMMA CompleteAccounts ==
    ASSUME TypeOK, Halfway, AccountStep PROVE Halfway'
<1>1. AccountType
  BY Parts
<1>2. ASSUME NEW u \in Accounts, NEW p \in Plans, Subscribe(u, p) PROVE Halfway'
  BY <1>1, <1>2, CompleteOthers DEF Subscribe, Touch, AccountType
<1>3. ASSUME NEW u \in Accounts, NEW free \in BOOLEAN, FixUserModal(u, free) PROVE Halfway'
  <2>1. CASE free
    BY <1>1, <1>3, <2>1, CompleteOthers DEF FixUserModal, AccountType
  <2>2. CASE ~free
    BY <1>1, <1>3, <2>2, CompleteOthers DEF FixUserModal, Touch, AccountType
  <2>3. QED
    BY <2>1, <2>2
<1>4. QED
  BY <1>2, <1>3 DEF AccountStep

\* An account that the run is done with.
LEMMA HandledIsSeenTo ==
    ASSUME TypeOK, Halfway, NEW u \in DOMAIN batch, Handle(u), GoOn(u),
           u \notin touched, active'[u]
    PROVE  SeenTo(u)'
<1>1. AccountType /\ BatchType /\ DayType /\ st = "running" /\ u \in Accounts
  BY Parts, Running
<1>2. ~EndRead(u) \/ active' = active
  BY <1>1 DEF EndRead, End, AccountType, account
<1>3. ~IsOver(u) /\ active[u] /\ expiry' = expiry /\ now' = now
  <2>1. CASE EndRead(u)
    <3>1. ~End(u, batch[u].expiry)
      BY <1>1 DEF End, AccountType
    <3>2. Throw
      BY <2>1, <3>1 DEF EndRead
    <3>3. QED
      BY <1>1, <3>2 DEF Throw, GoOn
  <2>2. CASE ~EndRead(u)
    BY <1>1, <2>2 DEF Handle, Pass, Remind, GoOn, account
  <2>3. QED
    BY <2>1, <2>2
<1>4. batch[u].expiry = expiry[u] /\ batch[u].reminded = reminded[u]
  BY <1>1, <1>3 DEF Halfway
<1>5. CASE expiry[u] = Never
  BY <1>3, <1>5 DEF SeenTo
<1>6. CASE expiry[u] # Never
  <2>1. expiry[u] \in Int /\ now \in Int /\ expiry[u] >= now
    BY <1>1, <1>3, <1>4, <1>6, BoundsAssumption
       DEF AccountType, Expiries, IsOver, Expired, DayType, Days
  <2>2. Due(u) = ({expiry[u] - now} \cap ReminderDays) \ reminded[u]
    BY <1>4, <1>6 DEF Due
  <2>3. {expiry[u] - now} \cap ReminderDays \subseteq reminded'[u]
    <3>1. CASE Pass(u)
      BY <2>2, <3>1 DEF Pass, account
    <3>2. ASSUME NEW d \in ReminderDays, Remind(u, d)
          PROVE  {expiry[u] - now} \cap ReminderDays \subseteq reminded'[u]
      <4>1. d = expiry[u] - now
        BY <2>2, <3>2 DEF Remind
      <4>2. reminded' = [reminded EXCEPT ![u] = Flags(u, d)]
        BY <1>1, <3>2 DEF Remind, Throw, GoOn
      <4>3. QED
        BY <1>1, <4>1, <4>2 DEF Flags, AccountType
    <3>3. QED
      BY <1>3, <3>1, <3>2 DEF Handle, EndRead
  <2>4. QED
    BY <1>3, <2>1, <2>3 DEF SeenTo
<1>7. QED
  BY <1>5, <1>6

LEMMA CompleteHandle ==
    ASSUME TypeOK, Halfway, NEW u \in DOMAIN batch, Handle(u) PROVE Halfway'
<1>1. AccountType /\ BatchType /\ st = "running" /\ u \in Accounts
  BY Parts, Running
<1>2. GoOn(u) \/ Throw
  BY DEF Handle, EndRead, Pass, Remind
<1>3. CASE Throw
  BY <1>3 DEF Throw, Halfway
<1>4. CASE GoOn(u)
  <2>1. SUFFICES ASSUME NEW v \in Accounts \ touched, active'[v]
                 PROVE  IF v \in DOMAIN batch'
                        THEN batch'[v].expiry = expiry'[v] /\ batch'[v].reminded = reminded'[v]
                        ELSE SeenTo(v)'
    BY <1>4 DEF Halfway, GoOn
  <2>2. CASE v = u
    <3>1. v \notin DOMAIN batch'
      BY <1>4, <2>2 DEF GoOn, Without
    <3>2. QED
      BY <1>4, <2>1, <2>2, <3>1, HandledIsSeenTo
  <2>3. CASE v # u
    <3>1. active[v] /\ expiry'[v] = expiry[v] /\ reminded'[v] = reminded[v] /\ now' = now
      BY <1>1, <1>4, <2>1, <2>3
         DEF Handle, EndRead, End, Pass, Remind, Flags, GoOn, AccountType, account
    <3>2. IF v \in DOMAIN batch
          THEN batch[v].expiry = expiry[v] /\ batch[v].reminded = reminded[v]
          ELSE SeenTo(v)
      BY <1>1, <2>1, <3>1 DEF Halfway
    <3>3. (v \in DOMAIN batch' <=> v \in DOMAIN batch)
          /\ (v \in DOMAIN batch => batch'[v] = batch[v])
      BY <1>4, <2>3 DEF GoOn, Without
    <3>4. SeenTo(v) => SeenTo(v)'
      BY <3>1 DEF SeenTo
    <3>5. QED
      BY <3>1, <3>2, <3>3, <3>4
  <2>4. QED
    BY <2>2, <2>3
<1>5. QED
  BY <1>2, <1>3, <1>4

LEMMA CompletePage ==
    ASSUME TypeOK, Halfway, PageStep PROVE Halfway'
<1>1. AccountType
  BY Parts
<1>2. UNCHANGED <<run, touched, expiry, reminded>>
  BY DEF PageStep, StartHourly, HourlyEnds, LoadList, FixNext, FixExpiredUser, End, account
<1>3. \A v \in Accounts : active'[v] => active[v]
  BY <1>1 DEF PageStep, StartHourly, HourlyEnds, LoadList, FixNext, FixExpiredUser, End,
              account, AccountType
<1>4. QED
  BY <1>2, <1>3, CompleteOthers

LEMMA CompleteStep ==
    ASSUME TypeOK, Halfway, [Next]_vars PROVE Halfway'
<1>1. CASE Tick
  <2>1. st' = "running" => st = "running"
    BY <1>1 DEF Tick
  <2>2. QED
    BY <1>1, <2>1 DEF Tick, Halfway, SeenTo, account
<1>2. CASE FinishDaily
  BY <1>2 DEF FinishDaily, Halfway
<1>3. CASE UNCHANGED vars
  BY <1>3, CompleteOthers DEF vars, account
<1>4. CASE StartFails
  BY <1>4 DEF StartFails, Throw, Halfway
<1>5. QED
  BY <1>1, <1>2, <1>3, <1>4, CompleteStart, CompleteAccounts, CompleteHandle, CompletePage
     DEF Next, DailyStep

\* A daily run that gets to its end has ended what was over and sent the
\* reminders of its day, but for accounts that others made active meanwhile.
THEOREM RunsAreComplete == Spec => RunIsComplete
<1>1. TypeOK /\ Halfway /\ [Next]_vars => Halfway'
  BY CompleteStep
<1>2. Halfway =>
        (FinishDaily =>
           \A u \in Accounts \ touched :
              active[u] /\ expiry[u] # Never =>
                 /\ expiry[u] >= now
                 /\ {expiry[u] - now} \cap ReminderDays \subseteq reminded[u])
  BY NoneType DEF Halfway, FinishDaily, SeenTo
<1>3. QED
  BY <1>1, <1>2, CompleteInit, TypeCorrect, PTL DEF Spec, RunIsComplete
=============================================================================
