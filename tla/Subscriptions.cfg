\* Two accounts, a plan of two days, a reminder on the day
\* before the end; one write of the daily run fails.
SPECIFICATION FairSpec
CONSTANTS
    a1 = a1
    a2 = a2
    Never = Never
    Accounts = {a1, a2}
    Plans = {2}
    ReminderDays = {1}
    Retries = 1
    MaxDay = 4
    MaxMishaps = 1
INVARIANTS
    TypeOK
    PaidIsActive
    RemindedOnce
PROPERTIES
    RunIsComplete
    ExpiredEnds
