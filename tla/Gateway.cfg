\* One account, two instances and three requests; one request in a tick,
\* an alarm after more than one entry in two ticks.
SPECIFICATION Spec
CONSTANTS
    u1 = u1
    u2 = u2
    i1 = i1
    i2 = i2
    q1 = q1
    q2 = q2
    q3 = q3
    Unknown = Unknown
    Users = {u1}
    Instances = {i1, i2}
    Requests = {q1, q2, q3}
    Limit = 1
    Window = 1
    Threshold = 1
    Hour = 2
    MaxTime = 2
    MaxLost = 1
SYMMETRY Symmetry
INVARIANTS
    TypeOK
    WithinLimit
    BlockedTurnedAway
    AlarmRaised
PROPERTY
    LimiterIsExact
