\* Two windows of the panel, its timer, two accounts that both have a bad report.
SPECIFICATION Spec
CONSTANTS
    h1 = h1
    h2 = h2
    u1 = u1
    u2 = u2
    i1 = i1
    p1 = p1
    p2 = p2
    Nobody = Nobody
    Clicks = {h1, h2}
    Users = {u1, u2}
    Items = {i1}
    ItemOwner <- OneItem
    Reports = {p1, p2}
    Author <- TwoAuthors
    Bad = {p1, p2}
    ViolationLimit = 2
    OffenderLimit = 1
    MaxLogs = 1
    MaxFailures = 1
SYMMETRY ClickSymmetry
INVARIANTS
    TypeOK
    StatusAsDecided
    ViolationsAreCounted
    RulingsReachAccounts
CHECK_DEADLOCK FALSE
