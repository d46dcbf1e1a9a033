\* The timer of the panel beside one click, two accounts.
SPECIFICATION FairSpec
CONSTANTS
    h1 = h1
    h2 = h2
    u1 = u1
    u2 = u2
    i1 = i1
    p1 = p1
    p2 = p2
    Nobody = Nobody
    Clicks = {h1}
    Users = {u1, u2}
    Items = {i1}
    ItemOwner <- OneItem
    Reports = {p1, p2}
    Author <- TwoAuthors
    Bad = {p1, p2}
    ViolationLimit = 2
    OffenderLimit = 2
    MaxLogs = 2
    MaxFailures = 1
PROPERTY OffendersBlocked
CHECK_DEADLOCK FALSE
