SPECIFICATION Spec
CONSTANTS
    s1 = s1
    s2 = s2
    u1 = u1
    u2 = u2
    good = good
    bad = bad
    lewd = lewd
    Submissions = {s1}
    Users = {u1}
    NoUser = NoUser
    Premium = {u1}
    Images = {good, bad}
    BadName = {}
    Unsafe = {bad}
    MaxImages = 1
    MaxSelection = 1
    NoImage = NoImage
    NoUrl = NoUrl
    NoReport = NoReport
INVARIANT
    CancelledNeverPublished
CHECK_DEADLOCK FALSE
