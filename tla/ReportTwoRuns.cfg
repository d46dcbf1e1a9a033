\* Two submissions of at most one image, one subscriber: how runs of the
\* handler get at each other through the page they share.
SPECIFICATION Spec
CONSTANTS
    s1 = s1
    s2 = s2
    u1 = u1
    u2 = u2
    good = good
    bad = bad
    lewd = lewd
    Submissions = {s1, s2}
    Users = {u1}
    NoUser = NoUser
    Premium = {u1}
    Images = {good, bad}
    BadName = {}
    Unsafe = {bad}
    MaxImages = 1
    MaxSelection = 1
    NoImage = NoImage
    NoUrl = NoUrl
    NoReport = NoReport
SYMMETRY Runs
INVARIANTS
    SingleFlight
    UploadedWereModerated
    CancelHonoured
CHECK_DEADLOCK FALSE
