\* One submission, up to two images of every kind, a subscriber and a free
\* account that take turns in this and in another tab, with fair fetches and timers.
SPECIFICATION FairSpec
CONSTANTS
    s1 = s1
    s2 = s2
    u1 = u1
    u2 = u2
    good = good
    bad = bad
    lewd = lewd
    Submissions = {s1}
    Users = {u1, u2}
    NoUser = NoUser
    Premium = {u1}
    Images = {good, lewd}
    BadName = {lewd}
    Unsafe = {lewd}
    MaxImages = 2
    MaxSelection = 3
    NoImage = NoImage
    NoUrl = NoUrl
    NoReport = NoReport
INVARIANTS
    TypeOK
    ImageUrlResolves
    AuthorIsWriter
    PageIsGivenBack
PROPERTIES
    MessagesAreTrue
    AccountsDoNotSwap
    RunsEnd
CHECK_DEADLOCK FALSE
