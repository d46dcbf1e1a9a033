\* A redemption and a sign-up in browsers with an SDK session of the owner, with fair fetches.
SPECIFICATION FairSpec
CONSTANTS
    r1 = r1
    r2 = r2
    n1 = n1
    u1 = u1
    u2 = u2
    c1 = c1
    c2 = c2
    NoUser = NoUser
    NoCode = NoCode
    Redemptions = {r1}
    SignUps = {n1}
    Users = {u2}
    Owner = u2
    OwnerBrowsers = {r1, n1}
    Codes = {c1, c2}
INVARIANT
    SpentIsCredited
PROPERTIES
    SpentStaysSpent
    TakenIsAnswered
CHECK_DEADLOCK FALSE
