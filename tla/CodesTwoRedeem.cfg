\* Two redemptions of one code by two accounts, which may change in the browser.
SPECIFICATION Spec
CONSTANTS
    r1 = r1
    r2 = r2
    n1 = n1
    u1 = u1
    u2 = u2
    c1 = c1
    c2 = c2
    NoUser = NoUser
    NoCode = NoCode
    Redemptions = {r1, r2}
    SignUps = {}
    Users = {u1, u2}
    Owner = u2
    OwnerBrowsers = {}
    Codes = {c1}
INVARIANTS
    TypeOK
    OneTimeUseInTurn
    CreditedIsSpent
    SponsoredOnRequest
CHECK_DEADLOCK FALSE
