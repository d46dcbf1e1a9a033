\* Two reshares and an opened package in one page, and a reader.
SPECIFICATION FairSpec
CONSTANTS
    r1 = r1
    r2 = r2
    p1 = p1
    o1 = o1
    v1 = v1
    NoShare = NoShare
    Raw = Raw
    Reshares = {r1, r2}
    Previews = {}
    Openings = {o1}
    Views = {v1}
    MaxTries = 2
INVARIANTS
    TypeOK
    ReadersAreTold
    LinksResolve
    LockIsRight
PROPERTY SharesEnd
CHECK_DEADLOCK FALSE
