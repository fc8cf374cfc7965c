SPECIFICATION Spec
CONSTANTS
    k1 = k1
    k2 = k2
    k3 = k3
    r1 = r1
    r2 = r2
    Messages = 6
    Accounts = 2
    Key = {k1, k2, k3}
    NoKey = NoKey
    Resource = {r1, r2}
    Record <- Records
    NoFile = NoFile
INVARIANTS
    TypeOK
    CountsAreTrue
    OwnMedia
    NothingIsOverlooked
CHECK_DEADLOCK FALSE
