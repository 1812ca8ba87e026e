SPECIFICATION Spec
CONSTANTS
    Requests = {r1, r2}
    Tickets = {t1}
    Secrets = {s1, s2}
    CodeSets = {c1, c2, c3}
    CodesPerSet = 1
    MaxAttempts = 2
    NoSecret = NoSecret
    NoTicket = NoTicket
    WrongCode = WrongCode
    MaxFaults = 1
SYMMETRY Symmetry
CHECK_DEADLOCK FALSE
INVARIANTS
    CodeSignsInOnce
    AttemptsBounded
    SignInsBounded
    SetsBounded
    EnabledHasCodes
