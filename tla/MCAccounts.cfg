SPECIFICATION Spec
CONSTANTS
    Requests = {r1, r2}
    Passwords = {p1}
    NoPassword = NoPassword
    AdminPage = TRUE
    PicksGroups = TRUE
    MaxFormEdits = 1
    MaxFaults = 1
SYMMETRY Symmetry
CHECK_DEADLOCK FALSE
INVARIANTS
    RowAsMeant
    GroupFollowsRow
    Provisioned
    MfaHasSecret
