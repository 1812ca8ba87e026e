SPECIFICATION Spec
CONSTANTS
    Browsers = {b1}
    Requests = {r1, r2}
    Jtis = {j1, j2, j3}
    NoJti = NoJti
    NoBrowser = NoBrowser
    MaxFaults = 0
SYMMETRY Symmetry
CHECK_DEADLOCK FALSE
INVARIANTS
    KeepsCurrent
