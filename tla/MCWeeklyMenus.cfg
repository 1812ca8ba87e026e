SPECIFICATION Spec
CONSTANTS
    Menus = {m1, m2}
    Absent = Absent
    Times <- SomeTimes
    Moments <- SomeMoments
    UtcOffset = 2
    MaxOffset = 3
    MaxEdits = 1
SYMMETRY Symmetry
CHECK_DEADLOCK FALSE
INVARIANTS
    OnOnePage
    UpcomingIsOnPage
    ShownOnce
    NoneMissed
