SPECIFICATION LiveSpec
CONSTANTS
    s1 = s1
    s2 = s2
    Sessions = {s1, s2}
    Workers = {w1, w2}
    NoSession = NoSession
    Amount <- AmountValues
    MaxBalance = 2
    MaxFaults = 3
CHECK_DEADLOCK FALSE
INVARIANTS
    CreditedOnce
    PayableIsRecorded
    AnsweredMeansCredited
PROPERTIES
    PaidIsCredited
