SPECIFICATION Spec
CONSTANTS
    i1 = i1
    u1 = u1
    Users = {u1}
    NoUser = NoUser
    NoPrice = NoPrice
    Items = {i1}
    Orders = {o1, o2}
    Workers = {w1, w2}
    Offer <- OfferValues
    Quantities = {0, 1}
    Overrides = {0, 3}
    BasePrices = {0, 2}
    Funds <- FundsValues
    MaxQuantity = 1
    MaxLines = 1
    MaxEdits = 0
SYMMETRY Symmetry
CHECK_DEADLOCK FALSE
INVARIANTS
    NeverOversold
