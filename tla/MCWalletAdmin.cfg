SPECIFICATION Spec
CONSTANTS
    Users = {u1, u2}
    Menus = {m1}
    Orders = {o1, o2}
    NoUser = NoUser
    NoMenu = NoMenu
    NoOrder = NoOrder
    OrderTotals = {1}
    Deposits = {2}
    TopUps = {1}
    MaxBalance = 3
    AdminEdits <- AnyEdits
    Reassignable <- OrderStatus
    MaxTransactions = 4
SYMMETRY Symmetry
CHECK_DEADLOCK FALSE
INVARIANTS
    Reconciled
PROPERTIES
    LedgerAppendOnly
    BalanceExplained
