SPECIFICATION Spec
CONSTANTS
    Users = {u1, u2}
    Menus = {m1}
    Orders = {o1, o2}
    NoUser = NoUser
    NoMenu = NoMenu
    NoOrder = NoOrder
    OrderTotals = {0, 1, 2}
    Deposits = {2}
    TopUps = {1}
    MaxBalance = 3
    AdminEdits <- KitchenEdits
    Reassignable = {"cancelled"}
    MaxTransactions = 4
SYMMETRY Symmetry
CHECK_DEADLOCK FALSE
INVARIANTS
    TypeOK
    HoldsBacked
    Solvent
    LedgerMatchesOrders
PROPERTIES
    ImplementsEscrow
