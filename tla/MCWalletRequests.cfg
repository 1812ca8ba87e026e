SPECIFICATION RLiveSpec
CONSTANTS
    Users = {u1}
    Menus = {m1}
    Orders = {o1, o2}
    NoUser = NoUser
    NoMenu = NoMenu
    NoOrder = NoOrder
    OrderTotals = {1}
    Deposits = {2}
    TopUps = {1}
    MaxBalance = 3
    AdminEdits <- KitchenEdits
    Reassignable = {}
    MaxTransactions = 4
    Requests = {r1, r2}
    AdminForms = TRUE
CHECK_DEADLOCK FALSE
INVARIANTS
    ReadsAreCurrent
PROPERTIES
    ServicesAreAtomic
    OnlyStaleFormsReopen
    RequestsFinish
