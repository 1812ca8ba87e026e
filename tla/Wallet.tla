------------------------------- MODULE Wallet -------------------------------
(***************************************************************************)
(* The wallet service (apps/wallets/services.py) with the orders and the   *)
(* administration pages that touch the same rows.  One action is one       *)
(* database transaction: every service function is @transaction.atomic and *)
(* takes the row locks it needs before it reads.  WalletRequests refines   *)
(* this module to the level of those locks.                                *)
(*                                                                         *)
(* The tables are                                                          *)
(*   orders        order:       status, user, menu, total_amount           *)
(*   current_balance, on_hold   the two columns of balance, per user       *)
(*   transactions  transaction: in created_at order                        *)
(*   closed        the menus whose cancellation deadline has passed        *)
(***************************************************************************)
EXTENDS Integers, Sequences, Amounts

CONSTANTS
    Users, Menus,
    Orders,          \* primary keys of the rows that may be inserted
    NoUser, NoMenu,  \* the columns of a row that is not inserted yet
    NoOrder,         \* NULL in transaction.order_id
    OrderTotals,     \* what a basket can come to, 0 for an empty one
    Deposits,        \* amounts staff may deposit
    TopUps,          \* amounts between STRIPE_MIN_TOP_UP and STRIPE_MAX_TOP_UP
    MaxBalance,      \* largest value of numeric(10,2)
    AdminEdits,      \* <<from, to>>: status edits made in the order admin page
    Reassignable,    \* statuses in which that page changes an order's user
    MaxTransactions  \* bound on the length of the transaction table

OrderStatus ==
    {"pending", "preparing", "confirmed", "paid", "completed", "cancelled"}
TransactionType == {"deposit", "payment", "refund", "hold"}
TransactionStatus == {"pending", "completed", "cancelled"}

ASSUME UsersAssumption == Users # {} /\ NoUser \notin Users
ASSUME OrdersAssumption == IsFiniteSet(Orders) /\ NoOrder \notin Orders
ASSUME AmountsAssumption ==
    OrderTotals \subseteq Nat /\ Deposits \subseteq Nat /\ TopUps \subseteq Nat
ASSUME BoundsAssumption == MaxBalance \in Nat /\ MaxTransactions \in Nat
ASSUME AdminAssumption ==
    AdminEdits \subseteq OrderStatus \X OrderStatus /\ Reassignable \subseteq OrderStatus

VARIABLES orders, current_balance, on_hold, transactions, closed

vars == <<orders, current_balance, on_hold, transactions, closed>>

Order == [status: OrderStatus, user: Users, menu: Menus, total_amount: Nat]

\* A primary key no row was inserted under yet.
Absent == [status |-> "absent", user |-> NoUser, menu |-> NoMenu, total_amount |-> 0]

Transaction ==
    [user: Users, order: Orders \cup {NoOrder}, type: TransactionType,
     amount: Nat, remaining_balance: Int, status: TransactionStatus]

Init ==
    /\ orders = [o \in Orders |-> Absent]
    /\ current_balance = [u \in Users |-> 0]
    /\ on_hold = [u \in Users |-> 0]
    /\ transactions = <<>>
    /\ closed = {}

-----------------------------------------------------------------------------
(* What a transaction writes.                                              *)

Record(u, o, type, amount, status, remaining) ==
    /\ Len(transactions) < MaxTransactions
    /\ transactions' =
         Append(transactions,
                [user |-> u, order |-> o, type |-> type, amount |-> amount,
                 remaining_balance |-> remaining, status |-> status])

SetStatus(o, status) == orders' = [orders EXCEPT ![o].status = status]

Credit(u, amount) ==
    /\ current_balance[u] + amount <= MaxBalance  \* else the UPDATE is refused
    /\ current_balance' = [current_balance EXCEPT ![u] = @ + amount]

\* Mutant of PendingHolds: finds a HOLD that was cancelled, too.
AnyHolds(o) ==
    {i \in DOMAIN transactions :
        /\ transactions[i].order = o
        /\ transactions[i].user = orders[o].user
        /\ transactions[i].type = "hold"}

\* The pending HOLD of an order on its user's balance.  place_hold runs once
\* per order, so .first() never has two rows to choose from.
PendingHolds(o) ==
    {i \in DOMAIN transactions :
        /\ transactions[i].order = o
        /\ transactions[i].user = orders[o].user
        /\ transactions[i].type = "hold"
        /\ transactions[i].status = "pending"}

-----------------------------------------------------------------------------
(* Service functions.                                                      *)

\* Mutant of Deposit: the balance is not read again after its UPDATE.
DepositStale(u, amount) ==
    /\ amount > 0
    /\ Credit(u, amount)
    /\ Record(u, NoOrder, "deposit", amount, "completed", current_balance[u])
    /\ UNCHANGED <<orders, on_hold, closed>>

Deposit(u, amount) ==
    /\ amount > 0
    /\ Credit(u, amount)
    /\ Record(u, NoOrder, "deposit", amount, "completed", current_balance'[u])
    /\ UNCHANGED <<orders, on_hold, closed>>

\* OrderCreateSerializer.create: the row is inserted as PENDING, priced, and
\* place_hold moves it to CONFIRMED, all in one transaction.  Nothing that
\* validate() read before the transaction is read again, except the funds.
InsertWithHold(u, o, m, amount) ==
    /\ orders' = [orders EXCEPT ![o] = [status |-> "confirmed", user |-> u,
                                        menu |-> m, total_amount |-> amount]]
    /\ on_hold' = [on_hold EXCEPT ![u] = @ + amount]
    /\ Record(u, o, "hold", amount, "pending", current_balance[u])
    /\ UNCHANGED <<current_balance, closed>>

\* Mutant of PlaceOrder: forgets what is on hold already.
PlaceOrderOnHeldFunds(u, o, m, amount) ==
    /\ orders[o] = Absent
    /\ current_balance[u] >= amount
    /\ InsertWithHold(u, o, m, amount)

PlaceOrder(u, o, m, amount) ==
    /\ orders[o] = Absent
    /\ current_balance[u] - on_hold[u] >= amount
    /\ InsertWithHold(u, o, m, amount)

\* The HOLD becomes the PAYMENT; without one a PAYMENT is inserted.
Settle(o) ==
    LET u == orders[o].user
        amount == orders[o].total_amount
    IN  /\ SetStatus(o, "paid")
        /\ current_balance' = [current_balance EXCEPT ![u] = @ - amount]
        /\ \/ \E i \in PendingHolds(o) :
                 transactions' = [transactions EXCEPT ![i] =
                    [@ EXCEPT !.type = "payment", !.status = "completed",
                              !.remaining_balance = current_balance'[u]]]
           \/ /\ PendingHolds(o) = {}
              /\ Record(u, o, "payment", amount, "completed", current_balance'[u])
        /\ UNCHANGED closed

\* Mutant of SettleFromHold: captures without releasing the hold.
SettleKeepingHold(o) == Settle(o) /\ UNCHANGED on_hold

SettleFromHold(o) ==
    /\ on_hold' = [on_hold EXCEPT ![orders[o].user] = @ - orders[o].total_amount]
    /\ Settle(o)

CaptureHeld(o) ==
    /\ orders[o].status \in {"preparing", "confirmed"}
    /\ on_hold[orders[o].user] >= orders[o].total_amount
    /\ SettleFromHold(o)

\* The branch for a PENDING order asks for a HOLD and takes the money from
\* current_balance only.
CapturePending(o) ==
    /\ orders[o].status = "pending"
    /\ PendingHolds(o) # {}
    /\ current_balance[orders[o].user] >= orders[o].total_amount
    /\ Settle(o)
    /\ UNCHANGED on_hold

ReturnMoney(o) ==
    LET u == orders[o].user
        amount == orders[o].total_amount
    IN  /\ Credit(u, amount)
        /\ Record(u, o, "refund", amount, "completed", current_balance'[u])
        /\ SetStatus(o, "cancelled")
        /\ UNCHANGED <<on_hold, closed>>

\* Mutant of Refund: accepts an order that was refunded before.
RefundAgain(o) == orders[o].status \in {"paid", "completed", "cancelled"} /\ ReturnMoney(o)

Refund(o) == orders[o].status \in {"paid", "completed"} /\ ReturnMoney(o)

ReleaseHold(o) ==
    /\ on_hold' = [on_hold EXCEPT ![orders[o].user] = @ - orders[o].total_amount]
    /\ \/ \E i \in PendingHolds(o) :
             transactions' = [transactions EXCEPT ![i].status = "cancelled"]
       \/ PendingHolds(o) = {} /\ UNCHANGED transactions
    /\ SetStatus(o, "cancelled")
    /\ UNCHANGED <<current_balance, closed>>

\* Mutant of Cancel: looks neither at the order's status nor at the hold.
CancelUnchecked(o) ==
    /\ orders[o] # Absent
    /\ orders[o].menu \notin closed
    /\ ReleaseHold(o)

\* Mutant of Cancel: accepts an order that was cancelled before.
CancelAgain(o) ==
    /\ orders[o].status \in {"pending", "preparing", "confirmed", "cancelled"}
    /\ orders[o].menu \notin closed
    /\ on_hold[orders[o].user] >= orders[o].total_amount
    /\ ReleaseHold(o)

Cancel(o) ==
    /\ orders[o].status \in {"pending", "preparing", "confirmed"}
    /\ orders[o].menu \notin closed
    /\ on_hold[orders[o].user] >= orders[o].total_amount
    /\ ReleaseHold(o)

-----------------------------------------------------------------------------
(* Card top-ups: the row the checkout leaves, and the row transaction of   *)
(* the webhook that credits it.  TopUp models the protocol around them.    *)

CreateCheckout(u, amount) ==
    /\ Record(u, NoOrder, "deposit", amount, "pending", current_balance[u])
    /\ UNCHANGED <<orders, current_balance, on_hold, closed>>

\* Mutant of CreditTopUp: remaining_balance keeps what the checkout wrote.
CreditTopUpStale(i) ==
    LET u == transactions[i].user
    IN  /\ Credit(u, transactions[i].amount)
        /\ transactions' = [transactions EXCEPT ![i].status = "completed"]
        /\ UNCHANGED <<orders, on_hold, closed>>

CreditTopUp(i) ==
    LET u == transactions[i].user
    IN  /\ Credit(u, transactions[i].amount)
        /\ transactions' = [transactions EXCEPT ![i] =
              [@ EXCEPT !.status = "completed",
                        !.remaining_balance = current_balance'[u]]]
        /\ UNCHANGED <<orders, on_hold, closed>>

\* Mutant of CompleteTopUp: does not look whether the row is completed.
CompleteTopUpAgain(i) == transactions[i].type = "deposit" /\ CreditTopUp(i)

CompleteTopUp(i) ==
    /\ transactions[i].type = "deposit"
    /\ transactions[i].status # "completed"
    /\ CreditTopUp(i)

-----------------------------------------------------------------------------
(* The order admin page, and the clock.                                    *)

AdminSetStatus(o, status) ==
    /\ <<orders[o].status, status>> \in AdminEdits
    /\ SetStatus(o, status)
    /\ UNCHANGED <<current_balance, on_hold, transactions, closed>>

AdminReassign(o, u) ==
    /\ orders[o].status \in Reassignable
    /\ u # orders[o].user
    /\ orders' = [orders EXCEPT ![o].user = u]
    /\ UNCHANGED <<current_balance, on_hold, transactions, closed>>

\* start_time - 15 minutes goes by.
DeadlinePasses(m) ==
    /\ m \notin closed
    /\ closed' = closed \cup {m}
    /\ UNCHANGED <<orders, current_balance, on_hold, transactions>>

Next ==
    \/ \E u \in Users :
          \/ \E a \in Deposits : Deposit(u, a)
          \/ \E a \in TopUps : CreateCheckout(u, a)
          \/ \E o \in Orders, m \in Menus, a \in OrderTotals : PlaceOrder(u, o, m, a)
    \/ \E o \in Orders :
          \/ CaptureHeld(o) \/ CapturePending(o) \/ Refund(o) \/ Cancel(o)
          \/ \E s \in OrderStatus : AdminSetStatus(o, s)
          \/ \E u \in Users : AdminReassign(o, u)
    \/ \E i \in DOMAIN transactions : CompleteTopUp(i)
    \/ \E m \in Menus : DeadlinePasses(m)

Spec == Init /\ [][Next]_vars

-----------------------------------------------------------------------------
(* Properties.                                                             *)

\* The tables hold values of their columns' types, and no hold is negative.
TypeOK ==
    /\ orders \in [Orders -> Order \cup {Absent}]
    /\ current_balance \in [Users -> Int]
    /\ on_hold \in [Users -> Nat]
    /\ transactions \in Seq(Transaction)
    /\ closed \subseteq Menus

AmountOf == [i \in DOMAIN transactions |-> transactions[i].amount]

Completed(u, types) ==
    {i \in DOMAIN transactions :
        /\ transactions[i].user = u
        /\ transactions[i].type \in types
        /\ transactions[i].status = "completed"}

\* The ledger explains the balance: what a user has is what was deposited and
\* refunded, less what was paid, whatever the services and the administration
\* page did to the orders (services.py: every UPDATE of current_balance goes
\* with one completed row of transaction).
Reconciled ==
    \A u \in Users :
        current_balance[u] = Total(AmountOf, Completed(u, {"deposit", "refund"}))
                             - Total(AmountOf, Completed(u, {"payment"}))

TotalOf == [o \in Orders |-> orders[o].total_amount]

HeldOrders(u) ==
    {o \in Orders : orders[o].user = u /\ orders[o].status \in {"preparing", "confirmed"}}

\* on_hold is the sum of the user's orders that wait for capture: no sequence
\* of place_hold, capture, cancel and kitchen edits leaks or loses a hold.
HoldsBacked == \A u \in Users : on_hold[u] = Total(TotalOf, HeldOrders(u))

\* The checks on current_balance - on_hold (place_hold) and on on_hold
\* (capture) are enough: no user ever has less than what is on hold.
Solvent == \A u \in Users : on_hold[u] <= current_balance[u]

Entries(o) == {i \in DOMAIN transactions : transactions[i].order = o}

Kinds(o) == {<<transactions[i].type, transactions[i].status>> : i \in Entries(o)}

\* What the ledger holds of an order in each status.
History ==
    [absent    |-> {{}},
     pending   |-> {},
     confirmed |-> {{<<"hold", "pending">>}},
     preparing |-> {{<<"hold", "pending">>}},
     paid      |-> {{<<"payment", "completed">>}},
     completed |-> {{<<"payment", "completed">>}},
     cancelled |-> {{<<"hold", "cancelled">>},
                    {<<"payment", "completed">>, <<"refund", "completed">>}}]

\* The ledger and the order agree: an order is paid once, refunded at most once
\* and only after it was paid, for its own total, all on one user's balance and
\* on its own user's while it can still be paid or refunded; so the fallback of
\* capture_payment_by_staff is never taken.
LedgerMatchesOrders ==
    \A o \in Orders :
        /\ Kinds(o) \in History[orders[o].status]
        /\ \A i, j \in Entries(o) : transactions[i].type = transactions[j].type => i = j
        /\ \A i, j \in Entries(o) : transactions[i].user = transactions[j].user
        /\ \A i \in Entries(o) :
             /\ transactions[i].amount = orders[o].total_amount
             /\ orders[o].status # "cancelled" => transactions[i].user = orders[o].user

Settled(i) == transactions[i].status # "pending"

RowsKept ==
    \A i \in DOMAIN transactions :
        /\ i \in DOMAIN transactions'
        /\ Settled(i) => transactions'[i] = transactions[i]
        /\ transactions'[i].user = transactions[i].user
        /\ transactions'[i].order = transactions[i].order
        /\ transactions'[i].amount = transactions[i].amount

\* The ledger is an audit trail: a step may settle a pending row, it never
\* removes a row, rewrites a settled one, or changes what a row is about.
LedgerAppendOnly == [][RowsKept]_vars

NewlyCompleted ==
    {i \in DOMAIN transactions' :
        /\ transactions'[i].status = "completed"
        /\ i \in DOMAIN transactions => transactions[i].status # "completed"}

StepExplained ==
    /\ \A i, j \in NewlyCompleted : i = j
    /\ \A u \in Users :
         current_balance'[u] # current_balance[u]
           => \E i \in NewlyCompleted : transactions'[i].user = u
    /\ \A i \in NewlyCompleted :
         transactions'[i].remaining_balance = current_balance'[transactions'[i].user]

\* A step that completes a transaction completes one, of the one balance it
\* changes, and writes the balance it leaves into remaining_balance; a step
\* that completes none changes no balance.
BalanceExplained == [][StepExplained]_vars
=============================================================================
