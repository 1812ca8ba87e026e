--------------------------- MODULE WalletRequests ---------------------------
(***************************************************************************)
(* The wallet service at the level of its row locks.  Several workers run  *)
(* requests at once; each service function is one database transaction     *)
(* (READ COMMITTED) that takes rows with select_for_update, reads each row *)
(* as it gets the lock, decides on what it read, and writes.  Its writes   *)
(* become visible, and its locks are released, when it commits; a request  *)
(* that fails or whose worker dies is rolled back.                         *)
(*                                                                         *)
(* The order admin page is a request of another kind: the form is filled   *)
(* from one request and saved by a later one, and the save writes the      *)
(* status of the form over whatever the row holds by then.                 *)
(***************************************************************************)
EXTENDS Wallet

CONSTANTS
    Requests,       \* the workers that serve a wallet request at the same time
    AdminForms      \* whether the order admin page is in use

VARIABLES
    req,            \* what each worker is doing
    form            \* per order, the status an open admin form shows

rvars == <<vars, req, form>>

\* Mutant of Program: a cancellation takes the balance before the order.
ProgramCrossed ==
    [deposit |-> <<"balance">>,
     place   |-> <<"balance">>,
     capture |-> <<"order", "balance">>,
     refund  |-> <<"order", "balance">>,
     cancel  |-> <<"balance", "order">>,
     topup   |-> <<"transaction", "balance">>]

\* The rows each service function locks, in the order it locks them.  The row
\* place_hold locks first is its own, not yet visible to anyone.
Program ==
    [deposit |-> <<"balance">>,
     place   |-> <<"balance">>,
     capture |-> <<"order", "balance">>,
     refund  |-> <<"order", "balance">>,
     cancel  |-> <<"order", "balance">>,
     topup   |-> <<"transaction", "balance">>]

\* The states of an order each of them accepts.
Accepts ==
    [capture |-> {"preparing", "confirmed", "pending"},
     refund  |-> {"paid", "completed"},
     cancel  |-> {"pending", "preparing", "confirmed"}]

Idle == [op |-> "idle"]
NoForm == "none"

\* A request: its operation, what it is about (order, user, menu, amount, row of
\* transaction), how many of its locks it holds, and the rows as it read them.
Request(op, o, u, m, amount, i) ==
    [op |-> op, order |-> o, user |-> u, menu |-> m, amount |-> amount, tx |-> i,
     held |-> 0, status |-> "unread", current |-> 0, hold |-> 0]

Busy == {r \in Requests : req[r] # Idle}

\* The key of the row a request locks in a table.
Key(r, table) ==
    CASE table = "order" -> req[r].order
      [] table = "balance" -> req[r].user
      [] table = "transaction" -> req[r].tx

Locks(r) ==
    IF req[r] = Idle THEN {}
    ELSE {<<Program[req[r].op][n], Key(r, Program[req[r].op][n])>> : n \in 1..req[r].held}

NextLock(r) == LET table == Program[req[r].op][req[r].held + 1] IN <<table, Key(r, table)>>

\* Mutants of Free: the rows of one table are read without a lock.
FreeOrders(lock) == lock[1] = "order" \/ \A r \in Requests : lock \notin Locks(r)
FreeBalances(lock) == lock[1] = "balance" \/ \A r \in Requests : lock \notin Locks(r)

Free(lock) == \A r \in Requests : lock \notin Locks(r)

HasAllLocks(r) == req[r].held = Len(Program[req[r].op])

\* A request that has locked one row more, and read its status or its balance.
WithStatus(q, status) == [q EXCEPT !.held = @ + 1, !.status = status]
WithBalance(q, current, hold) ==
    [q EXCEPT !.held = @ + 1, !.current = current, !.hold = hold]

Finish(r) == req' = [req EXCEPT ![r] = Idle]

RInit == Init /\ req = [r \in Requests |-> Idle] /\ form = [o \in Orders |-> NoForm]

-----------------------------------------------------------------------------
(* A request arrives.                                                      *)

\* MaxTransactions leaves room for one row per request.
Begin(r) ==
    /\ req[r] = Idle
    /\ Len(transactions) + Cardinality(Busy) < MaxTransactions
    /\ \/ \E u \in Users, a \in Deposits :
             a > 0 /\ req' = [req EXCEPT ![r] = Request("deposit", NoOrder, u, NoMenu, a, 0)]
       \/ \E u \in Users, o \in Orders, m \in Menus, a \in OrderTotals :
             /\ orders[o] = Absent                           \* a fresh primary key
             /\ \A q \in Busy : req[q].order # o
             /\ req' = [req EXCEPT ![r] = Request("place", o, u, m, a, 0)]
       \/ \E o \in Orders, op \in {"capture", "refund", "cancel"} :
             /\ orders[o] # Absent
             /\ req' = [req EXCEPT ![r] = Request(op, o, orders[o].user, orders[o].menu,
                                                 orders[o].total_amount, 0)]
       \/ \E i \in DOMAIN transactions :
             /\ transactions[i].type = "deposit"
             /\ req' = [req EXCEPT ![r] = Request("topup", NoOrder, transactions[i].user,
                                                 NoMenu, transactions[i].amount, i)]
    /\ UNCHANGED <<vars, form>>

-----------------------------------------------------------------------------
(* select_for_update: wait for the row, then read it.                      *)

\* Mutant of LockOrder: does not look at the status of the row.
LockOrderBlind(r) ==
    /\ req[r] # Idle /\ ~HasAllLocks(r)
    /\ NextLock(r)[1] = "order" /\ Free(NextLock(r))
    /\ req' = [req EXCEPT ![r] = WithStatus(req[r], orders[req[r].order].status)]
    /\ UNCHANGED <<vars, form>>

LockOrder(r) ==
    /\ req[r] # Idle /\ ~HasAllLocks(r)
    /\ NextLock(r)[1] = "order" /\ Free(NextLock(r))
    /\ LET status == orders[req[r].order].status IN
         IF /\ status \in Accepts[req[r].op]
            /\ req[r].op = "cancel" => req[r].menu \notin closed
         THEN req' = [req EXCEPT ![r] = WithStatus(req[r], status)]
         ELSE Finish(r)
    /\ UNCHANGED <<vars, form>>

LockBalance(r) ==
    /\ req[r] # Idle /\ ~HasAllLocks(r)
    /\ NextLock(r)[1] = "balance" /\ Free(NextLock(r))
    /\ req' = [req EXCEPT ![r] = WithBalance(req[r], current_balance[req[r].user],
                                                    on_hold[req[r].user])]
    /\ UNCHANGED <<vars, form>>

\* Mutant of LockTransaction: does not look at the status of the row.
LockTransactionBlind(r) ==
    /\ req[r] # Idle /\ ~HasAllLocks(r)
    /\ NextLock(r)[1] = "transaction" /\ Free(NextLock(r))
    /\ req' = [req EXCEPT ![r] = WithStatus(req[r], transactions[req[r].tx].status)]
    /\ UNCHANGED <<vars, form>>

LockTransaction(r) ==
    /\ req[r] # Idle /\ ~HasAllLocks(r)
    /\ NextLock(r)[1] = "transaction" /\ Free(NextLock(r))
    /\ LET status == transactions[req[r].tx].status IN
         IF status # "completed"
         THEN req' = [req EXCEPT ![r] = WithStatus(req[r], status)]
         ELSE Finish(r)
    /\ UNCHANGED <<vars, form>>

-----------------------------------------------------------------------------
(* All rows are locked: decide on the rows as read, write, commit.         *)

\* Mutant of FundsSuffice: takes the hold for granted.
HoldAssumed(r) == req[r].current + req[r].amount <= MaxBalance

FundsSuffice(r) ==
    LET q == req[r] IN
    \/ q.op = "place" /\ q.current - q.hold >= q.amount
    \/ q.op = "capture" /\ q.status # "pending" /\ q.hold >= q.amount
    \/ /\ q.op = "capture" /\ q.status = "pending"
       /\ PendingHolds(q.order) # {} /\ q.current >= q.amount
    \/ q.op = "cancel" /\ q.hold >= q.amount
    \/ q.op \in {"deposit", "refund", "topup"} /\ q.current + q.amount <= MaxBalance

Writes(r) ==
    LET q == req[r] IN
    \/ q.op = "deposit" /\ Deposit(q.user, q.amount)
    \/ q.op = "place" /\ InsertWithHold(q.user, q.order, q.menu, q.amount)
    \/ q.op = "capture" /\ q.status # "pending" /\ SettleFromHold(q.order)
    \/ q.op = "capture" /\ q.status = "pending" /\ Settle(q.order) /\ UNCHANGED on_hold
    \/ q.op = "refund" /\ ReturnMoney(q.order)
    \/ q.op = "cancel" /\ ReleaseHold(q.order)
    \/ q.op = "topup" /\ CreditTopUp(q.tx)

Commit(r) ==
    /\ req[r] # Idle /\ HasAllLocks(r) /\ FundsSuffice(r)
    /\ Writes(r)
    /\ Finish(r)
    /\ UNCHANGED form

\* WalletError, or an UPDATE the database refuses: the transaction is rolled back.
Refuse(r) ==
    /\ req[r] # Idle /\ HasAllLocks(r) /\ ~FundsSuffice(r)
    /\ Finish(r)
    /\ UNCHANGED <<vars, form>>

\* The worker or its connection dies before the commit.
Crash(r) ==
    /\ req[r] # Idle
    /\ Finish(r)
    /\ UNCHANGED <<vars, form>>

-----------------------------------------------------------------------------
(* Everything else.                                                        *)

Checkout(u, amount) ==
    /\ Len(transactions) + Cardinality(Busy) < MaxTransactions
    /\ CreateCheckout(u, amount)
    /\ UNCHANGED <<req, form>>

AdminOpen(o) ==
    /\ AdminForms
    /\ orders[o] # Absent
    /\ form[o] = NoForm
    /\ form' = [form EXCEPT ![o] = orders[o].status]
    /\ UNCHANGED <<vars, req>>

\* The save writes the form's status, edited or not; its UPDATE waits for the
\* row but never looks at the status the row has by then.
AdminSave(o) ==
    /\ form[o] # NoForm
    /\ Free(<<"order", o>>)
    /\ \E s \in OrderStatus :
          /\ s = form[o] \/ <<form[o], s>> \in AdminEdits
          /\ SetStatus(o, s)
    /\ form' = [form EXCEPT ![o] = NoForm]
    /\ UNCHANGED <<current_balance, on_hold, transactions, closed, req>>

DeadlineGoesBy(m) == DeadlinePasses(m) /\ UNCHANGED <<req, form>>

Serve(r) ==
    LockOrder(r) \/ LockBalance(r) \/ LockTransaction(r) \/ Commit(r) \/ Refuse(r)

RNext ==
    \/ \E r \in Requests : Begin(r) \/ Serve(r) \/ Crash(r)
    \/ \E u \in Users, a \in TopUps : Checkout(u, a)
    \/ \E o \in Orders : AdminOpen(o) \/ AdminSave(o)
    \/ \E m \in Menus : DeadlineGoesBy(m)

RSpec == RInit /\ [][RNext]_rvars

\* A worker that can go on does; PostgreSQL grants a row lock in the order it
\* was asked for, so a request that waits for one gets it.
RFairness == \A r \in Requests : SF_rvars(Serve(r))

RLiveSpec == RSpec /\ RFairness

-----------------------------------------------------------------------------
(* Properties.                                                             *)

RTypeOK ==
    /\ TypeOK
    /\ form \in [Orders -> OrderStatus \cup {NoForm}]
    /\ \A r \in Busy : /\ req[r].op \in DOMAIN Program
                       /\ req[r].held \in 0..Len(Program[req[r].op])
                       /\ req[r].user \in Users

\* What a request decided on is still so when it writes: nobody changes a row
\* it read under a lock until it commits (services.py:32-41, handlers.py:109).
ReadsAreCurrent ==
    \A r \in Busy :
        /\ <<"order", req[r].order>> \in Locks(r) =>
              req[r].status = orders[req[r].order].status
        /\ <<"transaction", req[r].tx>> \in Locks(r) =>
              req[r].status = transactions[req[r].tx].status
        /\ <<"balance", req[r].user>> \in Locks(r) =>
              /\ req[r].current = current_balance[req[r].user]
              /\ req[r].hold = on_hold[req[r].user]

\* Under any interleaving of the requests' locks, reads, commits and crashes,
\* the tables change only as the one-step service functions of Wallet change
\* them, with the admin page's saves as edits between any two statuses.  The
\* clock is not a row and nothing locks it: a cancellation that read it in time
\* may commit after the deadline, so the deadlines are left out of the mapping.
Atomic == INSTANCE Wallet WITH AdminEdits <- OrderStatus \X OrderStatus, closed <- {}

ServicesAreAtomic == Atomic!Spec

\* A request that waits for rows is not left waiting: the order in which the
\* service functions take their locks cannot deadlock.
RequestsFinish == \A r \in Requests : (req[r] # Idle) ~> (req[r] = Idle)

\* A settled order is settled for good: it is handed over or refunded, and no
\* request that saw an earlier status, under any interleaving, takes it back to
\* where it can be captured, cancelled or refunded again.  The one thing that
\* does is the save of an admin form opened before (admin.py:28).
OnlyStaleFormsReopen ==
    [][\A o \in Orders :
          LET was == orders[o].status
              is == orders'[o].status
          IN  was \in {"paid", "completed", "cancelled"} =>
                 \/ is = was
                 \/ was # "cancelled" /\ is \in {"paid", "completed", "cancelled"}
                 \/ form[o] \notin {NoForm, was} /\ form'[o] = NoForm]_rvars

\* What the comment on the fallback of capture_payment_by_staff says: a payment
\* for an order without a pending HOLD does not happen, so no order that was
\* placed with a HOLD is paid twice.
PaidOnce ==
    \A o \in Orders :
        Cardinality({i \in Entries(o) : transactions[i].type = "payment"}) <= 1
=============================================================================
