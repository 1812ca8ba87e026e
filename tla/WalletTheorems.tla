--------------------------- MODULE WalletTheorems ---------------------------
(***************************************************************************)
(* Theorems about Wallet and WalletRequests, for every value of their      *)
(* constants.                                                              *)
(*                                                                         *)
(* Wallet: the types; the ledger explains the balance and is an audit      *)
(* trail, under every administration; what on_hold is and that it is       *)
(* covered; the ledger matches the orders; Wallet implements Escrow.  The  *)
(* last three depend on what the order admin page is used for: their       *)
(* theorems name what they need of AdminEdits and Reassignable.            *)
(*                                                                         *)
(* WalletRequests, for any number of workers: under the row locks no       *)
(* request decides on an outdated row, the services are atomic, nothing    *)
(* but an outdated admin form takes a settled order back, and every        *)
(* interleaving keeps what the services keep one after the other.          *)
(***************************************************************************)
EXTENDS WalletRequests, WalletRefinement, AmountsTheorems, SequenceTheorems

-----------------------------------------------------------------------------
(* Rows of the ledger.                                                     *)

\* Inserting a row keeps the ledger a sequence of rows: the new one is last,
\* the others are where they were.
LEMMA RecordEffect ==
    ASSUME TypeOK, NEW u \in Users, NEW o \in Orders \cup {NoOrder},
           NEW type \in TransactionType, NEW amount \in Nat,
           NEW status \in TransactionStatus, NEW remaining \in Int,
           Record(u, o, type, amount, status, remaining)
    PROVE  /\ transactions' \in Seq(Transaction)
           /\ Len(transactions) \in Nat
           /\ DOMAIN transactions = 1..Len(transactions)
           /\ DOMAIN transactions' = 1..(Len(transactions) + 1)
           /\ \A i \in DOMAIN transactions : transactions'[i] = transactions[i]
           /\ transactions'[Len(transactions) + 1] =
                [user |-> u, order |-> o, type |-> type, amount |-> amount,
                 remaining_balance |-> remaining, status |-> status]
<1> DEFINE row == [user |-> u, order |-> o, type |-> type, amount |-> amount,
                   remaining_balance |-> remaining, status |-> status]
<1>1. row \in Transaction
  BY DEF Transaction
<1>2. transactions \in Seq(Transaction) /\ transactions' = Append(transactions, row)
  BY DEF TypeOK, Record
<1> HIDE DEF row
<1>3. transactions' \in Seq(Transaction)
  BY <1>1, <1>2, AppendProperties
<1>4. /\ Len(transactions) \in Nat
      /\ DOMAIN transactions = 1..Len(transactions)
  BY <1>2, LenProperties
<1>5. DOMAIN transactions' = 1..(Len(transactions) + 1)
  BY <1>1, <1>2, <1>3, AppendProperties, LenProperties
<1>6. /\ \A i \in DOMAIN transactions : transactions'[i] = transactions[i]
      /\ transactions'[Len(transactions) + 1] = row
  BY <1>1, <1>2, <1>4, AppendProperties
<1> QED BY <1>3, <1>4, <1>5, <1>6 DEF row

\* Updating a row in place keeps every other row and the length.
LEMMA UpdateEffect ==
    ASSUME TypeOK, NEW i \in DOMAIN transactions, NEW row \in Transaction,
           transactions' = [transactions EXCEPT ![i] = row]
    PROVE  /\ transactions' \in Seq(Transaction)
           /\ Len(transactions) \in Nat
           /\ DOMAIN transactions = 1..Len(transactions)
           /\ DOMAIN transactions' = DOMAIN transactions
           /\ transactions'[i] = row
           /\ \A j \in DOMAIN transactions : j # i => transactions'[j] = transactions[j]
<1>1. transactions \in Seq(Transaction)
  BY DEF TypeOK
<1>2. Len(transactions) \in Nat /\ DOMAIN transactions = 1..Len(transactions)
  BY <1>1, LenProperties
<1>3. transactions' \in Seq(Transaction)
  BY <1>1, <1>2, ExceptSeq
<1> QED BY <1>2, <1>3

\* A row read from a table has the columns' types.
LEMMA Rows ==
    ASSUME TypeOK
    PROVE  /\ \A i \in DOMAIN transactions : transactions[i] \in Transaction
           /\ \A o \in Orders : orders[o] \in Order \cup {Absent}
           /\ \A o \in Orders : orders[o] # Absent => orders[o] \in Order
           /\ \A o \in Orders : orders[o].status \in OrderStatus => orders[o] \in Order
<1>1. \A i \in DOMAIN transactions : transactions[i] \in Transaction
  BY LenProperties, ElementOfSeq DEF TypeOK
<1>2. \A o \in Orders : orders[o] \in Order \cup {Absent}
  BY DEF TypeOK
<1>3. Absent.status \notin OrderStatus
  BY DEF Absent, OrderStatus
<1> QED BY <1>1, <1>2, <1>3

-----------------------------------------------------------------------------
(* Type correctness.                                                       *)

\* The empty tables are well typed.
LEMMA TypeInit == Init => TypeOK
<1> SUFFICES ASSUME Init PROVE TypeOK
  OBVIOUS
<1>1. <<>> \in Seq(Transaction)
  BY EmptySeq
<1> QED BY <1>1 DEF Init, TypeOK

\* Moving an order to another status keeps the table well typed.
LEMMA SetStatusType ==
    ASSUME TypeOK, NEW o \in Orders, NEW s \in OrderStatus,
           orders[o] # Absent, SetStatus(o, s)
    PROVE  orders' \in [Orders -> Order \cup {Absent}]
<1>1. orders[o] \in Order
  BY Rows
<1>2. [orders[o] EXCEPT !.status = s] \in Order
  BY <1>1 DEF Order
<1>3. orders' = [orders EXCEPT ![o] = [orders[o] EXCEPT !.status = s]]
  BY DEF SetStatus, TypeOK
<1> QED BY <1>2, <1>3 DEF TypeOK

\* The three branches of capture leave well-typed rows.
LEMMA SettleType ==
    ASSUME TypeOK, NEW o \in Orders, orders[o] # Absent, Settle(o)
    PROVE  /\ orders' \in [Orders -> Order \cup {Absent}]
           /\ current_balance' \in [Users -> Int]
           /\ transactions' \in Seq(Transaction)
           /\ closed' \subseteq Menus
<1> DEFINE u == orders[o].user
           amount == orders[o].total_amount
<1>1. u \in Users /\ amount \in Nat
  BY Rows DEF Order
<1>2. orders' \in [Orders -> Order \cup {Absent}]
  BY SetStatusType DEF Settle, OrderStatus
<1>3. current_balance' \in [Users -> Int] /\ current_balance'[u] \in Int
  <2>1. current_balance' = [current_balance EXCEPT ![u] = current_balance[u] - amount]
    BY DEF Settle
  <2>2. current_balance \in [Users -> Int] /\ current_balance[u] - amount \in Int
    BY <1>1 DEF TypeOK
  <2> HIDE DEF u, amount
  <2> QED BY <1>1, <2>1, <2>2
<1>4. transactions' \in Seq(Transaction)
  <2>1. CASE \E i \in PendingHolds(o) :
                 transactions' = [transactions EXCEPT ![i] =
                    [@ EXCEPT !.type = "payment", !.status = "completed",
                              !.remaining_balance = current_balance'[u]]]
    <3>1. PICK i \in DOMAIN transactions :
             transactions' = [transactions EXCEPT ![i] =
                [transactions[i] EXCEPT !.type = "payment", !.status = "completed",
                          !.remaining_balance = current_balance'[u]]]
      BY <2>1 DEF PendingHolds
    <3>2. [transactions[i] EXCEPT !.type = "payment", !.status = "completed",
                  !.remaining_balance = current_balance'[u]] \in Transaction
      BY <1>3, Rows DEF Transaction, TransactionType, TransactionStatus
    <3> QED BY <3>1, <3>2, UpdateEffect
  <2>2. CASE Record(u, o, "payment", amount, "completed", current_balance'[u])
    BY <1>1, <1>3, <2>2, RecordEffect DEF TransactionType, TransactionStatus
  <2> QED BY <2>1, <2>2 DEF Settle
<1>5. closed' \subseteq Menus
  BY DEF Settle, TypeOK
<1> QED BY <1>2, <1>3, <1>4, <1>5

\* A deposit writes well-typed rows.
LEMMA DepositType ==
    ASSUME TypeOK, NEW u \in Users, NEW a \in Nat, Deposit(u, a)
    PROVE  TypeOK'
<1>1. current_balance'[u] \in Int /\ current_balance' \in [Users -> Int]
  BY DEF Deposit, Credit, TypeOK
<1>2. transactions' \in Seq(Transaction)
  BY <1>1, RecordEffect DEF Deposit, TransactionType, TransactionStatus
<1> QED BY <1>1, <1>2 DEF Deposit, TypeOK

\* place_hold writes a well-typed order and HOLD.
LEMMA InsertType ==
    ASSUME TypeOK, NEW u \in Users, NEW o \in Orders, NEW m \in Menus, NEW a \in Nat,
           InsertWithHold(u, o, m, a)
    PROVE  TypeOK'
<1>1. transactions' \in Seq(Transaction)
  BY RecordEffect DEF TypeOK, InsertWithHold, TransactionType, TransactionStatus
<1>2. [status |-> "confirmed", user |-> u, menu |-> m, total_amount |-> a] \in Order
  BY DEF Order, OrderStatus
<1>3. orders' \in [Orders -> Order \cup {Absent}]
  BY <1>2 DEF InsertWithHold, TypeOK
<1>4. on_hold' \in [Users -> Nat]
  BY DEF InsertWithHold, TypeOK
<1> QED BY <1>1, <1>3, <1>4 DEF InsertWithHold, TypeOK

\* A capture that compared on_hold with the amount leaves it non-negative.
LEMMA SettleFromHoldType ==
    ASSUME TypeOK, NEW o \in Orders, orders[o] \in Order, orders[o] # Absent,
           on_hold[orders[o].user] >= orders[o].total_amount, SettleFromHold(o)
    PROVE  TypeOK'
<1>1. on_hold' \in [Users -> Nat]
  BY DEF SettleFromHold, TypeOK, Order
<1> QED BY <1>1, SettleType DEF SettleFromHold, TypeOK

\* A refund writes well-typed rows.
LEMMA ReturnType ==
    ASSUME TypeOK, NEW o \in Orders, orders[o] \in Order, orders[o] # Absent,
           ReturnMoney(o)
    PROVE  TypeOK'
<1> DEFINE u == orders[o].user
           amount == orders[o].total_amount
<1>1. u \in Users /\ amount \in Nat
  BY DEF Order
<1>2. current_balance' \in [Users -> Int] /\ current_balance'[u] \in Int
  BY <1>1 DEF ReturnMoney, Credit, TypeOK
<1>3. transactions' \in Seq(Transaction)
  BY <1>1, <1>2, RecordEffect DEF ReturnMoney, TransactionType, TransactionStatus
<1>4. orders' \in [Orders -> Order \cup {Absent}]
  BY SetStatusType DEF ReturnMoney, OrderStatus
<1> QED BY <1>2, <1>3, <1>4 DEF ReturnMoney, TypeOK

\* A cancellation that compared on_hold with the amount leaves it non-negative.
LEMMA ReleaseType ==
    ASSUME TypeOK, NEW o \in Orders, orders[o] \in Order, orders[o] # Absent,
           on_hold[orders[o].user] >= orders[o].total_amount, ReleaseHold(o)
    PROVE  TypeOK'
<1>1. on_hold' \in [Users -> Nat]
  BY DEF ReleaseHold, Order, TypeOK
<1>2. orders' \in [Orders -> Order \cup {Absent}]
  BY SetStatusType DEF ReleaseHold, OrderStatus
<1>3. transactions' \in Seq(Transaction)
  <2>1. CASE \E i \in PendingHolds(o) :
               transactions' = [transactions EXCEPT ![i].status = "cancelled"]
    <3>1. PICK i \in DOMAIN transactions :
             transactions' = [transactions EXCEPT ![i] =
                                [transactions[i] EXCEPT !.status = "cancelled"]]
      BY <2>1 DEF PendingHolds
    <3>2. [transactions[i] EXCEPT !.status = "cancelled"] \in Transaction
      BY Rows DEF Transaction, TransactionStatus
    <3> QED BY <3>1, <3>2, UpdateEffect
  <2>2. CASE UNCHANGED transactions
    BY <2>2 DEF TypeOK
  <2> QED BY <2>1, <2>2 DEF ReleaseHold
<1> QED BY <1>1, <1>2, <1>3 DEF ReleaseHold, TypeOK

\* The webhook's credit writes well-typed rows.
LEMMA CreditTopUpType ==
    ASSUME TypeOK, NEW i \in DOMAIN transactions, CreditTopUp(i)
    PROVE  TypeOK'
<1> DEFINE u == transactions[i].user
<1>1. u \in Users /\ transactions[i].amount \in Nat /\ transactions[i] \in Transaction
  BY Rows DEF Transaction
<1>2. current_balance' \in [Users -> Int] /\ current_balance'[u] \in Int
  BY <1>1 DEF CreditTopUp, Credit, TypeOK
<1>3. transactions' = [transactions EXCEPT ![i] =
         [transactions[i] EXCEPT !.status = "completed",
                   !.remaining_balance = current_balance'[u]]]
  BY DEF CreditTopUp
<1>4. [transactions[i] EXCEPT !.status = "completed",
                   !.remaining_balance = current_balance'[u]] \in Transaction
  BY <1>1, <1>2 DEF Transaction, TransactionStatus
<1>5. transactions' \in Seq(Transaction)
  BY <1>3, <1>4, UpdateEffect
<1> QED BY <1>2, <1>5 DEF CreditTopUp, TypeOK

\* A checkout writes a well-typed row.
LEMMA CheckoutType ==
    ASSUME TypeOK, NEW u \in Users, NEW a \in TopUps, CreateCheckout(u, a)
    PROVE  TypeOK'
<1>1. a \in Nat /\ current_balance[u] \in Int
  BY AmountsAssumption DEF TypeOK
<1>2. transactions' \in Seq(Transaction)
  BY <1>1, RecordEffect DEF CreateCheckout, TransactionType, TransactionStatus
<1> QED BY <1>2 DEF CreateCheckout, TypeOK

\* Every action of the services and of the administration keeps the types.
LEMMA TypeStep == TypeOK /\ [Next]_vars => TypeOK'
<1> SUFFICES ASSUME TypeOK, [Next]_vars PROVE TypeOK'
  OBVIOUS
<1> USE Rows, AmountsAssumption
<1>1. ASSUME NEW u \in Users, NEW a \in Deposits, Deposit(u, a) PROVE TypeOK'
  BY <1>1, DepositType
<1>2. ASSUME NEW u \in Users, NEW a \in TopUps, CreateCheckout(u, a) PROVE TypeOK'
  BY <1>2, CheckoutType
<1>3. ASSUME NEW u \in Users, NEW o \in Orders, NEW m \in Menus, NEW a \in OrderTotals,
             PlaceOrder(u, o, m, a)
      PROVE  TypeOK'
  BY <1>3, InsertType DEF PlaceOrder
<1>4. ASSUME NEW o \in Orders, CaptureHeld(o) PROVE TypeOK'
  <2>1. orders[o] \in Order /\ orders[o] # Absent
    BY <1>4 DEF CaptureHeld, OrderStatus, Absent
  <2> QED BY <1>4, <2>1, SettleFromHoldType DEF CaptureHeld
<1>5. ASSUME NEW o \in Orders, CapturePending(o) PROVE TypeOK'
  <2>1. orders[o] # Absent
    BY <1>5 DEF CapturePending, Absent
  <2> QED BY <1>5, <2>1, SettleType DEF CapturePending, TypeOK
<1>6. ASSUME NEW o \in Orders, Refund(o) PROVE TypeOK'
  <2>1. orders[o] # Absent /\ orders[o] \in Order
    BY <1>6 DEF Refund, Absent, OrderStatus
  <2> QED BY <1>6, <2>1, ReturnType DEF Refund
<1>7. ASSUME NEW o \in Orders, Cancel(o) PROVE TypeOK'
  <2>1. orders[o] # Absent /\ orders[o] \in Order
    BY <1>7 DEF Cancel, Absent, OrderStatus
  <2> QED BY <1>7, <2>1, ReleaseType DEF Cancel
<1>8. ASSUME NEW o \in Orders, NEW s \in OrderStatus, AdminSetStatus(o, s) PROVE TypeOK'
  <2>1. orders[o] # Absent
    BY <1>8, AdminAssumption DEF AdminSetStatus, Absent, OrderStatus
  <2>2. orders' \in [Orders -> Order \cup {Absent}]
    BY <1>8, <2>1, SetStatusType DEF AdminSetStatus
  <2> QED BY <1>8, <2>2 DEF AdminSetStatus, TypeOK
<1>9. ASSUME NEW o \in Orders, NEW u \in Users, AdminReassign(o, u) PROVE TypeOK'
  <2>1. orders[o] \in Order
    BY <1>9, AdminAssumption, Rows DEF AdminReassign
  <2>2. [orders[o] EXCEPT !.user = u] \in Order
    BY <2>1 DEF Order
  <2>3. orders' = [orders EXCEPT ![o] = [orders[o] EXCEPT !.user = u]]
    BY <1>9 DEF AdminReassign, TypeOK
  <2> QED BY <1>9, <2>2, <2>3 DEF AdminReassign, TypeOK
<1>10. ASSUME NEW i \in DOMAIN transactions, CompleteTopUp(i) PROVE TypeOK'
  BY <1>10, CreditTopUpType DEF CompleteTopUp
<1>11. ASSUME NEW m \in Menus, DeadlinePasses(m) PROVE TypeOK'
  BY <1>11 DEF DeadlinePasses, TypeOK
<1>12. CASE UNCHANGED vars
  BY <1>12 DEF vars, TypeOK
<1> QED
  BY <1>1, <1>2, <1>3, <1>4, <1>5, <1>6, <1>7, <1>8, <1>9, <1>10, <1>11, <1>12 DEF Next

\* The columns keep their types, on_hold never goes negative, and a row once
\* inserted always has a user, whatever the services and the administration
\* page do: TypeOK is inductive by itself.
THEOREM TypeCorrect == Spec => []TypeOK
BY TypeInit, TypeStep, PTL DEF Spec

-----------------------------------------------------------------------------
(* The steps, by kind: services and edits by hand.                         *)

\* A cancellation whose deadline is not looked at again: the request that runs it
\* may commit after the deadline.
LateCancel(o) ==
    /\ orders[o].status \in {"pending", "preparing", "confirmed"}
    /\ on_hold[orders[o].user] >= orders[o].total_amount
    /\ ReleaseHold(o)

\* What happens without the order admin page.
Services ==
    \/ \E u \in Users :
          \/ \E a \in Deposits : Deposit(u, a)
          \/ \E a \in TopUps : CreateCheckout(u, a)
          \/ \E o \in Orders, m \in Menus, a \in OrderTotals : PlaceOrder(u, o, m, a)
    \/ \E o \in Orders : CaptureHeld(o) \/ CapturePending(o) \/ Refund(o) \/ LateCancel(o)
    \/ \E i \in DOMAIN transactions : CompleteTopUp(i)
    \/ \E m \in Menus : DeadlinePasses(m)

\* What happens on it.
Edit(o) ==
    \/ \E s \in OrderStatus : AdminSetStatus(o, s)
    \/ \E u \in Users : AdminReassign(o, u)

LEMMA StepKinds ==
    ASSUME [Next]_vars
    PROVE  [Services]_vars \/ \E o \in Orders : Edit(o)
<1>1. \A o \in Orders : Cancel(o) => LateCancel(o)
  BY DEF Cancel, LateCancel
<1> QED BY <1>1 DEF Next, Services, Edit

\* An edit is of the row of an order, and of nothing else.
LEMMA EditsOrder ==
    ASSUME TypeOK, NEW o \in Orders, Edit(o)
    PROVE  /\ orders[o] \in Order /\ orders[o] # Absent
           /\ UNCHANGED <<current_balance, on_hold, transactions, closed>>
<1>1. orders[o].status \in OrderStatus
  BY AdminAssumption DEF Edit, AdminSetStatus, AdminReassign
<1>2. orders[o] # Absent
  BY <1>1 DEF Absent, OrderStatus
<1> QED BY <1>2, Rows DEF Edit, AdminSetStatus, AdminReassign

-----------------------------------------------------------------------------
(* The row of the ledger that each action writes.                          *)

\* Row k is inserted or updated and no other row is touched.
WritesRow(k, row) ==
    /\ DOMAIN transactions' = DOMAIN transactions \cup {k}
    /\ transactions'[k] = row
    /\ \A j \in DOMAIN transactions : j # k => transactions'[j] = transactions[j]

\* A row with these columns is inserted under a fresh key.
Inserts(u, o, type, amount, status, remaining) ==
    \E k, row : /\ row = [user |-> u, order |-> o, type |-> type, amount |-> amount,
                          remaining_balance |-> remaining, status |-> status]
                /\ row \in Transaction
                /\ WritesRow(k, row)
                /\ k \notin DOMAIN transactions

\* Row k is updated in place: it keeps its user, order and amount.
Updates(k, type, status, remaining) ==
    \E row \in Transaction :
        /\ k \in DOMAIN transactions
        /\ WritesRow(k, row)
        /\ row.user = transactions[k].user
        /\ row.order = transactions[k].order
        /\ row.amount = transactions[k].amount
        /\ row.type = type /\ row.status = status
        /\ row.remaining_balance = remaining

\* Every insertion is a write of a new row.
LEMMA RecordWrites ==
    ASSUME TypeOK, NEW u \in Users, NEW o \in Orders \cup {NoOrder},
           NEW type \in TransactionType, NEW amount \in Nat,
           NEW status \in TransactionStatus, NEW remaining \in Int,
           Record(u, o, type, amount, status, remaining)
    PROVE  Inserts(u, o, type, amount, status, remaining)
<1> DEFINE k == Len(transactions) + 1
           row == [user |-> u, order |-> o, type |-> type, amount |-> amount,
                   remaining_balance |-> remaining, status |-> status]
<1>1. row \in Transaction
  BY DEF Transaction
<1>2. /\ Len(transactions) \in Nat
      /\ DOMAIN transactions = 1..Len(transactions)
      /\ DOMAIN transactions' = 1..(Len(transactions) + 1)
      /\ \A i \in DOMAIN transactions : transactions'[i] = transactions[i]
      /\ transactions'[k] = row
  BY RecordEffect
<1> HIDE DEF row
<1>3. WritesRow(k, row) /\ k \notin DOMAIN transactions
  BY <1>2 DEF WritesRow
<1> QED BY <1>1, <1>3 DEF row, Inserts

\* Every update in place is a write of that row.
LEMMA UpdateWrites ==
    ASSUME TypeOK, NEW i \in DOMAIN transactions, NEW row \in Transaction,
           transactions' = [transactions EXCEPT ![i] = row],
           row.user = transactions[i].user, row.order = transactions[i].order,
           row.amount = transactions[i].amount
    PROVE  Updates(i, row.type, row.status, row.remaining_balance)
<1>1. WritesRow(i, row)
  BY UpdateEffect DEF WritesRow
<1> QED BY <1>1 DEF Updates

\* The counter deposit inserts one completed DEPOSIT.
LEMMA DepositWrites ==
    ASSUME TypeOK, NEW u \in Users, NEW a \in Nat, Deposit(u, a)
    PROVE  Inserts(u, NoOrder, "deposit", a, "completed", current_balance'[u])
<1>1. current_balance'[u] \in Int
  BY DEF Deposit, Credit, TypeOK
<1>2. Record(u, NoOrder, "deposit", a, "completed", current_balance'[u])
  BY DEF Deposit
<1> QED BY <1>1, <1>2, RecordWrites DEF TransactionType, TransactionStatus

\* A checkout inserts one pending DEPOSIT.
LEMMA CheckoutWrites ==
    ASSUME TypeOK, NEW u \in Users, NEW a \in TopUps, CreateCheckout(u, a)
    PROVE  Inserts(u, NoOrder, "deposit", a, "pending", current_balance[u])
<1>1. a \in Nat /\ current_balance[u] \in Int
  BY AmountsAssumption DEF TypeOK
<1>2. Record(u, NoOrder, "deposit", a, "pending", current_balance[u])
  BY DEF CreateCheckout
<1> QED BY <1>1, <1>2, RecordWrites DEF TransactionType, TransactionStatus

\* place_hold inserts one pending HOLD.
LEMMA InsertWrites ==
    ASSUME TypeOK, NEW u \in Users, NEW o \in Orders, NEW m, NEW a \in Nat,
           InsertWithHold(u, o, m, a)
    PROVE  Inserts(u, o, "hold", a, "pending", current_balance[u])
<1>1. current_balance[u] \in Int
  BY DEF TypeOK
<1>2. Record(u, o, "hold", a, "pending", current_balance[u])
  BY DEF InsertWithHold
<1> QED BY <1>1, <1>2, RecordWrites DEF TransactionType, TransactionStatus

\* An order the services work on was inserted, and has its columns.
LEMMA Inserted ==
    ASSUME TypeOK, NEW o \in Orders, orders[o].status \in OrderStatus
    PROVE  /\ orders[o] # Absent
           /\ orders[o] \in Order
           /\ orders[o].user \in Users
           /\ orders[o].total_amount \in Nat
<1>1. orders[o] \in Order
  BY Rows
<1>2. orders[o] # Absent
  BY DEF Absent, OrderStatus
<1> QED BY <1>1, <1>2 DEF Order

\* What capture does to the balance, and the row it leaves.
LEMMA SettleWrites ==
    ASSUME TypeOK, NEW o \in Orders, orders[o].status \in OrderStatus, Settle(o)
    PROVE  /\ \A v \in Users : current_balance'[v] = current_balance[v]
                - (IF v = orders[o].user THEN orders[o].total_amount ELSE 0)
           /\ \/ \E k \in PendingHolds(o) :
                    Updates(k, "payment", "completed", current_balance'[orders[o].user])
              \/ /\ PendingHolds(o) = {}
                 /\ Inserts(orders[o].user, o, "payment", orders[o].total_amount,
                            "completed", current_balance'[orders[o].user])
<1> DEFINE u == orders[o].user
           amount == orders[o].total_amount
<1>1. u \in Users /\ amount \in Nat
  BY Inserted
<1>2. /\ current_balance' = [current_balance EXCEPT ![u] = current_balance[u] - amount]
      /\ current_balance \in [Users -> Int]
  BY DEF Settle, TypeOK
<1>3. /\ current_balance'[u] \in Int
      /\ \A v \in Users : current_balance'[v] =
                current_balance[v] - (IF v = u THEN amount ELSE 0)
  <2> HIDE DEF u, amount
  <2> QED BY <1>1, <1>2
<1>4. CASE \E i \in PendingHolds(o) :
                 transactions' = [transactions EXCEPT ![i] =
                    [@ EXCEPT !.type = "payment", !.status = "completed",
                              !.remaining_balance = current_balance'[u]]]
  <2>1. PICK i \in PendingHolds(o) :
             transactions' = [transactions EXCEPT ![i] =
                [transactions[i] EXCEPT !.type = "payment", !.status = "completed",
                          !.remaining_balance = current_balance'[u]]]
    BY <1>4
  <2> DEFINE row == [transactions[i] EXCEPT !.type = "payment", !.status = "completed",
                          !.remaining_balance = current_balance'[u]]
  <2>2. i \in DOMAIN transactions
    BY DEF PendingHolds
  <2>3. /\ row \in Transaction
        /\ row.type = "payment" /\ row.status = "completed"
        /\ row.remaining_balance = current_balance'[u]
        /\ row.user = transactions[i].user
        /\ row.order = transactions[i].order
        /\ row.amount = transactions[i].amount
    BY <1>3, <2>2, Rows DEF Transaction, TransactionType, TransactionStatus
  <2>4. transactions' = [transactions EXCEPT ![i] = row]
    BY <2>1
  <2>5. Updates(i, "payment", "completed", current_balance'[u])
    <3> HIDE DEF row
    <3>1. Updates(i, row.type, row.status, row.remaining_balance)
      BY <2>2, <2>3, <2>4, UpdateWrites
    <3> QED BY <2>3, <3>1
  <2> QED BY <1>3, <2>5
<1>5. CASE /\ PendingHolds(o) = {}
           /\ Record(u, o, "payment", amount, "completed", current_balance'[u])
  <2>1. Inserts(u, o, "payment", amount, "completed", current_balance'[u])
    BY <1>1, <1>3, <1>5, RecordWrites DEF TransactionType, TransactionStatus
  <2> QED BY <1>3, <1>5, <2>1
<1> QED BY <1>4, <1>5 DEF Settle

\* A refund inserts one completed REFUND.
LEMMA ReturnWrites ==
    ASSUME TypeOK, NEW o \in Orders, orders[o].status \in OrderStatus, ReturnMoney(o)
    PROVE  Inserts(orders[o].user, o, "refund", orders[o].total_amount,
                   "completed", current_balance'[orders[o].user])
<1>1. orders[o].user \in Users /\ orders[o].total_amount \in Nat
  BY Inserted
<1>2. current_balance'[orders[o].user] \in Int
  BY <1>1 DEF ReturnMoney, Credit, TypeOK
<1>3. Record(orders[o].user, o, "refund", orders[o].total_amount,
             "completed", current_balance'[orders[o].user])
  BY DEF ReturnMoney
<1> QED BY <1>1, <1>2, <1>3, RecordWrites DEF TransactionType, TransactionStatus

\* A cancellation closes the order's pending HOLD, when it has one.
LEMMA ReleaseWrites ==
    ASSUME TypeOK, NEW o \in Orders, ReleaseHold(o)
    PROVE  \/ \E k \in PendingHolds(o) :
                 Updates(k, "hold", "cancelled", transactions[k].remaining_balance)
           \/ PendingHolds(o) = {} /\ UNCHANGED transactions
<1>1. CASE \E i \in PendingHolds(o) :
               transactions' = [transactions EXCEPT ![i].status = "cancelled"]
  <2>1. PICK i \in PendingHolds(o) :
           transactions' = [transactions EXCEPT ![i] =
                              [transactions[i] EXCEPT !.status = "cancelled"]]
    BY <1>1
  <2> DEFINE row == [transactions[i] EXCEPT !.status = "cancelled"]
  <2>2. i \in DOMAIN transactions /\ transactions[i].type = "hold"
    BY DEF PendingHolds
  <2>3. /\ row \in Transaction
        /\ row.type = "hold" /\ row.status = "cancelled"
        /\ row.remaining_balance = transactions[i].remaining_balance
        /\ row.user = transactions[i].user
        /\ row.order = transactions[i].order
        /\ row.amount = transactions[i].amount
    BY <2>2, Rows DEF Transaction, TransactionStatus
  <2>4. transactions' = [transactions EXCEPT ![i] = row]
    BY <2>1
  <2>5. Updates(i, "hold", "cancelled", transactions[i].remaining_balance)
    <3> HIDE DEF row
    <3>1. Updates(i, row.type, row.status, row.remaining_balance)
      BY <2>2, <2>3, <2>4, UpdateWrites
    <3> QED BY <2>3, <3>1
  <2> QED BY <2>5
<1>2. CASE PendingHolds(o) = {} /\ UNCHANGED transactions
  BY <1>2
<1> QED BY <1>1, <1>2 DEF ReleaseHold

\* The webhook completes the DEPOSIT of its session.
LEMMA TopUpWrites ==
    ASSUME TypeOK, NEW i \in DOMAIN transactions, transactions[i].type = "deposit",
           CreditTopUp(i)
    PROVE  Updates(i, "deposit", "completed", current_balance'[transactions[i].user])
<1> DEFINE u == transactions[i].user
           row == [transactions[i] EXCEPT !.status = "completed",
                                          !.remaining_balance = current_balance'[u]]
<1>1. transactions[i] \in Transaction
  BY Rows
<1>2. u \in Users /\ transactions[i].amount \in Nat
  BY <1>1 DEF Transaction
<1>3. current_balance'[u] \in Int
  BY <1>2 DEF CreditTopUp, Credit, TypeOK
<1>4. /\ row \in Transaction
      /\ row.type = "deposit" /\ row.status = "completed"
      /\ row.remaining_balance = current_balance'[u]
      /\ row.user = transactions[i].user
      /\ row.order = transactions[i].order
      /\ row.amount = transactions[i].amount
  BY <1>1, <1>3 DEF Transaction, TransactionStatus, CreditTopUp
<1>5. transactions' = [transactions EXCEPT ![i] = row]
  BY DEF CreditTopUp
<1> HIDE DEF row
<1>6. Updates(i, row.type, row.status, row.remaining_balance)
  BY <1>4, <1>5, UpdateWrites
<1> QED BY <1>4, <1>6

-----------------------------------------------------------------------------
(* Sums over the ledger.                                                   *)

\* What row adds to the sum of a user's completed rows of some types.
Share(row, u, types) ==
    IF row.user = u /\ row.type \in types /\ row.status = "completed"
    THEN row.amount ELSE 0

\* A sum over completed rows is a finite sum of amounts.
LEMMA CompletedFinite ==
    ASSUME TypeOK, NEW u, NEW types
    PROVE  /\ IsFiniteSet(Completed(u, types))
           /\ \A i \in Completed(u, types) : AmountOf[i] \in Nat
           /\ Total(AmountOf, Completed(u, types)) \in Nat
<1>1. DOMAIN transactions = 1..Len(transactions) /\ Len(transactions) \in Nat
  BY LenProperties DEF TypeOK
<1>2. IsFiniteSet(DOMAIN transactions)
  BY <1>1, FS_Interval
<1>3. Completed(u, types) \in SUBSET DOMAIN transactions
  BY DEF Completed
<1>4. IsFiniteSet(Completed(u, types))
  BY <1>2, <1>3, FS_Subset
<1>5. \A i \in Completed(u, types) : AmountOf[i] \in Nat
  BY Rows DEF Completed, AmountOf, Transaction
<1> QED BY <1>4, <1>5, TotalType

\* Writing one row that was not completed adds its share to every sum.
LEMMA WriteAddsShare ==
    ASSUME TypeOK, TypeOK', NEW k, NEW row \in Transaction, WritesRow(k, row),
           k \in DOMAIN transactions => transactions[k].status # "completed",
           NEW u, NEW types
    PROVE  Total(AmountOf, Completed(u, types))' =
             Total(AmountOf, Completed(u, types)) + Share(row, u, types)
<1> DEFINE C == Completed(u, types)
           f == AmountOf
<1>1. IsFiniteSet(C) /\ \A i \in C : f[i] \in Nat
  BY CompletedFinite
<1>2. k \notin C
  BY DEF Completed
<1>3. \A i \in C : f[i] = f'[i]
  BY <1>2 DEF Completed, AmountOf, WritesRow
<1>4. Total(f, C) = Total(f', C)
  <2> HIDE DEF f, C
  <2> QED BY <1>3, TotalCong
<1>5. f'[k] = row.amount /\ row.amount \in Nat
  BY DEF AmountOf, WritesRow, Transaction
<1>6. CASE row.user = u /\ row.type \in types /\ row.status = "completed"
  <2>1. C' = C \cup {k}
    BY <1>6 DEF Completed, WritesRow
  <2>2. \A i \in C \cup {k} : f'[i] \in Nat
    BY <1>1, <1>3, <1>5
  <2>3. Total(f', C \cup {k}) = Total(f', C) + f'[k]
    <3> HIDE DEF f, C
    <3> QED BY <1>1, <1>2, <2>2, TotalAdd
  <2>4. Share(row, u, types) = row.amount
    BY <1>6 DEF Share
  <2>5. Total(f', C') = Total(f, C) + Share(row, u, types)
    <3> HIDE DEF f, C
    <3> QED BY <1>4, <1>5, <2>1, <2>3, <2>4
  <2> QED BY <2>5
<1>7. CASE ~(row.user = u /\ row.type \in types /\ row.status = "completed")
  <2>1. C' = C
    BY <1>7, <1>2 DEF Completed, WritesRow
  <2>2. Share(row, u, types) = 0 /\ Total(f, C) \in Nat
    BY <1>7, CompletedFinite DEF Share
  <2>3. Total(f', C') = Total(f, C) + Share(row, u, types)
    <3> HIDE DEF f, C
    <3> QED BY <1>4, <2>1, <2>2
  <2> QED BY <2>3
<1> QED BY <1>6, <1>7

Credits == {"deposit", "refund"}
Debits == {"payment"}

\* The step writes one row that was not completed before, every balance moves
\* by that row's share in it, and the row tells what it leaves.
Accounted(k, row) ==
    /\ row \in Transaction
    /\ WritesRow(k, row)
    /\ k \in DOMAIN transactions => transactions[k].status # "completed"
    /\ row.status = "completed" => row.remaining_balance = current_balance'[row.user]
    /\ \A u \in Users : current_balance'[u] = current_balance[u]
                             + Share(row, u, Credits) - Share(row, u, Debits)

\* A step that is accounted for keeps the ledger and the balances reconciled.
LEMMA AccountedReconciles ==
    ASSUME TypeOK, TypeOK', Reconciled, NEW k, NEW row, Accounted(k, row)
    PROVE  Reconciled'
<1> DEFINE In(u) == Total(AmountOf, Completed(u, Credits))
           Out(u) == Total(AmountOf, Completed(u, Debits))
<1> SUFFICES ASSUME NEW u \in Users PROVE current_balance'[u] = In(u)' - Out(u)'
  BY DEF Reconciled, Credits, Debits
<1>1. current_balance[u] = In(u) - Out(u)
  BY DEF Reconciled, Credits, Debits
<1>2. In(u)' = In(u) + Share(row, u, Credits)
  BY WriteAddsShare DEF Accounted
<1>3. Out(u)' = Out(u) + Share(row, u, Debits)
  BY WriteAddsShare DEF Accounted
<1>4. In(u) \in Nat /\ Out(u) \in Nat
  BY CompletedFinite
<1>5. Share(row, u, Credits) \in Nat /\ Share(row, u, Debits) \in Nat
  BY DEF Share, Accounted, Transaction
<1>6. current_balance'[u] = current_balance[u] + Share(row, u, Credits)
                                               - Share(row, u, Debits)
  BY DEF Accounted
<1> HIDE DEF In, Out
<1> QED BY <1>1, <1>2, <1>3, <1>4, <1>5, <1>6

\* A HOLD is for the total of an order that was inserted.  The total is
\* read-only in the admin page, so this holds under every administration.
HoldsPriced ==
    \A i \in DOMAIN transactions :
        transactions[i].type = "hold" =>
            /\ transactions[i].order \in Orders
            /\ orders[transactions[i].order] # Absent
            /\ transactions[i].amount = orders[transactions[i].order].total_amount

\* A credit and the completed row that records it.
LEMMA CreditAccounted ==
    ASSUME TypeOK, NEW u \in Users, NEW amount \in Nat, Credit(u, amount),
           NEW k, NEW row \in Transaction, WritesRow(k, row),
           k \in DOMAIN transactions => transactions[k].status # "completed",
           row.user = u, row.type \in Credits, row.amount = amount,
           row.status = "completed", row.remaining_balance = current_balance'[u]
    PROVE  Accounted(k, row)
<1>1. \A v \in Users : current_balance'[v] =
            current_balance[v] + (IF v = u THEN amount ELSE 0)
  BY DEF Credit, TypeOK
<1>2. \A v \in Users : /\ Share(row, v, Debits) = 0
                      /\ Share(row, v, Credits) = (IF v = u THEN amount ELSE 0)
  BY DEF Share, Credits, Debits
<1>3. ASSUME NEW v \in Users
      PROVE  current_balance'[v] = current_balance[v] + Share(row, v, Credits)
                                                      - Share(row, v, Debits)
  <2>1. current_balance[v] \in Int
    BY DEF TypeOK
  <2> QED BY <1>1, <1>2, <2>1
<1> QED BY <1>3 DEF Accounted

\* A payment and the completed row that records it.
LEMMA DebitAccounted ==
    ASSUME TypeOK, NEW u \in Users, NEW amount \in Nat,
           \A v \in Users : current_balance'[v] =
                current_balance[v] - (IF v = u THEN amount ELSE 0),
           NEW k, NEW row \in Transaction, WritesRow(k, row),
           k \in DOMAIN transactions => transactions[k].status # "completed",
           row.user = u, row.type = "payment", row.amount = amount,
           row.status = "completed", row.remaining_balance = current_balance'[u]
    PROVE  Accounted(k, row)
<1>1. \A v \in Users : /\ Share(row, v, Credits) = 0
                      /\ Share(row, v, Debits) = (IF v = u THEN amount ELSE 0)
  BY DEF Share, Credits, Debits
<1>2. ASSUME NEW v \in Users
      PROVE  current_balance'[v] = current_balance[v] + Share(row, v, Credits)
                                                      - Share(row, v, Debits)
  <2>1. current_balance[v] \in Int
    BY DEF TypeOK
  <2> QED BY <1>1, <2>1
<1> QED BY <1>2 DEF Accounted

\* A row that is written but not completed, and no balance moved.
LEMMA PendingAccounted ==
    ASSUME TypeOK, UNCHANGED current_balance,
           NEW k, NEW row \in Transaction, WritesRow(k, row),
           k \in DOMAIN transactions => transactions[k].status # "completed",
           row.status # "completed"
    PROVE  Accounted(k, row)
BY DEF Accounted, Share, TypeOK

\* Every step either leaves the ledger and the balances alone or is accounted
\* for by the one row it writes.
LEMMA ServicesAccounted ==
    ASSUME TypeOK, HoldsPriced, [Services]_vars
    PROVE  \/ UNCHANGED <<current_balance, transactions>>
           \/ \E k, row : Accounted(k, row)
<1>1. ASSUME NEW u \in Users, NEW a \in Deposits, Deposit(u, a)
      PROVE  \E k, row : Accounted(k, row)
  <2>1. a \in Nat /\ Credit(u, a)
    BY <1>1, AmountsAssumption DEF Deposit
  <2> QED BY <1>1, <2>1, DepositWrites, CreditAccounted DEF Inserts, Credits
<1>2. ASSUME NEW u \in Users, NEW a \in TopUps, CreateCheckout(u, a)
      PROVE  \E k, row : Accounted(k, row)
  <2>1. UNCHANGED current_balance
    BY <1>2 DEF CreateCheckout
  <2> QED BY <1>2, <2>1, CheckoutWrites, PendingAccounted DEF Inserts
<1>3. ASSUME NEW u \in Users, NEW o \in Orders, NEW m \in Menus, NEW a \in OrderTotals,
             PlaceOrder(u, o, m, a)
      PROVE  \E k, row : Accounted(k, row)
  <2>1. UNCHANGED current_balance
    BY <1>3 DEF PlaceOrder, InsertWithHold
  <2>2. Inserts(u, o, "hold", a, "pending", current_balance[u])
    BY <1>3, InsertWrites, AmountsAssumption DEF PlaceOrder
  <2> QED BY <2>1, <2>2, PendingAccounted DEF Inserts
<1>4. ASSUME NEW o \in Orders, CaptureHeld(o) \/ CapturePending(o)
      PROVE  \E k, row : Accounted(k, row)
  <2> DEFINE u == orders[o].user
             amount == orders[o].total_amount
             left == current_balance'[u]
  <2>1. orders[o].status \in OrderStatus /\ Settle(o)
    BY <1>4 DEF CaptureHeld, SettleFromHold, CapturePending, OrderStatus
  <2>2. u \in Users /\ amount \in Nat /\ left = current_balance'[u]
    BY <2>1, Inserted
  <2>3. \A v \in Users : current_balance'[v] =
                current_balance[v] - (IF v = u THEN amount ELSE 0)
    BY <2>1, SettleWrites
  <2>4. CASE \E k \in PendingHolds(o) : Updates(k, "payment", "completed", left)
    <3>1. PICK k \in PendingHolds(o) : Updates(k, "payment", "completed", left)
      BY <2>4
    <3>2. /\ k \in DOMAIN transactions /\ transactions[k].status # "completed"
          /\ transactions[k].user = u /\ transactions[k].amount = amount
      BY DEF PendingHolds, HoldsPriced
    <3> HIDE DEF u, amount, left
    <3> QED BY <2>2, <2>3, <3>1, <3>2, DebitAccounted DEF Updates
  <2>5. CASE Inserts(u, o, "payment", amount, "completed", left)
    <3> HIDE DEF u, amount, left
    <3> QED BY <2>2, <2>3, <2>5, DebitAccounted DEF Inserts
  <2> QED BY <2>1, <2>4, <2>5, SettleWrites
<1>5. ASSUME NEW o \in Orders, Refund(o) PROVE \E k, row : Accounted(k, row)
  <2>1. /\ orders[o].user \in Users /\ orders[o].total_amount \in Nat
        /\ Credit(orders[o].user, orders[o].total_amount)
    BY <1>5, Inserted DEF Refund, ReturnMoney, OrderStatus
  <2>2. Inserts(orders[o].user, o, "refund", orders[o].total_amount,
                "completed", current_balance'[orders[o].user])
    BY <1>5, ReturnWrites DEF Refund, OrderStatus
  <2> QED BY <2>1, <2>2, CreditAccounted DEF Inserts, Credits
<1>6. ASSUME NEW o \in Orders, LateCancel(o)
      PROVE  \/ UNCHANGED <<current_balance, transactions>>
             \/ \E k, row : Accounted(k, row)
  <2>1. UNCHANGED current_balance
    BY <1>6 DEF LateCancel, ReleaseHold
  <2>2. \A k \in PendingHolds(o) : transactions[k].status # "completed"
    BY DEF PendingHolds
  <2>3. ReleaseHold(o)
    BY <1>6 DEF LateCancel
  <2> QED BY <2>1, <2>2, <2>3, ReleaseWrites, PendingAccounted DEF Updates
<1>7. ASSUME NEW i \in DOMAIN transactions, CompleteTopUp(i)
      PROVE  \E k, row : Accounted(k, row)
  <2>1. /\ transactions[i].user \in Users /\ transactions[i].amount \in Nat
        /\ Credit(transactions[i].user, transactions[i].amount)
        /\ transactions[i].status # "completed"
    BY <1>7, Rows DEF CompleteTopUp, CreditTopUp, Transaction
  <2>2. Updates(i, "deposit", "completed", current_balance'[transactions[i].user])
    BY <1>7, TopUpWrites DEF CompleteTopUp
  <2> QED BY <2>1, <2>2, CreditAccounted DEF Updates, Credits
<1>8. ASSUME NEW m \in Menus, DeadlinePasses(m)
      PROVE  UNCHANGED <<current_balance, transactions>>
  BY <1>8 DEF DeadlinePasses
<1>9. CASE UNCHANGED vars
  BY <1>9 DEF vars
<1> QED
  BY <1>1, <1>2, <1>3, <1>4, <1>5, <1>6, <1>7, <1>8, <1>9 DEF Services

LEMMA StepAccounted ==
    ASSUME TypeOK, HoldsPriced, [Next]_vars
    PROVE  \/ UNCHANGED <<current_balance, transactions>>
           \/ \E k, row : Accounted(k, row)
BY StepKinds, EditsOrder, ServicesAccounted

-----------------------------------------------------------------------------
(* Inserted orders keep their totals.                                      *)

OrdersKept ==
    \A o \in Orders : orders[o] # Absent =>
        /\ orders'[o] # Absent
        /\ orders'[o].total_amount = orders[o].total_amount

\* Another status leaves the total as it is.
LEMMA SetStatusKeepsOrders ==
    ASSUME TypeOK, NEW o \in Orders, NEW s \in OrderStatus, orders[o] # Absent,
           SetStatus(o, s)
    PROVE  OrdersKept
<1>1. orders[o] \in Order
  BY Rows
<1>2. /\ orders'[o].status = s
      /\ orders'[o].total_amount = orders[o].total_amount
      /\ \A x \in Orders \ {o} : orders'[x] = orders[x]
  BY <1>1 DEF SetStatus, TypeOK, Order
<1> QED BY <1>2 DEF OrdersKept, Absent, OrderStatus

\* No service deletes an order or changes its total.
LEMMA ServicesKeepOrders == TypeOK /\ [Services]_vars => OrdersKept
<1> SUFFICES ASSUME TypeOK, [Services]_vars PROVE OrdersKept
  OBVIOUS
<1>1. ASSUME NEW u \in Users, NEW o \in Orders, NEW m \in Menus, NEW a \in OrderTotals,
             PlaceOrder(u, o, m, a)
      PROVE  OrdersKept
  BY <1>1 DEF PlaceOrder, InsertWithHold, TypeOK, OrdersKept
<1>2. ASSUME NEW o \in Orders,
             CaptureHeld(o) \/ CapturePending(o) \/ Refund(o) \/ LateCancel(o)
      PROVE  OrdersKept
  <2>1. orders[o].status \in OrderStatus
    BY <1>2 DEF CaptureHeld, SettleFromHold, CapturePending, Refund, LateCancel, OrderStatus
  <2>2. \E s \in OrderStatus : SetStatus(o, s)
    BY <1>2
    DEF CaptureHeld, SettleFromHold, CapturePending, Settle, Refund, ReturnMoney,
        LateCancel, ReleaseHold, OrderStatus
  <2> QED BY <2>1, <2>2, Inserted, SetStatusKeepsOrders
<1>3. CASE UNCHANGED orders
  BY <1>3 DEF OrdersKept
<1> QED
  BY <1>1, <1>2, <1>3
  DEF Services, vars, Deposit, CreateCheckout, CompleteTopUp, CreditTopUp, DeadlinePasses

\* Nor does the page.
LEMMA EditKeepsOrders ==
    ASSUME TypeOK, NEW o \in Orders, Edit(o)
    PROVE  OrdersKept
<1>1. orders[o] \in Order /\ orders[o] # Absent
  BY EditsOrder
<1>2. ASSUME NEW s \in OrderStatus, AdminSetStatus(o, s) PROVE OrdersKept
  BY <1>1, <1>2, SetStatusKeepsOrders DEF AdminSetStatus
<1>3. ASSUME NEW u \in Users, AdminReassign(o, u) PROVE OrdersKept
  <2>1. /\ orders'[o].status = orders[o].status
        /\ orders'[o].total_amount = orders[o].total_amount
        /\ \A x \in Orders \ {o} : orders'[x] = orders[x]
    BY <1>1, <1>3 DEF AdminReassign, TypeOK, Order
  <2> QED BY <1>1, <2>1 DEF OrdersKept, Order, Absent, OrderStatus
<1> QED BY <1>2, <1>3 DEF Edit

HoldsKept ==
    \A i \in DOMAIN transactions' : transactions'[i].type = "hold" =>
        /\ i \in DOMAIN transactions
        /\ transactions[i].type = "hold"
        /\ transactions'[i].order = transactions[i].order
        /\ transactions'[i].amount = transactions[i].amount

\* Only PlaceOrder inserts a HOLD, under an order that had none, and no action
\* turns another row into a HOLD.
LEMMA ServicesPriceHolds == TypeOK /\ HoldsPriced /\ [Services]_vars => HoldsPriced'
<1> SUFFICES ASSUME TypeOK, HoldsPriced, [Services]_vars PROVE HoldsPriced'
  OBVIOUS
<1>1. OrdersKept
  BY ServicesKeepOrders
<1>2. HoldsKept => HoldsPriced'
  BY <1>1 DEF HoldsKept, OrdersKept, HoldsPriced
<1>3. UNCHANGED transactions => HoldsKept
  BY DEF HoldsKept
<1>4. ASSUME NEW u, NEW o, NEW type, NEW amount, NEW status, NEW left,
             Inserts(u, o, type, amount, status, left), type # "hold"
      PROVE  HoldsKept
  BY <1>4 DEF Inserts, WritesRow, HoldsKept
<1>5. ASSUME NEW k, NEW type, NEW status, NEW left, Updates(k, type, status, left),
             type # "hold" \/ transactions[k].type = "hold"
      PROVE  HoldsKept
  BY <1>5 DEF Updates, WritesRow, HoldsKept
<1>6. ASSUME NEW u \in Users, NEW a \in Deposits, Deposit(u, a) PROVE HoldsKept
  BY <1>4, <1>6, DepositWrites, AmountsAssumption
<1>7. ASSUME NEW u \in Users, NEW a \in TopUps, CreateCheckout(u, a) PROVE HoldsKept
  BY <1>4, <1>7, CheckoutWrites
<1>8. ASSUME NEW u \in Users, NEW o \in Orders, NEW m \in Menus, NEW a \in OrderTotals,
             PlaceOrder(u, o, m, a)
      PROVE  HoldsPriced'
  <2>1. Inserts(u, o, "hold", a, "pending", current_balance[u])
    BY <1>8, InsertWrites, AmountsAssumption DEF PlaceOrder
  <2>2. /\ orders'[o].total_amount = a
        /\ orders'[o].status = "confirmed"
        /\ \A x \in Orders \ {o} : orders'[x] = orders[x]
        /\ orders[o] = Absent
    BY <1>8 DEF PlaceOrder, InsertWithHold, TypeOK
  <2>3. orders'[o] # Absent
    BY <2>2 DEF Absent
  <2> QED BY <2>1, <2>2, <2>3 DEF Inserts, WritesRow, HoldsPriced
<1>9. ASSUME NEW o \in Orders, CaptureHeld(o) \/ CapturePending(o) PROVE HoldsKept
  <2>1. orders[o].status \in OrderStatus /\ Settle(o)
    BY <1>9 DEF CaptureHeld, SettleFromHold, CapturePending, OrderStatus
  <2> QED BY <1>4, <1>5, <2>1, SettleWrites
<1>10. ASSUME NEW o \in Orders, Refund(o) PROVE HoldsKept
  BY <1>4, <1>10, ReturnWrites DEF Refund, OrderStatus
<1>11. ASSUME NEW o \in Orders, LateCancel(o) PROVE HoldsKept
  BY <1>3, <1>5, <1>11, ReleaseWrites DEF LateCancel, PendingHolds
<1>12. ASSUME NEW i \in DOMAIN transactions, CompleteTopUp(i) PROVE HoldsKept
  BY <1>5, <1>12, TopUpWrites DEF CompleteTopUp
<1>13. CASE UNCHANGED transactions
  BY <1>2, <1>3, <1>13
<1> QED
  BY <1>2, <1>6, <1>7, <1>8, <1>9, <1>10, <1>11, <1>12, <1>13
  DEF Services, vars, DeadlinePasses

\* An edit by hand neither, nor does it touch a total.
LEMMA EditPricesHolds ==
    ASSUME TypeOK, HoldsPriced, OrdersKept, UNCHANGED transactions
    PROVE  HoldsPriced'
BY DEF OrdersKept, HoldsPriced

LEMMA HoldsPricedStep == TypeOK /\ HoldsPriced /\ [Next]_vars => HoldsPriced'
BY StepKinds, EditsOrder, EditKeepsOrders, ServicesPriceHolds, EditPricesHolds

-----------------------------------------------------------------------------
(* The theorems.                                                           *)

LedgerInv == TypeOK /\ HoldsPriced /\ Reconciled

\* Empty tables are reconciled.
LEMMA LedgerInit == Init => LedgerInv
<1> SUFFICES ASSUME Init PROVE LedgerInv
  OBVIOUS
<1>1. DOMAIN transactions = {}
  BY DEF Init
<1>2. \A u \in Users : \A types : Completed(u, types) = {}
  BY <1>1 DEF Completed
<1>3. HoldsPriced
  BY <1>1 DEF HoldsPriced
<1>4. Reconciled
  <2>1. \A u \in Users : \A types : Total(AmountOf, Completed(u, types)) = 0
    BY <1>2, TotalEmpty
  <2>2. \A u \in Users : current_balance[u] = 0
    BY DEF Init
  <2>3. 0 = 0 - 0
    OBVIOUS
  <2> QED BY <2>1, <2>2, <2>3 DEF Reconciled
<1> QED BY <1>3, <1>4, TypeInit DEF LedgerInv

\* Every step keeps the ledger reconciled: it writes nothing the sums are over,
\* or one row, with the balance it accounts for.
LEMMA LedgerStep == LedgerInv /\ [Next]_vars => LedgerInv'
<1> SUFFICES ASSUME LedgerInv, [Next]_vars PROVE LedgerInv'
  OBVIOUS
<1> USE DEF LedgerInv
<1>1. TypeOK'
  BY TypeStep
<1>2. HoldsPriced'
  BY HoldsPricedStep
<1>3. Reconciled'
  <2>1. CASE UNCHANGED <<current_balance, transactions>>
    BY <2>1 DEF Reconciled, Completed, AmountOf
  <2>2. CASE \E k, row : Accounted(k, row)
    BY <1>1, <2>2, AccountedReconciles
  <2> QED BY <2>1, <2>2, StepAccounted
<1> QED BY <1>1, <1>2, <1>3

\* Whatever the services and the administration page do to orders, a user's
\* balance is the sum of the completed deposits and refunds less the payments.
THEOREM LedgerExplainsBalance == Spec => []Reconciled
<1>1. LedgerInv => Reconciled
  BY DEF LedgerInv
<1> QED BY <1>1, LedgerInit, LedgerStep, PTL DEF Spec
-----------------------------------------------------------------------------
(* The ledger as the account of every step.                                *)

\* A step that is accounted for completes no row but the one it writes, and
\* moves no balance but that row's.
LEMMA AccountedExplains ==
    ASSUME TypeOK, TypeOK', NEW k, NEW row, Accounted(k, row)
    PROVE  /\ \A i \in NewlyCompleted : i = k /\ row.status = "completed"
           /\ \A u \in Users :
                current_balance'[u] # current_balance[u]
                  => k \in NewlyCompleted /\ row.user = u
<1>1. \A i \in NewlyCompleted : i = k /\ row.status = "completed"
  BY DEF NewlyCompleted, Accounted, WritesRow
<1>2. ASSUME NEW u \in Users, current_balance'[u] # current_balance[u]
      PROVE  row.user = u /\ row.status = "completed"
  <2>1. current_balance'[u] = current_balance[u] + Share(row, u, Credits)
                                                 - Share(row, u, Debits)
    BY DEF Accounted
  <2>2. current_balance[u] \in Int
    BY DEF TypeOK
  <2>3. CASE ~(row.user = u /\ row.status = "completed")
    <3>1. Share(row, u, Credits) = 0 /\ Share(row, u, Debits) = 0
      BY <2>3 DEF Share
    <3> QED BY <1>2, <2>1, <2>2, <3>1
  <2> QED BY <2>3
<1>3. row.status = "completed" => k \in NewlyCompleted
  BY DEF NewlyCompleted, Accounted, WritesRow
<1> QED BY <1>1, <1>2, <1>3

\* So the row explains the step.
LEMMA AccountedStep ==
    ASSUME TypeOK, TypeOK',
           UNCHANGED <<current_balance, transactions>> \/ \E k, row : Accounted(k, row)
    PROVE  StepExplained
<1>1. CASE UNCHANGED <<current_balance, transactions>>
  <2>1. NewlyCompleted = {}
    BY <1>1 DEF NewlyCompleted
  <2> QED BY <1>1, <2>1 DEF StepExplained
<1>2. ASSUME NEW k, NEW row, Accounted(k, row) PROVE StepExplained
  <2>1. /\ \A i \in NewlyCompleted : i = k /\ row.status = "completed"
        /\ \A u \in Users :
             current_balance'[u] # current_balance[u]
               => k \in NewlyCompleted /\ row.user = u
    BY <1>2, AccountedExplains
  <2>2. /\ transactions'[k] = row
        /\ row.status = "completed" => row.remaining_balance = current_balance'[row.user]
    BY <1>2 DEF Accounted, WritesRow
  <2> QED BY <2>1, <2>2 DEF StepExplained
<1> QED BY <1>1, <1>2

\* Every step that moves a balance completes one row, of that balance, and the
\* row tells what it leaves, whatever the administration page did to orders.
THEOREM StepsAreExplained == Spec => BalanceExplained
<1>1. LedgerInv /\ [Next]_vars => StepExplained
  BY TypeStep, StepAccounted, AccountedStep DEF LedgerInv
<1> QED BY <1>1, LedgerInit, LedgerStep, PTL DEF Spec, BalanceExplained

-----------------------------------------------------------------------------
(* The ledger as an audit trail.                                           *)

\* Only a HOLD is ever cancelled: the webhook therefore never completes a row
\* that was settled before, although it looks for "completed" only.
OnlyHoldsCancelled ==
    \A i \in DOMAIN transactions :
        transactions[i].status = "cancelled" => transactions[i].type = "hold"

\* A row that waits for its outcome: a HOLD, or the DEPOSIT of a checkout.
Open(k) ==
    /\ k \in DOMAIN transactions
    /\ \/ transactions[k].type = "hold" /\ transactions[k].status = "pending"
       \/ transactions[k].type = "deposit" /\ transactions[k].status # "completed"

\* What a step may write: nothing, a fresh row, or the outcome of an open one.
LedgerWrite ==
    \/ UNCHANGED transactions
    \/ \E u, o, type, amount, status, left :
          Inserts(u, o, type, amount, status, left) /\ status # "cancelled"
    \/ \E k, type, status, left :
          /\ Open(k)
          /\ Updates(k, type, status, left)
          /\ status = "cancelled" => type = "hold"

\* Every step writes one of these.
LEMMA ServicesWrite == TypeOK /\ [Services]_vars => LedgerWrite
<1> SUFFICES ASSUME TypeOK, [Services]_vars PROVE LedgerWrite
  OBVIOUS
<1>1. ASSUME NEW u, NEW o, NEW type, NEW amount, NEW status, NEW left,
             Inserts(u, o, type, amount, status, left), status # "cancelled"
      PROVE  LedgerWrite
  BY <1>1 DEF LedgerWrite
<1>2. ASSUME NEW k, NEW type, NEW status, NEW left, Updates(k, type, status, left),
             Open(k), status = "cancelled" => type = "hold"
      PROVE  LedgerWrite
  BY <1>2 DEF LedgerWrite
<1>3. \A o \in Orders : \A k \in PendingHolds(o) : Open(k)
  BY DEF PendingHolds, Open
<1>4. ASSUME NEW u \in Users, NEW a \in Deposits, Deposit(u, a) PROVE LedgerWrite
  BY <1>1, <1>4, DepositWrites, AmountsAssumption
<1>5. ASSUME NEW u \in Users, NEW a \in TopUps, CreateCheckout(u, a) PROVE LedgerWrite
  BY <1>1, <1>5, CheckoutWrites
<1>6. ASSUME NEW u \in Users, NEW o \in Orders, NEW m \in Menus, NEW a \in OrderTotals,
             PlaceOrder(u, o, m, a)
      PROVE  LedgerWrite
  BY <1>1, <1>6, InsertWrites, AmountsAssumption DEF PlaceOrder
<1>7. ASSUME NEW o \in Orders, CaptureHeld(o) \/ CapturePending(o) PROVE LedgerWrite
  <2>1. orders[o].status \in OrderStatus /\ Settle(o)
    BY <1>7 DEF CaptureHeld, SettleFromHold, CapturePending, OrderStatus
  <2> QED BY <1>1, <1>2, <1>3, <2>1, SettleWrites
<1>8. ASSUME NEW o \in Orders, Refund(o) PROVE LedgerWrite
  BY <1>1, <1>8, ReturnWrites DEF Refund, OrderStatus
<1>9. ASSUME NEW o \in Orders, LateCancel(o) PROVE LedgerWrite
  BY <1>2, <1>3, <1>9, ReleaseWrites DEF LateCancel, LedgerWrite
<1>10. ASSUME NEW i \in DOMAIN transactions, CompleteTopUp(i) PROVE LedgerWrite
  <2>1. Open(i)
    BY <1>10 DEF CompleteTopUp, Open
  <2> QED BY <1>2, <1>10, <2>1, TopUpWrites DEF CompleteTopUp
<1>11. CASE UNCHANGED transactions
  BY <1>11 DEF LedgerWrite
<1> QED
  BY <1>4, <1>5, <1>6, <1>7, <1>8, <1>9, <1>10, <1>11
  DEF Services, vars, DeadlinePasses

LEMMA StepWrites == TypeOK /\ [Next]_vars => LedgerWrite
BY StepKinds, EditsOrder, ServicesWrite DEF LedgerWrite

\* No row but a HOLD is cancelled by any of them.
LEMMA OnlyHoldsCancelledStep ==
    ASSUME OnlyHoldsCancelled, LedgerWrite
    PROVE  OnlyHoldsCancelled'
<1>1. ASSUME NEW k, NEW row, WritesRow(k, row),
             row.status = "cancelled" => row.type = "hold"
      PROVE  OnlyHoldsCancelled'
  BY <1>1 DEF OnlyHoldsCancelled, WritesRow
<1>2. ASSUME NEW u, NEW o, NEW type, NEW amount, NEW status, NEW left,
             Inserts(u, o, type, amount, status, left), status # "cancelled"
      PROVE  OnlyHoldsCancelled'
  BY <1>1, <1>2 DEF Inserts
<1>3. ASSUME NEW k, NEW type, NEW status, NEW left, Updates(k, type, status, left),
             status = "cancelled" => type = "hold"
      PROVE  OnlyHoldsCancelled'
  BY <1>1, <1>3 DEF Updates
<1>4. CASE UNCHANGED transactions
  BY <1>4 DEF OnlyHoldsCancelled
<1> QED BY <1>2, <1>3, <1>4 DEF LedgerWrite

\* None of them removes a row, rewrites a settled one or changes what a row is about.
LEMMA WriteKeepsRows ==
    ASSUME TypeOK, OnlyHoldsCancelled, LedgerWrite
    PROVE  RowsKept
<1> SUFFICES ASSUME NEW i \in DOMAIN transactions
             PROVE  /\ i \in DOMAIN transactions'
                    /\ Settled(i) => transactions'[i] = transactions[i]
                    /\ transactions'[i].user = transactions[i].user
                    /\ transactions'[i].order = transactions[i].order
                    /\ transactions'[i].amount = transactions[i].amount
  BY DEF RowsKept
<1>1. CASE UNCHANGED transactions
  BY <1>1
<1>2. ASSUME NEW k, NEW row, WritesRow(k, row), k \notin DOMAIN transactions
      PROVE  i \in DOMAIN transactions' /\ transactions'[i] = transactions[i]
  BY <1>2 DEF WritesRow
<1>3. ASSUME NEW k, NEW type, NEW status, NEW left,
             Open(k), Updates(k, type, status, left)
      PROVE  /\ i \in DOMAIN transactions'
             /\ Settled(i) => transactions'[i] = transactions[i]
             /\ transactions'[i].user = transactions[i].user
             /\ transactions'[i].order = transactions[i].order
             /\ transactions'[i].amount = transactions[i].amount
  <2>1. transactions[k].status = "pending"
    BY <1>3, Rows
    DEF Open, OnlyHoldsCancelled, Transaction, TransactionStatus
  <2> QED BY <1>3, <2>1 DEF Updates, WritesRow, Settled
<1> QED BY <1>1, <1>2, <1>3 DEF LedgerWrite, Inserts

\* No step removes a row, rewrites a settled one or changes what a row is
\* about, under every administration: the ledger is an audit trail.
THEOREM LedgerIsAuditTrail == Spec => LedgerAppendOnly
<1> DEFINE Inv == TypeOK /\ OnlyHoldsCancelled
<1>1. Init => Inv
  BY TypeInit DEF Init, OnlyHoldsCancelled
<1>2. Inv /\ [Next]_vars => Inv'
  BY TypeStep, StepWrites, OnlyHoldsCancelledStep
<1>3. Inv /\ [Next]_vars => RowsKept
  BY StepWrites, WriteKeepsRows
<1> QED BY <1>1, <1>2, <1>3, PTL DEF Spec, LedgerAppendOnly

-----------------------------------------------------------------------------
(* on_hold.                                                                *)

Held == {"preparing", "confirmed"}

\* No edit reopens an order as PENDING.
NoReopening == \A e \in AdminEdits : e[2] # "pending"

\* No edit moves an order into or out of the statuses whose money is on hold,
\* and no order whose money is on hold changes hands.
HoldNeutral ==
    /\ Reassignable \cap Held = {}
    /\ \A e \in AdminEdits : e[1] \in Held <=> e[2] \in Held

-----------------------------------------------------------------------------
(* No order rests in PENDING: the transaction that inserts it confirms it. *)

NonePending == \A o \in Orders : orders[o].status # "pending"

\* The tables after one order moved to another status.
LEMMA SetStatusEffect ==
    ASSUME TypeOK, NEW o \in Orders, orders[o].status \in OrderStatus,
           NEW s \in OrderStatus, SetStatus(o, s)
    PROVE  /\ orders'[o] = [orders[o] EXCEPT !.status = s]
           /\ orders'[o] \in Order
           /\ orders'[o].status = s
           /\ orders'[o].user = orders[o].user
           /\ orders'[o].total_amount = orders[o].total_amount
           /\ \A x \in Orders \ {o} : orders'[x] = orders[x]
<1>1. orders[o] \in Order
  BY Inserted
<1>2. orders'[o] = [orders[o] EXCEPT !.status = s]
  BY DEF SetStatus, TypeOK
<1>3. \A x \in Orders \ {o} : orders'[x] = orders[x]
  BY DEF SetStatus, TypeOK
<1> QED BY <1>1, <1>2, <1>3 DEF Order

\* What a service that settles an order does to its status.
LEMMA ServiceStatus ==
    ASSUME NEW o \in Orders,
           CaptureHeld(o) \/ CapturePending(o) \/ Refund(o) \/ LateCancel(o)
    PROVE  /\ orders[o].status \in OrderStatus
           /\ SetStatus(o, "paid") \/ SetStatus(o, "cancelled")
<1>1. CASE CaptureHeld(o)
  BY <1>1 DEF CaptureHeld, SettleFromHold, Settle, OrderStatus
<1>2. CASE CapturePending(o)
  BY <1>2 DEF CapturePending, Settle, OrderStatus
<1>3. CASE Refund(o)
  BY <1>3 DEF Refund, ReturnMoney, OrderStatus
<1>4. CASE LateCancel(o)
  BY <1>4 DEF LateCancel, ReleaseHold, OrderStatus
<1> QED BY <1>1, <1>2, <1>3, <1>4

\* Neither does a change to any other status.
LEMMA SetStatusNonePending ==
    ASSUME TypeOK, NonePending, NEW o \in Orders, orders[o].status \in OrderStatus,
           NEW s \in OrderStatus, SetStatus(o, s), s # "pending"
    PROVE  NonePending'
<1>1. orders'[o].status = s /\ \A x \in Orders \ {o} : orders'[x] = orders[x]
  BY SetStatusEffect
<1> QED BY <1>1 DEF NonePending

\* No service leaves an order in PENDING.
LEMMA ServicesLeaveNonePending ==
    ASSUME TypeOK, NonePending, [Services]_vars
    PROVE  NonePending'
<1>1. ASSUME NEW u \in Users, NEW o \in Orders, NEW m \in Menus, NEW a \in OrderTotals,
             PlaceOrder(u, o, m, a)
      PROVE  NonePending'
  BY <1>1 DEF PlaceOrder, InsertWithHold, TypeOK, NonePending
<1>2. ASSUME NEW o \in Orders,
             CaptureHeld(o) \/ CapturePending(o) \/ Refund(o) \/ LateCancel(o)
      PROVE  NonePending'
  BY <1>2, ServiceStatus, SetStatusNonePending DEF OrderStatus
<1>3. CASE UNCHANGED orders
  BY <1>3 DEF NonePending
<1> QED
  BY <1>1, <1>2, <1>3
  DEF Services, vars, Deposit, CreateCheckout, CompleteTopUp, CreditTopUp, DeadlinePasses

\* Neither does any step.
LEMMA NonePendingStep ==
    ASSUME TypeOK, NoReopening, NonePending, [Next]_vars
    PROVE  NonePending'
<1>1. CASE [Services]_vars
  BY <1>1, ServicesLeaveNonePending
<1>2. ASSUME NEW o \in Orders, NEW s \in OrderStatus, AdminSetStatus(o, s)
      PROVE  NonePending'
  <2>1. orders[o].status \in OrderStatus /\ s # "pending" /\ SetStatus(o, s)
    BY <1>2, AdminAssumption DEF AdminSetStatus, NoReopening
  <2> QED BY <2>1, SetStatusNonePending
<1>3. ASSUME NEW o \in Orders, NEW u \in Users, AdminReassign(o, u) PROVE NonePending'
  <2>1. orders[o] \in Order
    BY <1>3, EditsOrder DEF Edit
  <2>2. orders'[o].status = orders[o].status
    BY <1>3, <2>1 DEF AdminReassign, TypeOK, Order
  <2>3. \A x \in Orders \ {o} : orders'[x] = orders[x]
    BY <1>3 DEF AdminReassign, TypeOK
  <2> QED BY <2>2, <2>3 DEF NonePending
<1> QED BY <1>1, <1>2, <1>3, StepKinds DEF Edit

-----------------------------------------------------------------------------
(* Solvency.                                                               *)

\* A credit leaves every user with what they had, or more.
LEMMA CreditKeepsSolvent ==
    ASSUME TypeOK, Solvent, NEW u \in Users, NEW amount \in Nat,
           Credit(u, amount), UNCHANGED on_hold
    PROVE  Solvent'
BY DEF Credit, Solvent, TypeOK

\* The services keep what is on hold covered.  PlaceOrder checks it, capture
\* takes the same from both columns, and no other step takes from a balance:
\* the branch that would is for a PENDING order.
LEMMA ServicesKeepSolvent ==
    ASSUME TypeOK, NonePending, Solvent, [Services]_vars
    PROVE  Solvent'
<1>1. ASSUME NEW u \in Users, NEW a \in Deposits, Deposit(u, a) PROVE Solvent'
  BY <1>1, AmountsAssumption, CreditKeepsSolvent DEF Deposit
<1>2. ASSUME NEW u \in Users, NEW o \in Orders, NEW m \in Menus, NEW a \in OrderTotals,
             PlaceOrder(u, o, m, a)
      PROVE  Solvent'
  <2>1. a \in Nat
    BY AmountsAssumption
  <2> QED BY <1>2, <2>1 DEF PlaceOrder, InsertWithHold, Solvent, TypeOK
<1>3. ASSUME NEW o \in Orders, CaptureHeld(o) PROVE Solvent'
  <2> DEFINE u == orders[o].user
             amount == orders[o].total_amount
  <2>1. u \in Users /\ amount \in Nat
    BY <1>3, Inserted DEF CaptureHeld, OrderStatus
  <2>2. /\ on_hold' = [on_hold EXCEPT ![u] = on_hold[u] - amount]
        /\ current_balance' = [current_balance EXCEPT ![u] = current_balance[u] - amount]
    BY <1>3 DEF CaptureHeld, SettleFromHold, Settle
  <2> HIDE DEF u, amount
  <2> QED BY <2>1, <2>2 DEF Solvent, TypeOK
<1>4. ASSUME NEW o \in Orders, CapturePending(o) PROVE Solvent'
  BY <1>4 DEF CapturePending, NonePending
<1>5. ASSUME NEW o \in Orders, Refund(o) PROVE Solvent'
  <2>1. orders[o].user \in Users /\ orders[o].total_amount \in Nat
    BY <1>5, Inserted DEF Refund, OrderStatus
  <2> QED BY <1>5, <2>1, CreditKeepsSolvent DEF Refund, ReturnMoney
<1>6. ASSUME NEW o \in Orders, LateCancel(o) PROVE Solvent'
  <2> DEFINE u == orders[o].user
             amount == orders[o].total_amount
  <2>1. u \in Users /\ amount \in Nat
    BY <1>6, Inserted DEF LateCancel, OrderStatus
  <2>2. /\ on_hold' = [on_hold EXCEPT ![u] = on_hold[u] - amount]
        /\ UNCHANGED current_balance
    BY <1>6 DEF LateCancel, ReleaseHold
  <2> HIDE DEF u, amount
  <2> QED BY <2>1, <2>2 DEF Solvent, TypeOK
<1>7. ASSUME NEW i \in DOMAIN transactions, CompleteTopUp(i) PROVE Solvent'
  <2>1. transactions[i].user \in Users /\ transactions[i].amount \in Nat
    BY Rows DEF Transaction
  <2> QED BY <1>7, <2>1, CreditKeepsSolvent DEF CompleteTopUp, CreditTopUp
<1>8. CASE UNCHANGED <<current_balance, on_hold>>
  BY <1>8 DEF Solvent
<1> QED
  BY <1>1, <1>2, <1>3, <1>4, <1>5, <1>6, <1>7, <1>8
  DEF Services, vars, CreateCheckout, DeadlinePasses

LEMMA SolventStep ==
    ASSUME TypeOK, NonePending, Solvent, [Next]_vars
    PROVE  Solvent'
BY StepKinds, EditsOrder, ServicesKeepSolvent DEF Solvent

\* Unless the admin page reopens an order as PENDING, no user ever has less
\* than what is on hold, whatever else the page changes.
THEOREM HoldsAreCovered ==
    ASSUME NoReopening
    PROVE  Spec => []Solvent
<1> DEFINE Inv == TypeOK /\ NonePending /\ Solvent
<1>1. Init => Inv
  BY TypeInit DEF Init, NonePending, Absent, Solvent
<1>2. Inv /\ [Next]_vars => Inv'
  BY TypeStep, NonePendingStep, SolventStep
<1>3. Inv => Solvent
  OBVIOUS
<1> QED BY <1>1, <1>2, <1>3, PTL DEF Spec
-----------------------------------------------------------------------------
(* on_hold is the sum of the orders that wait for capture.                 *)

\* What an order adds to a user's on_hold.
HeldShare(row, u) ==
    IF row.user = u /\ row.status \in Held THEN row.total_amount ELSE 0

HeldSum(u) == Total(TotalOf, HeldOrders(u))

\* The held orders of a user are a finite sum of amounts.
LEMMA HeldFinite ==
    ASSUME TypeOK, NEW u \in Users
    PROVE  /\ IsFiniteSet(HeldOrders(u))
           /\ \A o \in HeldOrders(u) : TotalOf[o] \in Nat
           /\ HeldSum(u) \in Nat
<1>1. HeldOrders(u) \in SUBSET Orders
  BY DEF HeldOrders
<1>2. IsFiniteSet(HeldOrders(u))
  BY <1>1, OrdersAssumption, FS_Subset
<1>3. \A o \in HeldOrders(u) : TotalOf[o] \in Nat
  BY Inserted DEF HeldOrders, TotalOf, OrderStatus
<1> QED BY <1>2, <1>3, TotalType DEF HeldSum

\* Writing one order moves every user's sum by what that order adds to it.
LEMMA OrderWriteMovesHeld ==
    ASSUME TypeOK, TypeOK', NEW o \in Orders,
           \A x \in Orders \ {o} : orders'[x] = orders[x], NEW u \in Users
    PROVE  HeldSum(u)' = HeldSum(u) - HeldShare(orders[o], u) + HeldShare(orders'[o], u)
<1> DEFINE H == HeldOrders(u)
           f == TotalOf
           R == H \ {o}
<1>1. IsFiniteSet(H) /\ (\A x \in H : f[x] \in Nat) /\ Total(f, H) \in Nat
  BY HeldFinite DEF HeldSum
<1>2. \A x \in H' : f'[x] \in Nat
  <2>1. \A x \in H' : x \in Orders /\ orders'[x].status \in OrderStatus
    BY DEF HeldOrders, OrderStatus
  <2>2. \A x \in Orders : orders'[x] \in Order \cup {Absent}
    BY DEF TypeOK
  <2>3. Absent.status \notin OrderStatus
    BY DEF Absent, OrderStatus
  <2>4. \A x \in H' : orders'[x] \in Order
    <3> HIDE DEF H
    <3> QED BY <2>1, <2>2, <2>3
  <2> QED BY <2>1, <2>4 DEF TotalOf, Order
<1>3. IsFiniteSet(R) /\ o \notin R /\ \A x \in R : f[x] \in Nat
  BY <1>1, FS_Subset
<1>4. R = H' \ {o} /\ \A x \in R : f[x] = f'[x]
  BY DEF HeldOrders, TotalOf
<1>5. f[o] = orders[o].total_amount /\ f'[o] = orders'[o].total_amount
  BY DEF TotalOf
<1>6. o \in H <=> orders[o].user = u /\ orders[o].status \in Held
  BY DEF HeldOrders, Held
<1>7. o \in H' <=> orders'[o].user = u /\ orders'[o].status \in Held
  BY DEF HeldOrders, Held
<1>8. HeldShare(orders[o], u) = IF o \in H THEN f[o] ELSE 0
  BY <1>5, <1>6 DEF HeldShare
<1>9. HeldShare(orders'[o], u) = IF o \in H' THEN f'[o] ELSE 0
  BY <1>5, <1>7 DEF HeldShare
<1>10. HeldSum(u) = Total(f, H) /\ HeldSum(u)' = Total(f', H')
  BY DEF HeldSum
<1>11. IsFiniteSet(H')
  <2>1. H' \subseteq Orders
    BY DEF HeldOrders
  <2> QED BY <2>1, OrdersAssumption, FS_Subset
<1> HIDE DEF H, f
<1>12. H' \ {o} = H \ {o} /\ \A x \in H \ {o} : f'[x] = f[x]
  BY <1>4
<1>13. Total(f', H') = Total(f, H) - Part(f, H, o) + Part(f', H', o)
  BY <1>1, <1>2, <1>11, <1>12, TotalRewrite
<1> QED BY <1>8, <1>9, <1>10, <1>13 DEF Part

\* A step that moves on_hold as it moves the one order it writes keeps every
\* hold backed.
LEMMA WriteKeepsBacked ==
    ASSUME TypeOK, TypeOK', HoldsBacked, NEW o \in Orders,
           \A x \in Orders \ {o} : orders'[x] = orders[x],
           \A u \in Users : on_hold'[u] = on_hold[u] - HeldShare(orders[o], u)
                                                    + HeldShare(orders'[o], u)
    PROVE  HoldsBacked'
<1> SUFFICES ASSUME NEW u \in Users PROVE on_hold'[u] = HeldSum(u)'
  BY DEF HoldsBacked, HeldSum
<1>1. on_hold[u] = HeldSum(u)
  BY DEF HoldsBacked, HeldSum
<1>2. HeldSum(u)' = HeldSum(u) - HeldShare(orders[o], u) + HeldShare(orders'[o], u)
  BY OrderWriteMovesHeld
<1> QED BY <1>1, <1>2

\* Leaving the statuses whose money is on hold, with the hold released.
LEMMA ReleaseKeepsBacked ==
    ASSUME TypeOK, TypeOK', HoldsBacked, NEW o \in Orders, orders[o].status \in Held,
           NEW s \in OrderStatus, s \notin Held, SetStatus(o, s),
           on_hold' = [on_hold EXCEPT ![orders[o].user] = @ - orders[o].total_amount]
    PROVE  HoldsBacked'
<1>1. orders[o].user \in Users /\ orders[o].total_amount \in Nat
  BY Inserted DEF Held, OrderStatus
<1>2. /\ orders'[o].status = s
      /\ \A x \in Orders \ {o} : orders'[x] = orders[x]
  BY SetStatusEffect DEF Held, OrderStatus
<1>3. \A u \in Users :
        /\ HeldShare(orders'[o], u) = 0
        /\ HeldShare(orders[o], u) =
             (IF u = orders[o].user THEN orders[o].total_amount ELSE 0)
  BY <1>2 DEF HeldShare
<1>4. \A u \in Users : on_hold'[u] = on_hold[u] - HeldShare(orders[o], u)
                                               + HeldShare(orders'[o], u)
  <2> SUFFICES ASSUME NEW u \in Users
               PROVE  on_hold'[u] = on_hold[u] - HeldShare(orders[o], u)
                                               + HeldShare(orders'[o], u)
    OBVIOUS
  <2>1. on_hold[u] \in Nat
    BY DEF TypeOK
  <2>2. on_hold'[u] = on_hold[u]
                        - (IF u = orders[o].user THEN orders[o].total_amount ELSE 0)
    BY <1>1, <2>1 DEF TypeOK
  <2> QED BY <1>1, <1>3, <2>1, <2>2
<1> QED BY <1>2, <1>4, WriteKeepsBacked

\* Moving between two statuses whose money is on hold, or two whose is not.
LEMMA NeutralKeepsBacked ==
    ASSUME TypeOK, TypeOK', HoldsBacked, NEW o \in Orders,
           orders[o].status \in OrderStatus, NEW s \in OrderStatus,
           orders[o].status \in Held <=> s \in Held, SetStatus(o, s),
           UNCHANGED on_hold
    PROVE  HoldsBacked'
<1>1. /\ orders[o].total_amount \in Nat
      /\ orders'[o].status = s
      /\ orders'[o].user = orders[o].user
      /\ orders'[o].total_amount = orders[o].total_amount
      /\ \A x \in Orders \ {o} : orders'[x] = orders[x]
  BY SetStatusEffect, Inserted
<1>2. \A u \in Users : /\ HeldShare(orders[o], u) \in Nat
                      /\ HeldShare(orders'[o], u) = HeldShare(orders[o], u)
  BY <1>1 DEF HeldShare
<1>3. \A u \in Users : on_hold'[u] = on_hold[u] - HeldShare(orders[o], u)
                                               + HeldShare(orders'[o], u)
  BY <1>2 DEF TypeOK
<1> QED BY <1>1, <1>3, WriteKeepsBacked

\* Changing the user of an order whose money is not on hold.
LEMMA ReassignKeepsBacked ==
    ASSUME TypeOK, TypeOK', HoldsBacked, NEW o \in Orders,
           orders[o].status \in OrderStatus, orders[o].status \notin Held,
           NEW w \in Users, orders' = [orders EXCEPT ![o].user = w], UNCHANGED on_hold
    PROVE  HoldsBacked'
<1>1. orders[o] \in Order
  BY Inserted
<1>2. /\ orders'[o].status = orders[o].status
      /\ \A x \in Orders \ {o} : orders'[x] = orders[x]
  BY <1>1 DEF TypeOK, Order
<1>3. \A u \in Users : HeldShare(orders[o], u) = 0 /\ HeldShare(orders'[o], u) = 0
  BY <1>2 DEF HeldShare
<1>4. \A u \in Users : on_hold'[u] = on_hold[u] - HeldShare(orders[o], u)
                                               + HeldShare(orders'[o], u)
  <2> SUFFICES ASSUME NEW u \in Users
               PROVE  on_hold'[u] = on_hold[u] - HeldShare(orders[o], u)
                                               + HeldShare(orders'[o], u)
    OBVIOUS
  <2>1. on_hold[u] \in Nat /\ on_hold'[u] = on_hold[u]
    BY DEF TypeOK
  <2> QED BY <1>3, <2>1
<1> QED BY <1>2, <1>4, WriteKeepsBacked

\* The services keep the holds backed.
LEMMA ServicesKeepBacked ==
    ASSUME TypeOK, TypeOK', NonePending, HoldsBacked, [Services]_vars
    PROVE  HoldsBacked'
<1>1. CASE UNCHANGED <<orders, on_hold>>
  BY <1>1 DEF HoldsBacked, HeldOrders, TotalOf
<1>2. ASSUME NEW u \in Users, NEW o \in Orders, NEW m \in Menus, NEW a \in OrderTotals,
             PlaceOrder(u, o, m, a)
      PROVE  HoldsBacked'
  <2>1. a \in Nat
    BY AmountsAssumption
  <2>2. /\ orders[o] = Absent
        /\ orders'[o] = [status |-> "confirmed", user |-> u, menu |-> m, total_amount |-> a]
        /\ \A x \in Orders \ {o} : orders'[x] = orders[x]
        /\ on_hold' = [on_hold EXCEPT ![u] = @ + a]
    BY <1>2 DEF PlaceOrder, InsertWithHold, TypeOK
  <2>3. \A v \in Users : /\ HeldShare(orders[o], v) = 0
                        /\ HeldShare(orders'[o], v) = (IF v = u THEN a ELSE 0)
    BY <2>2 DEF HeldShare, Held, Absent
  <2>4. \A v \in Users : on_hold'[v] = on_hold[v] - HeldShare(orders[o], v)
                                                 + HeldShare(orders'[o], v)
    BY <2>1, <2>2, <2>3 DEF TypeOK
  <2> QED BY <2>2, <2>4, WriteKeepsBacked
<1>3. ASSUME NEW o \in Orders, CaptureHeld(o) PROVE HoldsBacked'
  <2>1. /\ orders[o].status \in Held
        /\ SetStatus(o, "paid")
        /\ on_hold' = [on_hold EXCEPT ![orders[o].user] = @ - orders[o].total_amount]
    BY <1>3 DEF CaptureHeld, SettleFromHold, Settle, Held
  <2> QED BY <2>1, ReleaseKeepsBacked DEF Held, OrderStatus
<1>4. ASSUME NEW o \in Orders, CapturePending(o) PROVE HoldsBacked'
  BY <1>4 DEF CapturePending, NonePending
<1>5. ASSUME NEW o \in Orders, Refund(o) PROVE HoldsBacked'
  <2>1. /\ orders[o].status \in {"paid", "completed"}
        /\ SetStatus(o, "cancelled")
        /\ UNCHANGED on_hold
    BY <1>5 DEF Refund, ReturnMoney
  <2> QED BY <2>1, NeutralKeepsBacked DEF Held, OrderStatus
<1>6. ASSUME NEW o \in Orders, LateCancel(o) PROVE HoldsBacked'
  <2>1. /\ orders[o].status \in Held
        /\ SetStatus(o, "cancelled")
        /\ on_hold' = [on_hold EXCEPT ![orders[o].user] = @ - orders[o].total_amount]
    BY <1>6 DEF LateCancel, ReleaseHold, Held, NonePending
  <2> QED BY <2>1, ReleaseKeepsBacked DEF Held, OrderStatus
<1> QED
  BY <1>1, <1>2, <1>3, <1>4, <1>5, <1>6
  DEF Services, vars, Deposit, CreateCheckout, CompleteTopUp, CreditTopUp, DeadlinePasses

\* So do the edits that keep an order held or not held.
LEMMA BackedStep ==
    ASSUME TypeOK, TypeOK', NonePending, HoldNeutral, HoldsBacked, [Next]_vars
    PROVE  HoldsBacked'
<1>1. CASE [Services]_vars
  BY <1>1, ServicesKeepBacked
<1>2. ASSUME NEW o \in Orders, NEW s \in OrderStatus, AdminSetStatus(o, s)
      PROVE  HoldsBacked'
  <2> DEFINE e == <<orders[o].status, s>>
  <2>1. e \in AdminEdits /\ SetStatus(o, s) /\ UNCHANGED on_hold
    BY <1>2 DEF AdminSetStatus
  <2>2. e \in OrderStatus \X OrderStatus /\ (e[1] \in Held <=> e[2] \in Held)
    BY <2>1, AdminAssumption DEF HoldNeutral
  <2>3. orders[o].status \in OrderStatus /\ (orders[o].status \in Held <=> s \in Held)
    BY <2>2
  <2> QED BY <2>1, <2>3, NeutralKeepsBacked
<1>3. ASSUME NEW o \in Orders, NEW u \in Users, AdminReassign(o, u)
      PROVE  HoldsBacked'
  <2>1. /\ orders[o].status \in OrderStatus /\ orders[o].status \notin Held
        /\ orders' = [orders EXCEPT ![o].user = u]
        /\ UNCHANGED on_hold
    BY <1>3, AdminAssumption DEF AdminReassign, HoldNeutral
  <2> QED BY <2>1, ReassignKeepsBacked
<1> QED BY <1>1, <1>2, <1>3, StepKinds DEF Edit

\* Nothing is held at first.
LEMMA BackedInit == Init => HoldsBacked
<1> SUFFICES ASSUME Init PROVE HoldsBacked
  OBVIOUS
<1>1. \A u \in Users : HeldOrders(u) = {}
  BY DEF Init, HeldOrders, Absent
<1>2. \A u \in Users : Total(TotalOf, HeldOrders(u)) = 0
  BY <1>1, TotalEmpty
<1> QED BY <1>2 DEF Init, HoldsBacked

\* As long as the admin page moves orders only within the statuses that hold
\* money and within those that do not, reopens none and reassigns none of the
\* former, no sequence of orders, captures, cancellations and refunds leaks a hold.
THEOREM HoldsMatchOrders ==
    ASSUME NoReopening, HoldNeutral
    PROVE  Spec => []HoldsBacked
<1> DEFINE Inv == TypeOK /\ NonePending /\ HoldsBacked
<1>1. Init => Inv
  BY TypeInit, BackedInit DEF Init, NonePending, Absent
<1>2. Inv /\ [Next]_vars => Inv'
  BY TypeStep, NonePendingStep, BackedStep
<1>3. Inv => HoldsBacked
  OBVIOUS
<1> QED BY <1>1, <1>2, <1>3, PTL DEF Spec
-----------------------------------------------------------------------------
(* The ledger matches the orders.                                          *)

\* The order admin page is used for what the kitchen does to an order between
\* the steps of the services, and gives only cancelled orders to another user.
KitchenOnly ==
    /\ NoReopening
    /\ Reassignable \subseteq {"cancelled"}
    /\ \A e \in AdminEdits : \/ e[1] = e[2]
                             \/ e[1] \in Held /\ e[2] \in Held
                             \/ e[1] \in {"paid", "completed"} /\ e[2] \in {"paid", "completed"}

\* LedgerMatchesOrders, of one order.
Matches(o) ==
    /\ Kinds(o) \in History[orders[o].status]
    /\ \A i, j \in Entries(o) : transactions[i].type = transactions[j].type => i = j
    /\ \A i, j \in Entries(o) : transactions[i].user = transactions[j].user
    /\ \A i \in Entries(o) :
         /\ transactions[i].amount = orders[o].total_amount
         /\ orders[o].status # "cancelled" => transactions[i].user = orders[o].user

\* Row i is of these kinds and for the order's total.
IsEntry(o, i, type, status) ==
    /\ transactions[i].type = type
    /\ transactions[i].status = status
    /\ transactions[i].amount = orders[o].total_amount

\* The one row of an order that waits for its capture or was captured.
OneEntry(o, type, status) ==
    \E i : /\ Entries(o) = {i}
           /\ IsEntry(o, i, type, status)
           /\ transactions[i].user = orders[o].user

\* The rows of an order that is over.
LastEntries(o) ==
    \/ \E i : Entries(o) = {i} /\ IsEntry(o, i, "hold", "cancelled")
    \/ \E i, j : /\ Entries(o) = {i, j}
                 /\ IsEntry(o, i, "payment", "completed")
                 /\ IsEntry(o, j, "refund", "completed")
                 /\ transactions[i].user = transactions[j].user

\* The rows of an order, by its status.
Shape(o) ==
    \/ orders[o].status = "absent" /\ Entries(o) = {}
    \/ orders[o].status \in Held /\ OneEntry(o, "hold", "pending")
    \/ orders[o].status \in {"paid", "completed"} /\ OneEntry(o, "payment", "completed")
    \/ orders[o].status = "cancelled" /\ LastEntries(o)

\* An order that matches the ledger has the rows of its status.
LEMMA MatchesHasShape ==
    ASSUME TypeOK, NEW o \in Orders, Matches(o)
    PROVE  Shape(o)
<1> DEFINE kind(i) == <<transactions[i].type, transactions[i].status>>
<1>1. Kinds(o) = {kind(i) : i \in Entries(o)}
  BY DEF Kinds
<1>2. \A i, j \in Entries(o) : kind(i)[1] = kind(j)[1] => i = j
  BY DEF Matches
<1>3. orders[o].status \in OrderStatus \cup {"absent"}
  BY Rows DEF Order, Absent
<1>4. CASE orders[o].status = "absent"
  <2>1. Kinds(o) = {}
    BY <1>4 DEF Matches, History
  <2> QED BY <1>1, <1>4, <2>1 DEF Shape
<1>5. CASE orders[o].status = "pending"
  BY <1>5 DEF Matches, History
<1>6. ASSUME NEW type, NEW status, Kinds(o) = {<<type, status>>}
      PROVE  \E i : Entries(o) = {i} /\ IsEntry(o, i, type, status)
  <2>1. PICK i \in Entries(o) : kind(i) = <<type, status>>
    BY <1>1, <1>6
  <2>2. \A j \in Entries(o) : kind(j) = <<type, status>>
    BY <1>1, <1>6
  <2>3. Entries(o) = {i}
    BY <1>2, <2>1, <2>2
  <2> QED BY <2>1, <2>3 DEF Matches, IsEntry
<1>7. CASE orders[o].status \in Held
  <2>1. Kinds(o) = {<<"hold", "pending">>}
    BY <1>7 DEF Matches, History, Held
  <2>2. PICK i : Entries(o) = {i} /\ IsEntry(o, i, "hold", "pending")
    BY <1>6, <2>1
  <2>3. transactions[i].user = orders[o].user
    BY <1>7, <2>2 DEF Matches, Held
  <2>4. OneEntry(o, "hold", "pending")
    BY <2>2, <2>3 DEF OneEntry
  <2> QED BY <1>7, <2>4 DEF Shape
<1>8. CASE orders[o].status \in {"paid", "completed"}
  <2>1. Kinds(o) = {<<"payment", "completed">>}
    BY <1>8 DEF Matches, History
  <2>2. PICK i : Entries(o) = {i} /\ IsEntry(o, i, "payment", "completed")
    BY <1>6, <2>1
  <2>3. transactions[i].user = orders[o].user
    BY <1>8, <2>2 DEF Matches
  <2>4. OneEntry(o, "payment", "completed")
    BY <2>2, <2>3 DEF OneEntry
  <2> QED BY <1>8, <2>4 DEF Shape
<1>9. CASE orders[o].status = "cancelled"
  <2>1. \/ Kinds(o) = {<<"hold", "cancelled">>}
        \/ Kinds(o) = {<<"payment", "completed">>, <<"refund", "completed">>}
    BY <1>9 DEF Matches, History
  <2>2. CASE Kinds(o) = {<<"hold", "cancelled">>}
    BY <1>6, <1>9, <2>2 DEF Shape, LastEntries
  <2>3. CASE Kinds(o) = {<<"payment", "completed">>, <<"refund", "completed">>}
    <3>1. PICK i \in Entries(o) : kind(i) = <<"payment", "completed">>
      BY <1>1, <2>3
    <3>2. PICK j \in Entries(o) : kind(j) = <<"refund", "completed">>
      BY <1>1, <2>3
    <3>3. \A x \in Entries(o) : \/ kind(x) = <<"payment", "completed">>
                                \/ kind(x) = <<"refund", "completed">>
      BY <1>1, <2>3
    <3>4. Entries(o) = {i, j}
      BY <1>2, <3>1, <3>2, <3>3
    <3>5. IsEntry(o, i, "payment", "completed") /\ IsEntry(o, j, "refund", "completed")
      BY <3>1, <3>2 DEF Matches, IsEntry
    <3>6. transactions[i].user = transactions[j].user
      BY <3>1, <3>2 DEF Matches
    <3> QED BY <1>9, <3>4, <3>5, <3>6 DEF Shape, LastEntries
  <2> QED BY <2>1, <2>2, <2>3
<1> QED BY <1>3, <1>4, <1>5, <1>7, <1>8, <1>9 DEF OrderStatus, Held

\* And an order with the rows of its status matches the ledger.
LEMMA ShapeMatches == \A o \in Orders : Shape(o) => Matches(o)
<1> SUFFICES ASSUME NEW o \in Orders, Shape(o) PROVE Matches(o)
  OBVIOUS
<1>1. CASE orders[o].status = "absent" /\ Entries(o) = {}
  BY <1>1 DEF Matches, Kinds, History
<1>2. ASSUME NEW type, NEW status, OneEntry(o, type, status),
             {<<type, status>>} \in History[orders[o].status]
      PROVE  Matches(o)
  <2>1. PICK i : /\ Entries(o) = {i}
                 /\ IsEntry(o, i, type, status)
                 /\ transactions[i].user = orders[o].user
    BY <1>2 DEF OneEntry
  <2>2. Kinds(o) = {<<type, status>>}
    BY <2>1 DEF Kinds, IsEntry
  <2> QED BY <1>2, <2>1, <2>2 DEF Matches, IsEntry
<1>3. CASE orders[o].status \in Held /\ OneEntry(o, "hold", "pending")
  <2>1. {<<"hold", "pending">>} \in History[orders[o].status]
    BY <1>3 DEF Held, History
  <2> QED BY <1>2, <1>3, <2>1
<1>4. CASE orders[o].status \in {"paid", "completed"} /\ OneEntry(o, "payment", "completed")
  <2>1. {<<"payment", "completed">>} \in History[orders[o].status]
    BY <1>4 DEF History
  <2> QED BY <1>2, <1>4, <2>1
<1>5. CASE orders[o].status = "cancelled" /\ LastEntries(o)
  <2>1. CASE \E i : Entries(o) = {i} /\ IsEntry(o, i, "hold", "cancelled")
    <3>1. PICK i : Entries(o) = {i} /\ IsEntry(o, i, "hold", "cancelled")
      BY <2>1
    <3>2. Kinds(o) = {<<"hold", "cancelled">>}
      BY <3>1 DEF Kinds, IsEntry
    <3> QED BY <1>5, <3>1, <3>2 DEF Matches, IsEntry, History
  <2>2. ASSUME NEW i, NEW j,
               /\ Entries(o) = {i, j}
               /\ IsEntry(o, i, "payment", "completed")
               /\ IsEntry(o, j, "refund", "completed")
               /\ transactions[i].user = transactions[j].user
        PROVE  Matches(o)
    <3>1. Kinds(o) = {<<"payment", "completed">>, <<"refund", "completed">>}
      BY <2>2 DEF Kinds, IsEntry
    <3> QED BY <1>5, <2>2, <3>1 DEF Matches, IsEntry, History
  <2> QED BY <1>5, <2>1, <2>2 DEF LastEntries
<1> QED BY <1>1, <1>3, <1>4, <1>5 DEF Shape

\* The same of the next state.
LEMMA ShapeMatchesNext == (\A o \in Orders : Shape(o) => Matches(o))'
BY ShapeMatches, PTL

\* An order keeps matching when neither it nor its rows change.
LEMMA UntouchedMatches ==
    ASSUME NEW q \in Orders, Matches(q), orders'[q] = orders[q],
           Entries(q)' = Entries(q), \A i \in Entries(q) : transactions'[i] = transactions[i]
    PROVE  Matches(q)'
<1>1. Kinds(q)' = Kinds(q)
  BY DEF Kinds
<1> QED BY <1>1 DEF Matches

\* A row of one order is no row of another.
LEMMA OtherEntries ==
    ASSUME NEW k, NEW row, WritesRow(k, row),
           k \in DOMAIN transactions => transactions[k].order = row.order,
           NEW q, q # row.order
    PROVE  /\ Entries(q)' = Entries(q)
           /\ \A i \in Entries(q) : transactions'[i] = transactions[i]
BY DEF WritesRow, Entries

\* A step on one order and its rows keeps the ledger matching when it leaves
\* that order the rows of its new status.
LEMMA OrderStepMatches ==
    ASSUME TypeOK, LedgerMatchesOrders, NEW o \in Orders, Shape(o)',
           \A q \in Orders \ {o} : orders'[q] = orders[q],
           \/ UNCHANGED transactions
           \/ \E k, row : /\ WritesRow(k, row)
                          /\ row.order = o
                          /\ k \in DOMAIN transactions => transactions[k].order = o
    PROVE  LedgerMatchesOrders'
<1>1. \A q \in Orders : Matches(q)
  BY DEF LedgerMatchesOrders, Matches
<1>2. ASSUME NEW q \in Orders \ {o} PROVE Matches(q)'
  <2>1. /\ Entries(q)' = Entries(q)
        /\ \A i \in Entries(q) : transactions'[i] = transactions[i]
    <3>1. CASE UNCHANGED transactions
      BY <3>1 DEF Entries
    <3>2. ASSUME NEW k, NEW row, WritesRow(k, row), row.order = o,
                 k \in DOMAIN transactions => transactions[k].order = o
          PROVE  /\ Entries(q)' = Entries(q)
                 /\ \A i \in Entries(q) : transactions'[i] = transactions[i]
      BY <3>2, OtherEntries
    <3> QED BY <3>1, <3>2
  <2> QED BY <1>1, <2>1, UntouchedMatches
<1>3. Matches(o)'
  BY ShapeMatchesNext
<1>4. \A q \in Orders : Matches(q)'
  BY <1>2, <1>3
<1> QED BY <1>4 DEF LedgerMatchesOrders, Matches

\* What inserting a row of an order adds to its rows.
LEMMA InsertEntry ==
    ASSUME NEW u, NEW o, NEW type, NEW amount, NEW status, NEW left,
           Inserts(u, o, type, amount, status, left)
    PROVE  \E k, row : /\ WritesRow(k, row)
                       /\ row.order = o /\ k \notin DOMAIN transactions
                       /\ Entries(o)' = Entries(o) \cup {k}
                       /\ transactions'[k].type = type
                       /\ transactions'[k].status = status
                       /\ transactions'[k].amount = amount
                       /\ transactions'[k].user = u
                       /\ \A i \in Entries(o) : i # k /\ transactions'[i] = transactions[i]
<1>1. PICK k, row : /\ row = [user |-> u, order |-> o, type |-> type, amount |-> amount,
                          remaining_balance |-> left, status |-> status]
                    /\ WritesRow(k, row)
                    /\ k \notin DOMAIN transactions
  BY DEF Inserts
<1>2. row.order = o /\ row.type = type /\ row.status = status /\ row.amount = amount
      /\ row.user = u
  BY <1>1
<1>3. Entries(o)' = Entries(o) \cup {k}
  BY <1>1, <1>2 DEF WritesRow, Entries
<1>4. \A i \in Entries(o) : i # k /\ transactions'[i] = transactions[i]
  BY <1>1 DEF WritesRow, Entries
<1> QED BY <1>1, <1>2, <1>3, <1>4 DEF WritesRow

\* What updating a row of an order leaves of its rows.
LEMMA UpdateEntry ==
    ASSUME NEW k, NEW type, NEW status, NEW left, Updates(k, type, status, left),
           NEW o, k \in Entries(o)
    PROVE  \E row : /\ WritesRow(k, row)
                    /\ row.order = o /\ transactions[k].order = o
                    /\ Entries(o)' = Entries(o)
                    /\ transactions'[k].type = type
                    /\ transactions'[k].status = status
                    /\ transactions'[k].amount = transactions[k].amount
                    /\ transactions'[k].user = transactions[k].user
<1>1. PICK row : /\ WritesRow(k, row)
                 /\ k \in DOMAIN transactions
                 /\ row.user = transactions[k].user
                 /\ row.order = transactions[k].order
                 /\ row.amount = transactions[k].amount
                 /\ row.type = type /\ row.status = status
  BY DEF Updates
<1>2. row.order = o /\ transactions[k].order = o
  BY <1>1 DEF Entries
<1>3. Entries(o)' = Entries(o)
  BY <1>1, <1>2 DEF WritesRow, Entries
<1> QED BY <1>1, <1>2, <1>3 DEF WritesRow

\* An order that is placed has its HOLD for its only row.
LEMMA PlaceOrderMatches ==
    ASSUME TypeOK, LedgerMatchesOrders, NEW u \in Users, NEW o \in Orders, NEW m \in Menus,
           NEW a \in OrderTotals, PlaceOrder(u, o, m, a)
    PROVE  LedgerMatchesOrders'
<1>1. Inserts(u, o, "hold", a, "pending", current_balance[u])
  BY InsertWrites, AmountsAssumption DEF PlaceOrder
<1>2. PICK k, row : /\ WritesRow(k, row)
                    /\ row.order = o /\ k \notin DOMAIN transactions
                    /\ Entries(o)' = Entries(o) \cup {k}
                    /\ transactions'[k].type = "hold"
                    /\ transactions'[k].status = "pending"
                    /\ transactions'[k].amount = a
                    /\ transactions'[k].user = u
  BY <1>1, InsertEntry
<1>3. /\ orders[o] = Absent
      /\ orders'[o].status = "confirmed" /\ orders'[o].user = u
      /\ orders'[o].total_amount = a
      /\ \A q \in Orders \ {o} : orders'[q] = orders[q]
  BY DEF PlaceOrder, InsertWithHold, TypeOK
<1>4. Shape(o)
  BY MatchesHasShape DEF LedgerMatchesOrders, Matches
<1>5. Entries(o) = {}
  BY <1>3, <1>4 DEF Shape, Absent, Held
<1>6. Entries(o)' = {k}
  BY <1>2, <1>5
<1>7. Shape(o)'
  BY <1>2, <1>3, <1>6 DEF Shape, OneEntry, IsEntry, Held
<1> QED BY <1>2, <1>3, <1>7, OrderStepMatches

\* A held order that is captured has the PAYMENT its HOLD became for its only
\* row: the branch that inserts a PAYMENT is not taken.
LEMMA CaptureMatches ==
    ASSUME TypeOK, LedgerMatchesOrders, NEW o \in Orders,
           orders[o].status \in Held \cup {"pending"}, Settle(o)
    PROVE  LedgerMatchesOrders'
<1>1. Shape(o)
  BY MatchesHasShape DEF LedgerMatchesOrders, Matches
<1>2. OneEntry(o, "hold", "pending")
  BY <1>1 DEF Shape, Held
<1>3. PICK i : /\ Entries(o) = {i}
               /\ IsEntry(o, i, "hold", "pending")
               /\ transactions[i].user = orders[o].user
  BY <1>2 DEF OneEntry
<1>4. PendingHolds(o) = {i}
  BY <1>3 DEF PendingHolds, Entries, IsEntry
<1>5. orders[o].status \in OrderStatus
  BY DEF Held, OrderStatus
<1>6. Updates(i, "payment", "completed", current_balance'[orders[o].user])
  BY <1>4, <1>5, SettleWrites
<1>7. PICK row : /\ WritesRow(i, row)
                 /\ row.order = o /\ transactions[i].order = o
                 /\ Entries(o)' = Entries(o)
                 /\ transactions'[i].type = "payment"
                 /\ transactions'[i].status = "completed"
                 /\ transactions'[i].amount = transactions[i].amount
                 /\ transactions'[i].user = transactions[i].user
  BY <1>3, <1>6, UpdateEntry
<1>8. /\ orders'[o].status = "paid" /\ orders'[o].user = orders[o].user
      /\ orders'[o].total_amount = orders[o].total_amount
      /\ \A q \in Orders \ {o} : orders'[q] = orders[q]
  BY <1>5, SetStatusEffect DEF Settle, OrderStatus
<1>9. Shape(o)'
  BY <1>3, <1>7, <1>8 DEF Shape, OneEntry, IsEntry
<1> QED BY <1>7, <1>8, <1>9, OrderStepMatches

\* A refund adds the REFUND to the PAYMENT, on the same balance.
LEMMA RefundMatches ==
    ASSUME TypeOK, LedgerMatchesOrders, NEW o \in Orders, Refund(o)
    PROVE  LedgerMatchesOrders'
<1>1. orders[o].status \in {"paid", "completed"} /\ orders[o].status \in OrderStatus
  BY DEF Refund, OrderStatus
<1>2. Shape(o)
  BY MatchesHasShape DEF LedgerMatchesOrders, Matches
<1>3. PICK i : /\ Entries(o) = {i}
               /\ IsEntry(o, i, "payment", "completed")
               /\ transactions[i].user = orders[o].user
  BY <1>1, <1>2 DEF Shape, OneEntry, Held
<1>4. Inserts(orders[o].user, o, "refund", orders[o].total_amount,
              "completed", current_balance'[orders[o].user])
  BY <1>1, ReturnWrites DEF Refund
<1>5. PICK k, row : /\ WritesRow(k, row)
                    /\ row.order = o /\ k \notin DOMAIN transactions
                    /\ Entries(o)' = Entries(o) \cup {k}
                    /\ transactions'[k].type = "refund"
                    /\ transactions'[k].status = "completed"
                    /\ transactions'[k].amount = orders[o].total_amount
                    /\ transactions'[k].user = orders[o].user
                    /\ \A x \in Entries(o) : x # k /\ transactions'[x] = transactions[x]
  BY <1>4, InsertEntry
<1>6. /\ orders'[o].status = "cancelled"
      /\ orders'[o].total_amount = orders[o].total_amount
      /\ \A q \in Orders \ {o} : orders'[q] = orders[q]
  BY <1>1, SetStatusEffect DEF Refund, ReturnMoney, OrderStatus
<1>7. Entries(o)' = {i, k} /\ transactions'[i] = transactions[i]
  BY <1>3, <1>5
<1>8. /\ IsEntry(o, i, "payment", "completed")'
      /\ IsEntry(o, k, "refund", "completed")'
  BY <1>3, <1>5, <1>6, <1>7 DEF IsEntry
<1>9. LastEntries(o)'
  <2>1. transactions'[i].user = transactions'[k].user
    BY <1>3, <1>5, <1>7
  <2> QED BY <1>7, <1>8, <2>1 DEF LastEntries
<1>10. Shape(o)'
  BY <1>6, <1>9 DEF Shape
<1> QED BY <1>5, <1>6, <1>10, OrderStepMatches

\* A cancellation closes the HOLD, and adds nothing.
LEMMA CancelMatches ==
    ASSUME TypeOK, LedgerMatchesOrders, NEW o \in Orders, LateCancel(o)
    PROVE  LedgerMatchesOrders'
<1>1. Shape(o) /\ orders[o].status \in OrderStatus
  BY MatchesHasShape DEF LedgerMatchesOrders, Matches, LateCancel, OrderStatus
<1>2. PICK i : /\ Entries(o) = {i}
               /\ IsEntry(o, i, "hold", "pending")
               /\ transactions[i].user = orders[o].user
  BY <1>1 DEF Shape, OneEntry, LateCancel, Held
<1>3. PendingHolds(o) = {i}
  BY <1>2 DEF PendingHolds, Entries, IsEntry
<1>4. Updates(i, "hold", "cancelled", transactions[i].remaining_balance)
  BY <1>3, ReleaseWrites DEF LateCancel
<1>5. PICK row : /\ WritesRow(i, row)
                 /\ row.order = o /\ transactions[i].order = o
                 /\ Entries(o)' = Entries(o)
                 /\ transactions'[i].type = "hold"
                 /\ transactions'[i].status = "cancelled"
                 /\ transactions'[i].amount = transactions[i].amount
  BY <1>2, <1>4, UpdateEntry
<1>6. /\ orders'[o].status = "cancelled"
      /\ orders'[o].total_amount = orders[o].total_amount
      /\ \A q \in Orders \ {o} : orders'[q] = orders[q]
  BY <1>1, SetStatusEffect DEF LateCancel, ReleaseHold, OrderStatus
<1>7. Shape(o)'
  BY <1>2, <1>5, <1>6 DEF Shape, LastEntries, IsEntry
<1> QED BY <1>5, <1>6, <1>7, OrderStepMatches

\* A row of no order is no row of any.
LEMMA ForeignRowMatches ==
    ASSUME TypeOK, LedgerMatchesOrders, UNCHANGED orders, NEW k, NEW row, WritesRow(k, row),
           row.order \notin Orders, k \in DOMAIN transactions => transactions[k].order = row.order
    PROVE  LedgerMatchesOrders'
<1>1. \A q \in Orders : Matches(q)
  BY DEF LedgerMatchesOrders, Matches
<1>2. ASSUME NEW q \in Orders PROVE Matches(q)'
  <2>1. /\ Entries(q)' = Entries(q)
        /\ \A i \in Entries(q) : transactions'[i] = transactions[i]
    BY OtherEntries
  <2> QED BY <1>1, <2>1, UntouchedMatches
<1> QED BY <1>2 DEF LedgerMatchesOrders, Matches

\* The edits of the kitchen keep the ledger matching.
LEMMA EditMatches ==
    ASSUME TypeOK, KitchenOnly, LedgerMatchesOrders, NEW o \in Orders,
           NEW s \in OrderStatus, AdminSetStatus(o, s)
    PROVE  LedgerMatchesOrders'
<1> DEFINE e == <<orders[o].status, s>>
<1>1. e \in AdminEdits /\ SetStatus(o, s) /\ UNCHANGED transactions
  BY DEF AdminSetStatus
<1>2. orders[o].status \in OrderStatus
  BY <1>1, AdminAssumption
<1>3. /\ orders'[o].status = s /\ orders'[o].user = orders[o].user
      /\ orders'[o].total_amount = orders[o].total_amount
      /\ \A q \in Orders \ {o} : orders'[q] = orders[q]
  BY <1>1, <1>2, SetStatusEffect
<1>4. \/ orders[o].status = s
      \/ orders[o].status \in Held /\ s \in Held
      \/ orders[o].status \in {"paid", "completed"} /\ s \in {"paid", "completed"}
  BY <1>1 DEF KitchenOnly
<1>5. Shape(o)
  BY MatchesHasShape DEF LedgerMatchesOrders, Matches
<1>6. /\ Entries(o)' = Entries(o)
      /\ \A i, type, status : IsEntry(o, i, type, status)' = IsEntry(o, i, type, status)
      /\ \A type, status : OneEntry(o, type, status) => OneEntry(o, type, status)'
      /\ LastEntries(o) => LastEntries(o)'
  <2>1. Entries(o)' = Entries(o)
    BY <1>1 DEF Entries
  <2>2. \A i, type, status : IsEntry(o, i, type, status)' = IsEntry(o, i, type, status)
    BY <1>1, <1>3 DEF IsEntry
  <2>3. \A type, status : OneEntry(o, type, status) => OneEntry(o, type, status)'
    BY <1>1, <1>3, <2>1, <2>2 DEF OneEntry
  <2>4. LastEntries(o) => LastEntries(o)'
    BY <1>1, <2>1, <2>2 DEF LastEntries
  <2> QED BY <2>1, <2>2, <2>3, <2>4
<1>7. Shape(o)'
  BY <1>3, <1>4, <1>5, <1>6 DEF Shape, Held
<1> QED BY <1>1, <1>3, <1>7, OrderStepMatches

\* A cancelled order may change hands: its rows stay on the balance they were
\* booked on.
LEMMA ReassignMatches ==
    ASSUME TypeOK, KitchenOnly, LedgerMatchesOrders, NEW o \in Orders, NEW u \in Users,
           AdminReassign(o, u)
    PROVE  LedgerMatchesOrders'
<1>1. orders[o].status = "cancelled" /\ orders[o] \in Order
  BY Rows DEF AdminReassign, KitchenOnly, OrderStatus
<1>2. /\ orders'[o].status = orders[o].status
      /\ orders'[o].total_amount = orders[o].total_amount
      /\ \A q \in Orders \ {o} : orders'[q] = orders[q]
      /\ UNCHANGED transactions
  BY <1>1 DEF AdminReassign, TypeOK, Order
<1>3. Shape(o)
  BY MatchesHasShape DEF LedgerMatchesOrders, Matches
<1>4. LastEntries(o)
  BY <1>1, <1>3 DEF Shape, Held
<1>5. LastEntries(o)'
  BY <1>2, <1>4 DEF LastEntries, Entries, IsEntry
<1>6. Shape(o)'
  BY <1>1, <1>2, <1>5 DEF Shape
<1> QED BY <1>2, <1>6, OrderStepMatches

\* The services keep the ledger matching the orders.
LEMMA ServicesKeepMatching ==
    ASSUME TypeOK, LedgerMatchesOrders, [Services]_vars
    PROVE  LedgerMatchesOrders'
<1>1. ASSUME NEW u \in Users, NEW a \in Deposits, Deposit(u, a) PROVE LedgerMatchesOrders'
  <2>1. Inserts(u, NoOrder, "deposit", a, "completed", current_balance'[u])
    BY <1>1, DepositWrites, AmountsAssumption
  <2> QED BY <1>1, <2>1, ForeignRowMatches, OrdersAssumption DEF Inserts, Deposit
<1>2. ASSUME NEW u \in Users, NEW a \in TopUps, CreateCheckout(u, a)
      PROVE  LedgerMatchesOrders'
  <2>1. Inserts(u, NoOrder, "deposit", a, "pending", current_balance[u])
    BY <1>2, CheckoutWrites
  <2> QED BY <1>2, <2>1, ForeignRowMatches, OrdersAssumption DEF Inserts, CreateCheckout
<1>3. ASSUME NEW u \in Users, NEW o \in Orders, NEW m \in Menus, NEW a \in OrderTotals,
             PlaceOrder(u, o, m, a)
      PROVE  LedgerMatchesOrders'
  BY <1>3, PlaceOrderMatches
<1>4. ASSUME NEW o \in Orders, CaptureHeld(o) PROVE LedgerMatchesOrders'
  BY <1>4, CaptureMatches DEF CaptureHeld, SettleFromHold, Held
<1>5. ASSUME NEW o \in Orders, CapturePending(o) PROVE LedgerMatchesOrders'
  BY <1>5, CaptureMatches DEF CapturePending
<1>6. ASSUME NEW o \in Orders, Refund(o) PROVE LedgerMatchesOrders'
  BY <1>6, RefundMatches
<1>7. ASSUME NEW o \in Orders, LateCancel(o) PROVE LedgerMatchesOrders'
  BY <1>7, CancelMatches
<1>8. ASSUME NEW i \in DOMAIN transactions, CompleteTopUp(i) PROVE LedgerMatchesOrders'
  <2>1. Updates(i, "deposit", "completed", current_balance'[transactions[i].user])
    BY <1>8, TopUpWrites DEF CompleteTopUp
  <2>2. transactions[i].type = "deposit" /\ UNCHANGED orders
    BY <1>8 DEF CompleteTopUp, CreditTopUp
  <2>3. transactions[i].order \notin Orders
    <3> SUFFICES ASSUME transactions[i].order \in Orders PROVE FALSE
      OBVIOUS
    <3> DEFINE o == transactions[i].order
    <3>1. o \in Orders /\ i \in Entries(o)
      BY DEF Entries
    <3>2. Shape(o)
      BY <3>1, MatchesHasShape DEF LedgerMatchesOrders, Matches
    <3> HIDE DEF o
    <3> QED BY <2>2, <3>1, <3>2 DEF Shape, OneEntry, LastEntries, IsEntry
  <2> QED BY <2>1, <2>2, <2>3, ForeignRowMatches DEF Updates
<1>9. CASE UNCHANGED <<orders, transactions>>
  <2>1. ASSUME NEW q \in Orders PROVE Matches(q)'
    BY <1>9, UntouchedMatches DEF LedgerMatchesOrders, Matches, Entries
  <2> QED BY <2>1 DEF LedgerMatchesOrders, Matches
<1> QED
  BY <1>1, <1>2, <1>3, <1>4, <1>5, <1>6, <1>7, <1>8, <1>9
  DEF Services, vars, DeadlinePasses

\* So do the edits of the kitchen.
LEMMA MatchesStep ==
    ASSUME TypeOK, KitchenOnly, LedgerMatchesOrders, [Next]_vars
    PROVE  LedgerMatchesOrders'
BY StepKinds, ServicesKeepMatching, EditMatches, ReassignMatches DEF Edit

\* No order is in the tables at first, nor is an entry of one.
LEMMA MatchesInit == Init => LedgerMatchesOrders
<1> SUFFICES ASSUME Init PROVE LedgerMatchesOrders
  OBVIOUS
<1>1. \A o \in Orders : orders[o].status = "absent" /\ Entries(o) = {}
  BY DEF Init, Entries, Absent
<1>2. \A o \in Orders : Matches(o)
  BY <1>1, ShapeMatches DEF Shape
<1> QED BY <1>2 DEF LedgerMatchesOrders, Matches

\* As long as the order admin page is used for the kitchen's edits, the ledger
\* tells of every order what its status says: one HOLD that became one PAYMENT
\* or was cancelled, one REFUND after a PAYMENT, for the order's own total.
THEOREM LedgerTellsOrders ==
    ASSUME KitchenOnly
    PROVE  Spec => []LedgerMatchesOrders
<1> DEFINE Inv == TypeOK /\ LedgerMatchesOrders
<1>1. Init => Inv
  BY TypeInit, MatchesInit
<1>2. Inv /\ [Next]_vars => Inv'
  BY TypeStep, MatchesStep
<1>3. Inv => LedgerMatchesOrders
  OBVIOUS
<1> QED BY <1>1, <1>2, <1>3, PTL DEF Spec

-----------------------------------------------------------------------------
(* Wallet implements Escrow.                                               *)

\* What the refinement maps the escrow's variables to.
Paid(u) == Total(AmountOf, Completed(u, {"deposit"}))
Funded == [u \in Users |-> Paid(u)]
Spare == [u \in Users |-> current_balance[u] - on_hold[u]]
Escrows == [o \in Orders |-> Escrowed(orders[o])]

\* Every row of a checkout is for an amount that may be topped up, every
\* deposit for one that may be deposited.
DepositsAllowed ==
    \A i \in DOMAIN transactions :
        transactions[i].type = "deposit" => transactions[i].amount \in Deposits \cup TopUps

\* A row that is inserted adds to what was paid in if it is a completed DEPOSIT.
LEMMA InsertPaid ==
    ASSUME TypeOK, TypeOK', NEW u, NEW o, NEW type, NEW amount, NEW status, NEW left,
           Inserts(u, o, type, amount, status, left), NEW v
    PROVE  Paid(v)' = Paid(v) + (IF v = u /\ type = "deposit" /\ status = "completed"
                                 THEN amount ELSE 0)
<1>1. PICK k, row : /\ row = [user |-> u, order |-> o, type |-> type, amount |-> amount,
                          remaining_balance |-> left, status |-> status]
                    /\ row \in Transaction
                    /\ WritesRow(k, row)
                    /\ k \notin DOMAIN transactions
  BY DEF Inserts
<1>2. Paid(v)' = Paid(v) + Share(row, v, {"deposit"})
  BY <1>1, WriteAddsShare DEF Paid
<1>3. Share(row, v, {"deposit"}) = IF v = u /\ type = "deposit" /\ status = "completed"
                                   THEN amount ELSE 0
  BY <1>1 DEF Share
<1> QED BY <1>2, <1>3

\* A row that is updated, likewise.
LEMMA UpdatePaid ==
    ASSUME TypeOK, TypeOK', NEW k, NEW type, NEW status, NEW left,
           Updates(k, type, status, left), transactions[k].status # "completed", NEW v
    PROVE  Paid(v)' = Paid(v) + (IF v = transactions[k].user /\ type = "deposit"
                                    /\ status = "completed"
                                 THEN transactions[k].amount ELSE 0)
<1>1. PICK row \in Transaction :
          /\ WritesRow(k, row)
          /\ row.user = transactions[k].user
          /\ row.amount = transactions[k].amount
          /\ row.type = type /\ row.status = status
  BY DEF Updates
<1>2. Paid(v)' = Paid(v) + Share(row, v, {"deposit"})
  BY <1>1, WriteAddsShare DEF Paid
<1>3. Share(row, v, {"deposit"}) = IF v = transactions[k].user /\ type = "deposit"
                                      /\ status = "completed"
                                   THEN transactions[k].amount ELSE 0
  BY <1>1 DEF Share
<1> QED BY <1>2, <1>3

\* What was paid in is a number.
LEMMA PaidType == ASSUME TypeOK, NEW v PROVE Paid(v) \in Nat
BY CompletedFinite DEF Paid

\* A write that completes no DEPOSIT leaves what was paid in alone.
LEMMA NothingPaidIn ==
    ASSUME TypeOK, TypeOK',
           \/ UNCHANGED transactions
           \/ \E u, o, type, amount, status, left :
                 /\ Inserts(u, o, type, amount, status, left)
                 /\ type # "deposit" \/ status # "completed"
           \/ \E k, type, status, left :
                 /\ Updates(k, type, status, left)
                 /\ type # "deposit" /\ transactions[k].status # "completed"
    PROVE  UNCHANGED Funded
<1> SUFFICES ASSUME NEW v \in Users PROVE Paid(v)' = Paid(v)
  BY DEF Funded
<1>1. Paid(v) \in Nat
  BY PaidType
<1>2. CASE UNCHANGED transactions
  BY <1>2 DEF Paid, Completed, AmountOf
<1>3. ASSUME NEW u, NEW o, NEW type, NEW amount, NEW status, NEW left,
             Inserts(u, o, type, amount, status, left),
             type # "deposit" \/ status # "completed"
      PROVE  Paid(v)' = Paid(v)
  <2>1. Paid(v)' = Paid(v) + (IF v = u /\ type = "deposit" /\ status = "completed"
                              THEN amount ELSE 0)
    BY <1>3, InsertPaid
  <2> QED BY <1>1, <1>3, <2>1
<1>4. ASSUME NEW k, NEW type, NEW status, NEW left, Updates(k, type, status, left),
             type # "deposit", transactions[k].status # "completed"
      PROVE  Paid(v)' = Paid(v)
  <2>1. Paid(v)' = Paid(v) + (IF v = transactions[k].user /\ type = "deposit"
                                 /\ status = "completed"
                              THEN transactions[k].amount ELSE 0)
    BY <1>4, UpdatePaid
  <2> QED BY <1>1, <1>4, <2>1
<1> QED BY <1>2, <1>3, <1>4

\* Completing a DEPOSIT, at the counter or by the webhook, pays money in.
LEMMA FundStep ==
    ASSUME TypeOK, TypeOK', NEW u \in Users, NEW a \in (Deposits \cup TopUps) \cap Nat,
           Credit(u, a), UNCHANGED <<orders, on_hold>>,
           \A v \in Users : Paid(v)' = Paid(v) + (IF v = u THEN a ELSE 0)
    PROVE  Promise!Fund(u, a) \/ UNCHANGED <<Funded, Spare, Escrows>>
<1>1. \A v \in Users : Paid(v) \in Nat /\ current_balance[v] \in Int /\ on_hold[v] \in Int
  BY PaidType DEF TypeOK
<1>2. \A v \in Users : current_balance'[v] = current_balance[v] + (IF v = u THEN a ELSE 0)
  BY DEF Credit, TypeOK
<1>3. Escrows' = Escrows
  BY DEF Escrows
<1>4. \A v \in Users :
         /\ Paid(v)' = IF v = u THEN Paid(v) + a ELSE Paid(v)
         /\ current_balance'[v] - on_hold'[v] =
               IF v = u THEN current_balance[v] - on_hold[v] + a
                        ELSE current_balance[v] - on_hold[v]
  BY <1>1, <1>2
<1>5. Funded' = [Funded EXCEPT ![u] = @ + a] /\ Spare' = [Spare EXCEPT ![u] = @ + a]
  BY <1>4 DEF Funded, Spare
<1>6. CASE a > 0
  BY <1>3, <1>5, <1>6 DEF Promise!Fund, Promise!Gain, Funded, Paid, Spare, Escrows
<1>7. CASE a = 0
  BY <1>1, <1>3, <1>4, <1>7 DEF Funded, Spare
<1> QED BY <1>6, <1>7

\* What the escrow knows of the orders after a step on one of them.
LEMMA EscrowsMove ==
    ASSUME NEW o \in Orders, \A q \in Orders \ {o} : orders'[q] = orders[q]
    PROVE  /\ Escrows' = [Escrows EXCEPT ![o] = Escrowed(orders'[o])]
           /\ Escrows[o] = Escrowed(orders[o])
           /\ Escrowed(orders'[o]) = Escrowed(orders[o]) => Escrows' = Escrows
BY DEF Escrows

\* What can still be reserved after a step that moves one user's columns.
LEMMA SpareMoves ==
    ASSUME TypeOK, NEW u \in Users, NEW gain \in Int,
           \A v \in Users : current_balance'[v] - on_hold'[v] =
               current_balance[v] - on_hold[v] + (IF v = u THEN gain ELSE 0)
    PROVE  Spare' = [Spare EXCEPT ![u] = @ + gain]
<1>1. \A v \in Users : current_balance[v] - on_hold[v] \in Int
  BY DEF TypeOK
<1>2. \A v \in Users : current_balance'[v] - on_hold'[v] =
               IF v = u THEN current_balance[v] - on_hold[v] + gain
                        ELSE current_balance[v] - on_hold[v]
  BY <1>1
<1> QED BY <1>2 DEF Spare

\* Placing an order reserves its total.
LEMMA ReserveStep ==
    ASSUME TypeOK, TypeOK', NEW u \in Users, NEW o \in Orders, NEW m \in Menus,
           NEW a \in OrderTotals, PlaceOrder(u, o, m, a)
    PROVE  Promise!Reserve(u, o, a)
<1>1. a \in Nat
  BY AmountsAssumption
<1>2. Inserts(u, o, "hold", a, "pending", current_balance[u])
  BY <1>1, InsertWrites DEF PlaceOrder
<1>3. Funded' = Funded
  BY <1>2, NothingPaidIn
<1>4. /\ orders[o] = Absent
      /\ orders'[o] = [status |-> "confirmed", user |-> u, menu |-> m, total_amount |-> a]
      /\ \A q \in Orders \ {o} : orders'[q] = orders[q]
      /\ current_balance[u] - on_hold[u] >= a
      /\ current_balance' = current_balance
      /\ on_hold' = [on_hold EXCEPT ![u] = @ + a]
  BY DEF PlaceOrder, InsertWithHold, TypeOK
<1>5. Escrowed(orders[o]).stage = "new"
  BY <1>4 DEF Escrowed, StageOf, Absent
<1>6. Escrowed(orders'[o]) = [stage |-> "reserved", user |-> u, amount |-> a]
  BY <1>4 DEF Escrowed, StageOf
<1>7. /\ Escrows[o].stage = "new"
      /\ Escrows' = [Escrows EXCEPT ![o] = [stage |-> "reserved", user |-> u, amount |-> a]]
  BY <1>4, <1>5, <1>6, EscrowsMove
<1>8. Spare' = [Spare EXCEPT ![u] = @ + (0 - a)]
  <2>1. \A v \in Users : current_balance'[v] - on_hold'[v] =
               current_balance[v] - on_hold[v] + (IF v = u THEN 0 - a ELSE 0)
    BY <1>1, <1>4 DEF TypeOK
  <2> QED BY <1>1, <2>1, SpareMoves
<1>9. Spare' = [Spare EXCEPT ![u] = @ - a] /\ Spare[u] >= a
  <2>1. Spare[u] \in Int /\ Spare[u] + (0 - a) = Spare[u] - a
    BY <1>1 DEF Spare, TypeOK
  <2> QED BY <1>4, <1>8, <2>1 DEF Spare
<1> QED BY <1>3, <1>7, <1>9 DEF Promise!Reserve, Funded, Paid, Spare, Escrows

\* A capture moves the reserved money to spent, and frees none.
LEMMA SpendStep ==
    ASSUME TypeOK, TypeOK', NEW o \in Orders, CaptureHeld(o)
    PROVE  Promise!Spend(o)
<1> DEFINE u == orders[o].user
           amount == orders[o].total_amount
<1>1. orders[o].status \in {"preparing", "confirmed"} /\ orders[o].status \in OrderStatus
  BY DEF CaptureHeld, OrderStatus
<1>2. u \in Users /\ amount \in Nat
  BY <1>1, Inserted
<1>3. Funded' = Funded
  <2>1. \/ \E k \in PendingHolds(o) : Updates(k, "payment", "completed", current_balance'[u])
        \/ Inserts(u, o, "payment", amount, "completed", current_balance'[u])
    BY <1>1, SettleWrites DEF CaptureHeld, SettleFromHold
  <2>2. \A k \in PendingHolds(o) : transactions[k].status # "completed"
    BY DEF PendingHolds
  <2> HIDE DEF u, amount
  <2> QED BY <2>1, <2>2, NothingPaidIn
<1>4. /\ orders'[o].status = "paid" /\ orders'[o].user = orders[o].user
      /\ orders'[o].total_amount = orders[o].total_amount
      /\ \A q \in Orders \ {o} : orders'[q] = orders[q]
  BY <1>1, SetStatusEffect DEF CaptureHeld, SettleFromHold, Settle, OrderStatus
<1>5. Escrowed(orders[o]) = [stage |-> "reserved", user |-> u, amount |-> amount]
  BY <1>1 DEF Escrowed, StageOf
<1>6. Escrowed(orders'[o]) = [stage |-> "spent", user |-> u, amount |-> amount]
  BY <1>4 DEF Escrowed, StageOf
<1>7. /\ Escrows[o].stage = "reserved"
      /\ Escrows' = [Escrows EXCEPT ![o].stage = "spent"]
  BY <1>4, <1>5, <1>6, EscrowsMove
<1>8. Spare' = Spare
  <2>1. /\ on_hold' = [on_hold EXCEPT ![u] = on_hold[u] - amount]
        /\ current_balance' = [current_balance EXCEPT ![u] = current_balance[u] - amount]
    BY DEF CaptureHeld, SettleFromHold, Settle
  <2> HIDE DEF u, amount
  <2> QED BY <1>2, <2>1 DEF Spare, TypeOK
<1> QED BY <1>3, <1>7, <1>8 DEF Promise!Spend, Funded, Paid, Spare, Escrows

\* Giving the money of an order back, from the hold or from what was paid.
LEMMA ReturnStep ==
    ASSUME TypeOK, NEW o \in Orders, orders[o].status \in OrderStatus,
           orders[o].status # "cancelled", SetStatus(o, "cancelled"),
           UNCHANGED Funded,
           \A v \in Users : current_balance'[v] - on_hold'[v] =
               current_balance[v] - on_hold[v]
                 + (IF v = orders[o].user THEN orders[o].total_amount ELSE 0)
    PROVE  Promise!Return(o, StageOf[orders[o].status])
<1> DEFINE u == orders[o].user
           amount == orders[o].total_amount
<1>1. u \in Users /\ amount \in Nat
  BY Inserted
<1>2. /\ orders'[o].status = "cancelled"
      /\ \A q \in Orders \ {o} : orders'[q] = orders[q]
  BY SetStatusEffect DEF OrderStatus
<1>3. Escrowed(orders[o]) = [stage |-> StageOf[orders[o].status], user |-> u, amount |-> amount]
  BY DEF Escrowed
<1>4. Escrowed(orders'[o]) = [stage |-> "returned", user |-> NoUser, amount |-> 0]
  BY <1>2 DEF Escrowed
<1>5. /\ Escrows[o] = [stage |-> StageOf[orders[o].status], user |-> u, amount |-> amount]
      /\ Escrows' = [Escrows EXCEPT ![o] =
                       [stage |-> "returned", user |-> NoUser, amount |-> 0]]
  BY <1>2, <1>3, <1>4, EscrowsMove
<1>6. Spare' = [Spare EXCEPT ![u] = @ + amount]
  BY <1>1, SpareMoves
<1>7. /\ Escrows[o].stage = StageOf[orders[o].status]
      /\ Spare' = [Spare EXCEPT ![Escrows[o].user] = @ + Escrows[o].amount]
  BY <1>5, <1>6
<1> QED BY <1>5, <1>7 DEF Promise!Return, Promise!Gain, Funded, Paid, Spare, Escrows

\* A cancellation frees exactly what its order had reserved.
LEMMA ReleaseStep ==
    ASSUME TypeOK, TypeOK', NonePending, NEW o \in Orders, LateCancel(o)
    PROVE  Promise!Release(o)
<1> DEFINE u == orders[o].user
           amount == orders[o].total_amount
<1>1. orders[o].status \in {"preparing", "confirmed"} /\ orders[o].status \in OrderStatus
  BY DEF LateCancel, NonePending, OrderStatus
<1>2. u \in Users /\ amount \in Nat
  BY <1>1, Inserted
<1>3. UNCHANGED Funded
  <2>1. \A k \in PendingHolds(o) : transactions[k].status # "completed"
    BY DEF PendingHolds
  <2>2. ReleaseHold(o)
    BY DEF LateCancel
  <2> QED BY <2>1, <2>2, ReleaseWrites, NothingPaidIn
<1>4. \A v \in Users : current_balance'[v] - on_hold'[v] =
               current_balance[v] - on_hold[v] + (IF v = u THEN amount ELSE 0)
  <2>1. /\ on_hold' = [on_hold EXCEPT ![u] = on_hold[u] - amount]
        /\ UNCHANGED current_balance
    BY DEF LateCancel, ReleaseHold
  <2> HIDE DEF u, amount
  <2> QED BY <1>2, <2>1 DEF TypeOK
<1>5. SetStatus(o, "cancelled") /\ StageOf[orders[o].status] = "reserved"
  BY <1>1 DEF LateCancel, ReleaseHold, StageOf
<1>6. Promise!Return(o, StageOf[orders[o].status])
  BY <1>1, <1>3, <1>4, <1>5, ReturnStep
<1> QED BY <1>5, <1>6 DEF Promise!Release

\* A refund frees exactly what its order had spent.
LEMMA PayBackStep ==
    ASSUME TypeOK, TypeOK', NEW o \in Orders, Refund(o)
    PROVE  Promise!PayBack(o)
<1> DEFINE u == orders[o].user
           amount == orders[o].total_amount
<1>1. orders[o].status \in {"paid", "completed"} /\ orders[o].status \in OrderStatus
  BY DEF Refund, OrderStatus
<1>2. u \in Users /\ amount \in Nat
  BY <1>1, Inserted
<1>3. UNCHANGED Funded
  <2>1. Inserts(u, o, "refund", amount, "completed", current_balance'[u])
    BY <1>1, ReturnWrites DEF Refund
  <2> HIDE DEF u, amount
  <2> QED BY <2>1, NothingPaidIn
<1>4. \A v \in Users : current_balance'[v] - on_hold'[v] =
               current_balance[v] - on_hold[v] + (IF v = u THEN amount ELSE 0)
  <2>1. /\ current_balance' = [current_balance EXCEPT ![u] = current_balance[u] + amount]
        /\ UNCHANGED on_hold
    BY DEF Refund, ReturnMoney, Credit
  <2> HIDE DEF u, amount
  <2> QED BY <1>2, <2>1 DEF TypeOK
<1>5. SetStatus(o, "cancelled") /\ StageOf[orders[o].status] = "spent"
  BY <1>1 DEF Refund, ReturnMoney, StageOf
<1>6. Promise!Return(o, StageOf[orders[o].status])
  BY <1>1, <1>3, <1>4, <1>5, ReturnStep
<1> QED BY <1>5, <1>6 DEF Promise!PayBack

\* The escrow knows nothing of what the kitchen and the page do to an order.
LEMMA PageIsInvisible ==
    ASSUME TypeOK, KitchenOnly, NonePending, NEW o \in Orders,
           \/ \E s \in OrderStatus : AdminSetStatus(o, s)
           \/ \E u \in Users : AdminReassign(o, u)
    PROVE  UNCHANGED <<Funded, Spare, Escrows>>
<1>1. UNCHANGED <<current_balance, on_hold, transactions>>
  BY DEF AdminSetStatus, AdminReassign
<1>2. Funded' = Funded /\ Spare' = Spare
  BY <1>1 DEF Funded, Paid, Completed, AmountOf, Spare
<1>3. ASSUME NEW s \in OrderStatus, AdminSetStatus(o, s) PROVE Escrows' = Escrows
  <2> DEFINE e == <<orders[o].status, s>>
  <2>1. e \in AdminEdits /\ SetStatus(o, s)
    BY <1>3 DEF AdminSetStatus
  <2>2. orders[o].status \in OrderStatus
    BY <2>1, AdminAssumption
  <2>3. /\ orders'[o].status = s /\ orders'[o].user = orders[o].user
        /\ orders'[o].total_amount = orders[o].total_amount
        /\ \A q \in Orders \ {o} : orders'[q] = orders[q]
    BY <2>1, <2>2, SetStatusEffect
  <2>4. \/ orders[o].status = s
        \/ orders[o].status \in Held /\ s \in Held
        \/ orders[o].status \in {"paid", "completed"} /\ s \in {"paid", "completed"}
    BY <2>1 DEF KitchenOnly
  <2>5. Escrowed(orders'[o]) = Escrowed(orders[o])
    BY <2>3, <2>4 DEF Escrowed, StageOf, Held
  <2> QED BY <2>3, <2>5, EscrowsMove
<1>4. ASSUME NEW u \in Users, AdminReassign(o, u) PROVE Escrows' = Escrows
  <2>1. orders[o].status = "cancelled" /\ orders[o] \in Order
    BY <1>4, Rows DEF AdminReassign, KitchenOnly, OrderStatus
  <2>2. /\ orders'[o].status = "cancelled"
        /\ \A q \in Orders \ {o} : orders'[q] = orders[q]
    BY <1>4, <2>1 DEF AdminReassign, TypeOK, Order
  <2>3. Escrowed(orders'[o]) = Escrowed(orders[o])
    BY <2>1, <2>2 DEF Escrowed
  <2> QED BY <2>2, <2>3, EscrowsMove
<1> QED BY <1>2, <1>3, <1>4

\* Every step keeps the deposits allowed.
LEMMA ServicesDeposit ==
    ASSUME TypeOK, DepositsAllowed, [Services]_vars
    PROVE  DepositsAllowed'
<1>1. ASSUME NEW u, NEW o, NEW type, NEW amount, NEW status, NEW left,
             Inserts(u, o, type, amount, status, left),
             type = "deposit" => amount \in Deposits \cup TopUps
      PROVE  DepositsAllowed'
  BY <1>1 DEF Inserts, WritesRow, DepositsAllowed
<1>2. ASSUME NEW k, NEW type, NEW status, NEW left, Updates(k, type, status, left),
             type = "deposit" => transactions[k].type = "deposit"
      PROVE  DepositsAllowed'
  BY <1>2 DEF Updates, WritesRow, DepositsAllowed
<1>3. ASSUME NEW u \in Users, NEW a \in Deposits, Deposit(u, a) PROVE DepositsAllowed'
  BY <1>1, <1>3, DepositWrites, AmountsAssumption
<1>4. ASSUME NEW u \in Users, NEW a \in TopUps, CreateCheckout(u, a) PROVE DepositsAllowed'
  BY <1>1, <1>4, CheckoutWrites
<1>5. ASSUME NEW u \in Users, NEW o \in Orders, NEW m \in Menus, NEW a \in OrderTotals,
             PlaceOrder(u, o, m, a)
      PROVE  DepositsAllowed'
  BY <1>1, <1>5, InsertWrites, AmountsAssumption DEF PlaceOrder
<1>6. ASSUME NEW o \in Orders, CaptureHeld(o) \/ CapturePending(o) PROVE DepositsAllowed'
  <2>1. orders[o].status \in OrderStatus /\ Settle(o)
    BY <1>6 DEF CaptureHeld, SettleFromHold, CapturePending, OrderStatus
  <2> QED BY <1>1, <1>2, <2>1, SettleWrites
<1>7. ASSUME NEW o \in Orders, Refund(o) PROVE DepositsAllowed'
  BY <1>1, <1>7, ReturnWrites DEF Refund, OrderStatus
<1>8. ASSUME NEW o \in Orders, LateCancel(o) PROVE DepositsAllowed'
  <2>1. CASE UNCHANGED transactions
    BY <2>1 DEF DepositsAllowed
  <2> QED BY <1>2, <1>8, <2>1, ReleaseWrites DEF LateCancel
<1>9. ASSUME NEW i \in DOMAIN transactions, CompleteTopUp(i) PROVE DepositsAllowed'
  BY <1>2, <1>9, TopUpWrites DEF CompleteTopUp
<1>10. CASE UNCHANGED transactions
  BY <1>10 DEF DepositsAllowed
<1> QED
  BY <1>3, <1>4, <1>5, <1>6, <1>7, <1>8, <1>9, <1>10
  DEF Services, vars, DeadlinePasses

LEMMA DepositsAllowedStep ==
    ASSUME TypeOK, DepositsAllowed, [Next]_vars
    PROVE  DepositsAllowed'
BY StepKinds, EditsOrder, ServicesDeposit DEF DepositsAllowed

\* Every service is a step of the escrow or leaves it alone.
LEMMA ServicesKeepPromise ==
    ASSUME TypeOK, TypeOK', NonePending, DepositsAllowed, [Services]_vars
    PROVE  [Promise!Next]_(Promise!vars)
<1>1. ASSUME UNCHANGED <<Funded, Spare, Escrows>> PROVE UNCHANGED Promise!vars
  BY <1>1 DEF Promise!vars, Funded, Paid, Spare, Escrows
<1>2. ASSUME NEW u \in Users, NEW a \in Deposits, Deposit(u, a)
      PROVE  [Promise!Next]_(Promise!vars)
  <2>1. a \in Nat /\ Credit(u, a) /\ UNCHANGED <<orders, on_hold>>
    BY <1>2, AmountsAssumption DEF Deposit
  <2>2. Inserts(u, NoOrder, "deposit", a, "completed", current_balance'[u])
    BY <1>2, <2>1, DepositWrites
  <2>3. \A v \in Users : Paid(v)' = Paid(v) + (IF v = u THEN a ELSE 0)
    BY <2>2, InsertPaid
  <2>4. Promise!Fund(u, a) \/ UNCHANGED <<Funded, Spare, Escrows>>
    BY <2>1, <2>3, FundStep
  <2> QED BY <1>1, <2>4 DEF Promise!Next
<1>3. ASSUME NEW u \in Users, NEW a \in TopUps, CreateCheckout(u, a)
      PROVE  [Promise!Next]_(Promise!vars)
  <2>1. Inserts(u, NoOrder, "deposit", a, "pending", current_balance[u])
    BY <1>3, CheckoutWrites
  <2>2. UNCHANGED Funded
    BY <2>1, NothingPaidIn
  <2>3. UNCHANGED <<Spare, Escrows>>
    BY <1>3 DEF CreateCheckout, Spare, Escrows
  <2> QED BY <1>1, <2>2, <2>3
<1>4. ASSUME NEW u \in Users, NEW o \in Orders, NEW m \in Menus, NEW a \in OrderTotals,
             PlaceOrder(u, o, m, a)
      PROVE  [Promise!Next]_(Promise!vars)
  BY <1>4, ReserveStep DEF Promise!Next
<1>5. ASSUME NEW o \in Orders, CaptureHeld(o) PROVE [Promise!Next]_(Promise!vars)
  BY <1>5, SpendStep DEF Promise!Next
<1>6. ASSUME NEW o \in Orders, CapturePending(o) PROVE [Promise!Next]_(Promise!vars)
  BY <1>6 DEF CapturePending, NonePending
<1>7. ASSUME NEW o \in Orders, Refund(o) PROVE [Promise!Next]_(Promise!vars)
  BY <1>7, PayBackStep DEF Promise!Next
<1>8. ASSUME NEW o \in Orders, LateCancel(o) PROVE [Promise!Next]_(Promise!vars)
  BY <1>8, ReleaseStep DEF Promise!Next
<1>9. ASSUME NEW i \in DOMAIN transactions, CompleteTopUp(i)
      PROVE  [Promise!Next]_(Promise!vars)
  <2>1. /\ transactions[i].type = "deposit" /\ transactions[i].status # "completed"
        /\ Credit(transactions[i].user, transactions[i].amount)
        /\ UNCHANGED <<orders, on_hold>>
    BY <1>9 DEF CompleteTopUp, CreditTopUp
  <2>2. PICK u \in Users, a \in (Deposits \cup TopUps) \cap Nat :
           u = transactions[i].user /\ a = transactions[i].amount
    BY <2>1, Rows DEF Transaction, DepositsAllowed
  <2>3. Updates(i, "deposit", "completed", current_balance'[u])
    BY <1>9, <2>2, TopUpWrites DEF CompleteTopUp
  <2>4. \A v \in Users : Paid(v)' = Paid(v) + (IF v = u THEN a ELSE 0)
    BY <2>1, <2>2, <2>3, UpdatePaid
  <2>5. Promise!Fund(u, a) \/ UNCHANGED <<Funded, Spare, Escrows>>
    BY <2>1, <2>2, <2>4, FundStep
  <2> QED BY <1>1, <2>5 DEF Promise!Next
<1>10. CASE UNCHANGED <<orders, current_balance, on_hold, transactions>>
  BY <1>1, <1>10 DEF Funded, Paid, Completed, AmountOf, Spare, Escrows
<1> QED
  BY <1>2, <1>3, <1>4, <1>5, <1>6, <1>7, <1>8, <1>9, <1>10
  DEF Services, vars, DeadlinePasses

\* The kitchen's edits leave it alone.
LEMMA EscrowStep ==
    ASSUME TypeOK, TypeOK', KitchenOnly, NonePending, DepositsAllowed, [Next]_vars
    PROVE  [Promise!Next]_(Promise!vars)
<1>1. CASE [Services]_vars
  BY <1>1, ServicesKeepPromise
<1>2. ASSUME NEW o \in Orders, Edit(o) PROVE UNCHANGED Promise!vars
  <2>1. UNCHANGED <<Funded, Spare, Escrows>>
    BY <1>2, PageIsInvisible DEF Edit
  <2> QED BY <2>1 DEF Promise!vars, Funded, Paid, Spare, Escrows
<1> QED BY <1>1, <1>2, StepKinds

\* At first nothing was paid in, and no order was placed.
LEMMA PromiseInit == Init => Promise!Init
<1> SUFFICES ASSUME Init PROVE Promise!Init
  OBVIOUS
<1>1. \A u \in Users : Paid(u) = 0
  BY TotalEmpty DEF Init, Paid, Completed
<1>2. \A u \in Users : current_balance[u] - on_hold[u] = 0
  BY DEF Init
<1>3. \A o \in Orders : Escrowed(orders[o]) = [stage |-> "new", user |-> NoUser, amount |-> 0]
  BY DEF Init, Escrowed, StageOf, Absent
<1> QED BY <1>1, <1>2, <1>3 DEF Promise!Init, Paid

\* As long as the order admin page is used for the kitchen's edits, the wallet
\* keeps its promise: whatever sequence of deposits, top-ups, orders, captures,
\* cancellations and refunds happens, money that was paid in is free, reserved
\* for one order or spent on one, and an order's money goes back once.
THEOREM WalletImplementsEscrow ==
    ASSUME KitchenOnly
    PROVE  Spec => ImplementsEscrow
<1> DEFINE Inv == TypeOK /\ NonePending /\ DepositsAllowed
<1>1. Init => Inv
  BY TypeInit DEF Init, NonePending, DepositsAllowed, Absent
<1>2. Inv /\ [Next]_vars => Inv'
  BY TypeStep, NonePendingStep, DepositsAllowedStep DEF KitchenOnly
<1>3. Init => Promise!Init
  BY PromiseInit
<1>4. Inv /\ Inv' /\ [Next]_vars => [Promise!Next]_(Promise!vars)
  BY EscrowStep
<1> QED BY <1>1, <1>2, <1>3, <1>4, PTL DEF Spec, ImplementsEscrow, Promise!Spec

-----------------------------------------------------------------------------
(* Requests under row locks: the invariant.                                *)

OrderOps == {"capture", "refund", "cancel"}
Ops == {"deposit", "place", "topup"} \cup OrderOps

\* The columns of a request.
Serving ==
    [op: Ops, order: Orders \cup {NoOrder}, user: Users, menu: Menus \cup {NoMenu},
     amount: Nat, tx: Nat, held: {0, 1, 2},
     status: {"unread"} \cup OrderStatus \cup TransactionStatus, current: Int, hold: Int]

RequestsTyped ==
    /\ TypeOK
    /\ req \in [Requests -> Serving \cup {Idle}]
    /\ \A r \in Busy : req[r].held <= Len(Program[req[r].op])

\* A form is open on an order that was inserted, and shows a status.
FormsTyped ==
    /\ form \in [Orders -> OrderStatus \cup {NoForm}]
    /\ \A o \in Orders : form[o] # NoForm => orders[o] # Absent

\* The rows a request has locked.  Every service takes the balance last.
HoldsOrder(r) == req[r].op \in OrderOps /\ req[r].held >= 1
HoldsTransaction(r) == req[r].op = "topup" /\ req[r].held >= 1
HoldsBalance(r) == HasAllLocks(r)

\* What a request is about is as it was when it arrived: the services never
\* change these columns, and the key of an order being placed is its own.
About(r) ==
    LET q == req[r] IN
    /\ q.op = "deposit" => q.amount \in Deposits /\ q.amount > 0
    /\ q.op = "place" => /\ q.order \in Orders /\ orders[q.order] = Absent
                         /\ q.menu \in Menus /\ q.amount \in OrderTotals
    /\ q.op \in OrderOps => /\ q.order \in Orders /\ orders[q.order] # Absent
                            /\ q.user = orders[q.order].user
                            /\ q.amount = orders[q.order].total_amount
    /\ q.op = "topup" => /\ q.tx \in DOMAIN transactions
                         /\ transactions[q.tx].type = "deposit"
                         /\ q.user = transactions[q.tx].user
                         /\ q.amount = transactions[q.tx].amount

\* What a request read under a lock is still so, and was accepted.
Current(r) ==
    LET q == req[r] IN
    /\ HoldsOrder(r) => q.status = orders[q.order].status /\ q.status \in Accepts[q.op]
    /\ HoldsTransaction(r) => /\ q.status = transactions[q.tx].status
                              /\ q.status # "completed"
    /\ HoldsBalance(r) => q.current = current_balance[q.user] /\ q.hold = on_hold[q.user]

\* No two requests have locked the same row, or are placing the same order.
Apart(r, p) ==
    /\ HoldsOrder(r) /\ HoldsOrder(p) => req[r].order # req[p].order
    /\ HoldsTransaction(r) /\ HoldsTransaction(p) => req[r].tx # req[p].tx
    /\ HoldsBalance(r) /\ HoldsBalance(p) => req[r].user # req[p].user
    /\ req[r].op = "place" /\ req[p].op = "place" => req[r].order # req[p].order

RequestsInv ==
    /\ RequestsTyped
    /\ FormsTyped
    /\ \A r \in Busy : About(r) /\ Current(r)
    /\ \A r, p \in Busy : r # p => Apart(r, p)

-----------------------------------------------------------------------------
(* The locks.                                                              *)

\* The programs of the services.
LEMMA Programs ==
    /\ DOMAIN Program = Ops
    /\ \A op \in {"deposit", "place"} :
          Len(Program[op]) = 1 /\ Program[op][1] = "balance"
    /\ \A op \in OrderOps :
          Len(Program[op]) = 2 /\ Program[op][1] = "order" /\ Program[op][2] = "balance"
    /\ Len(Program["topup"]) = 2
    /\ Program["topup"][1] = "transaction" /\ Program["topup"][2] = "balance"
BY DEF Program, Ops, OrderOps

\* A busy request is a row of the requests.
LEMMA BusyRows ==
    ASSUME RequestsTyped, NEW r \in Requests
    PROVE  /\ r \in Busy <=> req[r] # Idle
           /\ r \in Busy <=> req[r] \in Serving
           /\ r \in Busy => req[r].op \in Ops
<1>1. Idle \notin Serving
  <2>1. Idle.op \notin Ops
    BY DEF Idle, Ops, OrderOps
  <2> QED BY <2>1 DEF Serving
<1>2. req[r] \in Serving \cup {Idle}
  BY DEF RequestsTyped
<1> QED BY <1>1, <1>2 DEF Busy, Serving

\* What a busy request has locked, table by table.
LEMMA LocksOf ==
    ASSUME RequestsTyped, NEW r \in Busy
    PROVE  /\ \A x : <<"order", x>> \in Locks(r) <=> HoldsOrder(r) /\ x = req[r].order
           /\ \A x : <<"transaction", x>> \in Locks(r)
                        <=> HoldsTransaction(r) /\ x = req[r].tx
           /\ \A x : <<"balance", x>> \in Locks(r) <=> HoldsBalance(r) /\ x = req[r].user
<1> DEFINE q == req[r]
<1>1. r \in Requests /\ q \in Serving /\ q # Idle /\ q.op \in Ops
  BY BusyRows DEF Busy
<1>2. q.held \in {0, 1, 2} /\ q.held <= Len(Program[q.op])
  BY <1>1 DEF Serving, RequestsTyped
<1>3. /\ Key(r, "order") = q.order /\ Key(r, "balance") = q.user
      /\ Key(r, "transaction") = q.tx
  BY DEF Key
<1>4. Locks(r) = {<<Program[q.op][n], Key(r, Program[q.op][n])>> : n \in 1..q.held}
  BY <1>1 DEF Locks
<1>5. CASE q.op \in {"deposit", "place"}
  <2>1. q.held \in {0, 1} /\ (HoldsBalance(r) <=> q.held = 1)
    <3>1. Len(Program[q.op]) = 1
      BY <1>5, Programs
    <3> QED BY <1>2, <3>1 DEF HoldsBalance, HasAllLocks
  <2>2. \A n \in 1..q.held : Program[q.op][n] = "balance"
    BY <1>5, <2>1, Programs
  <2>3. Locks(r) = IF q.held = 1 THEN {<<"balance", q.user>>} ELSE {}
    BY <1>3, <1>4, <2>1, <2>2
  <2> QED BY <1>5, <2>1, <2>3 DEF HoldsOrder, HoldsTransaction, OrderOps
<1>6. CASE q.op \in OrderOps
  <2>1. /\ HoldsBalance(r) <=> q.held = 2
        /\ HoldsOrder(r) <=> q.held >= 1
        /\ ~HoldsTransaction(r)
    BY <1>2, <1>6, Programs DEF HoldsBalance, HasAllLocks, HoldsOrder, HoldsTransaction, OrderOps
  <2>2. Program[q.op][1] = "order" /\ Program[q.op][2] = "balance"
    BY <1>6, Programs
  <2>3. \A x, y : <<x, y>> \in Locks(r) <=>
                     \/ 1 \in 1..q.held /\ x = "order" /\ y = q.order
                     \/ 2 \in 1..q.held /\ x = "balance" /\ y = q.user
    <3>1. \A n \in 1..q.held : n = 1 \/ n = 2
      BY <1>2
    <3> QED BY <1>3, <1>4, <2>2, <3>1
  <2> QED BY <1>2, <2>1, <2>3
<1>7. CASE q.op = "topup"
  <2>1. /\ HoldsBalance(r) <=> q.held = 2
        /\ HoldsTransaction(r) <=> q.held >= 1
        /\ ~HoldsOrder(r)
    BY <1>2, <1>7, Programs DEF HoldsBalance, HasAllLocks, HoldsOrder, HoldsTransaction, OrderOps
  <2>2. Program[q.op][1] = "transaction" /\ Program[q.op][2] = "balance"
    BY <1>7, Programs
  <2>3. \A x, y : <<x, y>> \in Locks(r) <=>
                     \/ 1 \in 1..q.held /\ x = "transaction" /\ y = q.tx
                     \/ 2 \in 1..q.held /\ x = "balance" /\ y = q.user
    <3>1. \A n \in 1..q.held : n = 1 \/ n = 2
      BY <1>2
    <3> QED BY <1>3, <1>4, <2>2, <3>1
  <2> QED BY <1>2, <2>1, <2>3
<1> QED BY <1>1, <1>5, <1>6, <1>7 DEF Ops

\* The invariant says what ReadsAreCurrent says.
LEMMA InvIsCurrent == RequestsInv => ReadsAreCurrent
<1> SUFFICES ASSUME RequestsInv, NEW r \in Busy
             PROVE  /\ <<"order", req[r].order>> \in Locks(r) =>
                          req[r].status = orders[req[r].order].status
                    /\ <<"transaction", req[r].tx>> \in Locks(r) =>
                          req[r].status = transactions[req[r].tx].status
                    /\ <<"balance", req[r].user>> \in Locks(r) =>
                          /\ req[r].current = current_balance[req[r].user]
                          /\ req[r].hold = on_hold[req[r].user]
  BY DEF ReadsAreCurrent
<1>1. RequestsTyped /\ Current(r)
  BY DEF RequestsInv
<1> QED BY <1>1, LocksOf DEF Current

-----------------------------------------------------------------------------
(* One request moves.                                                      *)

\* The invariant when one request moved to another row, or none did, and the
\* others are still about what they were about and read what is so.
LEMMA MoveKeepsInv ==
    ASSUME RequestsInv, TypeOK', FormsTyped', NEW r \in Requests,
           NEW row \in Serving \cup {Idle}, req' = [req EXCEPT ![r] = row],
           row # Idle => row.held <= Len(Program[row.op]) /\ About(r)' /\ Current(r)',
           \A p \in Busy \ {r} : About(p)' /\ Current(p)',
           row # Idle => \A p \in Busy \ {r} : Apart(r, p)'
    PROVE  RequestsInv'
<1>1. /\ req' \in [Requests -> Serving \cup {Idle}]
      /\ req'[r] = row
      /\ \A p \in Requests \ {r} : req'[p] = req[p]
  BY DEF RequestsInv, RequestsTyped
<1>2. \A p \in Busy' : \/ p = r /\ row # Idle
                       \/ p \in Busy \ {r} /\ req'[p] = req[p]
  BY <1>1 DEF Busy
<1>3. \A p \in Busy' : req'[p].held <= Len(Program[req'[p].op])
  BY <1>1, <1>2 DEF RequestsInv, RequestsTyped
<1>4. \A p \in Busy' : About(p)' /\ Current(p)'
  BY <1>2
<1>5. ASSUME NEW p \in Busy', NEW q \in Busy', p # q PROVE Apart(p, q)'
  <2>1. CASE p = r
    BY <1>2, <1>5, <2>1
  <2>2. CASE q = r
    <3>1. Apart(q, p)'
      BY <1>2, <1>5, <2>2
    <3> QED BY <3>1 DEF Apart
  <2>3. CASE p # r /\ q # r
    <3>1. /\ p \in Busy /\ req'[p] = req[p]
          /\ q \in Busy /\ req'[q] = req[q]
      BY <1>2, <2>3
    <3>2. Apart(p, q)
      BY <1>5, <3>1 DEF RequestsInv
    <3> QED BY <3>1, <3>2 DEF Apart, HoldsOrder, HoldsTransaction, HoldsBalance, HasAllLocks
  <2> QED BY <2>1, <2>2, <2>3
<1> QED BY <1>1, <1>3, <1>4, <1>5 DEF RequestsInv, RequestsTyped

\* The tables and the forms did not change, and neither did the others.
LEMMA QuietMoveKeepsInv ==
    ASSUME RequestsInv, UNCHANGED <<vars, form>>, NEW r \in Requests,
           NEW row \in Serving \cup {Idle}, req' = [req EXCEPT ![r] = row],
           row # Idle => row.held <= Len(Program[row.op]) /\ About(r)' /\ Current(r)',
           row # Idle => \A p \in Busy \ {r} : Apart(r, p)'
    PROVE  RequestsInv'
<1>1. TypeOK' /\ FormsTyped'
  BY DEF RequestsInv, RequestsTyped, TypeOK, FormsTyped, vars
<1>2. ASSUME NEW p \in Busy \ {r} PROVE About(p)' /\ Current(p)'
  <2>1. req'[p] = req[p]
    BY DEF RequestsInv, RequestsTyped, Busy
  <2>2. About(p) /\ Current(p)
    BY DEF RequestsInv
  <2>3. About(p)'
    BY <2>1, <2>2 DEF About, vars
  <2>4. Current(p)'
    BY <2>1, <2>2 DEF Current, HoldsOrder, HoldsTransaction, HoldsBalance, HasAllLocks, vars
  <2> QED BY <2>3, <2>4
<1> QED BY <1>1, <1>2, MoveKeepsInv

\* A request that ends leaves the others as they were.
LEMMA FinishKeepsInv ==
    ASSUME RequestsInv, UNCHANGED <<vars, form>>, NEW r \in Requests, Finish(r)
    PROVE  RequestsInv'
BY QuietMoveKeepsInv DEF Finish

-----------------------------------------------------------------------------
(* A request arrives.                                                      *)

\* The row of a request that arrives.
LEMMA RequestRow ==
    ASSUME NEW op \in Ops, NEW o \in Orders \cup {NoOrder}, NEW u \in Users,
           NEW m \in Menus \cup {NoMenu}, NEW a \in Nat, NEW i \in Nat
    PROVE  LET row == Request(op, o, u, m, a, i) IN
             /\ row \in Serving /\ row # Idle
             /\ row.op = op /\ row.order = o /\ row.user = u /\ row.menu = m
             /\ row.amount = a /\ row.tx = i /\ row.held = 0
<1> DEFINE row == Request(op, o, u, m, a, i)
<1>1. /\ row \in Serving
      /\ row.op = op /\ row.order = o /\ row.user = u /\ row.menu = m
      /\ row.amount = a /\ row.tx = i /\ row.held = 0
  BY DEF Request, Serving
<1>2. row # Idle
  <2>1. Idle.op \notin Ops
    BY DEF Idle, Ops, OrderOps
  <2> HIDE DEF row
  <2> QED BY <1>1, <2>1
<1> QED BY <1>1, <1>2

\* A request that has locked nothing shares nothing but, when it places an
\* order, that order's key.
LEMMA ArrivalKeepsInv ==
    ASSUME RequestsInv, UNCHANGED <<vars, form>>, NEW r \in Requests, req[r] = Idle,
           NEW row \in Serving, row # Idle, req' = [req EXCEPT ![r] = row], row.held = 0,
           About(r)', row.op = "place" => \A p \in Busy : req[p].order # row.order
    PROVE  RequestsInv'
<1>1. /\ req'[r] = row /\ row.op \in Ops
      /\ \A p \in Requests \ {r} : req'[p] = req[p]
  BY DEF RequestsInv, RequestsTyped, Serving
<1>2. Len(Program[row.op]) \in {1, 2}
  BY <1>1, Programs DEF Ops
<1>3. ~HoldsOrder(r)' /\ ~HoldsTransaction(r)' /\ ~HoldsBalance(r)'
  BY <1>1, <1>2 DEF HoldsOrder, HoldsTransaction, HoldsBalance, HasAllLocks
<1>4. Current(r)'
  BY <1>3 DEF Current
<1>5. \A p \in Busy \ {r} : Apart(r, p)'
  BY <1>1, <1>3 DEF Apart, Busy
<1>6. row.held <= Len(Program[row.op])
  BY <1>2
<1> QED BY <1>4, <1>5, <1>6, QuietMoveKeepsInv

\* Whatever request arrives.
LEMMA BeginKeepsInv ==
    ASSUME RequestsInv, NEW r \in Requests, Begin(r)
    PROVE  RequestsInv'
<1>1. UNCHANGED <<vars, form>> /\ req[r] = Idle
  BY DEF Begin
<1>2. TypeOK /\ req \in [Requests -> Serving \cup {Idle}]
  BY DEF RequestsInv, RequestsTyped
<1>3. ASSUME NEW row, req' = [req EXCEPT ![r] = row] PROVE req'[r] = row
  BY <1>2, <1>3
<1>4. ASSUME NEW u \in Users, NEW a \in Deposits, a > 0,
             req' = [req EXCEPT ![r] = Request("deposit", NoOrder, u, NoMenu, a, 0)]
      PROVE  RequestsInv'
  <2> DEFINE row == Request("deposit", NoOrder, u, NoMenu, a, 0)
  <2>1. /\ row \in Serving /\ row # Idle /\ row.op = "deposit"
        /\ row.amount = a /\ row.held = 0
    BY RequestRow, AmountsAssumption DEF Ops
  <2>2. req' = [req EXCEPT ![r] = row]
    BY <1>4
  <2> HIDE DEF row
  <2>3. About(r)'
    BY <1>3, <1>4, <2>1, <2>2 DEF About, OrderOps
  <2> QED BY <1>1, <2>1, <2>2, <2>3, ArrivalKeepsInv
<1>5. ASSUME NEW u \in Users, NEW o \in Orders, NEW m \in Menus, NEW a \in OrderTotals,
             orders[o] = Absent, \A q \in Busy : req[q].order # o,
             req' = [req EXCEPT ![r] = Request("place", o, u, m, a, 0)]
      PROVE  RequestsInv'
  <2> DEFINE row == Request("place", o, u, m, a, 0)
  <2>1. /\ row \in Serving /\ row # Idle /\ row.op = "place" /\ row.order = o
        /\ row.menu = m /\ row.amount = a /\ row.held = 0
    BY RequestRow, AmountsAssumption DEF Ops
  <2>2. req' = [req EXCEPT ![r] = row]
    BY <1>5
  <2> HIDE DEF row
  <2>3. About(r)'
    BY <1>1, <1>3, <1>5, <2>1, <2>2 DEF About, OrderOps, vars
  <2> QED BY <1>1, <1>5, <2>1, <2>2, <2>3, ArrivalKeepsInv
<1>6. ASSUME NEW o \in Orders, NEW op \in OrderOps, orders[o] # Absent,
             req' = [req EXCEPT ![r] = Request(op, o, orders[o].user, orders[o].menu,
                                               orders[o].total_amount, 0)]
      PROVE  RequestsInv'
  <2>1. PICK u \in Users, m \in Menus, a \in Nat :
           u = orders[o].user /\ m = orders[o].menu /\ a = orders[o].total_amount
    BY <1>2, <1>6, Rows DEF Order
  <2> DEFINE row == Request(op, o, u, m, a, 0)
  <2>2. /\ row \in Serving /\ row # Idle /\ row.op = op /\ row.order = o
        /\ row.user = u /\ row.amount = a /\ row.held = 0
    <3>1. op \in Ops /\ o \in Orders \cup {NoOrder} /\ m \in Menus \cup {NoMenu} /\ 0 \in Nat
      BY DEF Ops
    <3> QED BY <3>1, RequestRow
  <2>3. req' = [req EXCEPT ![r] = row]
    BY <1>6, <2>1
  <2> HIDE DEF row
  <2>4. About(r)'
    BY <1>1, <1>3, <1>6, <2>1, <2>2, <2>3 DEF About, OrderOps, vars
  <2>5. row.op # "place"
    BY <2>2 DEF OrderOps
  <2> QED BY <1>1, <2>2, <2>3, <2>4, <2>5, ArrivalKeepsInv
<1>7. ASSUME NEW i \in DOMAIN transactions, transactions[i].type = "deposit",
             req' = [req EXCEPT ![r] = Request("topup", NoOrder, transactions[i].user,
                                               NoMenu, transactions[i].amount, i)]
      PROVE  RequestsInv'
  <2>1. PICK u \in Users, a \in Nat :
           u = transactions[i].user /\ a = transactions[i].amount
    BY <1>2, Rows DEF Transaction
  <2>2. i \in Nat
    BY <1>2, LenProperties DEF TypeOK
  <2> DEFINE row == Request("topup", NoOrder, u, NoMenu, a, i)
  <2>3. /\ row \in Serving /\ row # Idle /\ row.op = "topup" /\ row.tx = i
        /\ row.user = u /\ row.amount = a /\ row.held = 0
    BY <2>2, RequestRow DEF Ops
  <2>4. req' = [req EXCEPT ![r] = row]
    BY <1>7, <2>1
  <2> HIDE DEF row
  <2>5. About(r)'
    BY <1>1, <1>3, <1>7, <2>1, <2>3, <2>4 DEF About, OrderOps, vars
  <2> QED BY <1>1, <2>3, <2>4, <2>5, ArrivalKeepsInv
<1> QED BY <1>4, <1>5, <1>6, <1>7 DEF Begin, OrderOps
-----------------------------------------------------------------------------
(* A request locks its next row.                                           *)

\* The row a request wants next, table by table.
LEMMA NextRow ==
    ASSUME RequestsTyped, NEW r \in Busy, ~HasAllLocks(r)
    PROVE  /\ req[r].held + 1 <= Len(Program[req[r].op])
           /\ NextLock(r)[1] = "order" =>
                 /\ req[r].op \in OrderOps /\ req[r].held = 0
                 /\ NextLock(r) = <<"order", req[r].order>>
           /\ NextLock(r)[1] = "transaction" =>
                 /\ req[r].op = "topup" /\ req[r].held = 0
                 /\ NextLock(r) = <<"transaction", req[r].tx>>
           /\ NextLock(r)[1] = "balance" =>
                 /\ req[r].held + 1 = Len(Program[req[r].op])
                 /\ NextLock(r) = <<"balance", req[r].user>>
<1> DEFINE q == req[r]
           table == Program[q.op][q.held + 1]
<1>1. r \in Requests /\ q \in Serving /\ q # Idle /\ q.op \in Ops
  BY BusyRows DEF Busy
<1>2. q.held \in {0, 1, 2} /\ q.held <= Len(Program[q.op]) /\ q.held # Len(Program[q.op])
  BY <1>1 DEF Serving, RequestsTyped, HasAllLocks
<1>3. NextLock(r) = <<table, Key(r, table)>> /\ NextLock(r)[1] = table
  BY DEF NextLock
<1>4. /\ Key(r, "order") = q.order /\ Key(r, "balance") = q.user
      /\ Key(r, "transaction") = q.tx
  BY DEF Key
<1>5. CASE q.op \in {"deposit", "place"}
  <2>1. Len(Program[q.op]) = 1
    BY <1>5, Programs
  <2>2. q.held = 0
    BY <1>2, <2>1
  <2>3. table = "balance"
    BY <1>5, <2>2, Programs
  <2> QED BY <1>3, <1>4, <2>1, <2>2, <2>3
<1>6. CASE q.op \in OrderOps
  <2>1. Len(Program[q.op]) = 2 /\ Program[q.op][1] = "order" /\ Program[q.op][2] = "balance"
    BY <1>6, Programs
  <2>2. CASE q.held = 0
    BY <1>3, <1>4, <1>6, <2>1, <2>2
  <2>3. CASE q.held = 1
    BY <1>3, <1>4, <2>1, <2>3
  <2> QED BY <1>2, <2>1, <2>2, <2>3
<1>7. CASE q.op = "topup"
  <2>1. /\ Len(Program[q.op]) = 2 /\ Program[q.op][1] = "transaction"
        /\ Program[q.op][2] = "balance"
    BY <1>7, Programs
  <2>2. CASE q.held = 0
    BY <1>3, <1>4, <1>7, <2>1, <2>2
  <2>3. CASE q.held = 1
    BY <1>3, <1>4, <2>1, <2>3
  <2> QED BY <1>2, <2>1, <2>2, <2>3
<1> QED BY <1>1, <1>5, <1>6, <1>7 DEF Ops

\* A free row is locked by nobody.
LEMMA FreeRow ==
    ASSUME RequestsTyped, NEW p \in Busy
    PROVE  /\ \A x : Free(<<"order", x>>) => ~(HoldsOrder(p) /\ x = req[p].order)
           /\ \A x : Free(<<"transaction", x>>) => ~(HoldsTransaction(p) /\ x = req[p].tx)
           /\ \A x : Free(<<"balance", x>>) => ~(HoldsBalance(p) /\ x = req[p].user)
BY LocksOf DEF Free, Busy

\* A request with one of two locks does not hold the balance.
LEMMA HalfWay ==
    ASSUME NEW r, req'[r].held = 1, Len(Program[req'[r].op]) = 2
    PROVE  ~HoldsBalance(r)'
BY DEF HoldsBalance, HasAllLocks

\* A request that locked one row more, and read what is so.
LEMMA LockKeepsInv ==
    ASSUME RequestsInv, UNCHANGED <<vars, form>>, NEW r \in Busy, ~HasAllLocks(r),
           Free(NextLock(r)), NEW row \in Serving, row # Idle,
           row.op = req[r].op, row.order = req[r].order, row.user = req[r].user,
           row.menu = req[r].menu, row.amount = req[r].amount, row.tx = req[r].tx,
           row.held = req[r].held + 1, req' = [req EXCEPT ![r] = row],
           NextLock(r)[1] \in {"order", "transaction", "balance"}, Current(r)'
    PROVE  RequestsInv'
<1> DEFINE q == req[r]
<1>1. /\ RequestsTyped /\ About(r) /\ r \in Requests
      /\ req \in [Requests -> Serving \cup {Idle}]
      /\ q.op \in Ops /\ q.held \in {0, 1, 2}
  BY BusyRows DEF RequestsInv, RequestsTyped, Busy, Serving
<1>2. /\ req'[r] = row
      /\ \A p \in Requests \ {r} : req'[p] = req[p]
  BY <1>1
<1>3. row.held <= Len(Program[row.op])
  BY <1>1, NextRow
<1>4. About(r)'
  BY <1>1, <1>2 DEF About, vars
<1>5. ASSUME NEW p \in Busy \ {r} PROVE Apart(r, p)'
  <2>1. Apart(r, p) /\ req'[p] = req[p]
    BY <1>1, <1>2 DEF RequestsInv, Busy
  <2>2. /\ HoldsOrder(p)' <=> HoldsOrder(p)
        /\ HoldsTransaction(p)' <=> HoldsTransaction(p)
        /\ HoldsBalance(p)' <=> HoldsBalance(p)
    BY <2>1 DEF HoldsOrder, HoldsTransaction, HoldsBalance, HasAllLocks
  <2>3. CASE NextLock(r)[1] = "order"
    <3>1. q.op \in OrderOps /\ q.held = 0 /\ Len(Program[q.op]) = 2
      BY <1>1, <2>3, NextRow, Programs
    <3>2. ~HoldsTransaction(r)' /\ ~HoldsBalance(r)' /\ q.op # "place"
      <4>1. req'[r].held = 1 /\ req'[r].op = q.op /\ Len(Program[req'[r].op]) = 2
        BY <1>2, <3>1
      <4>2. ~HoldsBalance(r)'
        BY <4>1, HalfWay
      <4> QED BY <3>1, <4>1, <4>2 DEF HoldsTransaction, OrderOps
    <3>3. ~(HoldsOrder(p) /\ q.order = req[p].order)
      BY <1>1, <2>3, NextRow, FreeRow
    <3> QED BY <1>2, <2>1, <2>2, <3>2, <3>3 DEF Apart
  <2>4. CASE NextLock(r)[1] = "transaction"
    <3>1. q.op = "topup" /\ q.held = 0 /\ Len(Program[q.op]) = 2
      BY <1>1, <2>4, NextRow, Programs
    <3>2. ~HoldsOrder(r)' /\ ~HoldsBalance(r)' /\ q.op # "place"
      <4>1. req'[r].held = 1 /\ req'[r].op = q.op /\ Len(Program[req'[r].op]) = 2
        BY <1>2, <3>1
      <4>2. ~HoldsBalance(r)'
        BY <4>1, HalfWay
      <4> QED BY <3>1, <4>1, <4>2 DEF HoldsOrder, OrderOps
    <3>3. ~(HoldsTransaction(p) /\ q.tx = req[p].tx)
      BY <1>1, <2>4, NextRow, FreeRow
    <3> QED BY <1>2, <2>1, <2>2, <3>2, <3>3 DEF Apart
  <2>5. CASE NextLock(r)[1] = "balance"
    <3>1. ~(HoldsBalance(p) /\ q.user = req[p].user)
      BY <1>1, <2>5, NextRow, FreeRow
    <3>2. HoldsOrder(r)' => HoldsOrder(r)
      <4>1. CASE q.op \in OrderOps
        <5>1. Len(Program[q.op]) = 2 /\ q.held + 1 = Len(Program[q.op])
          BY <1>1, <2>5, <4>1, NextRow, Programs
        <5> QED BY <1>1, <4>1, <5>1 DEF HoldsOrder
      <4> QED BY <1>2, <4>1 DEF HoldsOrder
    <3>3. HoldsTransaction(r)' => HoldsTransaction(r)
      <4>1. CASE q.op = "topup"
        <5>1. Len(Program[q.op]) = 2 /\ q.held + 1 = Len(Program[q.op])
          BY <1>1, <2>5, <4>1, NextRow, Programs
        <5> QED BY <1>1, <4>1, <5>1 DEF HoldsTransaction
      <4> QED BY <1>2, <4>1 DEF HoldsTransaction
    <3> QED BY <1>2, <2>1, <2>2, <3>1, <3>2, <3>3 DEF Apart
  <2> QED BY <2>3, <2>4, <2>5
<1> QED BY <1>1, <1>3, <1>4, <1>5, QuietMoveKeepsInv

\* The columns of a request that has locked one row more.
LEMMA WithRows ==
    ASSUME NEW q \in Serving, q.held \in {0, 1}
    PROVE  /\ \A s \in OrderStatus \cup TransactionStatus :
                LET row == WithStatus(q, s) IN
                /\ row \in Serving /\ row # Idle /\ row.held = q.held + 1 /\ row.status = s
                /\ row.op = q.op /\ row.order = q.order /\ row.user = q.user
                /\ row.menu = q.menu /\ row.amount = q.amount /\ row.tx = q.tx
           /\ \A c, h \in Int :
                LET row == WithBalance(q, c, h) IN
                /\ row \in Serving /\ row # Idle /\ row.held = q.held + 1
                /\ row.current = c /\ row.hold = h /\ row.status = q.status
                /\ row.op = q.op /\ row.order = q.order /\ row.user = q.user
                /\ row.menu = q.menu /\ row.amount = q.amount /\ row.tx = q.tx
<1>1. \A row \in Serving : row # Idle
  <2>1. Idle.op \notin Ops
    BY DEF Idle, Ops, OrderOps
  <2> QED BY <2>1 DEF Serving
<1>2. ASSUME NEW s \in OrderStatus \cup TransactionStatus
      PROVE  LET row == WithStatus(q, s) IN
             /\ row \in Serving /\ row.held = q.held + 1 /\ row.status = s
             /\ row.op = q.op /\ row.order = q.order /\ row.user = q.user
             /\ row.menu = q.menu /\ row.amount = q.amount /\ row.tx = q.tx
  <2> DEFINE row == WithStatus(q, s)
  <2>1. /\ row.held = q.held + 1 /\ row.status = s
        /\ row.op = q.op /\ row.order = q.order /\ row.user = q.user
        /\ row.menu = q.menu /\ row.amount = q.amount /\ row.tx = q.tx
    BY DEF WithStatus, Serving
  <2>2. row \in Serving
    <3>1. q.held + 1 \in {0, 1, 2}
      OBVIOUS
    <3> QED BY <3>1 DEF WithStatus, Serving
  <2> QED BY <2>1, <2>2
<1>3. ASSUME NEW c \in Int, NEW h \in Int
      PROVE  LET row == WithBalance(q, c, h) IN
             /\ row \in Serving /\ row.held = q.held + 1
             /\ row.current = c /\ row.hold = h /\ row.status = q.status
             /\ row.op = q.op /\ row.order = q.order /\ row.user = q.user
             /\ row.menu = q.menu /\ row.amount = q.amount /\ row.tx = q.tx
  <2> DEFINE row == WithBalance(q, c, h)
  <2>1. /\ row.held = q.held + 1 /\ row.status = q.status
        /\ row.current = c /\ row.hold = h
        /\ row.op = q.op /\ row.order = q.order /\ row.user = q.user
        /\ row.menu = q.menu /\ row.amount = q.amount /\ row.tx = q.tx
    BY DEF WithBalance, Serving
  <2>2. row \in Serving
    <3>1. q.held + 1 \in {0, 1, 2}
      OBVIOUS
    <3> QED BY <3>1 DEF WithBalance, Serving
  <2> QED BY <2>1, <2>2
<1> QED BY <1>1, <1>2, <1>3

\* Locking an order.
LEMMA LockOrderKeepsInv ==
    ASSUME RequestsInv, NEW r \in Requests, LockOrder(r)
    PROVE  RequestsInv'
<1> DEFINE q == req[r]
<1>1. /\ RequestsTyped /\ TypeOK /\ About(r) /\ r \in Busy /\ ~HasAllLocks(r)
      /\ q \in Serving /\ NextLock(r)[1] = "order" /\ Free(NextLock(r))
      /\ UNCHANGED <<vars, form>>
  BY BusyRows DEF LockOrder, RequestsInv, RequestsTyped, Busy
<1>2. /\ q.op \in OrderOps /\ q.held = 0 /\ Len(Program[q.op]) = 2
      /\ q.order \in Orders /\ orders[q.order] # Absent
  BY <1>1, NextRow, Programs DEF About
<1>3. PICK s \in OrderStatus : s = orders[q.order].status
  BY <1>1, <1>2, Rows DEF Order
<1>4. CASE s \in Accepts[q.op] /\ (q.op = "cancel" => q.menu \notin closed)
  <2>1. req' = [req EXCEPT ![r] = WithStatus(req[r], s)]
    BY <1>3, <1>4 DEF LockOrder
  <2>2. PICK row \in Serving :
           /\ row = WithStatus(req[r], s)
           /\ row # Idle /\ row.held = 1 /\ row.status = s
           /\ row.op = q.op /\ row.order = q.order /\ row.user = q.user
           /\ row.menu = q.menu /\ row.amount = q.amount /\ row.tx = q.tx
    BY <1>1, <1>2, WithRows
  <2>3. req'[r] = row
    BY <1>1, <2>1, <2>2 DEF RequestsTyped
  <2>4. Current(r)'
    <3>1. ~HoldsTransaction(r)' /\ ~HoldsBalance(r)'
      <4>1. ~HoldsBalance(r)'
        <5>1. req'[r].held = 1 /\ Len(Program[req'[r].op]) = 2
          BY <1>2, <2>2, <2>3
        <5> QED BY <5>1, HalfWay
      <4> QED BY <1>2, <2>2, <2>3, <4>1 DEF HoldsTransaction, OrderOps
    <3>2. req'[r].status = s /\ req'[r].order = q.order /\ req'[r].op = q.op /\ req'[r].tx = q.tx
      BY <2>2, <2>3
    <3>3. UNCHANGED <<orders, transactions>>
      BY <1>1 DEF vars
    <3> QED BY <1>3, <1>4, <3>1, <3>2, <3>3 DEF Current
  <2>5. req' = [req EXCEPT ![r] = row] /\ row.held = req[r].held + 1
    BY <1>2, <2>1, <2>2
  <2> QED BY <1>1, <2>2, <2>4, <2>5, LockKeepsInv
<1>5. CASE ~(s \in Accepts[q.op] /\ (q.op = "cancel" => q.menu \notin closed))
  BY <1>1, <1>3, <1>5, FinishKeepsInv DEF LockOrder
<1> QED BY <1>4, <1>5

\* Locking a row of transaction.
LEMMA LockTransactionKeepsInv ==
    ASSUME RequestsInv, NEW r \in Requests, LockTransaction(r)
    PROVE  RequestsInv'
<1> DEFINE q == req[r]
<1>1. /\ RequestsTyped /\ TypeOK /\ About(r) /\ r \in Busy /\ ~HasAllLocks(r)
      /\ q \in Serving /\ NextLock(r)[1] = "transaction" /\ Free(NextLock(r))
      /\ UNCHANGED <<vars, form>>
  BY BusyRows DEF LockTransaction, RequestsInv, RequestsTyped, Busy
<1>2. /\ q.op = "topup" /\ q.held = 0 /\ Len(Program[q.op]) = 2
      /\ q.tx \in DOMAIN transactions
  BY <1>1, NextRow, Programs DEF About
<1>3. PICK s \in TransactionStatus : s = transactions[q.tx].status
  BY <1>1, <1>2, Rows DEF Transaction
<1>4. CASE s # "completed"
  <2>1. req' = [req EXCEPT ![r] = WithStatus(req[r], s)]
    BY <1>3, <1>4 DEF LockTransaction
  <2>2. PICK row \in Serving :
           /\ row = WithStatus(req[r], s)
           /\ row # Idle /\ row.held = 1 /\ row.status = s
           /\ row.op = q.op /\ row.order = q.order /\ row.user = q.user
           /\ row.menu = q.menu /\ row.amount = q.amount /\ row.tx = q.tx
    BY <1>1, <1>2, WithRows
  <2>3. req'[r] = row
    BY <1>1, <2>1, <2>2 DEF RequestsTyped
  <2>4. Current(r)'
    <3>1. ~HoldsOrder(r)' /\ ~HoldsBalance(r)'
      <4>1. ~HoldsBalance(r)'
        <5>1. req'[r].held = 1 /\ Len(Program[req'[r].op]) = 2
          BY <1>2, <2>2, <2>3
        <5> QED BY <5>1, HalfWay
      <4> QED BY <1>2, <2>2, <2>3, <4>1 DEF HoldsOrder, OrderOps
    <3>2. req'[r].status = s /\ req'[r].order = q.order /\ req'[r].op = q.op /\ req'[r].tx = q.tx
      BY <2>2, <2>3
    <3>3. UNCHANGED <<orders, transactions>>
      BY <1>1 DEF vars
    <3> QED BY <1>3, <1>4, <3>1, <3>2, <3>3 DEF Current
  <2>5. req' = [req EXCEPT ![r] = row] /\ row.held = req[r].held + 1
    BY <1>2, <2>1, <2>2
  <2> QED BY <1>1, <2>2, <2>4, <2>5, LockKeepsInv
<1>5. CASE s = "completed"
  BY <1>1, <1>3, <1>5, FinishKeepsInv DEF LockTransaction
<1> QED BY <1>4, <1>5

\* Locking a balance.
LEMMA LockBalanceKeepsInv ==
    ASSUME RequestsInv, NEW r \in Requests, LockBalance(r)
    PROVE  RequestsInv'
<1> DEFINE q == req[r]
<1>1. /\ RequestsTyped /\ TypeOK /\ Current(r) /\ r \in Busy /\ ~HasAllLocks(r)
      /\ q \in Serving /\ NextLock(r)[1] = "balance" /\ Free(NextLock(r))
      /\ UNCHANGED <<vars, form>>
  BY BusyRows DEF LockBalance, RequestsInv, RequestsTyped, Busy
<1>2. q.held + 1 = Len(Program[q.op]) /\ q.op \in Ops
  BY <1>1, NextRow DEF Serving
<1>3. q.held \in {0, 1}
  <2>1. Len(Program[q.op]) \in {1, 2}
    BY <1>2, Programs DEF Ops
  <2>2. q.held \in {0, 1, 2}
    BY <1>1 DEF Serving
  <2>3. q.held # 2
    <3>1. q.held = 2 => Len(Program[q.op]) = 3
      BY <1>2
    <3> QED BY <2>1, <3>1
  <2> QED BY <2>2, <2>3
<1>4. PICK c \in Int, h \in Int : c = current_balance[q.user] /\ h = on_hold[q.user]
  BY <1>1 DEF TypeOK, Serving
<1>5. req' = [req EXCEPT ![r] = WithBalance(req[r], c, h)]
  BY <1>4 DEF LockBalance
<1>6. PICK row \in Serving :
         /\ row = WithBalance(req[r], c, h)
         /\ row # Idle /\ row.held = q.held + 1
         /\ row.current = c /\ row.hold = h /\ row.status = q.status
         /\ row.op = q.op /\ row.order = q.order /\ row.user = q.user
         /\ row.menu = q.menu /\ row.amount = q.amount /\ row.tx = q.tx
  BY <1>1, <1>3, <1>4, WithRows
<1>7. req'[r] = row
  BY <1>1, <1>5, <1>6 DEF RequestsTyped
<1>8. Current(r)'
  <2>1. HoldsOrder(r)' => HoldsOrder(r)
    <3>1. CASE q.op \in OrderOps
      <4>1. Len(Program[q.op]) = 2
        BY <3>1, Programs
      <4> QED BY <1>2, <1>3, <3>1, <4>1 DEF HoldsOrder
    <3> QED BY <1>6, <1>7, <3>1 DEF HoldsOrder
  <2>2. HoldsTransaction(r)' => HoldsTransaction(r)
    <3>1. CASE q.op = "topup"
      <4>1. Len(Program[q.op]) = 2
        BY <3>1, Programs
      <4> QED BY <1>2, <1>3, <3>1, <4>1 DEF HoldsTransaction
    <3> QED BY <1>6, <1>7, <3>1 DEF HoldsTransaction
  <2> QED BY <1>1, <1>4, <1>6, <1>7, <2>1, <2>2 DEF Current, vars
<1> QED BY <1>1, <1>5, <1>6, <1>8, LockKeepsInv

-----------------------------------------------------------------------------
(* A request commits.                                                      *)

\* The service function of a request, in one step.
Service(q) ==
    \/ q.op = "deposit" /\ q.amount \in Deposits /\ Deposit(q.user, q.amount)
    \/ /\ q.op = "place" /\ q.order \in Orders /\ q.menu \in Menus /\ q.amount \in OrderTotals
       /\ PlaceOrder(q.user, q.order, q.menu, q.amount)
    \/ /\ q.op = "capture" /\ q.order \in Orders /\ q.user = orders[q.order].user
       /\ CaptureHeld(q.order) \/ CapturePending(q.order)
    \/ /\ q.op = "refund" /\ q.order \in Orders /\ q.user = orders[q.order].user
       /\ Refund(q.order)
    \/ /\ q.op = "cancel" /\ q.order \in Orders /\ q.user = orders[q.order].user
       /\ LateCancel(q.order)
    \/ /\ q.op = "topup" /\ q.tx \in DOMAIN transactions /\ q.user = transactions[q.tx].user
       /\ CompleteTopUp(q.tx)

\* What a request decided on is so: its commit is the service in one step.
LEMMA CommitServes ==
    ASSUME RequestsInv, NEW r \in Requests, Commit(r)
    PROVE  Service(req[r])
<1> DEFINE q == req[r]
<1>1. /\ RequestsTyped /\ TypeOK /\ r \in Busy /\ About(r) /\ Current(r)
      /\ HoldsBalance(r) /\ q \in Serving /\ q.op \in Ops
  BY BusyRows DEF Commit, RequestsInv, RequestsTyped, Busy, HoldsBalance
<1>2. q.current = current_balance[q.user] /\ q.hold = on_hold[q.user] /\ q.user \in Users
  BY <1>1 DEF Current, Serving
<1>3. q.op \in OrderOps =>
         /\ q.order \in Orders /\ q.user = orders[q.order].user
         /\ q.amount = orders[q.order].total_amount
         /\ q.status = orders[q.order].status /\ q.status \in Accepts[q.op]
  <2> SUFFICES ASSUME q.op \in OrderOps
               PROVE  /\ q.order \in Orders /\ q.user = orders[q.order].user
                      /\ q.amount = orders[q.order].total_amount
                      /\ q.status = orders[q.order].status /\ q.status \in Accepts[q.op]
    OBVIOUS
  <2>1. q.held = Len(Program[q.op]) /\ Len(Program[q.op]) = 2
    BY <1>1, Programs DEF HoldsBalance, HasAllLocks
  <2>2. HoldsOrder(r)
    BY <2>1 DEF HoldsOrder
  <2> QED BY <1>1, <2>2 DEF About, Current
<1>4. CASE q.op = "deposit"
  <2>1. Deposit(q.user, q.amount) /\ q.amount \in Deposits
    BY <1>1, <1>4 DEF Commit, Writes, About
  <2> QED BY <1>4, <2>1 DEF Service
<1>5. CASE q.op = "place"
  <2>1. InsertWithHold(q.user, q.order, q.menu, q.amount) /\ q.current - q.hold >= q.amount
    BY <1>5 DEF Commit, Writes, FundsSuffice
  <2>2. /\ q.order \in Orders /\ q.menu \in Menus /\ q.amount \in OrderTotals
        /\ orders[q.order] = Absent
    BY <1>1, <1>5 DEF About
  <2> QED BY <1>2, <1>5, <2>1, <2>2 DEF Service, PlaceOrder
<1>6. CASE q.op = "capture"
  <2>1. q.status \in {"preparing", "confirmed", "pending"}
    BY <1>3, <1>6 DEF Accepts, OrderOps
  <2>2. CASE q.status = "pending"
    <3>1. Settle(q.order) /\ UNCHANGED on_hold /\ PendingHolds(q.order) # {}
      BY <1>6, <2>2 DEF Commit, Writes, FundsSuffice
    <3>2. q.current >= q.amount
      BY <1>6, <2>2 DEF Commit, FundsSuffice
    <3>3. CapturePending(q.order)
      BY <1>2, <1>3, <1>6, <2>2, <3>1, <3>2 DEF CapturePending, OrderOps
    <3> QED BY <1>3, <1>6, <3>3 DEF Service, OrderOps
  <2>3. CASE q.status # "pending"
    <3>1. SettleFromHold(q.order)
      BY <1>6, <2>3 DEF Commit, Writes
    <3>2. q.hold >= q.amount
      BY <1>6, <2>3 DEF Commit, FundsSuffice
    <3>3. CaptureHeld(q.order)
      BY <1>2, <1>3, <1>6, <2>1, <2>3, <3>1, <3>2 DEF CaptureHeld, OrderOps
    <3> QED BY <1>3, <1>6, <3>3 DEF Service, OrderOps
  <2> QED BY <2>2, <2>3
<1>7. CASE q.op = "refund"
  <2>1. ReturnMoney(q.order)
    BY <1>7 DEF Commit, Writes
  <2>2. Refund(q.order)
    BY <1>3, <1>7, <2>1 DEF Refund, Accepts, OrderOps
  <2> QED BY <1>3, <1>7, <2>2 DEF Service, OrderOps
<1>8. CASE q.op = "cancel"
  <2>1. ReleaseHold(q.order)
    BY <1>8 DEF Commit, Writes
  <2>2. q.hold >= q.amount
    BY <1>8 DEF Commit, FundsSuffice
  <2>3. LateCancel(q.order)
    BY <1>2, <1>3, <1>8, <2>1, <2>2 DEF LateCancel, Accepts, OrderOps
  <2> QED BY <1>3, <1>8, <2>3 DEF Service, OrderOps
<1>9. CASE q.op = "topup"
  <2>1. q.held = Len(Program[q.op]) /\ Len(Program[q.op]) = 2
    BY <1>1, <1>9, Programs DEF HoldsBalance, HasAllLocks
  <2>2. HoldsTransaction(r)
    BY <1>9, <2>1 DEF HoldsTransaction
  <2>3. /\ q.tx \in DOMAIN transactions /\ transactions[q.tx].type = "deposit"
        /\ q.user = transactions[q.tx].user /\ transactions[q.tx].status # "completed"
    BY <1>1, <1>9, <2>2 DEF About, Current
  <2>4. CreditTopUp(q.tx)
    BY <1>9 DEF Commit, Writes
  <2> QED BY <1>9, <2>3, <2>4 DEF Service, CompleteTopUp
<1> QED BY <1>1, <1>4, <1>5, <1>6, <1>7, <1>8, <1>9 DEF Ops, OrderOps

\* What a step touches: the status of order o, or its row when it is inserted;
\* the balance of user u; the status of DEPOSIT i.
Touches(o, u, i) ==
    /\ \A x \in Orders : x # o => orders'[x] = orders[x]
    /\ \A x \in Orders : orders[x] # Absent =>
          /\ orders'[x] # Absent
          /\ orders'[x].user = orders[x].user
          /\ orders'[x].total_amount = orders[x].total_amount
    /\ \A v \in Users : v # u => /\ current_balance'[v] = current_balance[v]
                                 /\ on_hold'[v] = on_hold[v]
    /\ \A j \in DOMAIN transactions : transactions[j].type = "deposit" =>
          /\ j \in DOMAIN transactions'
          /\ transactions'[j].type = "deposit"
          /\ transactions'[j].user = transactions[j].user
          /\ transactions'[j].amount = transactions[j].amount
          /\ j # i => transactions'[j].status = transactions[j].status

\* The other columns of an order whose status moved.
LEMMA StatusTouches ==
    ASSUME TypeOK, NEW o \in Orders, orders[o] # Absent, NEW s \in OrderStatus,
           SetStatus(o, s)
    PROVE  /\ \A x \in Orders : x # o => orders'[x] = orders[x]
           /\ \A x \in Orders : orders[x] # Absent =>
                 /\ orders'[x] # Absent
                 /\ orders'[x].user = orders[x].user
                 /\ orders'[x].total_amount = orders[x].total_amount
<1>1. orders[o].status \in OrderStatus
  BY Rows DEF Order
<1>2. /\ orders'[o].status = s
      /\ orders'[o].user = orders[o].user
      /\ orders'[o].total_amount = orders[o].total_amount
      /\ \A x \in Orders \ {o} : orders'[x] = orders[x]
  BY <1>1, SetStatusEffect
<1>3. orders'[o] # Absent
  BY <1>2 DEF Absent, OrderStatus
<1> QED BY <1>2, <1>3

\* Inserting a row touches no other row.
LEMMA InsertTouches ==
    ASSUME NEW u, NEW o, NEW type, NEW a, NEW s, NEW m, Inserts(u, o, type, a, s, m)
    PROVE  \A j \in DOMAIN transactions :
              j \in DOMAIN transactions' /\ transactions'[j] = transactions[j]
BY DEF Inserts, WritesRow

\* Updating a row keeps what it is about, and touches no other row.
LEMMA UpdateTouches ==
    ASSUME NEW k, NEW type, NEW s, NEW m, Updates(k, type, s, m)
    PROVE  /\ DOMAIN transactions' = DOMAIN transactions
           /\ \A j \in DOMAIN transactions : j # k => transactions'[j] = transactions[j]
           /\ transactions'[k].type = type
           /\ transactions'[k].user = transactions[k].user
           /\ transactions'[k].amount = transactions[k].amount
BY DEF Updates, WritesRow

\* A service keeps the types and touches the rows the request is about.
LEMMA ServiceTouches ==
    ASSUME TypeOK, NEW q, q.user \in Users, Service(q)
    PROVE  /\ TypeOK'
           /\ \/ q.op \in OrderOps \cup {"place"} /\ Touches(q.order, q.user, 0)
              \/ q.op = "deposit" /\ Touches(NoOrder, q.user, 0)
              \/ q.op = "topup" /\ Touches(NoOrder, q.user, q.tx)
<1>1. CASE q.op = "deposit" /\ q.amount \in Deposits /\ Deposit(q.user, q.amount)
  <2>1. TypeOK'
    BY <1>1, TypeStep DEF Next
  <2>2. \A j \in DOMAIN transactions :
           j \in DOMAIN transactions' /\ transactions'[j] = transactions[j]
    BY <1>1, DepositWrites, InsertTouches, AmountsAssumption
  <2>3. UNCHANGED <<orders, on_hold>>
    BY <1>1 DEF Deposit
  <2>4. \A v \in Users : v # q.user => current_balance'[v] = current_balance[v]
    BY <1>1 DEF Deposit, Credit, TypeOK
  <2> QED BY <1>1, <2>1, <2>2, <2>3, <2>4 DEF Touches
<1>2. CASE /\ q.op = "place" /\ q.order \in Orders /\ q.menu \in Menus
           /\ q.amount \in OrderTotals /\ PlaceOrder(q.user, q.order, q.menu, q.amount)
  <2>1. TypeOK'
    BY <1>2, TypeStep DEF Next
  <2>2. InsertWithHold(q.user, q.order, q.menu, q.amount) /\ orders[q.order] = Absent
    BY <1>2 DEF PlaceOrder
  <2>3. \A j \in DOMAIN transactions :
           j \in DOMAIN transactions' /\ transactions'[j] = transactions[j]
    BY <1>2, <2>2, InsertWrites, InsertTouches, AmountsAssumption
  <2>4. /\ \A x \in Orders : x # q.order => orders'[x] = orders[x]
        /\ UNCHANGED current_balance
        /\ \A v \in Users : v # q.user => on_hold'[v] = on_hold[v]
    BY <2>2 DEF InsertWithHold, TypeOK
  <2> QED BY <1>2, <2>1, <2>2, <2>3, <2>4 DEF Touches
<1>3. CASE /\ q.op = "capture" /\ q.order \in Orders /\ q.user = orders[q.order].user
           /\ CaptureHeld(q.order) \/ CapturePending(q.order)
  <2>1. TypeOK'
    BY <1>3, TypeStep DEF Next
  <2>2. Settle(q.order) /\ orders[q.order].status \in OrderStatus
    BY <1>3 DEF CaptureHeld, CapturePending, SettleFromHold, OrderStatus
  <2>3. orders[q.order] # Absent /\ SetStatus(q.order, "paid") /\ "paid" \in OrderStatus
    BY <1>3, <2>2, Inserted DEF Settle, OrderStatus
  <2>4. \A v \in Users : v # q.user => /\ current_balance'[v] = current_balance[v]
                                       /\ on_hold'[v] = on_hold[v]
    BY <1>3, <2>2 DEF CaptureHeld, CapturePending, SettleFromHold, Settle, TypeOK
  <2>5. \A j \in DOMAIN transactions : transactions[j].type = "deposit" =>
           j \in DOMAIN transactions' /\ transactions'[j] = transactions[j]
    <3>1. CASE \E k \in PendingHolds(q.order) :
                  Updates(k, "payment", "completed", current_balance'[orders[q.order].user])
      <4>1. \A k \in PendingHolds(q.order) : transactions[k].type = "hold"
        BY DEF PendingHolds
      <4> QED BY <3>1, <4>1, UpdateTouches
    <3>2. CASE Inserts(orders[q.order].user, q.order, "payment",
                       orders[q.order].total_amount, "completed",
                       current_balance'[orders[q.order].user])
      BY <3>2, InsertTouches
    <3> QED BY <1>3, <2>2, <3>1, <3>2, SettleWrites
  <2> QED BY <1>3, <2>1, <2>3, <2>4, <2>5, StatusTouches DEF Touches, OrderOps
<1>4. CASE /\ q.op = "refund" /\ q.order \in Orders /\ q.user = orders[q.order].user
           /\ Refund(q.order)
  <2>1. TypeOK'
    BY <1>4, TypeStep DEF Next
  <2>2. ReturnMoney(q.order) /\ orders[q.order].status \in OrderStatus
    BY <1>4 DEF Refund, OrderStatus
  <2>3. /\ orders[q.order] # Absent /\ SetStatus(q.order, "cancelled")
        /\ "cancelled" \in OrderStatus
    BY <1>4, <2>2, Inserted DEF ReturnMoney, OrderStatus
  <2>4. \A v \in Users : v # q.user => /\ current_balance'[v] = current_balance[v]
                                       /\ on_hold'[v] = on_hold[v]
    BY <1>4, <2>2 DEF ReturnMoney, Credit, TypeOK
  <2>5. \A j \in DOMAIN transactions :
           j \in DOMAIN transactions' /\ transactions'[j] = transactions[j]
    BY <1>4, <2>2, ReturnWrites, InsertTouches
  <2> QED BY <1>4, <2>1, <2>3, <2>4, <2>5, StatusTouches DEF Touches, OrderOps
<1>5. CASE /\ q.op = "cancel" /\ q.order \in Orders /\ q.user = orders[q.order].user
           /\ LateCancel(q.order)
  <2>1. ReleaseHold(q.order) /\ orders[q.order].status \in OrderStatus
    BY <1>5 DEF LateCancel, OrderStatus
  <2>2. /\ orders[q.order] # Absent /\ orders[q.order] \in Order
        /\ SetStatus(q.order, "cancelled") /\ "cancelled" \in OrderStatus
    BY <1>5, <2>1, Inserted DEF ReleaseHold, OrderStatus
  <2>3. TypeOK'
    BY <1>5, <2>1, <2>2, ReleaseType DEF LateCancel
  <2>4. \A v \in Users : v # q.user => /\ current_balance'[v] = current_balance[v]
                                       /\ on_hold'[v] = on_hold[v]
    BY <1>5, <2>1 DEF ReleaseHold, TypeOK
  <2>5. \A j \in DOMAIN transactions : transactions[j].type = "deposit" =>
           j \in DOMAIN transactions' /\ transactions'[j] = transactions[j]
    <3>1. CASE \E k \in PendingHolds(q.order) :
                  Updates(k, "hold", "cancelled", transactions[k].remaining_balance)
      <4>1. \A k \in PendingHolds(q.order) : transactions[k].type = "hold"
        BY DEF PendingHolds
      <4> QED BY <3>1, <4>1, UpdateTouches
    <3>2. CASE UNCHANGED transactions
      BY <3>2
    <3> QED BY <1>5, <2>1, <3>1, <3>2, ReleaseWrites
  <2> QED BY <1>5, <2>2, <2>3, <2>4, <2>5, StatusTouches DEF Touches, OrderOps
<1>6. CASE /\ q.op = "topup" /\ q.tx \in DOMAIN transactions
           /\ q.user = transactions[q.tx].user /\ CompleteTopUp(q.tx)
  <2>1. TypeOK'
    BY <1>6, TypeStep DEF Next
  <2>2. CreditTopUp(q.tx) /\ transactions[q.tx].type = "deposit"
    BY <1>6 DEF CompleteTopUp
  <2>3. UNCHANGED <<orders, on_hold>>
    BY <2>2 DEF CreditTopUp
  <2>4. \A v \in Users : v # q.user => current_balance'[v] = current_balance[v]
    BY <1>6, <2>2 DEF CreditTopUp, Credit, TypeOK
  <2>5. Updates(q.tx, "deposit", "completed", current_balance'[transactions[q.tx].user])
    BY <1>6, <2>2, TopUpWrites
  <2>6. /\ DOMAIN transactions' = DOMAIN transactions
        /\ \A j \in DOMAIN transactions : j # q.tx => transactions'[j] = transactions[j]
        /\ transactions'[q.tx].type = "deposit"
        /\ transactions'[q.tx].user = transactions[q.tx].user
        /\ transactions'[q.tx].amount = transactions[q.tx].amount
    BY <2>5, UpdateTouches
  <2>7. Touches(NoOrder, q.user, q.tx)
    BY <2>3, <2>4, <2>6 DEF Touches
  <2> QED BY <1>6, <2>1, <2>7
<1> QED BY <1>1, <1>2, <1>3, <1>4, <1>5, <1>6 DEF Service

\* A request that has not locked what a step touches, nor places the order the
\* step is about, is about what it was about and reads what is so.
LEMMA Untouched ==
    ASSUME RequestsInv, NEW p \in Busy, req'[p] = req[p],
           NEW o \in Orders \cup {NoOrder}, NEW u, NEW i, Touches(o, u, i),
           HoldsOrder(p) => req[p].order # o,
           req[p].op = "place" => req[p].order # o,
           HoldsTransaction(p) => req[p].tx # i,
           HoldsBalance(p) => req[p].user # u
    PROVE  About(p)' /\ Current(p)'
<1> DEFINE q == req[p]
<1>1. /\ About(p) /\ Current(p) /\ q.user \in Users
      /\ HoldsTransaction(p) => q.op = "topup"
      /\ HoldsOrder(p) => q.op \in OrderOps
  <2>1. p \in Requests /\ RequestsTyped /\ About(p) /\ Current(p)
    BY DEF RequestsInv, Busy
  <2>2. q.user \in Users
    BY <2>1, BusyRows DEF Serving
  <2> QED BY <2>1, <2>2 DEF HoldsTransaction, HoldsOrder
<1>2. /\ HoldsOrder(p)' <=> HoldsOrder(p)
      /\ HoldsTransaction(p)' <=> HoldsTransaction(p)
      /\ HoldsBalance(p)' <=> HoldsBalance(p)
  BY DEF HoldsOrder, HoldsTransaction, HoldsBalance, HasAllLocks
<1>3. About(p)'
  <2>1. q.op = "deposit" => q.amount \in Deposits /\ q.amount > 0
    BY <1>1 DEF About
  <2>2. q.op = "place" => /\ q.order \in Orders /\ orders'[q.order] = Absent
                          /\ q.menu \in Menus /\ q.amount \in OrderTotals
    BY <1>1 DEF About, Touches
  <2>3. q.op \in OrderOps => /\ q.order \in Orders /\ orders'[q.order] # Absent
                             /\ q.user = orders'[q.order].user
                             /\ q.amount = orders'[q.order].total_amount
    BY <1>1 DEF About, Touches
  <2>4. q.op = "topup" => /\ q.tx \in DOMAIN transactions'
                          /\ transactions'[q.tx].type = "deposit"
                          /\ q.user = transactions'[q.tx].user
                          /\ q.amount = transactions'[q.tx].amount
    BY <1>1 DEF About, Touches
  <2> QED BY <2>1, <2>2, <2>3, <2>4 DEF About
<1>4. Current(p)'
  <2>1. HoldsOrder(p) => q.status = orders'[q.order].status /\ q.status \in Accepts[q.op]
    BY <1>1 DEF About, Current, Touches
  <2>2. HoldsTransaction(p) => /\ q.status = transactions'[q.tx].status
                               /\ q.status # "completed"
    BY <1>1 DEF About, Current, Touches
  <2>3. HoldsBalance(p) => q.current = current_balance'[q.user] /\ q.hold = on_hold'[q.user]
    BY <1>1 DEF Current, Touches
  <2> QED BY <1>2, <2>1, <2>2, <2>3 DEF Current
<1> QED BY <1>3, <1>4

\* The open forms are on orders that were inserted.
LEMMA FormsStay ==
    ASSUME RequestsInv, NEW o, NEW u, NEW i, Touches(o, u, i), UNCHANGED form
    PROVE  FormsTyped'
BY DEF RequestsInv, FormsTyped, Touches

\* A commit touches what its request has locked.
LEMMA CommitKeepsInv ==
    ASSUME RequestsInv, NEW r \in Requests, Commit(r)
    PROVE  RequestsInv'
<1> DEFINE q == req[r]
<1>1. /\ RequestsTyped /\ TypeOK /\ r \in Busy /\ About(r) /\ q \in Serving
      /\ q.user \in Users /\ HoldsBalance(r)
  BY BusyRows DEF Commit, RequestsInv, RequestsTyped, Busy, Serving, HoldsBalance
<1>2. Service(q)
  BY CommitServes
<1>3. /\ TypeOK'
      /\ \/ q.op \in OrderOps \cup {"place"} /\ Touches(q.order, q.user, 0)
         \/ q.op = "deposit" /\ Touches(NoOrder, q.user, 0)
         \/ q.op = "topup" /\ Touches(NoOrder, q.user, q.tx)
  BY <1>1, <1>2, ServiceTouches
<1>4. FormsTyped'
  BY <1>3, FormsStay DEF Commit
<1>5. req' = [req EXCEPT ![r] = Idle]
  BY DEF Commit, Finish
<1>6. ASSUME NEW p \in Busy \ {r} PROVE About(p)' /\ Current(p)'
  <2>1. req'[p] = req[p] /\ Apart(r, p) /\ About(p)
    BY <1>1, <1>5 DEF RequestsInv, RequestsTyped, Busy
  <2>2. HoldsBalance(p) => req[p].user # q.user
    BY <1>1, <2>1 DEF Apart
  <2>3. /\ HoldsOrder(p) => req[p].op \in OrderOps
        /\ HoldsTransaction(p) => req[p].op = "topup"
    BY DEF HoldsOrder, HoldsTransaction
  <2>4. HoldsTransaction(p) => req[p].tx # 0
    <3>1. 0 \notin DOMAIN transactions
      BY <1>1, LenProperties DEF TypeOK
    <3> QED BY <2>1, <2>3, <3>1 DEF About
  <2>5. HoldsOrder(p) \/ req[p].op = "place" => req[p].order # NoOrder
    BY <2>1, <2>3, OrdersAssumption DEF About
  <2>6. CASE q.op \in OrderOps
    <3>1. q.held = Len(Program[q.op]) /\ Len(Program[q.op]) = 2
      BY <1>1, <2>6, Programs DEF HoldsBalance, HasAllLocks
    <3>2. HoldsOrder(r) /\ q.order \in Orders /\ orders[q.order] # Absent
      BY <1>1, <2>6, <3>1 DEF HoldsOrder, About
    <3>3. HoldsOrder(p) => req[p].order # q.order
      BY <2>1, <3>2 DEF Apart
    <3>4. req[p].op = "place" => req[p].order # q.order
      BY <2>1, <3>2 DEF About
    <3>5. Touches(q.order, q.user, 0)
      BY <1>3, <2>6 DEF OrderOps
    <3> QED BY <2>1, <2>2, <2>4, <3>2, <3>3, <3>4, <3>5, Untouched
  <2>7. CASE q.op = "place"
    <3>1. q.order \in Orders /\ orders[q.order] = Absent
      BY <1>1, <2>7 DEF About
    <3>2. HoldsOrder(p) => req[p].order # q.order
      BY <2>1, <2>3, <3>1 DEF About
    <3>3. req[p].op = "place" => req[p].order # q.order
      BY <2>1, <2>7 DEF Apart
    <3>4. Touches(q.order, q.user, 0)
      BY <1>3, <2>7
    <3> QED BY <2>1, <2>2, <2>4, <3>1, <3>2, <3>3, <3>4, Untouched
  <2>8. CASE q.op = "deposit"
    <3>1. Touches(NoOrder, q.user, 0)
      BY <1>3, <2>8 DEF OrderOps
    <3> QED BY <2>1, <2>2, <2>4, <2>5, <3>1, Untouched
  <2>9. CASE q.op = "topup"
    <3>1. q.held = Len(Program[q.op]) /\ Len(Program[q.op]) = 2
      BY <1>1, <2>9, Programs DEF HoldsBalance, HasAllLocks
    <3>2. HoldsTransaction(r)
      BY <2>9, <3>1 DEF HoldsTransaction
    <3>3. HoldsTransaction(p) => req[p].tx # q.tx
      BY <2>1, <3>2 DEF Apart
    <3>4. Touches(NoOrder, q.user, q.tx)
      BY <1>3, <2>9 DEF OrderOps
    <3> QED BY <2>1, <2>2, <2>5, <3>3, <3>4, Untouched
  <2> QED BY <1>3, <2>6, <2>7, <2>8, <2>9
<1> QED BY <1>3, <1>4, <1>5, <1>6, MoveKeepsInv

-----------------------------------------------------------------------------
(* The other steps.                                                        *)

\* The invariant when no request moved.
LEMMA StillKeepsInv ==
    ASSUME RequestsInv, UNCHANGED req, TypeOK', FormsTyped',
           \A p \in Busy : About(p)' /\ Current(p)'
    PROVE  RequestsInv'
<1>1. RequestsTyped' /\ Busy' = Busy
  BY DEF RequestsInv, RequestsTyped, Busy
<1>2. \A p, q \in Busy : Apart(p, q)' <=> Apart(p, q)
  BY DEF Apart, HoldsOrder, HoldsTransaction, HoldsBalance, HasAllLocks
<1> QED BY <1>1, <1>2 DEF RequestsInv

\* A checkout inserts a row no request is about.
LEMMA CheckoutKeepsInv ==
    ASSUME RequestsInv, NEW u \in Users, NEW a \in TopUps, Checkout(u, a)
    PROVE  RequestsInv'
<1>1. /\ TypeOK /\ CreateCheckout(u, a) /\ UNCHANGED <<req, form>>
      /\ UNCHANGED <<orders, current_balance, on_hold>>
  BY DEF RequestsInv, RequestsTyped, Checkout, CreateCheckout
<1>2. \A j \in DOMAIN transactions :
         j \in DOMAIN transactions' /\ transactions'[j] = transactions[j]
  BY <1>1, CheckoutWrites, InsertTouches
<1>3. \A v, i : Touches(NoOrder, v, i)
  BY <1>1, <1>2 DEF Touches
<1>4. TypeOK' /\ FormsTyped'
  BY <1>1, <1>3, CheckoutType, FormsStay
<1>5. ASSUME NEW p \in Busy PROVE About(p)' /\ Current(p)'
  <2>1. PICK v, i : v # req[p].user /\ i # req[p].tx
    OBVIOUS
  <2>2. /\ HoldsOrder(p) => req[p].order # NoOrder
        /\ req[p].op = "place" => req[p].order # NoOrder
    BY OrdersAssumption DEF RequestsInv, About, HoldsOrder
  <2> QED BY <1>1, <1>3, <2>1, <2>2, Untouched
<1> QED BY <1>1, <1>4, <1>5, StillKeepsInv

\* The page saves a form while nobody has locked its order.
LEMMA AdminSaveKeepsInv ==
    ASSUME RequestsInv, NEW o \in Orders, AdminSave(o)
    PROVE  RequestsInv'
<1>1. /\ TypeOK /\ RequestsTyped /\ FormsTyped
      /\ UNCHANGED <<current_balance, on_hold, transactions, closed, req>>
      /\ orders[o] # Absent /\ orders[o] \in Order /\ Free(<<"order", o>>)
      /\ form' = [form EXCEPT ![o] = NoForm]
  BY Rows DEF RequestsInv, RequestsTyped, FormsTyped, AdminSave
<1>2. PICK s \in OrderStatus : SetStatus(o, s)
  BY DEF AdminSave
<1>3. TypeOK'
  BY <1>1, <1>2, SetStatusType DEF TypeOK
<1>4. \A v, i : Touches(o, v, i)
  <2>1. \A j \in DOMAIN transactions : j \in DOMAIN transactions' /\ transactions'[j] = transactions[j]
    BY <1>1
  <2> QED BY <1>1, <1>2, <2>1, StatusTouches DEF Touches
<1>5. FormsTyped'
  BY <1>1, <1>4 DEF FormsTyped, Touches
<1>6. ASSUME NEW p \in Busy PROVE About(p)' /\ Current(p)'
  <2>1. PICK v, i : v # req[p].user /\ i # req[p].tx
    OBVIOUS
  <2>2. HoldsOrder(p) => req[p].order # o
    BY <1>1, FreeRow
  <2>3. req[p].op = "place" => req[p].order # o
    BY <1>1 DEF RequestsInv, About
  <2> QED BY <1>1, <1>4, <2>1, <2>2, <2>3, Untouched
<1> QED BY <1>1, <1>3, <1>5, <1>6, StillKeepsInv

\* The page opens a form, and the clock goes by: no row of the tables changes.
LEMMA QuietStepKeepsInv ==
    ASSUME RequestsInv, TypeOK', FormsTyped',
           UNCHANGED <<orders, current_balance, on_hold, transactions, req>>
    PROVE  RequestsInv'
<1>1. ASSUME NEW p \in Busy PROVE About(p)' /\ Current(p)'
  BY DEF RequestsInv, About, Current, HoldsOrder, HoldsTransaction, HoldsBalance, HasAllLocks
<1> QED BY <1>1, StillKeepsInv

\* No request holds, reads or is about anything at first.
LEMMA RequestsInit == RInit => RequestsInv
<1> SUFFICES ASSUME RInit PROVE RequestsInv
  OBVIOUS
<1>1. TypeOK /\ Busy = {} /\ req \in [Requests -> Serving \cup {Idle}]
  BY TypeInit DEF RInit, Busy
<1>2. FormsTyped
  BY DEF RInit, FormsTyped
<1> QED BY <1>1, <1>2 DEF RequestsInv, RequestsTyped

\* Every step keeps the invariant.
LEMMA RequestsStep == RequestsInv /\ [RNext]_rvars => RequestsInv'
<1> SUFFICES ASSUME RequestsInv, [RNext]_rvars PROVE RequestsInv'
  OBVIOUS
<1>1. ASSUME NEW r \in Requests, Begin(r) PROVE RequestsInv'
  BY <1>1, BeginKeepsInv
<1>2. ASSUME NEW r \in Requests, Serve(r) PROVE RequestsInv'
  <2>1. CASE LockOrder(r)
    BY <2>1, LockOrderKeepsInv
  <2>2. CASE LockBalance(r)
    BY <2>2, LockBalanceKeepsInv
  <2>3. CASE LockTransaction(r)
    BY <2>3, LockTransactionKeepsInv
  <2>4. CASE Commit(r)
    BY <2>4, CommitKeepsInv
  <2>5. CASE Refuse(r)
    BY <2>5, FinishKeepsInv DEF Refuse
  <2> QED BY <1>2, <2>1, <2>2, <2>3, <2>4, <2>5 DEF Serve
<1>3. ASSUME NEW r \in Requests, Crash(r) PROVE RequestsInv'
  BY <1>3, FinishKeepsInv DEF Crash
<1>4. ASSUME NEW u \in Users, NEW a \in TopUps, Checkout(u, a) PROVE RequestsInv'
  BY <1>4, CheckoutKeepsInv
<1>5. ASSUME NEW o \in Orders, AdminOpen(o) PROVE RequestsInv'
  <2>1. TypeOK /\ FormsTyped /\ UNCHANGED <<vars, req>>
    BY <1>5 DEF RequestsInv, RequestsTyped, AdminOpen
  <2>2. TypeOK'
    BY <2>1 DEF TypeOK, vars
  <2>3. orders[o] # Absent /\ orders[o].status \in OrderStatus
    BY <1>5, <2>1, Rows DEF AdminOpen, RequestsTyped, Order
  <2>4. FormsTyped'
    BY <1>5, <2>1, <2>3 DEF FormsTyped, AdminOpen, vars
  <2> QED BY <2>1, <2>2, <2>4, QuietStepKeepsInv DEF vars
<1>6. ASSUME NEW o \in Orders, AdminSave(o) PROVE RequestsInv'
  BY <1>6, AdminSaveKeepsInv
<1>7. ASSUME NEW m \in Menus, DeadlineGoesBy(m) PROVE RequestsInv'
  <2>1. /\ UNCHANGED <<orders, current_balance, on_hold, transactions, req, form>>
        /\ closed' = closed \cup {m}
    BY <1>7 DEF DeadlineGoesBy, DeadlinePasses
  <2>2. TypeOK' /\ FormsTyped'
    BY <2>1 DEF RequestsInv, RequestsTyped, TypeOK, FormsTyped
  <2> QED BY <2>1, <2>2, QuietStepKeepsInv
<1>8. CASE UNCHANGED rvars
  <2>1. UNCHANGED <<orders, current_balance, on_hold, transactions, closed, req, form>>
    BY <1>8 DEF rvars, vars
  <2>2. TypeOK' /\ FormsTyped'
    BY <2>1 DEF RequestsInv, RequestsTyped, TypeOK, FormsTyped
  <2> QED BY <2>1, <2>2, QuietStepKeepsInv
<1> QED BY <1>1, <1>2, <1>3, <1>4, <1>5, <1>6, <1>7, <1>8 DEF RNext

\* The invariant holds whatever the requests, the page and the clock do.
LEMMA RequestsInvariant == RSpec => []RequestsInv
BY RequestsInit, RequestsStep, PTL DEF RSpec

\* What a request decided on is still so when it writes: nobody changes a row
\* it read under a lock until it commits, however many workers there are and
\* whatever the admin page saves (services.py:32-41, handlers.py:109).
THEOREM NoStaleRead == RSpec => []ReadsAreCurrent
BY RequestsInvariant, InvIsCurrent, PTL

-----------------------------------------------------------------------------
(* The services are atomic.                                                *)

\* The operators of the wallet that the mapping leaves as they are.
LEMMA SameRows ==
    /\ Atomic!Absent = Absent /\ Atomic!OrderStatus = OrderStatus
    /\ \A o : Atomic!PendingHolds(o) = PendingHolds(o)
BY DEF Atomic!Absent, Absent, Atomic!OrderStatus, OrderStatus, Atomic!PendingHolds, PendingHolds

\* Writes that do not depend on the mapping.
LEMMA SameWrites ==
    /\ \A o, s : Atomic!SetStatus(o, s) <=> SetStatus(o, s)
    /\ \A u, a : Atomic!Credit(u, a) <=> Credit(u, a)
    /\ \A u, o, type, a, s, m :
          Atomic!Record(u, o, type, a, s, m) <=> Record(u, o, type, a, s, m)
BY DEF Atomic!SetStatus, SetStatus, Atomic!Credit, Credit, Atomic!Record, Record

\* A capture, as the mapping sees it.
LEMMA SameSettle ==
    ASSUME NEW o, Settle(o)
    PROVE  Atomic!Settle(o)
BY SameRows, SameWrites DEF Settle, Atomic!Settle

\* A request's commit is one of the wallet's own actions.
LEMMA ServiceIsAction ==
    ASSUME NEW q, q.user \in Users, Service(q)
    PROVE  Atomic!Next
<1>1. CASE q.op = "deposit" /\ q.amount \in Deposits /\ Deposit(q.user, q.amount)
  <2>1. Atomic!Deposit(q.user, q.amount)
    BY <1>1, SameWrites DEF Deposit, Atomic!Deposit
  <2> QED BY <1>1, <2>1 DEF Atomic!Next
<1>2. CASE /\ q.op = "place" /\ q.order \in Orders /\ q.menu \in Menus
           /\ q.amount \in OrderTotals /\ PlaceOrder(q.user, q.order, q.menu, q.amount)
  <2>1. Atomic!PlaceOrder(q.user, q.order, q.menu, q.amount)
    BY <1>2, SameRows, SameWrites
    DEF PlaceOrder, InsertWithHold, Atomic!PlaceOrder, Atomic!InsertWithHold
  <2> QED BY <1>2, <2>1 DEF Atomic!Next
<1>3. CASE /\ q.op = "capture" /\ q.order \in Orders /\ q.user = orders[q.order].user
           /\ CaptureHeld(q.order) \/ CapturePending(q.order)
  <2>1. CASE CaptureHeld(q.order)
    <3>1. Atomic!CaptureHeld(q.order)
      BY <2>1, SameSettle
      DEF CaptureHeld, SettleFromHold, Atomic!CaptureHeld, Atomic!SettleFromHold
    <3> QED BY <1>3, <3>1 DEF Atomic!Next
  <2>2. CASE CapturePending(q.order)
    <3>1. Atomic!CapturePending(q.order)
      BY <2>2, SameSettle, SameRows DEF CapturePending, Atomic!CapturePending
    <3> QED BY <1>3, <3>1 DEF Atomic!Next
  <2> QED BY <1>3, <2>1, <2>2
<1>4. CASE /\ q.op = "refund" /\ q.order \in Orders /\ q.user = orders[q.order].user
           /\ Refund(q.order)
  <2>1. Atomic!Refund(q.order)
    BY <1>4, SameWrites DEF Refund, ReturnMoney, Atomic!Refund, Atomic!ReturnMoney
  <2> QED BY <1>4, <2>1 DEF Atomic!Next
<1>5. CASE /\ q.op = "cancel" /\ q.order \in Orders /\ q.user = orders[q.order].user
           /\ LateCancel(q.order)
  <2>1. Atomic!Cancel(q.order)
    BY <1>5, SameRows, SameWrites
    DEF LateCancel, ReleaseHold, Atomic!Cancel, Atomic!ReleaseHold
  <2> QED BY <1>5, <2>1 DEF Atomic!Next
<1>6. CASE /\ q.op = "topup" /\ q.tx \in DOMAIN transactions
           /\ q.user = transactions[q.tx].user /\ CompleteTopUp(q.tx)
  <2>1. Atomic!CompleteTopUp(q.tx)
    BY <1>6, SameWrites
    DEF CompleteTopUp, CreditTopUp, Atomic!CompleteTopUp, Atomic!CreditTopUp
  <2> QED BY <1>6, <2>1 DEF Atomic!Next
<1> QED BY <1>1, <1>2, <1>3, <1>4, <1>5, <1>6 DEF Service

\* The initial tables are the wallet's.
LEMMA AtomicInit == RInit => Atomic!Init
BY SameRows DEF RInit, Init, Atomic!Init

\* Every step is one of the wallet's actions or leaves its tables alone: a
\* commit is its service, a save an edit, and the rest happens outside.
LEMMA AtomicStep == RequestsInv /\ [RNext]_rvars => [Atomic!Next]_(Atomic!vars)
<1> SUFFICES ASSUME RequestsInv, [RNext]_rvars PROVE Atomic!Next \/ UNCHANGED Atomic!vars
  OBVIOUS
<1>1. ASSUME UNCHANGED <<orders, current_balance, on_hold, transactions>>
      PROVE  UNCHANGED Atomic!vars
  BY <1>1 DEF Atomic!vars
<1>2. ASSUME NEW r \in Requests, Commit(r) PROVE Atomic!Next
  <2>1. Service(req[r])
    BY <1>2, CommitServes
  <2>2. r \in Busy /\ RequestsTyped
    BY <1>2 DEF Commit, Busy, RequestsInv
  <2>3. req[r].user \in Users
    BY <2>2, BusyRows DEF Serving
  <2> QED BY <2>1, <2>3, ServiceIsAction
<1>3. ASSUME NEW r \in Requests, Serve(r) PROVE Atomic!Next \/ UNCHANGED Atomic!vars
  <2>1. CASE Commit(r)
    BY <1>2, <2>1
  <2>2. CASE ~Commit(r)
    BY <1>1, <1>3, <2>2 DEF Serve, LockOrder, LockBalance, LockTransaction, Refuse, vars
  <2> QED BY <2>1, <2>2
<1>4. ASSUME NEW r \in Requests, Begin(r) \/ Crash(r) PROVE UNCHANGED Atomic!vars
  BY <1>1, <1>4 DEF Begin, Crash, vars
<1>5. ASSUME NEW u \in Users, NEW a \in TopUps, Checkout(u, a) PROVE Atomic!Next
  <2>1. Atomic!CreateCheckout(u, a)
    BY <1>5, SameWrites DEF Checkout, CreateCheckout, Atomic!CreateCheckout
  <2> QED BY <2>1 DEF Atomic!Next
<1>6. ASSUME NEW o \in Orders, AdminOpen(o) PROVE UNCHANGED Atomic!vars
  BY <1>1, <1>6 DEF AdminOpen, vars
<1>7. ASSUME NEW o \in Orders, AdminSave(o) PROVE Atomic!Next
  <2>1. PICK s \in OrderStatus : SetStatus(o, s)
    BY <1>7 DEF AdminSave
  <2>2. orders[o].status \in OrderStatus
    BY <1>7, Rows DEF AdminSave, RequestsInv, RequestsTyped, FormsTyped, Order
  <2>3. Atomic!AdminSetStatus(o, s)
    BY <1>7, <2>1, <2>2, SameWrites DEF AdminSave, Atomic!AdminSetStatus
  <2> QED BY <2>3, SameRows DEF Atomic!Next
<1>8. ASSUME NEW m \in Menus, DeadlineGoesBy(m) PROVE UNCHANGED Atomic!vars
  BY <1>1, <1>8 DEF DeadlineGoesBy, DeadlinePasses
<1>9. CASE UNCHANGED rvars
  BY <1>1, <1>9 DEF rvars, vars
<1> QED BY <1>3, <1>4, <1>5, <1>6, <1>7, <1>8, <1>9 DEF RNext

\* Under any interleaving of any number of requests' locks, reads, commits and
\* crashes, the tables change only as the one-step service functions change
\* them, with the saves of the admin page as edits between any two statuses
\* (services.py:100-253: each function is one transaction that locks, then decides).
THEOREM RequestsImplementServices == RSpec => ServicesAreAtomic
<1>1. RInit => Atomic!Init
  BY AtomicInit
<1>2. RequestsInv /\ [RNext]_rvars => [Atomic!Next]_(Atomic!vars)
  BY AtomicStep
<1> QED BY <1>1, <1>2, RequestsInvariant, PTL DEF RSpec, ServicesAreAtomic, Atomic!Spec

-----------------------------------------------------------------------------
(* Settled orders.                                                         *)

SettledStatus == {"paid", "completed", "cancelled"}

\* Nobody chooses, in the admin page, to take a settled order back.
EditsKeepSettled ==
    \A e \in AdminEdits : e[1] \in SettledStatus =>
        IF e[1] = "cancelled" THEN e[2] = "cancelled" ELSE e[2] \in SettledStatus

\* Where a step may take a settled order.
StaysSettled(o) ==
    orders[o].status \in SettledStatus =>
        \/ orders'[o].status = orders[o].status
        \/ orders[o].status # "cancelled" /\ orders'[o].status \in SettledStatus

ReopenedByForm(o) == form[o] \notin {NoForm, orders[o].status} /\ form'[o] = NoForm

\* No service takes a settled order back: a refund is the one that accepts it.
LEMMA ServiceKeepsSettled ==
    ASSUME TypeOK, NEW q, q.user \in Users, Service(q), NEW o \in Orders
    PROVE  StaysSettled(o)
<1>1. CASE orders'[o] = orders[o]
  BY <1>1 DEF StaysSettled
<1>2. CASE orders'[o] # orders[o]
  <2>1. q.op \in OrderOps \cup {"place"} /\ q.order = o
    BY <1>2, ServiceTouches, OrdersAssumption DEF Touches
  <2>2. CASE Refund(o)
    <3>1. orders[o].status \in OrderStatus /\ "cancelled" \in OrderStatus
      BY <2>2 DEF Refund, OrderStatus
    <3>2. orders'[o].status = "cancelled"
      BY <2>2, <3>1, SetStatusEffect DEF Refund, ReturnMoney
    <3> QED BY <2>2, <3>2 DEF Refund, StaysSettled, SettledStatus
  <2>3. CASE CaptureHeld(o) \/ CapturePending(o) \/ LateCancel(o)
    BY <2>3 DEF CaptureHeld, CapturePending, LateCancel, StaysSettled, SettledStatus
  <2>4. CASE orders[o] = Absent
    BY <2>4 DEF Absent, StaysSettled, SettledStatus
  <2> QED BY <2>1, <2>2, <2>3, <2>4 DEF Service, PlaceOrder, OrderOps
<1> QED BY <1>1, <1>2

\* The page takes a settled order back only from a form that showed another status.
LEMMA SaveKeepsSettled ==
    ASSUME RequestsInv, EditsKeepSettled, NEW x \in Orders, AdminSave(x), NEW o \in Orders
    PROVE  StaysSettled(o) \/ ReopenedByForm(o)
<1>1. /\ TypeOK /\ FormsTyped /\ form[x] # NoForm /\ orders[x] # Absent
      /\ form' = [form EXCEPT ![x] = NoForm]
  BY DEF AdminSave, RequestsInv, RequestsTyped, FormsTyped
<1>2. PICK s \in OrderStatus :
         /\ s = form[x] \/ <<form[x], s>> \in AdminEdits
         /\ SetStatus(x, s)
  BY DEF AdminSave
<1>3. orders[x].status \in OrderStatus
  BY <1>1, Rows DEF Order
<1>4. orders'[x].status = s /\ \A y \in Orders \ {x} : orders'[y] = orders[y]
  BY <1>1, <1>2, <1>3, SetStatusEffect
<1>5. CASE o # x
  BY <1>4, <1>5 DEF StaysSettled
<1>6. CASE o = x /\ form[x] # orders[x].status
  BY <1>1, <1>6 DEF ReopenedByForm, FormsTyped
<1>7. CASE o = x /\ form[x] = orders[x].status
  <2>1. CASE s = form[x]
    BY <1>4, <1>7, <2>1 DEF StaysSettled
  <2>2. CASE <<form[x], s>> \in AdminEdits
    <3>1. form[x] \in SettledStatus =>
             IF form[x] = "cancelled" THEN s = "cancelled" ELSE s \in SettledStatus
      BY <2>2 DEF EditsKeepSettled
    <3> QED BY <1>4, <1>7, <3>1 DEF StaysSettled
  <2> QED BY <1>2, <2>1, <2>2
<1> QED BY <1>5, <1>6, <1>7

\* No step takes a settled order back but the save of an outdated form.
LEMMA SettledStep ==
    ASSUME RequestsInv, EditsKeepSettled, [RNext]_rvars, NEW o \in Orders
    PROVE  StaysSettled(o) \/ ReopenedByForm(o)
<1>1. ASSUME UNCHANGED orders PROVE StaysSettled(o)
  BY <1>1 DEF StaysSettled
<1>2. ASSUME NEW r \in Requests, Commit(r) PROVE StaysSettled(o)
  <2>1. Service(req[r])
    BY <1>2, CommitServes
  <2>2. r \in Busy /\ RequestsTyped /\ TypeOK
    BY <1>2 DEF Commit, Busy, RequestsInv, RequestsTyped
  <2>3. req[r].user \in Users
    BY <2>2, BusyRows DEF Serving
  <2> QED BY <2>1, <2>2, <2>3, ServiceKeepsSettled
<1>3. ASSUME NEW r \in Requests, Begin(r) \/ Serve(r) \/ Crash(r) PROVE StaysSettled(o)
  <2>1. CASE Commit(r)
    BY <1>2, <2>1
  <2>2. CASE ~Commit(r)
    BY <1>1, <1>3, <2>2
    DEF Begin, Serve, Crash, LockOrder, LockBalance, LockTransaction, Refuse, vars
  <2> QED BY <2>1, <2>2
<1>4. ASSUME NEW x \in Orders, AdminSave(x) PROVE StaysSettled(o) \/ ReopenedByForm(o)
  BY <1>4, SaveKeepsSettled
<1> QED
  BY <1>1, <1>3, <1>4
  DEF RNext, Checkout, CreateCheckout, AdminOpen, DeadlineGoesBy, DeadlinePasses, rvars, vars

\* As long as nobody chooses to take a settled order back, nothing does, under
\* any interleaving, but the save of a form that was opened while the order
\* showed another status (admin.py:28; services.py:111, 182, 220).
THEOREM SettledForGood ==
    ASSUME EditsKeepSettled
    PROVE  RSpec => OnlyStaleFormsReopen
<1>1. RequestsInv /\ [RNext]_rvars =>
         [\A o \in Orders :
             LET was == orders[o].status
                 is == orders'[o].status
             IN  was \in {"paid", "completed", "cancelled"} =>
                    \/ is = was
                    \/ was # "cancelled" /\ is \in {"paid", "completed", "cancelled"}
                    \/ form[o] \notin {NoForm, was} /\ form'[o] = NoForm]_rvars
  BY SettledStep DEF StaysSettled, ReopenedByForm, SettledStatus
<1> QED BY <1>1, RequestsInvariant, PTL DEF RSpec, OnlyStaleFormsReopen

-----------------------------------------------------------------------------
(* The wallet's promises under the row locks.                              *)

\* The page saves a form: the status it shows, or one chosen from it.
Saved(o, s) ==
    /\ form[o] # NoForm
    /\ s = form[o] \/ <<form[o], s>> \in AdminEdits
    /\ SetStatus(o, s)
    /\ UNCHANGED <<current_balance, on_hold, transactions, closed>>

\* Whatever the requests do, the tables change by one service or by one save.
LEMMA RequestSteps ==
    ASSUME RequestsInv, [RNext]_rvars
    PROVE  [Services]_vars \/ \E o \in Orders, s \in OrderStatus : Saved(o, s)
<1>1. ASSUME NEW r \in Requests, Commit(r) PROVE Services
  <2>1. Service(req[r])
    BY <1>1, CommitServes
  <2>2. r \in Busy /\ RequestsTyped
    BY <1>1 DEF Commit, Busy, RequestsInv
  <2>3. req[r].user \in Users
    BY <2>2, BusyRows DEF Serving
  <2> QED BY <2>1, <2>3 DEF Service, Services
<1>2. ASSUME NEW r \in Requests, Begin(r) \/ Serve(r) \/ Crash(r) PROVE [Services]_vars
  <2>1. CASE Commit(r)
    BY <1>1, <2>1
  <2>2. CASE ~Commit(r)
    BY <1>2, <2>2 DEF Begin, Serve, Crash, LockOrder, LockBalance, LockTransaction, Refuse
  <2> QED BY <2>1, <2>2
<1>3. ASSUME NEW o \in Orders, AdminSave(o) PROVE \E s \in OrderStatus : Saved(o, s)
  BY <1>3 DEF AdminSave, Saved
<1> QED
  BY <1>2, <1>3 DEF RNext, Checkout, AdminOpen, DeadlineGoesBy, Services, rvars

\* A save is of an inserted order.
LEMMA SavedOrder ==
    ASSUME RequestsInv, NEW o \in Orders, form[o] # NoForm
    PROVE  orders[o] # Absent /\ orders[o].status \in OrderStatus
<1>1. orders[o] # Absent /\ TypeOK
  BY DEF RequestsInv, RequestsTyped, FormsTyped
<1> QED BY <1>1, Rows DEF Order

\* The rows of the ledger are as in LedgerInv, whatever forms are saved.
LEMMA RequestsPriceHolds ==
    ASSUME RequestsInv, HoldsPriced, [RNext]_rvars
    PROVE  HoldsPriced'
<1>1. TypeOK
  BY DEF RequestsInv, RequestsTyped
<1>2. CASE [Services]_vars
  BY <1>1, <1>2, ServicesPriceHolds
<1>3. ASSUME NEW o \in Orders, NEW s \in OrderStatus, Saved(o, s) PROVE HoldsPriced'
  BY <1>1, <1>3, SavedOrder, SetStatusKeepsOrders, EditPricesHolds DEF Saved
<1> QED BY <1>2, <1>3, RequestSteps

\* Every step accounts for the balances it moves.
LEMMA RequestsAccounted ==
    ASSUME RequestsInv, HoldsPriced, [RNext]_rvars
    PROVE  /\ TypeOK /\ TypeOK'
           /\ UNCHANGED <<current_balance, transactions>> \/ \E k, row : Accounted(k, row)
<1>1. TypeOK /\ TypeOK'
  BY RequestsStep DEF RequestsInv, RequestsTyped
<1>2. CASE [Services]_vars
  BY <1>1, <1>2, ServicesAccounted
<1>3. CASE \E o \in Orders, s \in OrderStatus : Saved(o, s)
  BY <1>1, <1>3 DEF Saved
<1> QED BY <1>2, <1>3, RequestSteps

\* The invariant the three theorems about the ledger rest on.
RequestsLedgerInv ==
    RequestsInv /\ HoldsPriced /\ Reconciled /\ OnlyHoldsCancelled

\* Every step writes to the ledger what a service may write.
LEMMA RequestsWrite ==
    ASSUME RequestsInv, [RNext]_rvars
    PROVE  LedgerWrite
<1>1. TypeOK
  BY DEF RequestsInv, RequestsTyped
<1>2. CASE [Services]_vars
  BY <1>1, <1>2, ServicesWrite
<1>3. CASE \E o \in Orders, s \in OrderStatus : Saved(o, s)
  BY <1>3 DEF Saved, LedgerWrite
<1> QED BY <1>2, <1>3, RequestSteps

LEMMA RequestsLedger == RSpec => []RequestsLedgerInv
<1>1. RInit => RequestsLedgerInv
  <2> SUFFICES ASSUME RInit PROVE RequestsLedgerInv
    OBVIOUS
  <2>1. LedgerInv /\ OnlyHoldsCancelled
    BY LedgerInit DEF RInit, Init, OnlyHoldsCancelled
  <2> QED BY <2>1, RequestsInit DEF LedgerInv, RequestsLedgerInv
<1>2. RequestsLedgerInv /\ [RNext]_rvars => RequestsLedgerInv'
  <2> SUFFICES ASSUME RequestsLedgerInv, [RNext]_rvars PROVE RequestsLedgerInv'
    OBVIOUS
  <2> USE DEF RequestsLedgerInv
  <2>1. RequestsInv' /\ HoldsPriced'
    BY RequestsStep, RequestsPriceHolds
  <2>2. Reconciled'
    <3>1. CASE UNCHANGED <<current_balance, transactions>>
      BY <3>1 DEF Reconciled, Completed, AmountOf
    <3>2. CASE \E k, row : Accounted(k, row)
      BY <3>2, RequestsAccounted, AccountedReconciles
    <3> QED BY <3>1, <3>2, RequestsAccounted
  <2>3. OnlyHoldsCancelled'
    BY RequestsWrite, OnlyHoldsCancelledStep
  <2> QED BY <2>1, <2>2, <2>3
<1> QED BY <1>1, <1>2, PTL DEF RSpec

\* However the requests' locks, reads, commits and crashes interleave, and
\* whatever outdated forms the order admin page saves, a user's balance is what
\* was deposited and refunded less what was paid.
THEOREM RequestsReconciled == RSpec => []Reconciled
<1>1. RequestsLedgerInv => Reconciled
  BY DEF RequestsLedgerInv
<1> QED BY <1>1, RequestsLedger, PTL

\* In every interleaving a step that moves a balance completes one row, of that
\* balance, and the row tells what it leaves: no update is lost between two
\* requests that write the same balance (services.py:52, 82, 123, 138, 188, 241).
THEOREM RequestsAreExplained == RSpec => BalanceExplained
<1>1. RequestsLedgerInv /\ [RNext]_rvars => StepExplained
  BY RequestsAccounted, AccountedStep DEF RequestsLedgerInv
<1> QED BY <1>1, RequestsLedger, PTL DEF RSpec, BalanceExplained

\* In every interleaving the ledger is an audit trail: of two requests that
\* settle the same row, one does.
THEOREM RequestsKeepAuditTrail == RSpec => LedgerAppendOnly
<1>1. RequestsLedgerInv /\ [RNext]_rvars => RowsKept
  BY RequestsWrite, WriteKeepsRows DEF RequestsLedgerInv, RequestsInv, RequestsTyped
<1> QED BY <1>1, RequestsLedger, PTL DEF RSpec, LedgerAppendOnly

\* No order is in PENDING, and no open form shows it.
NothingPending == NonePending /\ \A o \in Orders : form[o] # "pending"

LEMMA NothingPendingInit == RInit => NothingPending
BY DEF RInit, Init, NothingPending, NonePending, Absent, NoForm

LEMMA NothingPendingStep ==
    ASSUME NoReopening, RequestsInv, NothingPending, [RNext]_rvars
    PROVE  NothingPending'
<1>1. TypeOK /\ NonePending
  BY DEF RequestsInv, RequestsTyped, NothingPending
<1>2. NonePending'
  <2>1. CASE [Services]_vars
    BY <1>1, <2>1, ServicesLeaveNonePending
  <2>2. ASSUME NEW o \in Orders, NEW s \in OrderStatus, Saved(o, s) PROVE NonePending'
    <3>1. s # "pending"
      BY <2>2 DEF Saved, NothingPending, NoReopening
    <3> QED BY <1>1, <2>2, <3>1, SavedOrder, SetStatusNonePending DEF Saved
  <2> QED BY <2>1, <2>2, RequestSteps
<1>3. ASSUME NEW o \in Orders PROVE form'[o] # "pending"
  <2>1. form'[o] \in {form[o], NoForm, orders[o].status}
    <3>1. form \in [Orders -> OrderStatus \cup {NoForm}]
      BY DEF RequestsInv, FormsTyped
    <3> QED
      BY <3>1
      DEF RNext, Begin, Serve, LockOrder, LockBalance, LockTransaction, Commit, Refuse,
          Crash, Checkout, AdminOpen, AdminSave, DeadlineGoesBy, rvars
  <2> QED BY <1>1, <2>1 DEF NothingPending, NonePending, NoForm
<1> QED BY <1>2, <1>3 DEF NothingPending

\* Unless the page reopens an order as PENDING, no interleaving of requests
\* spends what is on hold, whatever outdated forms are saved: two requests of
\* one user never both decide on the balance before the other's write.
THEOREM RequestsAreCovered ==
    ASSUME NoReopening
    PROVE  RSpec => []Solvent
<1> DEFINE Inv == NothingPending /\ Solvent
<1>1. RInit => Inv
  BY NothingPendingInit DEF RInit, Init, Solvent
<1>2. RequestsInv /\ Inv /\ [RNext]_rvars => Inv'
  <2> SUFFICES ASSUME RequestsInv, Inv, [RNext]_rvars PROVE Inv'
    OBVIOUS
  <2>1. NothingPending'
    BY NothingPendingStep
  <2>2. CASE [Services]_vars
    BY <2>1, <2>2, ServicesKeepSolvent DEF RequestsInv, RequestsTyped, NothingPending
  <2>3. CASE \E o \in Orders, s \in OrderStatus : Saved(o, s)
    BY <2>1, <2>3 DEF Saved, Solvent
  <2> QED BY <2>2, <2>3, RequestSteps
<1> QED BY <1>1, <1>2, RequestsInvariant, PTL DEF RSpec

-----------------------------------------------------------------------------
(* The same without the order admin page.                                  *)

NoFormOpen == \A o \in Orders : form[o] = NoForm

\* Without the page every step is a service.
LEMMA OnlyServices ==
    ASSUME ~AdminForms, RequestsInv, NoFormOpen, [RNext]_rvars
    PROVE  [Services]_vars /\ NoFormOpen'
<1>1. NoFormOpen'
  BY DEF NoFormOpen, RNext, Begin, Serve, LockOrder, LockBalance, LockTransaction, Commit,
         Refuse, Crash, Checkout, AdminOpen, AdminSave, DeadlineGoesBy, rvars
<1> QED BY <1>1, RequestSteps DEF Saved, NoFormOpen

\* What the services keep for themselves, together.
ServicesInv ==
    /\ RequestsInv /\ NoFormOpen /\ NonePending
    /\ HoldsBacked /\ LedgerMatchesOrders /\ DepositsAllowed

\* The tables at first.
LEMMA ServicesInit ==
    Init => NonePending /\ HoldsBacked /\ LedgerMatchesOrders /\ DepositsAllowed
<1> SUFFICES ASSUME Init
             PROVE  NonePending /\ HoldsBacked /\ LedgerMatchesOrders /\ DepositsAllowed
  OBVIOUS
<1>1. NonePending /\ DepositsAllowed
  BY DEF Init, NonePending, DepositsAllowed, Absent
<1>2. HoldsBacked
  BY BackedInit
<1>3. LedgerMatchesOrders
  BY MatchesInit
<1> QED BY <1>1, <1>2, <1>3

LEMMA ServicesInvariant ==
    ASSUME ~AdminForms
    PROVE  RSpec => []ServicesInv
<1>1. RInit => ServicesInv
  BY RequestsInit, ServicesInit DEF RInit, ServicesInv, NoFormOpen
<1>2. ServicesInv /\ [RNext]_rvars => ServicesInv'
  <2> SUFFICES ASSUME ServicesInv, [RNext]_rvars PROVE ServicesInv'
    OBVIOUS
  <2> USE DEF ServicesInv
  <2>1. RequestsInv' /\ [Services]_vars /\ NoFormOpen'
    BY RequestsStep, OnlyServices
  <2>2. TypeOK /\ TypeOK'
    BY <2>1 DEF RequestsInv, RequestsTyped
  <2>3. NonePending'
    BY <2>1, <2>2, ServicesLeaveNonePending
  <2>4. HoldsBacked'
    BY <2>1, <2>2, ServicesKeepBacked
  <2>5. LedgerMatchesOrders'
    BY <2>1, <2>2, ServicesKeepMatching
  <2>6. DepositsAllowed'
    BY <2>1, <2>2, ServicesDeposit
  <2> QED BY <2>1, <2>3, <2>4, <2>5, <2>6
<1> QED BY <1>1, <1>2, PTL DEF RSpec

\* No interleaving of orders, captures, cancellations and refunds leaks or
\* loses a hold: a capture and a cancellation of one order release it once.
THEOREM RequestsKeepHoldsBacked ==
    ASSUME ~AdminForms
    PROVE  RSpec => []HoldsBacked
<1>1. ServicesInv => HoldsBacked
  BY DEF ServicesInv
<1> QED BY <1>1, ServicesInvariant, PTL

\* In every interleaving the ledger tells of every order what its status says:
\* two captures pay it once, two refunds give it back once, and a capture and a
\* cancellation leave a PAYMENT or a cancelled HOLD and never both.
THEOREM RequestsMatchLedger ==
    ASSUME ~AdminForms
    PROVE  RSpec => []LedgerMatchesOrders
<1>1. ServicesInv => LedgerMatchesOrders
  BY DEF ServicesInv
<1> QED BY <1>1, ServicesInvariant, PTL

\* So no order has two payments: what the comment on the fallback of
\* capture_payment_by_staff says (services.py:156) is true of the services, and
\* only the order admin page can make it false.
THEOREM RequestsPayOnce ==
    ASSUME ~AdminForms
    PROVE  RSpec => []PaidOnce
<1>1. LedgerMatchesOrders => PaidOnce
  <2> SUFFICES ASSUME LedgerMatchesOrders, NEW o \in Orders
               PROVE  Cardinality({i \in Entries(o) : transactions[i].type = "payment"}) <= 1
    BY DEF PaidOnce
  <2> DEFINE payments == {i \in Entries(o) : transactions[i].type = "payment"}
  <2>1. \A i, j \in payments : i = j
    BY DEF LedgerMatchesOrders
  <2> HIDE DEF payments
  <2>2. Cardinality(payments) <= 1
    <3>1. CASE payments = {}
      BY <3>1, FS_EmptySet
    <3>2. CASE payments # {}
      <4>1. PICK i \in payments : TRUE
        BY <3>2
      <4>2. payments = {i}
        BY <2>1, <4>1
      <4>3. Cardinality({i}) = 1
        BY FS_Singleton
      <4> QED BY <4>2, <4>3
    <3> QED BY <3>1, <3>2
  <2> QED BY <2>2 DEF payments
<1>2. ServicesInv => LedgerMatchesOrders
  BY DEF ServicesInv
<1> QED BY <1>1, <1>2, ServicesInvariant, PTL

\* The requests of any number of workers, with their locks, crashes and
\* refusals, keep the wallet's promise: money that was paid in is free, reserved
\* for one order or spent on one, and an order's money goes back once.
THEOREM RequestsImplementEscrow ==
    ASSUME ~AdminForms
    PROVE  RSpec => ImplementsEscrow
<1>1. RInit => Promise!Init
  BY PromiseInit DEF RInit
<1>2. ServicesInv /\ ServicesInv' /\ [RNext]_rvars => [Promise!Next]_(Promise!vars)
  BY OnlyServices, ServicesKeepPromise DEF ServicesInv, RequestsInv, RequestsTyped
<1> QED BY <1>1, <1>2, ServicesInvariant, PTL DEF RSpec, ImplementsEscrow, Promise!Spec

=============================================================================
