-------------------------- MODULE WalletRefinement --------------------------
(***************************************************************************)
(* Wallet implements Escrow: what the escrow keeps is computed from the    *)
(* rows of the wallet's tables.  It does so when the order admin page is   *)
(* used for the kitchen's edits and to change the user of cancelled orders *)
(* only.                                                                   *)
(***************************************************************************)
EXTENDS Wallet

\* The stage of an order in each status.
StageOf ==
    [absent    |-> "new",
     pending   |-> "reserved", confirmed |-> "reserved", preparing |-> "reserved",
     paid      |-> "spent",    completed |-> "spent"]

\* What the escrow knows of an order: nothing but that it is over, once it is.
Escrowed(row) ==
    IF row.status = "cancelled"
    THEN [stage |-> "returned", user |-> NoUser, amount |-> 0]
    ELSE [stage |-> StageOf[row.status], user |-> row.user, amount |-> row.total_amount]

Promise == INSTANCE Escrow WITH
    FundAmounts <- Deposits \cup TopUps,
    Prices <- OrderTotals,
    funded <- [u \in Users |-> Total(AmountOf, Completed(u, {"deposit"}))],
    free <- [u \in Users |-> current_balance[u] - on_hold[u]],
    escrow <- [o \in Orders |-> Escrowed(orders[o])]

\* Every step of the wallet is a step of the escrow or leaves it alone: a
\* capture moves reserved money to spent and frees none, a cancellation frees
\* exactly what its order had reserved, a refund exactly what it had spent.
ImplementsEscrow == Promise!Spec

\* The escrow's invariant, read on the wallet's tables.
MoneyConserved == Promise!Conserved
=============================================================================
