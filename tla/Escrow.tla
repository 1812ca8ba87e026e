------------------------------- MODULE Escrow -------------------------------
(***************************************************************************)
(* What the wallet promises, without tables, statuses or a ledger: money   *)
(* that was paid in is free, reserved for an order, or spent on one, and   *)
(* an order goes once from new to reserved, then to spent or returned.     *)
(* Wallet is shown to implement this specification (WalletRefinement).     *)
(***************************************************************************)
EXTENDS Integers, Amounts

CONSTANTS Users, Orders,
          FundAmounts,  \* what can be paid in
          Prices,       \* what an order can cost
          NoUser        \* the user of an order nobody placed

VARIABLES
    funded,  \* per user, all that was ever paid in
    free,    \* per user, what can still be reserved
    escrow   \* per order, its stage, user and amount

vars == <<funded, free, escrow>>

Init ==
    /\ funded = [u \in Users |-> 0]
    /\ free = [u \in Users |-> 0]
    /\ escrow = [o \in Orders |-> [stage |-> "new", user |-> NoUser, amount |-> 0]]

Gain(u, amount) == free' = [free EXCEPT ![u] = @ + amount]

Fund(u, amount) ==
    /\ amount > 0
    /\ funded' = [funded EXCEPT ![u] = @ + amount]
    /\ Gain(u, amount)
    /\ UNCHANGED escrow

Reserve(u, o, amount) ==
    /\ escrow[o].stage = "new"
    /\ free[u] >= amount
    /\ escrow' = [escrow EXCEPT ![o] = [stage |-> "reserved", user |-> u, amount |-> amount]]
    /\ free' = [free EXCEPT ![u] = @ - amount]
    /\ UNCHANGED funded

Spend(o) ==
    /\ escrow[o].stage = "reserved"
    /\ escrow' = [escrow EXCEPT ![o].stage = "spent"]
    /\ UNCHANGED <<funded, free>>

\* Whose the order was and what it cost is settled then, and forgotten.
Return(o, from) ==
    /\ escrow[o].stage = from
    /\ escrow' = [escrow EXCEPT ![o] = [stage |-> "returned", user |-> NoUser, amount |-> 0]]
    /\ Gain(escrow[o].user, escrow[o].amount)
    /\ UNCHANGED funded

Release(o) == Return(o, "reserved")

PayBack(o) == Return(o, "spent")

Next ==
    \/ \E u \in Users, a \in FundAmounts : Fund(u, a)
    \/ \E u \in Users, o \in Orders, a \in Prices : Reserve(u, o, a)
    \/ \E o \in Orders : Spend(o) \/ Release(o) \/ PayBack(o)

Spec == Init /\ [][Next]_vars

In(u, stage) == {o \in Orders : escrow[o].user = u /\ escrow[o].stage = stage}

AmountIn == [o \in Orders |-> escrow[o].amount]

\* No money is made or lost: what a user paid in is free, reserved or spent.
Conserved ==
    \A u \in Users : /\ free[u] >= 0
                     /\ funded[u] = free[u] + Total(AmountIn, In(u, "reserved"))
                                            + Total(AmountIn, In(u, "spent"))
=============================================================================
