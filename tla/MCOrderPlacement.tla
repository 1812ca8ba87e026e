-------------------------- MODULE MCOrderPlacement --------------------------
(* OrderPlacement with one menu of one item, dear enough that no user can  *)
(* pay for everything in flight once its price has gone up.                *)
EXTENDS OrderPlacement, TLC

CONSTANTS i1, u1

OfferValues == i1 :> [quantity |-> 1, override_price |-> 0, base_price |-> 0]
FundsValues == u1 :> 2

Symmetry == Permutations(Orders) \cup Permutations(Workers)
=============================================================================
