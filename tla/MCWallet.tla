------------------------------ MODULE MCWallet ------------------------------
(* Wallet on a small instance: two users, two orders, one menu.            *)
EXTENDS WalletRefinement, TLC

\* What the kitchen does to an order in the admin page between the services'
\* steps: it starts the meal and hands it over, and may undo either.
KitchenEdits ==
    {<<"confirmed", "preparing">>, <<"preparing", "confirmed">>,
     <<"paid", "completed">>, <<"completed", "paid">>}

\* Whatever may be typed into the form.
AnyEdits == OrderStatus \X OrderStatus

Symmetry == Permutations(Users) \cup Permutations(Orders)
=============================================================================
