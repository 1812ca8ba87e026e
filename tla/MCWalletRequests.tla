-------------------------- MODULE MCWalletRequests --------------------------
(* WalletRequests on a small instance: two workers, one user, two orders.  *)
EXTENDS WalletRequests, TLC

KitchenEdits ==
    {<<"confirmed", "preparing">>, <<"preparing", "confirmed">>,
     <<"paid", "completed">>, <<"completed", "paid">>}

Symmetry == Permutations(Requests) \cup Permutations(Orders)
=============================================================================
