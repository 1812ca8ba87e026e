----------------------------- MODULE MCAccounts -----------------------------
(* Accounts on a small instance.                                           *)
EXTENDS Accounts, TLC

Symmetry == Permutations(Requests)
=============================================================================
