----------------------------- MODULE MCSessions -----------------------------
(* Sessions on a small instance.                                           *)
EXTENDS Sessions, TLC

Symmetry == Permutations(Browsers) \cup Permutations(Requests) \cup Permutations(Jtis)
=============================================================================
