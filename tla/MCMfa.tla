-------------------------------- MODULE MCMfa --------------------------------
(* Mfa on a small instance.                                                *)
EXTENDS Mfa, TLC

Symmetry == Permutations(Requests) \cup Permutations(Tickets)
            \cup Permutations(Secrets) \cup Permutations(CodeSets)
=============================================================================
