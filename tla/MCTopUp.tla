------------------------------ MODULE MCTopUp ------------------------------
(* TopUp with two sessions of different amounts and two webhook workers.   *)
EXTENDS TopUp, TLC

CONSTANTS s1, s2

AmountValues == s1 :> 1 @@ s2 :> 2
=============================================================================
