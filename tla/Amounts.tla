------------------------------ MODULE Amounts ------------------------------
(***************************************************************************)
(* Sums of money over a finite set of rows: what an aggregate Sum(...)     *)
(* over a query set returns.  An amount is a natural number of cents       *)
(* (numeric(10,2) columns).                                                *)
(*                                                                         *)
(* A sum is usually written as a fold.  Here it is the cardinality of a    *)
(* set of coins, f[x] of them for each x of S, so that every fact about    *)
(* sums follows from facts about finite sets and needs no induction.       *)
(***************************************************************************)
EXTENDS Naturals, FiniteSets

Coins(f, S) == UNION {{x} \X (1..f[x]) : x \in S}

Total(f, S) == Cardinality(Coins(f, S))
=============================================================================
