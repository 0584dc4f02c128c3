------------------------------ MODULE MCTandem ------------------------------
(* Instances of Tandem for TLC. *)
EXTENDS TandemInvariant

CONSTANTS f1, f2

(* Every row of three links that are fast or slow. *)
AnyRates == [Hop -> {1, 3}]
TwoSizes == [f \in Flow |-> IF f = f1 THEN 1 ELSE 2]
=============================================================================
