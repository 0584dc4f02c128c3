--------------------------- MODULE MCPointToPoint ---------------------------
(* Instances of PointToPoint for TLC. *)
EXTENDS PointToPointInvariant

CONSTANTS a, b, c

(* The second device is slower than the first. *)
MixedRates == [d \in Device |-> IF d = a THEN 1 ELSE 2]

(* Who sends: a train that is answered, or two packets against one. *)
Answered == [d \in Device |-> IF d = a THEN 3 ELSE 1]
Duplex == [d \in Device |-> CASE d = a -> 2 [] d = b -> 1 [] OTHER -> 0]
=============================================================================
