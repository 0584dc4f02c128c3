------------------------ MODULE MCCompressionFlags ------------------------
(* Instance of CompressionFlags for TLC. *)
EXTENDS CompressionFlags

CONSTANTS a, b

EqualRates == [d \in Device |-> 1]
Probe == [d \in Device |-> IF d = a THEN 2 ELSE 0]
=============================================================================
