------------------------- MODULE MCRequestResponse -------------------------
(* Instances of RequestResponse for TLC. *)
EXTENDS RequestResponse

CONSTANTS c1, c2

(* c1 is stopped at the instant of its third packet, c2 is never stopped; *)
(* the server comes and goes meanwhile.                                    *)
Apps == <<server, c1, c2>>
TheOrder == [p \in App |-> CHOOSE i \in 1 .. 3 : Apps[i] = p]
Starts == [p \in App |-> IF p = c2 THEN 2 ELSE 1]
Stops == [p \in App |-> IF p = c2 THEN 0 ELSE 3]
Counts == [p \in Client |-> IF p = c1 THEN 4 ELSE 2]
Intervals == [p \in Client |-> IF p = c1 THEN 1 ELSE 2]
=============================================================================
