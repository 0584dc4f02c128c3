----------------------------- MODULE LossyPath -----------------------------
(***************************************************************************)
(* What a chain of point-to-point links promises to the two applications   *)
(* at its ends, without hops, queues, rates or clocks: packets are handed  *)
(* out at the far end in the order in which they were offered at the near  *)
(* one, each at most once; any of them may be lost on the way.             *)
(***************************************************************************)
EXTENDS Naturals

CONSTANTS Flow      \* the flows that share the path

VARIABLES offered,  \* how many packets have been offered
          path,     \* those that are on the way
          arrived   \* those that have been handed out

vars == <<offered, path, arrived>>

Init ==
  /\ offered = 0
  /\ path = {}
  /\ arrived = {}

(* A packet enters the path, or is lost at its very entrance. *)
Offer(f) ==
  /\ offered' = offered + 1
  /\ path' \in {path, path \cup {[flow |-> f, id |-> offered']}}
  /\ UNCHANGED arrived

Lose ==
  /\ \E p \in path : path' = path \ {p}
  /\ UNCHANGED <<offered, arrived>>

(* The oldest packet on the way is handed out; none that was offered       *)
(* before it can follow.                                                   *)
HandOut ==
  /\ \E p \in path :
       /\ \A q \in path : p.id <= q.id
       /\ path' = path \ {p}
       /\ arrived' = arrived \cup {p}
  /\ UNCHANGED offered

Next == (\E f \in Flow : Offer(f)) \/ Lose \/ HandOut

Spec == Init /\ [][Next]_vars
=============================================================================
