---------------------------- MODULE MCDetection ----------------------------
(* Instances of Detection for TLC. *)
EXTENDS DetectionInvariant

CONSTANTS c1, c2

Both == <<c1, c2>>

(* Time in microseconds: the octet of a link of n kbps takes 8000 / n of   *)
(* them.  Outer links of 50 kbps, where config.txt has 8 Mbps, and the     *)
(* lowest of the capacities of run.py for the inner one.                   *)
Kbps(n) == 8000 \div n
SlowOuter == {<<Kbps(50), Kbps(1000), Kbps(50)>>}

(* The payload of config.txt, and 8 octets of UDP, 20 of IP, 2 of PPP      *)
(* header.                                                                 *)
Shipped == [f \in Flow |-> 1100 + 8 + 20 + 2]

(* A small world, to see every rate and every way to share the queue.      *)
SmallRates == [Hop -> 1 .. 6]
Small == [f \in Flow |-> 1]
=============================================================================
