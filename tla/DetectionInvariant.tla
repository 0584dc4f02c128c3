------------------------- MODULE DetectionInvariant -------------------------
(***************************************************************************)
(* The invariant of the experiment with its two clients.  Where the links  *)
(* can carry both trains it is a timetable: the k-th packet comes to the   *)
(* end of every hop at a moment that only k and the hop decide.            *)
(***************************************************************************)
EXTENDS Detection, TandemInvariant

TwoClients == Len(Clients) = 2 /\ Clients[1] # Clients[2]

Sends == {e \in events : e.kind = "Send"}
Sent(i) == stats[Clients[i]].tx

(* No pending event lies in the past, or has a uid still to be given. *)
PendingInv == \A e \in events : now <= e.at /\ e.uid < nextUid

(* Each client that has not sent its whole train has one Send pending, at  *)
(* its place in the schedule; and the clients take turns, the first first. *)
TurnInv ==
  /\ offered = Sent(1) + Sent(2)
  /\ Sent(2) <= Sent(1) /\ Sent(1) <= Sent(2) + 1 /\ Sent(1) <= PacketCount
  /\ \A e \in Sends : \E i \in 1 .. 2 :
       e.flow = Clients[i] /\ Sent(i) < PacketCount /\ e.at = Sent(i) * Interval
  /\ \A i \in 1 .. 2 : Sent(i) < PacketCount => \E e \in Sends : e.flow = Clients[i]
  /\ \A e, f \in Sends :
       /\ e.flow = f.flow => e = f
       /\ e.flow = Clients[1] /\ f.flow = Clients[2] =>
            IF Sent(1) = Sent(2) THEN e.uid < f.uid ELSE f.uid < e.uid
  /\ {e \in events : e.kind = "Stop"} = {Stop}

(* The packets of the first client are the odd ones. *)
FlowInv ==
  \A p \in Known : p.flow = IF p.id % 2 = 1 THEN Clients[1] ELSE Clients[2]
-----------------------------------------------------------------------------
(* The timetable.                                                          *)

Slotted(h) == Slot(Size[Clients[1]], h)

(* How long the first packet of a pair takes to the end of hop h, and how  *)
(* long after it the second arrives: the longest slot of the hops so far.  *)
Latency[h \in 0 .. HopCount] ==
  IF h = 0 THEN 0 ELSE Latency[h - 1] + Slotted(h) + Delay

Longest[h \in 0 .. HopCount] ==
  IF h = 0 THEN 0
  ELSE IF Longest[h - 1] < Slotted(h) THEN Slotted(h) ELSE Longest[h - 1]

(* When packet k is due at the end of hop h; before the first hop, when it *)
(* is sent.                                                                *)
Due(k, h) ==
  ((k - 1) \div 2) * Interval + Latency[h] + (IF k % 2 = 1 THEN 0 ELSE Longest[h])

(* The packets that hop h has still to transmit, and the ids of those it   *)
(* has begun to transmit.                                                  *)
Behind(h) == Queued(h) \cup UNION {At(g) : g \in 1 .. h - 1}
Begun(h) == (1 .. offered) \ {q.id : q \in Behind(h)}

(* Every packet is on time at every hop, and none is refused. *)
DueAt(h) ==
  /\ \A e \in Receptions(h) : e.at = Due(e.pkt.id, h)
  /\ \A q \in Queued(h) : Due(q.id, h - 1) <= now
  /\ Idle(h) => \A k \in Begun(h) : Due(k, h) <= now + Delay
  /\ \A c \in events : Completes(c, h) =>
       /\ \A k \in Begun(h) : Due(k, h) <= c.at + Delay
       /\ \E k \in Begun(h) : Due(k, h) = c.at + Delay

DueInv == Lost = {} /\ \A h \in Hop : DueAt(h)

(* What has arrived is older than what is under way, and the flow monitor  *)
(* has the moments at which the first and the last packet were due.        *)
SeenInv ==
  /\ \A p \in arrived, q \in UnderWay : p.id < q.id
  /\ \A i \in 1 .. 2 : stats[Clients[i]].rx > 0 =>
       /\ stats[Clients[i]].timeFirstRx = Due(i, HopCount)
       /\ \E p \in OfFlow(arrived, Clients[i]) :
            /\ stats[Clients[i]].timeLastRx = Due(p.id, HopCount)
            /\ \A q \in OfFlow(arrived, Clients[i]) : q.id <= p.id
-----------------------------------------------------------------------------
(* Until the simulator stops; and what the statistics are then.            *)
RunningInv == TwoClients /\ iter = 0 => PendingInv /\ TurnInv /\ FlowInv

Fits == TwoAlike /\ \A h \in Hop : LoadFits(h)

PacedInv ==
  Fits => /\ iter = 0 => DueInv /\ SeenInv
          /\ iter > 0 /\ TimeEnough =>
               \A i \in 1 .. 2 :
                 /\ stats[Clients[i]].rx = PacketCount
                 /\ ExactSpread(Clients[i]) = (PacketCount - 1) * Interval

TimetableInv == RunningInv /\ PacedInv
=============================================================================
