--------------------------- MODULE TandemInvariant ---------------------------
(***************************************************************************)
(* The inductive invariant of Tandem.  Three orders agree: packets enter   *)
(* the row in the order of their ids, stand in every queue and follow each *)
(* other on every wire in that order, and are further along the row the    *)
(* lower their id is.  What is at one hop never overtakes because its      *)
(* receptions are ordered by time as they are by uid.  For packets of one  *)
(* size there is more: how far apart in time they are.                     *)
(***************************************************************************)
EXTENDS Tandem

(* Where everything is. *)
At(h) == Queued(h) \cup OnWire(h)
Known == UnderWay \cup arrived \cup Lost

Completes(e, h) == e.kind = "TransmitComplete" /\ e.hop = h

(* No pending event lies in the past, or shares its uid with another. *)
EventInv ==
  /\ \A e \in events : now <= e.at /\ e.uid < nextUid
  /\ \A e, f \in events : e.uid = f.uid => e = f

(* A device transmits until its one pending TransmitComplete; what it has  *)
(* sent arrives no later than the propagation delay after that.            *)
MachineInv ==
  \A h \in Hop :
    /\ Idle(h) => /\ queue[h] = <<>>
                  /\ \A e \in events : ~Completes(e, h)
                  /\ \A e \in Receptions(h) : e.at <= now + Delay
    /\ ~Idle(h) => \E e \in events : Completes(e, h)
    /\ \A c \in events : Completes(c, h) =>
         /\ \A d \in events : Completes(d, h) => d = c
         /\ \A e \in Receptions(h) : e.at <= c.at + Delay

(* The disc is run in time.  It lags behind by one packet between the end  *)
(* of a transmission and the wake of that instant, during which the device *)
(* transmits.                                                              *)
Wakes(h) == {w \in wakes : w.hop = h}

HandAt(h) ==
  \/ handed[h] = Fill(Len(queue[h]))
  \/ /\ handed[h] + 1 = Fill(Len(queue[h]))
     /\ Wakes(h) # {}
     /\ \A c \in events : Completes(c, h) => now < c.at

HandInv ==
  /\ \A w \in wakes : w.at = now
  /\ \A h \in Hop : HandAt(h)

(* The three orders. *)
OrderInv ==
  \A h \in Hop :
    /\ \A e, f \in Receptions(h) :
         e.uid < f.uid => e.at <= f.at /\ e.pkt.id < f.pkt.id
    /\ \A i, j \in 1 .. Len(queue[h]) : i < j => queue[h][i].id < queue[h][j].id
    /\ \A p \in OnWire(h), q \in Queued(h) : p.id < q.id
    /\ \A g \in 1 .. h - 1 : \A p \in At(h), q \in At(g) : p.id < q.id

(* Every packet offered is in one place. *)
AccountInv ==
  /\ IsFiniteSet(Known)
  /\ {p.id : p \in Known} = 1 .. offered
  /\ \A p, q \in Known : p.id = q.id => p = q
  /\ UnderWay \cap arrived = {} /\ UnderWay \cap Lost = {} /\ arrived \cap Lost = {}
  /\ \A g, h \in Hop : g # h => refused[g] \cap refused[h] = {}
  /\ \A f \in Flow : /\ stats[f].tx = Cardinality(OfFlow(Known, f))
                     /\ stats[f].rx = Cardinality(OfFlow(arrived, f))
-----------------------------------------------------------------------------
(* All the packets offered so far have size s; how long one of them keeps  *)
(* the transmitter of hop h.                                               *)
OnlySize(s) == \A f \in Flow : stats[f].tx > 0 => Size[f] = s
Slot(s, h) == byteTime[h] * s

(* The transmissions of a hop: it began the last one at t, and has been    *)
(* busy since for one slot.                                                *)
TransmitsAt(s, h) ==
  /\ \A t, u \in lastStart[h] : t = u
  /\ \A t \in lastStart[h] : t <= now /\ (Idle(h) => t + Slot(s, h) <= now)
  /\ \A c \in events : Completes(c, h) => \E t \in lastStart[h] : c.at = t + Slot(s, h)

(* The receptions at the end of a hop are spaced by every hop up to it.    *)
SpacedAt(s, h) ==
  /\ \A e \in Receptions(h) :
       \E t \in lastStart[h] : e.at <= t + Slot(s, h) + Delay
  /\ \A e, f \in Receptions(h) :
       e.uid < f.uid => \A i \in 1 .. h : e.at + Slot(s, i) <= f.at

(* When the last packet entered hop h, a hop that is no bottleneck: when   *)
(* its transmission began, or, if it has to wait, one slot later than the  *)
(* transmission it waits for.                                              *)
Entered(s, h, t) == IF queue[h] = <<>> THEN t ELSE t + Slot(s, h)

(* Hop h is no bottleneck, because hop i before it is as slow: nothing     *)
(* waits there for longer than an instant, and what comes next comes at    *)
(* least a slot of i after what came last.                                 *)
QuietAt(s, i, h) ==
  /\ Len(queue[h]) <= 1
  /\ queue[h] # <<>> => /\ byteTime[i] = byteTime[h]
                        /\ \A t \in lastStart[h] : now = t + Slot(s, h)
  /\ refused[h] = {}
  /\ \A t \in lastStart[h] :
       /\ \A e \in Receptions(h - 1) : Entered(s, h, t) + Slot(s, i) <= e.at
       /\ \E u \in lastStart[h - 1] : Entered(s, h, t) <= u + Slot(s, h - 1) + Delay

(* The same at the end of the row, for what has arrived last. *)
ArrivedOf(s, f) ==
  /\ \A e \in Receptions(HopCount) : \A i \in Hop :
       stats[f].timeLastRx + Slot(s, i) <= e.at
  /\ \E t \in lastStart[HopCount] :
       stats[f].timeLastRx <= t + Slot(s, HopCount) + Delay

Spaced(s) ==
  /\ \A h \in Hop : TransmitsAt(s, h) /\ SpacedAt(s, h)
  /\ \A h \in Hop : \A i \in 1 .. h - 1 :
       byteTime[i] >= byteTime[h] => QuietAt(s, i, h)
  /\ \A f \in Flow : stats[f].rx > 0 => ArrivedOf(s, f)

SpacingInv == \A s \in {Size[f] : f \in Flow} : OnlySize(s) => Spaced(s)

(* The inductive invariant, for every row of links, every mix of flows and *)
(* every interleaving of what is offered with the events.                  *)
IInv ==
  /\ TypeOK
  /\ EventInv
  /\ MachineInv
  /\ HandInv
  /\ OrderInv
  /\ AccountInv
  /\ SpacingInv
=============================================================================
