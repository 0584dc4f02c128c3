---------------------------- MODULE TandemProofs ----------------------------
(***************************************************************************)
(* Proofs that the safety properties of Tandem hold for every row of       *)
(* links, every set of flows, every capacity and every delay, and that the *)
(* row implements LossyPath.                                               *)
(***************************************************************************)
EXTENDS TandemInvariant, SequenceTheorems, FiniteSetTheorems, TLAPS

USE HopAssumption, RateAssumption, PacketAssumption, LinkAssumption,
    OfferAssumption
-----------------------------------------------------------------------------
(* The operators the model is built from. *)

(* Hops are natural numbers; the packet None is not a packet. *)
LEMMA HopType == Hop \subseteq Nat \ {0} /\ 1 \in Hop /\ HopCount \in Hop
BY DEF Hop

LEMMA NoneIsNoPacket == None \notin Packet
BY DEF None, Packet

LEMMA PacketType == \A p \in Packet : p.flow \in Flow /\ p.id \in Nat \ {0}
BY DEF Packet

(* A transmission takes time. *)
LEMMA Product == ASSUME NEW m \in Nat \ {0}, NEW n \in Nat \ {0} PROVE m * n \in Nat \ {0}
BY SMT

LEMMA TxTimeType ==
  ASSUME byteTime \in ByteTimes
  PROVE  \A h \in Hop, f \in Flow : TxTime(h, f) \in Nat \ {0}
<1>1. \A h \in Hop : byteTime[h] \in Nat \ {0}
  OBVIOUS
<1>2. \A f \in Flow : Size[f] \in Nat \ {0}
  OBVIOUS
<1>. QED  BY <1>1, <1>2, Product DEF TxTime

(* The fields of an event. *)
LEMMA EventTypes ==
  \A e \in Event : /\ e.uid \in Nat /\ e.at \in Nat /\ e.hop \in Hop
                   /\ e.kind \in {"TransmitComplete", "Receive"}
                   /\ e.kind = "Receive" => e.pkt \in Packet
BY DEF Event, Completions

(* Heads and tails. *)
LEMMA HeadTail ==
  ASSUME NEW S, NEW q \in Seq(S), q # <<>>
  PROVE  /\ Len(q) \in Nat \ {0}
         /\ Head(q) = q[1] /\ Head(q) \in S
         /\ Tail(q) \in Seq(S) /\ Len(Tail(q)) = Len(q) - 1
         /\ \A i \in 1 .. Len(q) - 1 : Tail(q)[i] = q[i + 1]
         /\ \A i \in 1 .. Len(q) : q[i] \in S
OBVIOUS

(* A queue with a packet more. *)
LEMMA Appended ==
  ASSUME NEW S, NEW q \in Seq(S), NEW p \in S
  PROVE  /\ Append(q, p) \in Seq(S) /\ Append(q, p) # <<>>
         /\ Len(q) \in Nat /\ Len(Append(q, p)) = Len(q) + 1
         /\ \A i \in 1 .. Len(q) : Append(q, p)[i] = q[i] /\ q[i] \in S
         /\ Append(q, p)[Len(q) + 1] = p
OBVIOUS

(* How far a disc fills m_queue. *)
LEMMA FillType ==
  \A n \in Nat : /\ Fill(n) \in 0 .. DeviceLimit /\ Fill(n) <= n
                 /\ Fill(n) = 0 <=> n = 0
                 /\ Fill(n) < DeviceLimit => Fill(n) = n
                 /\ \A k \in Nat : k <= n /\ k <= DeviceLimit => k <= Fill(n)
BY DEF Fill

(* What the three orders say, one by one. *)
LEMMA Orders ==
  ASSUME OrderInv
  PROVE  /\ \A h \in Hop : \A e, f \in Receptions(h) :
              e.uid < f.uid => e.at <= f.at /\ e.pkt.id < f.pkt.id
         /\ \A h \in Hop : \A i, j \in 1 .. Len(queue[h]) :
              i < j => queue[h][i].id < queue[h][j].id
         /\ \A h \in Hop : \A p \in OnWire(h), q \in Queued(h) : p.id < q.id
         /\ \A g, h \in Hop : g < h => \A p \in At(h), q \in At(g) : p.id < q.id
<1>1. \A g, h \in Hop : g < h => g \in 1 .. h - 1
  BY DEF Hop
<1>. QED  BY <1>1 DEF OrderInv

(* The receptions among the events E, and what they carry to the end of h. *)
RecIn(E, h) == {e \in E : e.kind = "Receive" /\ e.hop = h}
WireIn(E, h) == {e.pkt : e \in RecIn(E, h)}
AtIn(E, h) == Queued(h) \cup WireIn(E, h)

LEMMA InEvents ==
  \A h : RecIn(events, h) = Receptions(h) /\ WireIn(events, h) = OnWire(h) /\ AtIn(events, h) = At(h)
BY DEF RecIn, WireIn, AtIn, Receptions, OnWire, At

LEMMA InEventsNext ==
  \A h : RecIn(events', h) = Receptions(h)' /\ WireIn(events', h) = OnWire(h)'
BY DEF RecIn, WireIn, Receptions, OnWire
-----------------------------------------------------------------------------
(* What every operation of a device starts from: some of the events are    *)
(* left to happen, none of them before the time of the operation.          *)
Left(E) ==
  /\ TypeOK /\ EventInv /\ MachineInv /\ OrderInv
  /\ E \subseteq events
  /\ now' \in Nat /\ now <= now' /\ \A e \in E : now' <= e.at
  /\ byteTime' = byteTime

(* No completion of hop h has been taken out. *)
Keeps(E, h) == \A c \in events : Completes(c, h) => c \in E

(* A packet that comes to hop h is younger than what is there and further  *)
(* on, and older than what is still to come.                               *)
Entering(E, h, p) ==
  /\ p \in Packet
  /\ \A g \in Hop : \A r \in AtIn(E, g) : IF g < h THEN p.id < r.id ELSE r.id < p.id

(* What the operations preserve. *)
MotionInv == EventInv /\ MachineInv /\ OrderInv

(* The typing that the operations of a device are about. *)
DeviceTypes ==
  /\ queue \in [Hop -> Seq(Packet)]
  /\ sending \in [Hop -> Packet \cup {None}]
  /\ events \in SUBSET Event
  /\ nextUid \in Nat
  /\ refused \in [Hop -> SUBSET Packet]
  /\ lastStart \in [Hop -> SUBSET Nat]

(* The devices do nothing: a packet is refused, or leaves the row.         *)
LEMMA LeaveStep ==
  ASSUME NEW E, Left(E), \A g \in Hop : Keeps(E, g),
         UNCHANGED <<queue, sending>>, events' = E, nextUid' \in Nat, nextUid <= nextUid'
  PROVE  MotionInv' /\ \A g \in Hop : At(g)' = AtIn(E, g)
<1>1. EventInv'
  BY EventTypes DEF EventInv, Left, TypeOK
<1>2. \A g \in Hop : Receptions(g)' = RecIn(E, g) /\ RecIn(E, g) \subseteq Receptions(g)
  BY DEF Receptions, RecIn, Left
<1>3. MachineInv'
  <2>1. \A g \in Hop : (Idle(g)' <=> Idle(g)) /\ queue'[g] = queue[g]
    BY DEF Idle
  <2>2. \A e \in events : e.at \in Nat
    BY EventTypes DEF Left, TypeOK
  <2>. QED  BY <1>2, <2>1, <2>2 DEF MachineInv, Left, Keeps, Completes, TypeOK, Receptions
<1>4. \A g \in Hop : /\ OnWire(g)' = WireIn(E, g) /\ WireIn(E, g) \subseteq OnWire(g)
                     /\ Queued(g)' = Queued(g)
                     /\ At(g)' = AtIn(E, g) /\ AtIn(E, g) \subseteq At(g)
  BY <1>2 DEF OnWire, WireIn, Queued, At, AtIn
<1>5. OrderInv'
  <2>1. \A g \in Hop : \A k \in 1 .. g - 1 : k \in Hop
    BY DEF Hop
  <2>. QED  BY <1>2, <1>4, <2>1 DEF OrderInv, Left
<1>. QED  BY <1>1, <1>3, <1>4, <1>5 DEF MotionInv

(* Send when the device is busy: the packet goes to the end of the queue.  *)
LEMMA EnqueueStep ==
  ASSUME NEW E, NEW h \in Hop, NEW p \in Packet, Left(E), \A g \in Hop : Keeps(E, g),
         Entering(E, h, p), ~Idle(h),
         Enqueue(h, p), events' = E, nextUid' \in Nat, nextUid <= nextUid'
  PROVE  /\ DeviceTypes' /\ MotionInv'
         /\ At(h)' = AtIn(E, h) \cup {p}
         /\ \A g \in Hop : g # h => At(g)' = AtIn(E, g)
<1>. USE DEF Enqueue
<1>1. queue \in [Hop -> Seq(Packet)]
  BY DEF Left, TypeOK
<1>2. /\ queue'[h] \in Seq(Packet) /\ Len(queue'[h]) = Len(queue[h]) + 1
      /\ \A i \in 1 .. Len(queue[h]) : queue'[h][i] = queue[h][i]
      /\ queue'[h][Len(queue[h]) + 1] = p
      /\ Len(queue[h]) \in Nat
  BY <1>1, Appended
<1>3. \A g \in Hop : g # h => queue'[g] = queue[g]
  BY <1>1
<1>4. DeviceTypes'
  BY <1>1, <1>2, <1>3 DEF DeviceTypes, Left, TypeOK
<1>5. EventInv'
  BY EventTypes DEF EventInv, Left, TypeOK
<1>6. \A g \in Hop : Receptions(g)' = RecIn(E, g) /\ RecIn(E, g) \subseteq Receptions(g)
  BY DEF Receptions, RecIn, Left
<1>7. MachineInv'
  <2>1. \A g \in Hop : Idle(g)' <=> Idle(g)
    BY DEF Idle
  <2>2. \A e \in events : e.at \in Nat
    BY EventTypes DEF Left, TypeOK
  <2>3. \A g \in Hop : Idle(g) => queue'[g] = queue[g]
    BY <1>3
  <2>. QED  BY <1>6, <2>1, <2>2, <2>3 DEF MachineInv, Left, Keeps, Completes, TypeOK, Receptions
<1>8. \A g \in Hop : /\ OnWire(g)' = WireIn(E, g) /\ WireIn(E, g) \subseteq OnWire(g)
                     /\ AtIn(E, g) \subseteq At(g)
  BY <1>6 DEF OnWire, WireIn, Left, At, AtIn
<1>9. /\ Queued(h)' = Queued(h) \cup {p}
      /\ \A g \in Hop : g # h => Queued(g)' = Queued(g)
  BY <1>2, <1>3 DEF Queued
<1>10. /\ At(h)' = AtIn(E, h) \cup {p}
       /\ \A g \in Hop : g # h => At(g)' = AtIn(E, g)
  BY <1>8, <1>9 DEF At, AtIn
<1>11. OrderInv'
  <2>4. ASSUME NEW g \in Hop, NEW e \in Receptions(g)', NEW f \in Receptions(g)', e.uid < f.uid
        PROVE  e.at <= f.at /\ e.pkt.id < f.pkt.id
    BY <2>4, <1>6 DEF OrderInv, Left
  <2>5. ASSUME NEW g \in Hop, NEW i \in 1 .. Len(queue'[g]), NEW j \in 1 .. Len(queue'[g]), i < j
        PROVE  queue'[g][i].id < queue'[g][j].id
    <3>1. CASE g # h
      BY <3>1, <1>3, <2>5 DEF OrderInv, Left
    <3>2. CASE g = h /\ j = Len(queue[h]) + 1
      <4>1. queue'[g][i] \in AtIn(E, h) /\ queue'[g][j] = p
        BY <3>2, <1>2, <2>5 DEF AtIn, Queued
      <4>. QED  BY <4>1, <3>2, HopType DEF Entering
    <3>3. CASE g = h /\ j # Len(queue[h]) + 1
      BY <3>3, <1>2, <2>5 DEF OrderInv, Left
    <3>. QED  BY <3>1, <3>2, <3>3
  <2>6. ASSUME NEW g \in Hop, NEW r \in OnWire(g)', NEW q \in Queued(g)'
        PROVE  r.id < q.id
    <3>1. CASE q \in Queued(g)
      BY <3>1, <1>8, Orders DEF Left
    <3>2. CASE g = h /\ q = p
      BY <3>2, <1>8, HopType DEF Entering, AtIn
    <3>. QED  BY <3>1, <3>2, <1>9
  <2>7. ASSUME NEW g \in Hop, NEW k \in 1 .. g - 1, NEW r \in At(g)', NEW q \in At(k)'
        PROVE  r.id < q.id
    <3>0. k \in Hop /\ k < g
      BY DEF Hop
    <3>1. CASE r \in AtIn(E, g) /\ q \in AtIn(E, k)
      BY <3>0, <3>1, <1>8, Orders DEF Left
    <3>2. CASE g = h /\ r = p /\ q \in AtIn(E, k)
      BY <3>0, <3>2 DEF Entering
    <3>3. CASE k = h /\ q = p /\ r \in AtIn(E, g)
      BY <3>0, <3>3, HopType DEF Entering
    <3>. QED  BY <3>0, <3>1, <3>2, <3>3, <1>10
  <2>. QED  BY <2>4, <2>5, <2>6, <2>7 DEF OrderInv
<1>. QED  BY <1>4, <1>5, <1>7, <1>10, <1>11 DEF MotionInv

(* The transmission of the head of q begins, where the rest of q is the    *)
(* queue: of the packet that came to an idle device, or of the queue of a  *)
(* device that has completed a transmission.                               *)
Startable(E, h, q) ==
  /\ q \in Seq(Packet) /\ q # <<>>
  /\ \A c \in E : ~Completes(c, h)
  /\ \A e \in RecIn(E, h) : e.at <= now' + Delay
  /\ \A i, j \in 1 .. Len(q) : i < j => q[i].id < q[j].id
  /\ \A i \in 1 .. Len(q) :
       /\ \A r \in WireIn(E, h) : r.id < q[i].id
       /\ \A g \in Hop : g # h =>
            \A r \in AtIn(E, g) : IF g < h THEN q[i].id < r.id ELSE r.id < q[i].id

(* The two events of a transmission. *)
LEMMA ScheduledTypes ==
  ASSUME NEW h \in Hop, NEW p \in Packet, byteTime \in ByteTimes,
         nextUid \in Nat, now' \in Nat
  PROVE  /\ Completion(h, p) \in Event /\ Reception(h, p) \in Event
         /\ Completion(h, p).at \in Nat /\ Reception(h, p).at = Completion(h, p).at + Delay
         /\ now' <= Completion(h, p).at
         /\ Completion(h, p).at = now' + TxTime(h, p.flow)
         /\ Completion(h, p).uid = nextUid /\ Reception(h, p).uid = nextUid + 1
         /\ Completion(h, p).kind = "TransmitComplete" /\ Completion(h, p).hop = h
         /\ Reception(h, p).kind = "Receive" /\ Reception(h, p).hop = h
         /\ Reception(h, p).pkt = p
<1>1. TxTime(h, p.flow) \in Nat \ {0}
  BY PacketType, TxTimeType
<1>2. /\ Completion(h, p).at = now' + TxTime(h, p.flow)
      /\ Completion(h, p).uid = nextUid
      /\ Completion(h, p).kind = "TransmitComplete" /\ Completion(h, p).hop = h
  BY DEF Completion
<1>3. /\ Reception(h, p).at = now' + TxTime(h, p.flow) + Delay
      /\ Reception(h, p).uid = nextUid + 1
      /\ Reception(h, p).kind = "Receive" /\ Reception(h, p).hop = h
      /\ Reception(h, p).pkt = p
  BY DEF Reception
<1>4. Completion(h, p) \in Event
  BY <1>1 DEF Completion, Event, Completions
<1>5. Reception(h, p) \in Event
  BY <1>1 DEF Reception, Event
<1>. QED  BY <1>1, <1>2, <1>3, <1>4, <1>5

LEMMA StartStep ==
  ASSUME NEW E, NEW h \in Hop, NEW q, Left(E), \A g \in Hop : g # h => Keeps(E, g),
         Startable(E, h, q), TransmitStart(h, q),
         events' = E \cup Scheduled(h, q), nextUid' \in Nat, nextUid + 2 <= nextUid'
  PROVE  /\ DeviceTypes' /\ MotionInv'
         /\ At(h)' = WireIn(E, h) \cup {q[i] : i \in 1 .. Len(q)}
         /\ \A g \in Hop : g # h => At(g)' = AtIn(E, g)
<1>. USE DEF TransmitStart
<1>. DEFINE p == Head(q)
            c == Completion(h, p)
            x == Reception(h, p)
<1>1. /\ byteTime \in ByteTimes /\ queue \in [Hop -> Seq(Packet)]
      /\ sending \in [Hop -> Packet \cup {None}] /\ E \subseteq Event
      /\ nextUid \in Nat /\ now \in Nat /\ now' \in Nat
  BY DEF Left, TypeOK
<1>2. /\ q \in Seq(Packet) /\ Len(q) \in Nat \ {0}
      /\ p = q[1] /\ p \in Packet
      /\ Tail(q) \in Seq(Packet) /\ Len(Tail(q)) = Len(q) - 1
      /\ \A i \in 1 .. Len(q) - 1 : Tail(q)[i] = q[i + 1]
      /\ \A i \in 1 .. Len(q) : q[i] \in Packet
  BY HeadTail DEF Startable
<1>3. /\ c \in Event /\ x \in Event /\ c.at \in Nat /\ x.at = c.at + Delay /\ now' <= c.at
      /\ c.uid = nextUid /\ x.uid = nextUid + 1
      /\ c.kind = "TransmitComplete" /\ c.hop = h
      /\ x.kind = "Receive" /\ x.hop = h /\ x.pkt = p
  BY <1>1, <1>2, ScheduledTypes
<1>4. events' = E \cup {c, x}
  BY DEF Scheduled
<1>. HIDE DEF p, c, x
<1>5. /\ queue'[h] = Tail(q) /\ sending'[h] = p /\ sending'[h] # None
      /\ \A g \in Hop : g # h => queue'[g] = queue[g] /\ sending'[g] = sending[g]
  BY <1>1, <1>2, NoneIsNoPacket DEF p
<1>6. DeviceTypes'
  <2>1. queue' \in [Hop -> Seq(Packet)] /\ sending' \in [Hop -> Packet \cup {None}]
    BY <1>1, <1>2, <1>5 DEF p
  <2>3. events' \in SUBSET Event /\ nextUid' \in Nat
    BY <1>1, <1>3, <1>4
  <2>4. refused' \in [Hop -> SUBSET Packet] /\ lastStart' \in [Hop -> SUBSET Nat]
    BY <1>1 DEF Left, TypeOK
  <2>. QED  BY <2>1, <2>3, <2>4 DEF DeviceTypes
<1>7. \A e \in E : e.uid \in Nat /\ e.uid < nextUid /\ e.at \in Nat /\ now' <= e.at
  BY <1>1, EventTypes DEF Left, EventInv
<1>8. EventInv'
  <2>1. \A e \in events' : now' <= e.at /\ e.uid < nextUid'
    <3>1. \A e \in E : now' <= e.at /\ e.uid < nextUid'
      BY <1>1, <1>7
    <3>2. now' <= c.at /\ now' <= x.at /\ c.uid < nextUid' /\ x.uid < nextUid'
      BY <1>1, <1>3
    <3>. QED  BY <3>1, <3>2, <1>4
  <2>2. ASSUME NEW e \in events', NEW f \in events', e.uid = f.uid
        PROVE  e = f
    <3>1. CASE e \in E /\ f \in E
      BY <3>1, <2>2 DEF EventInv, Left
    <3>2. CASE e \notin E \/ f \notin E
      <4>1. \A a \in E : a.uid # nextUid /\ a.uid # nextUid + 1
        BY <1>1, <1>7
      <4>2. nextUid # nextUid + 1
        BY <1>1
      <4>3. e \in E \/ e = c \/ e = x
        BY <1>4
      <4>4. f \in E \/ f = c \/ f = x
        BY <1>4
      <4>5. c.uid = nextUid /\ x.uid = nextUid + 1
        BY <1>3
      <4>6. CASE e \in E
        BY <4>6, <3>2, <4>1, <4>4, <4>5, <2>2
      <4>7. CASE e = c
        BY <4>7, <4>1, <4>2, <4>4, <4>5, <2>2
      <4>8. CASE e = x
        BY <4>8, <4>1, <4>2, <4>4, <4>5, <2>2
      <4>. QED  BY <4>3, <4>6, <4>7, <4>8
    <3>. QED  BY <3>1, <3>2
  <2>. QED  BY <2>1, <2>2 DEF EventInv
<1>9. /\ Receptions(h)' = RecIn(E, h) \cup {x}
      /\ \A g \in Hop : g # h => Receptions(g)' = RecIn(E, g)
      /\ \A g \in Hop : RecIn(E, g) \subseteq Receptions(g) /\ RecIn(E, g) \subseteq E
  BY <1>3, <1>4 DEF Receptions, RecIn, Left
<1>10. MachineInv'
  <2>1. ~Idle(h)' /\ \A g \in Hop : g # h => (Idle(g)' <=> Idle(g))
    BY <1>5 DEF Idle
  <2>2. c \in events' /\ Completes(c, h)
    BY <1>3, <1>4 DEF Completes
  <2>3. \A d \in events' : Completes(d, h) => d = c
    BY <1>3, <1>4 DEF Completes, Startable
  <2>4. \A e \in Receptions(h)' : e.at <= c.at + Delay
    BY <1>1, <1>3, <1>7, <1>9 DEF Startable
  <2>5. ASSUME NEW g \in Hop, g # h
        PROVE  /\ \A e \in events' : Completes(e, g) => e \in E
               /\ \A e \in events : Completes(e, g) => e \in E
    BY <2>5, <1>3, <1>4 DEF Keeps, Completes
  <2>6. ASSUME NEW g \in Hop, g # h, Idle(g)'
        PROVE  /\ queue'[g] = <<>>
               /\ \A e \in events' : ~Completes(e, g)
               /\ \A e \in Receptions(g)' : e.at <= now' + Delay
    <3>1. queue[g] = <<>> /\ \A e \in Receptions(g) : e.at <= now + Delay
      BY <2>1, <2>6 DEF MachineInv, Left
    <3>2. \A e \in E : ~Completes(e, g)
      BY <2>1, <2>6 DEF MachineInv, Left
    <3>3. now <= now'
      BY DEF Left
    <3>. QED  BY <1>1, <1>5, <1>7, <1>9, <2>5, <2>6, <3>1, <3>2, <3>3
  <2>7. ASSUME NEW g \in Hop, g # h, ~Idle(g)'
        PROVE  \E e \in events' : Completes(e, g)
    BY <2>1, <2>5, <2>7, <1>4 DEF MachineInv, Left
  <2>8. ASSUME NEW g \in Hop, g # h, NEW a \in events', Completes(a, g)
        PROVE  /\ \A d \in events' : Completes(d, g) => d = a
               /\ \A e \in Receptions(g)' : e.at <= a.at + Delay
    BY <2>5, <2>8, <1>9 DEF MachineInv, Left
  <2>9. \A d \in events' : Completes(d, h) =>
          /\ \A e \in events' : Completes(e, h) => e = d
          /\ \A e \in Receptions(h)' : e.at <= d.at + Delay
    BY <2>3, <2>4
  <2>. QED  BY <2>1, <2>2, <2>6, <2>7, <2>8, <2>9 DEF MachineInv
<1>11. /\ OnWire(h)' = WireIn(E, h) \cup {p}
       /\ \A g \in Hop : g # h => OnWire(g)' = WireIn(E, g)
       /\ \A g \in Hop : WireIn(E, g) \subseteq OnWire(g) /\ AtIn(E, g) \subseteq At(g)
  BY <1>3, <1>9 DEF OnWire, WireIn, At, AtIn
<1>12. /\ Queued(h)' = {q[i] : i \in 2 .. Len(q)}
       /\ \A g \in Hop : g # h => Queued(g)' = Queued(g)
  <2>1. \A i \in 1 .. Len(q) - 1 : i + 1 \in 2 .. Len(q) /\ Tail(q)[i] = q[i + 1]
    BY <1>2
  <2>2. \A i \in 2 .. Len(q) : i - 1 \in 1 .. Len(q) - 1 /\ Tail(q)[i - 1] = q[i]
    <3>1. \A i \in 2 .. Len(q) : i - 1 \in 1 .. Len(q) - 1 /\ (i - 1) + 1 = i
      BY <1>2
    <3>. QED  BY <1>2, <3>1
  <2>3. Queued(h)' = {Tail(q)[i] : i \in 1 .. Len(q) - 1}
    <3>1. queue'[h] = Tail(q) /\ Len(Tail(q)) = Len(q) - 1
      BY <1>2, <1>5
    <3>. QED  BY <3>1, Zenon DEF Queued
  <2>4. {Tail(q)[i] : i \in 1 .. Len(q) - 1} = {q[i] : i \in 2 .. Len(q)}
    <3>1. ASSUME NEW i \in 1 .. Len(q) - 1
          PROVE  Tail(q)[i] \in {q[k] : k \in 2 .. Len(q)}
      BY <2>1
    <3>2. ASSUME NEW i \in 2 .. Len(q)
          PROVE  q[i] \in {Tail(q)[k] : k \in 1 .. Len(q) - 1}
      BY <2>2
    <3>. QED  BY <3>1, <3>2, Zenon
  <2>5. \A g \in Hop : g # h => Queued(g)' = Queued(g)
    BY <1>5 DEF Queued
  <2>. QED  BY <2>3, <2>4, <2>5
<1>13. /\ At(h)' = WireIn(E, h) \cup {q[i] : i \in 1 .. Len(q)}
       /\ \A g \in Hop : g # h => At(g)' = AtIn(E, g)
  <2>1. {q[i] : i \in 1 .. Len(q)} = {q[i] : i \in 2 .. Len(q)} \cup {p}
    BY <1>2
  <2>. QED  BY <1>11, <1>12, <2>1 DEF At, AtIn
<1>14. OrderInv'
  <2>4. ASSUME NEW g \in Hop, NEW e \in Receptions(g)', NEW f \in Receptions(g)', e.uid < f.uid
        PROVE  e.at <= f.at /\ e.pkt.id < f.pkt.id
    <3>1. CASE e \in RecIn(E, g) /\ f \in RecIn(E, g)
      BY <3>1, <1>9, <2>4 DEF OrderInv, Left
    <3>2. CASE g = h /\ f = x /\ e \in RecIn(E, h)
      <4>1. e.at <= now' + Delay /\ e.pkt \in WireIn(E, h)
        BY <3>2 DEF Startable, WireIn
      <4>2. e.pkt.id < p.id
        BY <4>1, <1>2 DEF Startable
      <4>. QED  BY <4>1, <4>2, <3>2, <1>1, <1>3, <1>7, <1>9
    <3>3. CASE e = x
      <4>1. f.uid = nextUid + 1 \/ (f.uid < nextUid /\ f.uid \in Nat)
        BY <1>3, <1>7, <1>9
      <4>. QED  BY <3>3, <4>1, <2>4, <1>1, <1>3
    <3>. QED  BY <3>1, <3>2, <3>3, <1>9
  <2>5. ASSUME NEW g \in Hop, NEW i \in 1 .. Len(queue'[g]), NEW j \in 1 .. Len(queue'[g]), i < j
        PROVE  queue'[g][i].id < queue'[g][j].id
    <3>1. CASE g # h
      BY <3>1, <1>5, <2>5 DEF OrderInv, Left
    <3>2. CASE g = h
      <4>0. queue'[g] = Tail(q)
        BY <3>2, <1>5
      <4>1. i \in 1 .. Len(Tail(q)) /\ j \in 1 .. Len(Tail(q))
        BY <2>5, <4>0
      <4>3. /\ i + 1 \in 1 .. Len(q) /\ j + 1 \in 1 .. Len(q) /\ i + 1 < j + 1
            /\ Tail(q)[i] = q[i + 1] /\ Tail(q)[j] = q[j + 1]
        BY <1>2, <4>1, <2>5
      <4>2. \A a, b \in 1 .. Len(q) : a < b => q[a].id < q[b].id
        BY DEF Startable
      <4>. QED  BY <4>0, <4>2, <4>3
    <3>. QED  BY <3>1, <3>2
  <2>6. ASSUME NEW g \in Hop, NEW r \in OnWire(g)', NEW u \in Queued(g)'
        PROVE  r.id < u.id
    <3>1. CASE g # h
      BY <3>1, <1>11, <1>12, Orders DEF Left
    <3>2. CASE g = h
      <4>1. PICK i \in 2 .. Len(q) : u = q[i]
        BY <3>2, <1>12
      <4>. QED  BY <4>1, <3>2, <1>11, <1>2 DEF Startable
    <3>. QED  BY <3>1, <3>2
  <2>7. ASSUME NEW g \in Hop, NEW k \in 1 .. g - 1, NEW r \in At(g)', NEW u \in At(k)'
        PROVE  r.id < u.id
    <3>0. k \in Hop /\ k < g /\ ~(g < k)
      BY DEF Hop
    <3>1. CASE r \in AtIn(E, g) /\ u \in AtIn(E, k)
      BY <3>0, <3>1, <1>11, Orders DEF Left
    <3>2. CASE g = h /\ r \in {q[i] : i \in 1 .. Len(q)} /\ k # h
      BY <3>0, <3>2, <1>13 DEF Startable
    <3>3. CASE k = h /\ u \in {q[i] : i \in 1 .. Len(q)} /\ g # h
      BY <3>0, <3>3, <1>13 DEF Startable
    <3>4. WireIn(E, h) \subseteq AtIn(E, h)
      BY DEF AtIn
    <3>. QED  BY <3>0, <3>1, <3>2, <3>3, <3>4, <1>13
  <2>. QED  BY <2>4, <2>5, <2>6, <2>7 DEF OrderInv
<1>. QED  BY <1>6, <1>8, <1>10, <1>13, <1>14 DEF MotionInv

(* TransmitComplete when the queue is empty: the device becomes idle. *)
LEMMA IdleStep ==
  ASSUME NEW h \in Hop, NEW c \in events, Completes(c, h), Left(events \ {c}),
         queue[h] = <<>>, sending' = [sending EXCEPT ![h] = None],
         UNCHANGED <<queue, nextUid>>, events' = events \ {c}, now' = c.at
  PROVE  MotionInv' /\ \A g \in Hop : At(g)' = At(g)
<1>. DEFINE E == events \ {c}
<1>1. EventInv'
  BY DEF EventInv, Left
<1>2. \A g \in Hop : Receptions(g)' = Receptions(g)
  BY DEF Receptions, Completes
<1>3. MachineInv'
  <2>1. Idle(h)' /\ \A g \in Hop : g # h => (Idle(g)' <=> Idle(g))
    BY DEF Idle, Left, TypeOK
  <2>2. \A e \in events : e.at \in Nat
    BY EventTypes DEF Left, TypeOK
  <2>3. \A e \in events' : ~Completes(e, h)
    BY DEF MachineInv, Left
  <2>4. \A e \in Receptions(h)' : e.at <= now' + Delay
    BY <1>2 DEF MachineInv, Left
  <2>5. ASSUME NEW g \in Hop, g # h, Idle(g)'
        PROVE  /\ queue'[g] = <<>>
               /\ \A e \in events' : ~Completes(e, g)
               /\ \A e \in Receptions(g)' : e.at <= now' + Delay
    <3>1. /\ queue[g] = <<>> /\ \A e \in events : ~Completes(e, g)
          /\ \A e \in Receptions(g) : e.at <= now + Delay
      BY <2>1, <2>5 DEF MachineInv, Left
    <3>2. now \in Nat /\ now <= now' /\ now' \in Nat
      BY DEF Left, TypeOK
    <3>3. \A e \in Receptions(g) : e.at \in Nat
      BY <2>2 DEF Receptions
    <3>. QED  BY <3>1, <3>2, <3>3, <1>2
  <2>6. ASSUME NEW g \in Hop, g # h, ~Idle(g)'
        PROVE  \E e \in events' : Completes(e, g)
    BY <2>1, <2>6 DEF MachineInv, Left, Completes
  <2>7. ASSUME NEW g \in Hop, NEW a \in events', Completes(a, g)
        PROVE  /\ \A d \in events' : Completes(d, g) => d = a
               /\ \A e \in Receptions(g)' : e.at <= a.at + Delay
    BY <2>7, <1>2 DEF MachineInv, Left
  <2>8. queue'[h] = <<>>
    OBVIOUS
  <2>. QED  BY <2>1, <2>3, <2>4, <2>5, <2>6, <2>7, <2>8 DEF MachineInv
<1>4. \A g \in Hop : /\ OnWire(g)' = OnWire(g) /\ Queued(g)' = Queued(g) /\ At(g)' = At(g)
  BY <1>2 DEF OnWire, Queued, At
<1>5. OrderInv'
  <2>1. \A g \in Hop : \A k \in 1 .. g - 1 : k \in Hop
    BY DEF Hop
  <2>. QED  BY <1>2, <1>4, <2>1 DEF OrderInv, Left
<1>. QED  BY <1>1, <1>3, <1>4, <1>5 DEF MotionInv
-----------------------------------------------------------------------------
(* The events and what is offered are such operations. *)

(* What the next event leaves, and what is left when a packet is offered.  *)
LEMMA NextLeaves ==
  ASSUME TypeOK, MotionInv, NEW e \in events, IsNext(e), now' = e.at, byteTime' = byteTime
  PROVE  Left(events \ {e})
<1>1. \A f \in events : f.at \in Nat /\ f.uid \in Nat
  BY EventTypes DEF TypeOK
<1>2. \A f \in events : now' <= f.at
  BY <1>1 DEF IsNext
<1>. QED  BY <1>1, <1>2 DEF Left, MotionInv, EventInv

LEMMA OfferLeaves ==
  ASSUME TypeOK, MotionInv, InTime, byteTime' = byteTime
  PROVE  Left(events)
BY DEF InTime, Left, MotionInv, TypeOK

(* The pending completion is the only one of its hop. *)
LEMMA OneCompletion ==
  ASSUME TypeOK, MotionInv, NEW h \in Hop, NEW c \in events, Completes(c, h)
  PROVE  /\ ~Idle(h)
         /\ \A d \in events \ {c} : ~Completes(d, h)
         /\ \A g \in Hop : g # h => Keeps(events \ {c}, g)
         /\ \A g \in Hop : /\ RecIn(events \ {c}, g) = Receptions(g)
                           /\ WireIn(events \ {c}, g) = OnWire(g)
                           /\ AtIn(events \ {c}, g) = At(g)
<1>1. ~Idle(h) /\ \A d \in events \ {c} : ~Completes(d, h)
  BY DEF MotionInv, MachineInv
<1>2. \A g \in Hop : g # h => Keeps(events \ {c}, g)
  BY DEF Keeps, Completes
<1>3. \A g \in Hop : RecIn(events \ {c}, g) = Receptions(g)
  BY DEF RecIn, Receptions, Completes
<1>. QED  BY <1>1, <1>2, <1>3 DEF WireIn, OnWire, AtIn, At

(* When a completion is the next event, its queue may be transmitted.      *)
LEMMA QueueStartable ==
  ASSUME TypeOK, MotionInv, NEW h \in Hop, NEW c \in events, Completes(c, h),
         now' = c.at, queue[h] # <<>>
  PROVE  Startable(events \ {c}, h, queue[h])
<1>. DEFINE E == events \ {c}
<1>1. queue[h] \in Seq(Packet)
  BY DEF TypeOK
<1>2. \A e \in Receptions(h) : e.at <= now' + Delay
  BY DEF MotionInv, MachineInv
<1>3. \A i \in 1 .. Len(queue[h]) : queue[h][i] \in Queued(h) /\ queue[h][i] \in At(h)
  BY DEF Queued, At
<1>4. ASSUME NEW i \in 1 .. Len(queue[h]), NEW r \in OnWire(h)
      PROVE  r.id < queue[h][i].id
  BY <1>3, Orders DEF MotionInv
<1>5. ASSUME NEW i \in 1 .. Len(queue[h]), NEW g \in Hop, g # h, NEW r \in At(g)
      PROVE  IF g < h THEN queue[h][i].id < r.id ELSE r.id < queue[h][i].id
  <2>1. g < h \/ h < g
    BY <1>5, HopType
  <2>. QED  BY <2>1, <1>3, HopType, Orders DEF MotionInv
<1>6. \A i, j \in 1 .. Len(queue[h]) : i < j => queue[h][i].id < queue[h][j].id
  BY Orders DEF MotionInv
<1>7. /\ \A d \in E : ~Completes(d, h)
      /\ RecIn(E, h) = Receptions(h) /\ WireIn(E, h) = OnWire(h)
      /\ \A g \in Hop : AtIn(E, g) = At(g)
  BY OneCompletion
<1>. HIDE DEF E
<1>8. Startable(E, h, queue[h])
  BY <1>1, <1>2, <1>4, <1>5, <1>6, <1>7 DEF Startable
<1>. QED  BY <1>8 DEF E

(* A packet that comes to an idle device may be transmitted. *)
LEMMA PacketStartable ==
  ASSUME NEW E, NEW h \in Hop, NEW p, Left(E), Entering(E, h, p), Idle(h)
  PROVE  /\ queue[h] = <<>> /\ Append(queue[h], p) = <<p>>
         /\ Startable(E, h, <<p>>)
<1>1. /\ queue[h] = <<>>
      /\ \A c \in events : ~Completes(c, h)
      /\ \A e \in Receptions(h) : e.at <= now + Delay
  BY DEF Left, MachineInv
<1>2. p \in Packet
  BY DEF Entering
<1>3. Append(queue[h], p) = <<p>>
  BY <1>1
<1>4. /\ <<p>> \in Seq(Packet) /\ <<p>> # <<>> /\ Len(<<p>>) = 1 /\ <<p>>[1] = p
  BY <1>2
<1>5. \A c \in E : ~Completes(c, h)
  BY <1>1 DEF Left
<1>6. \A e \in RecIn(E, h) : e.at <= now' + Delay
  <2>1. \A e \in RecIn(E, h) : e \in Receptions(h) /\ e.at \in Nat
    BY EventTypes DEF RecIn, Receptions, Left, TypeOK
  <2>2. now \in Nat /\ now' \in Nat /\ now <= now'
    BY DEF Left, TypeOK
  <2>. QED  BY <1>1, <2>1, <2>2
<1>7. \A r \in WireIn(E, h) : r.id < p.id
  BY HopType DEF Entering, AtIn
<1>8. \A g \in Hop : g # h => \A r \in AtIn(E, g) : IF g < h THEN p.id < r.id ELSE r.id < p.id
  BY DEF Entering
<1>9. Startable(E, h, <<p>>)
  <2>. DEFINE q == <<p>>
  <2>1. \A i \in 1 .. Len(q) : i = 1 /\ q[i] = p
    BY <1>4
  <2>3. q \in Seq(Packet) /\ q # <<>>
    BY <1>4
  <2>. HIDE DEF q
  <2>4. \A i, j \in 1 .. Len(q) : i < j => q[i].id < q[j].id
    <3>1. \A i, j \in 1 .. Len(q) : ~(i < j)
      BY <2>1
    <3>. QED  BY <3>1
  <2>5. Startable(E, h, q)
    BY <2>1, <2>3, <2>4, <1>5, <1>6, <1>7, <1>8 DEF Startable
  <2>. QED  BY <2>5 DEF q
<1>. QED  BY <1>1, <1>3, <1>9

(* A packet that arrives at the end of a hop may enter the next: it is the *)
(* oldest on its wire, and leaves that wire.                               *)
LEMMA OldestOnWire ==
  ASSUME TypeOK, MotionInv, NEW h \in Hop, NEW e \in Receptions(h), IsNext(e)
  PROVE  /\ \A f \in Receptions(h) : f # e => e.uid < f.uid /\ e.pkt.id < f.pkt.id
         /\ WireIn(events \ {e}, h) = OnWire(h) \ {e.pkt}
         /\ \A g \in Hop : g # h => /\ RecIn(events \ {e}, g) = Receptions(g)
                                    /\ WireIn(events \ {e}, g) = OnWire(g)
         /\ \A g \in Hop : Keeps(events \ {e}, g)
<1>1. \A f \in events : f.at \in Nat /\ f.uid \in Nat
  BY EventTypes DEF TypeOK
<1>2. \A f \in Receptions(h) : f \in events /\ (f.pkt \in Packet)
  BY EventTypes DEF TypeOK, Receptions
<1>3. ASSUME NEW f \in Receptions(h), f # e
      PROVE  e.uid < f.uid /\ e.pkt.id < f.pkt.id
  <2>1. e.uid # f.uid
    BY <1>2, <1>3 DEF MotionInv, EventInv
  <2>2. ~(f.uid < e.uid)
    <3>1. f.uid < e.uid => f.at <= e.at
      BY Orders DEF MotionInv
    <3>2. f.at > e.at \/ (f.at = e.at /\ f.uid >= e.uid)
      BY <1>2 DEF IsNext
    <3>. QED  BY <1>1, <1>2, <3>1, <3>2
  <2>3. e.uid < f.uid
    BY <1>1, <1>2, <2>1, <2>2
  <2>. QED  BY <2>3, Orders DEF MotionInv
<1>4. WireIn(events \ {e}, h) = OnWire(h) \ {e.pkt}
  <2>1. \A f \in Receptions(h) : f # e => f.pkt # e.pkt
    BY <1>2, <1>3, PacketType
  <2>2. RecIn(events \ {e}, h) = Receptions(h) \ {e}
    BY DEF RecIn, Receptions
  <2>. QED  BY <2>1, <2>2 DEF WireIn, OnWire
<1>5. \A g \in Hop : g # h => /\ RecIn(events \ {e}, g) = Receptions(g)
                             /\ WireIn(events \ {e}, g) = OnWire(g)
  <2>1. \A g \in Hop : g # h => RecIn(events \ {e}, g) = Receptions(g)
    BY DEF RecIn, Receptions
  <2>. QED  BY <2>1 DEF WireIn, OnWire
<1>6. \A g \in Hop : Keeps(events \ {e}, g)
  BY DEF Keeps, Completes, Receptions
<1>. QED  BY <1>3, <1>4, <1>5, <1>6

LEMMA ReceptionEnters ==
  ASSUME TypeOK, MotionInv, NEW h \in Hop, h < HopCount,
         NEW e \in Receptions(h), IsNext(e)
  PROVE  h + 1 \in Hop /\ Entering(events \ {e}, h + 1, e.pkt)
<1>. DEFINE E == events \ {e}
<1>1. h + 1 \in Hop /\ h \in Nat
  BY DEF Hop
<1>2. e.pkt \in Packet /\ e.pkt \in OnWire(h) /\ e.pkt \in At(h)
  BY EventTypes DEF TypeOK, Receptions, OnWire, At
<1>3. ASSUME NEW g \in Hop, NEW r \in AtIn(E, g)
      PROVE  IF g < h + 1 THEN e.pkt.id < r.id ELSE r.id < e.pkt.id
  <2>0. g \in Nat /\ h \in Nat
    BY HopType
  <2>1. CASE g # h
    <3>1. r \in At(g)
      <4>1. WireIn(E, g) = OnWire(g)
        <5>1. \A k \in Hop : k # h => WireIn(events \ {e}, k) = OnWire(k)
          BY OldestOnWire, ZenonT(60)
        <5>. QED  BY <2>1, <5>1
      <4>. QED  BY <4>1 DEF AtIn, At
    <3>2. g < h \/ h < g
      BY <2>0, <2>1
    <3>3. CASE g < h
      <4>1. e.pkt.id < r.id
        BY <3>1, <3>3, <1>2, Orders DEF MotionInv
      <4>. QED  BY <3>3, <4>1, <2>0
    <3>4. CASE h < g
      <4>1. r.id < e.pkt.id
        BY <3>1, <3>4, <1>2, Orders DEF MotionInv
      <4>. QED  BY <3>4, <4>1, <2>0
    <3>. QED  BY <3>2, <3>3, <3>4
  <2>2. CASE g = h
    <3>1. r \in Queued(h) => e.pkt.id < r.id
      BY <1>2, Orders DEF MotionInv
    <3>2. r \in WireIn(E, h) => e.pkt.id < r.id
      BY OldestOnWire DEF WireIn, RecIn, Receptions
    <3>3. g < h + 1
      BY <2>0, <2>2
    <3>. QED  BY <2>2, <3>1, <3>2, <3>3 DEF AtIn
  <2>. QED  BY <2>1, <2>2
<1>. QED  BY <1>1, <1>2, <1>3 DEF Entering
-----------------------------------------------------------------------------
(* Where the packets are after an operation. *)

(* What is in the row when the events E are left. *)
HeldIn(E) == UNION {AtIn(E, g) : g \in Hop}

LEMMA UnderWayAt == UnderWay = UNION {At(g) : g \in Hop}
BY DEF UnderWay, At

LEMMA HeldInEvents == HeldIn(events) = UnderWay
BY UnderWayAt, InEvents DEF HeldIn

(* A packet is taken off a wire. *)
LEMMA HeldWithout ==
  ASSUME TypeOK, MotionInv, NEW h \in Hop, NEW e \in Receptions(h), IsNext(e)
  PROVE  /\ HeldIn(events \ {e}) = UnderWay \ {e.pkt}
         /\ e.pkt \in UnderWay /\ e.pkt \in Packet
<1>. DEFINE E == events \ {e}
<1>1. e.pkt \in Packet /\ e.pkt \in OnWire(h) /\ e.pkt \in At(h)
  BY EventTypes DEF TypeOK, Receptions, OnWire, At
<1>2. AtIn(E, h) = At(h) \ {e.pkt}
  <2>1. e.pkt \notin Queued(h)
    BY <1>1, PacketType, Orders DEF MotionInv
  <2>2. WireIn(E, h) = OnWire(h) \ {e.pkt}
    BY OldestOnWire
  <2>. QED  BY <2>1, <2>2 DEF AtIn, At
<1>3. ASSUME NEW g \in Hop, g # h
      PROVE  AtIn(E, g) = At(g) /\ e.pkt \notin At(g)
  <2>1. AtIn(E, g) = At(g)
    <3>1. WireIn(E, g) = OnWire(g)
      <4>1. \A k \in Hop : k # h => WireIn(events \ {e}, k) = OnWire(k)
        BY OldestOnWire, ZenonT(60)
      <4>. QED  BY <1>3, <4>1
    <3>. QED  BY <3>1 DEF AtIn, At
  <2>2. g < h \/ h < g
    BY <1>3, HopType
  <2>3. e.pkt \notin At(g)
    BY <2>2, <1>1, PacketType, Orders DEF MotionInv
  <2>. QED  BY <2>1, <2>3
<1>. HIDE DEF E
<1>4. HeldIn(E) = UnderWay \ {e.pkt}
  BY <1>2, <1>3, UnderWayAt DEF HeldIn
<1>. QED  BY <1>1, <1>4, UnderWayAt DEF E

(* A disc refuses packets only when others wait. *)
LEMMA FullIsNotEmpty ==
  ASSUME TypeOK, NEW h \in Hop, QueueFull(h)
  PROVE  queue[h] # <<>>
BY DEF TypeOK, QueueFull, WithinCapacity

(* Send, in all its branches. *)
LEMMA SendStep ==
  ASSUME NEW E, NEW h \in Hop, NEW p, Left(E), \A g \in Hop : Keeps(E, g),
         Entering(E, h, p), Send(h, p),
         events' = E \cup SendEvents(h, p), nextUid' \in Nat, SendUid(h) <= nextUid'
  PROVE  /\ DeviceTypes' /\ MotionInv'
         /\ \/ /\ QueueFull(h) /\ refused' = [refused EXCEPT ![h] = @ \cup {p}]
               /\ UnderWay' = HeldIn(E)
            \/ UnderWay' = HeldIn(E) \cup {p} /\ refused' = refused
<1>0. p \in Packet
  BY DEF Entering
<1>1. CASE QueueFull(h) /\ Refuse(h, p)
  <2>1. events' = E /\ nextUid <= nextUid'
    BY <1>1 DEF SendEvents, SendUid, Starts
  <2>2. DeviceTypes'
    BY <1>0, <1>1, <2>1 DEF Refuse, DeviceTypes, Left, TypeOK
  <2>3. MotionInv' /\ \A g \in Hop : At(g)' = AtIn(E, g)
    BY <1>1, <2>1, LeaveStep DEF Refuse
  <2>4. UnderWay' = HeldIn(E)
    BY <2>3 DEF HeldIn, UnderWay, At
  <2>. QED  BY <1>1, <2>2, <2>3, <2>4 DEF Refuse
<1>2. CASE ~QueueFull(h) /\ Idle(h) /\ TransmitStart(h, Append(queue[h], p))
  <2>1. queue[h] = <<>> /\ Append(queue[h], p) = <<p>> /\ Startable(E, h, <<p>>)
    BY <1>2, PacketStartable
  <2>2. events' = E \cup Scheduled(h, <<p>>) /\ nextUid + 2 <= nextUid'
    BY <1>2, <2>1 DEF SendEvents, SendUid, Starts
  <2>3. TransmitStart(h, <<p>>)
    BY <1>2, <2>1
  <2>4. /\ DeviceTypes' /\ MotionInv'
        /\ At(h)' = WireIn(E, h) \cup {<<p>>[i] : i \in 1 .. Len(<<p>>)}
        /\ \A g \in Hop : g # h => At(g)' = AtIn(E, g)
    BY <2>1, <2>2, <2>3, StartStep
  <2>5. Queued(h) = {}
    BY <2>1 DEF Queued
  <2>6. At(h)' = AtIn(E, h) \cup {p}
    BY <2>4, <2>5 DEF AtIn
  <2>7. UnderWay' = HeldIn(E) \cup {p}
    BY <2>4, <2>6 DEF HeldIn, UnderWay, At
  <2>. QED  BY <2>4, <2>7, <1>2 DEF TransmitStart
<1>3. CASE ~QueueFull(h) /\ ~Idle(h) /\ Enqueue(h, p)
  <2>1. events' = E /\ nextUid <= nextUid'
    BY <1>3 DEF SendEvents, SendUid, Starts
  <2>2. /\ DeviceTypes' /\ MotionInv'
        /\ At(h)' = AtIn(E, h) \cup {p}
        /\ \A g \in Hop : g # h => At(g)' = AtIn(E, g)
    BY <1>0, <1>3, <2>1, EnqueueStep
  <2>3. UnderWay' = HeldIn(E) \cup {p}
    BY <2>2 DEF HeldIn, UnderWay, At
  <2>. QED  BY <2>2, <2>3, <1>3 DEF Enqueue
<1>. QED  BY <1>1, <1>2, <1>3 DEF Send

(* TransmitComplete, in both its branches: m_queue is empty only when      *)
(* nothing waits, in it or in the disc.                                    *)
LEMMA CompleteCases ==
  ASSUME TypeOK, EventInv, HandInv, NEW e \in events, IsNext(e), now' = e.at,
         e.kind = "TransmitComplete", TransmitComplete(e)
  PROVE  \/ /\ queue[e.hop] = <<>>
            /\ sending' = [sending EXCEPT ![e.hop] = None]
            /\ events' = events \ {e}
            /\ UNCHANGED <<queue, refused, lastStart, nextUid>>
         \/ /\ queue[e.hop] # <<>>
            /\ TransmitStart(e.hop, queue[e.hop])
            /\ events' = (events \ {e}) \cup Scheduled(e.hop, queue[e.hop])
            /\ nextUid' = nextUid + 3
<1>. DEFINE h == e.hop
<1>1. h \in Hop /\ Completes(e, h) /\ e.at \in Nat /\ now \in Nat
  BY EventTypes DEF TypeOK, Completes
<1>2. queue[h] \in Seq(Packet) /\ handed[h] \in Nat
  BY <1>1 DEF TypeOK
<1>3. handed[h] = Fill(Len(queue[h]))
  <2>1. ASSUME NEW w \in Wakes(h) PROVE ~(now < e.at)
    <3>1. w \in wakes /\ w.at = now
      BY DEF Wakes, HandInv
    <3>2. w.at > e.at \/ w.at = e.at
      BY <3>1 DEF IsNext
    <3>. QED  BY <1>1, <3>1, <3>2
  <2>. QED  BY <1>1, <2>1 DEF HandInv, HandAt
<1>4. handed[h] = 0 <=> queue[h] = <<>>
  BY <1>2, <1>3, FillType, EmptySeq
<1>. QED  BY <1>4 DEF TransmitComplete

LEMMA CompleteStep ==
  ASSUME TypeOK, MotionInv, HandInv, NEW e \in events, IsNext(e), now' = e.at,
         e.kind = "TransmitComplete", TransmitComplete(e)
  PROVE  /\ DeviceTypes' /\ MotionInv'
         /\ UnderWay' = UnderWay /\ refused' = refused
<1>. DEFINE h == e.hop
            E == events \ {e}
<1>1. h \in Hop /\ Completes(e, h)
  BY EventTypes DEF TypeOK, Completes
<1>2. Left(E)
  BY NextLeaves DEF TransmitComplete
<1>3. CASE queue[h] = <<>>
  <2>1. /\ sending' = [sending EXCEPT ![h] = None] /\ events' = E
        /\ UNCHANGED <<queue, refused, lastStart, nextUid>>
    BY <1>3, CompleteCases DEF MotionInv
  <2>2. MotionInv' /\ \A g \in Hop : At(g)' = At(g)
    BY <1>1, <1>2, <1>3, <2>1, IdleStep
  <2>3. DeviceTypes'
    BY <1>1, <2>1 DEF DeviceTypes, TypeOK
  <2>4. UnderWay' = UnderWay
    BY <2>2 DEF UnderWay, At
  <2>. QED  BY <2>1, <2>2, <2>3, <2>4
<1>4. CASE queue[h] # <<>>
  <2>. DEFINE q == queue[h]
  <2>1. /\ TransmitStart(h, q) /\ events' = E \cup Scheduled(h, q)
        /\ nextUid' \in Nat /\ nextUid + 2 <= nextUid'
    BY <1>4, CompleteCases DEF MotionInv, TypeOK
  <2>2. Startable(E, h, q)
    BY <1>1, <1>4, QueueStartable
  <2>3. \A g \in Hop : g # h => Keeps(E, g)
    BY <1>1, OneCompletion
  <2>4. /\ DeviceTypes' /\ MotionInv'
        /\ At(h)' = WireIn(E, h) \cup {q[i] : i \in 1 .. Len(q)}
        /\ \A g \in Hop : g # h => At(g)' = AtIn(E, g)
    BY <1>1, <1>2, <2>1, <2>2, <2>3, StartStep
  <2>5. \A g \in Hop : WireIn(E, g) = OnWire(g) /\ AtIn(E, g) = At(g)
    BY <1>1, OneCompletion
  <2>6. \A g \in Hop : At(g)' = At(g)
    <3>1. At(h)' = At(h)
      BY <1>1, <2>4, <2>5 DEF At, Queued
    <3>2. \A g \in Hop : g # h => At(g)' = At(g)
      BY <2>4, <2>5
    <3>. QED  BY <3>1, <3>2
  <2>7. UnderWay' = UnderWay
    BY <2>6 DEF UnderWay, At
  <2>. QED  BY <2>1, <2>4, <2>7 DEF TransmitStart
<1>. QED  BY <1>3, <1>4
-----------------------------------------------------------------------------
(* Every packet is accounted for. *)

LEMMA KnownPackets ==
  ASSUME TypeOK
  PROVE  Known \subseteq Packet /\ \A h \in Hop : refused[h] \subseteq Lost
<1>1. \A h \in Hop : Queued(h) \subseteq Packet /\ OnWire(h) \subseteq Packet
  BY EventTypes, HeadTail DEF TypeOK, Queued, OnWire, Receptions
<1>2. UnderWay \subseteq Packet
  BY <1>1 DEF UnderWay
<1>. QED  BY <1>2 DEF Known, Lost, TypeOK

(* A packet is refused, or none is. *)
LEMMA LostAfter ==
  ASSUME TypeOK
  PROVE  /\ refused' = refused => Lost' = Lost
         /\ \A h \in Hop : \A p :
              refused' = [refused EXCEPT ![h] = @ \cup {p}] => Lost' = Lost \cup {p}
<1>1. ASSUME NEW h \in Hop, NEW p, refused' = [refused EXCEPT ![h] = @ \cup {p}]
      PROVE  Lost' = Lost \cup {p}
  <2>1. /\ refused'[h] = refused[h] \cup {p}
        /\ \A g \in Hop : g # h => refused'[g] = refused[g]
    BY <1>1 DEF TypeOK
  <2>. QED  BY <2>1 DEF Lost
<1>2. refused' = refused => Lost' = Lost
  BY DEF Lost
<1>. QED  BY <1>1, <1>2

(* The packets of a flow, with one more. *)
LEMMA OneMore ==
  ASSUME NEW S, IsFiniteSet(S), NEW p, p \notin S, NEW T, T = S \cup {p}, NEW f
  PROVE  /\ p.flow = f => Cardinality(OfFlow(T, f)) = Cardinality(OfFlow(S, f)) + 1
         /\ p.flow # f => OfFlow(T, f) = OfFlow(S, f)
<1>1. IsFiniteSet(OfFlow(S, f)) /\ p \notin OfFlow(S, f)
  BY FS_Subset DEF OfFlow
<1>2. p.flow = f => OfFlow(T, f) = OfFlow(S, f) \cup {p}
  BY DEF OfFlow
<1>3. p.flow # f => OfFlow(T, f) = OfFlow(S, f)
  BY DEF OfFlow
<1>4. Cardinality(OfFlow(S, f) \cup {p}) = Cardinality(OfFlow(S, f)) + 1
  BY <1>1, FS_AddElement
<1>. QED  BY <1>2, <1>3, <1>4

(* Nothing but the place of a packet within the row has changed. *)
LEMMA AccountStays ==
  ASSUME AccountInv, UnderWay' = UnderWay,
         UNCHANGED <<refused, arrived, offered, stats>>
  PROVE  AccountInv'
<1>1. Lost' = Lost
  BY DEF Lost
<1>2. Known' = Known
  BY <1>1 DEF Known
<1>. QED  BY <1>1, <1>2 DEF AccountInv, OfFlow

(* A packet under way is refused. *)
LEMMA AccountRefused ==
  ASSUME TypeOK, AccountInv, NEW h \in Hop, NEW p \in UnderWay,
         UnderWay' = UnderWay \ {p}, refused' = [refused EXCEPT ![h] = @ \cup {p}],
         UNCHANGED <<arrived, offered, stats>>
  PROVE  AccountInv'
<1>1. Lost' = Lost \cup {p}
  BY LostAfter
<1>2. Known' = Known
  BY <1>1 DEF Known
<1>3. p \notin arrived /\ p \notin Lost
  BY DEF AccountInv
<1>4. /\ UnderWay' \cap arrived' = {} /\ UnderWay' \cap Lost' = {}
      /\ arrived' \cap Lost' = {}
  BY <1>1, <1>3 DEF AccountInv
<1>5. ASSUME NEW a \in Hop, NEW b \in Hop, a # b
      PROVE  refused'[a] \cap refused'[b] = {}
  <2>1. /\ refused'[h] = refused[h] \cup {p}
        /\ \A g \in Hop : g # h => refused'[g] = refused[g]
    BY DEF TypeOK
  <2>2. \A g \in Hop : p \notin refused[g]
    BY <1>3 DEF Lost
  <2>3. refused[a] \cap refused[b] = {}
    BY <1>5 DEF AccountInv
  <2>. QED  BY <1>5, <2>1, <2>2, <2>3
<1>. QED  BY <1>2, <1>4, <1>5 DEF AccountInv, OfFlow

(* The oldest packet arrives at the last node. *)
LEMMA AccountArrived ==
  ASSUME TypeOK, AccountInv, NEW p \in UnderWay,
         UnderWay' = UnderWay \ {p}, arrived' = arrived \cup {p},
         UNCHANGED <<refused, offered>>,
         \A f \in Flow : /\ stats'[f].tx = stats[f].tx
                         /\ stats'[f].rx = IF f = p.flow THEN stats[f].rx + 1 ELSE stats[f].rx
  PROVE  AccountInv'
<1>1. Lost' = Lost
  BY DEF Lost
<1>2. Known' = Known
  BY <1>1 DEF Known
<1>3. p \notin arrived /\ p \notin Lost
  BY DEF AccountInv
<1>4. /\ UnderWay' \cap arrived' = {} /\ UnderWay' \cap Lost' = {}
      /\ arrived' \cap Lost' = {}
  BY <1>1, <1>3 DEF AccountInv
<1>5. IsFiniteSet(arrived)
  BY FS_Subset DEF AccountInv, Known
<1>6. ASSUME NEW f \in Flow
      PROVE  stats'[f].rx = Cardinality(OfFlow(arrived', f))
  <2>0. /\ p.flow = f => Cardinality(OfFlow(arrived', f)) = Cardinality(OfFlow(arrived, f)) + 1
        /\ p.flow # f => OfFlow(arrived', f) = OfFlow(arrived, f)
    BY <1>3, <1>5, OneMore
  <2>1. stats[f].rx = Cardinality(OfFlow(arrived, f))
    BY DEF AccountInv
  <2>2. CASE f = p.flow
    <3>1. Cardinality(OfFlow(arrived', f)) = Cardinality(OfFlow(arrived, f)) + 1
      BY <2>0, <2>2
    <3>. QED  BY <2>1, <2>2, <3>1
  <2>3. CASE f # p.flow
    <3>1. OfFlow(arrived', f) = OfFlow(arrived, f)
      BY <2>0, <2>3
    <3>. QED  BY <2>1, <2>3, <3>1
  <2>. QED  BY <2>2, <2>3
<1>7. \A f \in Flow : stats'[f].tx = Cardinality(OfFlow(Known', f))
  BY <1>2 DEF AccountInv
<1>. QED  BY <1>2, <1>4, <1>6, <1>7 DEF AccountInv

(* A packet is offered, and enters the row or is refused at its entrance.  *)
LEMMA AccountOffered ==
  ASSUME TypeOK, AccountInv, NEW f \in Flow, offered' = offered + 1, arrived' = arrived,
         \/ /\ UnderWay' = UnderWay
            /\ refused' = [refused EXCEPT ![1] = @ \cup {NextPacket(f)}]
         \/ UnderWay' = UnderWay \cup {NextPacket(f)} /\ refused' = refused,
         \A g \in Flow : /\ stats'[g].tx = IF g = f THEN stats[g].tx + 1 ELSE stats[g].tx
                         /\ stats'[g].rx = stats[g].rx
  PROVE  AccountInv'
<1>. DEFINE p == NextPacket(f)
<1>0. p \in Packet /\ p.id = offered + 1 /\ p.flow = f /\ offered \in Nat
  BY DEF NextPacket, Packet, TypeOK
<1>1. p \notin Known /\ \A q \in Known : q.id # p.id
  <2>1. \A q \in Known : q.id \in 1 .. offered
    BY DEF AccountInv
  <2>. QED  BY <1>0, <2>1
<1>2. Lost' = Lost \/ Lost' = Lost \cup {p}
  BY HopType, LostAfter
<1>3. Known' = Known \cup {p}
  BY <1>2, HopType, LostAfter DEF Known
<1>. HIDE DEF p
<1>4. IsFiniteSet(Known')
  BY <1>3, FS_AddElement DEF AccountInv
<1>5. {q.id : q \in Known'} = 1 .. offered'
  <2>1. {q.id : q \in Known'} = {q.id : q \in Known} \cup {offered + 1}
    BY <1>0, <1>3
  <2>2. {q.id : q \in Known} = 1 .. offered
    BY DEF AccountInv
  <2>3. 1 .. offered + 1 = (1 .. offered) \cup {offered + 1}
    BY <1>0, SMTT(30)
  <2>. QED  BY <2>1, <2>2, <2>3
<1>6. \A q, r \in Known' : q.id = r.id => q = r
  BY <1>1, <1>3 DEF AccountInv
<1>7. /\ UnderWay' \cap arrived' = {} /\ UnderWay' \cap Lost' = {}
      /\ arrived' \cap Lost' = {}
  <2>1. p \notin UnderWay /\ p \notin arrived /\ p \notin Lost
    BY <1>1 DEF Known
  <2>2. CASE UnderWay' = UnderWay
    BY <1>2, <2>1, <2>2 DEF AccountInv
  <2>3. CASE UnderWay' = UnderWay \cup {p} /\ Lost' = Lost
    BY <2>1, <2>3 DEF AccountInv
  <2>. QED  BY <2>2, <2>3, LostAfter DEF p
<1>8. ASSUME NEW a \in Hop, NEW b \in Hop, a # b
      PROVE  refused'[a] \cap refused'[b] = {}
  <2>1. refused[a] \cap refused[b] = {}
    BY <1>8 DEF AccountInv
  <2>2. CASE refused' = [refused EXCEPT ![1] = @ \cup {p}]
    <3>1. /\ refused'[1] = refused[1] \cup {p}
          /\ \A g \in Hop : g # 1 => refused'[g] = refused[g]
      BY <2>2, HopType DEF TypeOK
    <3>2. \A g \in Hop : p \notin refused[g]
      BY <1>1 DEF Known, Lost
    <3>. QED  BY <1>8, <2>1, <3>1, <3>2
  <2>. QED  BY <2>1, <2>2 DEF p
<1>9. ASSUME NEW g \in Flow
      PROVE  stats'[g].tx = Cardinality(OfFlow(Known', g))
  <2>1. stats[g].tx = Cardinality(OfFlow(Known, g)) /\ IsFiniteSet(Known)
    BY DEF AccountInv
  <2>0. /\ p.flow = g => Cardinality(OfFlow(Known', g)) = Cardinality(OfFlow(Known, g)) + 1
        /\ p.flow # g => OfFlow(Known', g) = OfFlow(Known, g)
    BY <1>1, <1>3, <2>1, OneMore
  <2>2. CASE g = f
    <3>1. Cardinality(OfFlow(Known', g)) = Cardinality(OfFlow(Known, g)) + 1
      BY <1>0, <2>0, <2>2
    <3>. QED  BY <1>3, <2>1, <2>2, <3>1
  <2>3. CASE g # f
    <3>1. OfFlow(Known', g) = OfFlow(Known, g)
      BY <1>0, <2>0, <2>3
    <3>. QED  BY <1>3, <2>1, <2>3, <3>1
  <2>. QED  BY <2>2, <2>3
<1>10. \A g \in Flow : stats'[g].rx = Cardinality(OfFlow(arrived', g))
  BY DEF AccountInv
<1>. QED  BY <1>4, <1>5, <1>6, <1>7, <1>8, <1>9, <1>10 DEF AccountInv
-----------------------------------------------------------------------------
(* The part of the invariant that holds for packets of all sizes. *)
BaseInv == TypeOK /\ MotionInv /\ HandInv /\ AccountInv

LEMMA InitBase == Init => BaseInv
<1>. SUFFICES ASSUME Init PROVE BaseInv
  OBVIOUS
<1>. USE DEF Init, Start
<1>1. TypeOK
  <2>1. queue \in [Hop -> Seq(Packet)] /\ handed \in [Hop -> Nat] /\ \A h \in Hop : Len(queue[h]) = 0
    OBVIOUS
  <2>3. \A h \in Hop : WithinCapacity(h)
    BY <2>1 DEF WithinCapacity
  <2>2. stats \in [Flow -> [tx : Nat, rx : Nat, timeFirstRx : Nat, timeLastRx : Nat]]
    BY DEF NoStats
  <2>. QED  BY <2>1, <2>2, <2>3 DEF TypeOK
<1>7. HandInv
  <2>1. \A h \in Hop : handed[h] = 0 /\ Len(queue[h]) = 0
    OBVIOUS
  <2>. QED  BY <2>1, FillType DEF HandInv, HandAt
<1>2. EventInv
  BY DEF EventInv
<1>3. MachineInv
  BY DEF MachineInv, Idle, Receptions
<1>4. /\ \A h \in Hop : Queued(h) = {} /\ OnWire(h) = {} /\ At(h) = {} /\ Receptions(h) = {}
      /\ UnderWay = {} /\ Lost = {} /\ Known = {}
  BY DEF Queued, OnWire, At, Receptions, UnderWay, Lost, Known
<1>5. OrderInv
  <2>1. \A h \in Hop : queue[h] = <<>> /\ Len(queue[h]) = 0
    OBVIOUS
  <2>. QED  BY <1>4, <2>1 DEF OrderInv
<1>6. AccountInv
  <2>1. IsFiniteSet(Known) /\ {p.id : p \in Known} = 1 .. offered
    BY <1>4, FS_EmptySet
  <2>2. \A f \in Flow : OfFlow(Known, f) = {} /\ OfFlow(arrived, f) = {}
    BY <1>4 DEF OfFlow
  <2>3. \A f \in Flow : stats[f].tx = 0 /\ stats[f].rx = 0
    BY DEF NoStats
  <2>. QED  BY <1>4, <2>1, <2>2, <2>3, FS_EmptySet DEF AccountInv
<1>. QED  BY <1>1, <1>2, <1>3, <1>5, <1>6, <1>7 DEF BaseInv, MotionInv

(* The operations of a device are one thing, how far its disc has been run *)
(* is another.                                                             *)
RowTypes ==
  /\ DeviceTypes
  /\ byteTime \in ByteTimes
  /\ now \in Nat
  /\ offered \in Nat
  /\ stats \in [Flow -> [tx : Nat, rx : Nat, timeFirstRx : Nat, timeLastRx : Nat]]
  /\ arrived \in SUBSET Packet

HandTypes ==
  /\ handed \in [Hop -> Nat]
  /\ \A h \in Hop : WithinCapacity(h)
  /\ wakes \in SUBSET WakeEvents

RowInv == RowTypes /\ MotionInv /\ AccountInv

LEMMA TypesTogether ==
  ASSUME TypeOK, DeviceTypes', byteTime' = byteTime, now' \in Nat, offered' \in Nat,
         stats' \in [Flow -> [tx : Nat, rx : Nat, timeFirstRx : Nat, timeLastRx : Nat]],
         arrived' \in SUBSET Packet
  PROVE  RowTypes'
BY DEF TypeOK, RowTypes

(* The flow monitor, at the reception of a packet. *)
LEMMA SeenType ==
  ASSUME NEW s \in [tx : Nat, rx : Nat, timeFirstRx : Nat, timeLastRx : Nat], NEW t \in Nat
  PROVE  /\ Seen(s, t) \in [tx : Nat, rx : Nat, timeFirstRx : Nat, timeLastRx : Nat]
         /\ Seen(s, t).rx = s.rx + 1 /\ Seen(s, t).timeLastRx = t /\ Seen(s, t).tx = s.tx
BY DEF Seen

(* A device gives one uid to each event it schedules. *)
LEMMA SendUidType ==
  ASSUME TypeOK
  PROVE  \A h : SendUid(h) \in Nat /\ nextUid <= SendUid(h)
BY DEF SendUid, TypeOK

(* What an event does to the packets under way. *)
LEMMA CompleteBase ==
  ASSUME BaseInv, NEW e \in events, IsNext(e), now' = e.at,
         e.kind = "TransmitComplete", TransmitComplete(e)
  PROVE  RowInv' /\ UnderWay' = UnderWay /\ UNCHANGED <<offered, stats, arrived, refused>>
<1>1. UNCHANGED <<byteTime, offered, stats, arrived>>
  BY DEF TransmitComplete
<1>2. /\ DeviceTypes' /\ MotionInv'
      /\ UnderWay' = UnderWay /\ refused' = refused
  BY CompleteStep DEF BaseInv
<1>3. RowTypes'
  <2>1. now' \in Nat
    BY EventTypes DEF BaseInv, TypeOK
  <2>. QED  BY <1>1, <1>2, <2>1, TypesTogether DEF BaseInv, TypeOK
<1>4. AccountInv'
  BY <1>1, <1>2, AccountStays DEF BaseInv
<1>. QED  BY <1>1, <1>2, <1>3, <1>4 DEF RowInv

LEMMA ForwardBase ==
  ASSUME BaseInv, NEW h \in Hop, NEW e \in Receptions(h), IsNext(e), now' = e.at,
         h < HopCount, Forward(e)
  PROVE  /\ RowInv' /\ UNCHANGED <<offered, stats, arrived>>
         /\ \/ /\ QueueFull(h + 1) /\ refused' = [refused EXCEPT ![h + 1] = @ \cup {e.pkt}]
               /\ UnderWay' = UnderWay \ {e.pkt}
            \/ UnderWay' = UnderWay /\ refused' = refused
<1>. DEFINE E == events \ {e}
<1>1. UNCHANGED <<byteTime, offered, stats, arrived>>
  BY DEF Forward
<1>2. e \in events /\ e.hop = h
  BY DEF Receptions
<1>3. Left(E)
  BY <1>1, <1>2, NextLeaves DEF BaseInv
<1>4. h + 1 \in Hop /\ Entering(E, h + 1, e.pkt) /\ \A g \in Hop : Keeps(E, g)
  BY ReceptionEnters, OldestOnWire DEF BaseInv
<1>5. /\ Send(h + 1, e.pkt) /\ events' = E \cup SendEvents(h + 1, e.pkt)
      /\ nextUid' \in Nat /\ SendUid(h + 1) <= nextUid'
  BY <1>2, SendUidType DEF Forward, BaseInv
<1>6. /\ DeviceTypes' /\ MotionInv'
      /\ \/ /\ QueueFull(h + 1) /\ refused' = [refused EXCEPT ![h + 1] = @ \cup {e.pkt}]
            /\ UnderWay' = HeldIn(E)
         \/ UnderWay' = HeldIn(E) \cup {e.pkt} /\ refused' = refused
  BY <1>3, <1>4, <1>5, SendStep
<1>7. HeldIn(E) = UnderWay \ {e.pkt} /\ e.pkt \in UnderWay
  BY HeldWithout DEF BaseInv
<1>8. RowTypes'
  <2>1. now' \in Nat
    BY <1>2, EventTypes DEF BaseInv, TypeOK
  <2>. QED  BY <1>1, <1>6, <2>1, TypesTogether DEF BaseInv, TypeOK
<1>9. CASE /\ QueueFull(h + 1) /\ refused' = [refused EXCEPT ![h + 1] = @ \cup {e.pkt}]
           /\ UnderWay' = HeldIn(E)
  <2>1. AccountInv'
    BY <1>1, <1>4, <1>7, <1>9, AccountRefused DEF BaseInv
  <2>. QED  BY <1>1, <1>6, <1>7, <1>8, <1>9, <2>1 DEF RowInv
<1>10. CASE UnderWay' = HeldIn(E) \cup {e.pkt} /\ refused' = refused
  <2>1. UnderWay' = UnderWay
    BY <1>7, <1>10
  <2>2. AccountInv'
    BY <1>1, <1>10, <2>1, AccountStays DEF BaseInv
  <2>. QED  BY <1>1, <1>6, <1>8, <1>10, <2>1, <2>2 DEF RowInv
<1>. QED  BY <1>6, <1>9, <1>10

LEMMA ArriveBase ==
  ASSUME BaseInv, NEW e \in Receptions(HopCount), IsNext(e), now' = e.at, Arrive(e)
  PROVE  /\ RowInv' /\ UNCHANGED <<devVars, offered>>
         /\ arrived' = arrived \cup {e.pkt}
         /\ UnderWay' = UnderWay \ {e.pkt}
         /\ e.pkt \in UnderWay /\ \A p \in UnderWay : e.pkt.id <= p.id
         /\ \A f \in Flow :
              IF f = e.pkt.flow
              THEN stats'[f].rx = stats[f].rx + 1 /\ stats'[f].timeLastRx = now'
              ELSE stats'[f] = stats[f]
         /\ \A f \in Flow : stats'[f].tx = stats[f].tx
<1>. DEFINE E == events \ {e}
            p == e.pkt
<1>1. UNCHANGED <<byteTime, devVars, nextUid, offered>>
  BY DEF Arrive
<1>2. e \in events /\ HopCount \in Hop
  BY HopType DEF Receptions
<1>3. Left(E) /\ now' \in Nat /\ nextUid' \in Nat /\ nextUid <= nextUid'
  BY <1>1, <1>2, NextLeaves, EventTypes DEF BaseInv, TypeOK
<1>4. \A g \in Hop : Keeps(E, g)
  BY <1>2, OldestOnWire DEF BaseInv
<1>5. MotionInv' /\ \A g \in Hop : At(g)' = AtIn(E, g)
  BY <1>1, <1>3, <1>4, LeaveStep DEF Arrive, devVars
<1>6. UnderWay' = HeldIn(E)
  BY <1>5 DEF HeldIn, UnderWay, At
<1>7. HeldIn(E) = UnderWay \ {p} /\ p \in UnderWay /\ p \in Packet
  BY <1>2, HeldWithout DEF BaseInv
<1>8. DeviceTypes'
  BY <1>1 DEF Arrive, devVars, DeviceTypes, BaseInv, TypeOK
<1>9. p.flow \in Flow
  BY <1>7, PacketType
<1>10. /\ stats' \in [Flow -> [tx : Nat, rx : Nat, timeFirstRx : Nat, timeLastRx : Nat]]
       /\ \A f \in Flow :
            IF f = p.flow
            THEN /\ stats'[f].rx = stats[f].rx + 1 /\ stats'[f].timeLastRx = now'
                 /\ stats'[f].tx = stats[f].tx
            ELSE stats'[f] = stats[f]
  <2>1. stats \in [Flow -> [tx : Nat, rx : Nat, timeFirstRx : Nat, timeLastRx : Nat]]
    BY DEF BaseInv, TypeOK
  <2>. DEFINE r == Seen(stats[p.flow], now')
  <2>2. stats' = [stats EXCEPT ![p.flow] = r]
    BY DEF Arrive
  <2>3. /\ r \in [tx : Nat, rx : Nat, timeFirstRx : Nat, timeLastRx : Nat]
        /\ r.rx = stats[p.flow].rx + 1 /\ r.timeLastRx = now' /\ r.tx = stats[p.flow].tx
    <3>1. stats[p.flow] \in [tx : Nat, rx : Nat, timeFirstRx : Nat, timeLastRx : Nat]
      BY <1>9, <2>1
    <3>. QED  BY <1>3, <3>1, SeenType
  <2>. HIDE DEF r
  <2>. QED  BY <1>9, <2>1, <2>2, <2>3
<1>11. arrived' = arrived \cup {p}
  BY DEF Arrive
<1>12. RowTypes'
  <2>1. arrived' \in SUBSET Packet /\ offered' \in Nat
    BY <1>1, <1>7, <1>11 DEF BaseInv, TypeOK
  <2>. QED  BY <1>1, <1>3, <1>8, <1>10, <2>1, TypesTogether DEF BaseInv
<1>13. AccountInv'
  <2>1. refused' = refused
    BY <1>1 DEF devVars
  <2>. QED  BY <1>1, <1>6, <1>7, <1>10, <1>11, <2>1, AccountArrived DEF BaseInv
<1>14. ASSUME NEW q \in UnderWay PROVE p.id <= q.id
  <2>1. PICK g \in Hop : q \in At(g)
    BY UnderWayAt
  <2>2. p \in At(HopCount) /\ p \in OnWire(HopCount)
    BY DEF At, OnWire
  <2>3. CASE g # HopCount
    <3>1. g < HopCount
      BY <2>3 DEF Hop
    <3>2. p.id < q.id
      BY <1>2, <2>1, <2>2, <3>1, Orders DEF BaseInv, MotionInv
    <3>. QED  BY <3>2, <1>7, <2>1, PacketType, KnownPackets DEF BaseInv, Known
  <2>4. CASE g = HopCount /\ q \in Queued(HopCount)
    <3>1. p.id < q.id
      BY <1>2, <2>2, <2>4, Orders DEF BaseInv, MotionInv
    <3>. QED  BY <3>1, <1>7, PacketType, KnownPackets DEF BaseInv, Known
  <2>5. CASE g = HopCount /\ q \in OnWire(HopCount)
    <3>1. PICK f \in Receptions(HopCount) : q = f.pkt
      BY <2>5 DEF OnWire
    <3>2. q = p \/ p.id < q.id
      BY <1>2, <3>1, OldestOnWire DEF BaseInv
    <3>. QED  BY <3>2, <1>7, PacketType, KnownPackets DEF BaseInv, Known
  <2>. QED  BY <2>1, <2>3, <2>4, <2>5 DEF At
<1>. QED  BY <1>1, <1>5, <1>6, <1>7, <1>10, <1>11, <1>12, <1>13, <1>14 DEF RowInv

LEMMA OffersUids ==
  ASSUME TypeOK, NEW f \in Flow, OfferAnytime(f)
  PROVE  nextUid' \in Nat /\ SendUid(1) <= nextUid'
<1>1. PICK n \in OtherUids : nextUid' = SendUid(1) + n
  BY DEF OfferAnytime
<1>. QED  BY <1>1, SendUidType

LEMMA OfferBase ==
  ASSUME BaseInv, NEW f \in Flow, OfferAnytime(f)
  PROVE  /\ RowInv' /\ offered' = offered + 1 /\ arrived' = arrived
         /\ NextPacket(f) = [flow |-> f, id |-> offered']
         /\ \/ /\ QueueFull(1) /\ refused' = [refused EXCEPT ![1] = @ \cup {NextPacket(f)}]
               /\ UnderWay' = UnderWay
            \/ UnderWay' = UnderWay \cup {NextPacket(f)} /\ refused' = refused
         /\ \A g \in Flow :
              /\ stats'[g].tx = IF g = f THEN stats[g].tx + 1 ELSE stats[g].tx
              /\ stats'[g].rx = stats[g].rx
              /\ stats'[g].timeLastRx = stats[g].timeLastRx
<1>. DEFINE p == NextPacket(f)
<1>1. /\ Send(1, p) /\ offered' = offered + 1
      /\ stats' = [stats EXCEPT ![f] = [stats[f] EXCEPT !.tx = stats[f].tx + 1]]
      /\ UNCHANGED <<byteTime, arrived>>
      /\ events' = events \cup SendEvents(1, p) /\ InTime
  BY DEF OfferAnytime, Offer
<1>2. Left(events) /\ now' \in Nat
  <2>1. TypeOK /\ MotionInv /\ byteTime' = byteTime /\ now \in Nat
    BY <1>1 DEF BaseInv, TypeOK
  <2>. QED  BY <1>1, <2>1, OfferLeaves DEF InTime
<1>3. p \in Packet /\ p.id = offered + 1 /\ p = [flow |-> f, id |-> offered']
  BY <1>1 DEF NextPacket, Packet, BaseInv, TypeOK
<1>4. Entering(events, 1, p)
  <2>1. ASSUME NEW g \in Hop, NEW r \in AtIn(events, g)
        PROVE  r.id < p.id /\ ~(g < 1)
    <3>1. r \in Known
      BY <2>1, InEvents, UnderWayAt DEF Known
    <3>2. r.id \in 1 .. offered
      BY <3>1 DEF BaseInv, AccountInv
    <3>3. offered \in Nat
      BY DEF BaseInv, TypeOK
    <3>. QED  BY <1>3, <3>2, <3>3, HopType
  <2>. QED  BY <1>3, <2>1 DEF Entering
<1>5. \A g \in Hop : Keeps(events, g)
  BY DEF Keeps
<1>. HIDE DEF p
<1>6. /\ DeviceTypes' /\ MotionInv'
      /\ \/ /\ QueueFull(1) /\ refused' = [refused EXCEPT ![1] = @ \cup {p}]
            /\ UnderWay' = HeldIn(events)
         \/ UnderWay' = HeldIn(events) \cup {p} /\ refused' = refused
  <2>1. nextUid' \in Nat /\ SendUid(1) <= nextUid'
    BY OffersUids DEF BaseInv
  <2>. QED  BY <1>1, <1>2, <1>4, <1>5, <2>1, HopType, SendStep
<1>7. /\ stats' \in [Flow -> [tx : Nat, rx : Nat, timeFirstRx : Nat, timeLastRx : Nat]]
      /\ \A g \in Flow :
           /\ stats'[g].tx = IF g = f THEN stats[g].tx + 1 ELSE stats[g].tx
           /\ stats'[g].rx = stats[g].rx
           /\ stats'[g].timeLastRx = stats[g].timeLastRx
  <2>1. stats \in [Flow -> [tx : Nat, rx : Nat, timeFirstRx : Nat, timeLastRx : Nat]]
    BY DEF BaseInv, TypeOK
  <2>. QED  BY <1>1, <2>1
<1>8. RowTypes'
  <2>1. offered' \in Nat /\ arrived' \in SUBSET Packet
    BY <1>1 DEF BaseInv, TypeOK
  <2>. QED  BY <1>1, <1>2, <1>6, <1>7, <2>1, TypesTogether DEF BaseInv
<1>9. \/ UnderWay' = UnderWay /\ refused' = [refused EXCEPT ![1] = @ \cup {p}]
      \/ UnderWay' = UnderWay \cup {p} /\ refused' = refused
  BY <1>6, HeldInEvents
<1>10. AccountInv'
  BY <1>1, <1>7, <1>9, AccountOffered DEF BaseInv, p
<1>. QED  BY <1>1, <1>3, <1>6, <1>7, <1>8, <1>10, HeldInEvents DEF RowInv, p

(* When the layers above do anything else, or a disc is run, time passes   *)
(* for the transmitters and no more.                                       *)
OnlyTime ==
  /\ now' \in Nat /\ now <= now' /\ \A e \in events : now' <= e.at
  /\ UNCHANGED <<byteTime, queue, sending, refused, lastStart, events, nextUid>>
  /\ UNCHANGED <<offered, stats, arrived>>

LEMMA OtherIsTime ==
  ASSUME BaseInv, OtherEvent
  PROVE  OnlyTime
BY DEF OtherEvent, OnlyTime, InTime, devVars, BaseInv, TypeOK

LEMMA WakeIsTime ==
  ASSUME BaseInv, NEW w \in wakes, IsNext(w), now' = w.at, Wake(w)
  PROVE  OnlyTime
<1>1. w.at = now /\ now \in Nat
  BY DEF BaseInv, HandInv, TypeOK
<1>2. \A e \in events : now <= e.at
  BY DEF BaseInv, MotionInv, EventInv
<1>. QED  BY <1>1, <1>2 DEF Wake, OnlyTime

LEMMA OtherBase ==
  ASSUME BaseInv, OnlyTime
  PROVE  RowInv' /\ UnderWay' = UnderWay /\ UNCHANGED <<offered, stats, arrived, refused>>
<1>1. /\ UNCHANGED <<byteTime, queue, sending, refused, lastStart, events, nextUid>>
      /\ UNCHANGED <<offered, stats, arrived>>
  BY DEF OnlyTime
<1>2. Left(events) /\ now' \in Nat /\ nextUid' \in Nat /\ nextUid <= nextUid'
  BY DEF OnlyTime, Left, BaseInv, MotionInv, TypeOK
<1>3. \A g \in Hop : Keeps(events, g)
  BY DEF Keeps
<1>4. MotionInv' /\ \A g \in Hop : At(g)' = AtIn(events, g)
  BY <1>1, <1>2, <1>3, LeaveStep
<1>5. UnderWay' = UnderWay
  BY <1>1 DEF UnderWay, Queued, OnWire, Receptions
<1>6. RowTypes'
  BY <1>1, <1>2 DEF BaseInv, TypeOK, RowTypes, DeviceTypes, Event, Completions
<1>7. AccountInv'
  BY <1>1, <1>5, AccountStays DEF BaseInv
<1>. QED  BY <1>1, <1>4, <1>5, <1>6, <1>7 DEF RowInv
-----------------------------------------------------------------------------
(* The discs are run in time. *)

(* What must be shown of a hop in every step. *)
HandedAt(h) == handed[h] \in Nat /\ WithinCapacity(h) /\ HandAt(h)

(* While a wake is pending time stands still; a hop that a step leaves     *)
(* alone keeps its wake.                                                   *)
LEMMA HandKept ==
  ASSUME TypeOK, HandInv, NEW h \in Hop, handed'[h] = handed[h], queue'[h] = queue[h],
         wakes # {} => now' = now, \A w \in Wakes(h) : w \in wakes',
         \A c \in events' : Completes(c, h) => c \in events \/ now' < c.at
  PROVE  HandedAt(h)'
<1>1. handed[h] \in Nat /\ WithinCapacity(h) /\ HandAt(h)
  BY DEF TypeOK, HandInv
<1>2. WithinCapacity(h)'
  BY <1>1 DEF WithinCapacity
<1>3. CASE handed[h] = Fill(Len(queue[h]))
  <2>1. HandAt(h)'
    BY <1>3 DEF HandAt, Fill
  <2>. QED  BY <1>1, <1>2, <2>1 DEF HandedAt
<1>4. CASE handed[h] # Fill(Len(queue[h]))
  <2>1. /\ handed[h] + 1 = Fill(Len(queue[h])) /\ Wakes(h) # {}
        /\ \A c \in events : Completes(c, h) => now < c.at
    BY <1>1, <1>4 DEF HandAt
  <2>2. Wakes(h)' # {} /\ now' = now
    BY <2>1 DEF Wakes
  <2>3. \A c \in events' : Completes(c, h) => now' < c.at
    BY <2>1, <2>2
  <2>4. (handed[h] + 1 = Fill(Len(queue[h])))'
    BY <2>1 DEF Fill
  <2>5. HandAt(h)'
    BY <2>2, <2>3, <2>4 DEF HandAt, Completes
  <2>. QED  BY <1>1, <1>2, <2>5 DEF HandedAt
<1>. QED  BY <1>3, <1>4

(* A disc that has just been run. *)
LEMMA HandFilled ==
  ASSUME NEW h \in Hop, queue'[h] \in Seq(Packet), handed'[h] = Fill(Len(queue'[h])),
         Len(queue'[h]) - handed'[h] <= DiscLimit
  PROVE  HandedAt(h)'
<1>1. Len(queue'[h]) \in Nat
  OBVIOUS
<1>2. handed'[h] \in 0 .. DeviceLimit /\ handed'[h] <= Len(queue'[h])
  BY <1>1, FillType
<1>3. HandAt(h)'
  BY DEF HandAt, Fill
<1>. QED  BY <1>2, <1>3 DEF HandedAt, WithinCapacity

(* Send runs the disc. *)
LEMMA SendHands ==
  ASSUME TypeOK, HandInv, NEW E, E \subseteq events, NEW h \in Hop, NEW p \in Packet,
         Send(h, p), events' = E \cup SendEvents(h, p), UNCHANGED <<byteTime, wakes>>,
         now' \in Nat, wakes # {} => now' = now
  PROVE  \A g \in Hop : HandedAt(g)'
<1>1. /\ queue \in [Hop -> Seq(Packet)] /\ handed \in [Hop -> Nat]
      /\ queue[h] \in Seq(Packet) /\ Len(queue[h]) \in Nat /\ WithinCapacity(h)
  BY DEF TypeOK
<1>2. handed' = [handed EXCEPT ![h] = Fill(Len(queue'[h]))]
  BY DEF Send
<1>3. /\ \A g \in Hop : g # h => queue'[g] = queue[g]
      /\ queue'[h] \in Seq(Packet)
      /\ \/ Len(queue'[h]) = Len(queue[h])
         \/ Len(queue'[h]) = Len(queue[h]) + 1 /\ ~QueueFull(h)
  <2>1. CASE Refuse(h, p)
    BY <1>1, <2>1 DEF Refuse
  <2>2. CASE TransmitStart(h, Append(queue[h], p))
    <3>. DEFINE q == Append(queue[h], p)
    <3>1. q \in Seq(Packet) /\ q # <<>> /\ Len(q) = Len(queue[h]) + 1
      BY <1>1, Appended
    <3>. HIDE DEF q
    <3>2. Tail(q) \in Seq(Packet) /\ Len(Tail(q)) = Len(q) - 1
      BY <3>1, HeadTail
    <3>3. queue' = [queue EXCEPT ![h] = Tail(q)]
      BY <2>2 DEF TransmitStart, q
    <3>. QED  BY <1>1, <3>1, <3>2, <3>3
  <2>3. CASE ~QueueFull(h) /\ Enqueue(h, p)
    BY <1>1, <2>3, Appended DEF Enqueue
  <2>. QED  BY <2>1, <2>2, <2>3 DEF Send
<1>4. HandedAt(h)'
  <2>1. handed'[h] = Fill(Len(queue'[h])) /\ Len(queue'[h]) \in Nat
    BY <1>1, <1>2, <1>3
  <2>2. /\ handed[h] \in 0 .. DeviceLimit /\ handed[h] <= Len(queue[h])
        /\ Len(queue[h]) - handed[h] <= DiscLimit
    BY <1>1 DEF WithinCapacity
  <2>3. handed[h] <= Fill(Len(queue'[h])) /\ Fill(Len(queue'[h])) \in Nat
    <3>1. handed[h] \in Nat /\ handed[h] <= Len(queue'[h]) /\ handed[h] <= DeviceLimit
      BY <1>1, <1>3, <2>1, <2>2
    <3>. QED  BY <2>1, <3>1, FillType
  <2>4. ~QueueFull(h) => Len(queue[h]) - handed[h] < DiscLimit
    BY <1>1, <2>2 DEF QueueFull
  <2>5. Len(queue'[h]) - handed'[h] <= DiscLimit
    BY <1>1, <1>3, <2>1, <2>2, <2>3, <2>4
  <2>. QED  BY <1>3, <2>1, <2>5, HandFilled
<1>5. \A c \in events' : c.kind = "TransmitComplete" => c \in events \/ now' < c.at
  <2>1. CASE Starts(h)
    <3>. DEFINE q == Append(queue[h], p)
    <3>1. q \in Seq(Packet) /\ q # <<>>
      BY <1>1, Appended
    <3>. HIDE DEF q
    <3>2. Head(q) \in Packet
      BY <3>1, HeadTail
    <3>3. events' = E \cup {Completion(h, Head(q)), Reception(h, Head(q))}
      BY <2>1 DEF SendEvents, Scheduled, q
    <3>4. /\ Completion(h, Head(q)).at = now' + TxTime(h, Head(q).flow)
          /\ Reception(h, Head(q)).kind = "Receive"
      BY DEF Completion, Reception
    <3>5. TxTime(h, Head(q).flow) \in Nat \ {0}
      BY <3>2, PacketType, TxTimeType DEF TypeOK
    <3>. QED  BY <3>3, <3>4, <3>5
  <2>2. CASE ~Starts(h)
    BY <2>2 DEF SendEvents
  <2>. QED  BY <2>1, <2>2
<1>6. ASSUME NEW g \in Hop, g # h PROVE HandedAt(g)'
  <2>1. handed'[g] = handed[g] /\ queue'[g] = queue[g]
    BY <1>1, <1>2, <1>3, <1>6
  <2>2. \A w \in Wakes(g) : w \in wakes'
    BY DEF Wakes
  <2>. QED  BY <1>5, <2>1, <2>2, HandKept DEF Completes
<1>. QED  BY <1>4, <1>6

(* A completion leaves m_queue one packet short where the disc has more,   *)
(* and wakes it.                                                           *)
LEMMA CompleteHands ==
  ASSUME TypeOK, MotionInv, HandInv, NEW e \in events, IsNext(e), now' = e.at,
         e.kind = "TransmitComplete", TransmitComplete(e), wakes # {} => now' = now
  PROVE  \A g \in Hop : HandedAt(g)'
<1>. DEFINE h == e.hop
<1>1. h \in Hop /\ now' \in Nat /\ byteTime' = byteTime
  BY EventTypes DEF TypeOK, TransmitComplete
<1>2. /\ queue \in [Hop -> Seq(Packet)] /\ handed \in [Hop -> Nat]
      /\ queue[h] \in Seq(Packet) /\ Len(queue[h]) \in Nat /\ WithinCapacity(h)
  BY <1>1 DEF TypeOK
<1>3. CASE queue[h] = <<>>
  <2>1. handed[h] = 0
    BY <1>2, <1>3 DEF WithinCapacity
  <2>2. UNCHANGED <<queue, handed, wakes>> /\ events' = events \ {e}
    BY <2>1 DEF TransmitComplete
  <2>. QED  BY <2>2, HandKept DEF Wakes
<1>4. CASE queue[h] # <<>>
  <2>1. /\ TransmitStart(h, queue[h]) /\ events' = (events \ {e}) \cup Scheduled(h, queue[h])
    BY <1>4, CompleteCases DEF MotionInv
  <2>2. /\ handed[h] # 0 /\ handed' = [handed EXCEPT ![h] = handed[h] - 1]
        /\ wakes' = wakes \cup Woken(h)
    <3>1. queue'[h] # queue[h]
      <4>1. queue'[h] = Tail(queue[h])
        BY <1>1, <1>2, <2>1 DEF TransmitStart
      <4>2. Len(Tail(queue[h])) = Len(queue[h]) - 1
        BY <1>2, <1>4, HeadTail
      <4>3. Len(Tail(queue[h])) # Len(queue[h])
        BY <1>2, <4>2
      <4>. QED  BY <4>1, <4>3, Zenon
    <3>2. queue' # queue
      BY <3>1
    <3>3. handed[e.hop] # 0 /\ handed' = [handed EXCEPT ![e.hop] = handed[e.hop] - 1]
          /\ wakes' = wakes \cup Woken(e.hop)
      BY <3>2 DEF TransmitComplete
    <3>. QED  BY <3>3
  <2>3. /\ Head(queue[h]) \in Packet /\ Tail(queue[h]) \in Seq(Packet)
        /\ Len(Tail(queue[h])) = Len(queue[h]) - 1
    BY <1>2, <1>4, HeadTail
  <2>4. /\ queue'[h] = Tail(queue[h]) /\ handed'[h] = handed[h] - 1
        /\ \A g \in Hop : g # h => queue'[g] = queue[g] /\ handed'[g] = handed[g]
    BY <1>1, <1>2, <2>1, <2>2 DEF TransmitStart
  <2>5. \A c \in events' : c.kind = "TransmitComplete" =>
          c \in events \ {e} \/ (c.hop = h /\ now' < c.at)
    <3>1. events' = (events \ {e}) \cup {Completion(h, Head(queue[h])), Reception(h, Head(queue[h]))}
      BY <2>1 DEF Scheduled
    <3>2. /\ Completion(h, Head(queue[h])).at = now' + TxTime(h, Head(queue[h]).flow)
          /\ Completion(h, Head(queue[h])).hop = h
          /\ Reception(h, Head(queue[h])).kind = "Receive"
      BY DEF Completion, Reception
    <3>3. TxTime(h, Head(queue[h]).flow) \in Nat \ {0}
      BY <1>1, <2>3, PacketType, TxTimeType DEF TypeOK
    <3>. QED  BY <1>1, <3>1, <3>2, <3>3
  <2>6. ASSUME NEW g \in Hop, g # h PROVE HandedAt(g)'
    <3>1. \A w \in Wakes(g) : w \in wakes'
      BY <2>2 DEF Wakes
    <3>. QED  BY <2>4, <2>5, <2>6, <3>1, HandKept DEF Completes
  <2>7. /\ handed[h] \in 1 .. DeviceLimit /\ handed[h] <= Len(queue[h])
        /\ Len(queue[h]) - handed[h] <= DiscLimit
    BY <1>2, <2>2 DEF WithinCapacity
  <2>8. handed[h] = Fill(Len(queue[h]))
    <3>1. ASSUME NEW w \in Wakes(h) PROVE ~(now < e.at)
      <4>1. w \in wakes
        BY DEF Wakes
      <4>. QED  BY <1>1, <4>1
    <3>2. Completes(e, h)
      BY DEF Completes
    <3>. QED  BY <1>1, <3>1, <3>2 DEF HandInv, HandAt
  <2>9. CASE handed[h] < DeviceLimit
    <3>1. Len(queue[h]) = handed[h]
      BY <1>2, <2>7, <2>8, <2>9, FillType
    <3>2. handed'[h] = Len(queue'[h]) /\ handed'[h] < DeviceLimit /\ handed'[h] \in Nat
      BY <2>3, <2>4, <2>7, <2>9, <3>1
    <3>3. Fill(Len(queue'[h])) = handed'[h]
      BY <3>2 DEF Fill
    <3>4. Len(queue'[h]) - handed'[h] <= DiscLimit
      BY <3>2
    <3>5. HandedAt(h)'
      BY <1>1, <2>3, <2>4, <3>3, <3>4, HandFilled
    <3>. QED  BY <2>6, <3>5
  <2>10. CASE handed[h] = DeviceLimit
    <3>1. /\ handed'[h] = DeviceLimit - 1 /\ Len(queue'[h]) \in Nat
          /\ handed'[h] <= Len(queue'[h]) /\ Len(queue'[h]) - handed'[h] <= DiscLimit
      BY <1>2, <2>3, <2>4, <2>7, <2>10
    <3>2. WithinCapacity(h)' /\ handed'[h] \in Nat
      BY <3>1 DEF WithinCapacity
    <3>3. CASE Len(queue'[h]) = DeviceLimit - 1
      <4>1. handed'[h] = Fill(Len(queue'[h]))
        BY <3>1, <3>3 DEF Fill
      <4>2. HandedAt(h)'
        BY <1>1, <2>3, <2>4, <3>1, <4>1, HandFilled
      <4>. QED  BY <2>6, <4>2
    <3>4. CASE Len(queue'[h]) # DeviceLimit - 1
      <4>1. Fill(Len(queue'[h])) = handed'[h] + 1
        BY <3>1, <3>4 DEF Fill
      <4>2. Wakes(h)' # {}
        <5>. DEFINE w == [uid |-> nextUid + 2, at |-> now', kind |-> "Wake", hop |-> h]
        <5>1. w \in wakes' /\ w.hop = h
          BY <2>2, <2>10 DEF Woken
        <5>. QED  BY <5>1 DEF Wakes
      <4>3. \A c \in events' : Completes(c, h) => now' < c.at
        <5>1. \A c \in events \ {e} : ~Completes(c, h)
          BY <1>1, OneCompletion DEF Completes
        <5>. QED  BY <2>5, <5>1 DEF Completes
      <4>4. HandAt(h)'
        BY <4>1, <4>2, <4>3 DEF HandAt, Fill, Completes
      <4>5. HandedAt(h)'
        BY <3>2, <4>4 DEF HandedAt
      <4>. QED  BY <2>6, <4>5
    <3>. QED  BY <3>3, <3>4
  <2>. QED  BY <2>7, <2>9, <2>10
<1>. QED  BY <1>3, <1>4

(* Every step of the row. *)
LEMMA HandStep ==
  ASSUME BaseInv, Next
  PROVE  HandTypes' /\ HandInv'
<1>1. /\ \A e \in events \cup wakes : e.at \in Nat /\ now <= e.at
      /\ now \in Nat /\ \A w \in wakes : w.at = now /\ w.hop \in Hop
      /\ TypeOK /\ MotionInv /\ HandInv
  BY EventTypes DEF BaseInv, TypeOK, MotionInv, EventInv, HandInv, WakeEvents
<1>2. handed \in [Hop -> Nat] /\ wakes \in SUBSET WakeEvents
  BY <1>1 DEF TypeOK
<1>. SUFFICES /\ \A h \in Hop : HandedAt(h)'
              /\ handed' = [h \in Hop |-> handed'[h]]
              /\ wakes' \in SUBSET WakeEvents
              /\ \A w \in wakes' : w.at = now'
  BY DEF HandTypes, HandInv, HandedAt
<1>3. ASSUME NEW e \in events \cup wakes, IsNext(e), now' = e.at
      PROVE  now' \in Nat /\ (wakes # {} => now' = now) /\ \A w \in wakes : w.at = now'
  <2>1. ASSUME NEW w \in wakes PROVE now' = now /\ w.at = now'
    <3>1. w.at = now /\ (w.at > e.at \/ w.at = e.at)
      BY <1>1, <1>3 DEF IsNext
    <3>. QED  BY <1>1, <1>3, <3>1
  <2>. QED  BY <1>1, <1>3, <2>1
<1>4. ASSUME NEW e \in events, IsNext(e), now' = e.at,
             e.kind = "TransmitComplete", TransmitComplete(e)
      PROVE  /\ \A h \in Hop : HandedAt(h)'
             /\ handed' = [h \in Hop |-> handed'[h]]
             /\ wakes' \in SUBSET WakeEvents /\ \A w \in wakes' : w.at = now'
  <2>1. now' \in Nat /\ (wakes # {} => now' = now) /\ \A w \in wakes : w.at = now'
    BY <1>3, <1>4
  <2>2. \A h \in Hop : HandedAt(h)'
    BY <1>1, <1>4, <2>1, CompleteHands
  <2>3. handed' = [h \in Hop |-> handed'[h]]
    BY <1>2, <1>4 DEF TransmitComplete
  <2>4. e.hop \in Hop /\ nextUid \in Nat
    BY <1>1, <1>4, EventTypes DEF TypeOK
  <2>5. /\ Woken(e.hop) \in SUBSET WakeEvents /\ \A w \in Woken(e.hop) : w.at = now'
    BY <2>1, <2>4 DEF Woken, WakeEvents
  <2>6. wakes' \subseteq wakes \cup Woken(e.hop)
    BY <1>4 DEF TransmitComplete
  <2>. QED  BY <1>2, <2>1, <2>2, <2>3, <2>5, <2>6
<1>5. ASSUME NEW e \in events, IsNext(e), now' = e.at,
             e.kind = "Receive", e.hop < HopCount, Forward(e)
      PROVE  /\ \A h \in Hop : HandedAt(h)'
             /\ handed' = [h \in Hop |-> handed'[h]]
             /\ wakes' \in SUBSET WakeEvents /\ \A w \in wakes' : w.at = now'
  <2>1. now' \in Nat /\ (wakes # {} => now' = now) /\ \A w \in wakes : w.at = now'
    BY <1>3, <1>5
  <2>2. /\ Send(e.hop + 1, e.pkt) /\ events' = (events \ {e}) \cup SendEvents(e.hop + 1, e.pkt)
        /\ UNCHANGED <<byteTime, wakes>>
    BY <1>5 DEF Forward
  <2>3. e.hop \in Hop /\ e.pkt \in Packet
    BY <1>1, <1>5, EventTypes DEF TypeOK
  <2>4. e.hop + 1 \in Hop
    BY <1>5, <2>3 DEF Hop
  <2>5. \A h \in Hop : HandedAt(h)'
    BY <1>1, <2>1, <2>2, <2>3, <2>4, SendHands
  <2>6. handed' = [h \in Hop |-> handed'[h]]
    BY <1>2, <2>2 DEF Send
  <2>. QED  BY <1>2, <2>1, <2>2, <2>5, <2>6
<1>6. ASSUME NEW f \in Flow, OfferAnytime(f)
      PROVE  /\ \A h \in Hop : HandedAt(h)'
             /\ handed' = [h \in Hop |-> handed'[h]]
             /\ wakes' \in SUBSET WakeEvents /\ \A w \in wakes' : w.at = now'
  <2>1. now' \in Nat /\ (wakes # {} => now' = now) /\ \A w \in wakes : w.at = now'
    BY <1>1, <1>6 DEF OfferAnytime, InTime
  <2>2. /\ Send(1, NextPacket(f)) /\ events' = events \cup SendEvents(1, NextPacket(f))
        /\ UNCHANGED <<byteTime, wakes>>
    BY <1>6 DEF OfferAnytime, Offer
  <2>3. NextPacket(f) \in Packet
    BY <1>1 DEF NextPacket, Packet, TypeOK
  <2>5. \A h \in Hop : HandedAt(h)'
    BY <1>1, <2>1, <2>2, <2>3, HopType, SendHands
  <2>6. handed' = [h \in Hop |-> handed'[h]]
    BY <1>2, <2>2 DEF Send
  <2>. QED  BY <1>2, <2>1, <2>2, <2>5, <2>6
<1>7. ASSUME UNCHANGED <<queue, handed, wakes>>, events' \subseteq events,
             (wakes # {} => now' = now) /\ \A w \in wakes : w.at = now'
      PROVE  /\ \A h \in Hop : HandedAt(h)'
             /\ handed' = [h \in Hop |-> handed'[h]]
             /\ wakes' \in SUBSET WakeEvents /\ \A w \in wakes' : w.at = now'
  <2>1. \A h \in Hop : HandedAt(h)'
    BY <1>1, <1>7, HandKept DEF Wakes
  <2>. QED  BY <1>2, <1>7, <2>1
<1>8. ASSUME NEW w \in wakes, IsNext(w), now' = w.at, Wake(w)
      PROVE  /\ \A h \in Hop : HandedAt(h)'
             /\ handed' = [h \in Hop |-> handed'[h]]
             /\ wakes' \in SUBSET WakeEvents /\ \A v \in wakes' : v.at = now'
  <2>1. now' \in Nat /\ (wakes # {} => now' = now) /\ \A v \in wakes : v.at = now'
    BY <1>3, <1>8
  <2>2. /\ handed' = [handed EXCEPT ![w.hop] = Fill(Len(queue[w.hop]))] /\ w.hop \in Hop
        /\ wakes' = wakes \ {w} /\ UNCHANGED <<queue, events>>
    BY <1>1, <1>8 DEF Wake
  <2>3. HandedAt(w.hop)'
    <3>1. /\ queue[w.hop] \in Seq(Packet) /\ Len(queue[w.hop]) \in Nat
          /\ handed[w.hop] \in Nat /\ WithinCapacity(w.hop)
      BY <1>1, <2>2 DEF TypeOK
    <3>2. /\ handed[w.hop] <= Fill(Len(queue[w.hop])) /\ Fill(Len(queue[w.hop])) \in Nat
          /\ Len(queue[w.hop]) - handed[w.hop] <= DiscLimit
      <4>1. /\ handed[w.hop] <= Len(queue[w.hop]) /\ handed[w.hop] <= DeviceLimit
            /\ Len(queue[w.hop]) - handed[w.hop] <= DiscLimit
        BY <3>1, LinkAssumption DEF WithinCapacity, LinkAssumption
      <4>2. \A n, k \in Nat : k <= n /\ k <= DeviceLimit => k <= Fill(n) /\ Fill(n) \in Nat
        BY FillType, LinkAssumption DEF LinkAssumption
      <4>. QED  BY <3>1, <4>1, <4>2
    <3>3. Len(queue[w.hop]) - Fill(Len(queue[w.hop])) <= DiscLimit
      BY <3>1, <3>2
    <3>. QED  BY <1>2, <2>2, <3>1, <3>3, HandFilled
  <2>4. ASSUME NEW h \in Hop, h # w.hop PROVE HandedAt(h)'
    <3>1. \A v \in Wakes(h) : v \in wakes'
      BY <2>2, <2>4 DEF Wakes
    <3>2. handed'[h] = handed[h] /\ queue'[h] = queue[h]
      BY <1>2, <2>2, <2>4
    <3>. QED  BY <1>1, <2>1, <2>2, <3>1, <3>2, HandKept
  <2>. QED  BY <1>2, <2>1, <2>2, <2>3, <2>4
<1>9. CASE OtherEvent
  <2>1. UNCHANGED <<queue, handed, wakes>> /\ events' \subseteq events
    BY <1>9 DEF OtherEvent, devVars
  <2>2. (wakes # {} => now' = now) /\ \A w \in wakes : w.at = now'
    BY <1>1, <1>9 DEF OtherEvent, InTime
  <2>. QED  BY <1>7, <2>1, <2>2
<1>10. CASE RunNext
  <2>1. PICK e \in events \cup wakes : IsNext(e) /\ now' = e.at /\ DeviceEvent(e)
    BY <1>10 DEF RunNext
  <2>2. /\ e \in events => e.kind # "Wake"
        /\ e \in wakes => e.kind = "Wake"
    BY <1>1, EventTypes DEF TypeOK, WakeEvents
  <2>3. CASE e.kind = "Receive" /\ e.hop = HopCount /\ Arrive(e)
    <3>1. UNCHANGED <<queue, handed, wakes>> /\ events' \subseteq events
      BY <2>3 DEF Arrive, devVars
    <3>2. (wakes # {} => now' = now) /\ \A w \in wakes : w.at = now'
      BY <1>3, <2>1
    <3>. QED  BY <1>7, <3>1, <3>2
  <2>. QED  BY <1>4, <1>5, <1>8, <2>1, <2>2, <2>3 DEF DeviceEvent, Receive
<1>. QED  BY <1>6, <1>9, <1>10 DEF Next
-----------------------------------------------------------------------------
(* The steps of the row. *)
LEMMA StepCases ==
  ASSUME BaseInv, Next
  PROVE  \/ \E e \in events : /\ IsNext(e) /\ now' = e.at
                              /\ e.kind = "TransmitComplete" /\ TransmitComplete(e)
         \/ \E h \in Hop : \E e \in Receptions(h) :
              IsNext(e) /\ now' = e.at /\ h < HopCount /\ Forward(e)
         \/ \E e \in Receptions(HopCount) : IsNext(e) /\ now' = e.at /\ Arrive(e)
         \/ OnlyTime
         \/ \E f \in Flow : OfferAnytime(f)
<1>1. CASE RunNext
  <2>1. PICK e \in events \cup wakes : IsNext(e) /\ now' = e.at /\ DeviceEvent(e)
    BY <1>1 DEF RunNext
  <2>6. /\ e \in events => e.hop \in Hop /\ e.kind # "Wake"
        /\ e \in wakes => e.kind = "Wake"
    BY EventTypes DEF BaseInv, TypeOK, WakeEvents
  <2>7. CASE e.kind = "Wake" /\ Wake(e)
    BY <2>1, <2>6, <2>7, WakeIsTime
  <2>2. e.kind # "Wake" => e \in events /\ e.hop \in Hop
    BY <2>6
  <2>3. CASE e.kind = "TransmitComplete" /\ TransmitComplete(e)
    BY <2>1, <2>2, <2>3
  <2>4. CASE e.kind = "Receive" /\ e.hop < HopCount /\ Forward(e)
    <3>1. e \in Receptions(e.hop)
      BY <2>2, <2>4 DEF Receptions
    <3>. QED  BY <2>1, <2>2, <2>4, <3>1
  <2>5. CASE e.kind = "Receive" /\ e.hop = HopCount /\ Arrive(e)
    <3>1. e \in Receptions(HopCount)
      BY <2>2, <2>5 DEF Receptions
    <3>. QED  BY <2>1, <2>5, <3>1
  <2>. QED  BY <2>1, <2>3, <2>4, <2>5, <2>7 DEF DeviceEvent, Receive
<1>. QED  BY <1>1, OtherIsTime DEF Next

LEMMA Stutters ==
  ASSUME BaseInv, UNCHANGED vars
  PROVE  BaseInv' /\ UnderWay' = UnderWay
<1>. USE DEF vars, devVars, simVars
<1>1. TypeOK'
  BY DEF BaseInv, TypeOK, Event, Completions, WithinCapacity
<1>2. EventInv'
  BY DEF BaseInv, MotionInv, EventInv
<1>3. /\ \A h : /\ Receptions(h)' = Receptions(h) /\ OnWire(h)' = OnWire(h)
                /\ Queued(h)' = Queued(h) /\ At(h)' = At(h) /\ (Idle(h)' <=> Idle(h))
      /\ UnderWay' = UnderWay /\ Lost' = Lost /\ Known' = Known
  BY DEF Receptions, OnWire, Queued, At, Idle, UnderWay, Lost, Known
<1>4. MachineInv'
  BY <1>3 DEF BaseInv, MotionInv, MachineInv, Completes
<1>5. OrderInv'
  BY <1>3 DEF BaseInv, MotionInv, OrderInv
<1>6. AccountInv'
  BY <1>3 DEF BaseInv, AccountInv, OfFlow
<1>7. HandInv'
  BY DEF BaseInv, HandInv, HandAt, Wakes, Completes
<1>. QED  BY <1>1, <1>2, <1>3, <1>4, <1>5, <1>6, <1>7 DEF BaseInv, MotionInv

LEMMA NextBase == BaseInv /\ [Next]_vars => BaseInv'
<1>. SUFFICES ASSUME BaseInv, [Next]_vars PROVE BaseInv'
  OBVIOUS
<1>1. CASE Next
  <2>1. RowInv'
    BY <1>1, StepCases, CompleteBase, ForwardBase, ArriveBase, OtherBase, OfferBase
  <2>2. HandTypes' /\ HandInv'
    BY <1>1, HandStep
  <2>3. TypeOK'
    BY <2>1, <2>2 DEF RowInv, RowTypes, DeviceTypes, HandTypes, TypeOK
  <2>. QED  BY <2>1, <2>2, <2>3 DEF RowInv, BaseInv
<1>2. CASE UNCHANGED vars
  BY <1>2, Stutters
<1>. QED  BY <1>1, <1>2

(* The row keeps its packets in order and accounts for each of them,       *)
(* whatever is offered when.                                               *)
THEOREM BaseInvariance == Spec => []BaseInv
<1>. QED  BY InitBase, NextBase, PTL DEF Spec

(* Every variable of the row keeps to its type, and no queue to more than  *)
(* its capacity.                                                           *)
THEOREM TypeCorrect == Spec => []TypeOK
<1>1. BaseInv => TypeOK
  BY DEF BaseInv
<1>. QED  BY <1>1, BaseInvariance, PTL

(* Nothing is forgotten behind a device: what waits is handed to it in     *)
(* time, and no device is idle while something waits for it.               *)
THEOREM NothingIsForgotten == Spec => []NothingForgotten
<1>1. ASSUME BaseInv, NEW h \in Hop
      PROVE  /\ Idle(h) => queue[h] = <<>>
             /\ handed[h] < Fill(Len(queue[h])) => \E w \in wakes : w.hop = h /\ w.at = now
  <2>1. Idle(h) => queue[h] = <<>>
    BY <1>1 DEF BaseInv, MotionInv, MachineInv
  <2>2. ASSUME handed[h] < Fill(Len(queue[h]))
        PROVE  \E w \in wakes : w.hop = h /\ w.at = now
    <3>1. handed[h] # Fill(Len(queue[h]))
      BY <1>1, <2>2 DEF BaseInv, TypeOK
    <3>2. Wakes(h) # {}
      BY <1>1, <3>1 DEF BaseInv, HandInv, HandAt
    <3>. QED  BY <1>1, <3>2 DEF Wakes, BaseInv, HandInv
  <2>. QED  BY <2>1, <2>2
<1>2. BaseInv => NothingForgotten
  BY <1>1 DEF NothingForgotten
<1>. QED  BY <1>2, BaseInvariance, PTL

(* The three orders leave no packet in two places of the row. *)
LEMMA NothingDoubled ==
  ASSUME BaseInv
  PROVE  ~Doubled
<1>1. \A h \in Hop : Queued(h) \subseteq Packet /\ OnWire(h) \subseteq Packet
  BY KnownPackets DEF BaseInv, Known, UnderWay
<1>2. ASSUME NEW h \in Hop, NEW i \in 1 .. Len(queue[h]), NEW j \in 1 .. Len(queue[h]), i # j
      PROVE  queue[h][i] # queue[h][j]
  <2>1. queue[h][i] \in Packet /\ queue[h][j] \in Packet
    BY <1>1 DEF Queued
  <2>2. i < j \/ j < i
    BY <1>2
  <2>. QED  BY <2>1, <2>2, PacketType, Orders DEF BaseInv, MotionInv
<1>3. ASSUME NEW h \in Hop, NEW e \in Receptions(h), NEW f \in Receptions(h), e # f
      PROVE  e.pkt # f.pkt
  <2>1. e.pkt \in Packet /\ f.pkt \in Packet
    BY <1>1 DEF OnWire
  <2>2. e.uid < f.uid \/ f.uid < e.uid
    <3>1. e \in events /\ f \in events
      BY DEF Receptions
    <3>2. e.uid # f.uid
      BY <1>3, <3>1 DEF BaseInv, MotionInv, EventInv
    <3>. QED  BY <3>1, <3>2, EventTypes DEF BaseInv, TypeOK
  <2>. QED  BY <2>1, <2>2, PacketType, Orders DEF BaseInv, MotionInv
<1>4. ASSUME NEW h \in Hop
      PROVE  Queued(h) \cap OnWire(h) = {}
  BY <1>1, PacketType, Orders DEF BaseInv, MotionInv
<1>5. ASSUME NEW g \in Hop, NEW h \in Hop, g # h
      PROVE  (Queued(g) \cup OnWire(g)) \cap (Queued(h) \cup OnWire(h)) = {}
  <2>1. g < h \/ h < g
    BY <1>5, HopType
  <2>2. \A p \in At(g) \cap At(h) : p.id < p.id /\ p \in Packet
    BY <1>1, <2>1, Orders DEF BaseInv, MotionInv, At
  <2>. QED  BY <2>2, PacketType DEF At
<1>. QED  BY <1>2, <1>3, <1>4, <1>5 DEF Doubled

(* No packet is lost without a trace or doubled, and the flow monitor has  *)
(* counted what was offered and what has arrived, for every row, every     *)
(* capacity and every mix of flows.                                        *)
THEOREM AccountsCorrect == Spec => []NothingVanishes
<1>1. BaseInv => NothingVanishes
  BY NothingDoubled DEF BaseInv, AccountInv, NothingVanishes, Known
<1>. QED  BY <1>1, BaseInvariance, PTL
-----------------------------------------------------------------------------
(* The row is a path that loses but never reorders. *)

LEMMA PathStep == BaseInv /\ [Next]_vars => [Path!Next]_(Path!vars)
<1>. SUFFICES ASSUME BaseInv, [Next]_vars PROVE [Path!Next]_(Path!vars)
  OBVIOUS
<1>0. CASE UNCHANGED vars
  <2>1. UNCHANGED <<offered, UnderWay, arrived>>
    BY <1>0, Stutters DEF vars
  <2>. QED  BY <2>1 DEF Path!vars
<1>1. ASSUME NEW e \in events, IsNext(e), now' = e.at,
             e.kind = "TransmitComplete", TransmitComplete(e)
      PROVE  UNCHANGED Path!vars
  <2>1. UNCHANGED <<offered, UnderWay, arrived>>
    BY <1>1, CompleteBase
  <2>. QED  BY <2>1 DEF Path!vars
<1>2. ASSUME NEW h \in Hop, NEW e \in Receptions(h), IsNext(e), now' = e.at,
             h < HopCount, Forward(e)
      PROVE  [Path!Next]_(Path!vars)
  <2>1. /\ UNCHANGED <<offered, arrived>>
        /\ UnderWay' = UnderWay \ {e.pkt} \/ UnderWay' = UnderWay
    BY <1>2, ForwardBase
  <2>2. e.pkt \in UnderWay
    BY <1>2, HeldWithout DEF BaseInv
  <2>3. CASE UnderWay' = UnderWay \ {e.pkt}
    <3>1. Path!Lose
      BY <2>1, <2>2, <2>3 DEF Path!Lose
    <3>. QED  BY <3>1 DEF Path!Next
  <2>4. CASE UnderWay' = UnderWay
    BY <2>1, <2>4 DEF Path!vars
  <2>. QED  BY <2>1, <2>3, <2>4
<1>3. ASSUME NEW e \in Receptions(HopCount), IsNext(e), now' = e.at, Arrive(e)
      PROVE  Path!Next
  <2>1. /\ e.pkt \in UnderWay /\ \A p \in UnderWay : e.pkt.id <= p.id
        /\ UnderWay' = UnderWay \ {e.pkt} /\ arrived' = arrived \cup {e.pkt}
        /\ offered' = offered
    BY <1>3, ArriveBase
  <2>2. Path!HandOut
    BY <2>1 DEF Path!HandOut
  <2>. QED  BY <2>2 DEF Path!Next
<1>4. ASSUME NEW f \in Flow, OfferAnytime(f)
      PROVE  Path!Next
  <2>1. /\ offered' = offered + 1 /\ arrived' = arrived
        /\ NextPacket(f) = [flow |-> f, id |-> offered']
        /\ UnderWay' \in {UnderWay, UnderWay \cup {NextPacket(f)}}
    BY <1>4, OfferBase
  <2>2. Path!Offer(f)
    BY <2>1 DEF Path!Offer
  <2>. QED  BY <2>2 DEF Path!Next
<1>5. ASSUME OnlyTime
      PROVE  UNCHANGED Path!vars
  BY <1>5, OtherBase DEF Path!vars
<1>. QED  BY <1>0, <1>1, <1>2, <1>3, <1>4, <1>5, StepCases

(* The row of links implements the path: what arrives was under way, and   *)
(* is the oldest of what was; what is lost is lost whole.                  *)
THEOREM Refinement == Spec => ImplementsLossyPath
<1>1. Init => Path!Init
  <2>1. Init => offered = 0 /\ UnderWay = {} /\ arrived = {}
    BY DEF Init, Start, UnderWay, Queued, OnWire, Receptions
  <2>. QED  BY <2>1 DEF Path!Init
<1>. QED  BY <1>1, PathStep, BaseInvariance, PTL DEF Spec, ImplementsLossyPath, Path!Spec
-----------------------------------------------------------------------------
(* Packets of one size: how far apart they are.                            *)

(* A slot is a natural number of time units, and the longer the slower the *)
(* hop is.                                                                 *)
LEMMA SlotType ==
  ASSUME byteTime \in ByteTimes, NEW s \in Nat \ {0}
  PROVE  \A h \in Hop : Slot(s, h) \in Nat \ {0}
<1>1. \A h \in Hop : byteTime[h] \in Nat \ {0}
  OBVIOUS
<1>. QED  BY <1>1, Product DEF Slot

LEMMA Monotone ==
  ASSUME NEW m \in Nat, NEW n \in Nat, NEW s \in Nat \ {0}
  PROVE  /\ m <= n => m * s <= n * s
         /\ m > n => m * s > n * s
<1>1. \A k \in Nat : k * s \in Nat /\ (k > 0 => k * s > 0)
  BY SMT
<1>2. m <= n => n * s = m * s + (n - m) * s /\ n - m \in Nat
  BY SMT
<1>3. m > n => m * s = n * s + (m - n) * s /\ m - n \in Nat /\ m - n > 0
  BY SMT
<1>4. m * s \in Nat /\ n * s \in Nat
  BY <1>1
<1>. QED  BY <1>1, <1>2, <1>3, <1>4

LEMMA SlotOrder ==
  ASSUME byteTime \in ByteTimes, NEW s \in Nat \ {0}, NEW i \in Hop, NEW h \in Hop
  PROVE  /\ byteTime[i] <= byteTime[h] => Slot(s, i) <= Slot(s, h)
         /\ byteTime[i] > byteTime[h] => Slot(s, i) > Slot(s, h)
         /\ byteTime[i] \in Nat /\ byteTime[h] \in Nat
<1>1. byteTime[i] \in Nat /\ byteTime[h] \in Nat
  OBVIOUS
<1>. QED  BY <1>1, Monotone DEF Slot

LEMMA SlotKept ==
  ASSUME byteTime' = byteTime
  PROVE  \A s, h : Slot(s, h)' = Slot(s, h)
BY DEF Slot

(* All the packets of the row have the size of those offered. *)
LEMMA KnownSize ==
  ASSUME BaseInv, NEW s, OnlySize(s), NEW p \in Known
  PROVE  Size[p.flow] = s
<1>1. p.flow \in Flow
  BY KnownPackets, PacketType DEF BaseInv
<1>2. IsFiniteSet(OfFlow(Known, p.flow)) /\ p \in OfFlow(Known, p.flow)
  BY FS_Subset DEF BaseInv, AccountInv, OfFlow
<1>3. Cardinality(OfFlow(Known, p.flow)) # 0
  BY <1>2, FS_EmptySet
<1>4. stats[p.flow].tx = Cardinality(OfFlow(Known, p.flow))
  BY <1>1 DEF BaseInv, AccountInv
<1>5. stats[p.flow].tx \in Nat
  BY <1>1 DEF BaseInv, TypeOK
<1>. QED  BY <1>1, <1>3, <1>4, <1>5 DEF OnlySize

(* What a step starts from that does not go back in time, nor beyond an    *)
(* event that is pending.                                                  *)
Timely(s) ==
  /\ BaseInv /\ Spaced(s) /\ s \in Nat \ {0}
  /\ now' \in Nat /\ now <= now' /\ \A e \in events : now' <= e.at
  /\ byteTime' = byteTime

(* What the operands of the inequalities are. *)
LEMMA Times ==
  ASSUME NEW s, Timely(s)
  PROVE  /\ \A h \in Hop : Slot(s, h) \in Nat \ {0}
         /\ \A h \in Hop : \A t \in lastStart[h] : t \in Nat
         /\ \A e \in events : e.at \in Nat /\ e.uid \in Nat
         /\ \A h \in Hop : \A e \in Receptions(h) : e \in events /\ e.at \in Nat /\ e.uid \in Nat
         /\ \A f \in Flow : stats[f].timeLastRx \in Nat /\ stats[f].rx \in Nat
         /\ now \in Nat /\ now' \in Nat /\ now <= now'
         /\ \A h : Slot(s, h)' = Slot(s, h)
<1>1. TypeOK /\ byteTime' = byteTime /\ s \in Nat \ {0}
  BY DEF Timely, BaseInv
<1>2. \A h \in Hop : Slot(s, h) \in Nat \ {0}
  BY <1>1, SlotType DEF TypeOK
<1>3. \A e \in events : e.at \in Nat /\ e.uid \in Nat
  BY <1>1, EventTypes DEF TypeOK
<1>. QED  BY <1>1, <1>2, <1>3, SlotKept DEF TypeOK, Timely, Receptions

(* Where nothing changes but the time. *)
LEMMA TransmitsKept ==
  ASSUME NEW s, Timely(s), NEW h \in Hop, Idle(h)' <=> Idle(h), lastStart'[h] = lastStart[h],
         \A c \in events' : Completes(c, h) => c \in events
  PROVE  TransmitsAt(s, h)'
<1>1. TransmitsAt(s, h)
  BY DEF Timely, Spaced
<1>2. ASSUME NEW t \in lastStart[h]
      PROVE  t <= now' /\ (Idle(h) => t + Slot(s, h) <= now')
  BY <1>1, <1>2, Times DEF TransmitsAt
<1>. QED  BY <1>1, <1>2, Times DEF TransmitsAt

LEMMA SpacedKept ==
  ASSUME NEW s, Timely(s), NEW h \in Hop, lastStart'[h] = lastStart[h],
         Receptions(h)' \subseteq Receptions(h)
  PROVE  SpacedAt(s, h)'
<1>1. SpacedAt(s, h)
  BY DEF Timely, Spaced
<1>. QED  BY <1>1, Times DEF SpacedAt

LEMMA ArrivedKept ==
  ASSUME NEW s, Timely(s), NEW f \in Flow, stats[f].rx > 0,
         stats'[f].timeLastRx = stats[f].timeLastRx,
         lastStart'[HopCount] = lastStart[HopCount],
         Receptions(HopCount)' \subseteq Receptions(HopCount)
  PROVE  ArrivedOf(s, f)'
<1>1. ArrivedOf(s, f)
  BY DEF Timely, Spaced
<1>. QED  BY <1>1, Times DEF ArrivedOf

(* While a packet waits behind a hop that is as slow, time stands still.   *)
LEMMA WaitsAnInstant ==
  ASSUME NEW s, Timely(s), NEW h \in Hop, NEW i \in 1 .. h - 1, byteTime[i] >= byteTime[h],
         queue[h] # <<>>
  PROVE  now' = now
<1>1. QuietAt(s, i, h) /\ TransmitsAt(s, h)
  BY DEF Timely, Spaced
<1>2. PICK c \in events : Completes(c, h)
  BY DEF Timely, BaseInv, MotionInv, MachineInv
<1>3. PICK t \in lastStart[h] : c.at = t + Slot(s, h)
  BY <1>1, <1>2 DEF TransmitsAt
<1>4. now = c.at
  BY <1>1, <1>3 DEF QuietAt
<1>5. now' <= c.at
  BY DEF Timely
<1>. QED  BY <1>4, <1>5, Times

LEMMA QuietKept ==
  ASSUME NEW s, Timely(s), NEW h \in Hop, NEW i \in 1 .. h - 1, byteTime[i] >= byteTime[h],
         queue'[h] = queue[h], refused'[h] = refused[h], lastStart'[h] = lastStart[h],
         lastStart'[h - 1] = lastStart[h - 1], Receptions(h - 1)' \subseteq Receptions(h - 1)
  PROVE  QuietAt(s, i, h)'
<1>1. QuietAt(s, i, h)
  BY DEF Timely, Spaced
<1>2. \A t : Entered(s, h, t)' = Entered(s, h, t)
  BY Times DEF Entered
<1>3. queue[h] # <<>> => now' = now
  BY WaitsAnInstant
<1>4. byteTime' = byteTime
  BY DEF Timely
<1>. QED  BY <1>1, <1>2, <1>3, <1>4, Times DEF QuietAt

(* A step in which no transmission begins: the receptions are those of     *)
(* before, or fewer; a device may become idle, if its slot is over, and a  *)
(* queue may grow, if its hop may be a bottleneck or if what comes waits   *)
(* for an instant.                                                         *)
LEMMA NoStart ==
  ASSUME NEW s, Timely(s), NEW h \in Hop,
         UNCHANGED lastStart,
         \A g \in Hop : g # h => (Idle(g)' <=> Idle(g)) /\ queue'[g] = queue[g]
                                                         /\ refused'[g] = refused[g],
         \A g \in Hop : /\ Receptions(g)' \subseteq Receptions(g)
                        /\ \A c \in events' : Completes(c, g) => c \in events,
         TransmitsAt(s, h)',
         \A i \in 1 .. h - 1 : byteTime[i] >= byteTime[h] => QuietAt(s, i, h)',
         \A f \in Flow : stats'[f].rx > 0 => ArrivedOf(s, f)'
  PROVE  Spaced(s)'
<1>1. \A g \in Hop : TransmitsAt(s, g)'
  BY TransmitsKept
<1>2. \A g \in Hop : SpacedAt(s, g)'
  BY SpacedKept
<1>3. ASSUME NEW g \in Hop, NEW i \in 1 .. g - 1, byteTime[i] >= byteTime[g]
      PROVE  QuietAt(s, i, g)'
  <2>1. CASE g = h
    BY <1>3, <2>1
  <2>2. CASE g # h
    <3>1. g - 1 \in Hop
      BY DEF Hop
    <3>2. Receptions(g - 1)' \subseteq Receptions(g - 1)
      BY <3>1
    <3>. QED  BY <1>3, <2>2, <3>2, QuietKept
  <2>. QED  BY <2>1, <2>2
<1>4. byteTime' = byteTime
  BY DEF Timely
<1>. QED  BY <1>1, <1>2, <1>3, <1>4 DEF Spaced

(* What must hold when a transmission begins at hop h with the queue q:    *)
(* every hop up to h has had a slot since the last one began, and if h is  *)
(* no bottleneck then nothing waits, and what comes next is not yet here.  *)
OnTime(s, E, h, q) ==
  /\ \A t \in lastStart[h] : \A i \in 1 .. h : t + Slot(s, i) <= now'
  /\ \A i \in 1 .. h - 1 : byteTime[i] >= byteTime[h] =>
       /\ Len(q) = 1
       /\ \A e \in RecIn(E, h - 1) : now' + Slot(s, i) <= e.at
       /\ \E u \in lastStart[h - 1] : now' <= u + Slot(s, h - 1) + Delay

LEMMA StartSpaced ==
  ASSUME NEW s, Timely(s), NEW E, NEW h \in Hop, NEW q,
         Left(E), \A g \in Hop : g # h => Keeps(E, g),
         Startable(E, h, q), TransmitStart(h, q), OnTime(s, E, h, q),
         events' = E \cup Scheduled(h, q), Size[q[1].flow] = s,
         \A f \in Flow : /\ stats'[f].timeLastRx = stats[f].timeLastRx
                         /\ stats'[f].rx = stats[f].rx
  PROVE  Spaced(s)'
<1>. DEFINE p == Head(q)
            c == Completion(h, p)
            x == Reception(h, p)
<1>1. /\ byteTime \in ByteTimes /\ queue \in [Hop -> Seq(Packet)]
      /\ sending \in [Hop -> Packet \cup {None}]
      /\ lastStart \in [Hop -> SUBSET Nat]
      /\ nextUid \in Nat /\ now \in Nat /\ now' \in Nat /\ byteTime' = byteTime
  BY DEF Left, TypeOK
<1>2. /\ q \in Seq(Packet) /\ q # <<>> /\ p \in Packet /\ p = q[1]
      /\ Tail(q) \in Seq(Packet) /\ Len(Tail(q)) = Len(q) - 1 /\ Len(q) \in Nat
  BY HeadTail DEF Startable
<1>3. /\ c.at = now' + Slot(s, h) /\ x.at = now' + Slot(s, h) + Delay
      /\ c.uid = nextUid /\ x.uid = nextUid + 1
      /\ c.kind = "TransmitComplete" /\ c.hop = h
      /\ x.kind = "Receive" /\ x.hop = h /\ x.pkt = p
  <2>1. TxTime(h, p.flow) = Slot(s, h)
    BY <1>2 DEF TxTime, Slot
  <2>. QED  BY <1>1, <1>2, <2>1, ScheduledTypes
<1>4. events' = E \cup {c, x}
  BY DEF Scheduled
<1>. HIDE DEF p, c, x
<1>5. /\ queue'[h] = Tail(q) /\ sending'[h] # None /\ lastStart'[h] = {now'}
      /\ refused' = refused
      /\ \A g \in Hop : g # h => /\ queue'[g] = queue[g] /\ sending'[g] = sending[g]
                                 /\ lastStart'[g] = lastStart[g]
  <2>1. sending'[h] = p
    BY <1>1 DEF TransmitStart, p
  <2>2. p # None
    BY <1>2, NoneIsNoPacket
  <2>. QED  BY <1>1, <2>1, <2>2 DEF TransmitStart
<1>6. /\ Receptions(h)' = RecIn(E, h) \cup {x}
      /\ \A g \in Hop : g # h => Receptions(g)' = RecIn(E, g)
      /\ \A g \in Hop : RecIn(E, g) \subseteq Receptions(g)
  BY <1>3, <1>4 DEF Receptions, RecIn, Left
<1>7. \A g \in Hop : g # h => \A a \in events' : Completes(a, g) => a \in events
  BY <1>3, <1>4 DEF Completes, Left
<1>8. ASSUME NEW g \in Hop PROVE TransmitsAt(s, g)'
  <2>1. CASE g # h
    BY <2>1, <1>5, <1>7, TransmitsKept DEF Idle
  <2>2. CASE g = h
    <3>1. ~Idle(h)'
      BY <1>5 DEF Idle
    <3>2. \A a \in events' : Completes(a, h) => a = c
      BY <1>3, <1>4 DEF Completes, Startable
    <3>3. c.at = now' + Slot(s, h)'
      BY <1>3, Times
    <3>4. \A t \in lastStart'[h] : t = now' /\ t <= now'
      BY <1>1, <1>5
    <3>5. now' \in lastStart'[h]
      BY <1>5
    <3>. QED  BY <2>2, <3>1, <3>2, <3>3, <3>4, <3>5 DEF TransmitsAt
  <2>. QED  BY <2>1, <2>2
<1>9. \A t \in lastStart[h] : \A i \in 1 .. h : i \in Hop /\ t + Slot(s, i) <= now'
  BY DEF OnTime, Hop
<1>10. ASSUME NEW e \in RecIn(E, h)
       PROVE  /\ e.at <= now' + Slot(s, h) + Delay
              /\ \A i \in 1 .. h : e.at + Slot(s, i) <= x.at
  <2>1. e \in Receptions(h) /\ SpacedAt(s, h)
    BY <1>6 DEF Timely, Spaced
  <2>2. PICK t \in lastStart[h] : e.at <= t + Slot(s, h) + Delay
    BY <2>1 DEF SpacedAt
  <2>3. t <= now' /\ t \in Nat /\ e.at \in Nat /\ Slot(s, h) \in Nat /\ now' \in Nat
    <3>1. t <= now
      BY DEF Timely, Spaced, TransmitsAt
    <3>. QED  BY <2>1, <3>1, Times
  <2>4. ASSUME NEW i \in 1 .. h PROVE e.at + Slot(s, i) <= x.at
    <3>1. t + Slot(s, i) <= now' /\ Slot(s, i) \in Nat
      BY <1>9, Times
    <3>. QED  BY <1>3, <2>2, <2>3, <3>1
  <2>. QED  BY <2>2, <2>3, <2>4
<1>11. ASSUME NEW g \in Hop PROVE SpacedAt(s, g)'
  <2>1. CASE g # h
    BY <2>1, <1>5, <1>6, SpacedKept
  <2>2. CASE g = h
    <3>1. \A e \in Receptions(h)' : e.at <= now' + Slot(s, h) + Delay
      BY <1>3, <1>6, <1>10, Times
    <3>2. ASSUME NEW e \in Receptions(h)', NEW f \in Receptions(h)', e.uid < f.uid,
                 NEW i \in 1 .. h
          PROVE  e.at + Slot(s, i) <= f.at
      <4>1. CASE e \in RecIn(E, h) /\ f \in RecIn(E, h)
        BY <1>6, <3>2, <4>1 DEF Timely, Spaced, SpacedAt
      <4>2. CASE e \in RecIn(E, h) /\ f = x
        BY <1>10, <4>2
      <4>3. CASE e = x
        <5>1. f.uid = nextUid + 1 \/ (f.uid < nextUid /\ f.uid \in Nat)
          <6>1. \A a \in events : a.uid < nextUid
            BY DEF Left, EventInv
          <6>. QED  BY <1>3, <1>6, <6>1, Times
        <5>. QED  BY <1>1, <1>3, <3>2, <4>3, <5>1
      <4>. QED  BY <1>6, <4>1, <4>2, <4>3
    <3>3. \A i : Slot(s, i)' = Slot(s, i)
      BY Times
    <3>4. now' \in lastStart'[h]
      BY <1>5
    <3>. QED  BY <2>2, <3>1, <3>2, <3>3, <3>4 DEF SpacedAt
  <2>. QED  BY <2>1, <2>2
<1>12. ASSUME NEW g \in Hop, NEW i \in 1 .. g - 1, byteTime[i] >= byteTime[g]
       PROVE  QuietAt(s, i, g)'
  <2>0. g - 1 \in Hop /\ i \in Hop /\ g # g - 1
    BY DEF Hop
  <2>1. CASE g # h /\ g - 1 # h
    BY <1>5, <1>6, <1>12, <2>0, <2>1, QuietKept
  <2>2. CASE g = h
    <3>1. /\ Len(q) = 1
          /\ \A e \in RecIn(E, h - 1) : now' + Slot(s, i) <= e.at
          /\ \E u \in lastStart[h - 1] : now' <= u + Slot(s, h - 1) + Delay
      BY <1>12, <2>2 DEF OnTime
    <3>2. queue'[h] = <<>> /\ Len(queue'[h]) = 0
      BY <1>2, <1>5, <3>1
    <3>3. \A t \in lastStart'[h] : t = now' /\ Entered(s, h, t)' = t
      BY <1>5, <3>2 DEF Entered
    <3>4. refused'[h] = {}
      BY <1>5, <1>12, <2>2 DEF Timely, Spaced, QuietAt
    <3>5. Receptions(h - 1)' = RecIn(E, h - 1) /\ lastStart'[h - 1] = lastStart[h - 1]
      BY <1>5, <1>6, <2>0, <2>2
    <3>6. \A k : Slot(s, k)' = Slot(s, k)
      BY Times
    <3>. QED  BY <2>2, <3>1, <3>2, <3>3, <3>4, <3>5, <3>6 DEF QuietAt
  <2>3. CASE g - 1 = h
    <3>0. g # h /\ i \in 1 .. h
      BY <2>0, <2>3, HopType
    <3>1. QuietAt(s, i, g)
      BY <1>12 DEF Timely, Spaced
    <3>2. queue[g] # <<>> => now' = now
      BY <1>12, WaitsAnInstant
    <3>3. \A t : Entered(s, g, t)' = Entered(s, g, t)
      BY <1>5, <3>0, Times DEF Entered
    <3>4. ASSUME NEW t \in lastStart[g]
          PROVE  /\ \A e \in Receptions(h)' : Entered(s, g, t) + Slot(s, i) <= e.at
                 /\ Entered(s, g, t) <= now' + Slot(s, h) + Delay
      <4>1. PICK u \in lastStart[h] : Entered(s, g, t) <= u + Slot(s, h) + Delay
        BY <2>3, <3>1 DEF QuietAt
      <4>2. /\ Entered(s, g, t) \in Nat /\ u \in Nat /\ Slot(s, h) \in Nat
            /\ Slot(s, i) \in Nat /\ now' \in Nat
        BY <2>0, Times DEF Entered
      <4>3. u + Slot(s, i) <= now'
        BY <1>9, <3>0
      <4>4. Entered(s, g, t) + Slot(s, i) <= x.at
        BY <1>3, <4>1, <4>2, <4>3
      <4>5. \A e \in RecIn(E, h) : Entered(s, g, t) + Slot(s, i) <= e.at
        BY <1>6, <2>3, <3>1 DEF QuietAt
      <4>. QED  BY <1>6, <4>1, <4>2, <4>3, <4>4, <4>5
    <3>5. \A k : Slot(s, k)' = Slot(s, k)
      BY Times
    <3>6. now' \in lastStart'[h] /\ lastStart'[g] = lastStart[g] /\ queue'[g] = queue[g]
      BY <1>5, <3>0
    <3>7. ASSUME NEW t \in lastStart'[g]
          PROVE  /\ \A e \in Receptions(g - 1)' : Entered(s, g, t)' + Slot(s, i)' <= e.at
                 /\ \E u \in lastStart'[g - 1] : Entered(s, g, t)' <= u + Slot(s, g - 1)' + Delay
      BY <2>3, <3>3, <3>4, <3>5, <3>6
    <3>8. /\ Len(queue'[g]) <= 1
          /\ queue'[g] # <<>> => /\ byteTime'[i] = byteTime'[g]
                                 /\ \A t \in lastStart'[g] : now' = t + Slot(s, g)'
          /\ refused'[g] = {}
      BY <1>1, <1>5, <3>1, <3>2, <3>5, <3>6 DEF QuietAt
    <3>. QED  BY <3>7, <3>8 DEF QuietAt
  <2>. QED  BY <2>1, <2>2, <2>3
<1>13. ASSUME NEW f \in Flow, stats'[f].rx > 0 PROVE ArrivedOf(s, f)'
  <2>1. ArrivedOf(s, f) /\ stats[f].rx > 0 /\ HopCount \in Hop
    BY <1>13, HopType DEF Timely, Spaced
  <2>2. CASE h # HopCount
    BY <1>5, <1>6, <2>1, <2>2, ArrivedKept
  <2>3. CASE h = HopCount
    <3>1. PICK t \in lastStart[h] : stats[f].timeLastRx <= t + Slot(s, h) + Delay
      BY <2>1, <2>3 DEF ArrivedOf
    <3>2. t \in Nat /\ Slot(s, h) \in Nat /\ now' \in Nat /\ stats[f].timeLastRx \in Nat
      BY Times
    <3>3. ASSUME NEW i \in Hop PROVE stats[f].timeLastRx + Slot(s, i) <= x.at
      <4>1. i \in 1 .. h
        BY <2>3 DEF Hop
      <4>2. t + Slot(s, i) <= now' /\ Slot(s, i) \in Nat
        BY <1>9, <4>1, Times
      <4>. QED  BY <1>3, <3>1, <3>2, <4>2
    <3>4. \A e \in RecIn(E, h) : \A i \in Hop : stats[f].timeLastRx + Slot(s, i) <= e.at
      BY <1>6, <2>1, <2>3 DEF ArrivedOf
    <3>5. stats[f].timeLastRx <= now' + Slot(s, h) + Delay
      <4>1. t <= now
        BY DEF Timely, Spaced, TransmitsAt
      <4>. QED  BY <3>1, <3>2, <4>1, Times
    <3>6. \A k : Slot(s, k)' = Slot(s, k)
      BY Times
    <3>7. now' \in lastStart'[h] /\ stats'[f].timeLastRx = stats[f].timeLastRx
      BY <1>5
    <3>. QED  BY <1>6, <2>3, <3>3, <3>4, <3>5, <3>6, <3>7 DEF ArrivedOf
  <2>. QED  BY <2>2, <2>3
<1>. QED  BY <1>1, <1>8, <1>11, <1>12, <1>13 DEF Spaced

(* When a transmission is completed the next in the queue is on time.      *)
LEMMA CompletionOnTime ==
  ASSUME NEW s, Timely(s), NEW h \in Hop, NEW c \in events, Completes(c, h),
         now' = c.at, queue[h] # <<>>
  PROVE  OnTime(s, events \ {c}, h, queue[h])
<1>1. TransmitsAt(s, h) /\ byteTime \in ByteTimes /\ s \in Nat \ {0}
      /\ queue[h] \in Seq(Packet)
  BY DEF Timely, Spaced, BaseInv, TypeOK
<1>2. PICK v \in lastStart[h] : c.at = v + Slot(s, h)
  BY <1>1 DEF TransmitsAt
<1>3. \A t \in lastStart[h] : t = v
  BY <1>1 DEF TransmitsAt
<1>4. v \in Nat /\ Slot(s, h) \in Nat \ {0}
  BY Times
<1>5. ASSUME NEW i \in 1 .. h - 1, byteTime[i] >= byteTime[h]
      PROVE  /\ Len(queue[h]) = 1
             /\ byteTime[i] = byteTime[h]
             /\ Entered(s, h, v) = now'
             /\ \A e \in Receptions(h - 1) : now' + Slot(s, i) <= e.at
             /\ \E u \in lastStart[h - 1] : now' <= u + Slot(s, h - 1) + Delay
  <2>1. QuietAt(s, i, h)
    BY <1>5 DEF Timely, Spaced
  <2>2. Len(queue[h]) = 1 /\ byteTime[i] = byteTime[h]
    <3>1. Len(queue[h]) \in Nat \ {0}
      BY <1>1, HeadTail
    <3>2. Len(queue[h]) <= 1 /\ byteTime[i] = byteTime[h]
      BY <2>1 DEF QuietAt
    <3>3. \A n \in Nat \ {0} : n <= 1 => n = 1
      OBVIOUS
    <3>. QED  BY <3>1, <3>2, <3>3, Zenon
  <2>3. Entered(s, h, v) = now'
    BY <1>2 DEF Entered
  <2>. QED  BY <2>1, <2>2, <2>3 DEF QuietAt
<1>6. ASSUME NEW i \in 1 .. h PROVE v + Slot(s, i) <= now'
  <2>1. i \in Hop /\ (i = h \/ i \in 1 .. h - 1)
    BY DEF Hop
  <2>2. byteTime[i] <= byteTime[h]
    BY <1>1, <1>5, <2>1, SlotOrder
  <2>3. Slot(s, i) <= Slot(s, h) /\ Slot(s, i) \in Nat
    BY <1>1, <2>1, <2>2, SlotOrder, Times
  <2>. QED  BY <1>2, <1>4, <2>3
<1>7. h - 1 \in Hop \/ 1 .. h - 1 = {}
  BY DEF Hop
<1>8. \A g \in Hop : RecIn(events \ {c}, g) = Receptions(g)
  BY OneCompletion DEF Timely, BaseInv
<1>9. \A i \in 1 .. h - 1 : RecIn(events \ {c}, h - 1) = Receptions(h - 1)
  BY <1>7, <1>8
<1>. QED  BY <1>3, <1>5, <1>6, <1>9 DEF OnTime

(* A packet that comes from hop h to an idle device is on time too.        *)
LEMMA ReceptionOnTime ==
  ASSUME NEW s, Timely(s), NEW h \in Hop, h + 1 \in Hop,
         NEW e \in Receptions(h), IsNext(e), now' = e.at, Idle(h + 1)
  PROVE  OnTime(s, events \ {e}, h + 1, <<e.pkt>>)
<1>. DEFINE k == h + 1
<1>1. /\ TransmitsAt(s, k) /\ SpacedAt(s, h) /\ byteTime \in ByteTimes /\ s \in Nat \ {0}
      /\ queue[k] = <<>> /\ h \in Nat /\ k - 1 = h
  BY HopType DEF Timely, Spaced, BaseInv, MotionInv, MachineInv, TypeOK
<1>2. ASSUME NEW i \in 1 .. k - 1, byteTime[i] >= byteTime[k]
      PROVE  \A t \in lastStart[k] : t + Slot(s, i) <= now'
  <2>1. QuietAt(s, i, k)
    BY <1>2 DEF Timely, Spaced
  <2>. QED  BY <1>1, <2>1 DEF QuietAt, Entered
<1>3. ASSUME NEW t \in lastStart[k], NEW i \in 1 .. k
      PROVE  t + Slot(s, i) <= now'
  <2>1. i \in Hop /\ (i = k \/ i \in 1 .. k - 1)
    BY DEF Hop
  <2>2. CASE byteTime[i] <= byteTime[k]
    <3>1. t + Slot(s, k) <= now
      BY <1>1 DEF TransmitsAt
    <3>2. Slot(s, i) <= Slot(s, k) /\ Slot(s, i) \in Nat /\ Slot(s, k) \in Nat /\ t \in Nat
      BY <1>1, <2>1, <2>2, SlotOrder, Times
    <3>. QED  BY <3>1, <3>2, Times
  <2>3. CASE byteTime[i] > byteTime[k]
    BY <1>1, <1>2, <2>1, <2>3, SlotOrder
  <2>. QED  BY <1>1, <2>1, <2>2, <2>3, SlotOrder
<1>4. ASSUME NEW f \in RecIn(events \ {e}, h), NEW i \in 1 .. h
      PROVE  now' + Slot(s, i) <= f.at
  <2>1. f \in Receptions(h) /\ f # e
    BY DEF RecIn, Receptions
  <2>2. e.uid < f.uid
    BY <2>1, OldestOnWire DEF Timely, BaseInv
  <2>. QED  BY <1>1, <2>1, <2>2 DEF SpacedAt
<1>5. \E u \in lastStart[h] : now' <= u + Slot(s, h) + Delay
  BY <1>1 DEF SpacedAt
<1>6. Len(<<e.pkt>>) = 1
  OBVIOUS
<1>. QED  BY <1>1, <1>3, <1>4, <1>5, <1>6 DEF OnTime

(* One that comes to a busy device that is no bottleneck comes at the very *)
(* instant at which the device completes a transmission, and finds an      *)
(* empty queue.                                                            *)
LEMMA ReceptionWaits ==
  ASSUME NEW s, Timely(s), NEW h \in Hop, h + 1 \in Hop,
         NEW e \in Receptions(h), IsNext(e), now' = e.at, ~Idle(h + 1),
         NEW i \in 1 .. h, byteTime[i] >= byteTime[h + 1]
  PROVE  /\ queue[h + 1] = <<>>
         /\ byteTime[i] = byteTime[h + 1]
         /\ \A t \in lastStart[h + 1] : now' = t + Slot(s, h + 1)
<1>. DEFINE k == h + 1
<1>1. /\ TransmitsAt(s, k) /\ byteTime \in ByteTimes /\ s \in Nat \ {0}
      /\ h \in Nat /\ k - 1 = h /\ i \in Hop
  BY HopType DEF Timely, Spaced, BaseInv, TypeOK, Hop
<1>2. PICK c \in events : Completes(c, k)
  BY DEF Timely, BaseInv, MotionInv, MachineInv
<1>3. PICK v \in lastStart[k] : c.at = v + Slot(s, k)
  BY <1>1, <1>2 DEF TransmitsAt
<1>4. \A t \in lastStart[k] : t = v
  BY <1>1 DEF TransmitsAt
<1>5. QuietAt(s, i, k)
  BY <1>1 DEF Timely, Spaced
<1>6. Entered(s, k, v) + Slot(s, i) <= now' /\ now' <= v + Slot(s, k)
  BY <1>1, <1>3, <1>5 DEF QuietAt, Timely
<1>7. /\ v \in Nat /\ Slot(s, i) \in Nat \ {0} /\ Slot(s, k) \in Nat \ {0} /\ now' \in Nat
  BY <1>1, Times
<1>8. queue[k] = <<>>
  BY <1>6, <1>7 DEF Entered
<1>9. Slot(s, i) <= Slot(s, k)
  BY <1>6, <1>7, <1>8 DEF Entered
<1>10. byteTime[i] = byteTime[k]
  BY <1>1, <1>7, <1>9, SlotOrder
<1>11. Slot(s, i) = Slot(s, k)
  BY <1>10 DEF Slot
<1>12. now' = v + Slot(s, k)
  <2>1. v + Slot(s, i) <= now'
    BY <1>6, <1>8 DEF Entered
  <2>. QED  BY <2>1, <1>6, <1>7, <1>11
<1>. QED  BY <1>4, <1>8, <1>10, <1>12

(* The steps keep the packets spaced.                                      *)

(* A packet enters hop h. *)
LEMMA SendSpaced ==
  ASSUME NEW s, Timely(s), NEW E, NEW h \in Hop, NEW p, Size[p.flow] = s,
         Left(E), \A g \in Hop : Keeps(E, g), Entering(E, h, p), Send(h, p),
         events' = E \cup SendEvents(h, p),
         \A f \in Flow : /\ stats'[f].timeLastRx = stats[f].timeLastRx
                         /\ stats'[f].rx = stats[f].rx,
         Idle(h) => OnTime(s, E, h, <<p>>),
         ~Idle(h) => \A i \in 1 .. h - 1 : byteTime[i] >= byteTime[h] =>
           /\ queue[h] = <<>> /\ byteTime[i] = byteTime[h]
           /\ \A t \in lastStart[h] : now' = t + Slot(s, h)
           /\ \A e \in RecIn(E, h - 1) : now' + Slot(s, i) <= e.at
           /\ \E u \in lastStart[h - 1] : now' <= u + Slot(s, h - 1) + Delay
  PROVE  Spaced(s)'
<1>0. p \in Packet /\ TypeOK /\ byteTime' = byteTime
  BY DEF Entering, Left
<1>1. CASE ~QueueFull(h) /\ Idle(h) /\ TransmitStart(h, Append(queue[h], p))
  <2>1. Append(queue[h], p) = <<p>> /\ Startable(E, h, <<p>>)
    BY <1>1, PacketStartable
  <2>2. events' = E \cup Scheduled(h, <<p>>)
    BY <1>1, <2>1 DEF SendEvents, Starts
  <2>3. TransmitStart(h, <<p>>) /\ <<p>>[1] = p
    BY <1>1, <2>1
  <2>. QED  BY <1>1, <2>1, <2>2, <2>3, StartSpaced
<1>2. CASE \/ QueueFull(h) /\ Refuse(h, p)
           \/ ~QueueFull(h) /\ ~Idle(h) /\ Enqueue(h, p)
  <2>1. UNCHANGED <<sending, lastStart>> /\ events' = E /\ E \subseteq events
    BY <1>2 DEF Refuse, Enqueue, SendEvents, Starts, Left
  <2>2. \A g \in Hop : Idle(g)' <=> Idle(g)
    BY <2>1 DEF Idle
  <2>3. \A g \in Hop : g # h => queue'[g] = queue[g] /\ refused'[g] = refused[g]
    BY <1>0, <1>2 DEF Refuse, Enqueue, TypeOK
  <2>4. \A g \in Hop : /\ Receptions(g)' = RecIn(E, g) /\ RecIn(E, g) \subseteq Receptions(g)
                       /\ \A c \in events' : Completes(c, g) => c \in events
    BY <2>1 DEF Receptions, RecIn
  <2>5. TransmitsAt(s, h)'
    BY <2>1, <2>2, <2>4, TransmitsKept
  <2>6. \A f \in Flow : stats'[f].rx > 0 => ArrivedOf(s, f)'
    BY <2>1, <2>4, HopType, ArrivedKept
  <2>7. ~Idle(h)
    <3>1. QueueFull(h) => queue[h] # <<>>
      BY <1>0, FullIsNotEmpty
    <3>2. Idle(h) => queue[h] = <<>>
      BY DEF Left, MachineInv
    <3>. QED  BY <1>2, <3>1, <3>2
  <2>8. ASSUME NEW i \in 1 .. h - 1, byteTime[i] >= byteTime[h]
        PROVE  QuietAt(s, i, h)'
    <3>0. i \in Hop /\ h - 1 \in Hop
      BY DEF Hop
    <3>1. /\ queue[h] = <<>> /\ byteTime[i] = byteTime[h]
          /\ \A t \in lastStart[h] : now' = t + Slot(s, h)
          /\ \A e \in RecIn(E, h - 1) : now' + Slot(s, i) <= e.at
          /\ \E u \in lastStart[h - 1] : now' <= u + Slot(s, h - 1) + Delay
      BY <2>7, <2>8
    <3>2. Enqueue(h, p)
      <4>1. ~QueueFull(h)
        BY <1>0, <3>1, FullIsNotEmpty
      <4>. QED  BY <1>2, <4>1
    <3>3. queue'[h] = <<p>> /\ refused'[h] = refused[h]
      BY <1>0, <3>1, <3>2 DEF Enqueue, TypeOK
    <3>4. queue'[h] # <<>> /\ Len(queue'[h]) = 1
      BY <3>3
    <3>5. refused[h] = {}
      BY <2>8 DEF Timely, Spaced, QuietAt
    <3>6. \A k : Slot(s, k)' = Slot(s, k)
      BY Times
    <3>7. \A t \in lastStart'[h] : Entered(s, h, t)' = now' /\ now' = t + Slot(s, h)'
      BY <2>1, <3>1, <3>4, <3>6 DEF Entered
    <3>8. Receptions(h - 1)' = RecIn(E, h - 1)
      BY <2>4, <3>0
    <3>9. byteTime'[i] = byteTime'[h]
      BY <1>0, <3>1
    <3>. QED  BY <2>1, <3>1, <3>3, <3>4, <3>5, <3>6, <3>7, <3>8, <3>9 DEF QuietAt
  <2>. QED  BY <2>1, <2>2, <2>3, <2>4, <2>5, <2>6, <2>8, NoStart
<1>. QED  BY <1>1, <1>2 DEF Send

LEMMA CompleteSpaced ==
  ASSUME NEW s, Timely(s), OnlySize(s), NEW e \in events, IsNext(e), now' = e.at,
         e.kind = "TransmitComplete", TransmitComplete(e)
  PROVE  Spaced(s)'
<1>. DEFINE h == e.hop
            E == events \ {e}
<1>0. TypeOK /\ MotionInv /\ HandInv /\ byteTime' = byteTime /\ UNCHANGED stats
  BY DEF TransmitComplete, Timely, BaseInv
<1>1. h \in Hop /\ Completes(e, h)
  BY <1>0, EventTypes DEF TypeOK, Completes
<1>2. Left(E)
  BY <1>0, NextLeaves
<1>3. CASE queue[h] = <<>>
  <2>1. /\ sending' = [sending EXCEPT ![h] = None] /\ events' = E
        /\ UNCHANGED <<queue, refused, lastStart, nextUid>>
    BY <1>0, <1>3, CompleteCases DEF MotionInv
  <2>2. Idle(h)' /\ \A g \in Hop : g # h => (Idle(g)' <=> Idle(g))
    BY <1>0, <1>1, <2>1 DEF Idle, TypeOK
  <2>3. \A g \in Hop : /\ Receptions(g)' \subseteq Receptions(g)
                       /\ \A c \in events' : Completes(c, g) => c \in events
    BY <2>1 DEF Receptions
  <2>4. TransmitsAt(s, h)'
    <3>1. TransmitsAt(s, h)
      BY <1>1 DEF Timely, Spaced
    <3>2. PICK v \in lastStart[h] : e.at = v + Slot(s, h)
      BY <1>1, <3>1 DEF TransmitsAt
    <3>3. \A t \in lastStart[h] : t <= now' /\ t + Slot(s, h) <= now'
      BY <1>1, <3>1, <3>2, Times DEF TransmitsAt
    <3>4. \A c \in events' : ~Completes(c, h)
      BY <1>0, <1>1, <2>1, OneCompletion
    <3>. QED  BY <1>1, <2>1, <3>1, <3>3, <3>4, Times DEF TransmitsAt
  <2>5. ASSUME NEW i \in 1 .. h - 1, byteTime[i] >= byteTime[h]
        PROVE  QuietAt(s, i, h)'
    <3>1. h - 1 \in Hop
      BY <1>1 DEF Hop
    <3>2. Receptions(h - 1)' \subseteq Receptions(h - 1)
      BY <2>3, <3>1
    <3>. QED  BY <1>1, <2>1, <2>5, <3>2, QuietKept
  <2>6. \A f \in Flow : stats'[f].rx > 0 => ArrivedOf(s, f)'
    BY <1>0, <2>1, <2>3, HopType, ArrivedKept
  <2>. QED  BY <1>1, <2>1, <2>2, <2>3, <2>4, <2>5, <2>6, NoStart
<1>4. CASE queue[h] # <<>>
  <2>. DEFINE q == queue[h]
  <2>1. TransmitStart(h, q) /\ events' = E \cup Scheduled(h, q)
    BY <1>0, <1>4, CompleteCases DEF MotionInv
  <2>2. Startable(E, h, q) /\ \A g \in Hop : g # h => Keeps(E, g)
    BY <1>0, <1>1, <1>4, QueueStartable, OneCompletion
  <2>3. OnTime(s, E, h, q)
    BY <1>1, <1>4, CompletionOnTime
  <2>4. Size[q[1].flow] = s
    <3>1. Len(q) \in Nat \ {0}
      BY <1>0, <1>1, <1>4, HeadTail DEF TypeOK
    <3>2. q[1] \in Queued(h)
      BY <3>1 DEF Queued
    <3>3. q[1] \in Known
      BY <1>1, <3>2 DEF Known, UnderWay
    <3>. QED  BY <3>3, KnownSize DEF Timely
  <2>. QED  BY <1>0, <1>1, <1>2, <2>1, <2>2, <2>3, <2>4, StartSpaced
<1>. QED  BY <1>3, <1>4

LEMMA ForwardSpaced ==
  ASSUME NEW s, Timely(s), OnlySize(s), NEW h \in Hop, h < HopCount,
         NEW e \in Receptions(h), IsNext(e), now' = e.at, Forward(e)
  PROVE  Spaced(s)'
<1>. DEFINE E == events \ {e}
            k == h + 1
            p == e.pkt
<1>0. TypeOK /\ MotionInv /\ byteTime' = byteTime /\ UNCHANGED stats
  BY DEF Forward, Timely, BaseInv
<1>1. e \in events /\ e.hop = h /\ k \in Hop /\ k - 1 = h
  BY HopType DEF Receptions, Hop
<1>2. Left(E)
  BY <1>0, <1>1, NextLeaves
<1>3. Entering(E, k, p) /\ \A g \in Hop : Keeps(E, g)
  BY <1>0, ReceptionEnters, OldestOnWire
<1>4. Send(k, p) /\ events' = E \cup SendEvents(k, p)
  BY <1>1 DEF Forward
<1>5. Size[p.flow] = s
  <2>1. p \in Known
    BY <1>0, HeldWithout DEF Known
  <2>. QED  BY <2>1, KnownSize DEF Timely
<1>6. Idle(k) => OnTime(s, E, k, <<p>>)
  BY <1>1, ReceptionOnTime
<1>7. ASSUME ~Idle(k), NEW i \in 1 .. k - 1, byteTime[i] >= byteTime[k]
      PROVE  /\ queue[k] = <<>> /\ byteTime[i] = byteTime[k]
             /\ \A t \in lastStart[k] : now' = t + Slot(s, k)
             /\ \A f \in RecIn(E, k - 1) : now' + Slot(s, i) <= f.at
             /\ \E u \in lastStart[k - 1] : now' <= u + Slot(s, k - 1) + Delay
  <2>1. i \in 1 .. h /\ SpacedAt(s, h)
    BY <1>1 DEF Timely, Spaced
  <2>2. /\ queue[k] = <<>> /\ byteTime[i] = byteTime[k]
        /\ \A t \in lastStart[k] : now' = t + Slot(s, k)
    BY <1>1, <1>7, <2>1, ReceptionWaits
  <2>3. ASSUME NEW f \in RecIn(E, h)
        PROVE  now' + Slot(s, i) <= f.at
    <3>1. f \in Receptions(h) /\ f # e
      BY DEF RecIn, Receptions
    <3>2. e.uid < f.uid
      BY <1>0, <3>1, OldestOnWire
    <3>. QED  BY <2>1, <3>1, <3>2 DEF SpacedAt
  <2>4. \E u \in lastStart[h] : now' <= u + Slot(s, h) + Delay
    BY <2>1 DEF SpacedAt
  <2>. QED  BY <1>1, <2>2, <2>3, <2>4
<1>. HIDE DEF E, k, p
<1>. QED  BY <1>0, <1>1, <1>2, <1>3, <1>4, <1>5, <1>6, <1>7, SendSpaced

LEMMA ArriveSpaced ==
  ASSUME NEW s, Timely(s), NEW e \in Receptions(HopCount), IsNext(e), now' = e.at, Arrive(e)
  PROVE  /\ Spaced(s)'
         /\ \A f \in Flow : stats[f].rx > 0 =>
              \A i \in Hop : stats[f].timeLastRx + Slot(s, i) <= now'
<1>. DEFINE H == HopCount
<1>0. TypeOK /\ MotionInv /\ H \in Hop /\ e \in events
  BY HopType DEF Timely, BaseInv, Receptions
<1>1. UNCHANGED <<devVars, byteTime>> /\ events' = events \ {e}
  BY DEF Arrive
<1>2. /\ \A f \in Flow :
           IF f = e.pkt.flow
           THEN stats'[f].rx = stats[f].rx + 1 /\ stats'[f].timeLastRx = now'
           ELSE stats'[f] = stats[f]
  BY ArriveBase DEF Timely
<1>3. /\ \A g \in Hop : /\ (Idle(g)' <=> Idle(g)) /\ queue'[g] = queue[g]
                        /\ refused'[g] = refused[g]
                        /\ Receptions(g)' \subseteq Receptions(g)
                        /\ \A c \in events' : Completes(c, g) => c \in events
      /\ UNCHANGED lastStart
  BY <1>1 DEF devVars, Idle, Receptions
<1>4. TransmitsAt(s, H)'
  BY <1>0, <1>3, TransmitsKept
<1>5. ASSUME NEW i \in 1 .. H - 1, byteTime[i] >= byteTime[H]
      PROVE  QuietAt(s, i, H)'
  <2>1. H - 1 \in Hop
    BY DEF Hop
  <2>2. Receptions(H - 1)' \subseteq Receptions(H - 1)
    BY <1>3, <2>1
  <2>. QED  BY <1>0, <1>3, <1>5, <2>2, QuietKept
<1>6. SpacedAt(s, H)
  BY <1>0 DEF Timely, Spaced
<1>7. ASSUME NEW f \in Flow, stats'[f].rx > 0
      PROVE  ArrivedOf(s, f)'
  <2>1. CASE f # e.pkt.flow
    BY <1>0, <1>2, <1>3, <1>7, <2>1, ArrivedKept
  <2>2. CASE f = e.pkt.flow
    <3>1. stats'[f].timeLastRx = now'
      BY <1>2, <2>2
    <3>2. ASSUME NEW g \in Receptions(H)', NEW i \in Hop
          PROVE  now' + Slot(s, i) <= g.at
      <4>1. g \in Receptions(H) /\ g # e /\ i \in 1 .. H
        BY <1>1, <1>3, HopType DEF Receptions, Hop
      <4>2. e.uid < g.uid
        BY <1>0, <4>1, OldestOnWire
      <4>. QED  BY <1>6, <4>1, <4>2 DEF SpacedAt
    <3>3. \E t \in lastStart[H] : now' <= t + Slot(s, H) + Delay
      BY <1>6 DEF SpacedAt
    <3>4. \A j : Slot(s, j)' = Slot(s, j)
      BY Times
    <3>. QED  BY <1>3, <3>1, <3>2, <3>3, <3>4 DEF ArrivedOf
  <2>. QED  BY <2>1, <2>2
<1>8. Spaced(s)'
  BY <1>0, <1>3, <1>4, <1>5, <1>7, NoStart
<1>9. \A f \in Flow : stats[f].rx > 0 =>
        \A i \in Hop : stats[f].timeLastRx + Slot(s, i) <= now'
  BY DEF Timely, Spaced, ArrivedOf
<1>. QED  BY <1>8, <1>9

LEMMA OfferSpaced ==
  ASSUME NEW s, Timely(s), NEW f \in Flow, Size[f] = s, OfferAnytime(f)
  PROVE  Spaced(s)'
<1>. DEFINE p == NextPacket(f)
<1>0. TypeOK /\ MotionInv
  BY DEF Timely, BaseInv
<1>1. /\ Send(1, p) /\ events' = events \cup SendEvents(1, p)
      /\ byteTime' = byteTime /\ p.flow = f
  BY DEF OfferAnytime, Offer, NextPacket
<1>2. Left(events) /\ \A g \in Hop : Keeps(events, g)
  BY <1>0 DEF Left, Keeps, MotionInv, Timely
<1>3. Entering(events, 1, p)
  <2>1. p \in Packet /\ p.id = offered + 1 /\ offered \in Nat
    BY <1>0 DEF NextPacket, Packet, TypeOK
  <2>2. ASSUME NEW g \in Hop, NEW r \in AtIn(events, g)
        PROVE  r.id < p.id /\ ~(g < 1)
    <3>1. r \in Known
      BY <2>2, InEvents, UnderWayAt DEF Known
    <3>2. r.id \in 1 .. offered
      BY <3>1 DEF Timely, BaseInv, AccountInv
    <3>. QED  BY <2>1, <3>2, HopType
  <2>. QED  BY <2>1, <2>2 DEF Entering
<1>4. Idle(1) => OnTime(s, events, 1, <<p>>)
  <2>1. TransmitsAt(s, 1)
    BY HopType DEF Timely, Spaced
  <2>2. ASSUME Idle(1), NEW t \in lastStart[1]
        PROVE  t + Slot(s, 1) <= now'
    BY <2>1, <2>2, HopType, Times DEF TransmitsAt
  <2>3. 1 .. 1 = {1} /\ 1 .. 1 - 1 = {}
    OBVIOUS
  <2>. QED  BY <2>2, <2>3 DEF OnTime
<1>5. 1 .. 1 - 1 = {}
  OBVIOUS
<1>6. \A g \in Flow : /\ stats'[g].timeLastRx = stats[g].timeLastRx
                      /\ stats'[g].rx = stats[g].rx
  BY OfferBase DEF Timely
<1>. HIDE DEF p
<1>. QED  BY <1>1, <1>2, <1>3, <1>4, <1>5, <1>6, HopType, SendSpaced

LEMMA OtherSpaced ==
  ASSUME NEW s, Timely(s), OnlyTime
  PROVE  Spaced(s)'
<1>1. /\ UNCHANGED <<queue, sending, refused, lastStart, events, stats>>
      /\ \A g \in Hop : Receptions(g)' = Receptions(g) /\ (Idle(g)' <=> Idle(g))
  BY DEF OnlyTime, Receptions, Idle
<1>2. \A g \in Hop : TransmitsAt(s, g)'
  BY <1>1, TransmitsKept
<1>3. ASSUME NEW i \in 1 .. HopCount - 1, byteTime[i] >= byteTime[HopCount]
      PROVE  QuietAt(s, i, HopCount)'
  <2>1. HopCount - 1 \in Hop
    BY DEF Hop
  <2>2. Receptions(HopCount - 1)' \subseteq Receptions(HopCount - 1)
    BY <1>1, <2>1
  <2>. QED  BY <1>1, <1>3, <2>2, HopType, QuietKept
<1>4. \A f \in Flow : stats'[f].rx > 0 => ArrivedOf(s, f)'
  BY <1>1, HopType, ArrivedKept
<1>. QED  BY <1>1, <1>2, <1>3, <1>4, HopType, NoStart
-----------------------------------------------------------------------------
(* The invariant, whole. *)

LEMMA InvBase == IInv <=> BaseInv /\ SpacingInv
BY DEF IInv, BaseInv, MotionInv

LEMMA SizesArePositive == {Size[f] : f \in Flow} \subseteq Nat \ {0}
OBVIOUS

LEMMA InitSpacing == Init => SpacingInv
<1>. SUFFICES ASSUME Init, NEW s PROVE Spaced(s)
  BY DEF SpacingInv
<1>. USE DEF Init, Start
<1>1. \A h \in Hop : TransmitsAt(s, h) /\ SpacedAt(s, h)
  BY DEF TransmitsAt, SpacedAt, Receptions
<1>2. ASSUME NEW h \in Hop, NEW i \in 1 .. h - 1
      PROVE  QuietAt(s, i, h)
  <2>1. queue[h] = <<>> /\ Len(queue[h]) <= 1 /\ refused[h] = {} /\ lastStart[h] = {}
    OBVIOUS
  <2>. QED  BY <2>1 DEF QuietAt
<1>3. \A f \in Flow : ~(stats[f].rx > 0)
  BY DEF NoStats
<1>. QED  BY <1>1, <1>2, <1>3 DEF Spaced

(* A step goes forward in time, to the next event or up to it. *)
LEMMA StepIsTimely ==
  ASSUME BaseInv, Next, NEW s \in Nat \ {0}, Spaced(s)
  PROVE  Timely(s)
<1>1. \A e \in events \cup wakes : e.at \in Nat /\ e.uid \in Nat /\ now <= e.at
  BY EventTypes DEF BaseInv, TypeOK, MotionInv, EventInv, HandInv, WakeEvents
<1>2. now \in Nat
  BY DEF BaseInv, TypeOK
<1>3. ASSUME NEW e \in events \cup wakes, IsNext(e), now' = e.at
      PROVE  now' \in Nat /\ now <= now' /\ \A f \in events : now' <= f.at
  BY <1>1, <1>3 DEF IsNext
<1>4. ASSUME NEW f \in Flow, OfferAnytime(f)
      PROVE  now' \in Nat /\ now <= now' /\ \A e \in events : now' <= e.at
  BY <1>2, <1>4 DEF OfferAnytime, InTime
<1>5. now' \in Nat /\ now <= now' /\ \A f \in events : now' <= f.at
  <2>1. CASE OtherEvent
    BY <1>2, <2>1 DEF OtherEvent, InTime
  <2>. QED  BY <1>3, <1>4, <2>1 DEF Next, RunNext
<1>6. byteTime' = byteTime
  BY DEF Next, RunNext, DeviceEvent, TransmitComplete, Receive, Forward, Arrive, Wake,
         OtherEvent, OfferAnytime, Offer
<1>. QED  BY <1>5, <1>6 DEF Timely

(* How many packets of a flow have been offered is never forgotten. *)
LEMMA SizesStay ==
  ASSUME BaseInv, Next
  PROVE  \A f \in Flow : stats[f].tx > 0 => stats'[f].tx > 0
<1>1. \A f \in Flow : stats[f].tx \in Nat
  BY DEF BaseInv, TypeOK
<1>2. \/ UNCHANGED stats
      \/ \A f \in Flow : stats'[f].tx = stats[f].tx
      \/ \E f \in Flow : \A g \in Flow :
           stats'[g].tx = IF g = f THEN stats[g].tx + 1 ELSE stats[g].tx
  BY StepCases, CompleteBase, ForwardBase, ArriveBase, OtherBase, OfferBase
<1>. QED  BY <1>1, <1>2

LEMMA NextSpacing ==
  ASSUME IInv, Next
  PROVE  SpacingInv'
<1>1. BaseInv /\ SpacingInv
  BY InvBase
<1>2. ASSUME NEW s \in {Size[f] : f \in Flow}, OnlySize(s)'
      PROVE  Spaced(s)'
  <2>1. OnlySize(s)
    BY <1>1, <1>2, SizesStay DEF OnlySize
  <2>2. Spaced(s) /\ s \in Nat \ {0}
    BY <1>1, <2>1, SizesArePositive DEF SpacingInv
  <2>3. Timely(s)
    BY <1>1, <2>2, StepIsTimely
  <2>4. ASSUME NEW f \in Flow, OfferAnytime(f)
        PROVE  Spaced(s)'
    <3>1. stats'[f].tx > 0
      <4>1. stats'[f].tx = stats[f].tx + 1
        BY <1>1, <2>4, OfferBase
      <4>2. stats[f].tx \in Nat
        BY <1>1 DEF BaseInv, TypeOK
      <4>. QED  BY <4>1, <4>2
    <3>2. Size[f] = s
      BY <1>2, <3>1 DEF OnlySize
    <3>. QED  BY <2>3, <2>4, <3>2, OfferSpaced
  <2>. QED  BY <1>1, <2>1, <2>3, <2>4, StepCases, CompleteSpaced, ForwardSpaced, ArriveSpaced,
               OtherSpaced
<1>. QED  BY <1>2 DEF SpacingInv

LEMMA StutterSpacing ==
  ASSUME IInv, UNCHANGED vars
  PROVE  SpacingInv'
<1>. USE DEF vars, devVars, simVars
<1>1. \A h : Receptions(h)' = Receptions(h) /\ (Idle(h)' <=> Idle(h))
  BY DEF Receptions, Idle
<1>2. \A s, h : Slot(s, h)' = Slot(s, h) /\ \A t : Entered(s, h, t)' = Entered(s, h, t)
  BY DEF Slot, Entered
<1>3. \A s : OnlySize(s)' <=> OnlySize(s)
  BY DEF OnlySize
<1>4. \A s, h : (TransmitsAt(s, h) => TransmitsAt(s, h)') /\ (SpacedAt(s, h) => SpacedAt(s, h)')
  BY <1>1, <1>2 DEF TransmitsAt, SpacedAt
<1>5. \A s, i, h : QuietAt(s, i, h) => QuietAt(s, i, h)'
  BY <1>1, <1>2 DEF QuietAt
<1>6. \A s, f : ArrivedOf(s, f) => ArrivedOf(s, f)'
  BY <1>1, <1>2 DEF ArrivedOf
<1>. QED  BY <1>3, <1>4, <1>5, <1>6 DEF IInv, SpacingInv, Spaced

(* The inductive invariant holds. *)
THEOREM Invariance == Spec => []IInv
<1>1. Init => IInv
  BY InitBase, InitSpacing, InvBase
<1>2. IInv /\ [Next]_vars => IInv'
  <2>. SUFFICES ASSUME IInv, [Next]_vars PROVE BaseInv' /\ SpacingInv'
    BY InvBase DEF IInv, BaseInv, MotionInv
  <2>1. BaseInv'
    BY InvBase, NextBase
  <2>2. SpacingInv'
    BY NextSpacing, StutterSpacing
  <2>. QED  BY <2>1, <2>2
<1>. QED  BY <1>1, <1>2, PTL DEF Spec

(* Packets of equal size are packets of one size. *)
LEMMA OneSize ==
  ASSUME IInv, EqualSizes, NEW f \in Flow, stats[f].tx > 0
  PROVE  OnlySize(Size[f]) /\ Spaced(Size[f]) /\ Size[f] \in Nat \ {0}
<1>1. OnlySize(Size[f])
  BY DEF EqualSizes, OnlySize
<1>. QED  BY <1>1, SizesArePositive DEF IInv, SpacingInv

(* Packets of one size queue only where the line gets slower, and are      *)
(* refused only there, wherever the slow links of the row are.             *)
THEOREM BottlenecksCorrect == Spec => []OnlyBottlenecksQueue
<1>1. ASSUME IInv PROVE OnlyBottlenecksQueue
  <2>. SUFFICES ASSUME EqualSizes, NEW h \in Hop, NEW i \in 1 .. h - 1, byteTime[i] >= byteTime[h]
                PROVE  /\ byteTime[i] > byteTime[h] => queue[h] = <<>>
                       /\ Len(queue[h]) <= 1 /\ refused[h] = {}
    <3>1. \A h \in Hop : \A i \in 1 .. h - 1 :
            i \in Hop /\ (byteTime[i] > byteTime[h] => byteTime[i] >= byteTime[h])
      BY <1>1 DEF IInv, TypeOK, Hop
    <3>. QED  BY <3>1 DEF OnlyBottlenecksQueue
  <2>1. CASE \E f \in Flow : stats[f].tx > 0
    <3>1. PICK f \in Flow : stats[f].tx > 0
      BY <2>1
    <3>2. QuietAt(Size[f], i, h)
      BY <1>1, <3>1, OneSize DEF Spaced
    <3>3. i \in Hop
      BY DEF Hop
    <3>. QED  BY <1>1, <3>2, <3>3 DEF QuietAt, IInv, TypeOK
  <2>2. CASE ~\E f \in Flow : stats[f].tx > 0
    <3>1. BaseInv
      BY <1>1, InvBase
    <3>2. Known = {}
      <4>1. SUFFICES ASSUME NEW p \in Known PROVE FALSE
        OBVIOUS
      <4>2. p.flow \in Flow
        BY <3>1, KnownPackets, PacketType DEF BaseInv
      <4>3. IsFiniteSet(OfFlow(Known, p.flow)) /\ p \in OfFlow(Known, p.flow)
        BY <3>1, FS_Subset DEF BaseInv, AccountInv, OfFlow
      <4>4. Cardinality(OfFlow(Known, p.flow)) # 0
        BY <4>3, FS_EmptySet
      <4>5. stats[p.flow].tx \in Nat /\ stats[p.flow].tx = Cardinality(OfFlow(Known, p.flow))
        BY <3>1, <4>2 DEF BaseInv, TypeOK, AccountInv
      <4>. QED  BY <2>2, <4>2, <4>4, <4>5
    <3>3. Queued(h) = {} /\ refused[h] = {}
      BY <3>2 DEF Known, UnderWay, Lost
    <3>4. Len(queue[h]) \in Nat /\ queue[h] \in Seq(Packet)
      BY <1>1 DEF IInv, TypeOK
    <3>5. queue[h] = <<>> /\ Len(queue[h]) = 0
      <4>1. queue[h] # <<>> => queue[h][1] \in Queued(h)
        BY <3>4 DEF Queued
      <4>. QED  BY <3>3, <3>4, <4>1
    <3>. QED  BY <3>3, <3>5
  <2>. QED  BY <2>1, <2>2
<1>. QED  BY <1>1, Invariance, PTL

(* Packets of one size reach the last node at least one transmission time  *)
(* of the slowest link apart, whatever is refused on the way.              *)
THEOREM SpacingCorrect == Spec => SpacedByBottleneck
<1>. DEFINE Apart ==
       EqualSizes =>
         \A f, g \in Flow :
           stats'[f].rx # stats[f].rx /\ stats[g].rx > 0 =>
             \A h \in Hop : now' >= stats[g].timeLastRx + TxTime(h, f)
<1>1. ASSUME IInv, Next PROVE Apart
  <2>0. BaseInv
    BY <1>1, InvBase
  <2>. SUFFICES ASSUME EqualSizes, NEW f \in Flow, NEW g \in Flow, NEW h \in Hop,
                       stats'[f].rx # stats[f].rx, stats[g].rx > 0
                PROVE  now' >= stats[g].timeLastRx + TxTime(h, f)
    OBVIOUS
  <2>1. PICK e \in Receptions(HopCount) : IsNext(e) /\ now' = e.at /\ Arrive(e)
    BY <1>1, <2>0, StepCases, CompleteBase, ForwardBase, OtherBase, OfferBase
  <2>2. f = e.pkt.flow /\ e.pkt \in Known
    BY <2>0, <2>1, ArriveBase DEF Known
  <2>3. stats[f].tx > 0
    <3>1. IsFiniteSet(OfFlow(Known, f)) /\ e.pkt \in OfFlow(Known, f)
      BY <2>0, <2>2, FS_Subset DEF BaseInv, AccountInv, OfFlow
    <3>2. Cardinality(OfFlow(Known, f)) # 0
      BY <3>1, FS_EmptySet
    <3>3. stats[f].tx \in Nat /\ stats[f].tx = Cardinality(OfFlow(Known, f))
      BY <2>0 DEF BaseInv, TypeOK, AccountInv
    <3>. QED  BY <3>2, <3>3
  <2>4. Spaced(Size[f]) /\ Size[f] \in Nat \ {0}
    BY <1>1, <2>3, OneSize
  <2>5. Timely(Size[f])
    BY <1>1, <2>0, <2>4, StepIsTimely
  <2>6. stats[g].timeLastRx + Slot(Size[f], h) <= now'
    BY <2>1, <2>5, ArriveSpaced
  <2>7. Slot(Size[f], h) = TxTime(h, f)
    BY DEF Slot, TxTime
  <2>8. stats[g].timeLastRx \in Nat /\ now' \in Nat /\ TxTime(h, f) \in Nat
    BY <2>5, <2>7, Times
  <2>. QED  BY <2>6, <2>7, <2>8
<1>2. IInv /\ [Next]_vars => [Apart]_vars
  BY <1>1
<1>. QED  BY <1>2, Invariance, PTL DEF Spec, SpacedByBottleneck
=============================================================================
