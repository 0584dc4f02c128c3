------------------------------- MODULE Tandem -------------------------------
(***************************************************************************)
(* The network of cs621-dev01.cc: nodes in a row, a point-to-point link    *)
(* between each and the next, and flows of packets from the first node to  *)
(* the last.  The links are those of PointToPoint, one direction of each,  *)
(* assembled and without errors, as the program builds them; a node hands  *)
(* what its device receives to the IP layer, which sends it on before the  *)
(* handler of the event returns.                                           *)
(*                                                                         *)
(* Between the IP layer and every device stands the queue disc that        *)
(* Ipv4AddressHelper::Assign installs.  It hands packets to the device     *)
(* until the queue of the device is full, which stops it, and is run again *)
(* when that queue has room: that is what the device connects the traces   *)
(* of its queue for.  Only a full disc loses packets.                      *)
(*                                                                         *)
(* A device is BUSY exactly while it has a current packet (theorem         *)
(* TransmitterCorrect of PointToPointProofs), so that packet stands for    *)
(* the state of the transmit machine.                                      *)
(***************************************************************************)
EXTENDS Naturals, Sequences, FiniteSets

CONSTANTS
  Flow,        \* the flows
  HopCount,    \* the number of links
  ByteTimes,   \* the rates the links may have: functions from hops to
               \* time units per octet
  Size,        \* Size[f]: octets of a packet of f on the wire
  DeviceLimit, \* capacity of the queue of a device, m_queue
  DiscLimit,   \* capacity of a queue disc
  Delay,       \* m_delay of every channel
  OtherUids,   \* how many uids the layers above may take for events of their
               \* own, before the first packet and along with each
  MaxOffers,   \* bound: packets offered in all
  Horizon      \* bound: the latest time at which those layers do anything

Hop == 1 .. HopCount

ASSUME HopAssumption == HopCount \in Nat \ {0}
ASSUME RateAssumption == ByteTimes \subseteq [Hop -> Nat \ {0}]
ASSUME PacketAssumption == Size \in [Flow -> Nat \ {0}]
ASSUME LinkAssumption ==
  DeviceLimit \in Nat \ {0} /\ DiscLimit \in Nat \ {0} /\ Delay \in Nat
ASSUME OfferAssumption == OtherUids \subseteq Nat /\ MaxOffers \in Nat /\ Horizon \in Nat

VARIABLES
  byteTime,      \* 8 / m_bps of the device of each hop
  queue,         \* per hop: what waits, first in m_queue, then in the disc
  handed,        \* per hop: how many of these are in m_queue
  sending,       \* per hop: m_currentPkt
  events,        \* of the simulator: the pending events, but for
  wakes,         \* the pending events that run a queue disc
  now,           \* of the simulator: the current time
  nextUid,       \* of the simulator: the uid of the next event
  offered,       \* how many packets have been offered to the first device
  stats,         \* per flow: what the flow monitor knows of it
  refused,       \* history, per hop: the packets its queue disc refused
  arrived,       \* history: the packets the last node received
  lastStart      \* history, per hop: when it last began to transmit, if ever

devVars == <<queue, handed, sending, refused, lastStart>>
simVars == <<events, wakes, now, nextUid>>
vars == <<byteTime, devVars, simVars, offered, stats, arrived>>

None == [flow |-> "none", id |-> 0]
Packet == [flow : Flow, id : Nat \ {0}]

NoStats == [tx |-> 0, rx |-> 0, timeFirstRx |-> 0, timeLastRx |-> 0]

Start ==
  /\ byteTime \in ByteTimes
  /\ queue = [h \in Hop |-> <<>>]
  /\ handed = [h \in Hop |-> 0]
  /\ wakes = {}
  /\ sending = [h \in Hop |-> None]
  /\ now = 0
  /\ offered = 0
  /\ stats = [f \in Flow |-> NoStats]
  /\ refused = [h \in Hop |-> {}]
  /\ arrived = {}
  /\ lastStart = [h \in Hop |-> {}]

Init == Start /\ events = {} /\ nextUid \in OtherUids
-----------------------------------------------------------------------------
TxTime(h, f) == byteTime[h] * Size[f]

(* Mutant of Completion: the transmission takes no time. *)
CompletionAtOnce(h, p) ==
  [uid |-> nextUid, at |-> now', kind |-> "TransmitComplete", hop |-> h]

Completion(h, p) ==
  [uid |-> nextUid, at |-> now' + TxTime(h, p.flow), kind |-> "TransmitComplete", hop |-> h]

Reception(h, p) ==
  [uid |-> nextUid + 1, at |-> now' + TxTime(h, p.flow) + Delay,
   kind |-> "Receive", hop |-> h, pkt |-> p]

(* Dequeue the head of q and hand it to TransmitStart, of the device and   *)
(* then of the channel, which schedule the two events.                     *)
TransmitStart(h, q) ==
  /\ sending' = [sending EXCEPT ![h] = Head(q)]
  /\ queue' = [queue EXCEPT ![h] = Tail(q)]
  /\ lastStart' = [lastStart EXCEPT ![h] = {now'}]
  /\ UNCHANGED refused

Scheduled(h, q) == {Completion(h, Head(q)), Reception(h, Head(q))}

(* Mutants: one packet too many in the disc; Send does not look at the     *)
(* transmit machine.                                                       *)
QueueFullLate(h) == Len(queue[h]) - handed[h] > DiscLimit
IdleUnchecked(h) == TRUE

QueueFull(h) == Len(queue[h]) - handed[h] >= DiscLimit
Idle(h) == sending[h] = None

(* How many of n packets the disc hands to a busy device before the device *)
(* stops it.                                                               *)
Fill(n) == IF n < DeviceLimit THEN n ELSE DeviceLimit

(* The layers above send packet p over hop h: the disc takes it, or        *)
(* refuses it, and is run, and what it adds to the events and uids.  An    *)
(* idle device, for which nothing waits, sends the packet at once.         *)
Refuse(h, p) ==
  /\ refused' = [refused EXCEPT ![h] = @ \cup {p}]
  /\ UNCHANGED <<queue, sending, lastStart>>

Enqueue(h, p) ==
  /\ queue' = [queue EXCEPT ![h] = Append(@, p)]
  /\ UNCHANGED <<sending, refused, lastStart>>

Send(h, p) ==
  /\ \/ QueueFull(h) /\ Refuse(h, p)
     \/ ~QueueFull(h) /\ Idle(h) /\ TransmitStart(h, Append(queue[h], p))
     \/ ~QueueFull(h) /\ ~Idle(h) /\ Enqueue(h, p)
  /\ handed' = [handed EXCEPT ![h] = Fill(Len(queue'[h]))]

Starts(h) == ~QueueFull(h) /\ Idle(h)
SendEvents(h, p) == IF Starts(h) THEN Scheduled(h, Append(queue[h], p)) ELSE {}
SendUid(h) == IF Starts(h) THEN nextUid + 2 ELSE nextUid

(* Mutants of TransmitComplete: the queue is read and not popped; the      *)
(* queue is forgotten.                                                     *)
TransmitCompletePeek(e) ==
  /\ IF queue[e.hop] = <<>>
     THEN /\ sending' = [sending EXCEPT ![e.hop] = None]
          /\ events' = events \ {e}
          /\ UNCHANGED nextUid
     ELSE /\ sending' = [sending EXCEPT ![e.hop] = Head(queue[e.hop])]
          /\ events' = (events \ {e}) \cup Scheduled(e.hop, queue[e.hop])
          /\ nextUid' = nextUid + 2
  /\ UNCHANGED <<byteTime, queue, handed, wakes, refused, lastStart, offered, stats, arrived>>
TransmitCompleteForgetful(e) ==
  /\ sending' = [sending EXCEPT ![e.hop] = None]
  /\ events' = events \ {e}
  /\ UNCHANGED <<byteTime, queue, handed, wakes, refused, lastStart, nextUid,
                 offered, stats, arrived>>

(* Mutant of Woken: the traces of the queue are not connected. *)
WokenNever(h) == {}

(* A packet taken from a full m_queue wakes the disc, whose event comes    *)
(* after the handler: run within it, the disc would send into a device     *)
(* that is about to start a transmission.                                  *)
Woken(h) ==
  IF handed[h] = DeviceLimit
  THEN {[uid |-> nextUid + 2, at |-> now', kind |-> "Wake", hop |-> h]}
  ELSE {}

(* One uid is set aside for the wake, needed or not.  It is given out      *)
(* before the other two, which changes nothing: they are of later times.   *)
TransmitComplete(e) ==
  /\ \/ /\ handed[e.hop] = 0
        /\ sending' = [sending EXCEPT ![e.hop] = None]
        /\ events' = events \ {e}
        /\ UNCHANGED <<queue, handed, wakes, refused, lastStart, nextUid>>
     \/ /\ handed[e.hop] # 0
        /\ TransmitStart(e.hop, queue[e.hop])
        /\ handed' = [handed EXCEPT ![e.hop] = @ - 1]
        /\ events' = (events \ {e}) \cup Scheduled(e.hop, queue[e.hop])
        /\ wakes' = wakes \cup Woken(e.hop)
        /\ nextUid' = nextUid + 3
  /\ UNCHANGED <<byteTime, offered, stats, arrived>>

(* The disc is run: it hands packets on while m_queue has room.  The       *)
(* device is transmitting, so that its Send only puts them there.          *)
Wake(w) ==
  /\ handed' = [handed EXCEPT ![w.hop] = Fill(Len(queue[w.hop]))]
  /\ wakes' = wakes \ {w}
  /\ UNCHANGED <<byteTime, queue, sending, refused, lastStart, events, nextUid,
                 offered, stats, arrived>>

(* At an inner node: the packet goes on to the next hop. *)
Forward(e) ==
  /\ Send(e.hop + 1, e.pkt)
  /\ events' = (events \ {e}) \cup SendEvents(e.hop + 1, e.pkt)
  /\ nextUid' = SendUid(e.hop + 1)
  /\ UNCHANGED <<byteTime, wakes, offered, stats, arrived>>

(* At the last node: the packet is for the server, and the flow monitor    *)
(* takes its time.                                                         *)
Seen(s, t) ==
  [tx |-> s.tx, rx |-> s.rx + 1, timeLastRx |-> t,
   timeFirstRx |-> IF s.rx = 0 THEN t ELSE s.timeFirstRx]
Arrive(e) ==
  /\ events' = events \ {e}
  /\ stats' = [stats EXCEPT ![e.pkt.flow] = Seen(@, now')]
  /\ arrived' = arrived \cup {e.pkt}
  /\ UNCHANGED <<byteTime, devVars, wakes, nextUid, offered>>

Receive(e) ==
  \/ e.hop < HopCount /\ Forward(e)
  \/ e.hop = HopCount /\ Arrive(e)

(* An upper layer of the first node sends the next packet of flow f.       *)
NextPacket(f) == [flow |-> f, id |-> offered + 1]

Offer(f) ==
  /\ Send(1, NextPacket(f))
  /\ offered' = offered + 1
  /\ stats' = [stats EXCEPT ![f].tx = @ + 1]
  /\ UNCHANGED <<byteTime, wakes, arrived>>

(* The layers above act at any time, before, between and after the events  *)
(* of one instant, but not later than an event that is still to come.      *)
InTime ==
  /\ now' \in now .. Horizon
  /\ \A e \in events \cup wakes : now' <= e.at

OfferAnytime(f) ==
  /\ offered < MaxOffers
  /\ InTime
  /\ Offer(f)
  /\ events' = events \cup SendEvents(1, NextPacket(f))
  /\ nextUid' \in {SendUid(1) + n : n \in OtherUids}

(* An event of theirs that offers nothing: for the row, time passes. *)
OtherEvent ==
  /\ InTime
  /\ UNCHANGED <<byteTime, devVars, events, wakes, nextUid, offered, stats, arrived>>

(* Simulator::Run takes the event with the least (timestamp, uid) and      *)
(* moves the clock to it.                                                  *)
IsNext(e) ==
  \A f \in events \cup wakes : f.at > e.at \/ (f.at = e.at /\ f.uid >= e.uid)

DeviceEvent(e) ==
  \/ e.kind = "TransmitComplete" /\ TransmitComplete(e)
  \/ e.kind = "Receive" /\ Receive(e)
  \/ e.kind = "Wake" /\ Wake(e)

RunNext ==
  \E e \in events \cup wakes :
    /\ IsNext(e)
    /\ now' = e.at
    /\ DeviceEvent(e)

Next == RunNext \/ OtherEvent \/ \E f \in Flow : OfferAnytime(f)

Spec == Init /\ [][Next]_vars

(* The simulator runs as long as an event is pending. *)
FairSpec == Spec /\ WF_vars(RunNext)
-----------------------------------------------------------------------------
(* Where a packet can be: waiting for a device, or, from the start of a    *)
(* transmission to its arrival, in the pending Receive event.              *)
Queued(h) == {queue[h][k] : k \in 1 .. Len(queue[h])}
Receptions(h) == {e \in events : e.kind = "Receive" /\ e.hop = h}
OnWire(h) == {e.pkt : e \in Receptions(h)}
UnderWay == UNION {Queued(h) \cup OnWire(h) : h \in Hop}
Lost == UNION {refused[h] : h \in Hop}

Completions == [uid : Nat, at : Nat, kind : {"TransmitComplete"}, hop : Hop]
Event == Completions
  \cup [uid : Nat, at : Nat, kind : {"Receive"}, hop : Hop, pkt : Packet]

WakeEvents == [uid : Nat, at : Nat, kind : {"Wake"}, hop : Hop]

(* No queue and no disc ever holds more than it has places for.            *)
WithinCapacity(h) ==
  /\ handed[h] \in 0 .. DeviceLimit
  /\ handed[h] <= Len(queue[h])
  /\ Len(queue[h]) - handed[h] <= DiscLimit

TypeOK ==
  /\ byteTime \in ByteTimes
  /\ queue \in [Hop -> Seq(Packet)]
  /\ handed \in [Hop -> Nat]
  /\ \A h \in Hop : WithinCapacity(h)
  /\ wakes \in SUBSET WakeEvents
  /\ sending \in [Hop -> Packet \cup {None}]
  /\ events \in SUBSET Event
  /\ now \in Nat
  /\ nextUid \in Nat
  /\ offered \in Nat
  /\ stats \in [Flow -> [tx : Nat, rx : Nat, timeFirstRx : Nat, timeLastRx : Nat]]
  /\ refused \in [Hop -> SUBSET Packet]
  /\ arrived \in SUBSET Packet
  /\ lastStart \in [Hop -> SUBSET Nat]

(* A packet in two places of the row at once: twice in a queue, on a wire, *)
(* or in two of these.                                                     *)
Doubled ==
  \/ \E h \in Hop : \E i, j \in 1 .. Len(queue[h]) : i # j /\ queue[h][i] = queue[h][j]
  \/ \E h \in Hop : \E e, f \in Receptions(h) : e # f /\ e.pkt = f.pkt
  \/ \E h \in Hop : Queued(h) \cap OnWire(h) # {}
  \/ \E g, h \in Hop :
       g # h /\ (Queued(g) \cup OnWire(g)) \cap (Queued(h) \cup OnWire(h)) # {}

(* No packet is lost without a trace or doubled on its way through the     *)
(* devices: each of those offered is in exactly one queue or on exactly    *)
(* one wire, or has arrived, or has been refused by one device; and the    *)
(* flow monitor has counted what was offered and what has arrived.         *)
OfFlow(S, f) == {p \in S : p.flow = f}

NothingVanishes ==
  /\ {p.id : p \in UnderWay \cup arrived \cup Lost} = 1 .. offered
  /\ \A p, q \in UnderWay \cup arrived \cup Lost : p.id = q.id => p = q
  /\ ~Doubled
  /\ UnderWay \cap arrived = {} /\ UnderWay \cap Lost = {} /\ arrived \cap Lost = {}
  /\ \A g, h \in Hop : g # h => refused[g] \cap refused[h] = {}
  /\ \A f \in Flow :
       /\ stats[f].tx = Cardinality(OfFlow(UnderWay \cup arrived \cup Lost, f))
       /\ stats[f].rx = Cardinality(OfFlow(arrived, f))

(* Nothing waits for a device that is not at work, neither in its queue    *)
(* nor in the disc above it; and the disc holds packets back only while    *)
(* that queue is full, or for the instant until the pending wake runs it.  *)
(* A wake that is lost would leave them there for good.                    *)
NothingForgotten ==
  \A h \in Hop :
    /\ Idle(h) => queue[h] = <<>>
    /\ handed[h] < Fill(Len(queue[h])) => \E w \in wakes : w.hop = h /\ w.at = now

(* All the packets offered so far, of whichever flows, have one size. *)
EqualSizes ==
  \A f, g \in Flow : stats[f].tx > 0 /\ stats[g].tx > 0 => Size[f] = Size[g]

(* Packets of one size queue only where the line gets slower: behind a     *)
(* link that is slower a device never has a packet waiting, behind one     *)
(* that is as slow at most one, for an instant, and neither ever refuses   *)
(* one.  Drops therefore happen at the inner link of the experiment only   *)
(* when it is the slower one.                                              *)
OnlyBottlenecksQueue ==
  EqualSizes =>
    \A h \in Hop : \A i \in 1 .. h - 1 :
      /\ byteTime[i] > byteTime[h] => queue[h] = <<>>
      /\ byteTime[i] >= byteTime[h] => Len(queue[h]) <= 1 /\ refused[h] = {}

(* Action property: wherever the slowest link of the row is, and whatever  *)
(* is refused on the way, packets of one size reach the last node at least *)
(* one transmission time of that link apart.  A receiver can infer the     *)
(* rate of a hidden link from the spacing of a train only because of this. *)
SpacedByBottleneck ==
  [][EqualSizes =>
       \A f, g \in Flow :
         stats'[f].rx # stats[f].rx /\ stats[g].rx > 0 =>
           \A h \in Hop : now' >= stats[g].timeLastRx + TxTime(h, f)]_vars

(* Liveness: the network empties, every packet that was offered arrives or *)
(* is refused.                                                             *)
EveryPacketSettles ==
  \A k \in 1 .. MaxOffers :
    offered >= k ~> \E p \in arrived \cup Lost : p.id = k

(* Refinement: the row of links is one path that loses but never reorders. *)
Path == INSTANCE LossyPath WITH path <- UnderWay

ImplementsLossyPath == Path!Spec
=============================================================================
