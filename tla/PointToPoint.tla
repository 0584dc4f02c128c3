---------------------------- MODULE PointToPoint ----------------------------
(***************************************************************************)
(* PointToPointNetDevice and PointToPointChannel: devices that are         *)
(* attached to one channel, transmit queues, the READY/BUSY transmit       *)
(* machine, and the two events every transmission leaves in the simulator, *)
(* TransmitComplete for the sender and Receive for the peer.               *)
(*                                                                         *)
(* The ns-3 simulator runs one event at a time to its end, in the order of *)
(* (timestamp, uid); an action is therefore a whole event handler.  Upper  *)
(* layers call Send from events of their own, at any time, so Send is      *)
(* enabled before, between and after the events that fall on the same      *)
(* instant.                                                                *)
(***************************************************************************)
EXTENDS Naturals, Sequences, FiniteSets, PppProtocol

CONSTANTS
  Device,         \* the net devices that may be attached to the channel
  NoDevice,       \* a null device pointer
  Size,           \* sizes, in octets, of the packets handed to Send
  EtherType,      \* protocol numbers handed to Send
  QueueLimit,     \* capacity, in packets, of the drop-tail transmit queue
  ByteTime,       \* ByteTime[d]: time units d needs for one octet (8 / m_bps)
  InterframeGap,  \* m_tInterframeGap
  Delay,          \* m_delay of the channel
  Lossy,          \* the devices that have an m_receiveErrorModel
  MaxSends,       \* bound: MaxSends[d] calls of Send on d
  Horizon         \* bound: the latest time at which an upper layer calls Send

ASSUME DeviceAssumption == NoDevice \notin Device
ASSUME SizeAssumption == Size \subseteq Nat
ASSUME QueueAssumption == QueueLimit \in Nat \ {0}
ASSUME TimingAssumption ==
  /\ ByteTime \in [Device -> Nat]
  /\ InterframeGap \in Nat
  /\ Delay \in Nat
ASSUME BoundAssumption == MaxSends \in [Device -> Nat] /\ Horizon \in Nat

VARIABLES
  m_linkUp,          \* per device
  hasQueue,          \* per device: m_queue is not null
  m_queue,           \* per device: contents of the transmit queue
  m_txMachineState,  \* per device: "READY" or "BUSY"
  m_currentPkt,      \* per device: the packet being transmitted, or NoPacket
  m_nDevices,        \* of the channel
  m_link,            \* of the channel: the two wires
  events,            \* of the simulator: the pending events
  now,               \* of the simulator: the current time
  nextUid,           \* of the simulator: the uid of the next event
  abort,             \* the assertion that ended the program, or NoFault
  accepted,          \* history, per sender: the requests Send accepted
  starts,            \* history, per sender: when each transmission started
  dropped,           \* history, per sender: how many packets Send dropped
  arrivals,          \* history, per sender: its packets as Receive saw them
  m_macRxTrace       \* history, per receiver: firings of the MacRx trace

devVars == <<m_linkUp, hasQueue, m_queue, m_txMachineState, m_currentPkt>>
chanVars == <<m_nDevices, m_link>>
simVars == <<events, now, nextUid>>
histVars == <<accepted, starts, dropped, arrivals, m_macRxTrace>>
vars == <<devVars, chanVars, simVars, abort, histVars>>
-----------------------------------------------------------------------------
NoFault == "none"

(* The assertions of the code; a null pointer that is dereferenced aborts  *)
(* the program in the same way.                                            *)
NotReady == "Must be READY to transmit"
NotBusy == "Must be BUSY if transmitting"
NoCurrent == "m_currentPkt zero"
NoRemote == "GetNDevices () == 2"
NoProtocol == "PPP Protocol number not defined!"
Initializing == "m_state != INITIALIZING"
TooMany == "Only two devices permitted"
NullQueue == "m_queue is null"
Fault == {NotReady, NotBusy, NoCurrent, NoRemote, NoProtocol, Initializing,
          TooMany, NullQueue}

(* A packet inside the device and on the wire.  src and n identify it (the *)
(* n-th packet src accepted); ppp and size include the PPP header.         *)
Packet == [src : Device, n : Nat \ {0}, ppp : KnownPpp, size : Nat]
NoPacket == [src |-> NoDevice, n |-> 0, ppp |-> PppNone, size |-> 0]

Completion == [uid : Nat, at : Nat, kind : {"TransmitComplete"}, dev : Device]
Reception == [uid : Nat, at : Nat, kind : {"Receive"}, dev : Device, pkt : Packet]
Event == Completion \cup Reception

Link == [m_src : Device \cup {NoDevice}, m_dst : Device \cup {NoDevice},
         m_state : {"INITIALIZING", "IDLE"}]

Request == [size : Size, proto : KnownEtherType, at : Nat]
Arrival == [n : Nat \ {0}, size : Nat, proto : KnownEtherType, at : Nat,
            corrupt : BOOLEAN]
-----------------------------------------------------------------------------
Init ==
  /\ m_linkUp = [d \in Device |-> FALSE]
  /\ hasQueue = [d \in Device |-> FALSE]
  /\ m_queue = [d \in Device |-> <<>>]
  /\ m_txMachineState = [d \in Device |-> "READY"]
  /\ m_currentPkt = [d \in Device |-> NoPacket]
  /\ m_nDevices = 0
  /\ m_link = [w \in {0, 1} |-> [m_src |-> NoDevice, m_dst |-> NoDevice,
                                 m_state |-> "INITIALIZING"]]
  /\ events = {}
  /\ now = 0
  /\ nextUid = 0
  /\ abort = NoFault
  /\ accepted = [d \in Device |-> <<>>]
  /\ starts = [d \in Device |-> <<>>]
  /\ dropped = [d \in Device |-> 0]
  /\ arrivals = [d \in Device |-> <<>>]
  /\ m_macRxTrace = [d \in Device |-> 0]

Running == abort = NoFault

(* How many packets of d have been accepted, wait in the queue, have had   *)
(* their transmission started, and have arrived.                           *)
NAccepted(d) == Len(accepted[d])
NQueued(d) == Len(m_queue[d])
NStarted(d) == Len(starts[d])
NArrived(d) == Len(arrivals[d])

(* A failed assertion ends the process; what the handler had done so far   *)
(* can no longer be observed.                                              *)
Abort(fault) ==
  /\ abort' = fault
  /\ UNCHANGED <<devVars, chanVars, simVars, histVars>>
-----------------------------------------------------------------------------
(* Bringing the link up: SetQueue and Attach in either order, as the       *)
(* helper and the unit test of the module do.                              *)

SetQueue(d) ==
  /\ Running
  /\ ~hasQueue[d]
  /\ hasQueue' = [hasQueue EXCEPT ![d] = TRUE]
  /\ UNCHANGED <<m_linkUp, m_queue, m_txMachineState, m_currentPkt, chanVars,
                 simVars, abort, histVars>>

(* Mutant of ChannelAttach: the second wire is left without a receiver.    *)
ChannelAttachOneWay(d) ==
  /\ m_nDevices' = m_nDevices + 1
  /\ m_link' = IF m_nDevices = 0
               THEN [m_link EXCEPT ![0].m_src = d]
               ELSE [m_link EXCEPT ![0].m_dst = d, ![1].m_src = d,
                                   ![0].m_state = "IDLE", ![1].m_state = "IDLE"]

(* PointToPointChannel::Attach: the second device completes both wires.    *)
ChannelAttach(d) ==
  LET other == m_link[0].m_src IN
  /\ m_nDevices' = m_nDevices + 1
  /\ m_link' = IF m_nDevices = 0
               THEN [m_link EXCEPT ![0].m_src = d]
               ELSE [w \in {0, 1} |->
                       [m_src |-> IF w = 0 THEN other ELSE d,
                        m_dst |-> IF w = 0 THEN d ELSE other,
                        m_state |-> "IDLE"]]

Attach(d) ==
  /\ Running
  /\ ~m_linkUp[d]
  /\ \/ /\ m_nDevices < 2
        /\ ChannelAttach(d)
        /\ m_linkUp' = [m_linkUp EXCEPT ![d] = TRUE]
        /\ UNCHANGED <<hasQueue, m_queue, m_txMachineState, m_currentPkt,
                       simVars, abort, histVars>>
     \/ m_nDevices = 2 /\ Abort(TooMany)
-----------------------------------------------------------------------------
(* Transmission. *)

TxTime(d, size) == size * ByteTime[d]

Wire(d) == IF m_link[0].m_src = d THEN 0 ELSE 1
Dst(d) == m_link[Wire(d)].m_dst

(* Mutants of CompleteEvent: the gap alone is waited for; the gap is       *)
(* forgotten; the transmission time is counted in bits.                    *)
CompleteEventEarly(d, p) ==
  [uid |-> nextUid, at |-> now + InterframeGap,
   kind |-> "TransmitComplete", dev |-> d]
CompleteEventNoGap(d, p) ==
  [uid |-> nextUid, at |-> now + TxTime(d, p.size),
   kind |-> "TransmitComplete", dev |-> d]
CompleteEventInBits(d, p) ==
  [uid |-> nextUid, at |-> now + TxTime(d, 8 * p.size) + InterframeGap,
   kind |-> "TransmitComplete", dev |-> d]

CompleteEvent(d, p) ==
  [uid |-> nextUid, at |-> now + TxTime(d, p.size) + InterframeGap,
   kind |-> "TransmitComplete", dev |-> d]

ReceiveEvent(d, p) ==
  [uid |-> nextUid + 1, at |-> now + TxTime(d, p.size) + Delay,
   kind |-> "Receive", dev |-> Dst(d), pkt |-> p]

(* The assertion that TransmitStart, here or in the channel, fails when it *)
(* is called with the transmit machine in the given state.                 *)
TransmitFault(state) ==
  IF state # "READY" THEN NotReady
  ELSE IF \E w \in {0, 1} : m_link[w].m_state = "INITIALIZING" THEN Initializing
  ELSE NoFault

(* Dequeue the head of q and hand it to TransmitStart, of the device and   *)
(* then of the channel; pending are the events that stay scheduled.        *)
TransmitStart(d, q, pending) ==
  /\ m_queue' = [m_queue EXCEPT ![d] = Tail(q)]
  /\ m_txMachineState' = [m_txMachineState EXCEPT ![d] = "BUSY"]
  /\ m_currentPkt' = [m_currentPkt EXCEPT ![d] = Head(q)]
  /\ events' = pending \cup {CompleteEvent(d, Head(q)), ReceiveEvent(d, Head(q))}
  /\ nextUid' = nextUid + 2
  /\ starts' = [starts EXCEPT ![d] = Append(@, now)]
  /\ UNCHANGED <<m_linkUp, hasQueue, chanVars, now, abort>>

(* AddHeader, on the next packet that d accepts. *)
Framed(d, size, proto) ==
  [src |-> d, n |-> NAccepted(d) + 1, ppp |-> EtherToPpp[proto],
   size |-> size + PppHeaderSize]

Drop(d) ==
  /\ dropped' = [dropped EXCEPT ![d] = @ + 1]
  /\ UNCHANGED <<devVars, chanVars, simVars, abort, accepted, starts, arrivals,
                 m_macRxTrace>>

Accept(d, size, proto) ==
  /\ accepted' = [accepted EXCEPT ![d] =
                    Append(@, [size |-> size, proto |-> proto, at |-> now])]
  /\ UNCHANGED <<dropped, arrivals, m_macRxTrace>>

(* Mutants: Send does not test for READY; TransmitComplete does not look   *)
(* for a packet that waits.                                                *)
IdleUnchecked(d) == TRUE
NothingQueuedUnchecked(d) == TRUE

Idle(d) == m_txMachineState[d] = "READY"
NothingQueued(d) == m_queue[d] = <<>>
QueueFull(d) == NQueued(d) >= QueueLimit

(* The packet goes through the queue even when the transmitter is idle. *)
SendNow(d, size, proto) ==
  IF TransmitFault(m_txMachineState[d]) # NoFault
  THEN Abort(TransmitFault(m_txMachineState[d]))
  ELSE /\ TransmitStart(d, Append(m_queue[d], Framed(d, size, proto)), events)
       /\ Accept(d, size, proto)

SendLater(d, size, proto) ==
  /\ m_queue' = [m_queue EXCEPT ![d] = Append(@, Framed(d, size, proto))]
  /\ Accept(d, size, proto)
  /\ UNCHANGED <<m_linkUp, hasQueue, m_txMachineState, m_currentPkt, chanVars,
                 simVars, abort, starts>>

SendOnLink(d, size, proto) ==
  \/ proto \notin KnownEtherType /\ Abort(NoProtocol)
  \/ proto \in KnownEtherType /\ ~hasQueue[d] /\ Abort(NullQueue)
  \/ /\ proto \in KnownEtherType /\ hasQueue[d]
     /\ \/ QueueFull(d) /\ Drop(d)
        \/ ~QueueFull(d) /\ Idle(d) /\ SendNow(d, size, proto)
        \/ ~QueueFull(d) /\ ~Idle(d) /\ SendLater(d, size, proto)

Send(d, size, proto) ==
  /\ Running
  /\ now <= Horizon
  /\ NAccepted(d) + dropped[d] < MaxSends[d]
  /\ \/ ~m_linkUp[d] /\ Drop(d)
     \/ m_linkUp[d] /\ SendOnLink(d, size, proto)
-----------------------------------------------------------------------------
(* The two event handlers; e is taken out of the event list to be run.     *)

CompletionFault(d) ==
  IF m_txMachineState[d] # "BUSY" THEN NotBusy
  ELSE IF m_currentPkt[d] = NoPacket THEN NoCurrent
  ELSE IF ~NothingQueued(d) THEN TransmitFault("READY")
  ELSE NoFault

(* Mutant of BecomeReady: m_currentPkt is not reset.                       *)
BecomeReadyKeepingPacket(d) ==
  /\ m_txMachineState' = [m_txMachineState EXCEPT ![d] = "READY"]
  /\ UNCHANGED m_currentPkt

BecomeReady(d) ==
  /\ m_txMachineState' = [m_txMachineState EXCEPT ![d] = "READY"]
  /\ m_currentPkt' = [m_currentPkt EXCEPT ![d] = NoPacket]

(* READY again when nothing is queued, else straight on to the next packet. *)
TransmitComplete(e) ==
  LET d == e.dev IN
  IF CompletionFault(d) # NoFault
  THEN Abort(CompletionFault(d))
  ELSE \/ /\ NothingQueued(d)
          /\ BecomeReady(d)
          /\ events' = events \ {e}
          /\ UNCHANGED <<m_linkUp, hasQueue, m_queue, chanVars, now, nextUid,
                         abort, histVars>>
       \/ /\ ~NothingQueued(d)
          /\ TransmitStart(d, m_queue[d], events \ {e})
          /\ UNCHANGED <<accepted, dropped, arrivals, m_macRxTrace>>

(* Mutant of ArrivalOf: the header is read and not removed.                *)
ArrivalOfWithHeader(p, corrupt) ==
  [n |-> p.n, size |-> p.size, proto |-> PppToEther[p.ppp],
   at |-> now, corrupt |-> corrupt]

(* The packet as Receive sees it; ProcessHeader strips the PPP header.     *)
ArrivalOf(p, corrupt) ==
  [n |-> p.n, size |-> p.size - PppHeaderSize, proto |-> PppToEther[p.ppp],
   at |-> now, corrupt |-> corrupt]

Arrive(e, corrupt) ==
  /\ arrivals' = [arrivals EXCEPT ![e.pkt.src] = Append(@, ArrivalOf(e.pkt, corrupt))]
  /\ events' = events \ {e}
  /\ UNCHANGED <<devVars, chanVars, now, nextUid, abort, accepted, starts, dropped>>

(* A corrupted packet is let go before its header is looked at.  An intact *)
(* one is handed to the upper layer with GetRemote, which asserts that     *)
(* both ends are attached; the MacRx trace is fired twice.                 *)
Deliver(e) ==
  IF m_nDevices # 2
  THEN Abort(NoRemote)
  ELSE /\ Arrive(e, FALSE)
       /\ m_macRxTrace' = [m_macRxTrace EXCEPT ![e.dev] = @ + 2]

Receive(e) ==
  \/ /\ e.dev \in Lossy
     /\ Arrive(e, TRUE)
     /\ UNCHANGED m_macRxTrace
  \/ Deliver(e)
-----------------------------------------------------------------------------
(* The simulator: the event with the least (timestamp, uid) runs next, at  *)
(* its own time; time moves on only when nothing is left to do now.        *)

IsNext(e) ==
  /\ e.at = now
  /\ \A f \in events : f.at > e.at \/ (f.at = e.at /\ f.uid >= e.uid)

RunEvent(e) ==
  /\ Running
  /\ IsNext(e)
  /\ \/ e.kind = "TransmitComplete" /\ TransmitComplete(e)
     \/ e.kind = "Receive" /\ Receive(e)

Tick ==
  /\ Running
  /\ \A e \in events : now < e.at
  /\ events # {} \/ now < Horizon
  /\ now' = now + 1
  /\ UNCHANGED <<devVars, chanVars, events, nextUid, abort, histVars>>

Simulate == Tick \/ \E e \in events : RunEvent(e)

Next ==
  \/ \E d \in Device : SetQueue(d) \/ Attach(d)
  \/ \E d \in Device, size \in Size, proto \in EtherType : Send(d, size, proto)
  \/ Simulate

Spec == Init /\ [][Next]_vars

(* Simulator::Run goes on as long as an event is pending. *)
FairSpec == Spec /\ WF_vars(Simulate)
-----------------------------------------------------------------------------
TypeOK ==
  /\ m_linkUp \in [Device -> BOOLEAN]
  /\ hasQueue \in [Device -> BOOLEAN]
  /\ m_queue \in [Device -> Seq(Packet)]
  /\ m_txMachineState \in [Device -> {"READY", "BUSY"}]
  /\ m_currentPkt \in [Device -> Packet \cup {NoPacket}]
  /\ m_nDevices \in {0, 1, 2}
  /\ m_link \in [{0, 1} -> Link]
  /\ events \in SUBSET Event
  /\ now \in Nat
  /\ nextUid \in Nat
  /\ abort \in Fault \cup {NoFault}
  /\ accepted \in [Device -> Seq(Request)]
  /\ starts \in [Device -> Seq(Nat)]
  /\ dropped \in [Device -> Nat]
  /\ arrivals \in [Device -> Seq(Arrival)]
  /\ m_macRxTrace \in [Device -> Nat]
-----------------------------------------------------------------------------
(* Safety. *)

(* The assertions by which the device checks its own transmit machine and  *)
(* its peer never fail, whatever order queues and channel are attached in, *)
(* and whatever Send is interleaved with: they are facts, not requirements *)
(* on the caller.  Those about a link that is used before both ends are    *)
(* there may fail, but only in that case.                                  *)
InternalAssertionsHold ==
  /\ abort \notin {NotReady, NotBusy, NoCurrent, NoRemote}
  /\ abort = Initializing => m_nDevices < 2

(* BUSY means exactly that one TransmitComplete is scheduled and that      *)
(* m_currentPkt is set: the machine can neither hang with no event to wake *)
(* it nor be woken twice.                                                  *)
TransmitterAccounted ==
  \A d \in Device :
    LET completions == {e \in events : e.kind = "TransmitComplete" /\ e.dev = d} IN
    /\ Idle(d) <=> completions = {}
    /\ \A e, f \in completions : e = f
    /\ Idle(d) <=> m_currentPkt[d] = NoPacket

FrameSize(d, k) == accepted[d][k].size + PppHeaderSize

(* The k-th packet of a device to reach its peer is the k-th that Send     *)
(* accepted, with the size and the protocol that Send was called with,     *)
(* except that compressed IPv4 comes out as IPv4: nothing is reordered,    *)
(* duplicated or altered between the queue, the events and the two tables. *)
DeliveredInOrder ==
  \A d \in Device :
    /\ NArrived(d) <= NAccepted(d)
    /\ \A k \in 1 .. NArrived(d) :
         /\ arrivals[d][k].n = k
         /\ arrivals[d][k].size = accepted[d][k].size
         /\ arrivals[d][k].proto =
              IF accepted[d][k].proto = CompressedIPv4 THEN IPv4
              ELSE accepted[d][k].proto

Later(t, u) == IF t > u THEN t ELSE u

(* The line is a work-conserving server of fixed rate: a packet arrives    *)
(* exactly one transmission time after the later of its acceptance plus    *)
(* the propagation delay and the arrival of its predecessor plus the       *)
(* interframe gap.  The dispersion of a packet train, from which           *)
(* cs621-dev01.cc infers compression, is this recursion and nothing else.  *)
ArrivalTimes ==
  \A d \in Device : \A k \in 1 .. NArrived(d) :
    arrivals[d][k].at =
      TxTime(d, FrameSize(d, k)) +
      Later(accepted[d][k].at + Delay,
            IF k = 1 THEN 0 ELSE arrivals[d][k-1].at + InterframeGap)

LongestTx(d) == CHOOSE t \in {TxTime(d, size + PppHeaderSize) : size \in Size} :
                  \A size \in Size : TxTime(d, size + PppHeaderSize) <= t

(* Bounded latency: what Send accepts arrives before the packet in         *)
(* transmission, the rest of a full queue and the packet itself have been  *)
(* sent at the slowest, plus the propagation delay.                        *)
BoundedLatency ==
  \A d \in Device : \A k \in NArrived(d) + 1 .. NAccepted(d) :
    \/ ~Running
    \/ now <= accepted[d][k].at + Delay
              + QueueLimit * (LongestTx(d) + InterframeGap) + LongestTx(d)

(* Action property: a device whose link is up refuses a packet only when a *)
(* transmission is in progress and QueueLimit packets wait behind it.  The *)
(* code tests the queue before it looks at the transmit machine, so this   *)
(* rests on the queue being empty whenever the machine is READY.           *)
RefusesOnlyWhenSaturated ==
  [][\A d \in Device : (dropped'[d] # dropped[d] /\ m_linkUp[d]) =>
       /\ ~Idle(d)
       /\ NAccepted(d) - NStarted(d) = QueueLimit]_vars
-----------------------------------------------------------------------------
(* What the headers of the code say of it.                                 *)

(* point-to-point-net-device.h says that the MacRx trace is fired for a    *)
(* packet that is received, when it is forwarded up: once per packet.      *)
MacRxFiredPerPacket ==
  \A d \in Device :
    m_linkUp[d] /\ m_nDevices = 2 =>
      m_macRxTrace[Dst(d)] =
        Cardinality({k \in 1 .. NArrived(d) : ~arrivals[d][k].corrupt})
-----------------------------------------------------------------------------
(* Liveness: every packet that Send accepted reaches the other end, unless *)
(* the program aborts.                                                     *)
EveryAcceptedArrives ==
  \A d \in Device : \A k \in 1 .. MaxSends[d] :
    NAccepted(d) >= k ~> (NArrived(d) >= k \/ ~Running)
-----------------------------------------------------------------------------
(* Refinement: the device, the channel and the event list implement the    *)
(* FIFO link.  In transit is what has been accepted and has not arrived,   *)
(* wherever it is: in the queue or on the wire.                            *)
MessageOf(r) == [size |-> r.size, proto |-> r.proto]

InTransit ==
  [d \in Device |->
     [k \in 1 .. NAccepted(d) - NArrived(d) |->
        MessageOf(accepted[d][NArrived(d) + k])]]

Outcome ==
  [d \in Device |->
     [k \in 1 .. NArrived(d) |->
        [msg |-> MessageOf(arrivals[d][k]), lost |-> arrivals[d][k].corrupt]]]

Link0 ==
  INSTANCE FifoLink WITH
    Message <- [size : Size, proto : KnownEtherType],
    MayLose <- {d \in Device : \E r \in Lossy : r # d},
    Compressed <- CompressedIPv4,
    Plain <- IPv4,
    transit <- InTransit,
    outcome <- Outcome,
    dead <- ~Running

ImplementsFifoLink == Link0!Spec
=============================================================================
