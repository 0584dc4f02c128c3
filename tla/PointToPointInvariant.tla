----------------------- MODULE PointToPointInvariant -----------------------
(***************************************************************************)
(* The inductive invariant of PointToPoint.  The properties of that module *)
(* speak of what goes in (accepted) and what comes out (arrivals); this    *)
(* invariant says where everything in between is: the first NStarted       *)
(* packets have been transmitted, of which the first NArrived have         *)
(* arrived and the others are on the wire as events; the rest is queued.   *)
(***************************************************************************)
EXTENDS PointToPoint

(* The frame that carries request r, the k-th that d accepted. *)
FrameOf(d, k, r) == [src |-> d, n |-> k, ppp |-> EtherToPpp[r.proto],
                     size |-> r.size + PppHeaderSize]
Frame(d, k) == FrameOf(d, k, accepted[d][k])

(* When the last bit of that packet left d, and when d was free again.     *)
Finish(d, k) == starts[d][k] + TxTime(d, FrameSize(d, k))
Free(d, k) == Finish(d, k) + InterframeGap

Completes(e, d) == e.kind = "TransmitComplete" /\ e.dev = d
Carries(e, d) == e.kind = "Receive" /\ e.pkt.src = d

(* The devices that are up are the ends of the wires, and nothing moves    *)
(* before both ends are there.                                             *)
LinkInv ==
  /\ m_nDevices = 0 => \A d \in Device : ~m_linkUp[d]
  /\ m_nDevices = 1 => /\ m_link[0].m_src \in Device
                       /\ \A d \in Device : m_linkUp[d] <=> d = m_link[0].m_src
  /\ m_nDevices = 2 =>
       /\ m_link[0].m_src \in Device /\ m_link[1].m_src \in Device
       /\ m_link[0].m_src # m_link[1].m_src
       /\ m_link[0].m_dst = m_link[1].m_src
       /\ m_link[1].m_dst = m_link[0].m_src
       /\ m_link[0].m_state = "IDLE" /\ m_link[1].m_state = "IDLE"
       /\ \A d \in Device :
            m_linkUp[d] <=> (d = m_link[0].m_src \/ d = m_link[1].m_src)
  /\ m_nDevices # 2 => /\ m_link[0].m_state = "INITIALIZING"
                       /\ events = {}
                       /\ \A d \in Device : NAccepted(d) = 0

(* The transmit machine and its one pending TransmitComplete. *)
MachineInv ==
  \A d \in Device :
    /\ Idle(d) <=> m_currentPkt[d] = NoPacket
    /\ Idle(d) => NQueued(d) = 0
    /\ Idle(d) /\ NStarted(d) # 0 => Free(d, NStarted(d)) <= now
    /\ ~Idle(d) => /\ NStarted(d) # 0
                   /\ m_linkUp[d] /\ hasQueue[d]
                   /\ \E e \in events : Completes(e, d)
    /\ \A e \in events : Completes(e, d) =>
         /\ ~Idle(d)
         /\ e.at = Free(d, NStarted(d))
    /\ \A e, f \in events : Completes(e, d) /\ Completes(f, d) => e = f

(* What is queued is what has been accepted and not started. *)
QueueInv ==
  \A d \in Device :
    /\ NQueued(d) <= QueueLimit
    /\ NStarted(d) + NQueued(d) = NAccepted(d)
    /\ \A i \in 1 .. NQueued(d) : m_queue[d][i] = Frame(d, NStarted(d) + i)

(* Transmissions of a device do not overlap, and start as soon as the      *)
(* packet and the transmitter are there.                                   *)
TimingInv ==
  \A d \in Device :
    /\ \A k \in 1 .. NAccepted(d) : accepted[d][k].at <= now
    /\ \A k \in 1 .. NStarted(d) :
         starts[d][k] = Later(accepted[d][k].at, IF k = 1 THEN 0 ELSE Free(d, k - 1))
    /\ \A j, k \in 1 .. NStarted(d) : j < k => Free(d, j) <= starts[d][k]

(* On the wire is what has been started and has not arrived: one event for *)
(* each such packet, and the uids follow the order of transmission.        *)
WireInv ==
  \A d \in Device :
    /\ \A e \in events : Carries(e, d) =>
         /\ e.pkt.n \in NArrived(d) + 1 .. NStarted(d)
         /\ e.pkt = Frame(d, e.pkt.n)
         /\ e.at = Finish(d, e.pkt.n) + Delay
         /\ e.dev # d
    /\ \A e, f \in events : Carries(e, d) /\ Carries(f, d) =>
         /\ e.pkt.n = f.pkt.n => e = f
         /\ e.pkt.n < f.pkt.n => e.uid < f.uid
    /\ \A k \in NArrived(d) + 1 .. NStarted(d) :
         \E e \in events : Carries(e, d) /\ e.pkt.n = k

(* What has arrived is what was accepted first. *)
ArrivalInv ==
  \A d \in Device :
    /\ NArrived(d) <= NStarted(d)
    /\ \A k \in 1 .. NArrived(d) :
         /\ arrivals[d][k].n = k
         /\ arrivals[d][k].size = accepted[d][k].size
         /\ arrivals[d][k].proto =
              IF accepted[d][k].proto = CompressedIPv4 THEN IPv4
              ELSE accepted[d][k].proto
         /\ arrivals[d][k].at = Finish(d, k) + Delay

(* No pending event lies in the past or has a uid yet to be given out. *)
EventInv == \A e \in events : now <= e.at /\ e.uid < nextUid

(* The inductive invariant, for every order of attachment, every           *)
(* interleaving of Send with the events, and every outcome of the error    *)
(* model.                                                                  *)
IInv ==
  /\ TypeOK
  /\ InternalAssertionsHold
  /\ LinkInv
  /\ MachineInv
  /\ QueueInv
  /\ TimingInv
  /\ WireInv
  /\ ArrivalInv
  /\ EventInv
-----------------------------------------------------------------------------
(* For the bound on the latency: packets have a largest size.              *)
ASSUME LargestSize == \E top \in Size : \A size \in Size : size <= top

(* The longest time for which a packet keeps the transmitter. *)
Slot(d) == LongestTx(d) + InterframeGap

(* A packet is started no later than a full queue of slots after it was    *)
(* accepted; for one that waits, those ahead of it are counted from the    *)
(* instant at which the transmitter is free again.                         *)
LatencyInv ==
  \A d \in Device :
    /\ \A k \in 1 .. NStarted(d) :
         /\ starts[d][k] <= now
         /\ starts[d][k] <= accepted[d][k].at + QueueLimit * Slot(d)
    /\ \A i \in 1 .. NQueued(d) :
         Free(d, NStarted(d)) + (i - 1) * Slot(d)
           <= accepted[d][NStarted(d) + i].at + QueueLimit * Slot(d)
=============================================================================
