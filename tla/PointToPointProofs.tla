------------------------- MODULE PointToPointProofs -------------------------
(***************************************************************************)
(* Proofs that the safety properties of PointToPoint hold for every set of *)
(* devices, every rate, gap, delay and queue capacity, and every error     *)
(* model: IInv is inductive and implies them; and that PointToPoint        *)
(* implements FifoLink.                                                    *)
(***************************************************************************)
EXTENDS PointToPointInvariant, SequenceTheorems, TLAPS

USE DeviceAssumption, SizeAssumption, QueueAssumption, TimingAssumption,
    BoundAssumption
-----------------------------------------------------------------------------
(* The operators the model is built from. *)

(* A transmission takes a natural number of time units. *)
LEMMA TxTimeType ==
  ASSUME NEW d \in Device, NEW size \in Nat
  PROVE  TxTime(d, size) \in Nat
<1>1. ByteTime[d] \in Nat
  OBVIOUS
<1>. QED  BY <1>1 DEF TxTime

(* The two tables of the net device, on the protocols they know: what goes *)
(* through both comes out as itself, compressed IPv4 as IPv4.              *)
LEMMA Tables ==
  /\ EtherToPpp \in [KnownEtherType -> KnownPpp]
  /\ PppToEther \in [KnownPpp -> KnownEtherType]
  /\ \A proto \in KnownEtherType :
       PppToEther[EtherToPpp[proto]] = IF proto = CompressedIPv4 THEN IPv4 ELSE proto
BY DEF EtherToPpp, PppToEther, KnownEtherType, KnownPpp, IPv4, IPv6,
       CompressedIPv4, PppIPv4, PppIPv6, PppNone

(* A frame is a packet. *)
LEMMA FrameOfType ==
  ASSUME NEW d \in Device, NEW k \in Nat \ {0}, NEW r \in Request
  PROVE  FrameOf(d, k, r) \in Packet
<1>1. r.size \in Nat /\ r.proto \in KnownEtherType
  BY DEF Request
<1>2. EtherToPpp[r.proto] \in KnownPpp
  BY <1>1, Tables
<1>. QED  BY <1>1, <1>2 DEF FrameOf, Packet, PppHeaderSize

(* No packet is the null packet. *)
LEMMA PacketIsSome == NoPacket \notin Packet
BY DEF NoPacket, Packet

(* The later of two instants. *)
LEMMA LaterType ==
  ASSUME NEW t \in Nat, NEW u \in Nat
  PROVE  /\ Later(t, u) \in Nat
         /\ t <= Later(t, u) /\ u <= Later(t, u)
         /\ Later(t, u) = t \/ Later(t, u) = u
BY DEF Later

(* What Head and Tail do to the elements of a sequence. *)
LEMMA TailElements ==
  ASSUME NEW S, NEW s \in Seq(S), s # <<>>
  PROVE  /\ Head(s) = s[1] /\ Head(s) \in S
         /\ Tail(s) \in Seq(S)
         /\ Len(Tail(s)) = Len(s) - 1 /\ Len(s) \in Nat \ {0}
         /\ \A i \in 1 .. Len(s) - 1 : Tail(s)[i] = s[i + 1]
BY HeadTailProperties

(* An element of a sequence is in its set; a non-empty one has a last.     *)
LEMMA Elements ==
  ASSUME NEW S, NEW s \in Seq(S)
  PROVE  /\ Len(s) \in Nat
         /\ \A i \in 1 .. Len(s) : s[i] \in S
         /\ s # <<>> => Len(s) \in 1 .. Len(s)
         /\ s = <<>> <=> Len(s) = 0
<1>1. Len(s) \in Nat
  OBVIOUS
<1>2. \A i \in 1 .. Len(s) : s[i] \in S
  BY ElementOfSeq
<1>3. s = <<>> <=> Len(s) = 0
  BY EmptySeq
<1>. QED  BY <1>1, <1>2, <1>3
-----------------------------------------------------------------------------
(* What IInv says about the types of the parts of a state. *)
LEMMA Types ==
  ASSUME TypeOK, NEW d \in Device
  PROVE  /\ m_queue[d] \in Seq(Packet) /\ NQueued(d) \in Nat
         /\ accepted[d] \in Seq(Request) /\ NAccepted(d) \in Nat
         /\ starts[d] \in Seq(Nat) /\ NStarted(d) \in Nat
         /\ arrivals[d] \in Seq(Arrival) /\ NArrived(d) \in Nat
         /\ NQueued(d) = 0 <=> m_queue[d] = <<>>
         /\ \A k \in 1 .. NAccepted(d) :
              /\ accepted[d][k] \in Request
              /\ accepted[d][k].at \in Nat
              /\ accepted[d][k].size \in Nat
              /\ accepted[d][k].proto \in KnownEtherType
              /\ FrameSize(d, k) \in Nat
              /\ TxTime(d, FrameSize(d, k)) \in Nat
         /\ \A k \in 1 .. NStarted(d) : starts[d][k] \in Nat
<1>1. /\ m_queue[d] \in Seq(Packet) /\ accepted[d] \in Seq(Request)
      /\ starts[d] \in Seq(Nat) /\ arrivals[d] \in Seq(Arrival)
  BY DEF TypeOK
<1>2. ASSUME NEW k \in 1 .. NAccepted(d)
      PROVE  /\ accepted[d][k] \in Request
             /\ accepted[d][k].at \in Nat
             /\ accepted[d][k].size \in Nat
             /\ accepted[d][k].proto \in KnownEtherType
             /\ FrameSize(d, k) \in Nat
             /\ TxTime(d, FrameSize(d, k)) \in Nat
  <2>1. accepted[d][k] \in Request
    BY <1>1, <1>2, Elements DEF NAccepted
  <2>2. /\ accepted[d][k].at \in Nat
        /\ accepted[d][k].size \in Nat
        /\ accepted[d][k].proto \in KnownEtherType
    BY <2>1 DEF Request
  <2>3. FrameSize(d, k) \in Nat
    BY <2>2 DEF FrameSize, PppHeaderSize
  <2>. QED  BY <2>1, <2>2, <2>3, TxTimeType
<1>3. ASSUME NEW k \in 1 .. NStarted(d)
      PROVE  starts[d][k] \in Nat
  BY <1>1, <1>3, Elements DEF NStarted
<1>4. /\ NQueued(d) \in Nat /\ NAccepted(d) \in Nat
      /\ NStarted(d) \in Nat /\ NArrived(d) \in Nat
      /\ NQueued(d) = 0 <=> m_queue[d] = <<>>
  BY <1>1, Elements DEF NQueued, NAccepted, NStarted, NArrived
<1>. QED  BY <1>1, <1>2, <1>3, <1>4

(* An event has a time and a uid, and a reception carries a packet. *)
LEMMA EventTypes ==
  ASSUME TypeOK, NEW e \in events
  PROVE  /\ e.uid \in Nat /\ e.at \in Nat /\ e.dev \in Device
         /\ e.kind = "TransmitComplete" \/ e.kind = "Receive"
         /\ e.kind = "Receive" => e.pkt \in Packet
<1>1. e \in Completion \/ e \in Reception
  BY DEF TypeOK, Event
<1>2. CASE e \in Completion
  BY <1>2 DEF Completion
<1>3. CASE e \in Reception
  BY <1>3 DEF Reception
<1>. QED  BY <1>1, <1>2, <1>3

(* The ends of the wires once both devices are attached: a device that is  *)
(* up sends to the other one. *)
LEMMA OtherEnd ==
  ASSUME TypeOK, LinkInv, m_nDevices = 2, NEW d \in Device, m_linkUp[d]
  PROVE  Dst(d) \in Device /\ Dst(d) # d
BY DEF LinkInv, Dst, Wire

(* What has been started has been accepted, and its times are numbers.     *)
LEMMA StartedAccepted ==
  ASSUME TypeOK, QueueInv, NEW d \in Device, NEW k \in 1 .. NStarted(d)
  PROVE  k \in 1 .. NAccepted(d)
<1>1. /\ NStarted(d) + NQueued(d) = NAccepted(d)
      /\ NStarted(d) \in Nat /\ NQueued(d) \in Nat /\ NAccepted(d) \in Nat
  BY Types DEF QueueInv
<1>. QED  BY <1>1

(* The instants of a transmission, in order.                               *)
LEMMA FreeType ==
  ASSUME TypeOK, QueueInv, NEW d \in Device, NEW k \in 1 .. NStarted(d)
  PROVE  /\ Finish(d, k) \in Nat /\ Free(d, k) \in Nat
         /\ starts[d][k] \in Nat
         /\ starts[d][k] <= Finish(d, k) /\ Finish(d, k) <= Free(d, k)
<1>1. starts[d][k] \in Nat /\ TxTime(d, FrameSize(d, k)) \in Nat
  BY StartedAccepted, Types
<1>. QED  BY <1>1 DEF Free, Finish

(* The initial states satisfy the invariant. *)
LEMMA InitInv == Init => IInv
<1>. SUFFICES ASSUME Init PROVE IInv
  OBVIOUS
<1>1. TypeOK
  BY DEF Init, TypeOK, Link, Event, Fault
<1>2. \A d \in Device : /\ NStarted(d) = 0 /\ NAccepted(d) = 0
                        /\ NArrived(d) = 0 /\ NQueued(d) = 0
  BY DEF Init, NStarted, NAccepted, NArrived, NQueued
<1>3. InternalAssertionsHold
  BY DEF Init, InternalAssertionsHold, NoFault, NotReady, NotBusy, NoCurrent,
         NoRemote, Initializing
<1>4. LinkInv
  BY <1>2 DEF Init, LinkInv
<1>5. MachineInv
  BY <1>2 DEF Init, MachineInv, Idle
<1>6. QueueInv
  BY <1>2 DEF QueueInv
<1>7. TimingInv
  BY <1>2 DEF TimingInv
<1>8. WireInv
  BY <1>2 DEF Init, WireInv
<1>9. ArrivalInv
  BY <1>2 DEF ArrivalInv
<1>10. EventInv
  BY DEF Init, EventInv
<1>. QED  BY <1>1, <1>3, <1>4, <1>5, <1>6, <1>7, <1>8, <1>9, <1>10 DEF IInv
-----------------------------------------------------------------------------
(* The step both Send and TransmitComplete end with: the transmitter of d  *)
(* is free, q is what is to be sent from now on, and its head is handed to *)
(* TransmitStart.  This is what the two have in common: q continues what   *)
(* has been started, pending has no completion of d left, requests are     *)
(* only added, and now is the first instant at which both the packet and   *)
(* the transmitter are there.                                              *)
StartPending(d, pending) ==
  /\ pending \in SUBSET events
  /\ \A e \in pending : ~Completes(e, d)
  /\ \A e \in events : Completes(e, d) \/ e \in pending

StartAccepted(d) ==
  /\ accepted' \in [Device -> Seq(Request)]
  /\ \A c \in Device : c # d => accepted'[c] = accepted[c]
  /\ \A k \in 1 .. NAccepted(d) :
       k \in 1 .. NAccepted(d)' /\ accepted'[d][k] = accepted[d][k]
  /\ \A k \in 1 .. NAccepted(d)' : accepted'[d][k].at <= now

StartQueue(d, q) ==
  /\ q \in Seq(Packet) /\ q # <<>> /\ Len(q) - 1 <= QueueLimit
  /\ NStarted(d) + Len(q) = NAccepted(d)'
  /\ \A i \in 1 .. Len(q) :
       q[i] = FrameOf(d, NStarted(d) + i, accepted'[d][NStarted(d) + i])

StartTime(d) ==
  /\ NStarted(d) # 0 => Free(d, NStarted(d)) <= now
  /\ now = Later(accepted'[d][NStarted(d) + 1].at,
                 IF NStarted(d) = 0 THEN 0 ELSE Free(d, NStarted(d)))

LEMMA StartStep ==
  ASSUME IInv, m_nDevices = 2,
         NEW d \in Device, m_linkUp[d], hasQueue[d],
         NEW q, NEW pending,
         StartPending(d, pending), StartAccepted(d), StartQueue(d, q), StartTime(d),
         TransmitStart(d, q, pending),
         UNCHANGED <<dropped, arrivals, m_macRxTrace>>
  PROVE  IInv'
<1>. PICK n : n = NStarted(d) + 1
  OBVIOUS
<1>. DEFINE p == Head(q)
            ce == CompleteEvent(d, p)
            re == ReceiveEvent(d, p)
<1>. USE DEF IInv
<1>1. /\ m_queue' = [m_queue EXCEPT ![d] = Tail(q)]
      /\ m_txMachineState' = [m_txMachineState EXCEPT ![d] = "BUSY"]
      /\ m_currentPkt' = [m_currentPkt EXCEPT ![d] = p]
      /\ events' = pending \cup {ce, re}
      /\ nextUid' = nextUid + 2
      /\ starts' = [starts EXCEPT ![d] = Append(@, now)]
      /\ m_linkUp' = m_linkUp /\ hasQueue' = hasQueue
      /\ m_nDevices' = m_nDevices /\ m_link' = m_link
      /\ now' = now /\ abort' = abort
      /\ dropped' = dropped /\ arrivals' = arrivals
      /\ m_macRxTrace' = m_macRxTrace
  BY DEF TransmitStart, chanVars
<1>2. /\ now \in Nat /\ nextUid \in Nat /\ n \in Nat /\ n # 0
      /\ starts[d] \in Seq(Nat) /\ NStarted(d) \in Nat
  BY SMTT(40), Types DEF TypeOK
<1>3. /\ p = q[1] /\ p \in Packet
      /\ Tail(q) \in Seq(Packet)
      /\ Len(Tail(q)) = Len(q) - 1 /\ Len(q) \in Nat \ {0}
      /\ \A i \in 1 .. Len(q) - 1 : Tail(q)[i] = q[i + 1]
  BY TailElements DEF StartQueue
<1>4. Dst(d) \in Device /\ Dst(d) # d
  BY OtherEnd
<1>5. /\ p = FrameOf(d, n, accepted'[d][n]) /\ n \in 1 .. NAccepted(d)'
      /\ p.src = d /\ p.n = n /\ p.size \in Nat
  <2>1. p = FrameOf(d, n, accepted'[d][n])
    <3>1. 1 \in 1 .. Len(q)
      BY <1>3
    <3>. QED  BY <1>3, <3>1 DEF StartQueue
  <2>2. n \in 1 .. NAccepted(d)'
    BY <1>2, <1>3 DEF StartQueue
  <2>. QED  BY <2>1, <2>2, <1>3 DEF FrameOf, Packet
<1>6. TxTime(d, p.size) \in Nat
  BY <1>5, TxTimeType
<1>7. /\ ce \in Completion /\ re \in Reception
      /\ ce.at = now + TxTime(d, p.size) + InterframeGap
      /\ ce.kind = "TransmitComplete" /\ ce.dev = d /\ ce.uid = nextUid
      /\ re.at = now + TxTime(d, p.size) + Delay /\ re.pkt = p
      /\ re.kind = "Receive" /\ re.dev = Dst(d) /\ re.uid = nextUid + 1
  BY SMTT(40), <1>2, <1>3, <1>4, <1>6 DEF CompleteEvent, ReceiveEvent, Completion, Reception
<1>8. /\ starts'[d] \in Seq(Nat)
      /\ NStarted(d)' = n /\ starts'[d][n] = now
      /\ \A k \in 1 .. NStarted(d) : starts'[d][k] = starts[d][k]
  <2>1. starts'[d] = Append(starts[d], now)
    BY <1>1 DEF TypeOK
  <2>2. /\ starts'[d] \in Seq(Nat)
        /\ Len(starts'[d]) = Len(starts[d]) + 1
        /\ starts'[d][Len(starts[d]) + 1] = now
        /\ \A k \in 1 .. Len(starts[d]) : starts'[d][k] = starts[d][k]
    BY <2>1, <1>2, AppendProperties
  <2>. QED  BY <2>2 DEF NStarted
<1>9. ASSUME NEW c \in Device, c # d
      PROVE  /\ starts'[c] = starts[c] /\ m_queue'[c] = m_queue[c]
             /\ m_txMachineState'[c] = m_txMachineState[c]
             /\ m_currentPkt'[c] = m_currentPkt[c]
             /\ accepted'[c] = accepted[c]
             /\ NStarted(c)' = NStarted(c) /\ NQueued(c)' = NQueued(c)
             /\ NAccepted(c)' = NAccepted(c)
             /\ Idle(c)' <=> Idle(c)
  <2>1. /\ starts'[c] = starts[c] /\ m_queue'[c] = m_queue[c]
        /\ m_txMachineState'[c] = m_txMachineState[c]
        /\ m_currentPkt'[c] = m_currentPkt[c]
        /\ accepted'[c] = accepted[c]
    BY <1>1, <1>9 DEF TypeOK, StartAccepted
  <2>. QED  BY <2>1 DEF NStarted, NQueued, NAccepted, Idle
<1>10. /\ m_queue'[d] = Tail(q) /\ m_txMachineState'[d] = "BUSY"
       /\ m_currentPkt'[d] = p
       /\ NQueued(d)' = Len(q) - 1
       /\ NQueued(d)' \in Nat /\ NAccepted(d)' \in Nat
       /\ NStarted(d) + Len(q) = NAccepted(d)'
  <2>1. /\ m_queue'[d] = Tail(q) /\ m_txMachineState'[d] = "BUSY"
        /\ m_currentPkt'[d] = p
    BY <1>1 DEF TypeOK
  <2>2. NQueued(d)' = Len(q) - 1
    BY <2>1, <1>3 DEF NQueued
  <2>3. NStarted(d) + Len(q) = NAccepted(d)'
    BY DEF StartQueue
  <2>. QED  BY <2>1, <2>2, <2>3, <1>2, <1>3
<1>. HIDE DEF p, ce, re
<1>11. TypeOK'
  <2>1. events' \in SUBSET Event
    BY <1>1, <1>7 DEF TypeOK, Event, StartPending
  <2>2. starts' \in [Device -> Seq(Nat)]
    BY <1>1, <1>8 DEF TypeOK
  <2>3. /\ m_queue' \in [Device -> Seq(Packet)]
        /\ m_txMachineState' \in [Device -> {"READY", "BUSY"}]
        /\ m_currentPkt' \in [Device -> Packet \cup {NoPacket}]
    BY <1>1, <1>3 DEF TypeOK
  <2>4. nextUid' \in Nat
    BY <1>1, <1>2
  <2>. QED  BY <1>1, <2>1, <2>2, <2>3, <2>4 DEF TypeOK, StartAccepted
<1>12. InternalAssertionsHold'
  BY <1>1 DEF InternalAssertionsHold
<1>13. LinkInv'
  BY <1>1 DEF LinkInv
(* Nothing changes for the packets whose transmission has started before.  *)
<1>14. ASSUME NEW c \in Device, NEW k \in 1 .. NStarted(c)
       PROVE  /\ k \in 1 .. NStarted(c)' /\ k \in 1 .. NAccepted(c)
              /\ starts'[c][k] = starts[c][k]
              /\ accepted'[c][k] = accepted[c][k]
              /\ Frame(c, k)' = Frame(c, k)
              /\ FrameSize(c, k)' = FrameSize(c, k)
              /\ Finish(c, k)' = Finish(c, k)
              /\ Free(c, k)' = Free(c, k)
  <2>1. k \in 1 .. NAccepted(c)
    <3>1. /\ NStarted(c) + NQueued(c) = NAccepted(c)
          /\ NStarted(c) \in Nat /\ NQueued(c) \in Nat
          /\ NAccepted(c) \in Nat
      BY <1>14, Types DEF QueueInv
    <3>. QED  BY <1>14, <3>1
  <2>2. starts'[c][k] = starts[c][k] /\ k \in 1 .. NStarted(c)'
    <3>1. CASE c = d
      <4>1. k \in 1 .. NStarted(d)
        BY <1>14, <3>1
      <4>. QED  BY SMTT(40), <3>1, <4>1, <1>2, <1>8
    <3>2. CASE c # d
      BY <3>2, <1>9, <1>14
    <3>. QED  BY <3>1, <3>2
  <2>3. accepted'[c][k] = accepted[c][k]
    BY <2>1 DEF StartAccepted
  <2>. QED  BY <2>1, <2>2, <2>3 DEF Frame, FrameSize, Finish, Free, TxTime
<1>15. /\ Frame(d, n)' = p /\ FrameSize(d, n)' = p.size
       /\ Finish(d, n)' = now + TxTime(d, p.size)
       /\ Free(d, n)' = now + TxTime(d, p.size) + InterframeGap
  <2>1. Frame(d, n)' = p
    BY <1>5 DEF Frame
  <2>2. FrameSize(d, n)' = p.size
    BY <1>5 DEF FrameOf, FrameSize
  <2>. QED  BY <2>1, <2>2, <1>8 DEF Finish, Free, TxTime
<1>16. MachineInv'
  <2>1. ASSUME NEW c \in Device, c # d
        PROVE  /\ \A e \in events' : Completes(e, c) <=> (e \in events /\ Completes(e, c))
               /\ \A e \in events : Completes(e, c) => e \in events'
    BY <1>1, <1>7, <2>1 DEF Completes, StartPending
  <2>2. \A e \in events' : Completes(e, d) <=> e = ce
    BY <1>1, <1>7 DEF Completes, StartPending
  <2>3. ASSUME NEW c \in Device, c # d
        PROVE  /\ (Idle(c) <=> m_currentPkt[c] = NoPacket)'
               /\ (Idle(c) => NQueued(c) = 0)'
               /\ (Idle(c) /\ NStarted(c) # 0 => Free(c, NStarted(c)) <= now)'
               /\ (~Idle(c) => /\ NStarted(c) # 0
                               /\ m_linkUp[c] /\ hasQueue[c]
                               /\ \E e \in events : Completes(e, c))'
               /\ (\A e \in events : Completes(e, c) =>
                     /\ ~Idle(c)
                     /\ e.at = Free(c, NStarted(c)))'
               /\ (\A e, f \in events : Completes(e, c) /\ Completes(f, c) => e = f)'
    <3>1. /\ Idle(c)' <=> Idle(c)
          /\ NStarted(c)' = NStarted(c) /\ NQueued(c)' = NQueued(c)
          /\ m_currentPkt'[c] = m_currentPkt[c]
      BY <1>9, <2>3
    <3>2. NStarted(c) # 0 => Free(c, NStarted(c))' = Free(c, NStarted(c))
      <4>1. NStarted(c) # 0 => NStarted(c) \in 1 .. NStarted(c)
        BY <2>3, Types
      <4>. QED  BY <2>3, <4>1, <1>14, <3>1
    <3>3. (\E e \in events : Completes(e, c)) => (\E e \in events : Completes(e, c))'
      BY <2>1, <2>3
    <3>4. \A e \in events' : Completes(e, c) =>
            /\ ~Idle(c)
            /\ NStarted(c) # 0
            /\ e.at = Free(c, NStarted(c))
      BY <2>1, <2>3 DEF MachineInv
    <3>. QED  BY <1>1, <2>1, <2>3, <3>1, <3>2, <3>3, <3>4 DEF MachineInv
  <2>4. /\ (Idle(d) <=> m_currentPkt[d] = NoPacket)'
        /\ (Idle(d) => NQueued(d) = 0)'
        /\ (Idle(d) /\ NStarted(d) # 0 => Free(d, NStarted(d)) <= now)'
        /\ (~Idle(d) => /\ NStarted(d) # 0
                        /\ m_linkUp[d] /\ hasQueue[d]
                        /\ \E e \in events : Completes(e, d))'
        /\ (\A e \in events : Completes(e, d) =>
              /\ ~Idle(d)
              /\ e.at = Free(d, NStarted(d)))'
        /\ (\A e, f \in events : Completes(e, d) /\ Completes(f, d) => e = f)'
    <3>1. ~Idle(d)' /\ m_currentPkt'[d] # NoPacket
      BY <1>10, <1>3, PacketIsSome DEF Idle
    <3>2. ce \in events' /\ Completes(ce, d)
      BY <1>1, <1>7 DEF Completes
    <3>3. ce.at = Free(d, NStarted(d))'
      BY <1>15, <1>7, <1>8
    <3>. QED  BY <1>1, <1>2, <1>8, <2>2, <3>1, <3>2, <3>3
  <2>. QED  BY <2>3, <2>4 DEF MachineInv
<1>17. QueueInv'
  <2>1. ASSUME NEW c \in Device, c # d
        PROVE  /\ (NQueued(c) <= QueueLimit)'
               /\ (NStarted(c) + NQueued(c) = NAccepted(c))'
               /\ (\A i \in 1 .. NQueued(c) :
                     m_queue[c][i] = Frame(c, NStarted(c) + i))'
    <3>1. \A k : Frame(c, k)' = Frame(c, k)
      BY <1>9, <2>1 DEF Frame
    <3>. QED  BY <1>9, <2>1, <3>1 DEF QueueInv
  <2>2. /\ (NQueued(d) <= QueueLimit)'
        /\ (NStarted(d) + NQueued(d) = NAccepted(d))'
    BY <1>2, <1>3, <1>8, <1>10 DEF StartQueue
  <2>3. ASSUME NEW i \in 1 .. NQueued(d)'
        PROVE  m_queue'[d][i] = Frame(d, NStarted(d) + i)'
    <3>1. i \in 1 .. Len(q) - 1 /\ i + 1 \in 1 .. Len(q) /\ i \in Nat
      BY <2>3, <1>3, <1>10
    <3>2. m_queue'[d][i] = q[i + 1]
      BY <1>3, <1>10, <3>1
    <3>3. NStarted(d) + (i + 1) = NStarted(d)' + i
      BY <1>2, <1>8, <3>1
    <3>4. q[i + 1] = FrameOf(d, NStarted(d)' + i, accepted'[d][NStarted(d)' + i])
      BY <3>1, <3>3 DEF StartQueue
    <3>. QED  BY <3>2, <3>4 DEF Frame
  <2>. QED  BY <2>1, <2>2, <2>3 DEF QueueInv
<1>18. TimingInv'
  <2>1. ASSUME NEW c \in Device, c # d
        PROVE  /\ (\A k \in 1 .. NAccepted(c) : accepted[c][k].at <= now)'
               /\ (\A k \in 1 .. NStarted(c) :
                     starts[c][k] = Later(accepted[c][k].at,
                                          IF k = 1 THEN 0 ELSE Free(c, k - 1)))'
               /\ (\A j, k \in 1 .. NStarted(c) :
                     j < k => Free(c, j) <= starts[c][k])'
    <3>1. \A k : Free(c, k)' = Free(c, k)
      BY <1>9, <2>1 DEF Free, Finish, FrameSize, TxTime
    <3>2. /\ starts'[c] = starts[c] /\ accepted'[c] = accepted[c] /\ now' = now
          /\ NStarted(c)' = NStarted(c) /\ NAccepted(c)' = NAccepted(c)
      BY <1>1, <1>9, <2>1
    <3>3. \A k \in 1 .. NStarted(c) :
            starts'[c][k] = Later(accepted'[c][k].at, IF k = 1 THEN 0 ELSE Free(c, k - 1)')
      <4>1. \A k : Free(c, k - 1)' = Free(c, k - 1)
        BY <3>1
      <4>. QED  BY <2>1, <3>2, <4>1 DEF TimingInv
    <3>4. \A j, k \in 1 .. NStarted(c) : j < k => Free(c, j)' <= starts'[c][k]
      BY <2>1, <3>1, <3>2 DEF TimingInv
    <3>5. \A k \in 1 .. NAccepted(c) : accepted'[c][k].at <= now'
      BY <2>1, <3>2 DEF TimingInv
    <3>. QED  BY <3>2, <3>3, <3>4, <3>5
  <2>2. \A k \in 1 .. NStarted(d)' : k \in 1 .. NStarted(d) \/ k = n
    BY <1>2, <1>8
  <2>3. ASSUME NEW k \in 1 .. NStarted(d)'
        PROVE  starts'[d][k] = Later(accepted'[d][k].at,
                                     IF k = 1 THEN 0 ELSE Free(d, k - 1)')
    <3>1. CASE k = n
      <4>1. CASE NStarted(d) = 0
        <5>1. n = 1
          BY <4>1
        <5>. QED  BY <3>1, <4>1, <5>1, <1>8 DEF StartTime
      <4>2. CASE NStarted(d) # 0
        <5>1. k # 1 /\ k - 1 = NStarted(d) /\ NStarted(d) \in 1 .. NStarted(d)
          BY <3>1, <4>2, <1>2, Elements
        <5>2. Free(d, k - 1)' = Free(d, NStarted(d))
          BY <5>1, <1>14
        <5>3. starts'[d][k] = now
          BY <3>1, <1>8
        <5>4. k = NStarted(d) + 1
          BY <3>1
        <5>. QED  BY <4>2, <5>1, <5>2, <5>3, <5>4 DEF StartTime
      <4>. QED  BY <4>1, <4>2
    <3>2. CASE k \in 1 .. NStarted(d)
      <4>1. k # 1 => k - 1 \in 1 .. NStarted(d)
        BY <3>2, <1>2
      <4>2. k # 1 => Free(d, k - 1)' = Free(d, k - 1)
        BY <4>1, <1>14
      <4>3. starts'[d][k] = starts[d][k] /\ accepted'[d][k] = accepted[d][k]
        BY <3>2, <1>14
      <4>4. starts[d][k] = Later(accepted[d][k].at,
                                 IF k = 1 THEN 0 ELSE Free(d, k - 1))
        BY <3>2 DEF TimingInv
      <4>. QED  BY <4>2, <4>3, <4>4
    <3>. QED  BY <2>2, <3>1, <3>2
  <2>4. ASSUME NEW j \in 1 .. NStarted(d)', NEW k \in 1 .. NStarted(d)', j < k
        PROVE  Free(d, j)' <= starts'[d][k]
    <3>1. j \in 1 .. NStarted(d)
      BY <2>4, <1>2, <1>8
    <3>2. Free(d, j)' = Free(d, j)
      BY <3>1, <1>14
    <3>3. CASE k \in 1 .. NStarted(d)
      <4>1. starts'[d][k] = starts[d][k]
        BY <3>3, <1>14
      <4>2. Free(d, j) <= starts[d][k]
        BY <2>4, <3>1, <3>3 DEF TimingInv
      <4>. QED  BY <3>2, <4>1, <4>2
    <3>4. CASE k = n
      <4>1. starts'[d][k] = now
        BY <3>4, <1>8
      <4>2. Free(d, j) <= now
        <5>1. NStarted(d) \in 1 .. NStarted(d) /\ NStarted(d) # 0
          BY <3>1, <1>2
        <5>2. CASE j = NStarted(d)
          BY <5>1, <5>2 DEF StartTime
        <5>3. CASE j < NStarted(d)
          <6>1. Free(d, j) <= starts[d][NStarted(d)]
            BY <3>1, <5>1, <5>3 DEF TimingInv
          <6>2. starts[d][NStarted(d)] <= Free(d, NStarted(d))
            <7>1. NStarted(d) \in 1 .. NAccepted(d)
              BY <5>1, <1>14
            <7>2. /\ starts[d][NStarted(d)] \in Nat
                  /\ TxTime(d, FrameSize(d, NStarted(d))) \in Nat
              BY <5>1, <7>1, Types
            <7>. QED  BY <7>2 DEF Free, Finish
          <6>3. Free(d, j) \in Nat /\ Free(d, NStarted(d)) \in Nat
                /\ starts[d][NStarted(d)] \in Nat
            <7>1. j \in 1 .. NAccepted(d) /\ NStarted(d) \in 1 .. NAccepted(d)
              BY <3>1, <5>1, <1>14
            <7>2. /\ starts[d][NStarted(d)] \in Nat /\ starts[d][j] \in Nat
                  /\ TxTime(d, FrameSize(d, NStarted(d))) \in Nat
                  /\ TxTime(d, FrameSize(d, j)) \in Nat
              BY <3>1, <5>1, <7>1, Types
            <7>. QED  BY <7>2 DEF Free, Finish
          <6>. QED  BY <5>1, <6>1, <6>2, <6>3, <1>2 DEF StartTime
        <5>. QED  BY <3>1, <5>2, <5>3, <1>2
      <4>. QED  BY <3>2, <4>1, <4>2
    <3>. QED  BY <2>2, <3>3, <3>4
  <2>5. \A k \in 1 .. NAccepted(d)' : accepted'[d][k].at <= now'
    BY <1>1 DEF StartAccepted
  <2>. QED  BY <2>1, <2>3, <2>4, <2>5 DEF TimingInv
<1>19. ArrivalInv'
  <2>1. ASSUME NEW c \in Device
        PROVE  /\ NArrived(c)' = NArrived(c) /\ arrivals'[c] = arrivals[c]
               /\ NStarted(c) <= NStarted(c)'
               /\ NArrived(c) <= NStarted(c)
               /\ NArrived(c) \in Nat /\ NStarted(c) \in Nat /\ NStarted(c)' \in Nat
    <3>1. arrivals' = arrivals
      BY <1>1
    <3>2. NStarted(c) \in Nat /\ NArrived(c) \in Nat /\ NArrived(c) <= NStarted(c)
      BY <2>1, Types DEF ArrivalInv
    <3>3. NStarted(c)' = NStarted(c) \/ NStarted(c)' = NStarted(c) + 1
      BY <1>2, <1>8, <1>9, <2>1
    <3>. QED  BY <3>1, <3>2, <3>3 DEF NArrived
  <2>2. ASSUME NEW c \in Device, NEW k \in 1 .. NArrived(c)
        PROVE  /\ arrivals[c][k].n = k
               /\ arrivals[c][k].size = accepted'[c][k].size
               /\ arrivals[c][k].proto =
                    IF accepted'[c][k].proto = CompressedIPv4 THEN IPv4
                    ELSE accepted'[c][k].proto
               /\ arrivals[c][k].at = Finish(c, k)' + Delay
    <3>1. k \in 1 .. NStarted(c)
      BY <2>1, <2>2
    <3>2. accepted'[c][k] = accepted[c][k] /\ Finish(c, k)' = Finish(c, k)
      BY <2>2, <3>1, <1>14
    <3>. QED  BY <2>2, <3>2 DEF ArrivalInv
  <2>3. ASSUME NEW c \in Device
        PROVE  NArrived(c)' <= NStarted(c)'
    BY <2>1, <2>3
  <2>. QED  BY <2>1, <2>2, <2>3 DEF ArrivalInv
<1>20. EventInv'
  <2>1. ASSUME NEW e \in events'
        PROVE  now' <= e.at /\ e.uid < nextUid'
    <3>1. CASE e \in pending
      <4>1. e \in events
        BY <3>1 DEF StartPending
      <4>2. e.uid \in Nat /\ e.at \in Nat
        BY <4>1, EventTypes
      <4>. QED  BY <4>1, <4>2, <1>1, <1>2 DEF EventInv
    <3>2. /\ now <= ce.at /\ ce.uid < nextUid + 2
          /\ now <= re.at /\ re.uid < nextUid + 2
      <4>. HIDE DEF ce, re, IInv
      <4>. QED  BY SMTT(40), <1>2, <1>6, <1>7, TimingAssumption
    <3>3. CASE e = ce \/ e = re
      <4>. HIDE DEF ce, re, IInv
      <4>. QED  BY <3>2, <3>3, <1>1
    <3>. QED  BY <2>1, <3>1, <3>3, <1>1
  <2>. QED  BY <2>1 DEF EventInv
<1>21. WireInv'
  <2>1. ASSUME NEW c \in Device, NEW e \in events', Carries(e, c), e # re
        PROVE  e \in events
    BY <2>1, <1>1, <1>7 DEF Carries, StartPending
  <2>2. ASSUME NEW c \in Device, NEW e \in events, Carries(e, c)
        PROVE  e \in events'
    BY <2>2, <1>1 DEF Carries, Completes, StartPending
  <2>3. Carries(re, d) /\ re \in events' /\ re.pkt.n = n
    BY <1>1, <1>5, <1>7 DEF Carries
  <2>4. ASSUME NEW c \in Device, Carries(re, c)
        PROVE  c = d
    BY <2>4, <1>5, <1>7 DEF Carries
  <2>5. ASSUME NEW c \in Device
        PROVE  NStarted(c) \in Nat /\ NArrived(c) \in Nat /\ NArrived(c) <= NStarted(c)
    BY <2>5, Types DEF ArrivalInv
  <2>6. arrivals' = arrivals /\ \A c \in Device : NArrived(c)' = NArrived(c)
    BY <1>1 DEF NArrived
  <2>7. ASSUME NEW c \in Device, NEW e \in events', Carries(e, c)
        PROVE  /\ e.pkt.n \in NArrived(c) + 1 .. NStarted(c)'
               /\ e.pkt = Frame(c, e.pkt.n)'
               /\ e.at = Finish(c, e.pkt.n)' + Delay
               /\ e.dev # c
    <3>1. CASE e = re
      <4>1. c = d
        BY <2>4, <2>7, <3>1
      <4>2. n \in NArrived(d) + 1 .. NStarted(d)'
        BY SMTT(40), <1>2, <1>8, <2>5
      <4>. QED  BY <3>1, <4>1, <4>2, <1>4, <1>7, <1>15, <2>3
    <3>2. CASE e # re
      <4>1. e \in events
        BY <2>1, <2>7, <3>2
      <4>2. /\ e.pkt.n \in NArrived(c) + 1 .. NStarted(c)
            /\ e.pkt = Frame(c, e.pkt.n)
            /\ e.at = Finish(c, e.pkt.n) + Delay
            /\ e.dev # c
        BY <2>7, <4>1 DEF WireInv
      <4>3. e.pkt.n \in 1 .. NStarted(c)
        BY <2>5, <2>7, <4>2
      <4>4. /\ Frame(c, e.pkt.n)' = Frame(c, e.pkt.n)
            /\ Finish(c, e.pkt.n)' = Finish(c, e.pkt.n)
        BY <2>7, <4>3, <1>14
      <4>5. NStarted(c)' = NStarted(c) \/ NStarted(c)' = NStarted(c) + 1
        BY <1>2, <1>8, <1>9, <2>7
      <4>6. e.pkt.n \in NArrived(c) + 1 .. NStarted(c)'
        BY <2>5, <2>7, <4>2, <4>5
      <4>. QED  BY <4>2, <4>4, <4>6
    <3>. QED  BY <3>1, <3>2
  <2>8. ASSUME NEW c \in Device, NEW e \in events', NEW f \in events',
               Carries(e, c), Carries(f, c)
        PROVE  /\ e.pkt.n = f.pkt.n => e = f
               /\ e.pkt.n < f.pkt.n => e.uid < f.uid
    <3>1. ASSUME NEW g \in events', Carries(g, c), g # re
          PROVE  g \in events /\ g.pkt.n \in Nat /\ g.pkt.n <= NStarted(c) /\ g.uid < nextUid
                 /\ g.uid \in Nat
      <4>1. g \in events
        BY <2>1, <2>8, <3>1
      <4>2. g.pkt.n \in NArrived(c) + 1 .. NStarted(c)
        BY <2>8, <3>1, <4>1 DEF WireInv
      <4>3. g.uid < nextUid /\ g.uid \in Nat
        BY <4>1, EventTypes DEF EventInv
      <4>. QED  BY <4>1, <4>2, <4>3, <2>5, <2>8
    <3>2. CASE e # re /\ f # re
      BY <2>8, <3>1, <3>2 DEF WireInv
    <3>3. CASE e = re /\ f = re
      BY <3>3, <2>3, <1>2
    <3>4. CASE e # re /\ f = re
      <4>1. c = d
        BY <2>4, <2>8, <3>4
      <4>. QED  BY <2>8, <3>1, <3>4, <4>1, <2>3, <2>5, <1>2, <1>7
    <3>5. CASE e = re /\ f # re
      <4>1. c = d
        BY <2>4, <2>8, <3>5
      <4>. QED  BY <2>8, <3>1, <3>5, <4>1, <2>3, <2>5, <1>2, <1>7
    <3>. QED  BY <3>2, <3>3, <3>4, <3>5
  <2>9. ASSUME NEW c \in Device, NEW k \in NArrived(c) + 1 .. NStarted(c)'
        PROVE  \E e \in events' : Carries(e, c) /\ e.pkt.n = k
    <3>1. CASE k \in NArrived(c) + 1 .. NStarted(c)
      <4>1. PICK e \in events : Carries(e, c) /\ e.pkt.n = k
        BY <2>9, <3>1 DEF WireInv
      <4>. QED  BY <4>1, <2>2, <2>9
    <3>2. CASE k \notin NArrived(c) + 1 .. NStarted(c)
      <4>1. c = d /\ k = n
        BY SMTT(40), <2>9, <3>2, <2>5, <1>2, <1>8, <1>9
      <4>. QED  BY <4>1, <2>3
    <3>. QED  BY <3>1, <3>2
  <2>. QED  BY <2>6, <2>7, <2>8, <2>9 DEF WireInv
<1>. QED  BY <1>11, <1>12, <1>13, <1>16, <1>17, <1>18, <1>19, <1>20, <1>21
-----------------------------------------------------------------------------
(* The steps that do not touch a packet. *)

(* Most of IInv depends neither on abort nor on the counters.              *)
LEMMA Untouched ==
  ASSUME IInv, UNCHANGED devVars, UNCHANGED chanVars, UNCHANGED simVars,
         UNCHANGED <<accepted, starts, arrivals>>
  PROVE  /\ LinkInv' /\ MachineInv' /\ QueueInv' /\ TimingInv' /\ WireInv'
         /\ ArrivalInv' /\ EventInv'
<1>. USE DEF IInv
<1>1. /\ m_linkUp' = m_linkUp /\ hasQueue' = hasQueue /\ m_queue' = m_queue
      /\ m_txMachineState' = m_txMachineState /\ m_currentPkt' = m_currentPkt
      /\ m_nDevices' = m_nDevices /\ m_link' = m_link
      /\ events' = events /\ now' = now /\ nextUid' = nextUid
      /\ accepted' = accepted /\ starts' = starts /\ arrivals' = arrivals
  BY DEF devVars, chanVars, simVars
<1>2. LinkInv'
  BY <1>1 DEF LinkInv, NAccepted
<1>3. MachineInv'
  BY <1>1 DEF MachineInv, Idle, NQueued, NStarted, Free, Finish, FrameSize
<1>4. QueueInv'
  BY <1>1 DEF QueueInv, NQueued, NStarted, NAccepted, Frame
<1>5. TimingInv'
  BY ZenonT(60), <1>1 DEF TimingInv, NAccepted, NStarted, Free, Finish, FrameSize
<1>6. WireInv'
  BY <1>1 DEF WireInv, NArrived, NStarted, Frame, Finish, FrameSize
<1>7. ArrivalInv'
  BY <1>1 DEF ArrivalInv, NArrived, NStarted, Finish, FrameSize
<1>8. EventInv'
  BY <1>1 DEF EventInv
<1>. QED  BY <1>2, <1>3, <1>4, <1>5, <1>6, <1>7, <1>8

(* An assertion that fails leaves everything as it was.  It is one of      *)
(* those InternalAssertionsHold allows. *)
LEMMA AbortStep ==
  ASSUME IInv, NEW fault \in Fault, Abort(fault),
         fault \notin {NotReady, NotBusy, NoCurrent, NoRemote},
         fault = Initializing => m_nDevices < 2
  PROVE  IInv'
<1>. USE DEF IInv
<1>1. /\ abort' = fault
      /\ UNCHANGED devVars /\ UNCHANGED chanVars
      /\ UNCHANGED simVars /\ UNCHANGED histVars
  BY DEF Abort
<1>2. TypeOK'
  BY <1>1 DEF TypeOK, devVars, chanVars, simVars, histVars
<1>3. InternalAssertionsHold'
  BY <1>1 DEF InternalAssertionsHold, chanVars
<1>4. /\ LinkInv' /\ MachineInv' /\ QueueInv' /\ TimingInv' /\ WireInv'
      /\ ArrivalInv' /\ EventInv'
  BY <1>1, Untouched DEF histVars
<1>. QED  BY <1>2, <1>3, <1>4

(* A packet that is refused is only counted. *)
LEMMA DropStep ==
  ASSUME IInv, NEW d \in Device, Drop(d)
  PROVE  IInv'
<1>. USE DEF IInv
<1>1. /\ dropped' = [dropped EXCEPT ![d] = @ + 1]
      /\ UNCHANGED devVars /\ UNCHANGED chanVars /\ UNCHANGED simVars
      /\ UNCHANGED <<accepted, starts, arrivals>>
      /\ abort' = abort /\ m_macRxTrace' = m_macRxTrace
  BY DEF Drop
<1>2. TypeOK'
  BY <1>1 DEF TypeOK, devVars, chanVars, simVars
<1>3. InternalAssertionsHold'
  BY <1>1 DEF InternalAssertionsHold, chanVars
<1>. QED  BY <1>1, <1>2, <1>3, Untouched

(* Doing nothing. *)
LEMMA StutterStep ==
  ASSUME IInv, UNCHANGED vars
  PROVE  IInv'
<1>. USE DEF IInv
<1>1. /\ UNCHANGED devVars /\ UNCHANGED chanVars /\ UNCHANGED simVars
      /\ UNCHANGED histVars /\ abort' = abort
  BY DEF vars
<1>2. TypeOK'
  BY <1>1 DEF TypeOK, devVars, chanVars, simVars, histVars
<1>3. InternalAssertionsHold'
  BY <1>1 DEF InternalAssertionsHold, chanVars
<1>. QED  BY <1>1, <1>2, <1>3, Untouched DEF histVars

(* A queue is given to a device that had none: it has sent nothing.        *)
LEMMA SetQueueStep ==
  ASSUME IInv, NEW d \in Device, SetQueue(d)
  PROVE  IInv'
<1>. USE DEF IInv
<1>1. /\ hasQueue' = [hasQueue EXCEPT ![d] = TRUE]
      /\ m_linkUp' = m_linkUp /\ m_queue' = m_queue
      /\ m_txMachineState' = m_txMachineState /\ m_currentPkt' = m_currentPkt
      /\ m_nDevices' = m_nDevices /\ m_link' = m_link
      /\ events' = events /\ now' = now /\ nextUid' = nextUid /\ abort' = abort
      /\ accepted' = accepted /\ starts' = starts /\ arrivals' = arrivals
      /\ dropped' = dropped /\ m_macRxTrace' = m_macRxTrace
  BY DEF SetQueue, chanVars, simVars, histVars
<1>2. TypeOK'
  BY <1>1 DEF TypeOK
<1>3. InternalAssertionsHold'
  BY <1>1 DEF InternalAssertionsHold
<1>4. LinkInv'
  BY <1>1 DEF LinkInv, NAccepted
<1>5. MachineInv'
  <2>1. \A c \in Device : hasQueue[c] => hasQueue'[c]
    BY <1>1 DEF TypeOK
  <2>. QED  BY <1>1, <2>1 DEF MachineInv, Idle, NQueued, NStarted, Free, Finish, FrameSize
<1>6. QueueInv'
  BY <1>1 DEF QueueInv, NQueued, NStarted, NAccepted, Frame
<1>7. TimingInv'
  BY <1>1 DEF TimingInv, NAccepted, NStarted, Free, Finish, FrameSize
<1>8. WireInv'
  BY <1>1 DEF WireInv, NArrived, NStarted, Frame, Finish, FrameSize
<1>9. ArrivalInv'
  BY <1>1 DEF ArrivalInv, NArrived, NStarted, Finish, FrameSize
<1>10. EventInv'
  BY <1>1 DEF EventInv
<1>. QED  BY <1>2, <1>3, <1>4, <1>5, <1>6, <1>7, <1>8, <1>9, <1>10

(* Attaching touches the link only, which has carried nothing so far.      *)
LEMMA AttachStep ==
  ASSUME IInv, NEW d \in Device, Attach(d)
  PROVE  IInv'
<1>. USE DEF IInv
<1>1. CASE m_nDevices = 2 /\ Abort(TooMany)
  BY <1>1, AbortStep DEF Fault, TooMany, NotReady, NotBusy, NoCurrent, NoRemote,
                         Initializing
<1>2. CASE /\ m_nDevices < 2
           /\ ChannelAttach(d)
           /\ m_linkUp' = [m_linkUp EXCEPT ![d] = TRUE]
           /\ UNCHANGED <<hasQueue, m_queue, m_txMachineState, m_currentPkt,
                          simVars, abort, histVars>>
  <2>1. /\ hasQueue' = hasQueue /\ m_queue' = m_queue
        /\ m_txMachineState' = m_txMachineState /\ m_currentPkt' = m_currentPkt
        /\ events' = events /\ now' = now /\ nextUid' = nextUid /\ abort' = abort
        /\ accepted' = accepted /\ starts' = starts /\ arrivals' = arrivals
        /\ dropped' = dropped /\ m_macRxTrace' = m_macRxTrace
        /\ m_nDevices' = m_nDevices + 1
        /\ m_linkUp' = [m_linkUp EXCEPT ![d] = TRUE]
        /\ m_nDevices = 0 \/ m_nDevices = 1
    BY <1>2 DEF simVars, histVars, ChannelAttach, TypeOK
  <2>2. ~m_linkUp[d]
    BY DEF Attach
  <2>3. m_link' \in [{0, 1} -> Link]
    <3>1. m_link \in [{0, 1} -> Link]
      BY DEF TypeOK
    <3>2. CASE m_nDevices = 0
      <4>1. m_link' = [m_link EXCEPT ![0].m_src = d]
        BY <1>2, <3>2 DEF ChannelAttach
      <4>2. [m_link[0] EXCEPT !.m_src = d] \in Link
        BY <3>1 DEF Link
      <4>3. m_link' = [m_link EXCEPT ![0] = [m_link[0] EXCEPT !.m_src = d]]
        BY <4>1
      <4>. QED  BY <3>1, <4>2, <4>3
    <3>3. CASE m_nDevices # 0
      <4>1. m_link[0].m_src \in Device \cup {NoDevice}
        BY <3>1 DEF Link
      <4>. QED  BY <1>2, <3>3, <4>1 DEF ChannelAttach, Link
    <3>. QED  BY <3>2, <3>3
  <2>4. TypeOK'
    BY <2>1, <2>3 DEF TypeOK
  <2>5. InternalAssertionsHold'
    BY <2>1, <1>2 DEF InternalAssertionsHold, Running, Attach, NoFault, NotReady,
          NotBusy, NoCurrent, NoRemote, Initializing
  <2>6. \A c \in Device : m_linkUp'[c] <=> (m_linkUp[c] \/ c = d)
    BY <2>1 DEF TypeOK
  <2>7. LinkInv'
    <3>1. CASE m_nDevices = 0
      <4>1. m_link'[0].m_src = d /\ m_link'[0].m_state = m_link[0].m_state
        BY <1>2, <3>1 DEF ChannelAttach, TypeOK, Link
      <4>. QED  BY <2>1, <2>6, <3>1, <4>1 DEF LinkInv, NAccepted
    <3>2. CASE m_nDevices = 1
      <4>1. /\ m_link'[0].m_src = m_link[0].m_src /\ m_link'[1].m_src = d
            /\ m_link'[0].m_dst = d /\ m_link'[1].m_dst = m_link[0].m_src
            /\ m_link'[0].m_state = "IDLE" /\ m_link'[1].m_state = "IDLE"
        BY <1>2, <3>2 DEF ChannelAttach
      <4>. QED  BY <2>1, <2>2, <2>6, <3>2, <4>1 DEF LinkInv
    <3>. QED  BY <2>1, <3>1, <3>2
  <2>8. MachineInv'
    BY <2>1, <2>6 DEF MachineInv, Idle, NQueued, NStarted, Free, Finish, FrameSize
  <2>9. QueueInv'
    BY <2>1 DEF QueueInv, NQueued, NStarted, NAccepted, Frame
  <2>10. TimingInv'
    BY <2>1 DEF TimingInv, NAccepted, NStarted, Free, Finish, FrameSize
  <2>11. WireInv'
    BY <2>1 DEF WireInv, NArrived, NStarted, Frame, Finish, FrameSize
  <2>12. ArrivalInv'
    BY <2>1 DEF ArrivalInv, NArrived, NStarted, Finish, FrameSize
  <2>13. EventInv'
    BY <2>1 DEF EventInv
  <2>. QED  BY <2>4, <2>5, <2>7, <2>8, <2>9, <2>10, <2>11, <2>12, <2>13
<1>. QED  BY <1>1, <1>2 DEF Attach

(* Time moves on only when no event is due: no event falls into the past.  *)
LEMMA TickStep ==
  ASSUME IInv, Tick
  PROVE  IInv'
<1>. USE DEF IInv
<1>1. /\ m_linkUp' = m_linkUp /\ hasQueue' = hasQueue /\ m_queue' = m_queue
      /\ m_txMachineState' = m_txMachineState /\ m_currentPkt' = m_currentPkt
      /\ m_nDevices' = m_nDevices /\ m_link' = m_link
      /\ events' = events /\ now' = now + 1 /\ nextUid' = nextUid /\ abort' = abort
      /\ accepted' = accepted /\ starts' = starts /\ arrivals' = arrivals
      /\ dropped' = dropped /\ m_macRxTrace' = m_macRxTrace
      /\ now \in Nat
  BY DEF Tick, devVars, chanVars, histVars, TypeOK
<1>2. TypeOK'
  BY <1>1 DEF TypeOK
<1>3. InternalAssertionsHold'
  BY <1>1 DEF InternalAssertionsHold
<1>4. LinkInv'
  BY <1>1 DEF LinkInv, NAccepted
<1>5. MachineInv'
  <2>1. ASSUME NEW d \in Device, Idle(d), NStarted(d) # 0
        PROVE  Free(d, NStarted(d)) <= now'
    <3>1. NStarted(d) \in 1 .. NStarted(d) /\ NStarted(d) \in 1 .. NAccepted(d)
      BY <2>1, Types, StartedAccepted
    <3>2. Free(d, NStarted(d)) \in Nat
      BY <2>1, <3>1, FreeType
    <3>3. Free(d, NStarted(d)) <= now
      BY <2>1 DEF MachineInv
    <3>. QED  BY <1>1, <3>2, <3>3
  <2>2. \A d \in Device : /\ Idle(d)' = Idle(d) /\ NQueued(d)' = NQueued(d)
                          /\ NStarted(d)' = NStarted(d)
                          /\ \A k : Free(d, k)' = Free(d, k)
    BY <1>1 DEF Idle, NQueued, NStarted, Free, Finish, FrameSize
  <2>. QED  BY <1>1, <2>1, <2>2 DEF MachineInv
<1>6. QueueInv'
  BY <1>1 DEF QueueInv, NQueued, NStarted, NAccepted, Frame
<1>7. TimingInv'
  <2>1. ASSUME NEW d \in Device, NEW k \in 1 .. NAccepted(d)
        PROVE  accepted[d][k].at <= now'
    <3>1. accepted[d][k].at \in Nat /\ accepted[d][k].at <= now
      BY <2>1, Types DEF TimingInv
    <3>. QED  BY <1>1, <3>1
  <2>2. \A d \in Device : /\ NAccepted(d)' = NAccepted(d)
                          /\ NStarted(d)' = NStarted(d)
                          /\ \A k : Free(d, k)' = Free(d, k)
    BY <1>1 DEF NAccepted, NStarted, Free, Finish, FrameSize
  <2>. QED  BY <1>1, <2>1, <2>2 DEF TimingInv
<1>8. WireInv'
  BY <1>1 DEF WireInv, NArrived, NStarted, Frame, Finish, FrameSize
<1>9. ArrivalInv'
  BY <1>1 DEF ArrivalInv, NArrived, NStarted, Finish, FrameSize
<1>10. EventInv'
  <2>1. ASSUME NEW e \in events
        PROVE  now' <= e.at /\ e.uid < nextUid'
    <3>1. now < e.at /\ e.at \in Nat /\ e.uid < nextUid
      BY <2>1, EventTypes DEF Tick, EventInv
    <3>. QED  BY <1>1, <3>1
  <2>. QED  BY <1>1, <2>1 DEF EventInv
<1>. QED  BY <1>2, <1>3, <1>4, <1>5, <1>6, <1>7, <1>8, <1>9, <1>10
-----------------------------------------------------------------------------
(* The steps that move a packet. *)

(* A device that is not idle is attached to a complete link. *)
LEMMA BusyMeansLinked ==
  ASSUME IInv, NEW d \in Device, ~Idle(d)
  PROVE  m_nDevices = 2 /\ m_linkUp[d] /\ hasQueue[d]
BY DEF IInv, MachineInv, LinkInv

(* The frame AddHeader builds is that of the next request, and adding the  *)
(* request to accepted disturbs no other. *)
LEMMA AcceptOne ==
  ASSUME IInv, NEW d \in Device, NEW size \in Size, NEW proto \in KnownEtherType,
         Accept(d, size, proto)
  PROVE  /\ StartAccepted(d)
         /\ NAccepted(d)' = NAccepted(d) + 1
         /\ accepted'[d][NAccepted(d) + 1] = [size |-> size, proto |-> proto, at |-> now]
         /\ Framed(d, size, proto) =
              FrameOf(d, NAccepted(d) + 1, accepted'[d][NAccepted(d) + 1])
         /\ Framed(d, size, proto) \in Packet
<1>. USE DEF IInv
<1>. DEFINE r == [size |-> size, proto |-> proto, at |-> now]
<1>1. r \in Request /\ r.at = now /\ r.size = size /\ r.proto = proto
  BY DEF Request, TypeOK
<1>2. accepted' = [accepted EXCEPT ![d] = Append(@, r)]
  BY DEF Accept
<1>. HIDE DEF r
<1>3. accepted[d] \in Seq(Request) /\ NAccepted(d) \in Nat
  BY Types
<1>4. accepted'[d] = Append(accepted[d], r)
  BY <1>2 DEF TypeOK
<1>5. /\ accepted'[d] \in Seq(Request)
      /\ NAccepted(d)' = NAccepted(d) + 1
      /\ accepted'[d][NAccepted(d) + 1] = r
      /\ \A k \in 1 .. NAccepted(d) : accepted'[d][k] = accepted[d][k]
  <2>1. /\ accepted'[d] \in Seq(Request)
        /\ Len(accepted'[d]) = Len(accepted[d]) + 1
        /\ accepted'[d][Len(accepted[d]) + 1] = r
        /\ \A k \in 1 .. Len(accepted[d]) : accepted'[d][k] = accepted[d][k]
    BY <1>1, <1>3, <1>4, AppendProperties
  <2>. QED  BY <2>1 DEF NAccepted
<1>6. StartAccepted(d)
  <2>1. accepted' \in [Device -> Seq(Request)]
    BY <1>2, <1>4, <1>5 DEF TypeOK
  <2>2. \A c \in Device : c # d => accepted'[c] = accepted[c]
    BY <1>2 DEF TypeOK
  <2>3. \A k \in 1 .. NAccepted(d) : k \in 1 .. NAccepted(d)'
    BY <1>3, <1>5
  <2>4. ASSUME NEW k \in 1 .. NAccepted(d)'
        PROVE  accepted'[d][k].at <= now
    <3>1. k \in 1 .. NAccepted(d) \/ k = NAccepted(d) + 1
      BY <2>4, <1>3, <1>5
    <3>2. CASE k \in 1 .. NAccepted(d)
      BY <3>2, <1>5 DEF TimingInv
    <3>3. CASE k = NAccepted(d) + 1
      <4>1. now <= now
        BY DEF TypeOK
      <4>. QED  BY <4>1, <3>3, <1>1, <1>5
    <3>. QED  BY <3>1, <3>2, <3>3
  <2>. QED  BY <2>1, <2>2, <2>3, <2>4, <1>5 DEF StartAccepted
<1>7. Framed(d, size, proto) = FrameOf(d, NAccepted(d) + 1, r)
  BY <1>1 DEF Framed, FrameOf
<1>8. FrameOf(d, NAccepted(d) + 1, r) \in Packet
  <2>1. NAccepted(d) + 1 \in Nat \ {0}
    BY <1>3
  <2>. QED  BY <1>1, <2>1, FrameOfType
<1>. QED  BY <1>5, <1>6, <1>7, <1>8 DEF r

(* Send on an idle device: the queue is empty, so what is dequeued is the  *)
(* packet itself. *)
LEMMA SendNowStep ==
  ASSUME IInv, NEW d \in Device, NEW size \in Size, NEW proto \in KnownEtherType,
         m_linkUp[d], hasQueue[d], Idle(d), SendNow(d, size, proto)
  PROVE  IInv'
<1>. USE DEF IInv
<1>. DEFINE q == Append(m_queue[d], Framed(d, size, proto))
            fault == TransmitFault(m_txMachineState[d])
<1>1. CASE fault # NoFault
  <2>1. Abort(fault)
    BY <1>1 DEF SendNow
  <2>2. fault = Initializing
    BY <1>1 DEF TransmitFault, Idle
  <2>3. m_nDevices # 2
    BY <2>2 DEF LinkInv, TransmitFault, Idle, Initializing, NotReady, NoFault
  <2>4. m_nDevices < 2
    BY <2>3 DEF TypeOK
  <2>. HIDE DEF fault
  <2>. QED  BY <2>1, <2>2, <2>4, AbortStep DEF Fault, Initializing, NotReady, NotBusy,
                                          NoCurrent, NoRemote
<1>2. CASE fault = NoFault
  <2>1. TransmitStart(d, q, events) /\ Accept(d, size, proto)
    BY <1>2 DEF SendNow
  <2>2. m_nDevices = 2
    BY <1>2 DEF LinkInv, TransmitFault, Idle, Initializing, NotReady, NoFault
  <2>3. /\ StartAccepted(d) /\ NAccepted(d)' = NAccepted(d) + 1
        /\ accepted'[d][NAccepted(d) + 1] = [size |-> size, proto |-> proto, at |-> now]
        /\ Framed(d, size, proto) =
             FrameOf(d, NAccepted(d) + 1, accepted'[d][NAccepted(d) + 1])
        /\ Framed(d, size, proto) \in Packet
    BY <2>1, AcceptOne
  <2>4. /\ NQueued(d) = 0 /\ m_queue[d] = <<>> /\ NStarted(d) = NAccepted(d)
        /\ NStarted(d) \in Nat
    <3>1. NQueued(d) = 0 /\ NStarted(d) + NQueued(d) = NAccepted(d)
      BY DEF MachineInv, QueueInv
    <3>. QED  BY <3>1, Types
  <2>5. /\ q \in Seq(Packet) /\ q # <<>> /\ Len(q) = 1
        /\ q[1] = Framed(d, size, proto)
    <3>1. m_queue[d] \in Seq(Packet) /\ Len(m_queue[d]) = 0
      BY <2>4, Types
    <3>2. /\ Append(m_queue[d], Framed(d, size, proto)) \in Seq(Packet)
          /\ Append(m_queue[d], Framed(d, size, proto)) # <<>>
          /\ Len(Append(m_queue[d], Framed(d, size, proto))) = Len(m_queue[d]) + 1
          /\ Append(m_queue[d], Framed(d, size, proto))[Len(m_queue[d]) + 1]
               = Framed(d, size, proto)
      BY <2>3, <3>1, AppendProperties
    <3>. QED  BY <3>1, <3>2
  <2>. HIDE DEF q
  <2>6. StartPending(d, events)
    <3>1. \A e \in events : ~Completes(e, d)
      BY DEF MachineInv
    <3>. QED  BY <3>1 DEF StartPending
  <2>7. StartQueue(d, q)
    <3>1. NStarted(d) + Len(q) = NAccepted(d)'
      BY <2>3, <2>4, <2>5
    <3>2. Len(q) - 1 <= QueueLimit
      BY <2>5
    <3>3. \A i \in 1 .. Len(q) : i = 1
      BY <2>5
    <3>. QED  BY <2>3, <2>4, <2>5, <3>1, <3>2, <3>3 DEF StartQueue
  <2>8. StartTime(d)
    <3>1. now \in Nat /\ accepted'[d][NStarted(d) + 1].at = now
      BY <2>3, <2>4 DEF TypeOK
    <3>2. NStarted(d) # 0 => Free(d, NStarted(d)) <= now /\ Free(d, NStarted(d)) \in Nat
      <4>1. NStarted(d) # 0 => NStarted(d) \in 1 .. NStarted(d)
        BY <2>4
      <4>. QED  BY <4>1, FreeType DEF MachineInv
    <3>. QED  BY <3>1, <3>2 DEF StartTime, Later
  <2>9. UNCHANGED <<dropped, arrivals, m_macRxTrace>>
    BY <2>1 DEF Accept
  <2>. QED  BY <2>1, <2>2, <2>3, <2>6, <2>7, <2>8, <2>9, StartStep
<1>. QED  BY <1>1, <1>2

(* TransmitComplete with a packet waiting: the event that is run is the    *)
(* only completion of the device, and now is when the line became free.    *)
LEMMA CompleteNextStep ==
  ASSUME IInv, NEW e \in events, IsNext(e), e.kind = "TransmitComplete",
         ~NothingQueued(e.dev),
         TransmitStart(e.dev, m_queue[e.dev], events \ {e}),
         UNCHANGED <<accepted, dropped, arrivals, m_macRxTrace>>
  PROVE  IInv'
<1>. USE DEF IInv
<1>. DEFINE d == e.dev
            q == m_queue[d]
<1>1. d \in Device /\ e.at = now /\ now \in Nat
  BY EventTypes DEF IsNext, TypeOK
<1>. HIDE DEF d
<1>2. /\ Completes(e, d) /\ ~Idle(d) /\ NStarted(d) # 0
      /\ now = Free(d, NStarted(d))
      /\ \A f \in events : Completes(f, d) => f = e
  <2>1. Completes(e, d)
    BY DEF Completes, d
  <2>. QED  BY <1>1, <2>1 DEF MachineInv
<1>3. m_nDevices = 2 /\ m_linkUp[d] /\ hasQueue[d]
  BY <1>1, <1>2, BusyMeansLinked
<1>4. /\ q \in Seq(Packet) /\ q # <<>> /\ Len(q) = NQueued(d) /\ NQueued(d) \in Nat
      /\ NStarted(d) \in Nat /\ NAccepted(d) \in Nat
      /\ NStarted(d) + NQueued(d) = NAccepted(d) /\ NQueued(d) <= QueueLimit
      /\ NQueued(d) # 0
  BY <1>1, Types DEF NothingQueued, d, NQueued, QueueInv
<1>5. accepted' = accepted /\ NAccepted(d)' = NAccepted(d)
  BY DEF NAccepted
<1>6. StartPending(d, events \ {e})
  BY <1>2 DEF StartPending
<1>7. StartAccepted(d)
  BY <1>1, <1>5 DEF StartAccepted, TypeOK, TimingInv
<1>8. StartQueue(d, q)
  <2>1. Len(q) - 1 <= QueueLimit
    BY <1>4
  <2>2. \A i \in 1 .. Len(q) : q[i] = Frame(d, NStarted(d) + i)
    BY <1>1, <1>4 DEF QueueInv
  <2>. QED  BY <1>4, <1>5, <2>1, <2>2 DEF StartQueue, Frame
<1>9. StartTime(d)
  <2>1. NStarted(d) + 1 \in 1 .. NAccepted(d)
    BY <1>4
  <2>2. /\ accepted[d][NStarted(d) + 1].at \in Nat
        /\ accepted[d][NStarted(d) + 1].at <= now
    BY <1>1, <2>1, Types DEF TimingInv
  <2>. QED  BY <1>1, <1>2, <1>5, <2>2 DEF StartTime, Later
<1>10. TransmitStart(d, q, events \ {e})
  BY DEF d
<1>. HIDE DEF q
<1>. QED  BY <1>1, <1>3, <1>6, <1>7, <1>8, <1>9, <1>10, StartStep

(* Send on a busy device: the packet joins the end of the queue.           *)
LEMMA SendLaterStep ==
  ASSUME IInv, NEW d \in Device, NEW size \in Size, NEW proto \in KnownEtherType,
         ~Idle(d), ~QueueFull(d), SendLater(d, size, proto)
  PROVE  IInv'
<1>. USE DEF IInv
<1>1. /\ m_queue' = [m_queue EXCEPT ![d] = Append(@, Framed(d, size, proto))]
      /\ m_linkUp' = m_linkUp /\ hasQueue' = hasQueue
      /\ m_txMachineState' = m_txMachineState /\ m_currentPkt' = m_currentPkt
      /\ m_nDevices' = m_nDevices /\ m_link' = m_link
      /\ events' = events /\ now' = now /\ nextUid' = nextUid /\ abort' = abort
      /\ starts' = starts /\ dropped' = dropped /\ arrivals' = arrivals
      /\ m_macRxTrace' = m_macRxTrace
      /\ Accept(d, size, proto)
  BY DEF SendLater, Accept, chanVars, simVars
<1>2. /\ StartAccepted(d) /\ NAccepted(d)' = NAccepted(d) + 1
      /\ Framed(d, size, proto) =
           FrameOf(d, NAccepted(d) + 1, accepted'[d][NAccepted(d) + 1])
      /\ Framed(d, size, proto) \in Packet
  BY <1>1, AcceptOne
<1>3. /\ NStarted(d) + NQueued(d) = NAccepted(d)
      /\ NStarted(d) \in Nat /\ NQueued(d) \in Nat /\ NAccepted(d) \in Nat
      /\ m_queue[d] \in Seq(Packet)
  BY Types DEF QueueInv
<1>4. /\ m_queue'[d] \in Seq(Packet) /\ NQueued(d)' = NQueued(d) + 1
      /\ m_queue'[d][NQueued(d) + 1] = Framed(d, size, proto)
      /\ \A i \in 1 .. NQueued(d) : m_queue'[d][i] = m_queue[d][i]
  <2>1. m_queue'[d] = Append(m_queue[d], Framed(d, size, proto))
    BY <1>1 DEF TypeOK
  <2>2. /\ m_queue'[d] \in Seq(Packet)
        /\ Len(m_queue'[d]) = Len(m_queue[d]) + 1
        /\ m_queue'[d][Len(m_queue[d]) + 1] = Framed(d, size, proto)
        /\ \A i \in 1 .. Len(m_queue[d]) : m_queue'[d][i] = m_queue[d][i]
    BY <1>2, <1>3, <2>1, AppendProperties
  <2>. QED  BY <2>2 DEF NQueued
<1>5. \A c \in Device : c # d => /\ m_queue'[c] = m_queue[c]
                                 /\ accepted'[c] = accepted[c]
                                 /\ NQueued(c)' = NQueued(c)
                                 /\ NAccepted(c)' = NAccepted(c)
  <2>1. \A c \in Device : c # d => m_queue'[c] = m_queue[c]
    BY <1>1 DEF TypeOK
  <2>2. \A c \in Device : c # d => accepted'[c] = accepted[c]
    BY <1>2 DEF StartAccepted
  <2>. QED  BY <2>1, <2>2 DEF NQueued, NAccepted
<1>6. \A c \in Device : /\ Idle(c)' = Idle(c) /\ NStarted(c)' = NStarted(c)
                        /\ NArrived(c)' = NArrived(c)
  BY <1>1 DEF Idle, NStarted, NArrived
(* The requests there were before are still there. *)
<1>7. ASSUME NEW c \in Device, NEW k \in 1 .. NAccepted(c)
      PROVE  /\ accepted'[c][k] = accepted[c][k]
             /\ Frame(c, k)' = Frame(c, k)
             /\ Finish(c, k)' = Finish(c, k) /\ Free(c, k)' = Free(c, k)
  <2>1. accepted'[c][k] = accepted[c][k]
    BY <1>2, <1>5, <1>7 DEF StartAccepted
  <2>. QED  BY <1>1, <2>1 DEF Frame, Finish, Free, FrameSize, TxTime
<1>8. TypeOK'
  <2>1. m_queue' \in [Device -> Seq(Packet)]
    BY <1>1, <1>4 DEF TypeOK
  <2>2. accepted' \in [Device -> Seq(Request)]
    BY <1>2 DEF StartAccepted
  <2>. QED  BY <1>1, <2>1, <2>2 DEF TypeOK
<1>9. InternalAssertionsHold'
  BY <1>1 DEF InternalAssertionsHold
<1>10. LinkInv'
  <2>1. m_nDevices = 2
    BY BusyMeansLinked
  <2>. QED  BY <1>1, <2>1 DEF LinkInv
<1>11. MachineInv'
  <2>1. ASSUME NEW c \in Device, NStarted(c) # 0
        PROVE  Free(c, NStarted(c))' = Free(c, NStarted(c))
    <3>1. NStarted(c) \in 1 .. NStarted(c)
      BY <2>1, Types
    <3>2. NStarted(c) \in 1 .. NAccepted(c)
      BY <2>1, <3>1, StartedAccepted
    <3>. QED  BY <2>1, <3>2, <1>6, <1>7
  <2>2. \A c \in Device : Idle(c) => NQueued(c)' = NQueued(c)
    BY <1>5
  <2>. QED  BY <1>1, <1>6, <2>1, <2>2 DEF MachineInv
<1>12. QueueInv'
  <2>1. ASSUME NEW c \in Device, c # d
        PROVE  /\ NQueued(c)' <= QueueLimit
               /\ NStarted(c)' + NQueued(c)' = NAccepted(c)'
               /\ \A i \in 1 .. NQueued(c)' : m_queue'[c][i] = Frame(c, NStarted(c) + i)'
    <3>1. \A k : Frame(c, k)' = Frame(c, k)
      BY <1>5, <2>1 DEF Frame
    <3>2. \A i \in 1 .. NQueued(c) : m_queue[c][i] = Frame(c, NStarted(c) + i)
      BY <2>1 DEF QueueInv
    <3>3. \A i : Frame(c, NStarted(c) + i)' = Frame(c, NStarted(c) + i)
      BY <2>1, <3>1, <1>6
    <3>. QED  BY <1>5, <1>6, <2>1, <3>2, <3>3 DEF QueueInv
  <2>2. NQueued(d)' <= QueueLimit
    <3>1. Len(m_queue[d]) = NQueued(d) /\ ~(Len(m_queue[d]) >= QueueLimit)
      BY DEF QueueFull, NQueued
    <3>2. ~(NQueued(d) >= QueueLimit)
      BY <3>1
    <3>. QED  BY <1>3, <1>4, <3>2
  <2>3. NStarted(d)' + NQueued(d)' = NAccepted(d)'
    BY <1>2, <1>3, <1>4, <1>6
  <2>4. ASSUME NEW i \in 1 .. NQueued(d)'
        PROVE  m_queue'[d][i] = Frame(d, NStarted(d) + i)'
    <3>1. CASE i = NQueued(d) + 1
      <4>1. NStarted(d) + i = NAccepted(d) + 1
        BY <1>3, <3>1
      <4>2. Frame(d, NStarted(d) + i)' = Framed(d, size, proto)
        BY <1>2, <1>6, <4>1 DEF Frame
      <4>. QED  BY <1>4, <3>1, <4>2
    <3>2. CASE i \in 1 .. NQueued(d)
      <4>1. NStarted(d) + i \in 1 .. NAccepted(d)
        BY <1>3, <3>2
      <4>2. Frame(d, NStarted(d) + i)' = Frame(d, NStarted(d) + i)
        BY <4>1, <1>6, <1>7
      <4>. QED  BY <1>4, <3>2, <4>2 DEF QueueInv
    <3>. QED  BY <2>4, <1>3, <1>4, <3>1, <3>2
  <2>. QED  BY <2>1, <2>2, <2>3, <2>4 DEF QueueInv
<1>13. TimingInv'
  <2>1. ASSUME NEW c \in Device, NEW k \in 1 .. NAccepted(c)'
        PROVE  accepted'[c][k].at <= now'
    <3>1. CASE c = d
      BY <2>1, <3>1, <1>1, <1>2 DEF StartAccepted
    <3>2. CASE c # d
      BY <2>1, <3>2, <1>1, <1>5 DEF TimingInv
    <3>. QED  BY <3>1, <3>2
  <2>2. ASSUME NEW c \in Device, NEW k \in 1 .. NStarted(c)
        PROVE  starts[c][k] = Later(accepted'[c][k].at, IF k = 1 THEN 0 ELSE Free(c, k - 1)')
    <3>1. k \in 1 .. NAccepted(c)
      BY <2>2, StartedAccepted
    <3>2. k # 1 => k - 1 \in 1 .. NAccepted(c)
      BY SMTT(40), <2>2, <3>1, Types
    <3>. QED  BY <2>2, <3>1, <3>2, <1>7 DEF TimingInv
  <2>3. ASSUME NEW c \in Device, NEW j \in 1 .. NStarted(c), NEW k \in 1 .. NStarted(c), j < k
        PROVE  Free(c, j)' <= starts[c][k]
    <3>1. j \in 1 .. NAccepted(c)
      BY <2>3, StartedAccepted
    <3>. QED  BY <2>3, <3>1, <1>7 DEF TimingInv
  <2>. QED  BY <1>1, <1>6, <2>1, <2>2, <2>3 DEF TimingInv
<1>14. WireInv'
  <2>1. ASSUME NEW c \in Device, NEW e \in events, Carries(e, c)
        PROVE  /\ Frame(c, e.pkt.n)' = Frame(c, e.pkt.n)
               /\ Finish(c, e.pkt.n)' = Finish(c, e.pkt.n)
    <3>1. e.pkt.n \in NArrived(c) + 1 .. NStarted(c)
      BY <2>1 DEF WireInv
    <3>2. e.pkt.n \in 1 .. NStarted(c)
      BY SMTT(40), <2>1, <3>1, Types
    <3>. QED  BY <2>1, <3>2, StartedAccepted, <1>7
  <2>. QED  BY <1>1, <1>6, <2>1 DEF WireInv
<1>15. ArrivalInv'
  <2>1. ASSUME NEW c \in Device, NEW k \in 1 .. NArrived(c)
        PROVE  accepted'[c][k] = accepted[c][k] /\ Finish(c, k)' = Finish(c, k)
    <3>1. k \in 1 .. NStarted(c)
      BY <2>1, Types DEF ArrivalInv
    <3>. QED  BY <2>1, <3>1, StartedAccepted, <1>7
  <2>. QED  BY <1>1, <1>6, <2>1 DEF ArrivalInv
<1>16. EventInv'
  BY <1>1 DEF EventInv
<1>. QED  BY <1>8, <1>9, <1>10, <1>11, <1>12, <1>13, <1>14, <1>15, <1>16

(* TransmitComplete with an empty queue: the device becomes idle, and the  *)
(* event that is run was its only completion. *)
LEMMA CompleteIdleStep ==
  ASSUME IInv, NEW e \in events, IsNext(e), e.kind = "TransmitComplete",
         NothingQueued(e.dev), BecomeReady(e.dev),
         events' = events \ {e},
         UNCHANGED <<m_linkUp, hasQueue, m_queue, chanVars, now, nextUid, abort,
                     histVars>>
  PROVE  IInv'
<1>. USE DEF IInv
<1>. DEFINE d == e.dev
<1>1. d \in Device /\ e.at = now /\ now \in Nat
  BY EventTypes DEF IsNext, TypeOK
<1>2. /\ m_txMachineState' = [m_txMachineState EXCEPT ![d] = "READY"]
      /\ m_currentPkt' = [m_currentPkt EXCEPT ![d] = NoPacket]
      /\ m_queue[d] = <<>>
  BY DEF BecomeReady, NothingQueued
<1>3. Completes(e, d)
  BY DEF Completes
<1>. HIDE DEF d
<1>4. /\ m_linkUp' = m_linkUp /\ hasQueue' = hasQueue /\ m_queue' = m_queue
      /\ m_nDevices' = m_nDevices /\ m_link' = m_link
      /\ events' = events \ {e} /\ now' = now /\ nextUid' = nextUid /\ abort' = abort
      /\ accepted' = accepted /\ starts' = starts /\ arrivals' = arrivals
      /\ dropped' = dropped /\ m_macRxTrace' = m_macRxTrace
  BY DEF chanVars, histVars
<1>5. /\ now = Free(d, NStarted(d)) /\ NQueued(d) = 0
      /\ \A f \in events : Completes(f, d) => f = e
  BY <1>1, <1>2, <1>3, Types DEF MachineInv
<1>6. \A c \in Device : /\ NStarted(c)' = NStarted(c) /\ NQueued(c)' = NQueued(c)
                        /\ NAccepted(c)' = NAccepted(c) /\ NArrived(c)' = NArrived(c)
                        /\ \A k : /\ Free(c, k)' = Free(c, k)
                                  /\ Finish(c, k)' = Finish(c, k)
                                  /\ Frame(c, k)' = Frame(c, k)
  BY <1>4 DEF NStarted, NQueued, NAccepted, NArrived, Free, Finish, Frame, FrameSize
<1>7. TypeOK'
  BY <1>2, <1>4 DEF TypeOK
<1>8. InternalAssertionsHold'
  BY <1>4 DEF InternalAssertionsHold
<1>9. LinkInv'
  <2>1. m_nDevices = 2
    BY <1>1, <1>3, BusyMeansLinked DEF MachineInv
  <2>. QED  BY <1>4, <2>1 DEF LinkInv
<1>10. MachineInv'
  <2>1. ASSUME NEW c \in Device, c # d
        PROVE  /\ Idle(c)' = Idle(c) /\ m_currentPkt'[c] = m_currentPkt[c]
               /\ \A f \in events : Completes(f, c) => f \in events'
    <3>1. m_txMachineState'[c] = m_txMachineState[c] /\ m_currentPkt'[c] = m_currentPkt[c]
      BY <1>2, <2>1 DEF TypeOK
    <3>2. ~Completes(e, c)
      BY <1>3, <2>1 DEF Completes
    <3>. QED  BY <1>4, <3>1, <3>2 DEF Idle
  <2>2. Idle(d)' /\ m_currentPkt'[d] = NoPacket
    BY <1>1, <1>2 DEF TypeOK, Idle
  <2>3. \A f \in events' : ~Completes(f, d)
    BY <1>4, <1>5
  <2>4. Free(d, NStarted(d))' <= now'
    BY <1>1, <1>4, <1>5, <1>6
  <2>5. ASSUME NEW c \in Device, c # d
        PROVE  /\ (Idle(c) <=> m_currentPkt[c] = NoPacket)'
               /\ (Idle(c) => NQueued(c) = 0)'
               /\ (Idle(c) /\ NStarted(c) # 0 => Free(c, NStarted(c)) <= now)'
               /\ (~Idle(c) => /\ NStarted(c) # 0
                               /\ m_linkUp[c] /\ hasQueue[c]
                               /\ \E f \in events : Completes(f, c))'
               /\ (\A f \in events : Completes(f, c) =>
                     /\ ~Idle(c)
                     /\ f.at = Free(c, NStarted(c)))'
               /\ (\A f, g \in events : Completes(f, c) /\ Completes(g, c) => f = g)'
    <3>1. Free(c, NStarted(c))' = Free(c, NStarted(c))
      BY <1>6, <2>5
    <3>2. \A f \in events' : f \in events
      BY <1>4
    <3>. QED  BY <1>4, <1>6, <2>1, <2>5, <3>1, <3>2 DEF MachineInv
  <2>6. /\ (Idle(d) <=> m_currentPkt[d] = NoPacket)'
        /\ (Idle(d) => NQueued(d) = 0)'
        /\ (Idle(d) /\ NStarted(d) # 0 => Free(d, NStarted(d)) <= now)'
        /\ (~Idle(d) => /\ NStarted(d) # 0
                        /\ m_linkUp[d] /\ hasQueue[d]
                        /\ \E f \in events : Completes(f, d))'
        /\ (\A f \in events : Completes(f, d) =>
              /\ ~Idle(d)
              /\ f.at = Free(d, NStarted(d)))'
        /\ (\A f, g \in events : Completes(f, d) /\ Completes(g, d) => f = g)'
    <3>1. NQueued(d)' = 0
      BY <1>1, <1>5, <1>6
    <3>. QED  BY <2>2, <2>3, <2>4, <3>1
  <2>. QED  BY <2>5, <2>6 DEF MachineInv
<1>11. QueueInv'
  <2>1. \A c \in Device : \A i : Frame(c, NStarted(c) + i)' = Frame(c, NStarted(c) + i)
    BY <1>6
  <2>. QED  BY <1>4, <1>6, <2>1 DEF QueueInv
<1>12. TimingInv'
  <2>1. \A c \in Device : \A k : Free(c, k - 1)' = Free(c, k - 1)
    BY <1>6
  <2>. QED  BY <1>4, <1>6, <2>1 DEF TimingInv
<1>13. WireInv'
  <2>1. \A c \in Device : \A f \in events : Carries(f, c) => f \in events'
    BY <1>3, <1>4 DEF Carries, Completes
  <2>2. \A f \in events' : f \in events
    BY <1>4
  <2>3. \A c \in Device : \A f \in events' :
          /\ Frame(c, f.pkt.n)' = Frame(c, f.pkt.n)
          /\ Finish(c, f.pkt.n)' = Finish(c, f.pkt.n)
    BY <1>6
  <2>. QED  BY <1>6, <2>1, <2>2, <2>3 DEF WireInv
<1>14. ArrivalInv'
  BY <1>4, <1>6 DEF ArrivalInv
<1>15. EventInv'
  BY <1>4 DEF EventInv
<1>. QED  BY <1>7, <1>8, <1>9, <1>10, <1>11, <1>12, <1>13, <1>14, <1>15

(* A reception that is next is that of the oldest packet on the wire: one  *)
(* that was transmitted before it would be due earlier, or at the same     *)
(* instant with a smaller uid. *)
LEMMA NextIsOldest ==
  ASSUME IInv, NEW e \in events, IsNext(e), e.kind = "Receive"
  PROVE  /\ e.pkt \in Packet /\ e.pkt.src \in Device
         /\ Carries(e, e.pkt.src)
         /\ e.pkt.n = NArrived(e.pkt.src) + 1
         /\ e.pkt.n \in 1 .. NStarted(e.pkt.src)
<1>. USE DEF IInv
<1>. DEFINE d == e.pkt.src
            n == e.pkt.n
            m == NArrived(d) + 1
<1>1. e.pkt \in Packet /\ d \in Device /\ Carries(e, d)
  BY EventTypes DEF Packet, Carries
<1>. HIDE DEF d
<1>2. NArrived(d) \in Nat /\ NStarted(d) \in Nat
  BY <1>1, Types
<1>3. n \in NArrived(d) + 1 .. NStarted(d) /\ e.at = Finish(d, n) + Delay
  BY <1>1 DEF WireInv
<1>. HIDE DEF n
<1>4. n \in 1 .. NStarted(d) /\ m \in 1 .. NStarted(d) /\ m <= n
      /\ m \in NArrived(d) + 1 .. NStarted(d)
  BY <1>2, <1>3
<1>. HIDE DEF m
<1>5. CASE m < n
  <2>1. PICK f \in events : Carries(f, d) /\ f.pkt.n = m
    BY <1>1, <1>4 DEF WireInv
  <2>2. f.at = Finish(d, m) + Delay
    BY <1>1, <2>1 DEF WireInv
  <2>3. f.uid < e.uid /\ f.uid \in Nat /\ e.uid \in Nat
    BY <1>1, <1>5, <2>1, EventTypes DEF WireInv, n
  <2>4. Free(d, m) <= starts[d][n]
    BY <1>1, <1>4, <1>5 DEF TimingInv
  <2>5. /\ Finish(d, m) \in Nat /\ Free(d, m) \in Nat /\ Finish(d, m) <= Free(d, m)
        /\ Finish(d, n) \in Nat /\ starts[d][n] \in Nat /\ starts[d][n] <= Finish(d, n)
    BY <1>1, <1>4, FreeType
  <2>6. Finish(d, m) <= Finish(d, n)
    BY <2>4, <2>5
  <2>7. f.at <= e.at /\ f.at \in Nat /\ e.at \in Nat
    BY <1>3, <2>2, <2>5, <2>6
  <2>8. f.at > e.at \/ (f.at = e.at /\ f.uid >= e.uid)
    BY <2>1 DEF IsNext
  <2>. QED  BY <2>3, <2>7, <2>8
<1>6. CASE m = n
  BY <1>1, <1>4, <1>6 DEF d, n, m
<1>7. m \in Nat /\ n \in Nat
  BY <1>4
<1>. QED  BY <1>4, <1>5, <1>6, <1>7

(* What Receive sees of the oldest packet on the wire is what was asked    *)
(* of Send. *)
LEMMA ArrivalOfFrame ==
  ASSUME IInv, NEW d \in Device, NEW n \in 1 .. NStarted(d), NEW corrupt \in BOOLEAN,
         now = Finish(d, n) + Delay
  PROVE  /\ ArrivalOf(Frame(d, n), corrupt) \in Arrival
         /\ ArrivalOf(Frame(d, n), corrupt) =
              [n |-> n, size |-> accepted[d][n].size,
               proto |-> IF accepted[d][n].proto = CompressedIPv4 THEN IPv4
                         ELSE accepted[d][n].proto,
               at |-> now, corrupt |-> corrupt]
<1>. USE DEF IInv
<1>1. /\ accepted[d][n].size \in Nat /\ accepted[d][n].proto \in KnownEtherType
      /\ n \in Nat \ {0}
  BY StartedAccepted, Types
<1>2. /\ Frame(d, n).n = n
      /\ Frame(d, n).size = accepted[d][n].size + PppHeaderSize
      /\ Frame(d, n).ppp = EtherToPpp[accepted[d][n].proto]
  BY DEF Frame, FrameOf
<1>3. /\ PppToEther[Frame(d, n).ppp] \in KnownEtherType
      /\ PppToEther[Frame(d, n).ppp] =
           IF accepted[d][n].proto = CompressedIPv4 THEN IPv4 ELSE accepted[d][n].proto
  BY <1>1, <1>2, Tables
<1>4. Frame(d, n).size - PppHeaderSize = accepted[d][n].size
  BY <1>1, <1>2 DEF PppHeaderSize
<1>5. now \in Nat
  BY DEF TypeOK
<1>. QED  BY <1>1, <1>2, <1>3, <1>4, <1>5 DEF ArrivalOf, Arrival

(* Receive: the oldest packet on the wire becomes the latest to arrive.    *)
LEMMA ArriveStep ==
  ASSUME IInv, NEW e \in events, IsNext(e), e.kind = "Receive",
         NEW corrupt \in BOOLEAN, Arrive(e, corrupt),
         m_macRxTrace' \in [Device -> Nat]
  PROVE  IInv'
<1>. USE DEF IInv
<1>1. PICK d \in Device : e.pkt.src = d
  BY NextIsOldest
<1>2. PICK n : n = e.pkt.n
  OBVIOUS
<1>3. /\ arrivals' = [arrivals EXCEPT ![d] = Append(@, ArrivalOf(e.pkt, corrupt))]
      /\ events' = events \ {e}
      /\ m_linkUp' = m_linkUp /\ hasQueue' = hasQueue /\ m_queue' = m_queue
      /\ m_txMachineState' = m_txMachineState /\ m_currentPkt' = m_currentPkt
      /\ m_nDevices' = m_nDevices /\ m_link' = m_link
      /\ now' = now /\ nextUid' = nextUid /\ abort' = abort
      /\ accepted' = accepted /\ starts' = starts /\ dropped' = dropped
  BY <1>1 DEF Arrive, devVars, chanVars
<1>4. /\ Carries(e, d) /\ n = NArrived(d) + 1 /\ n \in 1 .. NStarted(d)
      /\ NArrived(d) \in Nat /\ NStarted(d) \in Nat
  BY <1>1, <1>2, NextIsOldest, Types
<1>5. e.pkt = Frame(d, n) /\ now = Finish(d, n) + Delay
  <2>1. e.pkt = Frame(d, e.pkt.n) /\ e.at = Finish(d, e.pkt.n) + Delay
    BY <1>4 DEF WireInv
  <2>2. e.at = now
    BY DEF IsNext
  <2>. QED  BY <2>1, <2>2, <1>2
<1>6. /\ ArrivalOf(e.pkt, corrupt) \in Arrival
      /\ ArrivalOf(e.pkt, corrupt) =
           [n |-> n, size |-> accepted[d][n].size,
            proto |-> IF accepted[d][n].proto = CompressedIPv4 THEN IPv4
                      ELSE accepted[d][n].proto,
            at |-> now, corrupt |-> corrupt]
  BY <1>4, <1>5, ArrivalOfFrame
<1>7. /\ arrivals'[d] \in Seq(Arrival) /\ NArrived(d)' = NArrived(d) + 1
      /\ arrivals'[d][n] = ArrivalOf(e.pkt, corrupt)
      /\ \A k \in 1 .. NArrived(d) : arrivals'[d][k] = arrivals[d][k]
  <2>1. arrivals'[d] = Append(arrivals[d], ArrivalOf(e.pkt, corrupt))
    BY <1>3 DEF TypeOK
  <2>2. arrivals[d] \in Seq(Arrival)
    BY Types
  <2>3. /\ arrivals'[d] \in Seq(Arrival)
        /\ Len(arrivals'[d]) = Len(arrivals[d]) + 1
        /\ arrivals'[d][Len(arrivals[d]) + 1] = ArrivalOf(e.pkt, corrupt)
        /\ \A k \in 1 .. Len(arrivals[d]) : arrivals'[d][k] = arrivals[d][k]
    BY <1>6, <2>1, <2>2, AppendProperties
  <2>. QED  BY <1>4, <2>3 DEF NArrived
<1>8. \A c \in Device : c # d => /\ arrivals'[c] = arrivals[c]
                                 /\ NArrived(c)' = NArrived(c)
  <2>1. \A c \in Device : c # d => arrivals'[c] = arrivals[c]
    BY <1>3 DEF TypeOK
  <2>. QED  BY <2>1 DEF NArrived
<1>9. \A c \in Device : /\ NStarted(c)' = NStarted(c) /\ NQueued(c)' = NQueued(c)
                        /\ NAccepted(c)' = NAccepted(c)
                        /\ Idle(c)' <=> Idle(c)
                        /\ \A k : /\ Free(c, k)' = Free(c, k)
                                  /\ Finish(c, k)' = Finish(c, k)
                                  /\ Frame(c, k)' = Frame(c, k)
  BY <1>3 DEF NStarted, NQueued, NAccepted, Idle, Free, Finish, Frame, FrameSize
<1>10. \A f \in events' : f \in events
  BY <1>3
<1>11. TypeOK'
  <2>1. arrivals' \in [Device -> Seq(Arrival)]
    BY <1>3, <1>7 DEF TypeOK
  <2>. QED  BY <1>3, <2>1 DEF TypeOK
<1>12. InternalAssertionsHold'
  BY <1>3 DEF InternalAssertionsHold
<1>13. LinkInv'
  BY <1>3, <1>9 DEF LinkInv
<1>14. MachineInv'
  <2>1. \A c \in Device : \A f \in events : Completes(f, c) => f \in events'
    BY <1>3, <1>4 DEF Carries, Completes
  <2>2. \A c \in Device : Free(c, NStarted(c))' = Free(c, NStarted(c))
    BY <1>9
  <2>. QED  BY <1>3, <1>9, <1>10, <2>1, <2>2 DEF MachineInv
<1>15. QueueInv'
  <2>1. \A c \in Device : \A i : Frame(c, NStarted(c) + i)' = Frame(c, NStarted(c) + i)
    BY <1>9
  <2>. QED  BY <1>3, <1>9, <2>1 DEF QueueInv
<1>16. TimingInv'
  <2>1. \A c \in Device : \A k : Free(c, k - 1)' = Free(c, k - 1)
    BY <1>9
  <2>2. ASSUME NEW c \in Device, NEW k \in 1 .. NStarted(c)
        PROVE  starts[c][k] = Later(accepted[c][k].at, IF k = 1 THEN 0 ELSE Free(c, k - 1)')
    <3>1. starts[c][k] = Later(accepted[c][k].at, IF k = 1 THEN 0 ELSE Free(c, k - 1))
      BY <2>2 DEF TimingInv
    <3>2. Free(c, k - 1)' = Free(c, k - 1)
      BY <2>1
    <3>. QED  BY <3>1, <3>2
  <2>3. \A c \in Device : \A j, k \in 1 .. NStarted(c) :
          j < k => Free(c, j)' <= starts[c][k]
    BY <1>9 DEF TimingInv
  <2>4. \A c \in Device : \A k \in 1 .. NAccepted(c) : accepted[c][k].at <= now
    BY DEF TimingInv
  <2>. QED  BY <1>3, <1>9, <2>2, <2>3, <2>4 DEF TimingInv
<1>17. WireInv'
  <2>1. ASSUME NEW c \in Device, NEW f \in events', Carries(f, c)
        PROVE  /\ f.pkt.n \in NArrived(c)' + 1 .. NStarted(c)
               /\ f.pkt = Frame(c, f.pkt.n)
               /\ f.at = Finish(c, f.pkt.n) + Delay
               /\ f.dev # c
    <3>1. f \in events /\ f # e
      BY <1>3
    <3>2. /\ f.pkt.n \in NArrived(c) + 1 .. NStarted(c)
          /\ f.pkt = Frame(c, f.pkt.n)
          /\ f.at = Finish(c, f.pkt.n) + Delay
          /\ f.dev # c
      BY <2>1, <3>1 DEF WireInv
    <3>3. CASE c # d
      BY <2>1, <3>2, <3>3, <1>8
    <3>4. CASE c = d
      <4>1. f.pkt.n # n
        <5>1. Carries(f, d) /\ Carries(e, d)
          BY <2>1, <3>4, <1>4
        <5>2. f.pkt.n = e.pkt.n => f = e
          BY <3>1, <5>1 DEF WireInv
        <5>. QED  BY <3>1, <5>2, <1>2
      <4>2. f.pkt.n \in n + 1 .. NStarted(d)
        BY <3>2, <3>4, <4>1, <1>4
      <4>. QED  BY <3>2, <3>4, <4>2, <1>4, <1>7
    <3>. QED  BY <3>3, <3>4
  <2>2. ASSUME NEW c \in Device, NEW k \in NArrived(c)' + 1 .. NStarted(c)
        PROVE  \E f \in events' : Carries(f, c) /\ f.pkt.n = k
    <3>1. k \in NArrived(c) + 1 .. NStarted(c) /\ (c = d => k # n)
      <4>1. CASE c = d
        BY <2>2, <4>1, <1>4, <1>7
      <4>2. CASE c # d
        BY <2>2, <4>2, <1>8
      <4>. QED  BY <4>1, <4>2
    <3>2. PICK f \in events : Carries(f, c) /\ f.pkt.n = k
      BY <2>2, <3>1 DEF WireInv
    <3>3. f # e
      BY <3>1, <3>2, <1>1, <1>2 DEF Carries
    <3>. QED  BY <3>2, <3>3, <1>3
  <2>3. ASSUME NEW c \in Device, NEW f \in events', NEW g \in events',
               Carries(f, c), Carries(g, c)
        PROVE  /\ f.pkt.n = g.pkt.n => f = g
               /\ f.pkt.n < g.pkt.n => f.uid < g.uid
    BY <2>3, <1>10 DEF WireInv
  <2>4. \A c \in Device : \A f \in events' :
          /\ Frame(c, f.pkt.n)' = Frame(c, f.pkt.n)
          /\ Finish(c, f.pkt.n)' = Finish(c, f.pkt.n)
    BY <1>9
  <2>. QED  BY <1>9, <2>1, <2>2, <2>3, <2>4 DEF WireInv
<1>18. ArrivalInv'
  <2>1. ASSUME NEW c \in Device, c # d
        PROVE  /\ NArrived(c)' <= NStarted(c)'
               /\ \A k \in 1 .. NArrived(c)' :
                    /\ arrivals'[c][k].n = k
                    /\ arrivals'[c][k].size = accepted'[c][k].size
                    /\ arrivals'[c][k].proto =
                         IF accepted'[c][k].proto = CompressedIPv4 THEN IPv4
                         ELSE accepted'[c][k].proto
                    /\ arrivals'[c][k].at = Finish(c, k)' + Delay
    <3>1. /\ NArrived(c)' = NArrived(c) /\ arrivals'[c] = arrivals[c]
          /\ NStarted(c)' = NStarted(c) /\ accepted' = accepted
          /\ \A k : Finish(c, k)' = Finish(c, k)
      BY <1>3, <1>8, <1>9, <2>1
    <3>. QED  BY <2>1, <3>1 DEF ArrivalInv
  <2>2. NArrived(d)' <= NStarted(d)'
    BY <1>4, <1>7, <1>9
  <2>3. ASSUME NEW k \in 1 .. NArrived(d)'
        PROVE  /\ arrivals'[d][k].n = k
               /\ arrivals'[d][k].size = accepted'[d][k].size
               /\ arrivals'[d][k].proto =
                    IF accepted'[d][k].proto = CompressedIPv4 THEN IPv4
                    ELSE accepted'[d][k].proto
               /\ arrivals'[d][k].at = Finish(d, k)' + Delay
    <3>1. CASE k = n
      <4>1. /\ arrivals'[d][k].n = n
            /\ arrivals'[d][k].size = accepted[d][n].size
            /\ arrivals'[d][k].proto =
                 IF accepted[d][n].proto = CompressedIPv4 THEN IPv4
                 ELSE accepted[d][n].proto
            /\ arrivals'[d][k].at = now
        BY <3>1, <1>6, <1>7
      <4>2. Finish(d, k)' = Finish(d, n) /\ accepted' = accepted
        BY <3>1, <1>3, <1>9
      <4>. QED  BY <3>1, <4>1, <4>2, <1>5
    <3>2. CASE k \in 1 .. NArrived(d)
      <4>1. arrivals'[d][k] = arrivals[d][k] /\ Finish(d, k)' = Finish(d, k)
        BY <3>2, <1>7, <1>9
      <4>. QED  BY <3>2, <4>1, <1>3 DEF ArrivalInv
    <3>. QED  BY <2>3, <3>1, <3>2, <1>4, <1>7
  <2>. QED  BY <2>1, <2>2, <2>3 DEF ArrivalInv
<1>19. EventInv'
  BY <1>3, <1>10 DEF EventInv
<1>. QED  BY <1>11, <1>12, <1>13, <1>14, <1>15, <1>16, <1>17, <1>18, <1>19
-----------------------------------------------------------------------------
(* The invariant. *)

(* A call of Send, whatever it is called with. *)
LEMMA SendStep ==
  ASSUME IInv, NEW d \in Device, NEW size \in Size, NEW proto \in EtherType,
         Send(d, size, proto)
  PROVE  IInv'
<1>1. CASE Drop(d)
  BY <1>1, DropStep
<1>2. CASE Abort(NoProtocol) \/ Abort(NullQueue)
  <2>1. /\ NoProtocol \in Fault /\ NullQueue \in Fault
        /\ {NoProtocol, NullQueue} \cap
             {NotReady, NotBusy, NoCurrent, NoRemote, Initializing} = {}
    BY DEF Fault, NoProtocol, NullQueue, NotReady, NotBusy, NoCurrent, NoRemote,
           Initializing
  <2>. QED  BY <1>2, <2>1, AbortStep
<1>3. CASE /\ proto \in KnownEtherType /\ m_linkUp[d] /\ hasQueue[d]
           /\ ~QueueFull(d) /\ Idle(d) /\ SendNow(d, size, proto)
  BY <1>3, SendNowStep
<1>4. CASE /\ proto \in KnownEtherType
           /\ ~QueueFull(d) /\ ~Idle(d) /\ SendLater(d, size, proto)
  BY <1>4, SendLaterStep
<1>. QED  BY <1>1, <1>2, <1>3, <1>4 DEF Send, SendOnLink

(* An event that the simulator runs.  A completion finds the machine BUSY  *)
(* and m_currentPkt set, a reception finds both devices attached, so none  *)
(* of the assertions of the two handlers fails. *)
LEMMA EventStep ==
  ASSUME IInv, NEW e \in events, RunEvent(e)
  PROVE  IInv'
<1>. USE DEF IInv
<1>1. CASE e.kind = "TransmitComplete" /\ TransmitComplete(e)
  <2>1. e.dev \in Device /\ Completes(e, e.dev) /\ IsNext(e)
    BY <1>1, EventTypes DEF Completes, RunEvent
  <2>2. ~Idle(e.dev) /\ m_currentPkt[e.dev] # NoPacket
    BY <2>1 DEF MachineInv
  <2>3. m_nDevices = 2
    BY <2>1, <2>2, BusyMeansLinked
  <2>4. CompletionFault(e.dev) = NoFault
    <3>1. m_txMachineState[e.dev] = "BUSY"
      BY <2>1, <2>2 DEF TypeOK, Idle
    <3>2. TransmitFault("READY") = NoFault
      BY <2>3 DEF LinkInv, TransmitFault
    <3>. QED  BY <2>2, <3>1, <3>2 DEF CompletionFault
  <2>5. CASE /\ NothingQueued(e.dev)
             /\ BecomeReady(e.dev)
             /\ events' = events \ {e}
             /\ UNCHANGED <<m_linkUp, hasQueue, m_queue, chanVars, now, nextUid,
                            abort, histVars>>
    BY <1>1, <2>1, <2>5, CompleteIdleStep
  <2>6. CASE /\ ~NothingQueued(e.dev)
             /\ TransmitStart(e.dev, m_queue[e.dev], events \ {e})
             /\ UNCHANGED <<accepted, dropped, arrivals, m_macRxTrace>>
    BY <1>1, <2>1, <2>6, CompleteNextStep
  <2>. QED  BY <1>1, <2>4, <2>5, <2>6 DEF TransmitComplete
<1>2. CASE e.kind = "Receive" /\ Receive(e)
  <2>1. IsNext(e) /\ e.dev \in Device
    BY EventTypes DEF RunEvent
  <2>2. m_nDevices = 2
    BY DEF LinkInv
  <2>3. CASE Arrive(e, TRUE) /\ UNCHANGED m_macRxTrace
    <3>1. m_macRxTrace' \in [Device -> Nat]
      BY <2>3 DEF TypeOK
    <3>. QED  BY <1>2, <2>1, <2>3, <3>1, ArriveStep
  <2>4. CASE /\ Arrive(e, FALSE)
             /\ m_macRxTrace' = [m_macRxTrace EXCEPT ![e.dev] = @ + 2]
    <3>1. m_macRxTrace' \in [Device -> Nat]
      BY <2>1, <2>4 DEF TypeOK
    <3>. QED  BY <1>2, <2>1, <2>4, <3>1, ArriveStep
  <2>. QED  BY <1>2, <2>2, <2>3, <2>4 DEF Receive, Deliver
<1>. QED  BY <1>1, <1>2 DEF RunEvent

(* Every step preserves the invariant. *)
LEMMA NextInv == IInv /\ [Next]_vars => IInv'
<1>. SUFFICES ASSUME IInv, [Next]_vars PROVE IInv'
  OBVIOUS
<1>1. CASE \E d \in Device : SetQueue(d) \/ Attach(d)
  BY <1>1, SetQueueStep, AttachStep
<1>2. CASE \E d \in Device, size \in Size, proto \in EtherType : Send(d, size, proto)
  BY <1>2, SendStep
<1>3. CASE Tick
  BY <1>3, TickStep
<1>4. CASE \E e \in events : RunEvent(e)
  BY <1>4, EventStep
<1>5. CASE UNCHANGED vars
  BY <1>5, StutterStep
<1>. QED  BY <1>1, <1>2, <1>3, <1>4, <1>5 DEF Next, Simulate

(* IInv holds in every reachable state. *)
THEOREM Invariance == Spec => []IInv
<1>1. Init => IInv
  BY InitInv
<1>2. IInv /\ [Next]_vars => IInv'
  BY NextInv
<1>. QED  BY <1>1, <1>2, PTL DEF Spec
-----------------------------------------------------------------------------
(* What follows from the invariant. *)

(* The variables keep their types: Spec => []TypeOK. *)
THEOREM TypeCorrect == Spec => []TypeOK
<1>1. IInv => TypeOK
  BY DEF IInv
<1>. QED  BY <1>1, Invariance, PTL

(* The assertions of TransmitStart, TransmitComplete and GetRemote cannot  *)
(* fail, for any order of SetQueue, Attach, Send and the two handlers.     *)
THEOREM AssertionsCorrect == Spec => []InternalAssertionsHold
<1>1. IInv => InternalAssertionsHold
  BY DEF IInv
<1>. QED  BY <1>1, Invariance, PTL

(* BUSY, m_currentPkt and the one pending TransmitComplete go together.    *)
THEOREM TransmitterCorrect == Spec => []TransmitterAccounted
<1>1. IInv => TransmitterAccounted
  <2>. SUFFICES ASSUME IInv, NEW d \in Device
                PROVE  LET completions ==
                             {e \in events : e.kind = "TransmitComplete" /\ e.dev = d} IN
                       /\ Idle(d) <=> completions = {}
                       /\ \A e, f \in completions : e = f
                       /\ Idle(d) <=> m_currentPkt[d] = NoPacket
    BY DEF TransmitterAccounted
  <2>1. /\ Idle(d) <=> m_currentPkt[d] = NoPacket
        /\ ~Idle(d) => \E e \in events : Completes(e, d)
        /\ \A e \in events : Completes(e, d) => ~Idle(d)
        /\ \A e, f \in events : Completes(e, d) /\ Completes(f, d) => e = f
    BY DEF IInv, MachineInv
  <2>. QED  BY <2>1 DEF Completes
<1>. QED  BY <1>1, Invariance, PTL

(* Packets arrive in the order in which Send accepted them, each at most   *)
(* once, with the size and the protocol they were sent with.               *)
THEOREM OrderCorrect == Spec => []DeliveredInOrder
<1>1. IInv => DeliveredInOrder
  <2>. SUFFICES ASSUME IInv, NEW d \in Device
                PROVE  /\ NArrived(d) <= NAccepted(d)
                       /\ \A k \in 1 .. NArrived(d) :
                            /\ arrivals[d][k].n = k
                            /\ arrivals[d][k].size = accepted[d][k].size
                            /\ arrivals[d][k].proto =
                                 IF accepted[d][k].proto = CompressedIPv4 THEN IPv4
                                 ELSE accepted[d][k].proto
    BY DEF DeliveredInOrder
  <2>1. NArrived(d) <= NStarted(d) /\ NStarted(d) + NQueued(d) = NAccepted(d)
    BY DEF IInv, ArrivalInv, QueueInv
  <2>2. /\ NArrived(d) \in Nat /\ NStarted(d) \in Nat
        /\ NQueued(d) \in Nat /\ NAccepted(d) \in Nat
    BY Types DEF IInv
  <2>3. NArrived(d) <= NAccepted(d)
    BY <2>1, <2>2
  <2>. QED  BY <2>3 DEF IInv, ArrivalInv
<1>. QED  BY <1>1, Invariance, PTL

(* Arrival times are the recursion of a work-conserving server, for every  *)
(* rate, interframe gap, delay and pattern of calls of Send.               *)
THEOREM TimesCorrect == Spec => []ArrivalTimes
<1>1. IInv => ArrivalTimes
  <2>. SUFFICES ASSUME IInv, NEW d \in Device, NEW k \in 1 .. NArrived(d)
                PROVE  arrivals[d][k].at =
                         TxTime(d, FrameSize(d, k)) +
                         Later(accepted[d][k].at + Delay,
                               IF k = 1 THEN 0
                               ELSE arrivals[d][k-1].at + InterframeGap)
    BY DEF ArrivalTimes
  <2>1. /\ NArrived(d) \in Nat /\ NStarted(d) \in Nat /\ NArrived(d) <= NStarted(d)
    BY Types DEF IInv, ArrivalInv
  <2>2. k \in Nat /\ k \in 1 .. NStarted(d)
    BY <2>1
  <2>3. PICK tx : tx = TxTime(d, FrameSize(d, k))
    OBVIOUS
  <2>4. PICK t : t = accepted[d][k].at
    OBVIOUS
  <2>5. tx \in Nat /\ t \in Nat
    <3>1. accepted[d][k].size \in Nat /\ accepted[d][k].at \in Nat
      BY <2>2, StartedAccepted, Types DEF IInv
    <3>2. FrameSize(d, k) \in Nat
      BY <3>1 DEF FrameSize, PppHeaderSize
    <3>. QED  BY <2>3, <2>4, <3>1, <3>2, TxTimeType
  <2>6. arrivals[d][k].at = starts[d][k] + tx + Delay
    BY <2>3 DEF IInv, ArrivalInv, Finish
  <2>7. Delay \in Nat /\ InterframeGap \in Nat
    BY TimingAssumption
  <2>8. CASE k = 1
    <3>1. starts[d][k] = Later(t, 0)
      BY <2>2, <2>4, <2>8 DEF IInv, TimingInv
    <3>2. starts[d][k] = t
      BY <2>5, <3>1 DEF Later
    <3>3. Later(t + Delay, 0) = t + Delay
      BY <2>5, <2>7 DEF Later
    <3>. QED  BY <2>3, <2>4, <2>5, <2>6, <2>7, <2>8, <3>2, <3>3
  <2>9. CASE k # 1
    <3>1. k - 1 \in 1 .. NArrived(d) /\ k - 1 \in 1 .. NStarted(d)
      BY <2>1, <2>9
    <3>2. PICK f : f = Finish(d, k - 1)
      OBVIOUS
    <3>3. arrivals[d][k-1].at = f + Delay
      BY <3>1, <3>2 DEF IInv, ArrivalInv
    <3>4. starts[d][k] = Later(t, f + InterframeGap)
      BY <2>2, <2>4, <2>9, <3>2 DEF IInv, TimingInv, Free
    <3>5. f \in Nat
      BY <3>1, <3>2, FreeType DEF IInv
    <3>6. Later(t, f + InterframeGap) + Delay
            = Later(t + Delay, f + Delay + InterframeGap)
      BY <2>5, <2>7, <3>5 DEF Later
    <3>7. Later(t, f + InterframeGap) \in Nat
      BY <2>5, <2>7, <3>5 DEF Later
    <3>8. arrivals[d][k].at = tx + Later(t + Delay, f + Delay + InterframeGap)
      BY <2>5, <2>6, <2>7, <3>4, <3>6, <3>7
    <3>. QED  BY <2>3, <2>4, <2>9, <3>3, <3>8
  <2>. QED  BY <2>8, <2>9
<1>. QED  BY <1>1, Invariance, PTL
-----------------------------------------------------------------------------
(* What a step may do to the history of a device. *)

(* Only Send drops packets: when the link is down or the queue full. *)
LEMMA OnlySendDrops ==
  ASSUME [Next]_vars, dropped' # dropped
  PROVE  \E d \in Device : Drop(d) /\ (m_linkUp[d] => QueueFull(d))
<1>1. CASE UNCHANGED vars
  BY <1>1 DEF vars, histVars
<1>2. CASE \E d \in Device : SetQueue(d) \/ Attach(d)
  BY <1>2 DEF SetQueue, Attach, Abort, histVars
<1>3. CASE Tick
  BY <1>3 DEF Tick, histVars
<1>4. CASE \E e \in events : RunEvent(e)
  <2>1. PICK e \in events : RunEvent(e)
    BY <1>4
  <2>2. CASE TransmitComplete(e)
    BY <2>2 DEF TransmitComplete, Abort, histVars
  <2>3. CASE Receive(e)
    BY <2>3 DEF Receive, Deliver, Arrive, Abort, histVars
  <2>. QED  BY <2>1, <2>2, <2>3 DEF RunEvent
<1>5. CASE \E d \in Device, size \in Size, proto \in EtherType : Send(d, size, proto)
  <2>1. PICK d \in Device, size \in Size, proto \in EtherType : Send(d, size, proto)
    BY <1>5
  <2>2. CASE ~m_linkUp[d] /\ Drop(d)
    BY <2>1, <2>2
  <2>6. CASE QueueFull(d) /\ Drop(d)
    BY <2>1, <2>6
  <2>3. CASE Abort(NoProtocol) \/ Abort(NullQueue)
    BY <2>3 DEF Abort, histVars
  <2>4. CASE SendNow(d, size, proto)
    BY <2>4 DEF SendNow, Abort, Accept, histVars
  <2>5. CASE SendLater(d, size, proto)
    BY <2>5 DEF SendLater, Accept
  <2>. QED  BY <2>1, <2>2, <2>3, <2>4, <2>5, <2>6 DEF Send, SendOnLink
<1>. QED  BY <1>1, <1>2, <1>3, <1>4, <1>5 DEF Next, Simulate

(* A device whose link is up refuses a packet only while it transmits and  *)
(* QueueLimit packets wait: the early test of the queue in Send never      *)
(* turns a packet away from an idle transmitter.                           *)
THEOREM RefusalCorrect == Spec => RefusesOnlyWhenSaturated
<1>1. ASSUME IInv, [Next]_vars, NEW d \in Device, dropped'[d] # dropped[d], m_linkUp[d]
      PROVE  ~Idle(d) /\ NAccepted(d) - NStarted(d) = QueueLimit
  <2>1. PICK c \in Device : Drop(c) /\ (m_linkUp[c] => QueueFull(c))
    BY <1>1, OnlySendDrops
  <2>2. c = d
    BY <1>1, <2>1 DEF Drop, IInv, TypeOK
  <2>3. NQueued(d) >= QueueLimit
    BY <1>1, <2>1, <2>2 DEF QueueFull
  <2>4. /\ NQueued(d) <= QueueLimit
        /\ NStarted(d) + NQueued(d) = NAccepted(d)
        /\ Idle(d) => NQueued(d) = 0
    BY <1>1 DEF IInv, QueueInv, MachineInv
  <2>5. /\ NStarted(d) \in Nat /\ NQueued(d) \in Nat /\ NAccepted(d) \in Nat
        /\ QueueLimit \in Nat \ {0}
    BY <1>1, Types, QueueAssumption DEF IInv
  <2>. QED  BY <2>3, <2>4, <2>5
<1>2. IInv /\ [Next]_vars =>
        [\A d \in Device : (dropped'[d] # dropped[d] /\ m_linkUp[d]) =>
           /\ ~Idle(d)
           /\ NAccepted(d) - NStarted(d) = QueueLimit]_vars
  BY <1>1
<1>. QED  BY <1>2, Invariance, PTL DEF Spec, RefusesOnlyWhenSaturated
-----------------------------------------------------------------------------
(* PointToPoint implements the safety part of FifoLink, for every value of *)
(* the constants: the initial states are initial states of the abstract    *)
(* link, and every step is one of its steps or a stutter.                  *)

Message == [size : Size, proto : KnownEtherType]
Result == [msg : [size : Nat, proto : KnownEtherType], lost : BOOLEAN]

TransitOf(d) ==
  /\ NAccepted(d) - NArrived(d) \in Nat
  /\ InTransit[d] \in Seq(Message)
  /\ Len(InTransit[d]) = NAccepted(d) - NArrived(d)
  /\ \A k \in 1 .. NAccepted(d) - NArrived(d) :
       InTransit[d][k] = MessageOf(accepted[d][NArrived(d) + k])

OutcomeOf(d) ==
  /\ Outcome[d] \in Seq(Result)
  /\ Len(Outcome[d]) = NArrived(d)
  /\ \A k \in 1 .. NArrived(d) :
       Outcome[d][k] = [msg |-> MessageOf(arrivals[d][k]),
                        lost |-> arrivals[d][k].corrupt]

(* The packets in transit from a device, one by one. *)
LEMMA TransitElements == IInv => \A d \in Device : TransitOf(d)
<1>. SUFFICES ASSUME IInv, NEW d \in Device PROVE TransitOf(d)
  OBVIOUS
<1>1. /\ NArrived(d) <= NStarted(d) /\ NStarted(d) + NQueued(d) = NAccepted(d)
      /\ NArrived(d) \in Nat /\ NStarted(d) \in Nat
      /\ NQueued(d) \in Nat /\ NAccepted(d) \in Nat
  BY Types DEF IInv, ArrivalInv, QueueInv
<1>2. PICK n : n = NAccepted(d) - NArrived(d)
  OBVIOUS
<1>3. n \in Nat
  BY <1>1, <1>2
<1>4. InTransit[d] = [k \in 1 .. n |-> MessageOf(accepted[d][NArrived(d) + k])]
  BY <1>2 DEF InTransit
<1>5. ASSUME NEW k \in 1 .. n
      PROVE  MessageOf(accepted[d][NArrived(d) + k]) \in Message
  <2>1. NArrived(d) + k \in 1 .. NAccepted(d)
    BY <1>1, <1>2
  <2>2. accepted[d][NArrived(d) + k] \in Request
    BY <2>1, Types DEF IInv
  <2>. QED  BY <2>2 DEF MessageOf, Message, Request
<1>6. InTransit[d] \in Seq(Message) /\ Len(InTransit[d]) = n
  BY <1>3, <1>4, <1>5
<1>. QED  BY <1>2, <1>3, <1>4, <1>6 DEF TransitOf

(* The fate of the packets that have arrived, one by one. *)
LEMMA OutcomeElements == IInv => \A d \in Device : OutcomeOf(d)
<1>. SUFFICES ASSUME IInv, NEW d \in Device PROVE OutcomeOf(d)
  OBVIOUS
<1>1. arrivals[d] \in Seq(Arrival) /\ NArrived(d) \in Nat
  BY Types DEF IInv
<1>2. PICK n : n = NArrived(d)
  OBVIOUS
<1>3. Outcome[d] = [k \in 1 .. n |-> [msg |-> MessageOf(arrivals[d][k]),
                                      lost |-> arrivals[d][k].corrupt]]
  BY <1>2 DEF Outcome
<1>4. ASSUME NEW k \in 1 .. n
      PROVE  [msg |-> MessageOf(arrivals[d][k]), lost |-> arrivals[d][k].corrupt]
               \in Result
  <2>1. arrivals[d][k] \in Arrival
    BY <1>1, <1>2 DEF NArrived
  <2>. QED  BY <2>1 DEF MessageOf, Result, Arrival
<1>5. Outcome[d] \in Seq(Result) /\ Len(Outcome[d]) = n
  BY <1>1, <1>2, <1>3, <1>4
<1>. QED  BY <1>2, <1>3, <1>5 DEF OutcomeOf

(* The same in the state after a step. *)
LEMMA ElementsNext ==
  IInv' => (\A d \in Device : TransitOf(d) /\ OutcomeOf(d))'
<1>1. IInv => \A d \in Device : TransitOf(d) /\ OutcomeOf(d)
  BY TransitElements, OutcomeElements
<1>. QED  BY <1>1, PTL

(* The initial states map to initial states. *)
LEMMA LinkInit == Init => Link0!Init
<1>. SUFFICES ASSUME Init PROVE Link0!Init
  OBVIOUS
<1>1. \A d \in Device : NAccepted(d) = 0 /\ NArrived(d) = 0
  BY DEF Init, NAccepted, NArrived
<1>2. InTransit = [d \in Device |-> <<>>]
  BY <1>1 DEF InTransit
<1>3. Outcome = [d \in Device |-> <<>>]
  BY <1>1 DEF Outcome
<1>. QED  BY <1>2, <1>3 DEF Init, Link0!Init, Running

(* A step that neither accepts nor delivers is a stutter of the link, or,  *)
(* when an assertion fails, its death. *)
LEMMA LinkStutter ==
  ASSUME UNCHANGED <<accepted, arrivals, abort>>
  PROVE  UNCHANGED Link0!vars
<1>1. InTransit' = InTransit /\ Outcome' = Outcome
  BY DEF InTransit, Outcome, NAccepted, NArrived
<1>. QED  BY <1>1 DEF Link0!vars, Running

LEMMA LinkAbort ==
  ASSUME Running, NEW fault \in Fault, Abort(fault)
  PROVE  Link0!Next
<1>1. InTransit' = InTransit /\ Outcome' = Outcome
  BY DEF Abort, histVars, InTransit, Outcome, NAccepted, NArrived
<1>2. abort' # NoFault
  BY DEF Abort, Fault, NoFault, NotReady, NotBusy, NoCurrent, NoRemote, NoProtocol,
         Initializing, TooMany, NullQueue
<1>. QED  BY <1>1, <1>2 DEF Link0!Next, Link0!Abort, Running

(* A packet that Send accepts joins the end of what is in transit. *)
LEMMA LinkAccept ==
  ASSUME IInv, IInv', Running, NEW d \in Device, NEW size \in Size,
         NEW proto \in KnownEtherType, Accept(d, size, proto), abort' = abort
  PROVE  Link0!Next
<1>1. PICK r : r = [size |-> size, proto |-> proto, at |-> now]
  OBVIOUS
<1>2. r \in Request /\ MessageOf(r) \in Message /\ MessageOf(r) = [size |-> size, proto |-> proto]
  BY <1>1 DEF IInv, TypeOK, Request, MessageOf, Message
<1>3. accepted' = [accepted EXCEPT ![d] = Append(@, r)] /\ arrivals' = arrivals
  BY <1>1 DEF Accept
<1>4. \A c \in Device : NArrived(c)' = NArrived(c)
  BY <1>3 DEF NArrived
<1>5. /\ NAccepted(d)' = NAccepted(d) + 1
      /\ accepted'[d][NAccepted(d) + 1] = r
      /\ \A k \in 1 .. NAccepted(d) : accepted'[d][k] = accepted[d][k]
  <2>1. accepted'[d] = Append(accepted[d], r)
    BY <1>3 DEF IInv, TypeOK
  <2>2. accepted[d] \in Seq(Request)
    BY Types DEF IInv
  <2>. QED  BY <1>2, <2>1, <2>2, AppendProperties DEF NAccepted
<1>6. PICK n : n = NAccepted(d) - NArrived(d)
  OBVIOUS
<1>7. /\ n \in Nat /\ NArrived(d) \in Nat /\ NAccepted(d) \in Nat
      /\ InTransit[d] \in Seq(Message) /\ Len(InTransit[d]) = n
      /\ \A k \in 1 .. n : InTransit[d][k] = MessageOf(accepted[d][NArrived(d) + k])
  BY <1>6, TransitElements, Types DEF IInv, TransitOf
<1>8. /\ InTransit'[d] \in Seq(Message) /\ Len(InTransit'[d]) = n + 1
      /\ \A k \in 1 .. n + 1 : InTransit'[d][k] = MessageOf(accepted'[d][NArrived(d) + k])
  <2>1. /\ InTransit'[d] \in Seq(Message)
        /\ Len(InTransit'[d]) = NAccepted(d)' - NArrived(d)'
        /\ \A k \in 1 .. NAccepted(d)' - NArrived(d)' :
              InTransit'[d][k] = MessageOf(accepted'[d][NArrived(d)' + k])
    <3>1. (\A c \in Device : TransitOf(c))'
      BY ElementsNext
    <3>. QED  BY <3>1 DEF TransitOf
  <2>2. NAccepted(d)' - NArrived(d)' = n + 1
    BY <1>4, <1>5, <1>6, <1>7
  <2>. QED  BY <1>4, <2>1, <2>2
<1>9. InTransit'[d] = Append(InTransit[d], MessageOf(r))
  <2>1. PICK s : s = Append(InTransit[d], MessageOf(r))
    OBVIOUS
  <2>2. /\ s \in Seq(Message) /\ Len(s) = n + 1
        /\ \A k \in 1 .. n : s[k] = InTransit[d][k]
        /\ s[n + 1] = MessageOf(r)
    BY <1>2, <1>7, <2>1, AppendProperties
  <2>3. ASSUME NEW k \in 1 .. n + 1 PROVE InTransit'[d][k] = s[k]
    <3>1. CASE k \in 1 .. n
      <4>1. NArrived(d) + k \in 1 .. NAccepted(d)
        BY <1>6, <1>7, <3>1
      <4>2. InTransit'[d][k] = MessageOf(accepted[d][NArrived(d) + k])
        BY <1>5, <1>8, <4>1, <2>3
      <4>. QED  BY <1>7, <2>2, <3>1, <4>2
    <3>2. CASE k = n + 1
      <4>1. NArrived(d) + k = NAccepted(d) + 1
        BY <1>6, <1>7, <3>2
      <4>. QED  BY <1>5, <1>8, <2>2, <2>3, <3>2, <4>1
    <3>. QED  BY <1>7, <2>3, <3>1, <3>2
  <2>. QED  BY <1>8, <2>1, <2>2, <2>3, SeqEqual
<1>10. \A c \in Device : c # d => InTransit'[c] = InTransit[c]
  <2>1. \A c \in Device : c # d => accepted'[c] = accepted[c]
    BY <1>3 DEF IInv, TypeOK
  <2>. QED  BY <1>4, <2>1 DEF InTransit, NAccepted
<1>11. InTransit' = [InTransit EXCEPT ![d] = Append(@, MessageOf(r))]
  BY <1>9, <1>10 DEF InTransit
<1>12. Outcome' = Outcome
  BY <1>3 DEF Outcome, NArrived
<1>. QED  BY <1>2, <1>11, <1>12 DEF Link0!Next, Link0!Accept, Running, Accept, Message

(* A packet that Receive takes off the wire is the head of what is in      *)
(* transit; it is lost only if the device at the other end may corrupt it. *)
LEMMA LinkArrive ==
  ASSUME IInv, IInv', Running, NEW e \in events, IsNext(e), e.kind = "Receive",
         NEW corrupt \in BOOLEAN, corrupt => e.dev \in Lossy, Arrive(e, corrupt)
  PROVE  Link0!Next
<1>1. PICK d \in Device : e.pkt.src = d
  BY NextIsOldest
<1>2. PICK n : n = NArrived(d) + 1
  OBVIOUS
<1>3. /\ e.pkt.n = n /\ n \in 1 .. NStarted(d) /\ Carries(e, d)
      /\ NArrived(d) \in Nat
  BY <1>1, <1>2, NextIsOldest, Types DEF IInv
<1>4. /\ e.pkt = Frame(d, n) /\ now = Finish(d, n) + Delay
      /\ e.dev # d
  BY <1>3 DEF IInv, WireInv, IsNext
<1>5. PICK x : x = ArrivalOf(e.pkt, corrupt)
  OBVIOUS
<1>6. /\ x \in Arrival
      /\ x = [n |-> n, size |-> accepted[d][n].size,
              proto |-> IF accepted[d][n].proto = CompressedIPv4 THEN IPv4
                        ELSE accepted[d][n].proto,
              at |-> now, corrupt |-> corrupt]
  BY <1>3, <1>4, <1>5, ArrivalOfFrame
<1>7. /\ arrivals' = [arrivals EXCEPT ![d] = Append(@, x)]
      /\ accepted' = accepted /\ abort' = abort
  BY <1>1, <1>5 DEF Arrive
<1>8. /\ NArrived(d)' = n
      /\ arrivals'[d][n] = x
      /\ \A k \in 1 .. NArrived(d) : arrivals'[d][k] = arrivals[d][k]
  <2>1. arrivals'[d] = Append(arrivals[d], x)
    BY <1>7 DEF IInv, TypeOK
  <2>2. arrivals[d] \in Seq(Arrival)
    BY Types DEF IInv
  <2>. QED  BY <1>2, <1>6, <2>1, <2>2, AppendProperties DEF NArrived
<1>9. \A c \in Device : NAccepted(c)' = NAccepted(c)
  BY <1>7 DEF NAccepted
<1>10. PICK m : m = NAccepted(d) - n
  OBVIOUS
<1>11. /\ m \in Nat /\ NAccepted(d) - NArrived(d) = m + 1
       /\ n \in 1 .. NAccepted(d)
  <2>1. n \in 1 .. NAccepted(d) /\ NAccepted(d) \in Nat
    BY <1>3, StartedAccepted, Types DEF IInv
  <2>. QED  BY <1>2, <1>3, <1>10, <2>1
<1>12. /\ InTransit[d] \in Seq(Message) /\ Len(InTransit[d]) = m + 1
       /\ \A k \in 1 .. m + 1 : InTransit[d][k] = MessageOf(accepted[d][NArrived(d) + k])
  BY <1>11, TransitElements DEF TransitOf
<1>13. /\ InTransit'[d] \in Seq(Message) /\ Len(InTransit'[d]) = m
       /\ \A k \in 1 .. m : InTransit'[d][k] = MessageOf(accepted[d][n + k])
  <2>1. /\ InTransit'[d] \in Seq(Message)
        /\ Len(InTransit'[d]) = NAccepted(d)' - NArrived(d)'
        /\ \A k \in 1 .. NAccepted(d)' - NArrived(d)' :
              InTransit'[d][k] = MessageOf(accepted'[d][NArrived(d)' + k])
    <3>1. (\A c \in Device : TransitOf(c))'
      BY ElementsNext
    <3>. QED  BY <3>1 DEF TransitOf
  <2>2. NAccepted(d)' - NArrived(d)' = m
    BY <1>8, <1>9, <1>10
  <2>. QED  BY <1>7, <1>8, <2>1, <2>2
<1>14. /\ InTransit[d] # <<>>
       /\ Head(InTransit[d]) = MessageOf(accepted[d][n])
       /\ InTransit'[d] = Tail(InTransit[d])
  <2>1. InTransit[d] # <<>>
    BY <1>11, <1>12
  <2>2. PICK s : s = Tail(InTransit[d])
    OBVIOUS
  <2>3. /\ s \in Seq(Message) /\ Len(s) = m
        /\ \A k \in 1 .. m : s[k] = InTransit[d][k + 1]
    BY <1>11, <1>12, <2>1, <2>2, HeadTailProperties
  <2>4. ASSUME NEW k \in 1 .. m PROVE InTransit'[d][k] = s[k]
    <3>1. k + 1 \in 1 .. m + 1 /\ NArrived(d) + (k + 1) = n + k
      BY <1>2, <1>3, <1>11
    <3>2. InTransit[d][k + 1] = MessageOf(accepted[d][n + k])
      BY <1>12, <3>1
    <3>. QED  BY <1>13, <2>3, <3>2, <2>4
  <2>5. InTransit'[d] = s
    BY <1>13, <2>3, <2>4, SeqEqual
  <2>6. Head(InTransit[d]) = MessageOf(accepted[d][n])
    <3>1. 1 \in 1 .. m + 1 /\ NArrived(d) + 1 = n
      BY <1>2, <1>11
    <3>2. InTransit[d][1] = MessageOf(accepted[d][n])
      BY <1>12, <3>1
    <3>. QED  BY <1>12, <3>2
  <2>. QED  BY <2>1, <2>2, <2>5, <2>6
<1>15. \A c \in Device : c # d => /\ InTransit'[c] = InTransit[c]
                                  /\ Outcome'[c] = Outcome[c]
  <2>1. \A c \in Device : c # d => arrivals'[c] = arrivals[c]
    BY <1>7 DEF IInv, TypeOK
  <2>. QED  BY <1>7, <2>1 DEF InTransit, Outcome, NAccepted, NArrived
<1>16. InTransit' = [InTransit EXCEPT ![d] = Tail(@)]
  BY <1>14, <1>15 DEF InTransit
<1>17. PICK y : y = [msg |-> MessageOf(x), lost |-> corrupt]
  OBVIOUS
<1>18. y = [msg |-> Link0!Presented(Head(InTransit[d])), lost |-> corrupt] /\ y \in Result
  <2>1. accepted[d][n] \in Request
    BY <1>11, Types DEF IInv
  <2>2. MessageOf(x) = Link0!Presented(MessageOf(accepted[d][n]))
    BY <1>6, <2>1 DEF MessageOf, Link0!Presented
  <2>. QED  BY <1>6, <1>14, <1>17, <2>2 DEF Result, MessageOf, Arrival
<1>19. Outcome'[d] = Append(Outcome[d], y)
  <2>1. /\ Outcome[d] \in Seq(Result) /\ Len(Outcome[d]) = NArrived(d)
        /\ \A k \in 1 .. NArrived(d) :
             Outcome[d][k] = [msg |-> MessageOf(arrivals[d][k]),
                              lost |-> arrivals[d][k].corrupt]
    BY OutcomeElements DEF OutcomeOf
  <2>2. /\ Outcome'[d] \in Seq(Result) /\ Len(Outcome'[d]) = n
        /\ \A k \in 1 .. n :
             Outcome'[d][k] = [msg |-> MessageOf(arrivals'[d][k]),
                               lost |-> arrivals'[d][k].corrupt]
    <3>1. /\ Outcome'[d] \in Seq(Result) /\ Len(Outcome'[d]) = NArrived(d)'
          /\ \A k \in 1 .. NArrived(d)' :
               Outcome'[d][k] = [msg |-> MessageOf(arrivals'[d][k]),
                                 lost |-> arrivals'[d][k].corrupt]
      <4>1. (\A c \in Device : OutcomeOf(c))'
        BY ElementsNext
      <4>. QED  BY <4>1 DEF OutcomeOf
    <3>. QED  BY <1>8, <3>1
  <2>3. PICK s : s = Append(Outcome[d], y)
    OBVIOUS
  <2>4. /\ s \in Seq(Result) /\ Len(s) = n
        /\ \A k \in 1 .. NArrived(d) : s[k] = Outcome[d][k]
        /\ s[n] = y
    BY <1>2, <1>18, <2>1, <2>3, AppendProperties
  <2>5. ASSUME NEW k \in 1 .. n PROVE Outcome'[d][k] = s[k]
    <3>1. CASE k = n
      BY <1>6, <1>8, <1>17, <2>2, <2>4, <3>1, <2>5
    <3>2. CASE k \in 1 .. NArrived(d)
      <4>1. arrivals'[d][k] = arrivals[d][k]
        BY <1>8, <3>2
      <4>2. Outcome'[d][k] = [msg |-> MessageOf(arrivals'[d][k]),
                              lost |-> arrivals'[d][k].corrupt]
        BY <2>2, <2>5
      <4>3. Outcome[d][k] = [msg |-> MessageOf(arrivals[d][k]),
                             lost |-> arrivals[d][k].corrupt]
        BY <2>1, <3>2
      <4>4. s[k] = Outcome[d][k]
        BY <2>4, <3>2
      <4>. QED  BY <4>1, <4>2, <4>3, <4>4
    <3>. QED  BY <1>2, <1>3, <2>5, <3>1, <3>2
  <2>. QED  BY <2>2, <2>3, <2>4, <2>5, SeqEqual
<1>20. Outcome' = [Outcome EXCEPT ![d] = Append(@, y)]
  BY <1>15, <1>19 DEF Outcome
<1>21. corrupt => \E r \in Lossy : r # d
  BY <1>4
<1>22. Link0!Arrive(d)
  BY <1>7, <1>14, <1>16, <1>18, <1>20, <1>21 DEF Link0!Arrive, Running
<1>. QED  BY <1>22 DEF Link0!Next

(* Every step of PointToPoint is a step of the link or a stutter. *)
LEMMA LinkStep == IInv /\ IInv' /\ [Next]_vars => [Link0!Next]_Link0!vars
<1>. SUFFICES ASSUME IInv, IInv', [Next]_vars PROVE [Link0!Next]_Link0!vars
  OBVIOUS
<1>1. CASE UNCHANGED vars
  BY <1>1, LinkStutter DEF vars, histVars
<1>2. CASE \E d \in Device : SetQueue(d) \/ Attach(d)
  <2>1. TooMany \in Fault
    BY DEF Fault
  <2>. QED  BY <1>2, <2>1, LinkStutter, LinkAbort DEF SetQueue, Attach, histVars
<1>3. CASE Tick
  BY <1>3, LinkStutter DEF Tick, histVars
<1>4. CASE \E e \in events : RunEvent(e)
  <2>1. PICK e \in events : RunEvent(e)
    BY <1>4
  <2>2. CASE e.kind = "TransmitComplete" /\ TransmitComplete(e)
    <3>1. CompletionFault(e.dev) # NoFault => CompletionFault(e.dev) \in Fault
      BY DEF CompletionFault, TransmitFault, Fault
    <3>. QED  BY <2>1, <2>2, <3>1, LinkStutter, LinkAbort
              DEF TransmitComplete, TransmitStart, RunEvent, histVars
  <2>3. CASE e.kind = "Receive" /\ Receive(e)
    <3>1. NoRemote \in Fault
      BY DEF Fault
    <3>2. CASE Abort(NoRemote)
      BY <2>1, <3>1, <3>2, LinkAbort DEF RunEvent
    <3>3. CASE e.dev \in Lossy /\ Arrive(e, TRUE)
      BY <2>1, <2>3, <3>3, LinkArrive DEF RunEvent
    <3>4. CASE Arrive(e, FALSE)
      BY <2>1, <2>3, <3>4, LinkArrive DEF RunEvent
    <3>. QED  BY <2>3, <3>2, <3>3, <3>4 DEF Receive, Deliver
  <2>. QED  BY <2>1, <2>2, <2>3 DEF RunEvent
<1>5. CASE \E d \in Device, size \in Size, proto \in EtherType : Send(d, size, proto)
  <2>1. PICK d \in Device, size \in Size, proto \in EtherType : Send(d, size, proto)
    BY <1>5
  <2>2. Running
    BY <2>1 DEF Send
  <2>3. CASE Drop(d)
    BY <2>3, LinkStutter DEF Drop
  <2>4. CASE Abort(NoProtocol) \/ Abort(NullQueue)
    <3>1. NoProtocol \in Fault /\ NullQueue \in Fault
      BY DEF Fault
    <3>. QED  BY <2>2, <2>4, <3>1, LinkAbort
  <2>5. CASE proto \in KnownEtherType /\ SendNow(d, size, proto)
    <3>1. TransmitFault(m_txMachineState[d]) # NoFault =>
            TransmitFault(m_txMachineState[d]) \in Fault
      BY DEF TransmitFault, Fault
    <3>. QED  BY <2>2, <2>5, <3>1, LinkAbort, LinkAccept DEF SendNow, TransmitStart
  <2>6. CASE proto \in KnownEtherType /\ SendLater(d, size, proto)
    BY <2>2, <2>6, LinkAccept DEF SendLater
  <2>. QED  BY <2>1, <2>3, <2>4, <2>5, <2>6 DEF Send, SendOnLink
<1>. QED  BY <1>1, <1>2, <1>3, <1>4, <1>5 DEF Next, Simulate

(* The device, the channel and the simulator implement the FIFO link.      *)
THEOREM Refinement == Spec => ImplementsFifoLink
<1>1. Init => Link0!Init
  BY LinkInit
<1>2. IInv /\ IInv' /\ [Next]_vars => [Link0!Next]_Link0!vars
  BY LinkStep
<1>. QED  BY <1>1, <1>2, Invariance, PTL DEF Spec, Link0!Spec, ImplementsFifoLink
=============================================================================
