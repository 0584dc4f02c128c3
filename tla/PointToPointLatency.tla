------------------------ MODULE PointToPointLatency ------------------------
(***************************************************************************)
(* The bound on the latency of PointToPoint, for every capacity of the     *)
(* queue and every number of packets: LatencyInv is inductive relative to  *)
(* the invariant of PointToPointProofs, and implies it.                    *)
(***************************************************************************)
EXTENDS PointToPointProofs

USE DeviceAssumption, SizeAssumption, QueueAssumption, TimingAssumption,
    BoundAssumption
-----------------------------------------------------------------------------
(* Slots. *)

LEMMA TxMonotone ==
  ASSUME NEW d \in Device, NEW x \in Nat, NEW y \in Nat, x <= y
  PROVE  TxTime(d, x) <= TxTime(d, y)
<1>1. ByteTime[d] \in Nat
  OBVIOUS
<1>2. \A b \in Nat : x * b <= y * b
  BY SMTT(20)
<1> QED
  BY <1>1, <1>2 DEF TxTime

LEMMA SlotBounds ==
  ASSUME NEW d \in Device
  PROVE  /\ LongestTx(d) \in Nat /\ Slot(d) \in Nat
         /\ \A size \in Size : TxTime(d, size + PppHeaderSize) + InterframeGap <= Slot(d)
         /\ \A size \in Size : TxTime(d, size + PppHeaderSize) <= LongestTx(d)
<1> DEFINE T == {TxTime(d, size + PppHeaderSize) : size \in Size}
           Longest(t) == \A size \in Size : TxTime(d, size + PppHeaderSize) <= t
<1>1. \A size \in Size : size \in Nat /\ size + PppHeaderSize \in Nat
  BY DEF PppHeaderSize
<1>2. \A size \in Size : TxTime(d, size + PppHeaderSize) \in Nat
  BY <1>1, TxTimeType
<1>3. PICK top \in Size : \A size \in Size : size <= top
  BY LargestSize
<1>4. ASSUME NEW size \in Size
      PROVE  TxTime(d, size + PppHeaderSize) <= TxTime(d, top + PppHeaderSize)
  <2>1. size + PppHeaderSize <= top + PppHeaderSize
    BY <1>1, <1>3 DEF PppHeaderSize
  <2> QED
    BY <1>1, <2>1, TxMonotone
<1>5. \E t \in T : Longest(t)
  BY <1>4
<1>6. LongestTx(d) \in T /\ Longest(LongestTx(d))
  BY <1>5 DEF LongestTx
<1>7. LongestTx(d) \in Nat
  BY <1>2, <1>6
<1>8. InterframeGap \in Nat
  OBVIOUS
<1> QED
  BY <1>2, <1>6, <1>7, <1>8 DEF Slot

(* The times of slots: all there is about their multiples. *)
LEMMA Slots ==
  ASSUME NEW w \in Nat
  PROVE  /\ \A i \in Nat : i * w \in Nat /\ (i + 1) * w = i * w + w
         /\ \A i, j \in Nat : i <= j => i * w <= j * w
         /\ \A i \in Nat \ {0} : (i - 1) * w \in Nat /\ i * w = (i - 1) * w + w
  BY SMTT(30)

LEMMA AcceptedSize ==
  ASSUME TypeOK, NEW d \in Device, NEW k \in 1 .. NAccepted(d)
  PROVE  /\ TxTime(d, FrameSize(d, k)) + InterframeGap <= Slot(d)
         /\ TxTime(d, FrameSize(d, k)) <= LongestTx(d)
         /\ TxTime(d, FrameSize(d, k)) \in Nat
<1>1. accepted[d][k] \in Request
  BY Types
<1>2. accepted[d][k].size \in Size /\ accepted[d][k].size \in Nat
  BY <1>1 DEF Request
<1>3. accepted[d][k].size + PppHeaderSize \in Nat
  BY <1>2 DEF PppHeaderSize
<1> QED
  BY <1>2, <1>3, SlotBounds, TxTimeType DEF FrameSize
-----------------------------------------------------------------------------
(* The steps that matter: a device that was idle starts, a device that was *)
(* busy queues, and a device that has finished starts the next packet.     *)

StartsAtOnce(d) ==
  /\ Idle(d)
  /\ \E size \in Size, proto \in KnownEtherType :
       /\ TransmitStart(d, Append(m_queue[d], Framed(d, size, proto)), events)
       /\ Accept(d, size, proto)
Queues(d) ==
  /\ ~Idle(d) /\ ~QueueFull(d)
  /\ \E size \in Size, proto \in KnownEtherType : SendLater(d, size, proto)
StartsNext(d) ==
  /\ ~NothingQueued(d)
  /\ \E e \in events :
       /\ IsNext(e) /\ Completes(e, d)
       /\ TransmitStart(d, m_queue[d], events \ {e})
       /\ UNCHANGED accepted
OtherSteps == UNCHANGED <<accepted, starts, m_queue>> /\ now <= now'

LEMMA Steps ==
  ASSUME IInv, [Next]_vars
  PROVE  \/ OtherSteps
         \/ \E d \in Device : StartsAtOnce(d) \/ Queues(d) \/ StartsNext(d)
<1> now \in Nat
  BY DEF IInv, TypeOK
<1>1. CASE \E d \in Device : SetQueue(d) \/ Attach(d)
  BY <1>1 DEF SetQueue, Attach, Abort, OtherSteps, devVars, simVars, histVars
<1>2. ASSUME NEW d \in Device, NEW size \in Size, NEW proto \in EtherType,
             Send(d, size, proto)
      PROVE  OtherSteps \/ StartsAtOnce(d) \/ Queues(d)
  <2>1. CASE Drop(d)
    BY <2>1 DEF Drop, OtherSteps, devVars, simVars
  <2>2. CASE \E fault \in {NoProtocol, NullQueue} : Abort(fault)
    BY <2>2 DEF Abort, OtherSteps, devVars, simVars, histVars
  <2>3. CASE proto \in KnownEtherType /\ Idle(d) /\ SendNow(d, size, proto)
    <3>1. CASE Abort(TransmitFault(m_txMachineState[d]))
      BY <3>1 DEF Abort, OtherSteps, devVars, simVars, histVars
    <3>2. CASE /\ TransmitStart(d, Append(m_queue[d], Framed(d, size, proto)), events)
               /\ Accept(d, size, proto)
      BY <2>3, <3>2 DEF StartsAtOnce
    <3> QED
      BY <2>3, <3>1, <3>2 DEF SendNow
  <2>4. CASE proto \in KnownEtherType /\ ~QueueFull(d) /\ ~Idle(d) /\ SendLater(d, size, proto)
    BY <2>4 DEF Queues
  <2> QED
    BY <1>2, <2>1, <2>2, <2>3, <2>4 DEF Send, SendOnLink
<1>3. CASE Tick
  BY <1>3 DEF Tick, OtherSteps, devVars, histVars
<1>4. ASSUME NEW e \in events, RunEvent(e)
      PROVE  OtherSteps \/ \E d \in Device : StartsNext(d)
  <2>1. IsNext(e) /\ e.dev \in Device
    BY <1>4, EventTypes DEF RunEvent, IInv
  <2>2. CASE \E fault : Abort(fault)
    BY <2>2 DEF Abort, OtherSteps, devVars, simVars, histVars
  <2>3. CASE Arrive(e, TRUE) \/ Arrive(e, FALSE)
    <3>1. UNCHANGED <<devVars, now, accepted, starts>>
      BY <2>3, Zenon DEF Arrive
    <3> QED
      BY <3>1 DEF OtherSteps, devVars
  <2>4. CASE e.kind = "TransmitComplete" /\ NothingQueued(e.dev)
             /\ UNCHANGED <<m_queue, now, histVars>>
    BY <2>4 DEF OtherSteps, histVars
  <2>5. CASE e.kind = "TransmitComplete" /\ ~NothingQueued(e.dev)
             /\ TransmitStart(e.dev, m_queue[e.dev], events \ {e}) /\ UNCHANGED accepted
    BY <2>1, <2>5 DEF StartsNext, Completes
  <2>6. CASE e.kind = "TransmitComplete" /\ TransmitComplete(e)
    <3>1. \/ Abort(CompletionFault(e.dev))
          \/ NothingQueued(e.dev) /\ UNCHANGED <<m_queue, now, histVars>>
          \/ /\ ~NothingQueued(e.dev)
             /\ TransmitStart(e.dev, m_queue[e.dev], events \ {e})
             /\ UNCHANGED accepted
      BY <2>6 DEF TransmitComplete
    <3> QED
      BY <2>2, <2>4, <2>5, <2>6, <3>1
  <2>7. CASE e.kind = "Receive" /\ Receive(e)
    <3>1. Abort(NoRemote) \/ Arrive(e, TRUE) \/ Arrive(e, FALSE)
      BY <2>7 DEF Receive, Deliver
    <3> QED
      BY <2>2, <2>3, <3>1
  <2> QED
    BY <1>4, <2>6, <2>7 DEF RunEvent
<1>5. CASE UNCHANGED vars
  BY <1>5 DEF vars, devVars, simVars, histVars, OtherSteps
<1> QED
  BY <1>1, <1>2, <1>3, <1>4, <1>5 DEF Next, Simulate
-----------------------------------------------------------------------------
LatencyOf(d) ==
  /\ \A k \in 1 .. NStarted(d) :
       /\ starts[d][k] <= now
       /\ starts[d][k] <= accepted[d][k].at + QueueLimit * Slot(d)
  /\ \A i \in 1 .. NQueued(d) :
       Free(d, NStarted(d)) + (i - 1) * Slot(d)
         <= accepted[d][NStarted(d) + i].at + QueueLimit * Slot(d)

LEMMA Devices == LatencyInv <=> \A d \in Device : LatencyOf(d)
  BY DEF LatencyInv, LatencyOf

(* A device that a step does not touch. *)
LEMMA Elsewhere ==
  ASSUME IInv, NEW d \in Device, LatencyOf(d), now' \in Nat, now <= now',
         accepted'[d] = accepted[d], starts'[d] = starts[d], m_queue'[d] = m_queue[d]
  PROVE  LatencyOf(d)'
<1>1. NStarted(d)' = NStarted(d) /\ NQueued(d)' = NQueued(d)
  BY DEF NStarted, NQueued
<1>2. \A k \in 1 .. NStarted(d) : starts[d][k] \in Nat
  BY FreeType DEF IInv
<1>3. now \in Nat
  BY DEF IInv, TypeOK
<1>4. Free(d, NStarted(d))' = Free(d, NStarted(d))
  BY <1>1 DEF Free, Finish, FrameSize, TxTime
<1>5. ASSUME NEW k \in 1 .. NStarted(d)
      PROVE  /\ starts'[d][k] <= now'
             /\ starts'[d][k] <= accepted'[d][k].at + QueueLimit * Slot(d)
  BY <1>2, <1>3 DEF LatencyOf
<1>6. \A i \in 1 .. NQueued(d) :
        Free(d, NStarted(d))' + (i - 1) * Slot(d)
          <= accepted'[d][NStarted(d) + i].at + QueueLimit * Slot(d)
  BY <1>4 DEF LatencyOf
<1> QED
  BY <1>1, <1>5, <1>6 DEF LatencyOf, Slot, LongestTx, TxTime

(* What TransmitStart does to the sequences of its device. *)
LEMMA OneStarted ==
  ASSUME TypeOK, NEW d \in Device, NEW q \in Seq(Packet), q # <<>>, NEW pending,
         TransmitStart(d, q, pending)
  PROVE  /\ NStarted(d)' = NStarted(d) + 1
         /\ starts'[d][NStarted(d) + 1] = now
         /\ \A k \in 1 .. NStarted(d) : starts'[d][k] = starts[d][k]
         /\ m_queue'[d] = Tail(q) /\ NQueued(d)' = Len(q) - 1
         /\ \A c \in Device : c # d => starts'[c] = starts[c] /\ m_queue'[c] = m_queue[c]
         /\ now' = now
<1>1. /\ starts' = [starts EXCEPT ![d] = Append(starts[d], now)]
      /\ m_queue' = [m_queue EXCEPT ![d] = Tail(q)]
      /\ now' = now
  BY DEF TransmitStart
<1>2. starts'[d] = Append(starts[d], now) /\ m_queue'[d] = Tail(q)
  BY <1>1 DEF TypeOK
<1>3. starts[d] \in Seq(Nat) /\ now \in Nat
  BY DEF TypeOK
<1>4. /\ Len(Append(starts[d], now)) = Len(starts[d]) + 1
      /\ Append(starts[d], now)[Len(starts[d]) + 1] = now
      /\ \A k \in 1 .. Len(starts[d]) : Append(starts[d], now)[k] = starts[d][k]
  BY <1>3, AppendProperties
<1>5. Len(Tail(q)) = Len(q) - 1
  BY TailElements
<1> QED
  BY <1>1, <1>2, <1>4, <1>5 DEF NStarted, NQueued, TypeOK

(* The transmission that starts now keeps the device for at most one slot. *)
LEMMA FreeSoon ==
  ASSUME TypeOK, QueueInv, NEW d \in Device, NEW k \in 1 .. NStarted(d), starts[d][k] <= now
  PROVE  Free(d, k) <= now + Slot(d) /\ Free(d, k) \in Nat
<1>1. k \in 1 .. NAccepted(d)
  BY StartedAccepted
<1>2. starts[d][k] \in Nat /\ Free(d, k) \in Nat
  BY FreeType
<1>3. TxTime(d, FrameSize(d, k)) + InterframeGap <= Slot(d)
  BY <1>1, AcceptedSize
<1>4. TxTime(d, FrameSize(d, k)) \in Nat /\ Slot(d) \in Nat /\ now \in Nat
  BY <1>1, AcceptedSize, SlotBounds DEF TypeOK
<1> QED
  BY <1>2, <1>3, <1>4 DEF Free, Finish

(* Accept adds one request, made now. *)
LEMMA OneAccepted ==
  ASSUME IInv, NEW d \in Device, NEW size \in Size, NEW proto \in KnownEtherType,
         Accept(d, size, proto)
  PROVE  /\ NAccepted(d)' = NAccepted(d) + 1
         /\ accepted'[d][NAccepted(d) + 1].at = now
         /\ \A k \in 1 .. NAccepted(d) : accepted'[d][k] = accepted[d][k]
         /\ \A c \in Device : c # d => accepted'[c] = accepted[c]
         /\ Framed(d, size, proto) \in Packet
<1>1. [size |-> size, proto |-> proto, at |-> now].at = now
  OBVIOUS
<1>2. /\ StartAccepted(d)
      /\ NAccepted(d)' = NAccepted(d) + 1
      /\ accepted'[d][NAccepted(d) + 1] = [size |-> size, proto |-> proto, at |-> now]
      /\ Framed(d, size, proto) \in Packet
  BY AcceptOne
<1>3. /\ \A k \in 1 .. NAccepted(d) : accepted'[d][k] = accepted[d][k]
      /\ \A c \in Device : c # d => accepted'[c] = accepted[c]
  BY <1>2 DEF StartAccepted
<1>4. accepted'[d][NAccepted(d) + 1].at = now
  BY <1>1, <1>2
<1> QED
  BY <1>2, <1>3, <1>4

(* What the invariant says of the counts of a device. *)
LEMMA Counts ==
  ASSUME IInv, NEW d \in Device
  PROVE  /\ NStarted(d) \in Nat /\ NQueued(d) \in Nat /\ NAccepted(d) \in Nat
         /\ NStarted(d) + NQueued(d) = NAccepted(d)
         /\ NQueued(d) <= QueueLimit
         /\ now \in Nat /\ QueueLimit \in Nat \ {0}
         /\ m_queue[d] \in Seq(Packet)
BY Types DEF IInv, QueueInv, TypeOK

LEMMA StartsAtOnceKeeps ==
  ASSUME IInv, LatencyInv, NEW d \in Device, StartsAtOnce(d)
  PROVE  LatencyInv'
<1>1. PICK size \in Size, proto \in KnownEtherType :
        /\ TransmitStart(d, Append(m_queue[d], Framed(d, size, proto)), events)
        /\ Accept(d, size, proto)
  BY DEF StartsAtOnce
<1> DEFINE q == Append(m_queue[d], Framed(d, size, proto))
           N == NStarted(d)
<1>2. NQueued(d) = 0
  BY DEF IInv, MachineInv, StartsAtOnce
<1>3. N \in Nat /\ NAccepted(d) = N /\ now \in Nat
  BY <1>2, Counts
<1>4. /\ NAccepted(d)' = N + 1
      /\ accepted'[d][N + 1].at = now
      /\ \A k \in 1 .. N : accepted'[d][k] = accepted[d][k]
      /\ \A c \in Device : c # d => accepted'[c] = accepted[c]
      /\ Framed(d, size, proto) \in Packet
  <2> HIDE DEF N
  <2> QED
    BY <1>1, <1>3, OneAccepted
<1>5. q \in Seq(Packet) /\ q # <<>> /\ Len(q) = 1
  BY SMTT(40), <1>2, <1>4, Counts, AppendProperties DEF NQueued
<1>6. TransmitStart(d, q, events) /\ TypeOK
  BY <1>1 DEF IInv
<1>7. /\ NStarted(d)' = N + 1 /\ starts'[d][N + 1] = now /\ now' = now
      /\ \A k \in 1 .. N : starts'[d][k] = starts[d][k]
      /\ NQueued(d)' = 0
      /\ \A c \in Device : c # d => starts'[c] = starts[c] /\ m_queue'[c] = m_queue[c]
  <2>1. /\ NStarted(d)' = NStarted(d) + 1
        /\ starts'[d][NStarted(d) + 1] = now
        /\ \A k \in 1 .. NStarted(d) : starts'[d][k] = starts[d][k]
        /\ m_queue'[d] = Tail(q) /\ NQueued(d)' = Len(q) - 1
        /\ \A c \in Device : c # d => starts'[c] = starts[c] /\ m_queue'[c] = m_queue[c]
        /\ now' = now
    <3> HIDE DEF q, N
    <3> QED
      BY <1>5, <1>6, OneStarted, Zenon
  <2> QED
    BY <1>5, <2>1
<1>8. QueueLimit * Slot(d) \in Nat
  BY SlotBounds, Slots
<1>9. LatencyOf(d)'
  <2>1. ASSUME NEW k \in 1 .. N + 1
        PROVE  /\ starts'[d][k] <= now'
               /\ starts'[d][k] <= accepted'[d][k].at + QueueLimit * Slot(d)
    <3>1. CASE k = N + 1
      BY <1>3, <1>4, <1>7, <1>8, <3>1
    <3>2. CASE k \in 1 .. N
      BY <1>3, <1>4, <1>7, <3>2 DEF LatencyInv
    <3> QED
      BY <1>3, <3>1, <3>2
  <2>2. 1 .. NQueued(d)' = {}
    BY <1>7
  <2>3. Slot(d)' = Slot(d)
    BY DEF Slot, LongestTx, TxTime
  <2> QED
    BY <1>7, <2>1, <2>2, <2>3 DEF LatencyOf
<1>10. \A c \in Device : c # d => LatencyOf(c)'
  BY <1>3, <1>4, <1>7, Devices, Elsewhere
<1>11. \A c \in Device : LatencyOf(c)'
  BY <1>9, <1>10
<1> QED
  BY <1>11 DEF LatencyInv, LatencyOf
-----------------------------------------------------------------------------
(* A packet that is queued: what is ahead of it is the packet being        *)
(* transmitted, gone within one slot, and fewer than QueueLimit others.    *)
LEMMA QueuesKeeps ==
  ASSUME IInv, LatencyInv, NEW d \in Device, Queues(d)
  PROVE  LatencyInv'
<1>1. PICK size \in Size, proto \in KnownEtherType : SendLater(d, size, proto)
  BY DEF Queues
<1> DEFINE N == NStarted(d)
           Q == NQueued(d)
<1>2. /\ N \in Nat /\ Q \in Nat /\ NAccepted(d) = N + Q /\ now \in Nat
      /\ m_queue[d] \in Seq(Packet) /\ QueueLimit \in Nat
  BY Counts
<1>3. Accept(d, size, proto) /\ starts' = starts /\ now' = now
  BY <1>1 DEF SendLater, simVars
<1>4. /\ accepted'[d][(N + Q) + 1].at = now
      /\ \A k \in 1 .. N + Q : accepted'[d][k] = accepted[d][k]
      /\ \A c \in Device : c # d => accepted'[c] = accepted[c]
      /\ Framed(d, size, proto) \in Packet
  <2>1. /\ accepted'[d][NAccepted(d) + 1].at = now
        /\ \A k \in 1 .. NAccepted(d) : accepted'[d][k] = accepted[d][k]
        /\ \A c \in Device : c # d => accepted'[c] = accepted[c]
        /\ Framed(d, size, proto) \in Packet
    BY <1>3, OneAccepted
  <2> QED
    BY <1>2, <2>1
<1>5. /\ m_queue'[d] = Append(m_queue[d], Framed(d, size, proto))
      /\ \A c \in Device : c # d => m_queue'[c] = m_queue[c]
  BY <1>1 DEF SendLater, IInv, TypeOK
<1>6. NStarted(d)' = N /\ NQueued(d)' = Q + 1
  BY <1>2, <1>3, <1>4, <1>5, AppendProperties DEF NStarted, NQueued
<1>7. Q + 1 <= QueueLimit
  BY <1>2 DEF Queues, QueueFull
<1>8. N # 0
  BY DEF Queues, IInv, MachineInv
<1>9. Free(d, N) <= now + Slot(d) /\ Free(d, N) \in Nat
  <2>1. N \in 1 .. NStarted(d) /\ starts[d][N] <= now
    BY <1>2, <1>8 DEF LatencyInv
  <2> QED
    BY <2>1, FreeSoon DEF IInv
<1>10. Slot(d) \in Nat /\ Slot(d)' = Slot(d)
  BY SlotBounds DEF Slot, LongestTx, TxTime
<1>11. Free(d, NStarted(d))' = Free(d, N)
  <2>1. N \in 1 .. N + Q
    BY <1>2, <1>8
  <2>2. accepted'[d][N] = accepted[d][N]
    BY <1>4, <2>1
  <2> QED
    BY <1>3, <1>6, <2>2 DEF Free, Finish, FrameSize, TxTime
<1>12. ASSUME NEW k \in 1 .. N
       PROVE  /\ starts'[d][k] <= now'
              /\ starts'[d][k] <= accepted'[d][k].at + QueueLimit * Slot(d)
  <2>1. k \in 1 .. N + Q
    BY <1>2
  <2> QED
    BY <1>3, <1>4, <2>1 DEF LatencyInv
<1>13. ASSUME NEW i \in 1 .. Q + 1
       PROVE  Free(d, N) + (i - 1) * Slot(d) <= accepted'[d][N + i].at + QueueLimit * Slot(d)
  <2>1. CASE i \in 1 .. Q
    <3>1. N + i \in 1 .. N + Q
      <4> HIDE DEF N, Q
      <4> QED
        BY <1>2, <2>1
    <3>2. accepted'[d][N + i] = accepted[d][N + i]
      BY <1>4, <3>1
    <3> QED
      BY <2>1, <3>2 DEF LatencyInv
  <2>2. CASE i = Q + 1
    <3>1. accepted'[d][N + i].at = now
      <4>1. N + i = (N + Q) + 1
        <5> HIDE DEF N, Q
        <5> QED
          BY <1>2, <2>2
      <4> QED
        BY <1>4, <4>1
    <3>2. /\ Q * Slot(d) \in Nat /\ (Q + 1) * Slot(d) = Q * Slot(d) + Slot(d)
          /\ (Q + 1) * Slot(d) \in Nat /\ QueueLimit * Slot(d) \in Nat
          /\ (Q + 1) * Slot(d) <= QueueLimit * Slot(d)
      <4> DEFINE w == Slot(d)
      <4>1. w \in Nat
        BY <1>10
      <4> HIDE DEF w, Q
      <4>2. Q + 1 \in Nat /\ QueueLimit \in Nat
        BY <1>2
      <4>3. /\ Q * w \in Nat /\ (Q + 1) * w = Q * w + w
            /\ (Q + 1) * w \in Nat /\ QueueLimit * w \in Nat
        BY <1>2, <4>1, <4>2, Slots
      <4>4. (Q + 1) * w <= QueueLimit * w
        BY <1>7, <4>1, <4>2, Slots
      <4> QED
        BY <4>3, <4>4 DEF w
    <3>3. i - 1 = Q
      BY <1>2, <2>2
    <3>4. Free(d, N) + Q * Slot(d) <= now + QueueLimit * Slot(d)
      <4> DEFINE w == Slot(d)
                 a == Q * w
                 b == (Q + 1) * w
                 c == QueueLimit * w
                 f == Free(d, N)
      <4>1. /\ w \in Nat /\ a \in Nat /\ b \in Nat /\ c \in Nat /\ f \in Nat
            /\ b = a + w /\ b <= c /\ f <= now + w
        BY <1>9, <1>10, <3>2
      <4>2. f + a <= now + c
        <5> HIDE DEF w, a, b, c, f
        <5> QED
          BY <1>2, <4>1
      <4> QED
        BY <4>2
    <3> QED
      BY <3>1, <3>3, <3>4
  <2> QED
    BY <1>2, <2>1, <2>2
<1>14. LatencyOf(d)'
  BY <1>6, <1>10, <1>11, <1>12, <1>13 DEF LatencyOf
<1>15. \A c \in Device : c # d => LatencyOf(c)'
  BY <1>2, <1>3, <1>4, <1>5, Devices, Elsewhere
<1>16. \A c \in Device : LatencyOf(c)'
  BY <1>14, <1>15
<1> QED
  BY <1>16 DEF LatencyInv, LatencyOf
-----------------------------------------------------------------------------
(* A completion starts the next packet at the instant at which the         *)
(* transmitter is free: each packet that waits moves up by one slot.       *)
LEMMA StartsNextKeeps ==
  ASSUME IInv, LatencyInv, NEW d \in Device, StartsNext(d)
  PROVE  LatencyInv'
<1>1. PICK e \in events : /\ IsNext(e) /\ Completes(e, d)
                          /\ TransmitStart(d, m_queue[d], events \ {e})
                          /\ UNCHANGED accepted
  BY DEF StartsNext
<1> DEFINE N == NStarted(d)
           Q == NQueued(d)
           w == Slot(d)
           Tx == TxTime(d, FrameSize(d, N + 1))
<1>2. /\ N \in Nat /\ Q \in Nat /\ NAccepted(d) = N + Q /\ now \in Nat
      /\ m_queue[d] \in Seq(Packet) /\ QueueLimit \in Nat
  BY Counts
<1>3. m_queue[d] # <<>> /\ Q # 0
  BY Types DEF StartsNext, NothingQueued, IInv
<1>4. Free(d, N) = now
  BY <1>1 DEF IInv, MachineInv, IsNext
<1>5. /\ NStarted(d)' = N + 1 /\ starts'[d][N + 1] = now /\ now' = now
      /\ \A k \in 1 .. N : starts'[d][k] = starts[d][k]
      /\ NQueued(d)' = Q - 1
      /\ \A c \in Device : c # d => starts'[c] = starts[c] /\ m_queue'[c] = m_queue[c]
  <2>1. /\ NStarted(d)' = NStarted(d) + 1
        /\ starts'[d][NStarted(d) + 1] = now
        /\ \A k \in 1 .. NStarted(d) : starts'[d][k] = starts[d][k]
        /\ m_queue'[d] = Tail(m_queue[d]) /\ NQueued(d)' = Len(m_queue[d]) - 1
        /\ \A c \in Device : c # d => starts'[c] = starts[c] /\ m_queue'[c] = m_queue[c]
        /\ now' = now
    <3> HIDE DEF N, Q
    <3> DEFINE q == m_queue[d]
               pending == events \ {e}
    <3>1. TransmitStart(d, q, pending) /\ q \in Seq(Packet) /\ q # <<>> /\ TypeOK
      BY <1>1, <1>2, <1>3 DEF IInv
    <3> HIDE DEF q, pending
    <3>2. /\ NStarted(d)' = NStarted(d) + 1
          /\ starts'[d][NStarted(d) + 1] = now
          /\ \A k \in 1 .. NStarted(d) : starts'[d][k] = starts[d][k]
          /\ m_queue'[d] = Tail(q) /\ NQueued(d)' = Len(q) - 1
          /\ \A c \in Device : c # d => starts'[c] = starts[c] /\ m_queue'[c] = m_queue[c]
          /\ now' = now
      BY <3>1, OneStarted, Zenon
    <3> QED
      BY <3>2 DEF q
  <2> QED
    BY <2>1 DEF NQueued
<1>6. w \in Nat /\ Slot(d)' = w /\ QueueLimit * w \in Nat
  BY SlotBounds, Slots DEF Slot, LongestTx, TxTime
<1>7. Tx \in Nat /\ Tx + InterframeGap <= w
  <2>1. N + 1 \in 1 .. NAccepted(d)
    <3> HIDE DEF N, Q
    <3> QED
      BY <1>2, <1>3
  <2> QED
    BY <2>1, AcceptedSize DEF IInv
<1>8. Free(d, NStarted(d))' = (now + Tx) + InterframeGap
  BY <1>1, <1>5 DEF Free, Finish, FrameSize, TxTime
<1>9. \A i \in 1 .. Q : now + (i - 1) * w <= accepted[d][N + i].at + QueueLimit * w
  BY <1>4 DEF LatencyInv
<1>10. ASSUME NEW k \in 1 .. N + 1
       PROVE  /\ starts'[d][k] <= now'
              /\ starts'[d][k] <= accepted'[d][k].at + QueueLimit * w
  <2>1. CASE k = N + 1
    <3>1. 1 \in 1 .. Q
      BY <1>2, <1>3
    <3>2. now + (1 - 1) * w <= accepted[d][N + 1].at + QueueLimit * w
      BY <1>9, <3>1
    <3>3. (1 - 1) * w = 0
      BY <1>6
    <3>4. now <= accepted[d][k].at + QueueLimit * w
      BY <1>2, <2>1, <3>2, <3>3
    <3> QED
      BY <1>1, <1>2, <1>5, <2>1, <3>4
  <2>2. CASE k \in 1 .. N
    BY <1>1, <1>5, <2>2 DEF LatencyInv
  <2> QED
    BY <1>2, <2>1, <2>2
<1>11. ASSUME NEW i \in 1 .. Q - 1
       PROVE  ((now + Tx) + InterframeGap) + (i - 1) * w
                <= accepted[d][(N + 1) + i].at + QueueLimit * w
  <2>1. i + 1 \in 1 .. Q /\ i \in Nat \ {0} /\ (i + 1) - 1 = i
    <3> HIDE DEF Q
    <3> QED
      BY <1>2
  <2>2. N + (i + 1) = (N + 1) + i
    <3> HIDE DEF N
    <3> QED
      BY <1>2, <2>1
  <2>3. now + i * w <= accepted[d][(N + 1) + i].at + QueueLimit * w
    BY <1>9, <2>1, <2>2
  <2>4. /\ (i - 1) * w \in Nat /\ i * w = (i - 1) * w + w /\ i * w \in Nat
    BY <1>6, <2>1, Slots
  <2>5. accepted[d][(N + 1) + i].at \in Nat
    <3>1. N + (i + 1) \in 1 .. NAccepted(d)
      <4> HIDE DEF N, Q
      <4> QED
        BY <1>2, <2>1
    <3> QED
      BY <2>2, <3>1, Types DEF IInv
  <2> DEFINE a == accepted[d][(N + 1) + i].at
             before == (i - 1) * w
             through == i * w
             full == QueueLimit * w
  <2>6. ((now + Tx) + InterframeGap) + before <= a + full
    <3>1. /\ now + through <= a + full /\ through = before + w
          /\ before \in Nat /\ through \in Nat /\ a \in Nat /\ full \in Nat
      BY <1>6, <2>3, <2>4, <2>5
    <3> HIDE DEF a, before, through, full, Tx, w
    <3> QED
      BY <1>2, <1>6, <1>7, <3>1
  <2> QED
    BY <2>6
<1>12. LatencyOf(d)'
  <2>1. \A i \in 1 .. NQueued(d)' :
          Free(d, NStarted(d))' + (i - 1) * Slot(d)'
            <= accepted'[d][NStarted(d)' + i].at + QueueLimit * Slot(d)'
    <3> HIDE DEF N, Q, w, Tx
    <3> QED
      BY <1>1, <1>5, <1>6, <1>8, <1>11
  <2>2. \A k \in 1 .. NStarted(d)' :
          /\ starts'[d][k] <= now'
          /\ starts'[d][k] <= accepted'[d][k].at + QueueLimit * Slot(d)'
    BY <1>5, <1>6, <1>10
  <2> QED
    BY <2>1, <2>2 DEF LatencyOf
<1>13. \A c \in Device : c # d => LatencyOf(c)'
  BY <1>1, <1>2, <1>5, Devices, Elsewhere
<1>14. \A c \in Device : LatencyOf(c)'
  BY <1>12, <1>13
<1> QED
  BY <1>14 DEF LatencyInv, LatencyOf
-----------------------------------------------------------------------------
LEMMA LatencyInit == Init => LatencyInv
<1> SUFFICES ASSUME Init, NEW d \in Device PROVE LatencyOf(d)
  BY Devices
<1>1. NStarted(d) = 0 /\ NQueued(d) = 0
  BY DEF Init, NStarted, NQueued
<1> QED
  BY <1>1 DEF LatencyOf

LEMMA LatencyNext ==
  ASSUME IInv, LatencyInv, [Next]_vars, now' \in Nat
  PROVE  LatencyInv'
<1>1. CASE OtherSteps
  <2>1. \A d \in Device : LatencyOf(d)'
    BY <1>1, Devices, Elsewhere DEF OtherSteps
  <2> QED
    BY <2>1 DEF LatencyInv, LatencyOf
<1>2. CASE \E d \in Device : StartsAtOnce(d) \/ Queues(d) \/ StartsNext(d)
  BY <1>2, StartsAtOnceKeeps, QueuesKeeps, StartsNextKeeps
<1> QED
  BY <1>1, <1>2, Steps

(* A packet that has been started and has not arrived is on the wire, and  *)
(* one that is queued waits for a completion; neither event has passed.    *)
LEMMA LatencyBounded ==
  ASSUME IInv, LatencyInv
  PROVE  BoundedLatency
<1> SUFFICES ASSUME NEW d \in Device, NEW k \in NArrived(d) + 1 .. NAccepted(d)
             PROVE  now <= accepted[d][k].at + Delay
                           + QueueLimit * (LongestTx(d) + InterframeGap) + LongestTx(d)
  BY DEF BoundedLatency
<1> DEFINE full == QueueLimit * Slot(d)
           a == accepted[d][k].at
<1>1. /\ NStarted(d) \in Nat /\ NQueued(d) \in Nat /\ NAccepted(d) \in Nat
      /\ NStarted(d) + NQueued(d) = NAccepted(d)
      /\ NArrived(d) \in Nat /\ now \in Nat
  BY Counts, Types DEF IInv
<1>2. full \in Nat /\ LongestTx(d) \in Nat /\ Slot(d) \in Nat
  BY SlotBounds, Slots
<1>3. k \in 1 .. NAccepted(d)
  BY <1>1
<1>4. a \in Nat
  BY <1>3, Types DEF IInv
<1>5. now <= ((a + Delay) + full) + LongestTx(d)
  <2>1. CASE k \in NArrived(d) + 1 .. NStarted(d)
    <3>1. PICK e \in events : Carries(e, d) /\ e.pkt.n = k
      BY <2>1 DEF IInv, WireInv
    <3>2. now <= Finish(d, k) + Delay
      BY <3>1 DEF IInv, WireInv, EventInv
    <3>3. k \in 1 .. NStarted(d)
      BY <1>1, <2>1
    <3>4. starts[d][k] \in Nat /\ starts[d][k] <= a + full
      BY <3>3, FreeType DEF IInv, LatencyInv
    <3>5. /\ TxTime(d, FrameSize(d, k)) <= LongestTx(d)
          /\ TxTime(d, FrameSize(d, k)) \in Nat
      BY <1>3, AcceptedSize DEF IInv
    <3> HIDE DEF full, a
    <3> QED
      BY <1>1, <1>2, <1>4, <3>2, <3>4, <3>5 DEF Finish
  <2>2. CASE k \in NStarted(d) + 1 .. NAccepted(d)
    <3> DEFINE i == k - NStarted(d)
    <3>1. i \in 1 .. NQueued(d) /\ NStarted(d) + i = k
      BY <1>1, <2>2
    <3>2. NQueued(d) # 0
      BY <1>1, <3>1
    <3>3. ~Idle(d)
      BY <3>2 DEF IInv, MachineInv
    <3>4. PICK e \in events : Completes(e, d)
      BY <3>3 DEF IInv, MachineInv
    <3>5. NStarted(d) # 0 /\ now <= Free(d, NStarted(d))
      BY <3>3, <3>4 DEF IInv, MachineInv, EventInv
    <3>6. Free(d, NStarted(d)) \in Nat
      BY <1>1, <3>5, FreeType DEF IInv
    <3> HIDE DEF i
    <3>7. Free(d, NStarted(d)) + (i - 1) * Slot(d) <= a + full
      BY <3>1 DEF LatencyInv
    <3>8. (i - 1) * Slot(d) \in Nat
      BY <1>1, <1>2, <3>1, Slots
    <3> HIDE DEF full, a
    <3> QED
      BY <1>1, <1>2, <1>4, <3>5, <3>6, <3>7, <3>8
  <2> QED
    BY <1>1, <2>1, <2>2
<1> QED
  BY <1>5 DEF Slot

(* What Send accepts arrives within QueueLimit slots, its own transmission *)
(* and the propagation delay, for every capacity of the queue, every set   *)
(* of sizes with a largest one and every pair of rates.                    *)
THEOREM LatencyCorrect == Spec => []BoundedLatency
<1>1. Init => LatencyInv
  BY LatencyInit
<1>2. IInv /\ IInv' /\ LatencyInv /\ [Next]_vars => LatencyInv'
  <2>1. IInv' => now' \in Nat
    BY DEF IInv, TypeOK
  <2> QED
    BY <2>1, LatencyNext
<1>3. IInv /\ LatencyInv => BoundedLatency
  BY LatencyBounded
<1> QED
  BY <1>1, <1>2, <1>3, Invariance, PTL DEF Spec
=============================================================================
