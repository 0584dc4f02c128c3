-------------------------- MODULE DetectionProofs --------------------------
(***************************************************************************)
(* Proofs about the experiment, for every row of links, every rate, packet *)
(* size, interval, length of the trains, threshold and moment of the stop. *)
(* First the verdict: that the loop over the statistics with its sentinel  *)
(* compares the two spreads, and how far the truncation to milliseconds    *)
(* can move it.  Then, for two clients: that they keep their schedule;     *)
(* that the experiment implements the row of links, so that what is proved *)
(* of the row in TandemProofs holds in it; and, where the links can carry  *)
(* both trains, that every packet passes every hop when it is due, so that *)
(* both trains keep their spread.                                          *)
(***************************************************************************)
EXTENDS DetectionInvariant, SequenceTheorems, FiniteSetTheorems, WellFoundedInduction, TLAPS

(* What there can be of the flows S. *)
PacketOf(S) == [flow : S, id : Nat \ {0}]
EventOf(S) ==
  Completions
    \cup [uid : Nat, at : Nat, kind : {"Receive"}, hop : Hop, pkt : PacketOf(S)]
    \cup [uid : Nat, at : Nat, kind : {"Send"}, flow : Flow]
    \cup [uid : Nat, at : Nat, kind : {"Stop"}]

(* Only packets of the flows S are in the row. *)
Carries(S) ==
  /\ queue \in [Hop -> Seq(PacketOf(S))]
  /\ events \in SUBSET EventOf(S)

Statistics == [tx : Nat, rx : Nat, timeFirstRx : Nat, timeLastRx : Nat]
SentFlows == {f \in Flow : stats[f].tx > 0}

RunTypes ==
  /\ byteTime \in ByteTimes
  /\ now \in Nat /\ nextUid \in Nat /\ offered \in Nat
  /\ stats \in [Flow -> Statistics]

(* The discs have handed on no more than there is to hand on. *)
HandTypes ==
  /\ handed \in [Hop -> Nat] /\ \A h \in Hop : handed[h] <= Len(queue[h])
  /\ wakes \in SUBSET WakeEvents

(* Only what has been sent can arrive: without this the statistics of a    *)
(* flow that the monitor does not know would say something all the same.   *)
RunInv ==
  /\ RunTypes
  /\ Carries(SentFlows)
  /\ HandTypes
  /\ \A f \in Flow \ SentFlows : stats[f] = NoStats

Found == [first : Int, second : Int, count : Nat]

(* The variables of main after the first and after the second train. *)
FoundFirst ==
  /\ found.first = Spread(Clients[1]) /\ found.second = 0 /\ found.count <= 1
FoundBoth ==
  /\ Distance(found.first, found.second)
       = Distance(Spread(Clients[1]), Spread(Clients[2]))
  /\ found.count <= 2

(* The simulator has stopped when the loop runs, so that the statistics    *)
(* are those of the end.                                                   *)
LoopInv ==
  /\ iter \in 0 .. 3 /\ found \in Found
  /\ iter <= 1 => found = [first |-> 0, second |-> 0, count |-> 0]
  /\ iter = 2 => FoundFirst
  /\ iter = 3 => FoundBoth
  /\ iter < 3 => verdict = "none"
  /\ verdict \in {"none", "Compression Detected", "Compression Not Detected"}
  /\ verdict # "none" =>
       (verdict = "Compression Detected" <=>
          Distance(found.first, found.second) > Threshold)

DetInv == RunInv /\ (Len(Clients) = 2 => LoopInv)
-----------------------------------------------------------------------------
(* Sequences of packets. *)

(* The head and the tail of a queue. *)
LEMMA QueueEnds ==
  ASSUME NEW S, NEW q \in Seq(S), q # <<>>
  PROVE  Head(q) \in S /\ Tail(q) \in Seq(S)
OBVIOUS

(* A queue with one more. *)
LEMMA QueueGrows ==
  ASSUME NEW S, NEW q \in Seq(S), NEW p \in S
  PROVE  Append(q, p) \in Seq(S) /\ Append(q, p) # <<>>
BY AppendProperties

(* More flows carry what fewer flows do. *)
LEMMA CarriesMore ==
  ASSUME NEW S, NEW T, S \subseteq T, Carries(S)
  PROVE  Carries(T)
<1>1. PacketOf(S) \subseteq PacketOf(T)
  BY DEF PacketOf
<1>2. EventOf(S) \subseteq EventOf(T)
  BY <1>1 DEF EventOf
<1>3. \A q \in Seq(PacketOf(S)) : q \in Seq(PacketOf(T))
  BY <1>1, SeqMonotonic
<1>. QED  BY <1>2, <1>3 DEF Carries

(* What an event carries, by its kind. *)
LEMMA EventFields ==
  ASSUME NEW S \in SUBSET Flow, NEW e \in EventOf(S)
  PROVE  /\ e.at \in Nat /\ e.uid \in Nat
         /\ e.kind \in {"TransmitComplete", "Receive", "Send", "Stop"}
         /\ e.kind = "TransmitComplete" => e.hop \in Hop
         /\ e.kind = "Receive" => e.hop \in Hop /\ e.pkt \in PacketOf(S)
         /\ e.kind = "Send" => e.flow \in Flow
BY DEF EventOf, Completions

(* The hops are numbers, and there is one. *)
LEMMA HopType == Hop \subseteq Nat /\ 1 \in Hop
BY HopAssumption DEF Hop
-----------------------------------------------------------------------------
(* What a transmission schedules, and what Send leaves behind. *)

(* A transmission of a packet of S schedules events of S. *)
LEMMA ScheduledIn ==
  ASSUME NEW S \in SUBSET Flow, RunTypes, now' \in Nat, NEW h \in Hop,
         NEW q \in Seq(PacketOf(S)), q # <<>>
  PROVE  Scheduled(h, q) \subseteq EventOf(S)
<1>. DEFINE p == Head(q)
<1>1. p \in PacketOf(S)
  BY QueueEnds
<1>. HIDE DEF p
<1>6. p.flow \in Flow
  BY <1>1 DEF PacketOf
<1>2. TxTime(h, p.flow) \in Nat
  <2>1. byteTime[h] \in Nat /\ Size[p.flow] \in Nat
    BY <1>6, RateAssumption, PacketAssumption DEF RunTypes
  <2>. QED  BY <2>1 DEF TxTime
<1>3. nextUid \in Nat /\ Delay \in Nat
  BY LinkAssumption DEF RunTypes
<1>4. Completion(h, p) \in EventOf(S)
  BY <1>2, <1>3 DEF Completion, EventOf, Completions
<1>5. Reception(h, p) \in EventOf(S)
  BY <1>1, <1>2, <1>3 DEF Reception, EventOf
<1>. QED  BY <1>4, <1>5 DEF Scheduled, p

(* Send of a packet of S leaves packets and events of S. *)
LEMMA SendCarries ==
  ASSUME NEW S \in SUBSET Flow, RunTypes, now' \in Nat, NEW h \in Hop,
         queue \in [Hop -> Seq(PacketOf(S))], NEW p \in PacketOf(S), Send(h, p)
  PROVE  /\ queue' \in [Hop -> Seq(PacketOf(S))]
         /\ SendEvents(h, p) \subseteq EventOf(S)
         /\ SendUid(h) \in Nat
<1>1. queue[h] \in Seq(PacketOf(S))
  OBVIOUS
<1>2. Append(queue[h], p) \in Seq(PacketOf(S)) /\ Append(queue[h], p) # <<>>
  BY <1>1, QueueGrows
<1>3. Tail(Append(queue[h], p)) \in Seq(PacketOf(S))
  BY <1>2, QueueEnds
<1>4. queue' \in [Hop -> Seq(PacketOf(S))]
  <2>1. CASE Refuse(h, p)
    BY <2>1 DEF Refuse
  <2>2. CASE TransmitStart(h, Append(queue[h], p))
    BY <2>2, <1>3 DEF TransmitStart
  <2>3. CASE Enqueue(h, p)
    BY <2>3, <1>2 DEF Enqueue
  <2>. QED  BY <2>1, <2>2, <2>3 DEF Send
<1>5. SendEvents(h, p) \subseteq EventOf(S)
  BY <1>2, ScheduledIn DEF SendEvents
<1>6. SendUid(h) \in Nat
  BY DEF SendUid, RunTypes
<1>. QED  BY <1>4, <1>5, <1>6

(* A disc hands on what there is, and at least one packet of that. *)
LEMMA FillBound ==
  \A n \in Nat : Fill(n) \in Nat /\ Fill(n) <= n /\ (Fill(n) = 0 => n = 0)
BY LinkAssumption DEF Fill

(* Send runs the disc of its own hop, and of no other. *)
LEMMA SendHands ==
  ASSUME NEW S, HandTypes, NEW h \in Hop, NEW p, Send(h, p), wakes' = wakes,
         queue \in [Hop -> Seq(S)], queue' \in [Hop -> Seq(S)]
  PROVE  HandTypes'
<1>1. handed' = [handed EXCEPT ![h] = Fill(Len(queue'[h]))]
  BY DEF Send
<1>2. Len(queue'[h]) \in Nat
  OBVIOUS
<1>3. \A g \in Hop : g # h => queue'[g] = queue[g]
  BY DEF Send, Refuse, TransmitStart, Enqueue
<1>4. handed' \in [Hop -> Nat] /\ handed'[h] <= Len(queue'[h])
  BY <1>1, <1>2, FillBound DEF HandTypes
<1>5. \A g \in Hop : g # h => handed'[g] = handed[g]
  BY <1>1 DEF HandTypes
<1>. QED  BY <1>3, <1>4, <1>5 DEF HandTypes, WakeEvents

(* The end of a transmission, with an empty device queue and with another. *)
LEMMA CompleteCases ==
  ASSUME RunInv, NEW e, e.hop \in Hop, TransmitComplete(e)
  PROVE  \/ /\ handed[e.hop] = 0
            /\ sending' = [sending EXCEPT ![e.hop] = None]
            /\ events' = events \ {e}
            /\ UNCHANGED <<queue, handed, wakes, refused, nextUid>>
         \/ /\ queue[e.hop] # <<>>
            /\ TransmitStart(e.hop, queue[e.hop])
            /\ handed[e.hop] # 0 /\ handed' = [handed EXCEPT ![e.hop] = handed[e.hop] - 1]
            /\ events' = (events \ {e}) \cup Scheduled(e.hop, queue[e.hop])
            /\ wakes' = wakes \cup Woken(e.hop)
            /\ nextUid' = nextUid + 3
<1>1. handed[e.hop] # 0 => queue[e.hop] # <<>>
  <2>1. handed[e.hop] \in Nat /\ handed[e.hop] <= Len(queue[e.hop])
    BY DEF RunInv, HandTypes
  <2>2. Len(<<>>) = 0
    OBVIOUS
  <2>. QED  BY <2>1, <2>2
<1>. QED  BY <1>1 DEF TransmitComplete

(* It takes one packet from the device, and may wake the disc. *)
LEMMA CompleteHands ==
  ASSUME RunInv, now' \in Nat, NEW e, e.hop \in Hop, TransmitComplete(e)
  PROVE  HandTypes'
<1>. DEFINE h == e.hop
<1>1. /\ HandTypes /\ queue \in [Hop -> Seq(PacketOf(SentFlows))] /\ nextUid \in Nat
      /\ h \in Hop
  BY DEF RunInv, Carries, RunTypes
<1>2. CASE UNCHANGED <<queue, handed, wakes>>
  BY <1>1, <1>2 DEF HandTypes, WakeEvents
<1>3. CASE /\ queue[h] # <<>> /\ TransmitStart(h, queue[h])
           /\ handed[h] # 0 /\ handed' = [handed EXCEPT ![h] = handed[h] - 1]
           /\ wakes' = wakes \cup Woken(h)
  <2>. HIDE DEF h
  <2>1. queue' = [queue EXCEPT ![h] = Tail(queue[h])]
    BY <1>3 DEF TransmitStart
  <2>2. Len(Tail(queue[h])) = Len(queue[h]) - 1 /\ Len(queue[h]) \in Nat
    BY <1>1, <1>3, HeadTailProperties
  <2>3. handed[h] - 1 \in Nat /\ handed[h] <= Len(queue[h])
    BY <1>1, <1>3 DEF HandTypes
  <2>4. ASSUME NEW g \in Hop PROVE handed'[g] \in Nat /\ handed'[g] <= Len(queue'[g])
    BY <1>1, <1>3, <2>1, <2>2, <2>3 DEF HandTypes
  <2>5. handed' \in [Hop -> Nat]
    BY <1>1, <1>3, <2>3 DEF HandTypes
  <2>6. wakes' \in SUBSET WakeEvents
    BY <1>1, <1>3 DEF HandTypes, Woken, WakeEvents
  <2>. QED  BY <2>4, <2>5, <2>6 DEF HandTypes, WakeEvents
<1>. QED  BY <1>2, <1>3, CompleteCases
-----------------------------------------------------------------------------
(* The events of the devices: the flows in the row stay those that have    *)
(* sent something.                                                         *)

(* The end of a transmission. *)
LEMMA CompleteStep ==
  ASSUME RunInv, now' \in Nat, NEW e \in events, e.kind = "TransmitComplete",
         TransmitComplete(e)
  PROVE  RunInv'
<1>1. SentFlows \in SUBSET Flow /\ RunTypes /\ Carries(SentFlows)
  BY DEF RunInv, SentFlows
<1>2. e.hop \in Hop
  BY <1>1, EventFields DEF Carries
<1>3. /\ UNCHANGED <<byteTime, offered, stats>> /\ SentFlows' = SentFlows
  BY DEF TransmitComplete, SentFlows
<1>4. nextUid' \in Nat
  BY <1>1 DEF TransmitComplete, RunTypes
<1>5. Carries(SentFlows)'
  <2>1. CASE UNCHANGED queue /\ events' = events \ {e}
    BY <1>1, <1>3, <2>1 DEF Carries
  <2>2. CASE /\ queue[e.hop] # <<>> /\ TransmitStart(e.hop, queue[e.hop])
             /\ events' = (events \ {e}) \cup Scheduled(e.hop, queue[e.hop])
    <3>1. queue[e.hop] \in Seq(PacketOf(SentFlows))
      BY <1>1, <1>2 DEF Carries
    <3>2. Scheduled(e.hop, queue[e.hop]) \subseteq EventOf(SentFlows)
      BY <1>1, <1>2, <2>2, <3>1, ScheduledIn
    <3>3. Tail(queue[e.hop]) \in Seq(PacketOf(SentFlows))
      BY <2>2, <3>1, QueueEnds
    <3>4. queue' = [queue EXCEPT ![e.hop] = Tail(queue[e.hop])]
      BY <2>2 DEF TransmitStart
    <3>5. queue' \in [Hop -> Seq(PacketOf(SentFlows))]
      BY <1>1, <3>3, <3>4 DEF Carries
    <3>6. events' \subseteq EventOf(SentFlows)
      BY <1>1, <2>2, <3>2 DEF Carries
    <3>. QED  BY <1>3, <3>5, <3>6 DEF Carries
  <2>. QED  BY <1>2, <2>1, <2>2, CompleteCases
<1>6. HandTypes'
  BY <1>2, CompleteHands
<1>. QED  BY <1>1, <1>3, <1>4, <1>5, <1>6 DEF RunInv, RunTypes

(* A packet at an inner node. *)
LEMMA ForwardStep ==
  ASSUME RunInv, now' \in Nat, NEW e \in events, e.kind = "Receive",
         e.hop < HopCount, Forward(e)
  PROVE  RunInv'
<1>1. SentFlows \in SUBSET Flow /\ RunTypes /\ Carries(SentFlows)
  BY DEF RunInv, SentFlows
<1>2. e.hop \in Hop /\ e.pkt \in PacketOf(SentFlows)
  BY <1>1, EventFields DEF Carries
<1>3. e.hop + 1 \in Hop
  BY <1>2, HopAssumption DEF Hop
<1>4. UNCHANGED <<byteTime, offered, stats>> /\ SentFlows' = SentFlows
  BY DEF Forward, SentFlows
<1>5. /\ queue' \in [Hop -> Seq(PacketOf(SentFlows))]
      /\ SendEvents(e.hop + 1, e.pkt) \subseteq EventOf(SentFlows)
      /\ SendUid(e.hop + 1) \in Nat
  BY <1>1, <1>2, <1>3, SendCarries DEF Forward, Carries
<1>6. events' \subseteq EventOf(SentFlows) /\ nextUid' \in Nat
  BY <1>1, <1>5 DEF Forward, Carries
<1>7. Carries(SentFlows)'
  BY <1>4, <1>5, <1>6 DEF Carries
<1>8. HandTypes'
  BY <1>1, <1>3, <1>5, SendHands DEF Forward, Carries, RunInv
<1>. QED  BY <1>1, <1>4, <1>6, <1>7, <1>8 DEF RunInv, RunTypes

(* A packet at the last node. *)
LEMMA ArriveStep ==
  ASSUME RunInv, now' \in Nat, NEW e \in events, e.kind = "Receive", Arrive(e)
  PROVE  RunInv'
<1>1. SentFlows \in SUBSET Flow /\ RunTypes /\ Carries(SentFlows)
  BY DEF RunInv, SentFlows
<1>. DEFINE g == e.pkt.flow
<1>2. g \in SentFlows /\ g \in Flow
  BY <1>1, EventFields DEF Carries, PacketOf
<1>3. /\ stats' = [stats EXCEPT ![g] = Seen(stats[g], now')]
      /\ events' = events \ {e} /\ UNCHANGED <<byteTime, offered, nextUid, queue>>
  BY DEF Arrive, devVars
<1>. HIDE DEF g
<1>4. Seen(stats[g], now') \in Statistics /\ Seen(stats[g], now').tx = stats[g].tx
  <2>1. stats[g] \in Statistics
    BY <1>1, <1>2 DEF RunTypes
  <2>. QED  BY <2>1 DEF Seen, Statistics
<1>5. stats' \in [Flow -> Statistics] /\ \A f \in Flow : stats'[f].tx = stats[f].tx
  BY <1>1, <1>2, <1>3, <1>4 DEF RunTypes
<1>6. SentFlows' = SentFlows
  BY <1>5 DEF SentFlows
<1>7. \A f \in Flow \ SentFlows : stats'[f] = NoStats
  BY <1>1, <1>2, <1>3 DEF RunInv, RunTypes
<1>8. Carries(SentFlows)'
  BY <1>1, <1>3, <1>6 DEF Carries
<1>9. HandTypes'
  BY DEF Arrive, devVars, RunInv, HandTypes, WakeEvents
<1>. QED  BY <1>1, <1>3, <1>5, <1>6, <1>7, <1>8, <1>9 DEF RunInv, RunTypes

(* A client sends: its flow is one of those that have. *)
LEMMA SendStep ==
  ASSUME RunInv, now' \in Nat, NEW e \in events, e.kind = "Send", SendNext(e)
  PROVE  RunInv'
<1>1. SentFlows \in SUBSET Flow /\ RunTypes /\ Carries(SentFlows)
  BY DEF RunInv, SentFlows
<1>. DEFINE g == e.flow
            p == NextPacket(g)
            S == SentFlows \cup {g}
<1>2. g \in Flow /\ S \in SUBSET Flow /\ p \in PacketOf(S)
  BY <1>1, EventFields DEF Carries, NextPacket, PacketOf, RunTypes
<1>3. Carries(S)
  BY <1>1, CarriesMore
<1>4. /\ Send(1, p) /\ offered' = offered + 1 /\ UNCHANGED byteTime
      /\ stats' = [stats EXCEPT ![g].tx = stats[g].tx + 1]
      /\ \/ events' = (events \ {e}) \cup SendEvents(1, p)
         \/ events' = (events \ {e}) \cup SendEvents(1, p)
                        \cup {ClientSend(g, SendUid(1), now' + Interval)}
      /\ nextUid' \in {SendUid(1), SendUid(1) + 1}
  <2>1. Offer(g)
    BY DEF SendNext, Train
  <2>2. /\ events' = (events \ {e}) \cup SendEvents(1, p)
             \cup (IF More(e) THEN {ClientSend(g, SendUid(1), now' + Interval)} ELSE {})
        /\ nextUid' = SendUid(1) + (IF More(e) THEN 1 ELSE 0)
    BY DEF SendNext, Train
  <2>3. SendUid(1) \in Nat
    BY <1>1 DEF SendUid, RunTypes
  <2>4. /\ \/ events' = (events \ {e}) \cup SendEvents(1, p)
           \/ events' = (events \ {e}) \cup SendEvents(1, p)
                          \cup {ClientSend(g, SendUid(1), now' + Interval)}
        /\ nextUid' \in {SendUid(1), SendUid(1) + 1}
    <3>. HIDE DEF p, g
    <3>1. CASE More(e)
      BY <2>2, <3>1
    <3>2. CASE ~More(e)
      BY <2>2, <2>3, <3>2
    <3>. QED  BY <3>1, <3>2
  <2>5. Send(1, p) /\ offered' = offered + 1 /\ UNCHANGED byteTime
    BY <2>1 DEF Offer
  <2>6. stats' = [stats EXCEPT ![g].tx = stats[g].tx + 1]
    BY <2>1 DEF Offer
  <2>. QED  BY <2>4, <2>5, <2>6
<1>. HIDE DEF p, g
<1>5. /\ stats' \in [Flow -> Statistics]
      /\ stats'[g].tx = stats[g].tx + 1
      /\ \A f \in Flow : f # g => stats'[f] = stats[f]
  <2>1. stats[g] \in Statistics /\ stats \in [Flow -> Statistics]
    BY <1>1, <1>2 DEF RunTypes
  <2>2. stats' = [stats EXCEPT ![g] = [stats[g] EXCEPT !.tx = stats[g].tx + 1]]
    BY <1>4, <2>1
  <2>3. [stats[g] EXCEPT !.tx = stats[g].tx + 1] \in Statistics
    BY <2>1 DEF Statistics
  <2>. QED  BY <1>2, <2>1, <2>2, <2>3 DEF Statistics
<1>6. SentFlows' = S
  <2>1. stats[g].tx \in Nat
    BY <1>1, <1>2 DEF RunTypes, Statistics
  <2>. QED  BY <1>2, <1>5, <2>1 DEF SentFlows
<1>. HIDE DEF S
<1>7. /\ queue' \in [Hop -> Seq(PacketOf(S))]
      /\ SendEvents(1, p) \subseteq EventOf(S)
      /\ SendUid(1) \in Nat
  BY <1>1, <1>2, <1>3, <1>4, HopType, SendCarries DEF Carries
<1>8. ClientSend(g, SendUid(1), now' + Interval) \in EventOf(S)
  <2>1. now' + Interval \in Nat
    BY TrainAssumption
  <2>. QED  BY <1>2, <1>7, <2>1 DEF ClientSend, EventOf
<1>9. Carries(SentFlows)'
  <2>1. events' \subseteq EventOf(S)
    BY <1>3, <1>4, <1>7, <1>8 DEF Carries
  <2>. QED  BY <1>6, <1>7, <2>1 DEF Carries
<1>10. \A f \in Flow \ SentFlows' : stats'[f] = NoStats
  BY <1>5, <1>6 DEF RunInv, S
<1>11. RunTypes'
  BY <1>1, <1>4, <1>5, <1>7 DEF RunTypes
<1>12. HandTypes'
  <2>1. wakes' = wakes /\ HandTypes
    BY DEF SendNext, Train, Offer, RunInv
  <2>2. queue \in [Hop -> Seq(PacketOf(S))]
    BY <1>3 DEF Carries
  <2>. QED  BY <1>4, <1>7, <2>1, <2>2, HopType, SendHands
<1>. QED  BY <1>9, <1>10, <1>11, <1>12 DEF RunInv

(* A disc that is run moves nothing but what it hands on. *)
LEMMA WakeStep ==
  ASSUME RunInv, NEW w \in wakes, now' = w.at, Wake(w)
  PROVE  RunInv' /\ now' \in Nat
<1>1. /\ RunTypes /\ Carries(SentFlows) /\ HandTypes
      /\ queue \in [Hop -> Seq(PacketOf(SentFlows))]
  BY DEF RunInv, Carries
<1>2. w.hop \in Hop /\ now' \in Nat
  BY <1>1 DEF HandTypes, WakeEvents
<1>3. /\ UNCHANGED <<byteTime, queue, events, nextUid, offered, stats>>
      /\ handed' = [handed EXCEPT ![w.hop] = Fill(Len(queue[w.hop]))]
      /\ wakes' = wakes \ {w}
  BY DEF Wake
<1>4. Len(queue[w.hop]) \in Nat
  BY <1>1, <1>2
<1>5. HandTypes'
  BY <1>1, <1>2, <1>3, <1>4, FillBound DEF HandTypes, WakeEvents
<1>. QED  BY <1>1, <1>2, <1>3, <1>5 DEF RunInv, RunTypes, Carries, SentFlows

(* The simulator takes an event of a device, of a client or the stop, or   *)
(* one that runs a disc.                                                   *)
LEMMA RunCases ==
  ASSUME RunInv, RunEvent
  PROVE  \/ \E e \in events :
              /\ IsNext(e) /\ now' = e.at
              /\ \/ DeviceEvent(e) /\ UNCHANGED mainVars
                 \/ e.kind = "Send" /\ SendNext(e) /\ UNCHANGED mainVars
                 \/ e.kind = "Stop" /\ Analyse(e)
         \/ \E w \in wakes : IsNext(w) /\ now' = w.at /\ Wake(w) /\ UNCHANGED mainVars
<1>1. \A w \in wakes : w.kind = "Wake"
  BY DEF RunInv, HandTypes, WakeEvents
<1>2. PICK e \in events \cup wakes :
        /\ IsNext(e) /\ now' = e.at
        /\ \/ DeviceEvent(e) /\ UNCHANGED mainVars
           \/ e.kind = "Send" /\ SendNext(e) /\ UNCHANGED mainVars
           \/ e.kind = "Stop" /\ Analyse(e)
  BY DEF RunEvent
<1>3. CASE e \in wakes
  BY <1>1, <1>2, <1>3 DEF DeviceEvent
<1>. QED  BY <1>2, <1>3

(* At the start nothing is in the row. *)
LEMMA RunInit == DetInit => RunInv
<1>. SUFFICES ASSUME DetInit PROVE RunInv
  OBVIOUS
<1>1. /\ byteTime \in ByteTimes /\ now = 0 /\ offered = 0
      /\ queue = [h \in Hop |-> <<>>] /\ stats = [f \in Flow |-> NoStats]
      /\ events = FirstSends \cup {Stop} /\ nextUid = Len(Clients) + 1
  BY DEF DetInit, Start
<1>2. Len(Clients) \in Nat /\ \A i \in 1 .. Len(Clients) : Clients[i] \in Flow
  BY TrainAssumption
<1>3. RunTypes
  BY <1>1, <1>2 DEF RunTypes, Statistics, NoStats
<1>4. \A f \in Flow \ SentFlows : stats[f] = NoStats
  BY <1>1
<1>5. Carries(SentFlows)
  <2>1. \A h \in Hop : <<>> \in Seq(PacketOf(SentFlows))
    BY EmptySeq
  <2>2. Stop \in EventOf(SentFlows)
    BY <1>2, TrainAssumption DEF Stop, EventOf
  <2>3. ASSUME NEW i \in 1 .. Len(Clients)
        PROVE  ClientSend(Clients[i], i - 1, 0) \in EventOf(SentFlows)
    BY <1>2 DEF ClientSend, EventOf
  <2>. QED  BY <1>1, <2>1, <2>2, <2>3 DEF Carries, FirstSends
<1>6. HandTypes
  <2>1. handed = [h \in Hop |-> 0] /\ wakes = {}
    BY DEF DetInit, Start
  <2>2. \A h \in Hop : Len(queue[h]) = 0
    BY <1>1
  <2>. QED  BY <2>1, <2>2 DEF HandTypes
<1>. QED  BY <1>3, <1>4, <1>5, <1>6 DEF RunInv

(* Every step leaves only what has been sent in the row. *)
LEMMA RunStep == RunInv /\ [Step]_detVars => RunInv'
<1>. SUFFICES ASSUME RunInv, [Step]_detVars PROVE RunInv'
  OBVIOUS
<1>1. ASSUME UNCHANGED vars PROVE RunInv'
  BY <1>1 DEF vars, devVars, simVars, RunInv, RunTypes, Carries, SentFlows, HandTypes
<1>2. ASSUME NEW e \in events, now' = e.at,
             \/ DeviceEvent(e)
             \/ e.kind = "Send" /\ SendNext(e)
             \/ Analyse(e)
      PROVE  RunInv'
  <2>1. now' \in Nat
    BY <1>2, EventFields DEF RunInv, Carries, SentFlows
  <2>2. CASE DeviceEvent(e)
    <3>1. e.kind # "Wake"
      BY EventFields DEF RunInv, Carries, SentFlows
    <3>. QED  BY <2>1, <2>2, <3>1, <1>2, CompleteStep, ForwardStep, ArriveStep
              DEF DeviceEvent, Receive
  <2>3. CASE e.kind = "Send" /\ SendNext(e)
    BY <2>1, <2>3, <1>2, SendStep
  <2>4. CASE Analyse(e)
    BY <2>1, <2>4 DEF Analyse, devVars, RunInv, RunTypes, Carries, SentFlows, HandTypes
  <2>. QED  BY <1>2, <2>2, <2>3, <2>4
<1>3. CASE RunEvent
  BY <1>2, <1>3, RunCases, WakeStep
<1>. QED  BY <1>1, <1>3 DEF Step, Loop, Judge, detVars

(* Hence it is so throughout the experiment. *)
LEMMA RunInvariance == DetSpec => []RunInv
BY RunInit, RunStep, PTL DEF DetSpec
-----------------------------------------------------------------------------
(* The loop over the statistics. *)

(* Time cut to milliseconds. *)
LEMMA Cut ==
  ASSUME NEW a \in Nat, NEW m \in Nat \ {0}
  PROVE  a \div m \in Nat /\ (a \div m) * m <= a /\ a < (a \div m) * m + m
OBVIOUS

(* Times and spreads are numbers. *)
LEMMA SpreadType ==
  ASSUME RunInv, NEW f \in Flow
  PROVE  /\ stats[f].timeFirstRx \in Nat /\ stats[f].timeLastRx \in Nat
         /\ Milliseconds(stats[f].timeFirstRx) \in Nat
         /\ Milliseconds(stats[f].timeLastRx) \in Nat
         /\ Spread(f) \in Int /\ ExactSpread(f) \in Int
<1>1. stats[f].timeFirstRx \in Nat /\ stats[f].timeLastRx \in Nat
  BY DEF RunInv, RunTypes, Statistics
<1>2. /\ Milliseconds(stats[f].timeFirstRx) \in Nat
      /\ Milliseconds(stats[f].timeLastRx) \in Nat
  BY <1>1, Cut, TrainAssumption DEF Milliseconds
<1>. QED  BY <1>1, <1>2 DEF Spread, ExactSpread

(* A flow that has sent nothing has no spread. *)
LEMMA NoSpread ==
  ASSUME RunInv, NEW f \in Flow, ~(stats[f].tx > 0)
  PROVE  Spread(f) = 0
<1>1. stats[f] = NoStats
  BY DEF RunInv, SentFlows
<1>2. stats[f].timeLastRx = stats[f].timeFirstRx
  BY <1>1 DEF NoStats
<1>. QED  BY <1>2, SpreadType DEF Spread

(* The two clients send flows of the network. *)
LEMMA ClientFlows ==
  ASSUME Len(Clients) = 2
  PROVE  Clients[1] \in Flow /\ Clients[2] \in Flow
<1>1. \A i \in 1 .. Len(Clients) : Clients[i] \in Flow
  <2>1. Clients \in Seq(Flow)
    BY TrainAssumption
  <2>. QED  BY <2>1, ElementOfSeq
<1>2. 1 \in 1 .. 2 /\ 2 \in 1 .. 2
  OBVIOUS
<1>. QED  BY <1>1, <1>2

(* The first train that is looked at goes into first, the second into      *)
(* second, unless first is 0: then into first.  The distance is the same.  *)
LEMMA LoopStep ==
  ASSUME RunInv, LoopInv, Len(Clients) = 2, Loop
  PROVE  LoopInv'
<1>1. Clients[1] \in Flow /\ Clients[2] \in Flow
  BY ClientFlows
<1>. DEFINE s == Spread(Clients[1])
            t == Spread(Clients[2])
<1>2. /\ s \in Int /\ t \in Int
      /\ ~(stats[Clients[1]].tx > 0) => s = 0
      /\ ~(stats[Clients[2]].tx > 0) => t = 0
  BY <1>1, SpreadType, NoSpread
<1>3. /\ iter \in {1, 2} /\ iter' = iter + 1 /\ UNCHANGED <<stats, verdict>>
      /\ verdict = "none"
  <2>1. iter \in 1 .. 2 /\ iter' = iter + 1 /\ UNCHANGED <<stats, verdict>>
    BY DEF Loop, vars
  <2>2. iter < 3 => verdict = "none"
    BY DEF LoopInv
  <2>. QED  BY <2>1, <2>2
<1>4. Spread(Clients[1])' = s /\ Spread(Clients[2])' = t
  BY <1>3 DEF Spread
<1>. HIDE DEF s, t
<1>5. CASE iter = 1
  <2>1. found = [first |-> 0, second |-> 0, count |-> 0]
    BY <1>5 DEF LoopInv
  <2>2. CASE stats[Clients[1]].tx > 0
    <3>1. found' = [first |-> s, second |-> 0, count |-> 1]
      BY <1>5, <2>1, <2>2 DEF Loop, LookAt, Collect, s
    <3>. QED  BY <1>2, <1>3, <1>4, <1>5, <3>1 DEF LoopInv, FoundFirst, Found
  <2>3. CASE ~(stats[Clients[1]].tx > 0)
    <3>1. found' = [first |-> s, second |-> 0, count |-> 0]
      BY <1>2, <1>5, <2>1, <2>3 DEF Loop, LookAt
    <3>. QED  BY <1>2, <1>3, <1>4, <1>5, <3>1 DEF LoopInv, FoundFirst, Found
  <2>. QED  BY <2>2, <2>3
<1>6. CASE iter = 2
  <2>1. /\ found.first = s /\ found.second = 0 /\ found.count \in Nat /\ found.count <= 1
        /\ found \in Found
    BY <1>6 DEF LoopInv, FoundFirst, Found, s
  <2>2. /\ found' \in Found /\ found'.count <= 2
        /\ Distance(found'.first, found'.second) = Distance(s, t)
    <3>1. CASE stats[Clients[2]].tx > 0 /\ s = 0
      <4>1. found' = [first |-> t, second |-> 0, count |-> found.count + 1]
        BY <1>6, <2>1, <3>1 DEF Loop, LookAt, Collect, t
      <4>. QED  BY <1>2, <2>1, <3>1, <4>1 DEF Found, Distance
    <3>2. CASE stats[Clients[2]].tx > 0 /\ s # 0
      <4>1. found' = [first |-> s, second |-> t, count |-> found.count + 1]
        BY <1>6, <2>1, <3>2 DEF Loop, LookAt, Collect, t
      <4>. QED  BY <1>2, <2>1, <4>1 DEF Found
    <3>3. CASE ~(stats[Clients[2]].tx > 0)
      BY <1>2, <1>6, <2>1, <3>3 DEF Loop, LookAt
    <3>. QED  BY <3>1, <3>2, <3>3
  <2>. QED  BY <1>3, <1>4, <1>6, <2>2 DEF LoopInv, FoundBoth
<1>. QED  BY <1>3, <1>5, <1>6

(* The verdict is that of the two spreads found. *)
LEMMA JudgeStep ==
  ASSUME RunInv, LoopInv, Len(Clients) = 2, Judge
  PROVE  LoopInv'
<1>1. /\ iter = 3 /\ UNCHANGED <<stats, iter, found>>
      /\ found.count <= 2 /\ found.count \in Nat
  <2>1. iter > 2 /\ UNCHANGED <<stats, iter, found>>
    BY DEF Judge, vars
  <2>2. iter \in 0 .. 3 /\ (iter = 3 => found.count <= 2) /\ found \in Found
    BY DEF LoopInv, FoundBoth
  <2>3. iter = 3
    BY <2>1, <2>2
  <2>. QED  BY <2>1, <2>2, <2>3 DEF Found
<1>2. verdict' = IF Distance(found.first, found.second) > Threshold
                 THEN "Compression Detected" ELSE "Compression Not Detected"
  <2>1. ~(found.count > 2)
    BY <1>1
  <2>. QED  BY <2>1 DEF Judge
<1>3. \A f : Spread(f)' = Spread(f)
  BY <1>1 DEF Spread
<1>4. FoundBoth'
  BY <1>1, <1>3 DEF LoopInv, FoundBoth
<1>5. /\ iter' = 3 /\ found' \in Found
      /\ Distance(found'.first, found'.second) = Distance(found.first, found.second)
  <2>1. found \in Found
    BY DEF LoopInv
  <2>. QED  BY <1>1, <2>1
<1>6. /\ verdict' \in {"Compression Detected", "Compression Not Detected"}
      /\ verdict' = "Compression Detected" <=>
           Distance(found.first, found.second) > Threshold
  BY <1>2
<1>7. /\ iter' \in 0 .. 3
      /\ ~(iter' <= 1) /\ iter' # 2 /\ ~(iter' < 3)
  BY <1>5
<1>8. verdict' \in {"none", "Compression Detected", "Compression Not Detected"}
  BY <1>6
<1>9. verdict' = "Compression Detected" <=>
        Distance(found'.first, found'.second) > Threshold
  BY <1>5, <1>6
<1>. QED  BY <1>4, <1>5, <1>7, <1>8, <1>9 DEF LoopInv

(* Before the loop nothing is found. *)
LEMMA LoopInit == Len(Clients) = 2 /\ DetInit => LoopInv
BY DEF DetInit, MainInit, LoopInv, Found

(* While the simulator runs, main waits. *)
LEMMA RunKeepsLoop ==
  ASSUME LoopInv, RunEvent
  PROVE  LoopInv'
<1>1. iter = 0 /\ (UNCHANGED mainVars \/ \E e : Analyse(e))
  BY DEF RunEvent
<1>2. CASE UNCHANGED mainVars
  BY <1>1, <1>2 DEF mainVars, LoopInv
<1>3. CASE \E e : Analyse(e)
  BY <1>1, <1>3 DEF Analyse, LoopInv
<1>. QED  BY <1>1, <1>2, <1>3

(* Every step keeps both parts of the invariant. *)
LEMMA DetStep == DetInv /\ [Step]_detVars => DetInv'
<1>. SUFFICES ASSUME DetInv, [Step]_detVars PROVE DetInv'
  OBVIOUS
<1>1. RunInv /\ RunInv'
  BY RunStep DEF DetInv
<1>2. ASSUME Len(Clients) = 2 PROVE LoopInv'
  <2>1. LoopInv
    BY <1>2 DEF DetInv
  <2>2. CASE UNCHANGED detVars
    <3>1. UNCHANGED <<stats, iter, found, verdict>>
      BY <2>2 DEF detVars, vars, mainVars
    <3>2. \A f : Spread(f)' = Spread(f)
      BY <3>1 DEF Spread
    <3>. QED  BY <2>1, <3>1, <3>2 DEF LoopInv, FoundFirst, FoundBoth
  <2>. QED  BY <1>1, <1>2, <2>1, <2>2, RunKeepsLoop, LoopStep, JudgeStep DEF Step
<1>. QED  BY <1>1, <1>2 DEF DetInv

(* Hence the invariant holds throughout. *)
LEMMA DetInvariance == DetSpec => []DetInv
<1>1. DetInit => DetInv
  BY RunInit, LoopInit DEF DetInv
<1>. QED  BY <1>1, DetStep, PTL DEF DetSpec
-----------------------------------------------------------------------------
(* The verdict compares the spreads of the two flows. *)
LEMMA VerdictFound ==
  ASSUME DetInv, verdict # "none", Len(Clients) = 2
  PROVE  /\ Clients[1] \in Flow /\ Clients[2] \in Flow
         /\ verdict = "Compression Detected" <=>
              Distance(Spread(Clients[1]), Spread(Clients[2])) > Threshold
<1>1. Clients[1] \in Flow /\ Clients[2] \in Flow
  BY ClientFlows
<1>2. iter = 3 /\ FoundBoth
  <2>1. /\ iter \in 0 .. 3
        /\ iter < 3 => verdict = "none"
        /\ iter = 3 => FoundBoth
    BY DEF DetInv, LoopInv
  <2>2. ~(iter < 3)
    BY <2>1
  <2>. QED  BY <2>1, <2>2
<1>. QED  BY <1>1, <1>2 DEF DetInv, LoopInv, FoundBoth

(* The verdict is the one the two spreads call for, whichever of them are  *)
(* 0, and also when one of the clients has sent nothing.                   *)
THEOREM VerdictCorrect == DetSpec => []VerdictFollowsSpreads
<1>1. DetInv => VerdictFollowsSpreads
  BY VerdictFound DEF VerdictFollowsSpreads
<1>. QED  BY <1>1, DetInvariance, PTL

(* A spread that is cut to milliseconds, and the exact one. *)
LEMMA CutSpread ==
  ASSUME RunInv, NEW f \in Flow
  PROVE  /\ Spread(f) * Millisecond - ExactSpread(f) <= Millisecond - 1
         /\ ExactSpread(f) - Spread(f) * Millisecond <= Millisecond - 1
<1>. DEFINE m == Millisecond
            a == stats[f].timeFirstRx
            b == stats[f].timeLastRx
<1>1. a \in Nat /\ b \in Nat /\ m \in Nat \ {0}
  BY SpreadType, TrainAssumption
<1>2. ASSUME NEW i \in Nat, NEW j \in Nat, NEW n \in Nat \ {0}
      PROVE  /\ (i \div n - j \div n) * n - (i - j) <= n - 1
             /\ (i - j) - (i \div n - j \div n) * n <= n - 1
  <2>1. /\ i \div n \in Nat /\ (i \div n) * n <= i /\ i < (i \div n) * n + n
        /\ j \div n \in Nat /\ (j \div n) * n <= j /\ j < (j \div n) * n + n
    BY Cut
  <2>. QED  BY <2>1
<1>. QED  BY <1>1, <1>2 DEF Spread, ExactSpread, Milliseconds

(* Two spreads whose distance is compared with a threshold T. *)
LEMMA Margin ==
  ASSUME NEW m \in Nat \ {0}, NEW T \in Nat,
         NEW s \in Int, NEW t \in Int, NEW x \in Int, NEW y \in Int,
         s * m - x <= m - 1, x - s * m <= m - 1,
         t * m - y <= m - 1, y - t * m <= m - 1
  PROVE  /\ Distance(s, t) > T => Distance(x, y) > (T - 1) * m
         /\ ~(Distance(s, t) > T) => Distance(x, y) < (T + 2) * m
<1>1. ASSUME NEW d \in Int, NEW e \in Int, d * m - e <= 2 * (m - 1), e - d * m <= 2 * (m - 1)
      PROVE  /\ d > T => e > (T - 1) * m
             /\ d <= T => e < (T + 2) * m
  BY <1>1
<1>2. /\ (s - t) * m - (x - y) <= 2 * (m - 1) /\ (x - y) - (s - t) * m <= 2 * (m - 1)
      /\ (t - s) * m - (y - x) <= 2 * (m - 1) /\ (y - x) - (t - s) * m <= 2 * (m - 1)
  OBVIOUS
<1>3. s - t \in Int /\ t - s \in Int /\ x - y \in Int /\ y - x \in Int
  OBVIOUS
<1>4. /\ s - t > T => x - y > (T - 1) * m
      /\ s - t <= T => x - y < (T + 2) * m
      /\ t - s > T => y - x > (T - 1) * m
      /\ t - s <= T => y - x < (T + 2) * m
  BY <1>1, <1>2, <1>3
<1>. QED  BY <1>4, SMTT(40) DEF Distance

(* However the arrivals fall on the milliseconds, the verdict is that of   *)
(* the exact spreads but for one millisecond below the threshold and two   *)
(* above it.                                                               *)
THEOREM RoundingCorrect == DetSpec => []VerdictWithinRounding
<1>1. ASSUME DetInv, verdict # "none", Len(Clients) = 2
      PROVE  IF verdict = "Compression Detected"
             THEN Distance(ExactSpread(Clients[1]), ExactSpread(Clients[2]))
                    > (Threshold - 1) * Millisecond
             ELSE Distance(ExactSpread(Clients[1]), ExactSpread(Clients[2]))
                    < (Threshold + 2) * Millisecond
  <2>1. RunInv /\ Clients[1] \in Flow /\ Clients[2] \in Flow
    BY <1>1, VerdictFound DEF DetInv
  <2>2. Millisecond \in Nat \ {0} /\ Threshold \in Nat
    BY TrainAssumption
  <2>3. \A f \in Flow : Spread(f) \in Int /\ ExactSpread(f) \in Int
    BY <2>1, SpreadType
  <2>4. \A f \in Flow :
          /\ Spread(f) * Millisecond - ExactSpread(f) <= Millisecond - 1
          /\ ExactSpread(f) - Spread(f) * Millisecond <= Millisecond - 1
    BY <2>1, CutSpread
  <2>5. LET s == Spread(Clients[1])
            t == Spread(Clients[2])
            x == ExactSpread(Clients[1])
            y == ExactSpread(Clients[2])
        IN  /\ Distance(s, t) > Threshold => Distance(x, y) > (Threshold - 1) * Millisecond
            /\ ~(Distance(s, t) > Threshold) => Distance(x, y) < (Threshold + 2) * Millisecond
    BY <2>1, <2>2, <2>3, <2>4, Margin, Zenon
  <2>. QED  BY <1>1, <2>5, VerdictFound
<1>2. DetInv => VerdictWithinRounding
  BY <1>1 DEF VerdictWithinRounding
<1>. QED  BY <1>2, DetInvariance, PTL

(* The theorems about the row of links, for the row of the experiment.    *)
Net == INSTANCE TandemProofs WITH
  events <- RowEvents,
  OtherUids <- 0 .. Len(Clients) + 1,
  MaxOffers <- Len(Clients) * PacketCount,
  Horizon <- StopAt

(* What the theorems about the row assume of its constants holds here.    *)
LEMMA Assumed ==
  /\ HopCount \in Nat \ {0}
  /\ ByteTimes \subseteq [Net!Hop -> Nat \ {0}]
  /\ Size \in [Flow -> Nat \ {0}]
  /\ DeviceLimit \in Nat \ {0} /\ DiscLimit \in Nat \ {0} /\ Delay \in Nat
  /\ 0 .. Len(Clients) + 1 \subseteq Nat /\ Len(Clients) * PacketCount \in Nat /\ StopAt \in Nat
<1>1. Len(Clients) \in Nat /\ PacketCount \in Nat /\ StopAt \in Nat
  BY TrainAssumption
<1>2. ASSUME NEW m \in Nat, NEW n \in Nat PROVE m * n \in Nat
  BY SMT
<1>3. 0 .. Len(Clients) + 1 \subseteq Nat /\ Len(Clients) * PacketCount \in Nat
  BY <1>1, <1>2
<1>. QED  BY <1>1, <1>3, HopAssumption, RateAssumption, PacketAssumption, LinkAssumption
       DEF Hop, Net!Hop

(* The row that the experiment implements is the one they are about. *)
LEMMA RowIsNet == ImplementsTandem <=> Net!Spec
<1>1. Row!Init <=> Net!Init
  BY DEF Row!Init, Net!Init, Row!Start, Net!Start, Row!Hop, Net!Hop, Row!None, Net!None,
         Row!NoStats, Net!NoStats
<1>2. /\ \A h, p : Row!Send(h, p) <=> Net!Send(h, p)
      /\ \A h, p : Row!SendEvents(h, p) = Net!SendEvents(h, p)
      /\ \A h : Row!SendUid(h) = Net!SendUid(h)
  BY DEF Row!Send, Net!Send, Row!SendEvents, Net!SendEvents, Row!SendUid, Net!SendUid,
         Row!Starts, Net!Starts, Row!Refuse, Net!Refuse, Row!Enqueue, Net!Enqueue,
         Row!TransmitStart, Net!TransmitStart, Row!Scheduled, Net!Scheduled,
         Row!Completion, Net!Completion, Row!Reception, Net!Reception, Row!TxTime, Net!TxTime,
         Row!QueueFull, Net!QueueFull, Row!Idle, Net!Idle, Row!None, Net!None,
         Row!Fill, Net!Fill
<1>3. /\ \A e : Row!TransmitComplete(e) <=> Net!TransmitComplete(e)
      /\ \A e : Row!Receive(e) <=> Net!Receive(e)
  <2>1. \A e : Row!TransmitComplete(e) <=> Net!TransmitComplete(e)
    BY DEF Row!TransmitComplete, Net!TransmitComplete, Row!TransmitStart, Net!TransmitStart,
           Row!Scheduled, Net!Scheduled, Row!Completion, Net!Completion,
           Row!Reception, Net!Reception, Row!TxTime, Net!TxTime, Row!None, Net!None,
           Row!Woken, Net!Woken
  <2>2. \A e : Row!Forward(e) <=> Net!Forward(e)
    BY <1>2 DEF Row!Forward, Net!Forward
  <2>3. \A e : Row!Arrive(e) <=> Net!Arrive(e)
    BY DEF Row!Arrive, Net!Arrive, Row!Seen, Net!Seen, Row!devVars, Net!devVars
  <2>. QED  BY <2>1, <2>2, <2>3 DEF Row!Receive, Net!Receive
<1>4. \A f : Row!OfferAnytime(f) <=> Net!OfferAnytime(f)
  BY <1>2 DEF Row!OfferAnytime, Net!OfferAnytime, Row!InTime, Net!InTime, Row!Offer, Net!Offer,
         Row!NextPacket, Net!NextPacket
<1>5. Row!OtherEvent <=> Net!OtherEvent
  BY DEF Row!OtherEvent, Net!OtherEvent, Row!InTime, Net!InTime, Row!devVars, Net!devVars
<1>6. Row!RunNext <=> Net!RunNext
  <2>1. \A e : Row!IsNext(e) <=> Net!IsNext(e)
    BY DEF Row!IsNext, Net!IsNext
  <2>2. \A e : Row!Wake(e) <=> Net!Wake(e)
    BY DEF Row!Wake, Net!Wake, Row!Fill, Net!Fill
  <2>3. \A e : Row!DeviceEvent(e) <=> Net!DeviceEvent(e)
    BY <1>3, <2>2 DEF Row!DeviceEvent, Net!DeviceEvent
  <2>. QED  BY <2>1, <2>3 DEF Row!RunNext, Net!RunNext
<1>7. Row!Next <=> Net!Next
  BY <1>4, <1>5, <1>6 DEF Row!Next, Net!Next
<1>8. [Row!Next]_(Row!vars) <=> [Net!Next]_(Net!vars)
  BY <1>7 DEF Row!vars, Net!vars, Row!devVars, Net!devVars, Row!simVars, Net!simVars
<1>. QED  BY <1>1, <1>8, PTL DEF ImplementsTandem, Row!Spec, Net!Spec
-----------------------------------------------------------------------------
(* The schedule of the two clients.                                        *)

(* Until the simulator stops the clients are on schedule. *)
ScheduleInv == iter = 0 => PendingInv /\ TurnInv

(* What is known of the flows and the numbers of the two clients. *)
LEMMA ClientTypes ==
  ASSUME TwoClients, RunTypes
  PROVE  /\ Clients[1] \in Flow /\ Clients[2] \in Flow /\ Clients[1] # Clients[2]
         /\ \A i \in 1 .. 2 : Sent(i) \in Nat
         /\ PacketCount \in Nat \ {0} /\ Interval \in Nat /\ StopAt \in Nat
BY ClientFlows, TrainAssumption DEF TwoClients, Sent, RunTypes, Statistics

(* What a pending event carries. *)
LEMMA PendingTypes ==
  ASSUME RunInv
  PROVE  \A e \in events :
           /\ e.at \in Nat /\ e.uid \in Nat
           /\ e.kind \in {"TransmitComplete", "Receive", "Send", "Stop"}
           /\ e.kind = "TransmitComplete" => e.hop \in Hop
           /\ e.kind = "Receive" => e.hop \in Hop /\ e.pkt \in PacketOf(SentFlows)
           /\ e.kind = "Send" => e.flow \in Flow
<1>1. SentFlows \in SUBSET Flow
  BY DEF SentFlows
<1>. QED  BY <1>1, EventFields DEF RunInv, Carries

(* What a transmission schedules is in the future, and has uids of its own. *)
LEMMA ScheduledLater ==
  ASSUME NEW S \in SUBSET Flow, RunTypes, now' \in Nat, NEW h \in Hop,
         NEW q \in Seq(PacketOf(S)), q # <<>>
  PROVE  \A f \in Scheduled(h, q) :
           /\ f.kind \in {"TransmitComplete", "Receive"}
           /\ f.at \in Nat /\ f.uid \in Nat /\ now' <= f.at /\ nextUid <= f.uid /\ f.uid < nextUid + 2
<1>. DEFINE p == Head(q)
<1>1. p \in PacketOf(S)
  BY QueueEnds
<1>. HIDE DEF p
<1>2. p.flow \in Flow
  BY <1>1 DEF PacketOf
<1>3. TxTime(h, p.flow) \in Nat
  <2>1. byteTime[h] \in Nat /\ Size[p.flow] \in Nat
    BY <1>2, RateAssumption, PacketAssumption DEF RunTypes
  <2>. QED  BY <2>1 DEF TxTime
<1>4. nextUid \in Nat /\ Delay \in Nat
  BY LinkAssumption DEF RunTypes
<1>5. /\ Completion(h, p).kind = "TransmitComplete"
      /\ Completion(h, p).at = now' + TxTime(h, p.flow) /\ Completion(h, p).uid = nextUid
      /\ Reception(h, p).kind = "Receive"
      /\ Reception(h, p).at = now' + TxTime(h, p.flow) + Delay
      /\ Reception(h, p).uid = nextUid + 1
  BY DEF Completion, Reception
<1>6. /\ Completion(h, p).at \in Nat /\ now' <= Completion(h, p).at
      /\ Reception(h, p).at \in Nat /\ now' <= Reception(h, p).at
  <2>1. \A x \in Nat : x = now' + TxTime(h, p.flow) \/ x = now' + TxTime(h, p.flow) + Delay => now' <= x
    BY <1>3, <1>4
  <2>2. now' + TxTime(h, p.flow) \in Nat /\ now' + TxTime(h, p.flow) + Delay \in Nat
    BY <1>3, <1>4
  <2>. QED  BY <1>5, <2>1, <2>2, Zenon
<1>7. /\ nextUid \in Nat /\ nextUid <= nextUid /\ nextUid < nextUid + 2
      /\ nextUid + 1 \in Nat /\ nextUid <= nextUid + 1 /\ nextUid + 1 < nextUid + 2
  BY <1>4
<1>8. \A f \in {Completion(h, p), Reception(h, p)} :
        /\ f.kind \in {"TransmitComplete", "Receive"}
        /\ f.at \in Nat /\ f.uid \in Nat /\ now' <= f.at /\ nextUid <= f.uid /\ f.uid < nextUid + 2
  BY <1>5, <1>6, <1>7, Zenon
<1>9. Scheduled(h, q) = {Completion(h, p), Reception(h, p)}
  BY DEF Scheduled, p
<1>. QED  BY <1>8, <1>9, Zenon

(* The same of what Send schedules. *)
LEMMA SendLater ==
  ASSUME RunInv, NEW S \in SUBSET Flow, SentFlows \subseteq S, now' \in Nat, NEW h \in Hop,
         NEW p \in PacketOf(S)
  PROVE  /\ \A f \in SendEvents(h, p) :
              /\ f.kind \in {"TransmitComplete", "Receive"}
              /\ f.at \in Nat /\ f.uid \in Nat /\ now' <= f.at /\ nextUid <= f.uid /\ f.uid < SendUid(h)
         /\ SendUid(h) \in Nat /\ nextUid <= SendUid(h)
<1>1. RunTypes /\ queue[h] \in Seq(PacketOf(S))
  BY CarriesMore DEF RunInv, Carries
<1>2. Append(queue[h], p) \in Seq(PacketOf(S)) /\ Append(queue[h], p) # <<>>
  BY <1>1, QueueGrows
<1>3. nextUid \in Nat
  BY <1>1 DEF RunTypes
<1>4. \A f \in Scheduled(h, Append(queue[h], p)) :
        /\ f.kind \in {"TransmitComplete", "Receive"}
        /\ f.at \in Nat /\ f.uid \in Nat /\ now' <= f.at /\ nextUid <= f.uid /\ f.uid < nextUid + 2
  BY <1>1, <1>2, ScheduledLater
<1>. QED  BY <1>3, <1>4 DEF SendEvents, SendUid

(* The events of the devices leave the clients alone. *)
LEMMA DeviceKeeps ==
  ASSUME RunInv, NEW e \in events, now' = e.at, DeviceEvent(e)
  PROVE  /\ e.kind \in {"TransmitComplete", "Receive"}
         /\ offered' = offered /\ \A f \in Flow : stats'[f].tx = stats[f].tx
         /\ events \ {e} \subseteq events'
         /\ \A f \in events' \ (events \ {e}) :
              /\ f.kind \in {"TransmitComplete", "Receive"}
              /\ f.at \in Nat /\ f.uid \in Nat /\ now' <= f.at /\ nextUid <= f.uid /\ f.uid < nextUid'
         /\ nextUid' \in Nat /\ nextUid <= nextUid' /\ now' \in Nat
<1>0. RunTypes /\ nextUid \in Nat /\ SentFlows \in SUBSET Flow /\ now' \in Nat
  BY PendingTypes DEF RunInv, RunTypes, SentFlows
<1>1. CASE e.kind = "TransmitComplete" /\ TransmitComplete(e)
  <2>1. e.hop \in Hop
    BY <1>1, PendingTypes
  <2>2. queue[e.hop] \in Seq(PacketOf(SentFlows))
    BY <2>1 DEF RunInv, Carries
  <2>3. queue[e.hop] # <<>> =>
          \A f \in Scheduled(e.hop, queue[e.hop]) :
           /\ f.kind \in {"TransmitComplete", "Receive"}
           /\ f.at \in Nat /\ f.uid \in Nat /\ now' <= f.at /\ nextUid <= f.uid /\ f.uid < nextUid + 2
    BY <1>0, <2>1, <2>2, ScheduledLater
  <2>4. offered' = offered /\ stats' = stats
    BY <1>1 DEF TransmitComplete
  <2>5. \/ events' = events \ {e} /\ nextUid' = nextUid
        \/ /\ queue[e.hop] # <<>> /\ nextUid' = nextUid + 3
           /\ events' = (events \ {e}) \cup Scheduled(e.hop, queue[e.hop])
    BY <1>1, <2>1, CompleteCases
  <2>. QED  BY <1>0, <1>1, <2>3, <2>4, <2>5
<1>2. CASE e.kind = "Receive" /\ e.hop < HopCount /\ Forward(e)
  <2>1. e.hop + 1 \in Hop /\ e.pkt \in PacketOf(SentFlows)
    BY <1>2, PendingTypes, HopAssumption DEF Hop
  <2>. QED  BY <1>0, <1>2, <2>1, SendLater DEF Forward
<1>3. CASE e.kind = "Receive" /\ Arrive(e)
  <2>1. e.pkt.flow \in Flow
    BY <1>0, <1>3, PendingTypes DEF PacketOf
  <2>2. \A f \in Flow : stats'[f].tx = stats[f].tx
    BY <1>0, <1>3, <2>1 DEF Arrive, Seen, RunTypes
  <2>. QED  BY <1>0, <1>3, <2>2 DEF Arrive
<1>. QED  BY <1>1, <1>2, <1>3, PendingTypes DEF DeviceEvent, Receive

(* Whose turn it is. *)
LEMMA Turn ==
  ASSUME TwoClients, RunInv, PendingInv, TurnInv, NEW e \in Sends, IsNext(e)
  PROVE  \E i \in 1 .. 2 :
           /\ e.flow = Clients[i] /\ Sent(i) < PacketCount /\ e.at = Sent(i) * Interval
           /\ IF i = 1 THEN Sent(1) = Sent(2) ELSE Sent(1) = Sent(2) + 1
<1>0. /\ Sent(1) \in Nat /\ Sent(2) \in Nat /\ PacketCount \in Nat /\ Interval \in Nat
  BY ClientTypes DEF RunInv
<1>1. \A f \in Sends : f \in events /\ f.at \in Nat /\ f.uid \in Nat
  BY PendingTypes DEF Sends
<1>2. PICK i \in 1 .. 2 :
        e.flow = Clients[i] /\ Sent(i) < PacketCount /\ e.at = Sent(i) * Interval
  BY DEF TurnInv
<1>3. /\ Sent(2) <= Sent(1) /\ Sent(1) <= Sent(2) + 1 /\ Sent(1) <= PacketCount
  BY DEF TurnInv
<1>4. \A f \in Sends : f.at > e.at \/ (f.at = e.at /\ f.uid >= e.uid)
  BY DEF IsNext, Sends
<1>5. ASSUME i = 1, Sent(1) # Sent(2)
      PROVE  FALSE
  <2>1. Sent(1) = Sent(2) + 1 /\ Sent(2) < PacketCount
    BY <1>0, <1>3, <1>5
  <2>2. PICK f \in Sends : f.flow = Clients[2]
    BY <2>1 DEF TurnInv
  <2>3. f.at = Sent(2) * Interval
    BY <2>2 DEF TurnInv, TwoClients
  <2>4. f.uid < e.uid
    BY <1>2, <1>5, <2>2 DEF TurnInv
  <2>5. f.at <= e.at
    <3>1. e.at = Sent(2) * Interval + Interval
      BY <1>0, <1>2, <1>5, <2>1
    <3>. QED  BY <1>0, <1>1, <2>3, <3>1
  <2>. QED  BY <1>1, <1>4, <2>4, <2>5
<1>6. ASSUME i = 2, Sent(1) # Sent(2) + 1
      PROVE  FALSE
  <2>1. Sent(1) = Sent(2) /\ Sent(1) < PacketCount
    BY <1>0, <1>2, <1>3, <1>6
  <2>2. PICK f \in Sends : f.flow = Clients[1]
    BY <2>1 DEF TurnInv
  <2>3. f.at = Sent(1) * Interval
    BY <2>2 DEF TurnInv, TwoClients
  <2>4. f.uid < e.uid
    BY <1>2, <1>6, <2>1, <2>2 DEF TurnInv
  <2>. QED  BY <1>1, <1>2, <1>4, <1>6, <2>1, <2>3, <2>4
<1>. QED  BY <1>2, <1>5, <1>6

(* What a client does when it sends: the packet is offered, and its next   *)
(* event comes one interval later, unless the train is complete.           *)
LEMMA SendAdds ==
  ASSUME TwoClients, RunInv, NEW e \in Sends, now' = e.at, SendNext(e)
  PROVE  LET n == ClientSend(e.flow, SendUid(1), now' + Interval)
         IN  /\ Offer(e.flow) /\ e.flow \in Flow /\ now' \in Nat
             /\ offered' = offered + 1
             /\ stats'[e.flow] = [stats[e.flow] EXCEPT !.tx = stats[e.flow].tx + 1]
             /\ \A f \in Flow : f # e.flow => stats'[f] = stats[f]
             /\ events' = (events \ {e}) \cup SendEvents(1, NextPacket(e.flow))
                            \cup (IF More(e) THEN {n} ELSE {})
             /\ nextUid' = SendUid(1) + (IF More(e) THEN 1 ELSE 0)
             /\ \A f \in SendEvents(1, NextPacket(e.flow)) :
                  /\ f.kind \in {"TransmitComplete", "Receive"}
                  /\ f.at \in Nat /\ f.uid \in Nat /\ now' <= f.at /\ nextUid <= f.uid /\ f.uid < SendUid(1)
             /\ SendUid(1) \in Nat /\ nextUid <= SendUid(1)
<1>1. RunTypes /\ e.flow \in Flow /\ now' \in Nat /\ 1 \in Hop
  BY PendingTypes, HopType DEF RunInv, Sends
<1>. DEFINE S == SentFlows \cup {e.flow}
<1>2. S \in SUBSET Flow /\ SentFlows \subseteq S /\ NextPacket(e.flow) \in PacketOf(S)
  BY <1>1 DEF SentFlows, NextPacket, PacketOf, RunTypes
<1>. HIDE DEF S
<1>3. /\ \A f \in SendEvents(1, NextPacket(e.flow)) :
           /\ f.kind \in {"TransmitComplete", "Receive"}
           /\ f.at \in Nat /\ f.uid \in Nat /\ now' <= f.at /\ nextUid <= f.uid /\ f.uid < SendUid(1)
      /\ SendUid(1) \in Nat /\ nextUid <= SendUid(1)
  BY <1>1, <1>2, SendLater
<1>4. Offer(e.flow)
  BY DEF SendNext, Train
<1>5. /\ stats'[e.flow] = [stats[e.flow] EXCEPT !.tx = stats[e.flow].tx + 1]
      /\ \A f \in Flow : f # e.flow => stats'[f] = stats[f]
  <2>1. stats' = [stats EXCEPT ![e.flow] = [stats[e.flow] EXCEPT !.tx = stats[e.flow].tx + 1]]
    BY <1>4 DEF Offer
  <2>. QED  BY <1>1, <2>1 DEF RunTypes
<1>6. offered' = offered + 1
  BY <1>4 DEF Offer
<1>7. /\ events' = (events \ {e}) \cup SendEvents(1, NextPacket(e.flow))
             \cup (IF More(e) THEN {ClientSend(e.flow, SendUid(1), now' + Interval)} ELSE {})
      /\ nextUid' = SendUid(1) + (IF More(e) THEN 1 ELSE 0)
  BY DEF SendNext, Train
<1>. QED  BY <1>1, <1>3, <1>4, <1>5, <1>6, <1>7

(* The clients start on schedule. *)
LEMMA ScheduleInit == TwoClients /\ DetInit => ScheduleInv
<1>. SUFFICES ASSUME TwoClients, DetInit PROVE PendingInv /\ TurnInv
  BY DEF ScheduleInv
<1>1. /\ now = 0 /\ offered = 0 /\ nextUid = 3
      /\ events = FirstSends \cup {Stop} /\ \A f \in Flow : stats[f].tx = 0
  BY DEF DetInit, Start, NoStats, TwoClients
<1>2. RunInv
  BY RunInit
<1>3. /\ Sent(1) = 0 /\ Sent(2) = 0 /\ Clients[1] # Clients[2]
      /\ PacketCount \in Nat \ {0} /\ Interval \in Nat /\ StopAt \in Nat
  BY <1>1, <1>2, ClientTypes DEF Sent, RunInv
<1>. DEFINE a == ClientSend(Clients[1], 0, 0)
            b == ClientSend(Clients[2], 1, 0)
<1>4. events = {a, b, Stop}
  <2>1. FirstSends = {ClientSend(Clients[i], i - 1, 0) : i \in 1 .. 2}
    BY DEF FirstSends, TwoClients
  <2>2. FirstSends = {ClientSend(Clients[1], 1 - 1, 0), ClientSend(Clients[2], 2 - 1, 0)}
    BY <2>1
  <2>3. FirstSends = {a, b}
    BY <2>2
  <2>. QED  BY <1>1, <2>3
<1>5. /\ a.kind = "Send" /\ a.flow = Clients[1] /\ a.at = 0 /\ a.uid = 0
      /\ b.kind = "Send" /\ b.flow = Clients[2] /\ b.at = 0 /\ b.uid = 1
      /\ Stop.kind = "Stop" /\ Stop.at = StopAt /\ Stop.uid = 2
  BY DEF ClientSend, Stop, TwoClients
<1>. HIDE DEF a, b
<1>6. PendingInv
  BY <1>1, <1>3, <1>4, <1>5 DEF PendingInv
<1>7. Sends = {a, b}
  BY <1>4, <1>5 DEF Sends
<1>8. TurnInv
  <2>1. \A e \in Sends : \E i \in 1 .. 2 :
          e.flow = Clients[i] /\ Sent(i) < PacketCount /\ e.at = Sent(i) * Interval
    BY <1>3, <1>5, <1>7
  <2>2. \A i \in 1 .. 2 : Sent(i) < PacketCount => \E e \in Sends : e.flow = Clients[i]
    BY <1>5, <1>7
  <2>3. \A e, f \in Sends :
          /\ e.flow = f.flow => e = f
          /\ e.flow = Clients[1] /\ f.flow = Clients[2] =>
               IF Sent(1) = Sent(2) THEN e.uid < f.uid ELSE f.uid < e.uid
    BY <1>3, <1>5, <1>7
  <2>4. {e \in events : e.kind = "Stop"} = {Stop}
    BY <1>4, <1>5
  <2>. QED  BY <1>1, <1>3, <2>1, <2>2, <2>3, <2>4 DEF TurnInv
<1>. QED  BY <1>6, <1>8

(* The turns depend on nothing else. *)
LEMMA TurnKept ==
  ASSUME TurnInv, offered' = offered, Sends' = Sends,
         \A e : e.kind = "Stop" => (e \in events' <=> e \in events),
         \A i \in 1 .. 2 : Sent(i)' = Sent(i)
  PROVE  TurnInv'
<1>1. Sent(1)' = Sent(1) /\ Sent(2)' = Sent(2)
  OBVIOUS
<1>2. /\ offered' = Sent(1)' + Sent(2)'
      /\ Sent(2)' <= Sent(1)' /\ Sent(1)' <= Sent(2)' + 1 /\ Sent(1)' <= PacketCount
  BY <1>1 DEF TurnInv
<1>3. \A e \in Sends' : \E i \in 1 .. 2 :
        e.flow = Clients[i] /\ Sent(i)' < PacketCount /\ e.at = Sent(i)' * Interval
  BY DEF TurnInv
<1>4. \A i \in 1 .. 2 : Sent(i)' < PacketCount => \E e \in Sends' : e.flow = Clients[i]
  BY DEF TurnInv
<1>5. \A e, f \in Sends' :
        /\ e.flow = f.flow => e = f
        /\ e.flow = Clients[1] /\ f.flow = Clients[2] =>
             IF Sent(1)' = Sent(2)' THEN e.uid < f.uid ELSE f.uid < e.uid
  BY <1>1 DEF TurnInv
<1>6. {e \in events' : e.kind = "Stop"} = {Stop}
  BY DEF TurnInv
<1>. QED  BY <1>2, <1>3, <1>4, <1>5, <1>6 DEF TurnInv

(* An event of a device leaves the schedule as it is. *)
LEMMA DeviceSchedule ==
  ASSUME TwoClients, RunInv, PendingInv, TurnInv,
         NEW e \in events, IsNext(e), now' = e.at, DeviceEvent(e)
  PROVE  PendingInv' /\ TurnInv'
<1>1. /\ e.kind \in {"TransmitComplete", "Receive"}
      /\ offered' = offered /\ \A f \in Flow : stats'[f].tx = stats[f].tx
      /\ events \ {e} \subseteq events'
      /\ \A f \in events' \ (events \ {e}) :
           /\ f.kind \in {"TransmitComplete", "Receive"}
           /\ f.at \in Nat /\ f.uid \in Nat /\ now' <= f.at /\ nextUid <= f.uid /\ f.uid < nextUid'
      /\ nextUid' \in Nat /\ nextUid <= nextUid' /\ now' \in Nat
  BY DeviceKeeps
<1>2. PendingInv'
  <2>1. \A f \in events : f.at \in Nat /\ f.uid \in Nat /\ f.uid < nextUid
    BY PendingTypes DEF PendingInv
  <2>2. \A f \in events : now' <= f.at
    BY <2>1 DEF IsNext
  <2>3. nextUid \in Nat
    BY DEF RunInv, RunTypes
  <2>. QED  BY <1>1, <2>1, <2>2, <2>3 DEF PendingInv
<1>3. Sends' = Sends
  BY <1>1 DEF Sends
<1>4. \A i \in 1 .. 2 : Sent(i)' = Sent(i)
  BY <1>1, ClientFlows DEF Sent, TwoClients
<1>5. \A f : f.kind = "Stop" => (f \in events' <=> f \in events)
  BY <1>1
<1>. QED  BY <1>1, <1>2, <1>3, <1>4, <1>5, TurnKept

(* So does a disc that is run. *)
LEMMA WakeSchedule ==
  ASSUME RunInv, PendingInv, TurnInv, NEW w \in wakes, IsNext(w), now' = w.at, Wake(w)
  PROVE  PendingInv' /\ TurnInv'
<1>1. UNCHANGED <<events, nextUid, offered, stats>>
  BY DEF Wake
<1>2. PendingInv'
  <2>1. w.at \in Nat /\ \A f \in events : f.at \in Nat /\ (f.at > w.at \/ f.at = w.at)
    BY PendingTypes DEF RunInv, HandTypes, WakeEvents, IsNext
  <2>. QED  BY <1>1, <2>1 DEF PendingInv
<1>3. Sends' = Sends /\ \A i \in 1 .. 2 : Sent(i)' = Sent(i)
  BY <1>1 DEF Sends, Sent
<1>. QED  BY <1>1, <1>2, <1>3, TurnKept
-----------------------------------------------------------------------------
(* The two clients take turns, and each keeps its pace. *)
LEMMA SendSchedule ==
  ASSUME TwoClients, RunInv, PendingInv, TurnInv, NEW e \in Sends, IsNext(e), now' = e.at,
         SendNext(e)
  PROVE  PendingInv' /\ TurnInv'
<1>. DEFINE n == ClientSend(e.flow, SendUid(1), now' + Interval)
            New == SendEvents(1, NextPacket(e.flow))
            a == Sent(1)
            b == Sent(2)
<1>1. PICK i \in 1 .. 2 :
        /\ e.flow = Clients[i] /\ Sent(i) < PacketCount /\ e.at = Sent(i) * Interval
        /\ IF i = 1 THEN a = b ELSE a = b + 1
  BY Turn
<1>2. /\ Clients[1] \in Flow /\ Clients[2] \in Flow /\ Clients[1] # Clients[2]
      /\ a \in Nat /\ b \in Nat /\ PacketCount \in Nat /\ Interval \in Nat
      /\ nextUid \in Nat /\ offered = a + b /\ e.kind = "Send"
  BY ClientTypes DEF RunInv, RunTypes, TurnInv, Sends
<1>3. /\ e.flow \in Flow /\ now' \in Nat /\ offered' = offered + 1
      /\ stats'[e.flow] = [stats[e.flow] EXCEPT !.tx = stats[e.flow].tx + 1]
      /\ \A f \in Flow : f # e.flow => stats'[f] = stats[f]
      /\ events' = (events \ {e}) \cup New \cup (IF More(e) THEN {n} ELSE {})
      /\ nextUid' = SendUid(1) + (IF More(e) THEN 1 ELSE 0)
      /\ \A f \in New :
           /\ f.kind \in {"TransmitComplete", "Receive"}
           /\ f.at \in Nat /\ f.uid \in Nat /\ now' <= f.at /\ nextUid <= f.uid /\ f.uid < SendUid(1)
      /\ SendUid(1) \in Nat /\ nextUid <= SendUid(1)
  BY SendAdds
<1>4. n.kind = "Send" /\ n.flow = e.flow /\ n.uid = SendUid(1) /\ n.at = now' + Interval
  BY DEF ClientSend
<1>5. /\ stats'[e.flow].tx = stats[e.flow].tx + 1
  <2>1. stats[e.flow] \in Statistics
    BY <1>3 DEF RunInv, RunTypes
  <2>. QED  BY <1>3, <2>1 DEF Statistics
<1>. HIDE DEF n, New
<1>6. /\ i = 1 => Sent(1)' = a + 1 /\ Sent(2)' = b
      /\ i = 2 => Sent(1)' = a /\ Sent(2)' = b + 1
  BY <1>1, <1>2, <1>3, <1>5 DEF Sent
<1>7. \A f \in events : f.at \in Nat /\ f.uid \in Nat /\ f.uid < nextUid /\ now' <= f.at
  <2>1. \A f \in events : f.at \in Nat /\ f.uid \in Nat /\ f.uid < nextUid
    BY PendingTypes DEF PendingInv
  <2>. QED  BY <2>1 DEF IsNext, Sends
<1>8. PendingInv'
  <2>1. SendUid(1) <= nextUid' /\ (More(e) => SendUid(1) < nextUid') /\ nextUid' \in Nat
    <3>1. CASE More(e)
      BY <1>3, <3>1
    <3>2. CASE ~More(e)
      BY <1>3, <3>2
    <3>. QED  BY <3>1, <3>2
  <2>2. \A f \in events \ {e} : now' <= f.at /\ f.uid < nextUid'
    BY <1>2, <1>3, <1>7, <2>1
  <2>3. \A f \in New : now' <= f.at /\ f.uid < nextUid'
    BY <1>2, <1>3, <2>1
  <2>4. More(e) => now' <= n.at /\ n.uid < nextUid'
    BY <1>2, <1>3, <1>4, <2>1
  <2>. QED  BY <1>3, <2>2, <2>3, <2>4 DEF PendingInv
<1>9. /\ Sends' = (Sends \ {e}) \cup (IF More(e) THEN {n} ELSE {})
      /\ \A f \in Sends : f \in events
  BY <1>3, <1>4 DEF Sends
<1>10. More(e) <=> Sent(i) + 1 < PacketCount
  BY <1>1 DEF More, Sent
<1>11. \A f \in Sends : f.flow = e.flow => f = e
  BY DEF TurnInv
<1>12. \A f \in Sends \ {e} : f.flow = Clients[3 - i]
  <2>1. \A f \in Sends : \E k \in 1 .. 2 : f.flow = Clients[k]
    BY DEF TurnInv
  <2>2. \A k \in 1 .. 2 : k = i \/ k = 3 - i
    OBVIOUS
  <2>. QED  BY <1>1, <1>11, <2>1, <2>2
<1>. DEFINE j == 3 - i
<1>13. /\ i \in 1 .. 2 /\ j \in 1 .. 2 /\ i # j /\ Clients[i] # Clients[j] /\ \A k \in 1 .. 2 : k \in {i, j}
       /\ Sent(i)' = Sent(i) + 1 /\ Sent(j)' = Sent(j) /\ Sent(i) \in Nat /\ Sent(j) \in Nat
  BY <1>1, <1>2, <1>6
<1>. HIDE DEF j
<1>14. TurnInv'
  <2>1. /\ offered' = Sent(1)' + Sent(2)'
        /\ Sent(2)' <= Sent(1)' /\ Sent(1)' <= Sent(2)' + 1 /\ Sent(1)' <= PacketCount
    BY <1>1, <1>2, <1>3, <1>6 DEF TurnInv
  <2>2. ASSUME NEW f \in Sends'
        PROVE  \E k \in 1 .. 2 :
                 f.flow = Clients[k] /\ Sent(k)' < PacketCount /\ f.at = Sent(k)' * Interval
    <3>1. CASE f = n /\ More(e)
      <4>1. n.at = (Sent(i) + 1) * Interval
        BY <1>1, <1>2, <1>4, <1>13
      <4>. QED  BY <3>1, <4>1, <1>1, <1>4, <1>10, <1>13
    <3>2. CASE f \in Sends \ {e}
      <4>1. f.flow = Clients[j]
        BY <3>2, <1>12 DEF j
      <4>2. PICK k \in 1 .. 2 :
              f.flow = Clients[k] /\ Sent(k) < PacketCount /\ f.at = Sent(k) * Interval
        BY <3>2 DEF TurnInv
      <4>3. k = j
        BY <4>1, <4>2, <1>13
      <4>. QED  BY <4>2, <4>3, <1>13
    <3>. QED  BY <2>2, <3>1, <3>2, <1>9
  <2>3. ASSUME NEW k \in 1 .. 2, Sent(k)' < PacketCount
        PROVE  \E f \in Sends' : f.flow = Clients[k]
    <3>1. CASE k = i
      BY <2>3, <3>1, <1>1, <1>4, <1>9, <1>10, <1>13
    <3>2. CASE k = j
      <4>1. PICK f \in Sends : f.flow = Clients[j]
        BY <2>3, <3>2, <1>13 DEF TurnInv
      <4>. QED  BY <3>2, <4>1, <1>1, <1>9, <1>13
    <3>. QED  BY <3>1, <3>2, <1>13
  <2>4. ASSUME NEW f \in Sends', NEW g \in Sends', f.flow = g.flow
        PROVE  f = g
    BY <2>4, <1>1, <1>4, <1>9, <1>12, <1>13 DEF TurnInv, j
  <2>5. ASSUME NEW f \in Sends', NEW g \in Sends', f.flow = Clients[1], g.flow = Clients[2]
        PROVE  IF Sent(1)' = Sent(2)' THEN f.uid < g.uid ELSE g.uid < f.uid
    <3>1. \A d \in Sends \ {e} : d.uid < n.uid
      BY <1>2, <1>3, <1>4, <1>7, <1>9
    <3>2. CASE i = 1
      <4>1. f = n /\ g \in Sends \ {e}
        BY <3>2, <2>5, <1>1, <1>2, <1>4, <1>9, <1>12
      <4>. QED  BY <3>1, <3>2, <4>1, <1>1, <1>2, <1>6
    <3>3. CASE i = 2
      <4>1. g = n /\ f \in Sends \ {e}
        BY <3>3, <2>5, <1>1, <1>2, <1>4, <1>9, <1>12
      <4>. QED  BY <3>1, <3>3, <4>1, <1>1, <1>2, <1>6
    <3>. QED  BY <3>2, <3>3
  <2>6. {f \in events' : f.kind = "Stop"} = {Stop}
    <3>1. \A f : f.kind = "Stop" => (f \in events' <=> f \in events)
      BY <1>2, <1>3, <1>4
    <3>. QED  BY <3>1 DEF TurnInv
  <2>. QED  BY <2>1, <2>2, <2>3, <2>4, <2>5, <2>6 DEF TurnInv
<1>. QED  BY <1>8, <1>14

(* Whatever event comes next, the clients stay on schedule. *)
LEMMA ScheduleStep ==
  ASSUME TwoClients, RunInv, ScheduleInv, [Step]_detVars
  PROVE  ScheduleInv'
<1>1. CASE UNCHANGED detVars
  <2>1. UNCHANGED <<events, now, nextUid, offered, stats, iter>>
    BY <1>1 DEF detVars, vars, simVars, mainVars
  <2>2. ASSUME iter = 0 PROVE PendingInv' /\ TurnInv'
    <3>1. PendingInv'
      BY <2>1, <2>2 DEF ScheduleInv, PendingInv
    <3>2. TurnInv /\ Sends' = Sends /\ \A i \in 1 .. 2 : Sent(i)' = Sent(i)
      BY <2>1, <2>2 DEF ScheduleInv, Sends, Sent
    <3>. QED  BY <2>1, <3>1, <3>2, TurnKept
  <2>. QED  BY <2>1, <2>2 DEF ScheduleInv
<1>2. CASE Loop
  BY <1>2 DEF Loop, ScheduleInv
<1>3. CASE Judge
  <2>1. iter' > 2
    BY <1>3 DEF Judge, TwoClients
  <2>. QED  BY <2>1 DEF ScheduleInv
<1>4. CASE RunEvent
  <2>1. PendingInv /\ TurnInv
    BY <1>4 DEF RunEvent, ScheduleInv
  <2>2. ASSUME NEW e \in events, IsNext(e), now' = e.at, DeviceEvent(e)
        PROVE  ScheduleInv'
    BY <2>1, <2>2, DeviceSchedule DEF ScheduleInv
  <2>3. ASSUME NEW e \in events, IsNext(e), now' = e.at, e.kind = "Send", SendNext(e)
        PROVE  ScheduleInv'
    <3>1. e \in Sends
      BY <2>3 DEF Sends
    <3>. QED  BY <2>1, <2>3, <3>1, SendSchedule DEF ScheduleInv
  <2>4. ASSUME NEW e, Analyse(e) PROVE ScheduleInv'
    BY <2>4 DEF Analyse, ScheduleInv
  <2>5. ASSUME NEW w \in wakes, IsNext(w), now' = w.at, Wake(w) PROVE ScheduleInv'
    BY <2>1, <2>5, WakeSchedule DEF ScheduleInv
  <2>. QED  BY <1>4, <2>2, <2>3, <2>4, <2>5, RunCases
<1>. QED  BY <1>1, <1>2, <1>3, <1>4 DEF Step

(* Hence they are on schedule until the simulator stops. *)
LEMMA ScheduleInvariance ==
  ASSUME TwoClients
  PROVE  DetSpec => []ScheduleInv
<1>1. DetInit => ScheduleInv
  BY ScheduleInit
<1>2. RunInv /\ ScheduleInv /\ [Step]_detVars => ScheduleInv'
  BY ScheduleStep
<1>. QED  BY <1>1, <1>2, RunInvariance, PTL DEF DetSpec
-----------------------------------------------------------------------------
(* The row of the experiment. *)

(* A device does in the row what it does in the experiment. *)
LEMMA RowActions ==
  /\ \A h, p : Net!Send(h, p) <=> Send(h, p)
  /\ \A h, p : Net!SendEvents(h, p) = SendEvents(h, p)
  /\ \A h : Net!SendUid(h) = SendUid(h)
  /\ \A f : Net!Offer(f) <=> Offer(f)
  /\ \A f : Net!NextPacket(f) = NextPacket(f)
BY DEF Net!Send, Send, Net!SendEvents, SendEvents, Net!SendUid, SendUid, Net!Offer, Offer,
       Net!NextPacket, NextPacket, Net!QueueFull, QueueFull, Net!Refuse, Refuse, Net!Idle, Idle,
       Net!None, None, Net!TransmitStart, TransmitStart, Net!Enqueue, Enqueue, Net!Starts, Starts,
       Net!Scheduled, Scheduled, Net!Completion, Completion, Net!Reception, Reception,
       Net!TxTime, TxTime, Net!Fill, Fill

(* What the row sees of the events. *)
LEMMA RowSees ==
  ASSUME NEW e, NEW X, events' = (events \ {e}) \cup X,
         \A f \in X : f.kind \in {"TransmitComplete", "Receive"}
  PROVE  RowEvents' = (RowEvents \ {e}) \cup X
BY DEF RowEvents

(* What a device schedules is an event of a device. *)
LEMMA ScheduledKinds ==
  /\ \A h, q : \A f \in Scheduled(h, q) : f.kind \in {"TransmitComplete", "Receive"}
  /\ \A h, p : \A f \in SendEvents(h, p) : f.kind \in {"TransmitComplete", "Receive"}
BY DEF SendEvents, Scheduled, Completion, Reception

(* The next event, if of a device, is the next of the row. *)
LEMMA RowDevice ==
  ASSUME NEW e \in RowEvents, IsNext(e), now' = e.at, DeviceEvent(e)
  PROVE  Net!IsNext(e) /\ Net!DeviceEvent(e)
<1>1. Net!IsNext(e)
  BY DEF Net!IsNext, IsNext, RowEvents
<1>. SUFFICES Net!DeviceEvent(e)
  BY <1>1
<1>2. CASE e.kind = "TransmitComplete" /\ TransmitComplete(e)
  <2>1. CASE handed[e.hop] = 0 /\ events' = events \ {e}
    <3>1. RowEvents' = RowEvents \ {e}
      BY <2>1 DEF RowEvents
    <3>. QED  BY <1>2, <2>1, <3>1
              DEF TransmitComplete, Net!DeviceEvent, Net!TransmitComplete, Net!None, None
  <2>2. CASE /\ handed[e.hop] # 0
             /\ events' = (events \ {e}) \cup Scheduled(e.hop, queue[e.hop])
    <3>1. RowEvents' = (RowEvents \ {e}) \cup Scheduled(e.hop, queue[e.hop])
      BY <2>2, ScheduledKinds, RowSees
    <3>. QED  BY <1>2, <2>2, <3>1
              DEF TransmitComplete, Net!DeviceEvent, Net!TransmitComplete, Net!None, None,
                  Net!TransmitStart, TransmitStart, Net!Woken, Woken,
                  Net!Scheduled, Scheduled, Net!Completion, Completion,
                  Net!Reception, Reception, Net!TxTime, TxTime
  <2>. QED  BY <1>2, <2>1, <2>2 DEF TransmitComplete
<1>3. CASE e.kind = "Receive" /\ e.hop < HopCount /\ Forward(e)
  <2>1. RowEvents' = (RowEvents \ {e}) \cup SendEvents(e.hop + 1, e.pkt)
    BY <1>3, ScheduledKinds, RowSees DEF Forward
  <2>2. Net!Forward(e)
    BY <1>3, <2>1, RowActions DEF Forward, Net!Forward
  <2>. QED  BY <1>3, <2>2 DEF Net!DeviceEvent, Net!Receive
<1>4. CASE e.kind = "Receive" /\ e.hop = HopCount /\ Arrive(e)
  <2>1. RowEvents' = RowEvents \ {e}
    BY <1>4 DEF Arrive, RowEvents
  <2>2. Net!Arrive(e)
    BY <1>4, <2>1 DEF Arrive, Net!Arrive, Net!devVars, devVars, Net!Seen, Seen
  <2>. QED  BY <1>4, <2>2 DEF Net!DeviceEvent, Net!Receive
<1>5. e.kind # "Wake"
  BY DEF RowEvents
<1>. QED  BY <1>2, <1>3, <1>4, <1>5 DEF DeviceEvent, Receive

(* A disc that is run in the experiment is run in the row. *)
LEMMA RowWake ==
  ASSUME RunInv, NEW w \in wakes, IsNext(w), now' = w.at, Wake(w)
  PROVE  Net!RunNext
<1>1. w.kind = "Wake"
  BY DEF RunInv, HandTypes, WakeEvents
<1>2. Net!IsNext(w)
  BY DEF Net!IsNext, IsNext, RowEvents
<1>3. Net!Wake(w)
  BY DEF Wake, Net!Wake, Fill, Net!Fill, RowEvents
<1>. QED  BY <1>1, <1>2, <1>3 DEF Net!RunNext, Net!DeviceEvent

(* Until the simulator stops, no event that is processed is later.         *)
LEMMA EventInTime ==
  ASSUME TwoClients, RunInv, PendingInv, TurnInv, NEW e \in events, IsNext(e), now' = e.at
  PROVE  Net!InTime
<1>1. \A f \in events : f.at \in Nat /\ now <= f.at
  BY PendingTypes DEF PendingInv
<1>2. \A f \in events \cup wakes : now' <= f.at
  <2>1. \A f \in wakes : f.at \in Nat
    BY DEF RunInv, HandTypes, WakeEvents
  <2>. QED  BY <1>1, <2>1 DEF IsNext
<1>3. Stop \in events /\ Stop.at = StopAt
  BY DEF TurnInv, Stop
<1>4. now \in Nat
  BY DEF RunInv, RunTypes
<1>5. now' \in Nat /\ now <= now' /\ now' <= StopAt /\ StopAt \in Nat
  BY <1>1, <1>2, <1>3
<1>6. now' \in now .. StopAt
  BY <1>4, <1>5
<1>7. \A f \in RowEvents \cup wakes : now' <= f.at
  BY <1>2 DEF RowEvents
<1>. QED  BY <1>6, <1>7 DEF Net!InTime

(* What a client sends is offered to the row, in time and within bounds.  *)
LEMMA RowOffer ==
  ASSUME TwoClients, RunInv, PendingInv, TurnInv, NEW e \in Sends, IsNext(e), now' = e.at,
         SendNext(e)
  PROVE  e.flow \in Flow /\ Net!OfferAnytime(e.flow)
<1>1. Net!InTime
  BY EventInTime DEF Sends
<1>2. /\ Offer(e.flow) /\ e.flow \in Flow
      /\ events' = (events \ {e}) \cup SendEvents(1, NextPacket(e.flow))
            \cup (IF More(e) THEN {ClientSend(e.flow, SendUid(1), now' + Interval)} ELSE {})
      /\ nextUid' = SendUid(1) + (IF More(e) THEN 1 ELSE 0)
      /\ SendUid(1) \in Nat
  BY SendAdds
<1>3. offered < Len(Clients) * PacketCount
  <2>1. PICK i \in 1 .. 2 : Sent(i) < PacketCount
    BY Turn
  <2>2. /\ Sent(1) \in Nat /\ Sent(2) \in Nat /\ PacketCount \in Nat
        /\ Sent(2) <= Sent(1) /\ Sent(1) <= PacketCount /\ offered = Sent(1) + Sent(2)
    BY ClientTypes DEF RunInv, TurnInv
  <2>3. Sent(2) < PacketCount
    BY <2>1, <2>2
  <2>4. offered < 2 * PacketCount
    BY <2>2, <2>3
  <2>. QED  BY <2>4 DEF TwoClients
<1>4. RowEvents' = RowEvents \cup SendEvents(1, NextPacket(e.flow))
  <2>1. ClientSend(e.flow, SendUid(1), now' + Interval).kind = "Send" /\ e.kind = "Send"
    BY DEF ClientSend, Sends
  <2>. HIDE DEF ClientSend
  <2>. QED  BY <1>2, <2>1, ScheduledKinds DEF RowEvents
<1>5. nextUid' \in {SendUid(1) + n : n \in 0 .. Len(Clients) + 1}
  <2>1. nextUid' = SendUid(1) + 1 \/ nextUid' = SendUid(1) + 0
    BY <1>2
  <2>2. 0 \in 0 .. 3 /\ 1 \in 0 .. 3
    OBVIOUS
  <2>. QED  BY <2>1, <2>2 DEF TwoClients
<1>. QED  BY <1>1, <1>2, <1>3, <1>4, <1>5, RowActions DEF Net!OfferAnytime

(* The stop is an event of the layers above that offers nothing. *)
LEMMA RowStop ==
  ASSUME TwoClients, RunInv, PendingInv, TurnInv, NEW e \in events, IsNext(e), now' = e.at,
         e.kind = "Stop", Analyse(e)
  PROVE  Net!OtherEvent
<1>1. Net!InTime
  BY EventInTime
<1>2. RowEvents' = RowEvents
  BY DEF Analyse, RowEvents
<1>. QED  BY <1>1, <1>2 DEF Net!OtherEvent, Analyse, devVars, Net!devVars

(* Every step is one of the row, or changes nothing there. *)
LEMMA RowStep ==
  ASSUME TwoClients, RunInv, ScheduleInv, [Step]_detVars
  PROVE  [Net!Next]_(Net!vars)
<1>1. ASSUME UNCHANGED vars PROVE UNCHANGED Net!vars
  BY <1>1 DEF vars, devVars, simVars, Net!vars, Net!devVars, Net!simVars, RowEvents
<1>2. CASE RunEvent
  <2>1. PendingInv /\ TurnInv
    BY <1>2 DEF RunEvent, ScheduleInv
  <2>2. ASSUME NEW e \in events, IsNext(e), now' = e.at, DeviceEvent(e)
        PROVE  Net!Next
    <3>1. e \in RowEvents
      BY <2>2, PendingTypes DEF DeviceEvent, RowEvents
    <3>2. Net!RunNext
      BY <2>2, <3>1, RowDevice DEF Net!RunNext
    <3>. QED  BY <3>2 DEF Net!Next
  <2>3. ASSUME NEW e \in events, IsNext(e), now' = e.at, e.kind = "Send", SendNext(e)
        PROVE  Net!Next
    <3>1. e \in Sends
      BY <2>3 DEF Sends
    <3>. QED  BY <2>1, <2>3, <3>1, RowOffer DEF Net!Next
  <2>4. ASSUME NEW e \in events, IsNext(e), now' = e.at, e.kind = "Stop", Analyse(e)
        PROVE  Net!Next
    BY <2>1, <2>4, RowStop DEF Net!Next
  <2>5. ASSUME NEW w \in wakes, IsNext(w), now' = w.at, Wake(w) PROVE Net!Next
    BY <2>5, RowWake DEF Net!Next
  <2>. QED  BY <1>2, <2>2, <2>3, <2>4, <2>5, RunCases
<1>. QED  BY <1>1, <1>2 DEF Step, Loop, Judge, detVars

(* The experiment starts with a row that is idle. *)
LEMMA RowInit == TwoClients /\ DetInit => Net!Init
<1>. SUFFICES ASSUME TwoClients, DetInit PROVE Net!Init
  OBVIOUS
<1>1. RowEvents = {}
  BY DEF DetInit, FirstSends, Stop, ClientSend, RowEvents
<1>2. nextUid \in 0 .. Len(Clients) + 1
  BY DEF DetInit, TwoClients
<1>3. Net!Start
  BY DEF DetInit, Start, Net!Start, Net!Hop, Hop, Net!None, None, Net!NoStats, NoStats
<1>. QED  BY <1>1, <1>2, <1>3 DEF Net!Init

(* The experiment with two clients runs the row of links: at every moment  *)
(* its devices, wires, statistics and uids are those of a row to which     *)
(* something is offered now and then.                                      *)
THEOREM ExperimentIsARow == TwoClients => (DetSpec => ImplementsTandem)
<1>. SUFFICES ASSUME TwoClients PROVE DetSpec => Net!Spec
  BY RowIsNet
<1>1. DetInit => Net!Init
  BY RowInit
<1>2. RunInv /\ ScheduleInv /\ [Step]_detVars => [Net!Next]_(Net!vars)
  BY RowStep
<1>. QED  BY <1>1, <1>2, RunInvariance, ScheduleInvariance, PTL DEF DetSpec, Net!Spec

(* Hence the invariant of the row holds throughout the experiment. *)
LEMMA RowInvariance ==
  ASSUME TwoClients
  PROVE  DetSpec => []Net!BaseInv
<1>1. Net!Spec => []Net!BaseInv
  BY Assumed, Net!BaseInvariance
<1>. QED  BY <1>1, RowIsNet, ExperimentIsARow, PTL
-----------------------------------------------------------------------------
(* The functions of the timetable.                                         *)

(* What holds of hop 0, and of a hop when it holds of the one before, is   *)
(* true of every hop.                                                      *)
LEMMA HopByHop ==
  ASSUME NEW G, 0 \in G, \A h \in Hop : h - 1 \in G => h \in G
  PROVE  \A h \in 0 .. HopCount : h \in G
<1>. DEFINE B == (0 .. HopCount) \ G
            Less == {ss \in Nat \X Nat : ss[1] < ss[2]}
<1>1. SUFFICES ASSUME B # {} PROVE FALSE
  OBVIOUS
<1>2. IsWellFoundedOn(Less, Nat)
  BY NatLessThanWellFounded DEF OpToRel
<1>3. HopCount \in Nat /\ B \subseteq Nat
  BY HopAssumption
<1>. HIDE DEF B, Less
<1>4. PICK h \in B : \A g \in B : ~ (<<g, h>> \in Less)
  BY <1>1, <1>2, <1>3, WFMin
<1>5. h \in Hop /\ h - 1 \in Nat /\ h - 1 \in 0 .. HopCount
  BY <1>3 DEF B, Hop
<1>6. h - 1 \notin B
  <2>1. <<h - 1, h>> \in Less
    BY <1>3, <1>5 DEF Less
  <2>. QED  BY <1>4, <2>1
<1>. QED  BY <1>4, <1>5, <1>6 DEF B

(* A function can be defined from hop to hop. *)
LEMMA AlongTheRow ==
  ASSUME NEW F \in [Nat \X Hop -> Nat]
  PROVE  \E g \in [0 .. HopCount -> Nat] :
           g[0] = 0 /\ \A h \in Hop : g[h] = F[<<g[h - 1], h>>]
<1>0. HopCount \in Nat \ {0} /\ Hop = 1 .. HopCount
  BY HopAssumption DEF Hop
<1>. DEFINE Upto(h, g) == g[0] = 0 /\ \A i \in 1 .. h : g[i] = F[<<g[i - 1], i>>]
            G == {h \in 0 .. HopCount : \E g \in [0 .. HopCount -> Nat] : Upto(h, g)}
<1>1. 0 \in G
  <2>. DEFINE g == [i \in 0 .. HopCount |-> 0]
  <2>1. g \in [0 .. HopCount -> Nat] /\ g[0] = 0 /\ 1 .. 0 = {}
    BY <1>0
  <2>. HIDE DEF g
  <2>2. Upto(0, g) /\ 0 \in 0 .. HopCount
    BY <1>0, <2>1
  <2>. QED  BY <2>1, <2>2
<1>2. ASSUME NEW h \in Hop, h - 1 \in G
      PROVE  h \in G
  <2>1. PICK g \in [0 .. HopCount -> Nat] : Upto(h - 1, g)
    BY <1>2
  <2>2. h - 1 \in 0 .. HopCount /\ h \in 0 .. HopCount /\ h \in Nat \ {0}
    BY <1>0
  <2>. DEFINE k == [g EXCEPT ![h] = F[<<g[h - 1], h>>]]
  <2>3. F[<<g[h - 1], h>>] \in Nat
    <3>1. g[h - 1] \in Nat
      BY <2>1, <2>2
    <3>. DEFINE x == <<g[h - 1], h>>
    <3>2. x \in Nat \X Hop
      BY <3>1
    <3>. HIDE DEF x
    <3>3. F[x] \in Nat
      BY <3>2
    <3>. QED  BY <3>3 DEF x
  <2>4. k \in [0 .. HopCount -> Nat] /\ k[h] = F[<<g[h - 1], h>>]
        /\ \A i \in 0 .. HopCount : i # h => k[i] = g[i]
    BY <2>2, <2>3
  <2>. HIDE DEF k
  <2>5. Upto(h, k)
    <3>1. k[0] = 0
      BY <1>0, <2>1, <2>2, <2>4
    <3>2. ASSUME NEW i \in 1 .. h PROVE k[i] = F[<<k[i - 1], i>>]
      <4>1. i \in 0 .. HopCount /\ i - 1 \in 0 .. HopCount /\ i - 1 # h
        BY <1>0, <2>2
      <4>2. k[i - 1] = g[i - 1]
        BY <2>4, <4>1
      <4>3. CASE i = h
        BY <2>4, <4>2, <4>3
      <4>4. CASE i # h
        <5>1. i \in 1 .. h - 1
          BY <2>2, <4>4
        <5>. QED  BY <2>1, <2>4, <4>1, <4>2, <4>4, <5>1
      <4>. QED  BY <4>3, <4>4
    <3>. QED  BY <3>1, <3>2
  <2>. QED  BY <2>2, <2>4, <2>5
<1>. HIDE DEF G, Upto
<1>3. HopCount \in G
  <2>1. HopCount \in 0 .. HopCount
    BY <1>0
  <2>. QED  BY <1>1, <1>2, <2>1, HopByHop
<1>. QED  BY <1>0, <1>3 DEF G, Upto

(* A client's packet takes a positive time on every link, and the links    *)
(* can carry one of each client in an interval.                            *)
LEMMA SlottedType ==
  ASSUME RunTypes, TwoClients
  PROVE  \A h \in Hop : Slotted(h) \in Nat \ {0}
<1>1. Size[Clients[1]] \in Nat \ {0}
  BY ClientFlows, PacketAssumption DEF TwoClients
<1>2. \A h \in Hop : byteTime[h] \in Nat \ {0}
  BY RateAssumption DEF RunTypes
<1>3. ASSUME NEW m \in Nat \ {0}, NEW n \in Nat \ {0} PROVE m * n \in Nat \ {0}
  BY SMT
<1>. QED  BY <1>1, <1>2, <1>3 DEF Slotted, Slot

(* The recursive definition of Latency has a solution. *)
LEMMA LatencyEquation ==
  ASSUME RunTypes, TwoClients
  PROVE  Latency = [h \in 0 .. HopCount |->
                      IF h = 0 THEN 0 ELSE Latency[h - 1] + Slotted(h) + Delay]
<1>1. /\ HopCount \in Nat \ {0} /\ Hop = 1 .. HopCount /\ Delay \in Nat
      /\ \A h \in Hop : Slotted(h) \in Nat
  BY SlottedType, HopAssumption, LinkAssumption DEF Hop
<1>. DEFINE F == [x \in Nat \X Hop |-> x[1] + Slotted(x[2]) + Delay]
<1>2. F \in [Nat \X Hop -> Nat]
  BY <1>1
<1>3. \A n \in Nat, h \in Hop : F[<<n, h>>] = n + Slotted(h) + Delay
  OBVIOUS
<1>. HIDE DEF F
<1>4. PICK g \in [0 .. HopCount -> Nat] :
        g[0] = 0 /\ \A h \in Hop : g[h] = F[<<g[h - 1], h>>]
  BY <1>2, AlongTheRow
<1>5. \A h \in 0 .. HopCount :
        g[h] = IF h = 0 THEN 0 ELSE g[h - 1] + Slotted(h) + Delay
  <2>1. \A h \in Hop : g[h - 1] \in Nat
    BY <1>1, <1>4
  <2>2. \A h \in 0 .. HopCount : h = 0 \/ h \in Hop
    BY <1>1
  <2>3. 0 \notin Hop
    BY <1>1
  <2>. QED  BY <1>3, <1>4, <2>1, <2>2, <2>3
<1>6. g = [h \in 0 .. HopCount |-> IF h = 0 THEN 0 ELSE g[h - 1] + Slotted(h) + Delay]
  BY <1>5
<1>7. \E f : f = [h \in 0 .. HopCount |-> IF h = 0 THEN 0 ELSE f[h - 1] + Slotted(h) + Delay]
  BY <1>6
<1>. QED  BY <1>7, Zenon DEF Latency

(* And that of Longest. *)
LEMMA LongestEquation ==
  ASSUME RunTypes, TwoClients
  PROVE  Longest = [h \in 0 .. HopCount |->
                      IF h = 0 THEN 0
                      ELSE IF Longest[h - 1] < Slotted(h) THEN Slotted(h) ELSE Longest[h - 1]]
<1>1. /\ HopCount \in Nat \ {0} /\ Hop = 1 .. HopCount
      /\ \A h \in Hop : Slotted(h) \in Nat
  BY SlottedType, HopAssumption DEF Hop
<1>. DEFINE F == [x \in Nat \X Hop |-> IF x[1] < Slotted(x[2]) THEN Slotted(x[2]) ELSE x[1]]
<1>2. F \in [Nat \X Hop -> Nat]
  BY <1>1
<1>3. \A n \in Nat, h \in Hop : F[<<n, h>>] = IF n < Slotted(h) THEN Slotted(h) ELSE n
  OBVIOUS
<1>. HIDE DEF F
<1>4. PICK g \in [0 .. HopCount -> Nat] :
        g[0] = 0 /\ \A h \in Hop : g[h] = F[<<g[h - 1], h>>]
  BY <1>2, AlongTheRow
<1>5. \A h \in 0 .. HopCount :
        g[h] = IF h = 0 THEN 0 ELSE IF g[h - 1] < Slotted(h) THEN Slotted(h) ELSE g[h - 1]
  <2>1. \A h \in Hop : g[h - 1] \in Nat
    BY <1>1, <1>4
  <2>2. \A h \in 0 .. HopCount : h = 0 \/ h \in Hop
    BY <1>1
  <2>3. 0 \notin Hop
    BY <1>1
  <2>. QED  BY <1>3, <1>4, <2>1, <2>2, <2>3
<1>6. g = [h \in 0 .. HopCount |->
             IF h = 0 THEN 0 ELSE IF g[h - 1] < Slotted(h) THEN Slotted(h) ELSE g[h - 1]]
  BY <1>5
<1>7. \E f : f = [h \in 0 .. HopCount |->
             IF h = 0 THEN 0 ELSE IF f[h - 1] < Slotted(h) THEN Slotted(h) ELSE f[h - 1]]
  BY <1>6
<1>. QED  BY <1>7, Zenon DEF Longest

(* The two functions from hop to hop. *)
LEMMA Timetable ==
  ASSUME RunTypes, TwoClients
  PROVE  /\ Latency[0] = 0 /\ Longest[0] = 0
         /\ \A h \in 0 .. HopCount : Latency[h] \in Nat /\ Longest[h] \in Nat
         /\ \A h \in Hop :
              /\ Latency[h] = Latency[h - 1] + Slotted(h) + Delay
              /\ Longest[h] = IF Longest[h - 1] < Slotted(h) THEN Slotted(h) ELSE Longest[h - 1]
<1>1. /\ HopCount \in Nat \ {0} /\ Hop = 1 .. HopCount /\ Delay \in Nat
      /\ \A h \in Hop : Slotted(h) \in Nat
  BY SlottedType, HopAssumption, LinkAssumption DEF Hop
<1>2. 0 \in 0 .. HopCount /\ 0 \notin Hop /\ \A h \in Hop : h \in 0 .. HopCount /\ h # 0
  BY <1>1
<1>3. Latency[0] = 0 /\ \A h \in Hop : Latency[h] = Latency[h - 1] + Slotted(h) + Delay
  BY <1>2, LatencyEquation
<1>4. /\ Longest[0] = 0
      /\ \A h \in Hop :
           Longest[h] = IF Longest[h - 1] < Slotted(h) THEN Slotted(h) ELSE Longest[h - 1]
  BY <1>2, LongestEquation
<1>. DEFINE G == {h \in 0 .. HopCount : Latency[h] \in Nat /\ Longest[h] \in Nat}
<1>5. ASSUME NEW h \in Hop, h - 1 \in G PROVE h \in G
  <2>1. Latency[h] = Latency[h - 1] + Slotted(h) + Delay
    BY <1>3
  <2>2. Longest[h] = Slotted(h) \/ Longest[h] = Longest[h - 1]
    BY <1>4
  <2>3. Latency[h] \in Nat
    BY <1>1, <1>5, <2>1
  <2>4. Longest[h] \in Nat
    BY <1>1, <1>5, <2>2
  <2>. QED  BY <1>2, <2>3, <2>4
<1>7. 0 \in G
  BY <1>2, <1>3, <1>4
<1>. HIDE DEF G
<1>6. \A h \in 0 .. HopCount : h \in G
  BY <1>5, <1>7, HopByHop
<1>. QED  BY <1>3, <1>4, <1>6 DEF G

(* Links that fit: a pair of packets is through before the next one comes, *)
(* on every hop and on the way so far.                                     *)
LEMMA FitsTypes ==
  ASSUME RunTypes, Fits
  PROVE  /\ TwoClients /\ Interval \in Nat /\ PacketCount \in Nat \ {0} /\ Delay \in Nat
         /\ DiscLimit >= 2 /\ HopCount \in Nat \ {0} /\ DiscLimit \in Nat
         /\ \A h \in Hop : Slotted(h) \in Nat \ {0} /\ 2 * Slotted(h) <= Interval
         /\ \A h \in Hop, i \in 1 .. 2 : TxTime(h, Clients[i]) = Slotted(h)
<1>1. TwoClients /\ TwoAlike /\ \A h \in Hop : LoadFits(h)
  BY DEF Fits, TwoAlike, TwoClients
<1>2. \A h \in Hop : TxTime(h, Clients[1]) = Slotted(h) /\ TxTime(h, Clients[2]) = Slotted(h)
  BY <1>1 DEF TwoAlike, TxTime, Slotted, Slot
<1>3. \A h \in Hop : Slotted(h) \in Nat \ {0}
  BY <1>1, SlottedType
<1>4. Interval \in Nat /\ PacketCount \in Nat \ {0}
  BY TrainAssumption
<1>5. \A h \in Hop : 2 * Slotted(h) <= Interval
  BY <1>1, <1>2, <1>3, <1>4 DEF LoadFits
<1>6. \A h \in Hop, i \in 1 .. 2 : TxTime(h, Clients[i]) = Slotted(h)
  BY <1>2
<1>. QED  BY <1>1, <1>3, <1>4, <1>5, <1>6, HopAssumption, LinkAssumption DEF TwoAlike

(* Two packets of the longest slot so far fit into one interval. *)
LEMMA LongestFits ==
  ASSUME RunTypes, Fits
  PROVE  \A h \in 0 .. HopCount : 2 * Longest[h] <= Interval
<1>. DEFINE G == {h \in 0 .. HopCount : 2 * Longest[h] <= Interval}
<1>1. 0 \in G
  BY FitsTypes, Timetable
<1>2. ASSUME NEW h \in Hop, h - 1 \in G
      PROVE  h \in G
  <2>1. h \in 0 .. HopCount
    BY HopAssumption DEF Hop
  <2>. QED  BY <1>2, <2>1, FitsTypes, Timetable
<1>. HIDE DEF G
<1>3. \A h \in 0 .. HopCount : h \in G
  BY <1>1, <1>2, HopByHop
<1>. QED  BY <1>3 DEF G

(* A pair of packets takes a delay and an interval per hop at most. *)
LEMMA LatencyFits ==
  ASSUME RunTypes, Fits
  PROVE  \A h \in 0 .. HopCount : Latency[h] + Longest[h] <= HopCount * (Delay + Interval)
<1>. DEFINE G == {h \in 0 .. HopCount : Latency[h] + Longest[h] <= h * (Delay + Interval)}
<1>0. /\ TwoClients /\ Interval \in Nat /\ Delay \in Nat /\ HopCount \in Nat \ {0}
      /\ \A h \in 0 .. HopCount : Latency[h] \in Nat /\ Longest[h] \in Nat
  BY FitsTypes, Timetable
<1>1. 0 \in G
  BY <1>0, Timetable
<1>2. ASSUME NEW h \in Hop, h - 1 \in G
      PROVE  h \in G
  <2>1. h \in 0 .. HopCount /\ h - 1 \in 0 .. HopCount /\ h \in Nat \ {0}
    BY <1>0 DEF Hop
  <2>2. h * (Delay + Interval) = (h - 1) * (Delay + Interval) + Delay + Interval
    BY <1>0, <2>1
  <2>3. /\ Latency[h] = Latency[h - 1] + Slotted(h) + Delay
        /\ Longest[h] = IF Longest[h - 1] < Slotted(h) THEN Slotted(h) ELSE Longest[h - 1]
    BY <1>0, Timetable
  <2>4. Slotted(h) \in Nat /\ 2 * Slotted(h) <= Interval
    BY FitsTypes
  <2>. DEFINE x == h * (Delay + Interval)
              y == (h - 1) * (Delay + Interval)
  <2>5. x \in Nat /\ y \in Int
    BY <1>0, <2>1
  <2>6. Latency[h - 1] + Longest[h - 1] <= y /\ x = y + Delay + Interval
    BY <1>2, <2>2
  <2>. HIDE DEF x, y
  <2>7. Latency[h] + Longest[h] <= x
    BY <1>0, <2>1, <2>3, <2>4, <2>5, <2>6
  <2>. QED  BY <2>1, <2>7 DEF x
<1>. HIDE DEF G
<1>3. \A h \in 0 .. HopCount : h \in G
  BY <1>1, <1>2, HopByHop
<1>4. ASSUME NEW m \in Nat, NEW n \in Nat, m <= n, NEW d \in Nat PROVE m * d <= n * d
  <2>1. (n - m) * d >= 0 /\ n * d = m * d + (n - m) * d
    BY <1>4
  <2>. QED  BY <1>4, <2>1
<1>5. ASSUME NEW h \in 0 .. HopCount
      PROVE  Latency[h] + Longest[h] <= HopCount * (Delay + Interval)
  <2>1. h \in Nat /\ h <= HopCount /\ Delay + Interval \in Nat /\ HopCount \in Nat
    BY <1>0
  <2>2. Latency[h] + Longest[h] <= h * (Delay + Interval)
    BY <1>3 DEF G
  <2>3. h * (Delay + Interval) <= HopCount * (Delay + Interval)
    BY <1>4, <2>1
  <2>4. h * (Delay + Interval) \in Nat /\ HopCount * (Delay + Interval) \in Nat
    BY <2>1
  <2>. QED  BY <1>0, <2>2, <2>3, <2>4
<1>. QED  BY <1>5
-----------------------------------------------------------------------------
(* When the packets are due.                                               *)

(* A packet is the first or the second of its pair. *)
LEMMA Halves ==
  ASSUME NEW k \in Nat \ {0}
  PROVE  LET r == (k - 1) \div 2
         IN  /\ r \in Nat /\ k % 2 \in {0, 1}
             /\ k % 2 = 1 => k = 2 * r + 1
             /\ k % 2 = 0 => k = 2 * r + 2
OBVIOUS

(* Products of what is natural, in order. *)
LEMMA Pairs ==
  ASSUME NEW r \in Nat, NEW s \in Nat, NEW t \in Nat
  PROVE  /\ r * t \in Nat
         /\ r <= s => r * t <= s * t
         /\ r < s => r * t + t <= s * t
         /\ s = r + 1 => s * t = r * t + t
<1>1. ASSUME NEW m \in Nat, NEW n \in Nat PROVE m * n \in Nat
  BY SMT
<1>2. ASSUME NEW d \in Nat, s = r + d PROVE r * t <= s * t
  <2>1. s * t = r * t + d * t
    BY <1>2
  <2>. QED  BY <1>1, <2>1
<1>3. ASSUME NEW d \in Nat, s = r + 1 + d PROVE r * t + t <= s * t
  <2>1. s * t = r * t + t + d * t
    BY <1>3
  <2>. QED  BY <1>1, <2>1
<1>4. s = r + 1 => s * t = r * t + t
  OBVIOUS
<1>5. r <= s => s - r \in Nat /\ s = r + (s - r)
  OBVIOUS
<1>6. r < s => s - r - 1 \in Nat /\ s = r + 1 + (s - r - 1)
  OBVIOUS
<1>. QED  BY <1>1, <1>2, <1>3, <1>4, <1>5, <1>6

(* The two forms of a due time. *)
LEMMA DueForms ==
  ASSUME RunTypes, Fits, NEW k \in Nat \ {0}, NEW h \in 0 .. HopCount
  PROVE  LET r == (k - 1) \div 2
         IN  /\ r \in Nat /\ r * Interval \in Nat /\ Due(k, h) \in Nat
             /\ \/ k = 2 * r + 1 /\ Due(k, h) = r * Interval + Latency[h]
                \/ k = 2 * r + 2 /\ Due(k, h) = r * Interval + Latency[h] + Longest[h]
<1>. DEFINE r == (k - 1) \div 2
<1>1. /\ r \in Nat
      /\ \/ k % 2 = 1 /\ k = 2 * r + 1
         \/ k % 2 = 0 /\ k = 2 * r + 2
  BY Halves
<1>2. TwoClients /\ Interval \in Nat /\ Latency[h] \in Nat /\ Longest[h] \in Nat
  BY FitsTypes, Timetable
<1>3. r * Interval \in Nat
  BY <1>1, <1>2, Pairs
<1>4. Due(k, h) = r * Interval + Latency[h] + (IF k % 2 = 1 THEN 0 ELSE Longest[h])
  BY DEF Due
<1>. DEFINE m == r * Interval
<1>5. m \in Nat /\ Due(k, h) = m + Latency[h] + (IF k % 2 = 1 THEN 0 ELSE Longest[h])
  BY <1>3, <1>4
<1>. HIDE DEF r, m
<1>6. /\ Due(k, h) \in Nat
      /\ k % 2 = 1 => Due(k, h) = m + Latency[h]
      /\ k % 2 = 0 => Due(k, h) = m + Latency[h] + Longest[h]
  BY <1>2, <1>5
<1>. QED  BY <1>1, <1>3, <1>6 DEF r, m

(* A packet is due later than those before it. *)
LEMMA DueMonotone ==
  ASSUME RunTypes, Fits, NEW k \in Nat \ {0}, NEW l \in Nat \ {0}, k <= l, NEW h \in 0 .. HopCount
  PROVE  Due(k, h) <= Due(l, h)
<1>. DEFINE r == (k - 1) \div 2
            s == (l - 1) \div 2
            x == r * Interval
            y == s * Interval
<1>1. /\ r \in Nat /\ x \in Nat /\ Due(k, h) \in Nat
      /\ \/ k = 2 * r + 1 /\ Due(k, h) = x + Latency[h]
         \/ k = 2 * r + 2 /\ Due(k, h) = x + Latency[h] + Longest[h]
  BY DueForms
<1>2. /\ s \in Nat /\ y \in Nat /\ Due(l, h) \in Nat
      /\ \/ l = 2 * s + 1 /\ Due(l, h) = y + Latency[h]
         \/ l = 2 * s + 2 /\ Due(l, h) = y + Latency[h] + Longest[h]
  BY DueForms
<1>3. /\ Interval \in Nat /\ Latency[h] \in Nat /\ Longest[h] \in Nat /\ 2 * Longest[h] <= Interval
  BY FitsTypes, Timetable, LongestFits
<1>. HIDE DEF r, s
<1>4. (r <= s => x <= y) /\ (r < s => x + Interval <= y)
  BY <1>1, <1>2, <1>3, Pairs
<1>. HIDE DEF x, y
<1>5. r <= s
  BY <1>1, <1>2
<1>6. CASE r = s
  <2>1. x = y
    BY <1>6 DEF x, y
  <2>. QED  BY <1>1, <1>2, <1>3, <1>6, <2>1
<1>7. CASE r < s
  BY <1>1, <1>2, <1>3, <1>4, <1>7
<1>. QED  BY <1>1, <1>2, <1>5, <1>6, <1>7

(* A link transmits a packet when it has come and when the one before it   *)
(* is through.                                                             *)
LEMMA DueNext ==
  ASSUME RunTypes, Fits, NEW k \in Nat \ {0}, NEW h \in Hop
  PROVE  /\ k = 1 => Due(k, h) = Due(k, h - 1) + Slotted(h) + Delay
         /\ k > 1 => Due(k, h) = (IF Due(k, h - 1) + Delay < Due(k - 1, h)
                                  THEN Due(k - 1, h) ELSE Due(k, h - 1) + Delay) + Slotted(h)
<1>0. h \in 0 .. HopCount /\ h - 1 \in 0 .. HopCount
  BY FitsTypes DEF Hop
<1>. DEFINE r == (k - 1) \div 2
            x == r * Interval
<1>1. /\ r \in Nat /\ x \in Nat
      /\ \/ /\ k = 2 * r + 1 /\ Due(k, h) = x + Latency[h]
            /\ Due(k, h - 1) = x + Latency[h - 1]
         \/ /\ k = 2 * r + 2 /\ Due(k, h) = x + Latency[h] + Longest[h]
            /\ Due(k, h - 1) = x + Latency[h - 1] + Longest[h - 1]
  <2>1. /\ r \in Nat /\ x \in Nat
        /\ \/ k = 2 * r + 1 /\ Due(k, h) = x + Latency[h]
           \/ k = 2 * r + 2 /\ Due(k, h) = x + Latency[h] + Longest[h]
    BY <1>0, DueForms
  <2>2. \/ k = 2 * r + 1 /\ Due(k, h - 1) = x + Latency[h - 1]
        \/ k = 2 * r + 2 /\ Due(k, h - 1) = x + Latency[h - 1] + Longest[h - 1]
    BY <1>0, DueForms
  <2>. HIDE DEF r, x
  <2>. QED  BY <2>1, <2>2
<1>2. /\ TwoClients /\ Interval \in Nat /\ Delay \in Nat
      /\ Slotted(h) \in Nat \ {0} /\ 2 * Slotted(h) <= Interval
  BY FitsTypes
<1>3. /\ Latency[h] = Latency[h - 1] + Slotted(h) + Delay
      /\ Longest[h] = IF Longest[h - 1] < Slotted(h) THEN Slotted(h) ELSE Longest[h - 1]
      /\ Latency[h - 1] \in Nat /\ Longest[h - 1] \in Nat /\ Longest[h] \in Nat
      /\ 2 * Longest[h] <= Interval
  BY <1>0, <1>2, Timetable, LongestFits
<1>. HIDE DEF r, x
<1>4. CASE k = 1
  BY <1>1, <1>2, <1>3, <1>4
<1>5. CASE k = 2 * r + 2
  <2>1. k - 1 \in Nat \ {0} /\ k - 1 = 2 * r + 1
    BY <1>1, <1>5
  <2>2. (k - 1 - 1) \div 2 = r
    BY <1>1, <2>1
  <2>3. Due(k - 1, h) = x + Latency[h]
    <3>1. \/ k - 1 = 2 * r + 1 /\ Due(k - 1, h) = r * Interval + Latency[h]
          \/ k - 1 = 2 * r + 2
      BY <1>0, <2>1, <2>2, DueForms
    <3>. QED  BY <1>1, <2>1, <3>1 DEF x
  <2>. QED  BY <1>1, <1>2, <1>3, <1>5, <2>3
<1>6. CASE k = 2 * r + 1 /\ k # 1
  <2>. DEFINE s == r - 1
              y == s * Interval
  <2>1. k - 1 \in Nat \ {0} /\ s \in Nat /\ k - 1 = 2 * s + 2 /\ r = s + 1
    BY <1>1, <1>6
  <2>2. (k - 1 - 1) \div 2 = s
    BY <2>1
  <2>3. Due(k - 1, h) = y + Latency[h] + Longest[h]
    <3>1. \/ k - 1 = 2 * s + 1
          \/ k - 1 = 2 * s + 2 /\ Due(k - 1, h) = s * Interval + Latency[h] + Longest[h]
      BY <1>0, <2>1, <2>2, DueForms
    <3>. QED  BY <2>1, <3>1
  <2>4. x = y + Interval /\ y \in Nat
    BY <1>1, <1>2, <2>1, Pairs DEF x
  <2>. HIDE DEF s, y
  <2>. QED  BY <1>1, <1>2, <1>3, <1>6, <2>3, <2>4
<1>. QED  BY <1>1, <1>4, <1>5, <1>6

(* A link is through with a packet before the third after it comes. *)
LEMMA DueApart ==
  ASSUME RunTypes, Fits, NEW k \in Nat \ {0}, NEW l \in Nat \ {0}, k + 3 <= l, NEW h \in Hop
  PROVE  Due(k, h) < Due(l, h - 1) + Delay
<1>0. h \in 0 .. HopCount /\ h - 1 \in 0 .. HopCount
  BY FitsTypes DEF Hop
<1>. DEFINE r == (k - 1) \div 2
            s == (l - 1) \div 2
            x == r * Interval
            y == s * Interval
<1>1. /\ r \in Nat /\ x \in Nat /\ Due(k, h) \in Nat
      /\ \/ k = 2 * r + 1 /\ Due(k, h) = x + Latency[h]
         \/ k = 2 * r + 2 /\ Due(k, h) = x + Latency[h] + Longest[h]
  BY <1>0, DueForms
<1>2. /\ s \in Nat /\ y \in Nat /\ Due(l, h - 1) \in Nat
      /\ \/ l = 2 * s + 1 /\ Due(l, h - 1) = y + Latency[h - 1]
         \/ l = 2 * s + 2 /\ Due(l, h - 1) = y + Latency[h - 1] + Longest[h - 1]
  BY <1>0, DueForms
<1>3. /\ TwoClients /\ Interval \in Nat /\ Delay \in Nat
      /\ Slotted(h) \in Nat \ {0} /\ 2 * Slotted(h) <= Interval
  BY FitsTypes
<1>4. /\ Latency[h] = Latency[h - 1] + Slotted(h) + Delay
      /\ Latency[h - 1] \in Nat /\ Longest[h - 1] \in Nat /\ Longest[h] \in Nat
      /\ 2 * Longest[h] <= Interval
  BY <1>0, <1>3, Timetable, LongestFits
<1>. HIDE DEF r, s
<1>5. (r < s => x + Interval <= y) /\ (r + 1 < s => x + Interval + Interval <= y)
  <2>1. r < s => x + Interval <= y
    BY <1>1, <1>2, <1>3, Pairs
  <2>2. r + 1 < s => (r + 1) * Interval + Interval <= y
    BY <1>1, <1>2, <1>3, Pairs
  <2>3. (r + 1) * Interval = x + Interval
    BY <1>1, <1>3, Pairs
  <2>. HIDE DEF x, y
  <2>. QED  BY <2>1, <2>2, <2>3
<1>. HIDE DEF x, y
<1>6. r < s
  BY <1>1, <1>2
<1>7. CASE k = 2 * r + 1
  <2>1. Due(k, h) = x + Latency[h - 1] + Slotted(h) + Delay
    BY <1>1, <1>3, <1>4, <1>7
  <2>2. y + Latency[h - 1] <= Due(l, h - 1) /\ x + Interval <= y
    BY <1>2, <1>4, <1>5, <1>6
  <2>3. Slotted(h) < Interval
    BY <1>3
  <2>. QED  BY <1>1, <1>2, <1>3, <1>4, <2>1, <2>2, <2>3
<1>8. CASE k = 2 * r + 2
  <2>1. Due(k, h) = x + Latency[h - 1] + Slotted(h) + Delay + Longest[h]
    BY <1>1, <1>3, <1>4, <1>8
  <2>2. r + 1 < s
    BY <1>1, <1>2, <1>8
  <2>3. y + Latency[h - 1] <= Due(l, h - 1) /\ x + Interval + Interval <= y
    BY <1>2, <1>4, <1>5, <2>2
  <2>4. Slotted(h) + Longest[h] <= Interval /\ Interval > 0
    BY <1>3, <1>4
  <2>. QED  BY <1>1, <1>2, <1>3, <1>4, <2>1, <2>3, <2>4
<1>. QED  BY <1>1, <1>7, <1>8

(* Where the time is enough, every packet is due before the simulator      *)
(* stops; and the last of a client is due as long after the first as it    *)
(* is sent after it.                                                       *)
LEMMA DueBeforeStop ==
  ASSUME RunTypes, Fits, TimeEnough, NEW k \in 1 .. 2 * PacketCount, NEW h \in 0 .. HopCount
  PROVE  Due(k, h) < StopAt
<1>. DEFINE r == (k - 1) \div 2
            x == r * Interval
            y == PacketCount * Interval
            z == HopCount * (Delay + Interval)
<1>1. /\ TwoClients /\ Interval \in Nat /\ Delay \in Nat /\ PacketCount \in Nat \ {0} /\ HopCount \in Nat
  BY FitsTypes
<1>2. k \in Nat \ {0}
  BY <1>1
<1>3. /\ r \in Nat /\ x \in Nat /\ Due(k, h) \in Nat
      /\ \/ k = 2 * r + 1 /\ Due(k, h) = x + Latency[h]
         \/ k = 2 * r + 2 /\ Due(k, h) = x + Latency[h] + Longest[h]
  BY <1>2, DueForms
<1>4. /\ Latency[h] \in Nat /\ Longest[h] \in Nat /\ Latency[h] + Longest[h] <= z /\ z \in Nat
  BY <1>1, Timetable, LatencyFits, Pairs
<1>5. StopAt \in Nat /\ y + z < StopAt
  BY TrainAssumption DEF TimeEnough
<1>. HIDE DEF r, z
<1>6. r < PacketCount
  BY <1>1, <1>3
<1>7. x <= y /\ y \in Nat
  <2>1. PacketCount \in Nat /\ r <= PacketCount
    BY <1>1, <1>3, <1>6
  <2>2. /\ PacketCount * Interval \in Nat
        /\ r <= PacketCount => r * Interval <= PacketCount * Interval
    BY <1>1, <1>3, <2>1, Pairs
  <2>. QED  BY <2>1, <2>2
<1>. HIDE DEF x, y
<1>. QED  BY <1>3, <1>4, <1>5, <1>7

(* The last packet of a train is due as long after the first as sent.     *)
LEMMA DueSpread ==
  ASSUME RunTypes, Fits, NEW i \in 1 .. 2
  PROVE  LET k == 2 * (PacketCount - 1) + i
         IN  Due(k, HopCount) - Due(i, HopCount) = (PacketCount - 1) * Interval
<1>. DEFINE n == PacketCount - 1
            k == 2 * n + i
<1>1. TwoClients /\ n \in Nat /\ Interval \in Nat /\ HopCount \in 0 .. HopCount
  BY FitsTypes
<1>2. Latency[HopCount] \in Nat /\ Longest[HopCount] \in Nat
  BY <1>1, Timetable
<1>. HIDE DEF n
<1>3. (k - 1) \div 2 = n /\ (i - 1) \div 2 = 0 /\ (k % 2 = 1 <=> i % 2 = 1)
  BY <1>1
<1>4. n * Interval \in Nat /\ 0 * Interval = 0
  BY <1>1, Pairs
<1>5. Due(k, HopCount) = n * Interval + Latency[HopCount] + (IF i % 2 = 1 THEN 0 ELSE Longest[HopCount])
  BY <1>3 DEF Due
<1>6. Due(i, HopCount) = 0 + Latency[HopCount] + (IF i % 2 = 1 THEN 0 ELSE Longest[HopCount])
  BY <1>3, <1>4 DEF Due
<1>. DEFINE x == n * Interval
            w == IF i % 2 = 1 THEN 0 ELSE Longest[HopCount]
<1>7. x \in Nat /\ w \in Nat
  BY <1>2, <1>4
<1>8. Due(k, HopCount) = x + Latency[HopCount] + w /\ Due(i, HopCount) = 0 + Latency[HopCount] + w
  BY <1>5, <1>6
<1>. HIDE DEF x, w, k
<1>9. Due(k, HopCount) - Due(i, HopCount) = x
  BY <1>2, <1>7, <1>8
<1>. QED  BY <1>9 DEF x, k, n

(* The timetable depends on the rates alone. *)
LEMMA DueSame ==
  ASSUME byteTime' = byteTime
  PROVE  /\ \A h : Slotted(h)' = Slotted(h)
         /\ Latency' = Latency /\ Longest' = Longest
         /\ \A k, h : Due(k, h)' = Due(k, h)
<1>1. \A h : Slotted(h)' = Slotted(h)
  BY DEF Slotted, Slot
<1>2. Latency' = Latency
  BY <1>1 DEF Latency
<1>3. Longest' = Longest
  BY <1>1 DEF Longest
<1>. QED  BY <1>1, <1>2, <1>3 DEF Due
-----------------------------------------------------------------------------
(* What the invariant of the row says of the experiment.                   *)

(* The row has the packets where the experiment has them. *)
SameRow ==
  /\ Net!Hop = Hop /\ Net!Packet = Packet
  /\ \A h : /\ Net!Receptions(h) = Receptions(h) /\ Net!OnWire(h) = OnWire(h)
            /\ Net!Queued(h) = Queued(h) /\ Net!At(h) = At(h)
            /\ Net!Idle(h) <=> Idle(h)
            /\ Net!QueueFull(h) <=> QueueFull(h)
  /\ Net!UnderWay = UnderWay /\ Net!Lost = Lost /\ Net!Known = Known
  /\ \A e, h : Net!Completes(e, h) <=> Completes(e, h)
  /\ \A S, f : Net!OfFlow(S, f) = OfFlow(S, f)

(* It is so in every state. *)
LEMMA RowIsSame == SameRow
<1>1. Net!Hop = Hop /\ Net!Packet = Packet
  BY DEF Net!Hop, Hop, Net!Packet, Packet
<1>2. \A h : /\ Net!Receptions(h) = Receptions(h)
             /\ Net!Queued(h) = Queued(h)
             /\ Net!Idle(h) <=> Idle(h)
             /\ Net!QueueFull(h) <=> QueueFull(h)
  BY DEF Net!Receptions, Receptions, RowEvents, Net!Queued, Queued, Net!Idle, Idle, Net!None, None,
         Net!QueueFull, QueueFull
<1>3. \A h : Net!OnWire(h) = OnWire(h)
  BY <1>2 DEF Net!OnWire, OnWire
<1>4. \A h : Net!At(h) = At(h)
  BY <1>2, <1>3 DEF Net!At, At
<1>5. Net!UnderWay = UnderWay /\ Net!Lost = Lost
  BY <1>1, <1>2, <1>3 DEF Net!UnderWay, UnderWay, Net!Lost, Lost
<1>6. Net!Known = Known
  BY <1>5 DEF Net!Known, Known
<1>7. \A e, h : Net!Completes(e, h) <=> Completes(e, h)
  BY DEF Net!Completes, Completes
<1>8. \A S, f : Net!OfFlow(S, f) = OfFlow(S, f)
  BY DEF Net!OfFlow, OfFlow
<1>. QED  BY <1>1, <1>2, <1>3, <1>4, <1>5, <1>6, <1>7, <1>8 DEF SameRow

(* And in the next. *)
LEMMA RowStaysSame == SameRow'
BY RowIsSame, PTL

(* What the devices hold, where it is, and in which order. *)
RowFacts ==
  /\ queue \in [Hop -> Seq(Packet)] /\ \A h \in Hop : Len(queue[h]) \in Nat
  /\ \A h \in Hop : handed[h] \in Nat
  /\ sending \in [Hop -> Packet \cup {None}]
  /\ \A h \in Hop : Queued(h) \subseteq Packet
  /\ \A h \in Hop : \A e \in Receptions(h) :
       e \in events /\ e.at \in Nat /\ e.pkt \in Packet /\ e.pkt \in OnWire(h)
  /\ Known \subseteq Packet /\ \A h \in Hop : At(h) \subseteq UnderWay
  /\ \A p \in UnderWay : \E h \in Hop : p \in At(h)
  /\ MachineInv /\ OrderInv /\ AccountInv

(* All this follows from the invariant of the row. *)
LEMMA RowSays ==
  ASSUME Net!BaseInv
  PROVE  RowFacts
<1>1. /\ Net!TypeOK /\ Net!EventInv /\ Net!MachineInv /\ Net!OrderInv /\ Net!AccountInv
  BY DEF Net!BaseInv, Net!MotionInv
<1>. USE RowIsSame DEF SameRow
<1>2. queue \in [Hop -> Seq(Packet)] /\ \A h \in Hop : Len(queue[h]) \in Nat
  BY <1>1 DEF Net!TypeOK
<1>13. \A h \in Hop : handed[h] \in Nat
  BY <1>1 DEF Net!TypeOK
<1>3. sending \in [Hop -> Packet \cup {None}]
  BY <1>1 DEF Net!TypeOK, Net!None, None
<1>4. \A h \in Hop : Queued(h) \subseteq Packet
  BY <1>2, ElementOfSeq DEF Queued
<1>5. \A h \in Hop : \A e \in Receptions(h) :
        e \in events /\ e.at \in Nat /\ e.pkt \in Packet /\ e.pkt \in OnWire(h)
  <2>1. \A e \in RowEvents : e \in Net!Event
    BY <1>1 DEF Net!TypeOK
  <2>2. \A e \in Net!Event : e.at \in Nat /\ (e.kind = "Receive" => e.pkt \in Packet)
    BY DEF Net!Event, Net!Completions
  <2>. QED  BY <2>1, <2>2 DEF Receptions, OnWire, RowEvents
<1>6. \A h \in Hop : At(h) \subseteq UnderWay /\ At(h) \subseteq Packet
  BY <1>4, <1>5 DEF At, UnderWay, OnWire
<1>7. \A p \in UnderWay : \E h \in Hop : p \in At(h)
  BY DEF At, UnderWay
<1>8. Known \subseteq Packet
  <2>1. arrived \subseteq Packet /\ \A h \in Hop : refused[h] \subseteq Packet
    BY <1>1 DEF Net!TypeOK
  <2>. QED  BY <1>6, <1>7, <2>1 DEF Known, Lost
<1>9. \A e, h : Completes(e, h) => (e \in events <=> e \in RowEvents)
  BY DEF Completes, RowEvents
<1>10. MachineInv
  BY <1>1, <1>9 DEF MachineInv, Net!MachineInv
<1>11. OrderInv
  BY <1>1 DEF OrderInv, Net!OrderInv
<1>12. AccountInv
  <2>1. \A S : Net!IsFiniteSet(S) <=> IsFiniteSet(S)
    BY DEF Net!IsFiniteSet, IsFiniteSet
  <2>2. \A S : Net!Cardinality(S) = Cardinality(S)
    BY DEF Net!Cardinality, Cardinality
  <2>. QED  BY <1>1, <2>1, <2>2 DEF AccountInv, Net!AccountInv
<1>. QED  BY <1>2, <1>3, <1>4, <1>5, <1>6, <1>7, <1>8, <1>10, <1>11, <1>12, <1>13 DEF RowFacts

(* A hop begins to transmit the packets in the order of their ids. *)
LEMMA BegunBefore ==
  ASSUME RowFacts, Lost = {}, \A p \in arrived, q \in UnderWay : p.id < q.id,
         NEW h \in Hop, NEW k \in Begun(h), NEW q \in Behind(h)
  PROVE  k < q.id
<1>1. PICK p \in Known : p.id = k
  BY DEF RowFacts, AccountInv, Begun
<1>2. p \notin Behind(h)
  BY <1>1 DEF Begun
<1>3. h \in Nat \ {0} /\ Hop \subseteq Nat
  BY HopType, HopAssumption DEF Hop
<1>4. PICK g \in 1 .. h : q \in At(g) /\ (g = h => q \in Queued(h))
  <2>1. CASE q \in Queued(h)
    BY <1>3, <2>1 DEF At
  <2>2. CASE q \notin Queued(h)
    <3>1. PICK g \in 1 .. h - 1 : q \in At(g)
      BY <2>2 DEF Behind
    <3>. QED  BY <1>3, <3>1
  <2>. QED  BY <2>1, <2>2
<1>5. g \in Hop /\ q \in UnderWay
  <2>1. g \in Hop
    BY <1>3, HopAssumption DEF Hop
  <2>. QED  BY <1>4, <2>1 DEF RowFacts
<1>6. CASE p \in arrived
  BY <1>1, <1>5, <1>6
<1>7. CASE p \in UnderWay
  <2>1. PICK i \in Hop : p \in At(i)
    BY <1>7 DEF RowFacts
  <2>2. h <= i
    <3>1. i \in 1 .. h - 1 => p \in Behind(h)
      BY <2>1 DEF Behind
    <3>. QED  BY <1>2, <1>3, <2>1, <3>1, HopAssumption DEF Hop
  <2>3. CASE g < i
    <3>1. g \in 1 .. i - 1
      BY <1>3, <2>1, <2>3
    <3>. QED  BY <1>1, <1>4, <2>1, <3>1 DEF RowFacts, OrderInv
  <2>4. CASE g = h /\ i = h
    <3>1. p \in OnWire(h) /\ q \in Queued(h)
      BY <1>2, <1>4, <2>1, <2>4 DEF At, Behind
    <3>. QED  BY <1>1, <3>1 DEF RowFacts, OrderInv
  <2>. QED  BY <1>3, <2>1, <2>2, <2>3, <2>4
<1>. QED  BY <1>1, <1>6, <1>7 DEF Known

(* What a packet takes at a hop. *)
LEMMA Owner ==
  ASSUME RunTypes, Fits, FlowInv, NEW p \in Known, NEW h \in Hop
  PROVE  TxTime(h, p.flow) = Slotted(h)
<1>1. p.flow = Clients[1] \/ p.flow = Clients[2]
  BY DEF FlowInv
<1>2. TxTime(h, Clients[1]) = Slotted(h) /\ TxTime(h, Clients[2]) = Slotted(h)
  BY FitsTypes
<1>. QED  BY <1>1, <1>2

(* The ids of packets. *)
LEMMA Ids ==
  ASSUME RunTypes, RowFacts
  PROVE  /\ \A h : \A k \in Begun(h) : k \in Nat \ {0}
         /\ \A h \in Hop : \A q \in Behind(h) : q \in Packet /\ q.id \in Nat \ {0}
         /\ \A p \in Packet : p.id \in Nat \ {0}
<1>1. \A p \in Packet : p.id \in Nat \ {0}
  BY DEF Packet
<1>2. \A h : \A k \in Begun(h) : k \in Nat \ {0}
  BY DEF Begun, RunTypes
<1>3. ASSUME NEW h \in Hop, NEW q \in Behind(h) PROVE q \in Packet
  <2>1. \A g \in 1 .. h - 1 : g \in Hop
    BY HopAssumption DEF Hop
  <2>2. q \in UnderWay
    <3>1. Queued(h) \subseteq At(h)
      BY DEF At
    <3>. QED  BY <2>1, <3>1 DEF Behind, RowFacts
  <2>. QED  BY <2>2 DEF RowFacts, Known
<1>. QED  BY <1>1, <1>2, <1>3
-----------------------------------------------------------------------------
(* What an event does to the timetable of one hop.                         *)

(* A step from a state that is on time: no rate changes, time goes on.    *)
Onward ==
  RunInv /\ Fits /\ RowFacts /\ byteTime' = byteTime /\ now' \in Nat /\ now <= now'

(* The times at which packets are due are numbers. *)
LEMMA DueTypes ==
  ASSUME RunInv, Fits, RowFacts
  PROVE  /\ \A k \in Nat \ {0}, h \in Hop : Due(k, h) \in Nat /\ Due(k, h - 1) \in Nat
         /\ \A h \in Hop : \A k \in Begun(h) : k \in Nat \ {0} /\ Due(k, h) \in Nat
         /\ \A c \in events : c.at \in Nat
         /\ now \in Nat /\ Delay \in Nat /\ \A h \in Hop : Slotted(h) \in Nat
<1>1. RunTypes
  BY DEF RunInv
<1>2. \A h \in Hop : h \in 0 .. HopCount /\ h - 1 \in 0 .. HopCount
  BY HopAssumption DEF Hop
<1>3. \A k \in Nat \ {0}, h \in Hop : Due(k, h) \in Nat /\ Due(k, h - 1) \in Nat
  <2>1. \A k \in Nat \ {0}, h \in 0 .. HopCount : Due(k, h) \in Nat
    BY <1>1, DueForms
  <2>. QED  BY <1>2, <2>1
<1>4. \A h \in Hop : \A k \in Begun(h) : k \in Nat \ {0}
  BY <1>1, Ids
<1>. QED  BY <1>1, <1>3, <1>4, PendingTypes, FitsTypes DEF RunTypes

(* No transmission begins or ends; a packet may come to the queue. *)
LEMMA DueKept ==
  ASSUME Onward, NEW h \in Hop, DueAt(h),
         Receptions(h)' \subseteq Receptions(h),
         \A q \in Queued(h)' : q \in Queued(h) \/ (q \in Packet /\ Due(q.id, h - 1) <= now'),
         Idle(h)' => Idle(h),
         \A c \in events' : Completes(c, h) => c \in events,
         Begun(h)' = Begun(h)
  PROVE  DueAt(h)'
<1>0. RunInv /\ Fits /\ RowFacts /\ byteTime' = byteTime /\ now' \in Nat /\ now <= now'
  BY DEF Onward
<1>1. /\ \A k \in Nat \ {0} : Due(k, h) \in Nat /\ Due(k, h - 1) \in Nat
      /\ \A k \in Begun(h) : Due(k, h) \in Nat
      /\ now \in Nat /\ Delay \in Nat
  BY <1>0, DueTypes
<1>2. \A k : Due(k, h)' = Due(k, h) /\ Due(k, h - 1)' = Due(k, h - 1)
  BY <1>0, DueSame
<1>3. \A e \in Receptions(h)' : e.at = Due(e.pkt.id, h)'
  BY <1>2 DEF DueAt
<1>4. \A q \in Queued(h)' : Due(q.id, h - 1)' <= now'
  <2>1. \A q \in Queued(h) : q.id \in Nat \ {0} /\ Due(q.id, h - 1) <= now
    BY <1>0 DEF DueAt, RowFacts, Packet
  <2>2. \A q \in Packet : q.id \in Nat \ {0}
    BY DEF Packet
  <2>. QED  BY <1>0, <1>1, <1>2, <2>1, <2>2
<1>5. Idle(h)' => \A k \in Begun(h)' : Due(k, h)' <= now' + Delay
  BY <1>0, <1>1, <1>2 DEF DueAt
<1>6. \A c \in events' : Completes(c, h) =>
        /\ \A k \in Begun(h)' : Due(k, h)' <= c.at + Delay
        /\ \E k \in Begun(h)' : Due(k, h)' = c.at + Delay
  BY <1>2 DEF DueAt
<1>7. \A c : Completes(c, h)' <=> Completes(c, h)
  BY DEF Completes
<1>. QED  BY <1>3, <1>4, <1>5, <1>6, <1>7 DEF DueAt

(* A transmission ends, and no packet is waiting. *)
LEMMA DueIdles ==
  ASSUME Onward, NEW h \in Hop, DueAt(h), NEW c \in events, Completes(c, h), now' = c.at,
         Receptions(h)' \subseteq Receptions(h), Queued(h)' \subseteq Queued(h),
         \A d \in events' : ~Completes(d, h), Begun(h)' = Begun(h)
  PROVE  DueAt(h)'
<1>0. RunInv /\ Fits /\ RowFacts /\ byteTime' = byteTime /\ now' \in Nat /\ now <= now'
  BY DEF Onward
<1>1. /\ \A k \in Nat \ {0} : Due(k, h) \in Nat /\ Due(k, h - 1) \in Nat
      /\ now \in Nat /\ Delay \in Nat
  BY <1>0, DueTypes
<1>2. \A k : Due(k, h)' = Due(k, h) /\ Due(k, h - 1)' = Due(k, h - 1)
  BY <1>0, DueSame
<1>3. \A e \in Receptions(h)' : e.at = Due(e.pkt.id, h)'
  BY <1>2 DEF DueAt
<1>4. \A q \in Queued(h)' : Due(q.id, h - 1)' <= now'
  <2>1. \A q \in Queued(h) : q.id \in Nat \ {0} /\ Due(q.id, h - 1) <= now
    BY <1>0 DEF DueAt, RowFacts, Packet
  <2>. QED  BY <1>0, <1>1, <1>2, <2>1
<1>5. \A k \in Begun(h)' : Due(k, h)' <= now' + Delay
  BY <1>2 DEF DueAt
<1>7. \A d : Completes(d, h)' <=> Completes(d, h)
  BY DEF Completes
<1>. QED  BY <1>3, <1>4, <1>5, <1>7 DEF DueAt

(* A transmission begins, when it should. *)
LEMMA DueStarts ==
  ASSUME Onward, NEW h \in Hop, DueAt(h), NEW p \in Packet, TxTime(h, p.flow) = Slotted(h),
         Due(p.id, h) = now' + Slotted(h) + Delay,
         Receptions(h)' \subseteq Receptions(h) \cup {Reception(h, p)},
         Queued(h)' \subseteq Queued(h), ~Idle(h)',
         \A c \in events' : Completes(c, h) => c = Completion(h, p),
         Begun(h)' = Begun(h) \cup {p.id}, \A k \in Begun(h) : k <= p.id
  PROVE  DueAt(h)'
<1>0. RunInv /\ Fits /\ RowFacts /\ byteTime' = byteTime /\ now' \in Nat /\ now <= now'
  BY DEF Onward
<1>1. /\ \A k \in Nat \ {0} : Due(k, h) \in Nat /\ Due(k, h - 1) \in Nat
      /\ \A k \in Begun(h) : k \in Nat \ {0}
      /\ now \in Nat /\ Delay \in Nat /\ p.id \in Nat \ {0}
      /\ Slotted(h) \in Nat /\ RunTypes /\ h \in 0 .. HopCount
  <2>1. h \in 0 .. HopCount
    BY HopAssumption DEF Hop
  <2>. QED  BY <1>0, <2>1, DueTypes DEF Packet, RunInv
<1>2. \A k : Due(k, h)' = Due(k, h) /\ Due(k, h - 1)' = Due(k, h - 1)
  BY <1>0, DueSame
<1>3. \A e \in Receptions(h)' : e.at = Due(e.pkt.id, h)'
  <2>1. Reception(h, p).at = now' + Slotted(h) + Delay /\ Reception(h, p).pkt = p
    BY DEF Reception
  <2>. HIDE DEF Reception
  <2>. QED  BY <1>2, <2>1 DEF DueAt
<1>4. \A q \in Queued(h)' : Due(q.id, h - 1)' <= now'
  <2>1. \A q \in Queued(h) : q.id \in Nat \ {0} /\ Due(q.id, h - 1) <= now
    BY <1>0 DEF DueAt, RowFacts, Packet
  <2>. QED  BY <1>0, <1>1, <1>2, <2>1
<1>5. \A c \in events' : Completes(c, h) =>
        /\ \A k \in Begun(h)' : Due(k, h)' <= c.at + Delay
        /\ \E k \in Begun(h)' : Due(k, h)' = c.at + Delay
  <2>1. Completion(h, p).at = now' + Slotted(h)
    BY DEF Completion
  <2>2. Completion(h, p).at + Delay = Due(p.id, h)
    BY <1>0, <1>1, <2>1
  <2>3. \A k \in Begun(h)' : Due(k, h) <= Due(p.id, h)
    <3>1. \A k \in Begun(h)' : k \in Nat \ {0} /\ k <= p.id
      BY <1>1
    <3>. QED  BY <1>0, <1>1, <3>1, DueMonotone
  <2>. HIDE DEF Completion
  <2>. QED  BY <1>2, <2>2, <2>3
<1>7. \A d : Completes(d, h)' <=> Completes(d, h)
  BY DEF Completes
<1>. QED  BY <1>3, <1>4, <1>5, <1>7 DEF DueAt
-----------------------------------------------------------------------------
(* Where the packets are after an event of the row.                        *)

(* The events E are left, and perhaps some that the row does not see. *)
Leaves(E) == \A f : f.kind \in {"TransmitComplete", "Receive"} => (f \in events' <=> f \in E)

(* The device does not begin to transmit. *)
LEMMA Rests ==
  ASSUME NEW E, Leaves(E), E \subseteq events
  PROVE  /\ \A g : Receptions(g)' = {f \in E : f.kind = "Receive" /\ f.hop = g}
         /\ \A g : \A c \in events' : Completes(c, g) => c \in E
         /\ \A g : queue'[g] = queue[g] => Queued(g)' = Queued(g)
         /\ \A g : sending'[g] = sending[g] => (Idle(g)' <=> Idle(g))
BY DEF Leaves, Receptions, Completes, Queued, Idle

(* It does. *)
LEMMA Begins ==
  ASSUME RowFacts, NEW E, E \subseteq events, NEW h \in Hop, NEW q \in Seq(Packet), q # <<>>,
         TransmitStart(h, q), Leaves(E \cup Scheduled(h, q))
  PROVE  /\ Receptions(h)' = {f \in E : f.kind = "Receive" /\ f.hop = h} \cup {Reception(h, Head(q))}
         /\ \A g \in Hop : g # h =>
              /\ Receptions(g)' = {f \in E : f.kind = "Receive" /\ f.hop = g}
              /\ Queued(g)' = Queued(g) /\ (Idle(g)' <=> Idle(g))
              /\ \A c \in events' : Completes(c, g) => c \in E
         /\ \A c \in events' : Completes(c, h) => c \in E \/ c = Completion(h, Head(q))
         /\ queue'[h] = Tail(q) /\ ~Idle(h)' /\ Head(q) \in Packet
<1>1. /\ Completion(h, Head(q)).kind = "TransmitComplete" /\ Completion(h, Head(q)).hop = h
      /\ Reception(h, Head(q)).kind = "Receive" /\ Reception(h, Head(q)).hop = h
  BY DEF Completion, Reception
<1>2. Head(q) \in Packet /\ Head(q) # None
  <2>1. Head(q) \in Packet
    BY QueueEnds
  <2>. QED  BY <2>1 DEF Packet, None
<1>3. \A f : f.kind \in {"TransmitComplete", "Receive"} =>
        (f \in events' <=> f \in E \/ f = Completion(h, Head(q)) \/ f = Reception(h, Head(q)))
  BY DEF Leaves, Scheduled
<1>. HIDE DEF Completion, Reception
<1>4. sending' = [sending EXCEPT ![h] = Head(q)] /\ queue' = [queue EXCEPT ![h] = Tail(q)]
  BY DEF TransmitStart
<1>5. sending'[h] = Head(q) /\ \A g \in Hop : g # h => sending'[g] = sending[g]
  BY <1>4 DEF RowFacts
<1>6. queue'[h] = Tail(q) /\ \A g \in Hop : g # h => queue'[g] = queue[g]
  BY <1>4 DEF RowFacts
<1>7. Receptions(h)' = {f \in E : f.kind = "Receive" /\ f.hop = h} \cup {Reception(h, Head(q))}
  BY <1>1, <1>3 DEF Receptions
<1>8. \A g \in Hop : g # h => Receptions(g)' = {f \in E : f.kind = "Receive" /\ f.hop = g}
  BY <1>1, <1>3 DEF Receptions
<1>9. \A g \in Hop : g # h => \A c \in events' : Completes(c, g) => c \in E
  BY <1>1, <1>3 DEF Completes
<1>10. \A c \in events' : Completes(c, h) => c \in E \/ c = Completion(h, Head(q))
  BY <1>1, <1>3 DEF Completes
<1>11. \A g \in Hop : g # h => Queued(g)' = Queued(g) /\ (Idle(g)' <=> Idle(g))
  BY <1>5, <1>6 DEF Queued, Idle
<1>12. ~Idle(h)'
  BY <1>2, <1>5 DEF Idle
<1>. QED  BY <1>2, <1>6, <1>7, <1>8, <1>9, <1>10, <1>11, <1>12
-----------------------------------------------------------------------------
(* What waits behind a hop.                                                *)

(* Nothing is lost, and what has arrived is older than what is under way. *)
BegunInOrder == Lost = {} /\ \A p \in arrived, q \in UnderWay : p.id < q.id

(* The head of a queue is the oldest packet behind its hop. *)
LEMMA HeadBehind ==
  ASSUME RowFacts, NEW h \in Hop, queue[h] # <<>>
  PROVE  LET r == Head(queue[h])
         IN  /\ r \in Packet /\ r \in Known /\ r \in Queued(h)
             /\ \A q \in Behind(h) : q = r \/ r.id < q.id
             /\ \A k \in 1 .. Len(Tail(queue[h])) :
                  Tail(queue[h])[k] \in Queued(h) /\ Tail(queue[h])[k].id > r.id
             /\ \A q \in Queued(h) : q = r \/ \E k \in 1 .. Len(Tail(queue[h])) : Tail(queue[h])[k] = q
<1>. DEFINE s == queue[h]
            r == Head(s)
<1>1. s \in Seq(Packet) /\ s # <<>>
  BY DEF RowFacts
<1>2. /\ Len(s) \in Nat \ {0} /\ r = s[1] /\ r \in Packet
      /\ Len(Tail(s)) = Len(s) - 1
      /\ \A i \in 1 .. Len(s) - 1 : Tail(s)[i] = s[i + 1]
  BY <1>1
<1>3. \A i, j \in 1 .. Len(s) : i < j => s[i].id < s[j].id
  BY DEF RowFacts, OrderInv
<1>4. Queued(h) = {s[k] : k \in 1 .. Len(s)}
  BY DEF Queued
<1>5. \A i \in 1 .. Len(s) : s[i] \in Packet /\ s[i].id \in Nat
  <2>1. \A i \in 1 .. Len(s) : s[i] \in Packet
    BY <1>1
  <2>. QED  BY <2>1 DEF Packet
<1>. HIDE DEF s, r
<1>6. r \in Queued(h) /\ r \in At(h) /\ r \in Known
  <2>1. r \in Queued(h)
    BY <1>2, <1>4
  <2>. QED  BY <2>1 DEF At, RowFacts, Known
<1>7. \A q \in Queued(h) : q = r \/ r.id < q.id
  BY <1>2, <1>3, <1>4
<1>8. \A q \in Behind(h) : q = r \/ r.id < q.id
  BY <1>6, <1>7 DEF Behind, RowFacts, OrderInv
<1>9. \A k \in 1 .. Len(Tail(s)) : Tail(s)[k] \in Queued(h) /\ Tail(s)[k].id > r.id
  <2>1. \A k \in 1 .. Len(Tail(s)) : k + 1 \in 1 .. Len(s) /\ Tail(s)[k] = s[k + 1] /\ 1 < k + 1
    BY <1>2
  <2>. QED  BY <1>2, <1>3, <1>4, <1>5, <2>1
<1>10. \A q \in Queued(h) : q = r \/ \E k \in 1 .. Len(Tail(s)) : Tail(s)[k] = q
  <2>1. ASSUME NEW k \in 1 .. Len(s), k # 1
        PROVE  \E i \in 1 .. Len(Tail(s)) : Tail(s)[i] = s[k]
    <3>1. k - 1 \in 1 .. Len(Tail(s)) /\ Tail(s)[k - 1] = s[k - 1 + 1] /\ k - 1 + 1 = k
      BY <1>2, <2>1
    <3>. QED  BY <3>1
  <2>. QED  BY <1>2, <1>4, <2>1
<1>. QED  BY <1>2, <1>6, <1>8, <1>9, <1>10 DEF s, r

(* A transmission ends, and no packet is waiting. *)
LEMMA IdlesMoves ==
  ASSUME RowFacts, NEW h \in Hop, NEW c \in events, Completes(c, h), offered' = offered,
         queue' = queue, sending' = [sending EXCEPT ![h] = None], events' = events \ {c}
  PROVE  /\ \A g \in Hop : /\ Receptions(g)' = Receptions(g) /\ Queued(g)' = Queued(g)
                           /\ Begun(g)' = Begun(g)
                           /\ g # h => (Idle(g)' <=> Idle(g))
         /\ \A d \in events' : ~Completes(d, h)
<1>1. \A g \in Hop : Receptions(g)' = Receptions(g) /\ Queued(g)' = Queued(g)
  BY DEF Completes, Receptions, Queued
<1>2. \A g \in Hop : At(g)' = At(g)
  BY <1>1 DEF At, OnWire
<1>3. \A g \in Hop : \A i \in 1 .. g - 1 : i \in Hop
  BY HopAssumption DEF Hop
<1>4. \A g \in Hop : Behind(g)' = Behind(g)
  BY <1>1, <1>2, <1>3 DEF Behind
<1>5. \A g \in Hop : Begun(g)' = Begun(g)
  BY <1>4 DEF Begun
<1>6. \A g \in Hop : g # h => (Idle(g)' <=> Idle(g))
  BY DEF Idle, RowFacts
<1>7. \A d \in events' : ~Completes(d, h)
  BY DEF RowFacts, MachineInv
<1>. QED  BY <1>1, <1>5, <1>6, <1>7

(* A transmission ends, and the next packet is transmitted. *)
LEMMA NextMoves ==
  ASSUME RowFacts, NEW h \in Hop, NEW c \in events, Completes(c, h), offered' = offered,
         queue[h] # <<>>, TransmitStart(h, queue[h]),
         events' = (events \ {c}) \cup Scheduled(h, queue[h])
  PROVE  LET r == Head(queue[h])
         IN  /\ \A g \in Hop : g # h =>
                  /\ Receptions(g)' = Receptions(g) /\ Queued(g)' = Queued(g)
                  /\ Begun(g)' = Begun(g) /\ (Idle(g)' <=> Idle(g))
                  /\ \A d \in events' : Completes(d, g) => d \in events
             /\ Receptions(h)' = Receptions(h) \cup {Reception(h, r)}
             /\ Queued(h)' \subseteq Queued(h) /\ ~Idle(h)'
             /\ \A d \in events' : Completes(d, h) => d = Completion(h, r)
             /\ Begun(h)' = Begun(h) \cup {r.id}
<1>. DEFINE r == Head(queue[h])
            E == events \ {c}
<1>1. /\ r \in Packet /\ r \in Known /\ r \in Queued(h)
      /\ \A q \in Behind(h) : q = r \/ r.id < q.id
      /\ \A k \in 1 .. Len(Tail(queue[h])) :
           Tail(queue[h])[k] \in Queued(h) /\ Tail(queue[h])[k].id > r.id
      /\ \A q \in Queued(h) : q = r \/ \E k \in 1 .. Len(Tail(queue[h])) : Tail(queue[h])[k] = q
  BY HeadBehind
<1>2. /\ Receptions(h)' = {f \in E : f.kind = "Receive" /\ f.hop = h} \cup {Reception(h, r)}
      /\ \A g \in Hop : g # h =>
           /\ Receptions(g)' = {f \in E : f.kind = "Receive" /\ f.hop = g}
           /\ Queued(g)' = Queued(g) /\ (Idle(g)' <=> Idle(g))
           /\ \A d \in events' : Completes(d, g) => d \in E
      /\ \A d \in events' : Completes(d, h) => d \in E \/ d = Completion(h, r)
      /\ queue'[h] = Tail(queue[h]) /\ ~Idle(h)'
  <2>1. Leaves(E \cup Scheduled(h, queue[h]))
    BY DEF Leaves
  <2>2. queue[h] \in Seq(Packet) /\ E \subseteq events
    BY DEF RowFacts
  <2>. HIDE DEF E
  <2>. QED  BY <2>1, <2>2, Begins
<1>. HIDE DEF r
<1>3. \A g \in Hop : {f \in E : f.kind = "Receive" /\ f.hop = g} = Receptions(g)
  BY DEF Completes, Receptions
<1>4. \A d \in E : ~Completes(d, h)
  BY DEF RowFacts, MachineInv
<1>5. Queued(h)' = {Tail(queue[h])[k] : k \in 1 .. Len(Tail(queue[h]))}
  BY <1>2 DEF Queued
<1>6. /\ Queued(h)' \subseteq Queued(h) /\ \A q \in Queued(h)' : q.id > r.id
      /\ \A q \in Queued(h) : q = r \/ q \in Queued(h)'
  BY <1>1, <1>5
<1>7. \A g \in Hop : At(g)' = At(g)
  <2>1. \A g \in Hop : g # h => At(g)' = At(g)
    BY <1>2, <1>3 DEF At, OnWire
  <2>2. Reception(h, r).pkt = r
    BY DEF Reception
  <2>3. OnWire(h)' = OnWire(h) \cup {r}
    BY <1>2, <1>3, <2>2 DEF OnWire
  <2>4. At(h)' = At(h)
    BY <1>1, <1>6, <2>3 DEF At
  <2>. QED  BY <2>1, <2>4
<1>8. \A g \in Hop : \A i \in 1 .. g - 1 : i \in Hop
  BY HopAssumption DEF Hop
<1>9. \A g \in Hop : g # h => Begun(g)' = Begun(g)
  <2>1. \A g \in Hop : g # h => Behind(g)' = Behind(g)
    BY <1>2, <1>7, <1>8 DEF Behind
  <2>. QED  BY <2>1 DEF Begun
<1>10. Begun(h)' = Begun(h) \cup {r.id}
  <2>1. \A q : q \in Behind(h)' <=> q \in Behind(h) /\ q # r
    <3>1. UNION {At(g)' : g \in 1 .. h - 1} = UNION {At(g) : g \in 1 .. h - 1}
      BY <1>7, <1>8
    <3>2. r.id \in Nat
      BY <1>1 DEF Packet
    <3>3. r \notin Queued(h)'
      BY <1>6, <3>2
    <3>4. r \notin UNION {At(g) : g \in 1 .. h - 1}
      <4>1. r \in At(h)
        BY <1>1 DEF At
      <4>2. \A g \in 1 .. h - 1 : \A q \in At(g) : r.id < q.id
        BY <4>1 DEF RowFacts, OrderInv
      <4>. QED  BY <3>2, <4>2
    <3>. QED  BY <1>6, <3>1, <3>3, <3>4 DEF Behind
  <2>2. r.id \in 1 .. offered
    BY <1>1 DEF RowFacts, AccountInv
  <2>3. r.id \in Nat
    BY <1>1 DEF Packet
  <2>4. r \in Behind(h)
    BY <1>1 DEF Behind
  <2>5. {q.id : q \in Behind(h)'} = {q.id : q \in Behind(h)} \ {r.id}
    <3>1. \A q \in Behind(h) : q # r => q.id # r.id
      BY <1>1, <2>3
    <3>. QED  BY <2>1, <3>1
  <2>. QED  BY <2>2, <2>5 DEF Begun
<1>. QED  BY <1>2, <1>3, <1>4, <1>6, <1>9, <1>10 DEF r
-----------------------------------------------------------------------------
(* A packet comes to a hop.                                                *)

(* What the events E bring to the end of hop g, and what is at hop g. *)
Brings(E, g) == {f.pkt : f \in {d \in E : d.kind = "Receive" /\ d.hop = g}}
(* What hop g holds, but for the events that are not in E. *)
Holds(E, g) == Queued(g) \cup Brings(E, g)

(* There is room for it: the third packet before it is through. *)
LEMMA NotFull ==
  ASSUME RunInv, Fits, RowFacts, BegunInOrder, NEW h \in Hop, DueAt(h), NEW p \in Packet,
         \A r \in Queued(h) : r.id < p.id, \A c \in events : Due(p.id, h - 1) <= c.at
  PROVE  ~QueueFull(h)
<1>. SUFFICES ASSUME QueueFull(h) PROVE FALSE
  OBVIOUS
<1>1. /\ RunTypes /\ \A k \in Nat \ {0} : Due(k, h) \in Nat /\ Due(k, h - 1) \in Nat
      /\ \A k \in Begun(h) : k \in Nat \ {0}
      /\ \A c \in events : c.at \in Nat
      /\ Delay \in Nat
  BY DueTypes DEF RunInv
<1>2. Len(queue[h]) \in Nat /\ Len(queue[h]) >= 2
  BY FitsTypes, <1>1 DEF QueueFull, RowFacts
<1>3. queue[h][1] \in Queued(h) /\ queue[h][2] \in Queued(h) /\ queue[h] # <<>>
  <2>1. queue[h] # <<>>
    BY <1>2
  <2>. QED  BY <1>2, <2>1 DEF Queued
<1>4. queue[h][1].id < queue[h][2].id
  BY <1>2 DEF RowFacts, OrderInv
<1>5. PICK c \in events : Completes(c, h)
  BY <1>3 DEF RowFacts, MachineInv
<1>6. PICK k \in Begun(h) : Due(k, h) = c.at + Delay
  BY <1>5 DEF DueAt
<1>7. k < queue[h][1].id
  <2>1. queue[h][1] \in Behind(h)
    BY <1>3 DEF Behind
  <2>. QED  BY <2>1, BegunBefore DEF BegunInOrder
<1>8. /\ queue[h][1].id \in Nat /\ queue[h][2].id \in Nat /\ p.id \in Nat \ {0}
      /\ queue[h][2].id < p.id
  BY <1>3 DEF RowFacts, Packet
<1>9. k + 3 <= p.id
  BY <1>1, <1>4, <1>7, <1>8
<1>10. Due(k, h) < Due(p.id, h - 1) + Delay
  BY <1>1, <1>8, <1>9, DueApart
<1>. QED  BY <1>1, <1>6, <1>8, <1>10

(* It is transmitted at once by an idle device, and waits for a busy one. *)
LEMMA Comes ==
  ASSUME RowFacts, NEW h \in Hop, NEW p \in Packet, NEW E, E \subseteq events,
         \A g : \A c \in events : Completes(c, g) => c \in E,
         ~QueueFull(h), Send(h, p), Leaves(E \cup SendEvents(h, p))
  PROVE  /\ refused' = refused
         /\ \A g \in Hop : g # h =>
              /\ Receptions(g)' \subseteq Receptions(g) /\ Queued(g)' = Queued(g)
              /\ (Idle(g)' <=> Idle(g)) /\ At(g)' = Holds(E, g)
              /\ \A d \in events' : Completes(d, g) => d \in events
         /\ At(h)' = Holds(E, h) \cup {p} /\ ~Idle(h)'
         /\ \/ /\ Queued(h) = {} /\ Queued(h)' = {} /\ Idle(h)
               /\ Receptions(h)' \subseteq Receptions(h) \cup {Reception(h, p)}
               /\ \A d \in events' : Completes(d, h) => d = Completion(h, p)
            \/ /\ Queued(h)' = Queued(h) \cup {p} /\ ~Idle(h)
               /\ Receptions(h)' \subseteq Receptions(h)
               /\ \A d \in events' : Completes(d, h) => d \in events
<1>0. /\ \A g : {f \in E : f.kind = "Receive" /\ f.hop = g} \subseteq Receptions(g)
      /\ \A g : Brings(E, g) = {f.pkt : f \in {d \in E : d.kind = "Receive" /\ d.hop = g}}
  BY DEF Receptions, Brings
<1>1. CASE Idle(h)
  <2>. DEFINE q == Append(queue[h], p)
  <2>1. queue[h] = <<>>
    BY <1>1 DEF RowFacts, MachineInv
  <2>2. q = <<p>> /\ Head(q) = p /\ Tail(q) = <<>> /\ q \in Seq(Packet) /\ q # <<>>
    BY <2>1
  <2>3. TransmitStart(h, q) /\ SendEvents(h, p) = Scheduled(h, q)
    BY <1>1 DEF Send, SendEvents, Starts
  <2>. HIDE DEF q
  <2>10. Leaves(E \cup Scheduled(h, q))
    BY <2>3
  <2>4. /\ Receptions(h)' = {f \in E : f.kind = "Receive" /\ f.hop = h} \cup {Reception(h, p)}
        /\ \A g \in Hop : g # h =>
             /\ Receptions(g)' = {f \in E : f.kind = "Receive" /\ f.hop = g}
             /\ Queued(g)' = Queued(g) /\ (Idle(g)' <=> Idle(g))
             /\ \A c \in events' : Completes(c, g) => c \in E
        /\ \A c \in events' : Completes(c, h) => c \in E \/ c = Completion(h, p)
        /\ queue'[h] = <<>> /\ ~Idle(h)'
    <3>1. q \in Seq(Packet) /\ q # <<>>
      BY <2>2
    <3>2. /\ Receptions(h)' = {f \in E : f.kind = "Receive" /\ f.hop = h} \cup {Reception(h, Head(q))}
          /\ \A g \in Hop : g # h =>
               /\ Receptions(g)' = {f \in E : f.kind = "Receive" /\ f.hop = g}
               /\ Queued(g)' = Queued(g) /\ (Idle(g)' <=> Idle(g))
               /\ \A c \in events' : Completes(c, g) => c \in E
          /\ \A c \in events' : Completes(c, h) => c \in E \/ c = Completion(h, Head(q))
          /\ queue'[h] = Tail(q) /\ ~Idle(h)'
      BY <2>3, <2>10, <3>1, Begins, ZenonT(60)
    <3>. QED  BY <2>2, <3>2
  <2>5. Queued(h) = {} /\ Queued(h)' = {}
    <3>1. 1 .. Len(<<>>) = {}
      OBVIOUS
    <3>. QED  BY <2>1, <2>4, <3>1 DEF Queued
  <2>6. \A c \in E : ~Completes(c, h)
    BY <1>1 DEF RowFacts, MachineInv
  <2>7. \A g \in Hop : g # h => At(g)' = Holds(E, g)
    BY <1>0, <2>4 DEF At, OnWire, Holds
  <2>8. At(h)' = Holds(E, h) \cup {p}
    <3>1. Reception(h, p).pkt = p
      BY DEF Reception
    <3>2. OnWire(h)' = Brings(E, h) \cup {p}
      BY <1>0, <2>4, <3>1 DEF OnWire
    <3>. QED  BY <2>5, <3>2 DEF At, Holds
  <2>9. refused' = refused
    BY <2>3 DEF TransmitStart
  <2>. QED  BY <1>0, <1>1, <2>4, <2>5, <2>6, <2>7, <2>8, <2>9
<1>2. CASE ~Idle(h)
  <2>1. Enqueue(h, p) /\ SendEvents(h, p) = {}
    BY <1>2 DEF Send, SendEvents, Starts
  <2>2. Leaves(E)
    BY <2>1
  <2>3. /\ queue'[h] = Append(queue[h], p) /\ \A g \in Hop : g # h => queue'[g] = queue[g]
        /\ sending' = sending /\ refused' = refused
    BY <2>1 DEF Enqueue, RowFacts
  <2>4. /\ \A g : Receptions(g)' = {f \in E : f.kind = "Receive" /\ f.hop = g}
        /\ \A g : \A c \in events' : Completes(c, g) => c \in E
        /\ \A g : queue'[g] = queue[g] => Queued(g)' = Queued(g)
        /\ \A g : Idle(g)' <=> Idle(g)
    BY <2>2, <2>3, Rests
  <2>5. Queued(h)' = Queued(h) \cup {p}
    <3>1. queue[h] \in Seq(Packet)
      BY DEF RowFacts
    <3>2. /\ Len(queue[h]) \in Nat /\ Len(Append(queue[h], p)) = Len(queue[h]) + 1
          /\ \A i \in 1 .. Len(queue[h]) : Append(queue[h], p)[i] = queue[h][i]
          /\ Append(queue[h], p)[Len(queue[h]) + 1] = p
      BY <3>1
    <3>. QED  BY <2>3, <3>2 DEF Queued
  <2>6. \A g : OnWire(g)' = Brings(E, g)
    BY <1>0, <2>4 DEF OnWire
  <2>7. \A g \in Hop : g # h => At(g)' = Holds(E, g)
    BY <2>3, <2>4, <2>6 DEF At, Holds
  <2>8. At(h)' = Holds(E, h) \cup {p}
    BY <2>5, <2>6 DEF At, Holds
  <2>. QED  BY <1>0, <1>2, <2>3, <2>4, <2>5, <2>7, <2>8
<1>. QED  BY <1>1, <1>2

(* A packet comes from the hop before: it is begun, if it is begun, there. *)
LEMMA BegunForward ==
  ASSUME RowFacts, offered' = offered, NEW h \in Hop, h - 1 \in Hop, NEW p \in Known, NEW E,
         p \in At(h - 1), Holds(E, h - 1) = At(h - 1) \ {p},
         \A g \in Hop : g # h - 1 => Holds(E, g) = At(g),
         \A g \in Hop : g # h => At(g)' = Holds(E, g) /\ Queued(g)' = Queued(g),
         At(h)' = Holds(E, h) \cup {p},
         \A g \in Hop : \A r \in Holds(E, g) : g < h => p.id < r.id
  PROVE  /\ \A g \in Hop : g # h => Begun(g)' = Begun(g)
         /\ Queued(h)' = Queued(h) \cup {p} => Begun(h)' = Begun(h)
         /\ Queued(h) = {} /\ Queued(h)' = {} => Begun(h)' = Begun(h) \cup {p.id}
<1>0. /\ \A g \in Hop : \A i \in 1 .. g - 1 : i \in Hop
      /\ \A g \in Hop : g \in Nat \ {0}
      /\ p.id \in Nat
  <2>1. p \in Packet
    BY DEF RowFacts
  <2>. QED  BY <2>1, HopAssumption DEF Hop, Packet
<1>1. ASSUME NEW g \in Hop, g < h PROVE Behind(g)' = Behind(g)
  <2>1. \A i \in 1 .. g - 1 : i # h /\ i # h - 1 /\ i \in Hop
    BY <1>0, <1>1
  <2>2. \A i \in 1 .. g - 1 : At(i)' = At(i)
    BY <2>1
  <2>3. Queued(g)' = Queued(g)
    BY <1>0, <1>1
  <2>. QED  BY <2>2, <2>3 DEF Behind
<1>2. ASSUME NEW g \in Hop, h < g PROVE Behind(g)' = Behind(g)
  <2>1. h \in 1 .. g - 1 /\ h - 1 \in 1 .. g - 1 /\ h # h - 1
    BY <1>0, <1>2
  <2>2. At(h)' = At(h) \cup {p} /\ At(h - 1)' = At(h - 1) \ {p}
    BY <1>0, <2>1
  <2>3. \A i \in 1 .. g - 1 : i # h /\ i # h - 1 => At(i)' = At(i)
    BY <1>0
  <2>4. UNION {At(i)' : i \in 1 .. g - 1} = UNION {At(i) : i \in 1 .. g - 1}
    <3>1. ASSUME NEW x, NEW i \in 1 .. g - 1, x \in At(i)
          PROVE  \E j \in 1 .. g - 1 : x \in At(j)'
      <4>1. CASE x = p
        BY <2>1, <2>2, <4>1
      <4>2. CASE x # p
        BY <2>2, <2>3, <3>1, <4>2
      <4>. QED  BY <4>1, <4>2
    <3>2. ASSUME NEW x, NEW i \in 1 .. g - 1, x \in At(i)'
          PROVE  \E j \in 1 .. g - 1 : x \in At(j)
      <4>1. CASE x = p
        BY <2>1, <4>1
      <4>2. CASE x # p
        BY <2>2, <2>3, <3>2, <4>2
      <4>. QED  BY <4>1, <4>2
    <3>. QED  BY <3>1, <3>2
  <2>5. Queued(g)' = Queued(g)
    BY <1>0, <1>2
  <2>. QED  BY <2>4, <2>5 DEF Behind
<1>3. \A g \in Hop : g # h => Begun(g)' = Begun(g)
  <2>1. \A g \in Hop : g # h => g < h \/ h < g
    BY <1>0
  <2>. QED  BY <1>1, <1>2, <2>1 DEF Begun
<1>. DEFINE U == UNION {At(i) : i \in 1 .. h - 1}
            V == UNION {At(i)' : i \in 1 .. h - 1}
<1>4. p \in U /\ V = U \ {p} /\ \A r \in V : p.id < r.id
  <2>1. h - 1 \in 1 .. h - 1 /\ \A i \in 1 .. h - 1 : i # h /\ i \in Hop /\ i < h
    BY <1>0
  <2>2. \A i \in 1 .. h - 1 : At(i)' = Holds(E, i)
    BY <2>1
  <2>3. \A i \in 1 .. h - 1 : \A r \in Holds(E, i) : p.id < r.id
    BY <2>1
  <2>4. \A i \in 1 .. h - 1 : \A r \in Holds(E, i) : r # p
    BY <1>0, <2>3
  <2>5. \A i \in 1 .. h - 1 : At(i) = Holds(E, i) \/ At(i) = Holds(E, i) \cup {p}
    BY <2>1
  <2>6. p \in U
    BY <2>1
  <2>. QED  BY <2>2, <2>3, <2>4, <2>5, <2>6
<1>5. Behind(h) = Queued(h) \cup U /\ Behind(h)' = Queued(h)' \cup V
  BY DEF Behind
<1>. HIDE DEF U, V
<1>6. ASSUME Queued(h)' = Queued(h) \cup {p} PROVE Begun(h)' = Begun(h)
  <2>1. Behind(h)' = Behind(h)
    BY <1>4, <1>5, <1>6
  <2>. QED  BY <2>1 DEF Begun
<1>7. ASSUME Queued(h) = {}, Queued(h)' = {} PROVE Begun(h)' = Begun(h) \cup {p.id}
  <2>1. Behind(h) = U /\ Behind(h)' = V
    BY <1>5, <1>7
  <2>2. {q.id : q \in V} = {q.id : q \in U} \ {p.id}
    <3>1. \A q \in V : q.id # p.id
      BY <1>0, <1>4
    <3>. QED  BY <1>4, <3>1
  <2>3. p.id \in 1 .. offered
    BY DEF RowFacts, AccountInv
  <2>4. {q.id : q \in Behind(h)'} = {q.id : q \in Behind(h)} \ {p.id} /\ p.id \in {q.id : q \in Behind(h)}
    BY <1>4, <2>1, <2>2
  <2>. QED  BY <2>3, <2>4 DEF Begun
<1>. QED  BY <1>3, <1>6, <1>7

(* A packet comes from the client. *)
LEMMA BegunOffer ==
  ASSUME RunTypes, RowFacts, offered' = offered + 1, NEW p \in Packet, p.id = offered + 1, NEW E,
         \A g \in Hop : Holds(E, g) = At(g),
         \A g \in Hop : g # 1 => At(g)' = Holds(E, g) /\ Queued(g)' = Queued(g),
         At(1)' = Holds(E, 1) \cup {p}
  PROVE  /\ \A g \in Hop : g # 1 => Begun(g)' = Begun(g)
         /\ Queued(1)' = Queued(1) \cup {p} => Begun(1)' = Begun(1)
         /\ Queued(1) = {} /\ Queued(1)' = {} => Begun(1)' = Begun(1) \cup {p.id}
<1>0. /\ \A g \in Hop : \A i \in 1 .. g - 1 : i \in Hop
      /\ \A g \in Hop : g \in Nat \ {0}
      /\ 1 \in Hop /\ offered \in Nat
      /\ 1 .. offered' = (1 .. offered) \cup {p.id} /\ p.id \notin 1 .. offered
  BY HopAssumption DEF Hop, RunTypes
<1>1. ASSUME NEW g \in Hop, g # 1 PROVE Begun(g)' = Begun(g)
  <2>1. 1 \in 1 .. g - 1
    BY <1>0, <1>1
  <2>2. At(1)' = At(1) \cup {p} /\ \A i \in 1 .. g - 1 : i # 1 => At(i)' = At(i)
    BY <1>0
  <2>. DEFINE U == UNION {At(i) : i \in 1 .. g - 1}
              V == UNION {At(i)' : i \in 1 .. g - 1}
  <2>3. V = U \cup {p}
    <3>1. ASSUME NEW x, NEW i \in 1 .. g - 1, x \in At(i)'
          PROVE  x = p \/ \E j \in 1 .. g - 1 : x \in At(j)
      BY <2>2, <3>1
    <3>2. ASSUME NEW x, NEW i \in 1 .. g - 1, x \in At(i)
          PROVE  \E j \in 1 .. g - 1 : x \in At(j)'
      BY <2>2, <3>2
    <3>3. p \in V
      BY <2>1, <2>2
    <3>. QED  BY <3>1, <3>2, <3>3
  <2>4. Queued(g)' = Queued(g)
    BY <1>1
  <2>5. Behind(g)' = Queued(g)' \cup V /\ Behind(g) = Queued(g) \cup U
    BY DEF Behind
  <2>. HIDE DEF U, V
  <2>6. {q.id : q \in Behind(g)'} = {q.id : q \in Behind(g)} \cup {p.id}
    <3>1. Behind(g)' = Behind(g) \cup {p}
      BY <2>3, <2>4, <2>5
    <3>. QED  BY <3>1
  <2>. QED  BY <1>0, <2>6 DEF Begun
<1>2. Behind(1) = Queued(1) /\ Behind(1)' = Queued(1)'
  <2>1. 1 .. 1 - 1 = {}
    OBVIOUS
  <2>. QED  BY <2>1 DEF Behind
<1>3. ASSUME Queued(1)' = Queued(1) \cup {p} PROVE Begun(1)' = Begun(1)
  <2>1. {q.id : q \in Behind(1)'} = {q.id : q \in Behind(1)} \cup {p.id}
    BY <1>2, <1>3
  <2>. QED  BY <1>0, <2>1 DEF Begun
<1>4. ASSUME Queued(1) = {}, Queued(1)' = {} PROVE Begun(1)' = Begun(1) \cup {p.id}
  BY <1>0, <1>2, <1>4 DEF Begun
<1>. QED  BY <1>1, <1>3, <1>4
-----------------------------------------------------------------------------
(* Every event keeps every hop on time.                                    *)

(* A packet that comes to a hop when it is due leaves every hop on time.  *)
LEMMA DueEnters ==
  ASSUME Onward, BegunInOrder, \A g \in Hop : DueAt(g), NEW h \in Hop, NEW p \in Packet,
         NEW E, E \subseteq events, \A g : \A c \in events : Completes(c, g) => c \in E,
         ~QueueFull(h), Send(h, p), Leaves(E \cup SendEvents(h, p)),
         TxTime(h, p.flow) = Slotted(h), now' = Due(p.id, h - 1),
         \A g \in Hop : g # h => Begun(g)' = Begun(g),
         Queued(h)' = Queued(h) \cup {p} => Begun(h)' = Begun(h),
         Queued(h) = {} /\ Queued(h)' = {} => Begun(h)' = Begun(h) \cup {p.id},
         \A k \in Begun(h) : k < p.id,
         Queued(h) = {} => p.id = 1 \/ p.id - 1 \in Begun(h)
  PROVE  \A g \in Hop : DueAt(g)'
<1>0. /\ RunInv /\ RunTypes /\ Fits /\ RowFacts /\ byteTime' = byteTime
      /\ now' \in Nat /\ now <= now'
  BY DEF Onward, RunInv
<1>1. /\ \A g \in Hop : g # h =>
           /\ Receptions(g)' \subseteq Receptions(g) /\ Queued(g)' = Queued(g)
           /\ (Idle(g)' <=> Idle(g))
           /\ \A d \in events' : Completes(d, g) => d \in events
      /\ ~Idle(h)'
      /\ \/ /\ Queued(h) = {} /\ Queued(h)' = {} /\ Idle(h)
            /\ Receptions(h)' \subseteq Receptions(h) \cup {Reception(h, p)}
            /\ \A d \in events' : Completes(d, h) => d = Completion(h, p)
         \/ /\ Queued(h)' = Queued(h) \cup {p} /\ ~Idle(h)
            /\ Receptions(h)' \subseteq Receptions(h)
            /\ \A d \in events' : Completes(d, h) => d \in events
  BY <1>0, Comes
<1>2. ASSUME NEW g \in Hop, g # h PROVE DueAt(g)'
  BY <1>1, <1>2, DueKept
<1>3. p.id \in Nat \ {0}
  BY DEF Packet
<1>4. CASE /\ Queued(h) = {} /\ Queued(h)' = {} /\ Idle(h)
           /\ Receptions(h)' \subseteq Receptions(h) \cup {Reception(h, p)}
           /\ \A d \in events' : Completes(d, h) => d = Completion(h, p)
  <2>1. /\ \A k \in Nat \ {0} : Due(k, h) \in Nat /\ Due(k, h - 1) \in Nat
        /\ \A k \in Begun(h) : k \in Nat \ {0}
        /\ now \in Nat /\ Delay \in Nat /\ Slotted(h) \in Nat
    BY <1>0, DueTypes
  <2>2. Due(p.id, h) = now' + Slotted(h) + Delay
    <3>1. CASE p.id = 1
      <4>1. Due(p.id, h) = Due(p.id, h - 1) + Slotted(h) + Delay
        BY <1>0, <1>3, <3>1, DueNext
      <4>. QED  BY <4>1
    <3>2. CASE p.id # 1
      <4>1. p.id - 1 \in Begun(h) /\ p.id > 1
        BY <1>3, <1>4, <3>2
      <4>2. Due(p.id - 1, h) <= now + Delay /\ Due(p.id - 1, h) \in Nat
        BY <1>4, <2>1, <4>1 DEF DueAt
      <4>3. Due(p.id, h) = (IF Due(p.id, h - 1) + Delay < Due(p.id - 1, h)
                            THEN Due(p.id - 1, h) ELSE Due(p.id, h - 1) + Delay) + Slotted(h)
        BY <1>0, <1>3, <4>1, DueNext
      <4>4. ~(Due(p.id, h - 1) + Delay < Due(p.id - 1, h))
        BY <1>0, <2>1, <4>2
      <4>5. Due(p.id, h) = now' + Delay + Slotted(h)
        BY <4>3, <4>4
      <4>. QED  BY <1>0, <2>1, <4>5
    <3>. QED  BY <3>1, <3>2
  <2>3. \A k \in Begun(h) : k <= p.id
    BY <1>3, <2>1
  <2>4. Begun(h)' = Begun(h) \cup {p.id} /\ Queued(h)' \subseteq Queued(h)
    BY <1>4
  <2>5. DueAt(h)'
    BY <1>1, <1>4, <2>2, <2>3, <2>4, DueStarts
  <2>. QED  BY <1>2, <2>5
<1>5. CASE /\ Queued(h)' = Queued(h) \cup {p} /\ ~Idle(h)
           /\ Receptions(h)' \subseteq Receptions(h)
           /\ \A d \in events' : Completes(d, h) => d \in events
  <2>1. Due(p.id, h - 1) <= now'
    BY <1>0
  <2>2. \A q \in Queued(h)' : q \in Queued(h) \/ (q \in Packet /\ Due(q.id, h - 1) <= now')
    BY <1>5, <2>1
  <2>3. DueAt(h)'
    BY <1>1, <1>5, <2>2, DueKept
  <2>. QED  BY <1>2, <2>3
<1>. QED  BY <1>1, <1>4, <1>5

(* What Simulator::Run leaves when it takes the next event. *)
LEMMA TakesNext ==
  ASSUME RunInv, PendingInv, NEW e \in events, IsNext(e), now' = e.at
  PROVE  /\ now' \in Nat /\ now <= now' /\ \A c \in events : c.at \in Nat /\ now' <= c.at
<1>1. \A f \in events : f.at \in Nat /\ now <= f.at
  BY PendingTypes DEF PendingInv
<1>. QED  BY <1>1 DEF IsNext

(* The wire without the packet that comes off it. *)
LEMMA OldestLeaves ==
  ASSUME Net!TypeOK, Net!MotionInv, NEW i \in Net!Hop, NEW e \in Net!Receptions(i), Net!IsNext(e)
  PROVE  /\ Net!WireIn(RowEvents \ {e}, i) = Net!OnWire(i) \ {e.pkt}
         /\ \A g \in Net!Hop : g # i => Net!WireIn(RowEvents \ {e}, g) = Net!OnWire(g)
BY Assumed, Net!OldestOnWire, ZenonT(60)

(* A packet that comes to an inner node finds room and stays on time.     *)
LEMMA DueForward ==
  ASSUME Net!BaseInv, Onward, PendingInv, FlowInv, BegunInOrder, \A g \in Hop : DueAt(g),
         NEW i \in Hop, i < HopCount, NEW e \in Receptions(i), IsNext(e), now' = e.at, Forward(e)
  PROVE  refused' = refused /\ ~QueueFull(i + 1) /\ \A g \in Hop : DueAt(g)'
<1>0. /\ RunInv /\ RunTypes /\ Fits /\ RowFacts /\ byteTime' = byteTime
      /\ now' \in Nat /\ now <= now' /\ \A c \in events : c.at \in Nat /\ now' <= c.at
  <2>1. e \in events
    BY DEF Receptions
  <2>. QED  BY <2>1, TakesNext DEF Onward, RunInv
<1>. DEFINE p == e.pkt
            E == events \ {e}
            h == i + 1
<1>1. e \in RowEvents /\ Net!IsNext(e) /\ e.hop = i /\ e.kind = "Receive"
  BY DEF Receptions, RowEvents, Net!IsNext, IsNext
<1>2. \A g : Net!AtIn(RowEvents \ {e}, g) = Holds(E, g) /\ Net!WireIn(RowEvents \ {e}, g) = Brings(E, g)
  <2>1. \A g : Net!RecIn(RowEvents \ {e}, g) = {d \in E : d.kind = "Receive" /\ d.hop = g}
    BY DEF Net!RecIn, RowEvents
  <2>2. \A g : Net!WireIn(RowEvents \ {e}, g) = Brings(E, g)
    BY <2>1 DEF Net!WireIn, Brings
  <2>. QED  BY <2>2, RowIsSame DEF Net!AtIn, Holds, SameRow
<1>3. /\ h \in Hop /\ p \in Packet
      /\ \A g \in Hop : \A r \in Holds(E, g) : IF g < h THEN p.id < r.id ELSE r.id < p.id
  <2>1. Net!TypeOK /\ Net!MotionInv /\ i \in Net!Hop /\ e \in Net!Receptions(i)
    BY RowIsSame DEF Net!BaseInv, SameRow
  <2>2. h \in Net!Hop /\ Net!Entering(RowEvents \ {e}, h, e.pkt)
    BY <1>1, <2>1, Assumed, Net!ReceptionEnters
  <2>. QED  BY <1>2, <2>2, RowIsSame DEF Net!Entering, SameRow
<1>4. /\ Brings(E, i) = OnWire(i) \ {p}
      /\ \A g \in Hop : g # i => Brings(E, g) = OnWire(g)
  <2>1. Net!TypeOK /\ Net!MotionInv /\ i \in Net!Hop /\ e \in Net!Receptions(i)
    BY RowIsSame DEF Net!BaseInv, SameRow
  <2>2. /\ Net!WireIn(RowEvents \ {e}, i) = Net!OnWire(i) \ {e.pkt}
        /\ \A g \in Net!Hop : g # i => Net!WireIn(RowEvents \ {e}, g) = Net!OnWire(g)
    BY <1>1, <2>1, OldestLeaves
  <2>. QED  BY <1>2, <2>2, RowIsSame DEF SameRow
<1>5. i \in Nat /\ h - 1 = i /\ h - 1 \in Hop /\ i # h /\ p.id \in Nat \ {0}
  BY <1>3, HopType DEF Packet
<1>6. p \in At(i) /\ p \in UnderWay /\ p \in Known /\ p \in OnWire(i)
  BY <1>0 DEF RowFacts, At, Known
<1>7. /\ Holds(E, i) = At(i) \ {p}
      /\ \A g \in Hop : g # i => Holds(E, g) = At(g)
  <2>1. \A q \in Queued(i) : p.id < q.id
    BY <1>0, <1>6 DEF RowFacts, OrderInv
  <2>2. p \notin Queued(i)
    BY <1>5, <2>1
  <2>. QED  BY <1>4, <2>2 DEF Holds, At
<1>8. e.at = Due(p.id, h - 1)
  <2>1. e.at = Due(e.pkt.id, i)
    BY DEF DueAt
  <2>. QED  BY <1>5, <2>1
<1>9. Send(h, p) /\ events' = E \cup SendEvents(h, p) /\ offered' = offered
  BY <1>1 DEF Forward
<1>10. TxTime(h, p.flow) = Slotted(h)
  BY <1>0, <1>3, <1>6, Owner
<1>11. \A g : \A c \in events : Completes(c, g) => c \in E
  BY <1>1 DEF Completes
<1>12. Leaves(E \cup SendEvents(h, p)) /\ E \subseteq events
  BY <1>9 DEF Leaves
<1>. HIDE DEF p, E, h
<1>13. \A r \in Queued(h) : r.id < p.id
  <2>1. Queued(h) \subseteq Holds(E, h)
    BY DEF Holds
  <2>2. ~(h < h)
    BY <1>3, HopType
  <2>. QED  BY <1>3, <2>1, <2>2
<1>14. ~QueueFull(h)
  <2>1. \A c \in events : Due(p.id, h - 1) <= c.at
    BY <1>0, <1>8
  <2>. QED  BY <1>0, <1>3, <1>13, <2>1, NotFull
<1>15. /\ refused' = refused
       /\ \A g \in Hop : g # h => Queued(g)' = Queued(g) /\ At(g)' = Holds(E, g)
       /\ At(h)' = Holds(E, h) \cup {p}
  BY <1>0, <1>3, <1>9, <1>11, <1>12, <1>14, Comes
<1>16. /\ \A g \in Hop : g # h => Begun(g)' = Begun(g)
       /\ Queued(h)' = Queued(h) \cup {p} => Begun(h)' = Begun(h)
       /\ Queued(h) = {} /\ Queued(h)' = {} => Begun(h)' = Begun(h) \cup {p.id}
  <2>1. \A g \in Hop : \A r \in Holds(E, g) : g < h => p.id < r.id
    BY <1>3
  <2>2. p \in At(h - 1) /\ Holds(E, h - 1) = At(h - 1) \ {p}
    BY <1>5, <1>6, <1>7
  <2>3. \A g \in Hop : g # h - 1 => Holds(E, g) = At(g)
    BY <1>5, <1>7
  <2>. QED  BY <1>0, <1>3, <1>5, <1>6, <1>9, <1>15, <2>1, <2>2, <2>3, BegunForward
<1>17. \A k \in Begun(h) : k < p.id
  <2>1. p \in Behind(h)
    <3>1. i \in 1 .. h - 1
      BY <1>5, HopType DEF Hop
    <3>. QED  BY <1>6, <3>1 DEF Behind
  <2>. QED  BY <1>0, <1>3, <2>1, BegunBefore DEF BegunInOrder
<1>18. ASSUME Queued(h) = {}, p.id # 1 PROVE p.id - 1 \in Begun(h)
  <2>1. p.id \in 1 .. offered /\ offered \in Nat
    BY <1>0, <1>6 DEF RowFacts, AccountInv, RunTypes
  <2>2. p.id - 1 \in 1 .. offered
    BY <1>5, <1>18, <2>1
  <2>3. ASSUME NEW q \in Behind(h) PROVE q.id # p.id - 1
    <3>1. PICK g \in 1 .. h - 1 : q \in At(g)
      BY <1>18 DEF Behind
    <3>2. g \in Hop /\ g < h
      BY <1>3, <3>1, HopAssumption DEF Hop
    <3>3. q = p \/ q \in Holds(E, g)
      BY <1>7, <3>1, <3>2
    <3>4. q = p \/ p.id < q.id
      BY <1>3, <3>2, <3>3
    <3>5. q.id \in Nat
      BY <1>0, <1>3, Ids
    <3>. QED  BY <1>5, <3>4, <3>5
  <2>. QED  BY <2>2, <2>3 DEF Begun
<1>19. \A g \in Hop : DueAt(g)'
  <2>1. now' = Due(p.id, h - 1)
    BY <1>8
  <2>2. Queued(h) = {} => p.id = 1 \/ p.id - 1 \in Begun(h)
    BY <1>18
  <2>. QED  BY <1>3, <1>9, <1>10, <1>11, <1>12, <1>14, <1>16, <1>17, <2>1, <2>2, DueEnters
<1>. QED  BY <1>14, <1>15, <1>19 DEF h

(* At the end of a transmission the disc has been run: with a device queue *)
(* that is empty, nothing waits in it.                                     *)
LEMMA NoneHeldBack ==
  ASSUME Net!BaseInv, RowFacts, NEW h \in Hop, NEW e \in events, Completes(e, h), IsNext(e),
         e.at \in Nat, handed[h] = 0
  PROVE  queue[h] = <<>>
<1>1. /\ \A w \in wakes : w.at = now /\ now \in Nat
      /\ Net!HandAt(h)
  BY RowIsSame DEF Net!BaseInv, Net!HandInv, Net!TypeOK, SameRow
<1>2. e \in RowEvents /\ Net!Completes(e, h)
  BY RowIsSame DEF RowEvents, Completes, SameRow
<1>3. ASSUME NEW w \in wakes PROVE ~(now < e.at)
  <2>1. w.at > e.at \/ w.at = e.at
    BY <1>3 DEF IsNext
  <2>. QED  BY <1>1, <1>3, <2>1
<1>4. handed[h] = Net!Fill(Len(queue[h]))
  BY <1>1, <1>2, <1>3 DEF Net!HandAt, Net!Wakes
<1>5. Net!Fill(Len(queue[h])) = Fill(Len(queue[h]))
  BY DEF Net!Fill, Fill
<1>6. Len(queue[h]) = 0 /\ queue[h] \in Seq(Packet)
  BY <1>4, <1>5, FillBound DEF RowFacts
<1>. QED  BY <1>6, EmptySeq

(* At the end of a transmission the next packet begins when it must. *)
LEMMA DueComplete ==
  ASSUME Net!BaseInv, Onward, PendingInv, FlowInv, BegunInOrder, \A g \in Hop : DueAt(g),
         NEW e \in events, IsNext(e), now' = e.at, e.kind = "TransmitComplete", TransmitComplete(e)
  PROVE  refused' = refused /\ \A g \in Hop : DueAt(g)'
<1>0. /\ RunInv /\ RunTypes /\ Fits /\ RowFacts /\ byteTime' = byteTime
      /\ now' \in Nat /\ now <= now'
  BY DEF Onward, RunInv
<1>. DEFINE h == e.hop
<1>1. h \in Hop /\ Completes(e, h) /\ offered' = offered
  BY <1>0, PendingTypes DEF Completes, TransmitComplete
<1>2. CASE /\ queue[h] = <<>> /\ sending' = [sending EXCEPT ![h] = None]
           /\ events' = events \ {e} /\ UNCHANGED <<queue, refused>>
  <2>1. /\ \A g \in Hop : /\ Receptions(g)' = Receptions(g) /\ Queued(g)' = Queued(g)
                          /\ Begun(g)' = Begun(g)
                          /\ g # h => (Idle(g)' <=> Idle(g))
        /\ \A d \in events' : ~Completes(d, h)
    BY <1>0, <1>1, <1>2, IdlesMoves
  <2>2. \A g \in Hop : Receptions(g)' \subseteq Receptions(g) /\ Queued(g)' \subseteq Queued(g)
    BY <2>1
  <2>3. DueAt(h)'
    BY <1>1, <2>1, <2>2, DueIdles
  <2>4. ASSUME NEW g \in Hop, g # h PROVE DueAt(g)'
    <3>1. \A d \in events' : Completes(d, g) => d \in events
      BY <1>2
    <3>. QED  BY <2>1, <2>2, <2>4, <3>1, DueKept
  <2>. QED  BY <1>2, <2>3, <2>4
<1>3. CASE /\ queue[h] # <<>> /\ TransmitStart(h, queue[h])
           /\ events' = (events \ {e}) \cup Scheduled(h, queue[h])
  <2>. DEFINE r == Head(queue[h])
  <2>1. /\ \A g \in Hop : g # h =>
             /\ Receptions(g)' = Receptions(g) /\ Queued(g)' = Queued(g)
             /\ Begun(g)' = Begun(g) /\ (Idle(g)' <=> Idle(g))
             /\ \A d \in events' : Completes(d, g) => d \in events
        /\ Receptions(h)' = Receptions(h) \cup {Reception(h, r)}
        /\ Queued(h)' \subseteq Queued(h) /\ ~Idle(h)'
        /\ \A d \in events' : Completes(d, h) => d = Completion(h, r)
        /\ Begun(h)' = Begun(h) \cup {r.id}
    BY <1>0, <1>1, <1>3, NextMoves
  <2>2. /\ r \in Packet /\ r \in Known /\ r \in Queued(h)
        /\ \A q \in Behind(h) : q = r \/ r.id < q.id
    BY <1>0, <1>1, <1>3, HeadBehind
  <2>3. refused' = refused
    BY <1>3 DEF TransmitStart
  <2>. HIDE DEF r, h
  <2>4. ASSUME NEW g \in Hop, g # h PROVE DueAt(g)'
    BY <2>1, <2>4, DueKept
  <2>5. /\ \A k \in Nat \ {0} : Due(k, h) \in Nat /\ Due(k, h - 1) \in Nat
        /\ \A k \in Begun(h) : k \in Nat \ {0}
        /\ now \in Nat /\ Delay \in Nat /\ Slotted(h) \in Nat /\ r.id \in Nat \ {0}
        /\ h \in 0 .. HopCount
    <3>1. h \in 0 .. HopCount
      BY <1>1, HopAssumption DEF Hop
    <3>. QED  BY <1>0, <1>1, <2>2, <3>1, DueTypes DEF Packet
  <2>6. \A k \in Begun(h) : k < r.id
    <3>1. r \in Behind(h)
      BY <2>2 DEF Behind
    <3>. QED  BY <1>0, <1>1, <3>1, BegunBefore DEF BegunInOrder
  <2>7. PICK x \in Begun(h) : Due(x, h) = now' + Delay
    BY <1>1 DEF DueAt
  <2>8. r.id > 1 /\ r.id - 1 \in Nat \ {0} /\ x <= r.id - 1
    BY <2>5, <2>6, <2>7
  <2>9. r.id - 1 \in Begun(h)
    <3>1. r.id \in 1 .. offered /\ offered \in Nat
      BY <1>0, <2>2 DEF RowFacts, AccountInv, RunTypes
    <3>2. \A q \in Behind(h) : q.id # r.id - 1
      <4>1. \A q \in Behind(h) : q.id \in Nat
        BY <1>0, <1>1, Ids
      <4>. QED  BY <2>2, <2>5, <4>1
    <3>. QED  BY <2>8, <3>1, <3>2 DEF Begun
  <2>10. Due(r.id - 1, h) = now' + Delay
    <3>1. Due(r.id - 1, h) <= now' + Delay
      BY <1>1, <2>9 DEF DueAt
    <3>2. Due(x, h) <= Due(r.id - 1, h)
      BY <1>0, <2>5, <2>7, <2>8, DueMonotone
    <3>3. Due(r.id - 1, h) \in Nat
      BY <2>5, <2>8
    <3>. QED  BY <1>0, <2>5, <2>7, <3>1, <3>2, <3>3
  <2>11. Due(r.id, h) = now' + Slotted(h) + Delay
    <3>1. Due(r.id, h - 1) <= now /\ Due(r.id, h - 1) \in Nat
      BY <1>1, <2>2, <2>5 DEF DueAt
    <3>2. Due(r.id, h) = (IF Due(r.id, h - 1) + Delay < Due(r.id - 1, h)
                          THEN Due(r.id - 1, h) ELSE Due(r.id, h - 1) + Delay) + Slotted(h)
      BY <1>0, <1>1, <2>5, <2>8, DueNext
    <3>. DEFINE d == Due(r.id, h - 1)
    <3>3. d \in Nat /\ d <= now' /\ (d + Delay < now' + Delay \/ d = now')
      BY <1>0, <2>5, <3>1
    <3>4. Due(r.id, h) = (IF d + Delay < now' + Delay THEN now' + Delay ELSE d + Delay) + Slotted(h)
      BY <2>10, <3>2
    <3>5. Due(r.id, h) = now' + Delay + Slotted(h)
      BY <3>3, <3>4
    <3>. QED  BY <1>0, <2>5, <3>5
  <2>12. \A k \in Begun(h) : k <= r.id
    BY <2>5, <2>6
  <2>13. TxTime(h, r.flow) = Slotted(h)
    BY <1>0, <1>1, <2>2, Owner
  <2>14. DueAt(h)'
    BY <1>1, <2>1, <2>2, <2>11, <2>12, <2>13, DueStarts
  <2>. QED  BY <2>3, <2>4, <2>14
<1>4. handed[h] = 0 => queue[h] = <<>>
  BY <1>0, <1>1, NoneHeldBack
<1>. QED  BY <1>0, <1>1, <1>2, <1>3, <1>4, CompleteCases

(* The last hop gives up a packet. *)
LEMMA DueArrive ==
  ASSUME Onward, \A g \in Hop : DueAt(g), NEW e \in Receptions(HopCount), Arrive(e)
  PROVE  refused' = refused /\ \A g \in Hop : DueAt(g)'
<1>0. RowFacts /\ HopCount \in Nat
  BY HopAssumption DEF Onward
<1>1. UNCHANGED <<queue, sending, refused, offered>> /\ events' = events \ {e}
  BY DEF Arrive, devVars
<1>2. /\ \A g : Queued(g)' = Queued(g) /\ (Idle(g)' <=> Idle(g))
      /\ \A g : Receptions(g)' \subseteq Receptions(g)
  BY <1>1 DEF Queued, Idle, Receptions
<1>3. \A g \in Hop : g < HopCount => At(g)' = At(g)
  <2>1. \A g \in Hop : g < HopCount => Receptions(g)' = Receptions(g)
    BY <1>0, <1>1 DEF Receptions
  <2>. QED  BY <1>2, <2>1 DEF At, OnWire
<1>4. \A g \in Hop : Begun(g)' = Begun(g)
  <2>1. \A g \in Hop : \A i \in 1 .. g - 1 : i \in Hop /\ i < HopCount
    BY <1>0 DEF Hop
  <2>2. \A g \in Hop : Behind(g)' = Behind(g)
    BY <1>2, <1>3, <2>1 DEF Behind
  <2>. QED  BY <1>1, <2>2 DEF Begun
<1>5. \A g \in Hop : DueAt(g)'
  <2>1. \A c \in events' : c \in events
    BY <1>1
  <2>. QED  BY <1>2, <1>4, <2>1, DueKept
<1>. QED  BY <1>1, <1>5

(* A client sends when its packet is due before the first hop. *)
LEMMA SendIsDue ==
  ASSUME RunInv, Fits, PendingInv, TurnInv, NEW e \in Sends, IsNext(e)
  PROVE  /\ e.at = Due(offered + 1, 0)
         /\ \E i \in 1 .. 2 : e.flow = Clients[i]
         /\ offered + 1 \in Nat \ {0}
<1>1. TwoClients /\ RunTypes /\ Interval \in Nat
  BY FitsTypes DEF RunInv
<1>2. Sent(1) \in Nat /\ Sent(2) \in Nat /\ offered = Sent(1) + Sent(2)
  BY <1>1, ClientTypes DEF TurnInv
<1>3. PICK i \in 1 .. 2 :
        /\ e.flow = Clients[i] /\ e.at = Sent(i) * Interval
        /\ IF i = 1 THEN Sent(1) = Sent(2) ELSE Sent(1) = Sent(2) + 1
  BY <1>1, Turn
<1>. DEFINE k == offered + 1
            s == Sent(i)
<1>4. k \in Nat \ {0} /\ s \in Nat /\ (k = 2 * s + 1 \/ k = 2 * s + 2)
  <2>1. CASE i = 1
    BY <1>2, <1>3, <2>1
  <2>2. CASE i = 2
    BY <1>2, <1>3, <2>2
  <2>. QED  BY <2>1, <2>2
<1>5. Latency[0] = 0 /\ Longest[0] = 0
  BY <1>1, Timetable
<1>. HIDE DEF k, s
<1>6. Due(k, 0) = s * Interval /\ s * Interval \in Nat
  <2>. DEFINE r == (k - 1) \div 2
  <2>1. r = s /\ 0 \in 0 .. HopCount
    BY <1>4, HopAssumption
  <2>2. /\ r * Interval \in Nat
        /\ \/ Due(k, 0) = r * Interval + Latency[0]
           \/ Due(k, 0) = r * Interval + Latency[0] + Longest[0]
    BY <1>1, <1>4, <2>1, DueForms
  <2>. HIDE DEF r
  <2>3. Due(k, 0) = r * Interval
    BY <1>5, <2>2
  <2>. QED  BY <2>1, <2>2, <2>3
<1>. QED  BY <1>3, <1>4, <1>6 DEF k, s

(* A packet that a client sends finds room, and is on time. *)
LEMMA DueOffer ==
  ASSUME Onward, PendingInv, TurnInv, BegunInOrder, \A g \in Hop : DueAt(g),
         NEW e \in Sends, IsNext(e), now' = e.at, SendNext(e)
  PROVE  refused' = refused /\ ~QueueFull(1) /\ \A g \in Hop : DueAt(g)'
<1>0. /\ RunInv /\ RunTypes /\ Fits /\ TwoClients /\ RowFacts /\ byteTime' = byteTime
      /\ now' \in Nat /\ now <= now' /\ \A c \in events : c.at \in Nat /\ now' <= c.at
  <2>1. e \in events
    BY DEF Sends
  <2>. QED  BY <2>1, TakesNext, FitsTypes DEF Onward, RunInv
<1>. DEFINE p == NextPacket(e.flow)
            E == events \ {e}
            n == ClientSend(e.flow, SendUid(1), now' + Interval)
<1>1. /\ Offer(e.flow) /\ e.flow \in Flow /\ offered' = offered + 1 /\ Send(1, p)
      /\ events' = E \cup SendEvents(1, p) \cup (IF More(e) THEN {n} ELSE {})
  BY <1>0, SendAdds DEF Offer
<1>2. p.id = offered + 1 /\ p.flow = e.flow /\ p \in Packet /\ e.kind = "Send" /\ n.kind = "Send"
  BY <1>0, <1>1 DEF NextPacket, Packet, RunTypes, Sends, ClientSend
<1>3. 1 \in Hop /\ 1 - 1 = 0 /\ offered \in Nat
  BY <1>0, HopType DEF RunTypes
<1>. HIDE DEF n
<1>4. Leaves(E \cup SendEvents(1, p)) /\ E \subseteq events
  BY <1>1, <1>2 DEF Leaves
<1>5. \A g : \A c \in events : Completes(c, g) => c \in E
  BY <1>2 DEF Completes
<1>6. \A g \in Hop : Holds(E, g) = At(g)
  <2>1. \A g : {d \in E : d.kind = "Receive" /\ d.hop = g} = Receptions(g)
    BY <1>2 DEF Receptions
  <2>. QED  BY <2>1 DEF Holds, Brings, At, OnWire
<1>7. /\ now' = Due(p.id, 1 - 1)
      /\ TxTime(1, p.flow) = Slotted(1)
  <2>1. e.at = Due(offered + 1, 0) /\ \E i \in 1 .. 2 : e.flow = Clients[i]
    BY <1>0, SendIsDue
  <2>2. \A i \in 1 .. 2 : TxTime(1, Clients[i]) = Slotted(1)
    BY <1>0, <1>3, FitsTypes
  <2>. QED  BY <1>2, <1>3, <2>1, <2>2
<1>. HIDE DEF p, E
<1>8. \A q \in Queued(1) : q.id < p.id
  <2>1. \A q \in Queued(1) : q \in Known
    BY <1>0, <1>3 DEF RowFacts, At, Known
  <2>2. \A q \in Queued(1) : q.id \in 1 .. offered
    BY <1>0, <2>1 DEF RowFacts, AccountInv
  <2>. QED  BY <1>2, <1>3, <2>2
<1>9. ~QueueFull(1)
  <2>1. \A c \in events : Due(p.id, 1 - 1) <= c.at
    BY <1>0, <1>7
  <2>. QED  BY <1>0, <1>2, <1>3, <1>8, <2>1, NotFull
<1>10. /\ refused' = refused
       /\ \A g \in Hop : g # 1 => Queued(g)' = Queued(g) /\ At(g)' = Holds(E, g)
       /\ At(1)' = Holds(E, 1) \cup {p}
  <2>1. RowFacts /\ 1 \in Hop /\ p \in Packet /\ Send(1, p)
    BY <1>0, <1>1, <1>2, <1>3
  <2>. QED  BY <1>4, <1>5, <1>9, <2>1, Comes
<1>11. /\ \A g \in Hop : g # 1 => Begun(g)' = Begun(g)
       /\ Queued(1)' = Queued(1) \cup {p} => Begun(1)' = Begun(1)
       /\ Queued(1) = {} /\ Queued(1)' = {} => Begun(1)' = Begun(1) \cup {p.id}
  BY <1>0, <1>1, <1>2, <1>6, <1>10, BegunOffer
<1>12. \A k \in Begun(1) : k < p.id
  BY <1>2, <1>3 DEF Begun
<1>13. ASSUME Queued(1) = {}, p.id # 1 PROVE p.id - 1 \in Begun(1)
  <2>1. Behind(1) = {}
    <3>1. 1 .. 1 - 1 = {}
      OBVIOUS
    <3>. QED  BY <1>13, <3>1 DEF Behind
  <2>2. p.id - 1 \in 1 .. offered
    BY <1>2, <1>3, <1>13
  <2>. QED  BY <2>1, <2>2 DEF Begun
<1>14. \A g \in Hop : DueAt(g)'
  <2>1. Queued(1) = {} => p.id = 1 \/ p.id - 1 \in Begun(1)
    BY <1>13
  <2>. QED  BY <1>1, <1>2, <1>3, <1>4, <1>5, <1>7, <1>9, <1>11, <1>12, <2>1, DueEnters
<1>. QED  BY <1>9, <1>10, <1>14
-----------------------------------------------------------------------------
(* What an event does to the places of the packets.                        *)

(* The end of a transmission moves no packet to another device. *)
LEMMA CompleteMoves ==
  ASSUME Net!BaseInv, NEW e \in events, IsNext(e), now' = e.at,
         e.kind = "TransmitComplete", DeviceEvent(e)
  PROVE  /\ TransmitComplete(e)
         /\ UnderWay' = UnderWay /\ Lost' = Lost /\ UNCHANGED <<offered, stats, arrived>>
<1>1. e \in RowEvents
  BY DEF RowEvents
<1>2. Net!IsNext(e) /\ Net!TransmitComplete(e) /\ TransmitComplete(e)
  BY <1>1, RowDevice DEF Net!DeviceEvent, DeviceEvent
<1>3. Net!UnderWay' = Net!UnderWay /\ UNCHANGED <<offered, stats, arrived, refused>>
  BY <1>1, <1>2, Assumed, Net!CompleteBase
<1>4. UnderWay' = UnderWay
  BY <1>3, RowIsSame, RowStaysSame DEF SameRow
<1>5. Lost' = Lost
  BY <1>3 DEF Lost
<1>. QED  BY <1>2, <1>3, <1>4, <1>5

(* A packet that is handed on stays under way, or is refused. *)
LEMMA ForwardMoves ==
  ASSUME Net!BaseInv, NEW h \in Hop, NEW e \in Receptions(h), IsNext(e), now' = e.at,
         h < HopCount, DeviceEvent(e)
  PROVE  /\ Forward(e) /\ UNCHANGED <<offered, stats, arrived>>
         /\ Known' \subseteq Known
         /\ ~QueueFull(h + 1) => UnderWay' = UnderWay /\ Lost' = Lost
<1>1. e \in RowEvents /\ e.hop = h /\ e.kind = "Receive"
  BY DEF RowEvents, Receptions
<1>2. Net!IsNext(e) /\ Net!DeviceEvent(e)
  BY <1>1, RowDevice
<1>3. Net!Forward(e) /\ Forward(e)
  <2>1. Net!Receive(e) /\ Receive(e)
    BY <1>1, <1>2 DEF Net!DeviceEvent, DeviceEvent
  <2>2. ~(h = HopCount)
    BY HopType, HopAssumption
  <2>. QED  BY <1>1, <2>1, <2>2 DEF Net!Receive, Receive
<1>4. h \in Net!Hop /\ e \in Net!Receptions(h)
  BY RowIsSame DEF SameRow
<1>5. /\ UNCHANGED <<offered, stats, arrived>>
      /\ \/ /\ Net!QueueFull(h + 1) /\ refused' = [refused EXCEPT ![h + 1] = @ \cup {e.pkt}]
            /\ Net!UnderWay' = Net!UnderWay \ {e.pkt}
         \/ Net!UnderWay' = Net!UnderWay /\ refused' = refused
  BY <1>2, <1>3, <1>4, Assumed, Net!ForwardBase
<1>6. /\ refused' = refused => Lost' = Lost
      /\ refused' = [refused EXCEPT ![h + 1] = @ \cup {e.pkt}] => Lost' = Lost \cup {e.pkt}
  <2>1. h + 1 \in Hop
    BY HopType, HopAssumption DEF Hop
  <2>2. refused \in [Hop -> SUBSET Packet]
    BY RowIsSame DEF SameRow, Net!BaseInv, Net!TypeOK
  <2>. QED  BY <2>1, <2>2 DEF Lost
<1>7. e.pkt \in UnderWay
  BY DEF UnderWay, OnWire
<1>8. UnderWay' = Net!UnderWay' /\ UnderWay = Net!UnderWay /\ (Net!QueueFull(h + 1) <=> QueueFull(h + 1))
  BY RowIsSame, RowStaysSame DEF SameRow
<1>. QED  BY <1>3, <1>5, <1>6, <1>7, <1>8 DEF Known

(* The oldest packet under way arrives. *)
LEMMA ArriveMoves ==
  ASSUME Net!BaseInv, NEW e \in Receptions(HopCount), IsNext(e), now' = e.at, DeviceEvent(e)
  PROVE  /\ Arrive(e) /\ Lost' = Lost /\ Known' = Known
         /\ arrived' = arrived \cup {e.pkt} /\ UnderWay' = UnderWay \ {e.pkt}
         /\ e.pkt \in UnderWay /\ \A p \in UnderWay : e.pkt.id <= p.id
<1>1. e \in RowEvents /\ e.hop = HopCount /\ e.kind = "Receive"
  BY DEF RowEvents, Receptions
<1>2. Net!IsNext(e) /\ Net!DeviceEvent(e)
  BY <1>1, RowDevice
<1>3. Net!Arrive(e) /\ Arrive(e)
  <2>1. Net!Receive(e) /\ Receive(e)
    BY <1>1, <1>2 DEF Net!DeviceEvent, DeviceEvent
  <2>2. ~(HopCount < HopCount)
    BY HopAssumption
  <2>. QED  BY <1>1, <2>1, <2>2 DEF Net!Receive, Receive
<1>4. e \in Net!Receptions(HopCount)
  BY RowIsSame DEF SameRow
<1>5. /\ UNCHANGED refused
      /\ arrived' = arrived \cup {e.pkt}
      /\ Net!UnderWay' = Net!UnderWay \ {e.pkt}
      /\ e.pkt \in Net!UnderWay /\ \A p \in Net!UnderWay : e.pkt.id <= p.id
  BY <1>2, <1>3, <1>4, Assumed, Net!ArriveBase DEF Net!devVars
<1>6. Lost' = Lost
  BY <1>5 DEF Lost
<1>7. UnderWay' = Net!UnderWay' /\ UnderWay = Net!UnderWay
  BY RowIsSame, RowStaysSame DEF SameRow
<1>. QED  BY <1>3, <1>5, <1>6, <1>7 DEF Known

(* The packet that a client sends is under way, or is refused. *)
LEMMA OfferMoves ==
  ASSUME TwoClients, RunInv, PendingInv, TurnInv, Net!BaseInv,
         NEW e \in Sends, IsNext(e), now' = e.at, SendNext(e)
  PROVE  /\ offered' = offered + 1 /\ arrived' = arrived
         /\ Known' \subseteq Known \cup {NextPacket(e.flow)}
         /\ ~QueueFull(1) => UnderWay' = UnderWay \cup {NextPacket(e.flow)} /\ Lost' = Lost
<1>. DEFINE p == NextPacket(e.flow)
<1>1. e.flow \in Flow /\ Net!OfferAnytime(e.flow)
  BY RowOffer
<1>2. /\ offered' = offered + 1 /\ arrived' = arrived
      /\ \/ /\ Net!QueueFull(1)
            /\ refused' = [refused EXCEPT ![1] = @ \cup {Net!NextPacket(e.flow)}]
            /\ Net!UnderWay' = Net!UnderWay
         \/ Net!UnderWay' = Net!UnderWay \cup {Net!NextPacket(e.flow)} /\ refused' = refused
  BY <1>1, Assumed, Net!OfferBase
<1>3. Net!NextPacket(e.flow) = p
  BY DEF Net!NextPacket, NextPacket
<1>. HIDE DEF p
<1>4. /\ refused' = refused => Lost' = Lost
      /\ refused' = [refused EXCEPT ![1] = @ \cup {p}] => Lost' = Lost \cup {p}
  <2>1. 1 \in Hop
    BY HopType
  <2>2. refused \in [Hop -> SUBSET Packet]
    BY RowIsSame DEF SameRow, Net!BaseInv, Net!TypeOK
  <2>. QED  BY <2>1, <2>2 DEF Lost
<1>5. UnderWay' = Net!UnderWay' /\ UnderWay = Net!UnderWay /\ (Net!QueueFull(1) <=> QueueFull(1))
  BY RowIsSame, RowStaysSame DEF SameRow
<1>6. Known' \subseteq Known \cup {p}
  BY <1>2, <1>3, <1>4, <1>5 DEF Known
<1>. QED  BY <1>2, <1>3, <1>4, <1>5, <1>6 DEF p
-----------------------------------------------------------------------------
(* Whose packets there are, and what the flow monitor has seen of them.    *)

(* A device event is the end of a transmission, or a packet comes to the   *)
(* end of an inner hop or of the last one.                                 *)
LEMMA DeviceCases ==
  ASSUME RunInv, NEW e \in events, DeviceEvent(e)
  PROVE  \/ e.kind = "TransmitComplete"
         \/ \E h \in Hop : h < HopCount /\ e \in Receptions(h)
         \/ e \in Receptions(HopCount)
<1>1. CASE e.kind = "Receive"
  <2>1. e.hop \in Hop /\ e \in Receptions(e.hop)
    BY <1>1, PendingTypes DEF Receptions
  <2>2. e.hop < HopCount \/ e.hop = HopCount
    BY <2>1, HopAssumption DEF Hop
  <2>. QED  BY <2>1, <2>2
<1>. QED  BY <1>1, PendingTypes DEF DeviceEvent

(* A packet is of the client whose turn it was. *)
LEMMA OfferFlow ==
  ASSUME TwoClients, RunInv, PendingInv, TurnInv, NEW e \in Sends, IsNext(e)
  PROVE  LET p == NextPacket(e.flow)
         IN  p.flow = IF p.id % 2 = 1 THEN Clients[1] ELSE Clients[2]
<1>1. Sent(1) \in Nat /\ Sent(2) \in Nat /\ offered = Sent(1) + Sent(2)
  BY ClientTypes DEF RunInv, TurnInv
<1>2. PICK i \in 1 .. 2 :
        /\ e.flow = Clients[i]
        /\ IF i = 1 THEN Sent(1) = Sent(2) ELSE Sent(1) = Sent(2) + 1
  BY Turn
<1>3. CASE i = 1
  <2>1. offered + 1 = 2 * Sent(2) + 1
    BY <1>1, <1>2, <1>3
  <2>2. (offered + 1) % 2 = 1
    BY <1>1, <2>1
  <2>. QED  BY <1>2, <1>3, <2>2 DEF NextPacket
<1>4. CASE i = 2
  <2>1. offered + 1 = 2 * (Sent(2) + 1)
    BY <1>1, <1>2, <1>4
  <2>2. (offered + 1) % 2 = 0
    BY <1>1, <2>1
  <2>. QED  BY <1>2, <1>4, <2>2 DEF NextPacket
<1>. QED  BY <1>3, <1>4

(* The odd packets stay those of the first client. *)
LEMMA FlowStep ==
  ASSUME TwoClients, RunInv, PendingInv, TurnInv, FlowInv, Net!BaseInv,
         NEW e \in events, IsNext(e), now' = e.at,
         DeviceEvent(e) \/ (e.kind = "Send" /\ SendNext(e))
  PROVE  FlowInv'
<1>1. ASSUME Known' \subseteq Known PROVE FlowInv'
  BY <1>1 DEF FlowInv
<1>2. CASE DeviceEvent(e)
  <2>1. CASE e.kind = "TransmitComplete"
    BY <1>1, <1>2, <2>1, CompleteMoves DEF Known
  <2>2. ASSUME NEW h \in Hop, h < HopCount, e \in Receptions(h) PROVE FlowInv'
    BY <1>1, <1>2, <2>2, ForwardMoves
  <2>3. CASE e \in Receptions(HopCount)
    BY <1>1, <1>2, <2>3, ArriveMoves
  <2>. QED  BY <1>2, <2>1, <2>2, <2>3, DeviceCases
<1>3. CASE e.kind = "Send" /\ SendNext(e)
  <2>1. e \in Sends
    BY <1>3 DEF Sends
  <2>2. Known' \subseteq Known \cup {NextPacket(e.flow)}
    BY <1>3, <2>1, OfferMoves
  <2>3. LET p == NextPacket(e.flow)
        IN  p.flow = IF p.id % 2 = 1 THEN Clients[1] ELSE Clients[2]
    BY <2>1, OfferFlow
  <2>. QED  BY <2>2, <2>3 DEF FlowInv
<1>. QED  BY <1>2, <1>3

(* Nothing arrives, and what comes is younger than what has arrived. *)
LEMMA SeenKept ==
  ASSUME SeenInv, byteTime' = byteTime, arrived' = arrived,
         \A q \in UnderWay' : q \in UnderWay \/ \A p \in arrived : p.id < q.id,
         \A i \in 1 .. 2 :
           /\ stats'[Clients[i]].rx = stats[Clients[i]].rx
           /\ stats'[Clients[i]].timeFirstRx = stats[Clients[i]].timeFirstRx
           /\ stats'[Clients[i]].timeLastRx = stats[Clients[i]].timeLastRx
  PROVE  SeenInv'
<1>1. \A k : Due(k, HopCount)' = Due(k, HopCount)
  BY DueSame
<1>2. \A f : OfFlow(arrived, f)' = OfFlow(arrived, f)
  BY DEF OfFlow
<1>. QED  BY <1>1, <1>2 DEF SeenInv

(* The first packet of a train that arrives is the first one sent. *)
LEMMA FirstOfTrain ==
  ASSUME RunInv, TwoClients, FlowInv, RowFacts, Lost = {},
         NEW p \in UnderWay, \A q \in UnderWay : p.id <= q.id,
         NEW i \in 1 .. 2, p.flow = Clients[i], stats[Clients[i]].rx = 0
  PROVE  p.id = i
<1>1. Clients[i] \in Flow /\ Clients[1] # Clients[2]
  BY ClientTypes DEF RunInv
<1>2. p \in Known /\ p.id \in Nat \ {0}
  <2>1. p \in Known /\ Known \subseteq Packet
    BY DEF Known, RowFacts
  <2>. QED  BY <2>1 DEF Packet
<1>3. OfFlow(arrived, Clients[i]) = {}
  <2>1. Cardinality(OfFlow(arrived, Clients[i])) = 0 /\ IsFiniteSet(Known)
    BY <1>1 DEF RowFacts, AccountInv
  <2>2. OfFlow(arrived, Clients[i]) \subseteq Known
    BY DEF OfFlow, Known
  <2>. QED  BY <2>1, <2>2, FS_Subset, FS_EmptySet
<1>4. i <= p.id
  <2>1. i = 2 => p.id % 2 # 1
    BY <1>1, <1>2 DEF FlowInv
  <2>2. p.id = 1 => p.id % 2 = 1
    OBVIOUS
  <2>. QED  BY <1>2, <2>1, <2>2
<1>5. ASSUME i < p.id PROVE FALSE
  <2>1. p.id \in 1 .. offered /\ offered \in Nat
    BY <1>2 DEF RowFacts, AccountInv, RunInv, RunTypes
  <2>2. i \in 1 .. offered
    BY <1>2, <1>5, <2>1
  <2>3. PICK q \in Known : q.id = i
    BY <2>2 DEF RowFacts, AccountInv
  <2>4. q \notin UnderWay
    BY <1>2, <1>5, <2>3
  <2>5. q \in arrived
    BY <2>3, <2>4 DEF Known
  <2>6. q.flow = Clients[i]
    BY <2>3 DEF FlowInv
  <2>. QED  BY <1>3, <2>5, <2>6 DEF OfFlow
<1>. QED  BY <1>2, <1>4, <1>5

(* The flow monitor sees a packet at the moment at which it is due. *)
LEMMA SeenArrive ==
  ASSUME Onward, FlowInv, SeenInv, Lost = {}, DueAt(HopCount),
         NEW e \in Receptions(HopCount), now' = e.at, Arrive(e),
         arrived' = arrived \cup {e.pkt}, UnderWay' = UnderWay \ {e.pkt},
         e.pkt \in UnderWay, \A p \in UnderWay : e.pkt.id <= p.id
  PROVE  SeenInv'
<1>0. RunInv /\ RunTypes /\ TwoClients /\ RowFacts /\ byteTime' = byteTime
  BY FitsTypes DEF Onward, RunInv
<1>. DEFINE p == e.pkt
<1>1. now' = Due(p.id, HopCount)'
  <2>1. Due(p.id, HopCount)' = Due(p.id, HopCount)
    BY <1>0, DueSame
  <2>. QED  BY <2>1 DEF DueAt
<1>2. stats' = [stats EXCEPT ![p.flow] = Seen(@, now')]
  BY DEF Arrive
<1>. HIDE DEF p
<1>3. /\ UnderWay \subseteq Known /\ arrived \subseteq Known
      /\ \A q \in Known : q \in Packet /\ q.id \in Nat
  <2>1. Known \subseteq Packet
    BY <1>0 DEF RowFacts
  <2>. QED  BY <2>1 DEF Known, Packet
<1>4. \A a \in arrived', q \in UnderWay' : a.id < q.id
  <2>1. ASSUME NEW q \in UnderWay' PROVE p.id < q.id
    <3>1. q \in UnderWay /\ q # p /\ p \in UnderWay /\ p.id <= q.id
      BY DEF p
    <3>2. q.id # p.id
      BY <1>0, <1>3, <3>1 DEF RowFacts, AccountInv
    <3>. QED  BY <1>3, <3>1, <3>2
  <2>2. \A a \in arrived, q \in UnderWay : a.id < q.id
    BY DEF SeenInv
  <2>. QED  BY <2>1, <2>2 DEF p
<1>5. ASSUME NEW i \in 1 .. 2, stats'[Clients[i]].rx > 0
      PROVE  /\ stats'[Clients[i]].timeFirstRx = Due(i, HopCount)'
             /\ \E a \in OfFlow(arrived', Clients[i]) :
                  /\ stats'[Clients[i]].timeLastRx = Due(a.id, HopCount)'
                  /\ \A q \in OfFlow(arrived', Clients[i]) : q.id <= a.id
  <2>. DEFINE f == Clients[i]
  <2>1. f \in Flow /\ stats \in [Flow -> Statistics]
    BY <1>0, ClientTypes DEF RunTypes
  <2>2. \A k : Due(k, HopCount)' = Due(k, HopCount)
    BY <1>0, DueSame
  <2>3. stats[f].rx > 0 =>
          /\ stats[f].timeFirstRx = Due(i, HopCount)
          /\ \E a \in OfFlow(arrived, f) :
               /\ stats[f].timeLastRx = Due(a.id, HopCount)
               /\ \A q \in OfFlow(arrived, f) : q.id <= a.id
    BY DEF SeenInv
  <2>. HIDE DEF f
  <2>4. CASE p.flow = f
    <3>1. stats'[f] = Seen(stats[f], now')
      BY <1>2, <2>1, <2>4
    <3>2. stats'[f].timeLastRx = Due(p.id, HopCount)'
      BY <1>1, <3>1 DEF Seen
    <3>3. stats'[f].timeFirstRx = Due(i, HopCount)'
      <4>1. CASE stats[f].rx = 0
        <5>1. p.id = i
          BY <1>0, <2>4, <4>1, FirstOfTrain DEF p, f
        <5>. QED  BY <1>1, <3>1, <4>1, <5>1 DEF Seen
      <4>2. CASE stats[f].rx # 0
        <5>1. stats[f].rx > 0
          BY <2>1, <4>2 DEF Statistics
        <5>. QED  BY <2>2, <2>3, <3>1, <4>2, <5>1 DEF Seen
      <4>. QED  BY <4>1, <4>2
    <3>4. p \in OfFlow(arrived', f)
      BY <2>4 DEF OfFlow, p
    <3>5. ASSUME NEW q \in OfFlow(arrived', f) PROVE q.id <= p.id
      <4>1. q = p \/ q \in arrived
        BY DEF OfFlow, p
      <4>2. p \in UnderWay
        BY DEF p
      <4>3. q \in arrived => q.id < p.id
        BY <4>2 DEF SeenInv
      <4>. QED  BY <1>3, <4>1, <4>2, <4>3
    <3>. QED  BY <3>2, <3>3, <3>4, <3>5 DEF f
  <2>5. CASE p.flow # f
    <3>1. stats'[f] = stats[f]
      BY <1>2, <2>1, <2>5
    <3>2. OfFlow(arrived', f) = OfFlow(arrived, f)
      BY <2>5 DEF OfFlow, p
    <3>. QED  BY <1>5, <2>2, <2>3, <3>1, <3>2 DEF f
  <2>. QED  BY <2>4, <2>5
<1>. QED  BY <1>4, <1>5 DEF SeenInv
-----------------------------------------------------------------------------
(* The timetable is kept until the simulator stops, and what the flow      *)
(* monitor has then.                                                       *)

(* The rates never change, and with them what the links can carry. *)
LEMMA RatesStay ==
  ASSUME [Step]_detVars
  PROVE  byteTime' = byteTime /\ (Fits' <=> Fits)
<1>1. byteTime' = byteTime
  <2>1. ASSUME NEW e, DeviceEvent(e) PROVE byteTime' = byteTime
    BY <2>1 DEF DeviceEvent, TransmitComplete, Receive, Forward, Arrive, Wake
  <2>2. ASSUME NEW e, SendNext(e) \/ Analyse(e) PROVE byteTime' = byteTime
    BY <2>2 DEF SendNext, Train, Offer, Analyse
  <2>. QED  BY <2>1, <2>2 DEF Step, RunEvent, Loop, Judge, detVars, vars
<1>2. Fits' <=> Fits
  BY <1>1 DEF Fits, TwoAlike, LoadFits, TxTime
<1>. QED  BY <1>1, <1>2

(* Whatever event comes next, every packet stays on time. *)
LEMMA PacedEvent ==
  ASSUME Fits, RunInv, PendingInv, TurnInv, FlowInv, Net!BaseInv, DueInv, SeenInv,
         byteTime' = byteTime, NEW e \in events, IsNext(e), now' = e.at,
         DeviceEvent(e) \/ (e.kind = "Send" /\ SendNext(e))
  PROVE  DueInv' /\ SeenInv'
<1>1. RowFacts
  BY RowSays
<1>2. Onward /\ TwoClients
  <2>1. now' \in Nat /\ now <= now'
    BY TakesNext
  <2>. QED  BY <1>1, <2>1, FitsTypes DEF Onward, RunInv
<1>3. BegunInOrder /\ Lost = {} /\ \A g \in Hop : DueAt(g)
  BY DEF BegunInOrder, DueInv, SeenInv
<1>4. CASE DeviceEvent(e)
  <2>1. CASE e.kind = "TransmitComplete"
    <3>1. TransmitComplete(e) /\ UnderWay' = UnderWay /\ Lost' = Lost /\ UNCHANGED <<stats, arrived>>
      BY <1>4, <2>1, CompleteMoves
    <3>2. \A g \in Hop : DueAt(g)'
      BY <1>2, <1>3, <2>1, <3>1, DueComplete
    <3>3. SeenInv'
      BY <3>1, SeenKept
    <3>. QED  BY <1>3, <3>1, <3>2, <3>3 DEF DueInv
  <2>2. ASSUME NEW h \in Hop, h < HopCount, e \in Receptions(h) PROVE DueInv' /\ SeenInv'
    <3>1. Forward(e)
      BY <1>4, <2>2, ForwardMoves
    <3>2. ~QueueFull(h + 1) /\ \A g \in Hop : DueAt(g)'
      BY <1>2, <1>3, <2>2, <3>1, DueForward
    <3>3. UnderWay' = UnderWay /\ Lost' = Lost /\ UNCHANGED <<stats, arrived>>
      BY <1>4, <2>2, <3>2, ForwardMoves
    <3>4. SeenInv'
      BY <3>3, SeenKept
    <3>. QED  BY <1>3, <3>2, <3>3, <3>4 DEF DueInv
  <2>3. CASE e \in Receptions(HopCount)
    <3>1. /\ Arrive(e) /\ Lost' = Lost
          /\ arrived' = arrived \cup {e.pkt} /\ UnderWay' = UnderWay \ {e.pkt}
          /\ e.pkt \in UnderWay /\ \A p \in UnderWay : e.pkt.id <= p.id
      BY <1>4, <2>3, ArriveMoves
    <3>2. \A g \in Hop : DueAt(g)'
      BY <1>2, <1>3, <2>3, <3>1, DueArrive
    <3>3. HopCount \in Hop
      BY HopAssumption DEF Hop
    <3>4. SeenInv'
      BY <1>2, <1>3, <2>3, <3>1, <3>3, SeenArrive
    <3>. QED  BY <1>3, <3>1, <3>2, <3>4 DEF DueInv
  <2>. QED  BY <1>4, <2>1, <2>2, <2>3, DeviceCases
<1>5. CASE e.kind = "Send" /\ SendNext(e)
  <2>1. e \in Sends
    BY <1>5 DEF Sends
  <2>2. ~QueueFull(1) /\ \A g \in Hop : DueAt(g)'
    BY <1>2, <1>3, <1>5, <2>1, DueOffer
  <2>3. /\ arrived' = arrived /\ Lost' = Lost
        /\ UnderWay' = UnderWay \cup {NextPacket(e.flow)}
    BY <1>2, <1>5, <2>1, <2>2, OfferMoves
  <2>4. \A p \in arrived : p.id < NextPacket(e.flow).id
    <3>1. offered \in Nat
      BY DEF RunInv, RunTypes
    <3>2. \A p \in arrived : p.id \in 1 .. offered
      BY <1>1 DEF RowFacts, AccountInv, Known
    <3>. QED  BY <3>1, <3>2 DEF NextPacket
  <2>5. \A i \in 1 .. 2 :
          /\ stats'[Clients[i]].rx = stats[Clients[i]].rx
          /\ stats'[Clients[i]].timeFirstRx = stats[Clients[i]].timeFirstRx
          /\ stats'[Clients[i]].timeLastRx = stats[Clients[i]].timeLastRx
    <3>1. \A i \in 1 .. 2 : Clients[i] \in Flow
      BY <1>2, ClientTypes DEF RunInv
    <3>2. /\ stats'[e.flow] = [stats[e.flow] EXCEPT !.tx = stats[e.flow].tx + 1]
          /\ \A f \in Flow : f # e.flow => stats'[f] = stats[f]
          /\ e.flow \in Flow
      BY <1>2, <1>5, <2>1, SendAdds
    <3>3. /\ stats'[e.flow].rx = stats[e.flow].rx
          /\ stats'[e.flow].timeFirstRx = stats[e.flow].timeFirstRx
          /\ stats'[e.flow].timeLastRx = stats[e.flow].timeLastRx
      <4>1. stats[e.flow] \in Statistics
        BY <3>2 DEF RunInv, RunTypes
      <4>. QED  BY <3>2, <4>1 DEF Statistics
    <3>. QED  BY <3>1, <3>2, <3>3
  <2>6. SeenInv'
    BY <2>3, <2>4, <2>5, SeenKept
  <2>. QED  BY <1>3, <2>2, <2>3, <2>6 DEF DueInv
<1>. QED  BY <1>4, <1>5

(* When the simulator stops late enough both trains have arrived, and each *)
(* took from its first packet to its last what it took to send them.       *)
LEMMA AllArrived ==
  ASSUME Fits, TimeEnough, RunInv, PendingInv, TurnInv, FlowInv, RowFacts, DueInv, SeenInv,
         IsNext(Stop)
  PROVE  \A i \in 1 .. 2 :
           /\ stats[Clients[i]].rx = PacketCount
           /\ ExactSpread(Clients[i]) = (PacketCount - 1) * Interval
<1>1. /\ RunTypes /\ TwoClients /\ Interval \in Nat /\ PacketCount \in Nat \ {0} /\ StopAt \in Nat
      /\ Delay \in Nat /\ HopCount \in Nat
  BY FitsTypes, ClientTypes, HopAssumption DEF RunInv
<1>2. \A c \in events : c.at \in Nat /\ ~(c.at < StopAt)
  BY <1>1, PendingTypes DEF IsNext, Stop
<1>3. \A k \in 1 .. 2 * PacketCount, h \in 0 .. HopCount : Due(k, h) < StopAt /\ Due(k, h) \in Nat
  BY <1>1, DueBeforeStop, DueForms
<1>4. Sends = {}
  <2>1. ASSUME NEW e \in Sends PROVE FALSE
    <3>1. PICK i \in 1 .. 2 : Sent(i) < PacketCount /\ e.at = Sent(i) * Interval
      BY DEF TurnInv
    <3>2. Sent(i) \in Nat
      BY <1>1, ClientTypes
    <3>3. Sent(i) * Interval <= PacketCount * Interval /\ Sent(i) * Interval \in Nat
          /\ PacketCount * Interval \in Nat
      BY <1>1, <3>1, <3>2, Pairs
    <3>4. HopCount * (Delay + Interval) \in Nat
      BY <1>1, Pairs
    <3>5. e.at < StopAt
      BY <1>1, <3>1, <3>3, <3>4 DEF TimeEnough
    <3>. QED  BY <1>2, <3>5 DEF Sends
  <2>. QED  BY <2>1
<1>5. Sent(1) = PacketCount /\ Sent(2) = PacketCount /\ offered = 2 * PacketCount
  <2>1. \A i \in 1 .. 2 : Sent(i) \in Nat /\ ~(Sent(i) < PacketCount)
    BY <1>1, <1>4, ClientTypes DEF TurnInv
  <2>2. Sent(2) <= Sent(1) /\ Sent(1) <= PacketCount /\ offered = Sent(1) + Sent(2)
    BY DEF TurnInv
  <2>. QED  BY <1>1, <2>1, <2>2
<1>6. UnderWay = {}
  <2>1. ASSUME NEW h \in Hop PROVE Receptions(h) = {}
    <3>1. ASSUME NEW e \in Receptions(h) PROVE FALSE
      <4>1. e \in events /\ e.pkt \in Known
        BY DEF RowFacts, At, Known
      <4>2. e.pkt.id \in 1 .. 2 * PacketCount
        BY <1>5, <4>1 DEF RowFacts, AccountInv
      <4>3. h \in 0 .. HopCount
        BY <1>1 DEF Hop
      <4>4. e.at = Due(e.pkt.id, h)
        BY DEF DueInv, DueAt
      <4>. QED  BY <1>2, <1>3, <4>1, <4>2, <4>3, <4>4
    <3>. QED  BY <3>1
  <2>2. ASSUME NEW h \in Hop PROVE Queued(h) = {}
    <3>1. ASSUME NEW q \in Queued(h) PROVE FALSE
      <4>1. queue[h] # <<>>
        BY DEF Queued
      <4>2. PICK c \in events : Completes(c, h)
        BY <4>1 DEF RowFacts, MachineInv
      <4>3. PICK k \in Begun(h) : Due(k, h) = c.at + Delay
        BY <4>2 DEF DueInv, DueAt
      <4>4. k \in 1 .. 2 * PacketCount /\ h \in 0 .. HopCount
        BY <1>1, <1>5 DEF Begun, Hop
      <4>. QED  BY <1>1, <1>2, <1>3, <4>3, <4>4
    <3>. QED  BY <3>1
  <2>. QED  BY <2>1, <2>2 DEF UnderWay, OnWire
<1>7. Known = arrived
  BY <1>6 DEF Known, DueInv
<1>8. ASSUME NEW i \in 1 .. 2
      PROVE  /\ stats[Clients[i]].rx = PacketCount
             /\ ExactSpread(Clients[i]) = (PacketCount - 1) * Interval
  <2>1. Clients[i] \in Flow /\ Clients[1] # Clients[2]
    BY <1>1, ClientTypes
  <2>2. stats[Clients[i]].rx = PacketCount
    <3>1. stats[Clients[i]].rx = stats[Clients[i]].tx
      BY <1>7, <2>1 DEF RowFacts, AccountInv
    <3>2. stats[Clients[i]].tx = PacketCount
      BY <1>5 DEF Sent
    <3>. QED  BY <3>1, <3>2
  <2>3. PICK p \in OfFlow(arrived, Clients[i]) :
          /\ stats[Clients[i]].timeFirstRx = Due(i, HopCount)
          /\ stats[Clients[i]].timeLastRx = Due(p.id, HopCount)
          /\ \A q \in OfFlow(arrived, Clients[i]) : q.id <= p.id
    BY <1>1, <2>2 DEF SeenInv
  <2>. DEFINE k == 2 * (PacketCount - 1) + i
  <2>4. k \in 1 .. 2 * PacketCount /\ (k % 2 = 1 <=> i = 1)
        /\ (i = 1 => k + 1 = 2 * PacketCount) /\ (i = 2 => k = 2 * PacketCount)
    <3>1. i = 1 => k = 2 * (PacketCount - 1) + 1
      OBVIOUS
    <3>2. i = 2 => k = 2 * PacketCount
      BY <1>1
    <3>. QED  BY <1>1, <3>1, <3>2
  <2>5. Due(k, HopCount) - Due(i, HopCount) = (PacketCount - 1) * Interval
    BY <1>1, DueSpread
  <2>. HIDE DEF k
  <2>6. PICK q \in Known : q.id = k
    BY <1>5, <2>4 DEF RowFacts, AccountInv
  <2>7. k <= p.id
    <3>1. q.flow = Clients[i]
      BY <2>4, <2>6 DEF FlowInv
    <3>. QED  BY <1>7, <2>3, <2>6, <3>1 DEF OfFlow
  <2>8. p.id = k
    <3>1. p \in Known /\ p.flow = Clients[i]
      BY <1>7 DEF OfFlow
    <3>2. p.id \in 1 .. 2 * PacketCount
      BY <1>5, <3>1 DEF RowFacts, AccountInv
    <3>3. i = 1 => p.id % 2 = 1
      BY <2>1, <3>1 DEF FlowInv
    <3>4. (2 * PacketCount) % 2 = 0
      BY <1>1
    <3>. QED  BY <1>1, <2>4, <2>7, <3>2, <3>3, <3>4
  <2>. QED  BY <2>2, <2>3, <2>5, <2>8 DEF ExactSpread
<1>. QED  BY <1>8
-----------------------------------------------------------------------------
(* The timetable is an invariant of the experiment. *)

(* At the start nothing is due. *)
LEMMA TimetableInit ==
  ASSUME TwoClients, DetInit
  PROVE  TimetableInv
<1>1. PendingInv /\ TurnInv
  BY ScheduleInit DEF ScheduleInv, DetInit, MainInit
<1>2. /\ \A h \in Hop : queue[h] = <<>> /\ refused[h] = {}
      /\ arrived = {} /\ offered = 0 /\ iter = 0
      /\ \A f \in Flow : stats[f] = NoStats
      /\ \A e \in events : e.kind \in {"Send", "Stop"}
  BY DEF DetInit, Start, MainInit, FirstSends, ClientSend, Stop
<1>3. \A h \in Hop : Queued(h) = {} /\ Receptions(h) = {} /\ Begun(h) = {}
  <2>1. \A h \in Hop : Queued(h) = {} /\ Receptions(h) = {}
    BY <1>2 DEF Queued, Receptions
  <2>. QED  BY <1>2, <2>1 DEF Begun
<1>4. UnderWay = {} /\ Lost = {} /\ Known = {}
  <2>1. UnderWay = {} /\ Lost = {}
    BY <1>2, <1>3 DEF UnderWay, OnWire, Lost
  <2>. QED  BY <1>2, <2>1 DEF Known
<1>5. FlowInv
  BY <1>4 DEF FlowInv
<1>6. DueInv
  <2>1. \A h : \A c \in events : ~Completes(c, h)
    BY <1>2 DEF Completes
  <2>. QED  BY <1>3, <1>4, <2>1 DEF DueInv, DueAt
<1>7. SeenInv
  <2>1. \A i \in 1 .. 2 : ~(stats[Clients[i]].rx > 0)
    <3>1. \A i \in 1 .. 2 : Clients[i] \in Flow
      BY ClientFlows DEF TwoClients
    <3>. QED  BY <1>2, <3>1 DEF NoStats
  <2>. QED  BY <1>2, <2>1 DEF SeenInv
<1>. QED  BY <1>1, <1>2, <1>5, <1>6, <1>7 DEF TimetableInv, RunningInv, PacedInv

(* A step of main, or none at all, finds the simulator where it was; and a *)
(* disc that is run, what there is where it was.                           *)
LEMMA TimetableStays ==
  ASSUME TwoClients, RunInv, Net!BaseInv, TimetableInv, Fits' <=> Fits,
         UNCHANGED <<byteTime, queue, sending, refused, lastStart, events, now, nextUid, offered,
                     stats, arrived>>,
         iter' = iter \/ (iter > 0 /\ iter' > 0)
  PROVE  TimetableInv'
<1>1. UNCHANGED <<byteTime, queue, sending, refused, lastStart, events, now, nextUid, offered,
                  stats, arrived>>
  OBVIOUS
<1>2. (iter' = 0 => iter = 0) /\ (iter' > 0 => iter > 0)
  OBVIOUS
<1>3. ASSUME PendingInv, TurnInv, FlowInv PROVE PendingInv' /\ TurnInv' /\ FlowInv'
  <2>1. PendingInv'
    BY <1>1, <1>3 DEF PendingInv
  <2>2. TurnInv'
    <3>1. Sends' = Sends /\ \A i \in 1 .. 2 : Sent(i)' = Sent(i)
      BY <1>1 DEF Sends, Sent
    <3>. QED  BY <1>1, <1>3, <3>1, TurnKept
  <2>3. FlowInv'
    <3>1. \A h : Queued(h)' = Queued(h) /\ OnWire(h)' = OnWire(h)
      BY <1>1 DEF Queued, OnWire, Receptions
    <3>2. Known' = Known
      BY <1>1, <3>1 DEF Known, UnderWay, Lost
    <3>. QED  BY <1>3, <3>2 DEF FlowInv
  <2>. QED  BY <2>1, <2>2, <2>3
<1>4. ASSUME Fits, DueInv, SeenInv PROVE DueInv' /\ SeenInv'
  <2>1. Onward
    <3>1. RowFacts /\ now' = now /\ now \in Nat
      BY <1>1, RowSays DEF RunInv, RunTypes
    <3>. QED  BY <1>1, <1>4, <3>1 DEF Onward
  <2>2. /\ \A h : Queued(h)' = Queued(h) /\ Receptions(h)' = Receptions(h)
        /\ \A h : OnWire(h)' = OnWire(h) /\ (Idle(h)' <=> Idle(h))
    BY <1>1 DEF Queued, OnWire, Receptions, Idle
  <2>3. \A h : Begun(h)' = Begun(h)
    <3>1. \A h : At(h)' = At(h)
      BY <2>2 DEF At
    <3>. QED  BY <1>1, <2>2, <3>1 DEF Begun, Behind
  <2>4. \A h \in Hop : DueAt(h)'
    BY <1>1, <1>4, <2>1, <2>2, <2>3, DueKept DEF DueInv
  <2>5. UnderWay' = UnderWay /\ Lost' = Lost
    BY <1>1, <2>2 DEF UnderWay, Lost
  <2>. QED  BY <1>1, <1>4, <2>4, <2>5, SeenKept DEF DueInv
<1>5. \A f : ExactSpread(f)' = ExactSpread(f)
  BY <1>1 DEF ExactSpread
<1>6. (RunningInv)'
  BY <1>2, <1>3 DEF TimetableInv, RunningInv, TwoClients
<1>. QED  BY <1>2, <1>1, <1>4, <1>5, <1>6 DEF TimetableInv, PacedInv, TimeEnough

(* Every step keeps the timetable. *)
LEMMA TimetableStep ==
  ASSUME TwoClients, RunInv, DetInv, Net!BaseInv, TimetableInv, [Step]_detVars
  PROVE  TimetableInv'
<1>1. byteTime' = byteTime /\ (Fits' <=> Fits)
  BY RatesStay
<1>2. CASE UNCHANGED detVars
  <2>1. UNCHANGED vars /\ iter' = iter
    BY <1>2 DEF detVars, mainVars
  <2>. QED  BY <1>1, <2>1, TimetableStays DEF vars, devVars, simVars
<1>3. CASE Loop \/ Judge
  <2>1. UNCHANGED vars /\ iter > 0 /\ iter' > 0
    <3>1. CASE Loop
      <4>1. iter \in 1 .. 2 /\ iter' = iter + 1
        BY <3>1 DEF Loop, TwoClients
      <4>2. UNCHANGED vars
        BY <3>1 DEF Loop
      <4>. QED  BY <4>1, <4>2
    <3>2. CASE Judge
      <4>1. iter > 2 /\ iter' = iter
        BY <3>2 DEF Judge, TwoClients
      <4>2. iter \in 0 .. 3
        BY DEF DetInv, LoopInv, TwoClients
      <4>3. UNCHANGED vars
        BY <3>2 DEF Judge
      <4>. QED  BY <4>1, <4>2, <4>3
    <3>. QED  BY <1>3, <3>1, <3>2
  <2>. QED  BY <1>1, <2>1, TimetableStays DEF vars, devVars, simVars
<1>4. CASE RunEvent
  <2>1. iter = 0 /\ PendingInv /\ TurnInv /\ FlowInv /\ (Fits => DueInv /\ SeenInv)
    BY <1>4 DEF RunEvent, TimetableInv, RunningInv, PacedInv
  <2>3. ASSUME NEW e \in events, IsNext(e), now' = e.at, UNCHANGED mainVars,
               DeviceEvent(e) \/ (e.kind = "Send" /\ SendNext(e))
        PROVE  TimetableInv'
    <3>1. iter' = 0
      BY <2>1, <2>3 DEF mainVars
    <3>2. PendingInv' /\ TurnInv'
      <4>1. e.kind = "Send" => e \in Sends
        BY DEF Sends
      <4>. QED  BY <2>1, <2>3, <4>1, DeviceSchedule, SendSchedule
    <3>3. FlowInv'
      BY <2>1, <2>3, FlowStep
    <3>4. Fits' => DueInv' /\ SeenInv'
      BY <1>1, <2>1, <2>3, PacedEvent
    <3>. QED  BY <3>1, <3>2, <3>3, <3>4 DEF TimetableInv, RunningInv, PacedInv
  <2>4. ASSUME NEW e \in events, IsNext(e), now' = e.at, e.kind = "Stop", Analyse(e)
        PROVE  TimetableInv'
    <3>1. e = Stop
      BY <2>1, <2>4 DEF TurnInv
    <3>2. iter' = 1 /\ stats' = stats
      BY <2>4 DEF Analyse
    <3>3. ASSUME Fits, TimeEnough
          PROVE  \A i \in 1 .. 2 :
                   /\ stats[Clients[i]].rx = PacketCount
                   /\ ExactSpread(Clients[i]) = (PacketCount - 1) * Interval
      BY <2>1, <2>4, <3>1, <3>3, RowSays, AllArrived
    <3>4. \A f : ExactSpread(f)' = ExactSpread(f)
      BY <3>2 DEF ExactSpread
    <3>. QED  BY <1>1, <3>2, <3>3, <3>4 DEF TimetableInv, RunningInv, PacedInv, TimeEnough
  <2>5. ASSUME NEW w \in wakes, now' = w.at, Wake(w), UNCHANGED mainVars
        PROVE  TimetableInv'
    <3>1. now' = now
      BY <2>5 DEF Net!BaseInv, Net!HandInv
    <3>2. UNCHANGED <<byteTime, queue, sending, refused, lastStart, events, nextUid, offered,
                      stats, arrived>>
      BY <2>5 DEF Wake
    <3>3. iter' = iter
      BY <2>5 DEF mainVars
    <3>. QED  BY <1>1, <3>1, <3>2, <3>3, TimetableStays
  <2>. QED  BY <1>4, <2>3, <2>4, <2>5, RunCases
<1>. QED  BY <1>2, <1>3, <1>4 DEF Step

(* With two clients that take turns, whatever the rates, the sizes, the    *)
(* interval and the length of the row: each sends at its place in the      *)
(* schedule until the simulator stops, and where every link can carry both *)
(* trains every packet passes every hop exactly when it is due, and none   *)
(* is refused.                                                             *)
THEOREM TimetableCorrect == DetSpec => []TimetableInv
<1>1. CASE TwoClients
  <2>1. DetInit => TimetableInv
    BY <1>1, TimetableInit
  <2>2. RunInv /\ DetInv /\ Net!BaseInv /\ TimetableInv /\ [Step]_detVars => TimetableInv'
    BY <1>1, TimetableStep
  <2>3. DetSpec => []Net!BaseInv
    BY <1>1, RowInvariance
  <2>. QED  BY <2>1, <2>2, <2>3, RunInvariance, DetInvariance, PTL DEF DetSpec
<1>2. CASE ~TwoClients
  <2>1. TimetableInv
    BY <1>2 DEF TimetableInv, RunningInv, PacedInv, Fits, TwoAlike, TwoClients
  <2>. QED  BY <2>1, PTL
<1>. QED  BY <1>1, <1>2
-----------------------------------------------------------------------------
(* What the program prints about two trains that keep their spread.        *)

(* The same number of milliseconds more, cut, is that many more. *)
LEMMA CutShift ==
  ASSUME NEW m \in Nat \ {0}, NEW a \in Nat, NEW b \in Nat, NEW j \in Nat, b = a + j * m
  PROVE  b \div m - a \div m = j
<1>. DEFINE A == a \div m
            B == b \div m
<1>1. A \in Nat /\ A * m <= a /\ a < A * m + m
  BY Cut
<1>2. B \in Nat /\ B * m <= b /\ b < B * m + m
  BY Cut
<1>. HIDE DEF A, B
<1>3. (A + j) * m = A * m + j * m /\ (A + j + 1) * m = A * m + j * m + m /\ (B + 1) * m = B * m + m
      /\ j * m \in Nat
  BY <1>1, <1>2
<1>4. ASSUME NEW x \in Nat, NEW y \in Nat, x * m < y * m PROVE x < y
  BY <1>4, Pairs
<1>5. B < A + j + 1
  BY <1>1, <1>2, <1>3, <1>4
<1>6. A + j < B + 1
  BY <1>1, <1>2, <1>3, <1>4
<1>. QED  BY <1>1, <1>2, <1>5, <1>6 DEF A, B

(* Two spreads that are equal differ by one at most when they are cut. *)
LEMMA CutTogether ==
  ASSUME NEW m \in Nat \ {0}, NEW s \in Int, NEW t \in Int, NEW x \in Int,
         s * m - x <= m - 1, x - s * m <= m - 1,
         t * m - x <= m - 1, x - t * m <= m - 1
  PROVE  Distance(s, t) <= 1
<1>1. ASSUME NEW a \in Int, NEW b \in Int, b >= a + 2, x - a * m <= m - 1, b * m - x <= m - 1
      PROVE  FALSE
  <2>1. b * m >= (a + 2) * m
    <3>1. PICK d \in Nat : b = a + 2 + d
      BY <1>1
    <3>2. b * m = (a + 2) * m + d * m /\ d * m \in Nat
      BY <3>1
    <3>. QED  BY <3>2
  <2>2. (a + 2) * m = a * m + 2 * m
    OBVIOUS
  <2>. QED  BY <1>1, <2>1, <2>2
<1>2. ~(t >= s + 2) /\ ~(s >= t + 2)
  BY <1>1
<1>. QED  BY <1>2 DEF Distance

(* Where every link can carry both trains, a simulation that runs long     *)
(* enough measures only the pace of its own clients, and never says that   *)
(* it detected compression.                                                *)
THEOREM PacedCorrect == DetSpec => []PacedTrainsKeepTheirSpread
<1>1. ASSUME DetInv, TimetableInv PROVE PacedTrainsKeepTheirSpread
  <2>. SUFFICES ASSUME verdict # "none", TwoAlike, TimeEnough, \A h \in Hop : LoadFits(h)
                PROVE  /\ \A i \in 1 .. 2 :
                            /\ stats[Clients[i]].rx = PacketCount
                            /\ ExactSpread(Clients[i]) = (PacketCount - 1) * Interval
                       /\ Interval % Millisecond = 0 \/ Threshold > 0 =>
                            verdict = "Compression Not Detected"
    BY DEF PacedTrainsKeepTheirSpread
  <2>1. RunInv /\ LoopInv /\ Fits
    BY <1>1 DEF DetInv, TwoAlike, Fits
  <2>2. iter > 0
    <3>1. iter \in 0 .. 3 /\ (iter < 3 => verdict = "none")
      BY <2>1 DEF LoopInv
    <3>2. ~(iter < 3)
      BY <3>1
    <3>. QED  BY <3>1, <3>2
  <2>3. \A i \in 1 .. 2 :
          /\ stats[Clients[i]].rx = PacketCount
          /\ ExactSpread(Clients[i]) = (PacketCount - 1) * Interval
    BY <1>1, <2>1, <2>2 DEF TimetableInv, PacedInv
  <2>. DEFINE f == Clients[1]
              g == Clients[2]
              x == (PacketCount - 1) * Interval
  <2>4. /\ f \in Flow /\ g \in Flow
        /\ verdict = "Compression Detected" <=> Distance(Spread(f), Spread(g)) > Threshold
    BY <1>1, VerdictFound DEF TwoAlike
  <2>5. /\ Millisecond \in Nat \ {0} /\ Interval \in Nat /\ PacketCount - 1 \in Nat
        /\ Threshold \in Nat
    BY TrainAssumption
  <2>6. ExactSpread(f) = x /\ ExactSpread(g) = x
    BY <2>3
  <2>. HIDE DEF f, g, x
  <2>7. ASSUME Interval % Millisecond = 0 PROVE Spread(f) = Spread(g)
    <3>. DEFINE q == Interval \div Millisecond
                j == (PacketCount - 1) * q
    <3>1. q \in Nat /\ Interval = q * Millisecond
      BY <2>5, <2>7
    <3>. HIDE DEF q
    <3>2. j \in Nat /\ x = j * Millisecond
      BY <2>5, <3>1 DEF x
    <3>. HIDE DEF j
    <3>3. ASSUME NEW d \in Flow, ExactSpread(d) = x PROVE Spread(d) = j
      <4>1. stats[d].timeFirstRx \in Nat /\ stats[d].timeLastRx \in Nat
        BY <2>1, SpreadType
      <4>2. stats[d].timeLastRx = stats[d].timeFirstRx + j * Millisecond
        BY <2>5, <3>2, <3>3, <4>1 DEF ExactSpread
      <4>. QED  BY <2>5, <3>2, <4>1, <4>2, CutShift DEF Spread, Milliseconds
    <3>. QED  BY <2>4, <2>6, <3>3
  <2>8. Distance(Spread(f), Spread(g)) <= 1
    <3>1. x \in Int /\ Spread(f) \in Int /\ Spread(g) \in Int
      BY <2>1, <2>4, <2>6, SpreadType
    <3>2. /\ Spread(f) * Millisecond - x <= Millisecond - 1
          /\ x - Spread(f) * Millisecond <= Millisecond - 1
          /\ Spread(g) * Millisecond - x <= Millisecond - 1
          /\ x - Spread(g) * Millisecond <= Millisecond - 1
      BY <2>1, <2>4, <2>6, CutSpread
    <3>. QED  BY <2>5, <3>1, <3>2, CutTogether
  <2>9. Spread(f) \in Int /\ Spread(g) \in Int
    BY <2>1, <2>4, SpreadType
  <2>10. Interval % Millisecond = 0 \/ Threshold > 0 => ~(Distance(Spread(f), Spread(g)) > Threshold)
    BY <2>5, <2>7, <2>8, <2>9 DEF Distance
  <2>11. verdict \in {"Compression Detected", "Compression Not Detected"}
    BY <2>1 DEF LoopInv
  <2>. QED  BY <2>3, <2>4, <2>10, <2>11
<1>. QED  BY <1>1, DetInvariance, TimetableCorrect, PTL
=============================================================================
