----------------------------- MODULE Detection -----------------------------
(***************************************************************************)
(* The experiment of cs621-dev01.cc on the network of Tandem: two clients  *)
(* on the first node send a train each, from the same moment on and at the *)
(* same pace; when the simulation stops, the program compares how far the  *)
(* two trains were spread on arrival and prints whether the inner link     *)
(* compresses.  Time 0 is the start of the clients.                        *)
(***************************************************************************)
EXTENDS Tandem, Integers

CONSTANTS
  Clients,     \* the flows of the clients, in the order of their creation
  PacketCount, \* maxPacketCount
  Interval,    \* interPacketInterval
  StopAt,      \* when Simulator::Stop ends the run
  Millisecond, \* time units in a millisecond
  Threshold    \* threshold, in milliseconds

ASSUME TrainAssumption ==
  /\ Clients \in Seq(Flow)
  /\ PacketCount \in Nat \ {0}
  /\ {Interval, StopAt, Threshold} \subseteq Nat
  /\ Millisecond \in Nat \ {0}

VARIABLES
  useCompression,  \* the command-line option
  iter,            \* where main is: 0 while the simulator runs, then the flow
                   \* that the loop over the statistics looks at next
  found,           \* the variables first, second and count of main
  verdict          \* what the program prints, or "none" before it does

mainVars == <<useCompression, iter, found, verdict>>
detVars == <<vars, mainVars>>

Stop == [uid |-> Len(Clients), at |-> StopAt, kind |-> "Stop"]
ClientSend(f, uid, at) == [uid |-> uid, at |-> at, kind |-> "Send", flow |-> f]
FirstSends == {ClientSend(Clients[i], i - 1, 0) : i \in 1 .. Len(Clients)}

MainInit ==
  /\ useCompression \in BOOLEAN
  /\ iter = 0
  /\ found = [first |-> 0, second |-> 0, count |-> 0]
  /\ verdict = "none"

(* Mutant of DetInit: Simulator::Stop is not called. *)
DetInitEndless ==
  /\ Start /\ MainInit
  /\ events = FirstSends
  /\ nextUid = Len(Clients) + 1

(* Both trains start at once, the one of the first client first. *)
DetInit ==
  /\ Start /\ MainInit
  /\ events = FirstSends \cup {Stop}
  /\ nextUid = Len(Clients) + 1

Train(e, more, delay) ==
  /\ Offer(e.flow)
  /\ events' = (events \ {e}) \cup SendEvents(1, NextPacket(e.flow))
                 \cup (IF more THEN {ClientSend(e.flow, SendUid(1), now' + delay)} ELSE {})
  /\ nextUid' = SendUid(1) + (IF more THEN 1 ELSE 0)

(* Mutant of More: the packet that is sent is not counted. *)
MoreByOne(e) == stats[e.flow].tx < PacketCount

More(e) == stats[e.flow].tx + 1 < PacketCount

(* Mutant of SendNext: the next packet waits for one interval too many     *)
(* after the first.                                                        *)
SendNextLate(e) ==
  Train(e, More(e), IF stats[e.flow].tx = 0 THEN 2 * Interval ELSE Interval)

(* RequestResponseClient::Send: the packet, then the next event. *)
SendNext(e) == Train(e, More(e), Interval)
-----------------------------------------------------------------------------
(* The statistics, after the run. *)

(* The run ends; nothing that is still pending will happen. *)
Analyse(e) ==
  /\ iter' = 1
  /\ events' = events \ {e}
  /\ UNCHANGED <<byteTime, devVars, wakes, nextUid, offered, stats, arrived, found, verdict>>

Milliseconds(t) == t \div Millisecond

(* Mutant of Spread: the last arrival is taken for the spread. *)
SpreadFromStart(f) == Milliseconds(stats[f].timeLastRx)

Spread(f) == Milliseconds(stats[f].timeLastRx) - Milliseconds(stats[f].timeFirstRx)

(* Mutant of Collect: the second train is never recorded. *)
CollectFirst(f) ==
  found' = [first |-> IF found.first = 0 THEN Spread(f) ELSE found.first,
            second |-> found.second, count |-> found.count + 1]

(* first = 0 stands for "no train yet". *)
Collect(f) ==
  found' = [first |-> IF found.first = 0 THEN Spread(f) ELSE found.first,
            second |-> IF found.first = 0 THEN found.second ELSE Spread(f),
            count |-> found.count + 1]

(* The flow monitor numbers the flows in the order of their first packet,  *)
(* and knows only those that have sent one.                                *)
LookAt(f) ==
  IF stats[f].tx > 0 THEN Collect(f) ELSE UNCHANGED found

Loop ==
  /\ iter \in 1 .. Len(Clients)
  /\ LookAt(Clients[iter])
  /\ iter' = iter + 1
  /\ UNCHANGED <<vars, useCompression, verdict>>

Distance(x, y) == IF x < y THEN y - x ELSE x - y

Judge ==
  /\ iter > Len(Clients) /\ verdict = "none"
  /\ verdict' = IF found.count > 2 THEN "more than two trains sent"
                ELSE IF Distance(found.first, found.second) > Threshold
                THEN "Compression Detected"
                ELSE "Compression Not Detected"
  /\ UNCHANGED <<vars, useCompression, iter, found>>

RunEvent ==
  /\ iter = 0
  /\ \E e \in events \cup wakes :
       /\ IsNext(e)
       /\ now' = e.at
       /\ \/ DeviceEvent(e) /\ UNCHANGED mainVars
          \/ e.kind = "Send" /\ SendNext(e) /\ UNCHANGED mainVars
          \/ e.kind = "Stop" /\ Analyse(e) /\ UNCHANGED useCompression

Step == RunEvent \/ Loop \/ Judge

DetSpec == DetInit /\ [][Step]_detVars

FairDetSpec == DetSpec /\ WF_detVars(Step)
-----------------------------------------------------------------------------
(* The sentinel does no harm: a first train that arrives within one        *)
(* millisecond is overwritten by the second, yet the verdict is the one    *)
(* the two spreads call for.                                               *)
VerdictFollowsSpreads ==
  verdict # "none" /\ Len(Clients) = 2 =>
    (verdict = "Compression Detected" <=>
       Distance(Spread(Clients[1]), Spread(Clients[2])) > Threshold)

ExactSpread(f) == stats[f].timeLastRx - stats[f].timeFirstRx

(* Four times are cut to milliseconds before they are subtracted.  The     *)
(* verdict is still that of the exact spreads, but for a margin of one     *)
(* millisecond below the threshold and two above it.                       *)
VerdictWithinRounding ==
  verdict # "none" /\ Len(Clients) = 2 =>
    LET exact == Distance(ExactSpread(Clients[1]), ExactSpread(Clients[2])) IN
    IF verdict = "Compression Detected"
    THEN exact > (Threshold - 1) * Millisecond
    ELSE exact < (Threshold + 2) * Millisecond

(* The two trains of the program: one packetSize for both, and room in a   *)
(* queue disc for a packet of each.                                        *)
TwoAlike ==
  /\ Len(Clients) = 2 /\ Clients[1] # Clients[2]
  /\ Size[Clients[1]] = Size[Clients[2]]
  /\ DiscLimit >= 2

(* A link can send in one interval what the clients do. *)
LoadFits(h) == TxTime(h, Clients[1]) + TxTime(h, Clients[2]) <= Interval

TimeEnough == PacketCount * Interval + HopCount * (Delay + Interval) < StopAt

(* When every link can carry both trains nothing is lost and each train    *)
(* arrives exactly as spread as it was sent, whatever the rates are: the   *)
(* experiment then measures the pace of its own clients.  As its interval  *)
(* is a whole number of milliseconds no threshold makes it say "detected", *)
(* and with another interval none but 0 does.                              *)
PacedTrainsKeepTheirSpread ==
  verdict # "none" /\ TwoAlike /\ TimeEnough /\ (\A h \in Hop : LoadFits(h)) =>
    /\ \A i \in 1 .. 2 :
         /\ stats[Clients[i]].rx = PacketCount
         /\ ExactSpread(Clients[i]) = (PacketCount - 1) * Interval
    /\ Interval % Millisecond = 0 \/ Threshold > 0 =>
         verdict = "Compression Not Detected"

(* Refinement: the experiment is one way to use the row of links, so that  *)
(* what holds of the row holds in the experiment.  The row sees the events *)
(* of its devices; the clients and the stop are the layers above, which    *)
(* take uids of their own, and no longer act when the simulator stops.     *)
RowEvents == {e \in events : e.kind \in {"TransmitComplete", "Receive"}}

Row == INSTANCE Tandem WITH
  events <- RowEvents,
  OtherUids <- 0 .. Len(Clients) + 1,
  MaxOffers <- Len(Clients) * PacketCount,
  Horizon <- StopAt

ImplementsTandem == Row!Spec

(* Liveness: the run ends with a verdict. *)
VerdictIsReached == <>(verdict # "none")
-----------------------------------------------------------------------------
(* What README.md says of the experiment.                                  *)

=============================================================================
