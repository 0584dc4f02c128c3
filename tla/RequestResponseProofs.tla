----------------------- MODULE RequestResponseProofs -----------------------
(***************************************************************************)
(* For any number of clients, packets and setter calls, and any times of   *)
(* start and stop: no Send fails an assertion, every train is on schedule, *)
(* every packet is what was configured last, and a client that has come to *)
(* its end has sent the packets that were due, and only these.             *)
(***************************************************************************)
EXTENDS RequestResponse, FiniteSetTheorems, TLAPS

(* uids tell events apart, and those of the applications come first. *)
BootUids == 2 * Cardinality(App)

UidInv ==
  /\ nextUid > BootUids
  /\ \A e \in events : 0 < e.uid /\ e.uid < nextUid
  /\ \A e, f \in events : e.uid = f.uid => e = f

(* No two clients remember the same event, and none that is not a Send.    *)
MemoInv ==
  /\ \A c \in Client : m_sendEvent[c] # 0 =>
       m_sendEvent[c] > BootUids /\ m_sendEvent[c] < nextUid
  /\ \A c, d \in Client : c # d /\ m_sendEvent[c] # 0 => m_sendEvent[c] # m_sendEvent[d]

(* The start and the stop of an application are as they were scheduled. *)
BootInv ==
  \A e \in events :
    /\ e.kind = "Start" => e = StartEvent(e.app)
    /\ e.kind = "Stop" => e = StopEvent(e.app) /\ StopTime[e.app] # 0

StartPending(c) == \E e \in events : e.app = c /\ e.kind = "Start"
SendPending(c) == \E e \in events : e.app = c /\ e.kind = "Send"
StopPending(c) == \E e \in events : e.app = c /\ e.kind = "Stop"

(* A pending Send is the one the client remembers, its client has started  *)
(* and has a socket, and it is due at the next instant of the schedule.    *)
SendInv ==
  \A e \in events : e.kind = "Send" =>
    /\ e.app \in Client
    /\ e.uid = m_sendEvent[e.app]
    /\ e.uid > BootUids
    /\ m_socket[e.app] = "open"
    /\ ~StartPending(e.app)
    /\ e.at = StartTime[e.app] + m_sent[e.app] * m_interval[e.app]

TrainInv ==
  \A c \in Client :
    /\ Len(train[c]) = m_sent[c]
    /\ StartPending(c) => m_sent[c] = 0

(* A buffer that is in use has the size and the contents asked for last; a *)
(* client without one was not asked for contents.                          *)
FillInv ==
  \A c \in Client :
    /\ m_size[c] = configured[c].size
    /\ m_dataSize[c] # 0 =>
         /\ m_dataSize[c] = m_size[c]
         /\ m_data[c] = [length |-> m_size[c], content |-> configured[c].content]
    /\ m_dataSize[c] = 0 /\ m_size[c] # 0 => configured[c].content = NoPattern

MaxSent(c) == IF m_count[c] = 0 THEN 1 ELSE m_count[c]
InTime(c, k) == StopTime[c] # 0 => StartTime[c] + k * m_interval[c] < StopTime[c]

(* A client that is not stopped before it starts: what it sent was due; it *)
(* has more to send as long as a Send is pending; and when none is, the    *)
(* next packet would be one too many or too late.                          *)
PhaseInv ==
  \A c \in Client : (StopTime[c] # 0 => StartTime[c] <= StopTime[c]) =>
    /\ m_sent[c] <= MaxSent(c)
    /\ \A k \in Nat : k < m_sent[c] => InTime(c, k)
    /\ StartPending(c) \/ SendPending(c) => (StopTime[c] # 0 => StopPending(c))
    /\ SendPending(c) => m_sent[c] < MaxSent(c)
    /\ ~StartPending(c) /\ ~SendPending(c) =>
         m_sent[c] = MaxSent(c) \/ ~InTime(c, m_sent[c])

IInv ==
  /\ TypeOK /\ Running
  /\ UidInv /\ MemoInv /\ BootInv /\ SendInv /\ TrainInv /\ FillInv /\ PhaseInv
  /\ SendsOnSchedule
-----------------------------------------------------------------------------
LEMMA AppFinite == Cardinality(App) \in Nat
<1>1. IsFiniteSet(Client \cup {server})
  BY AppAssumption, FS_AddElement
<1> QED
  BY <1>1, FS_CardinalityType DEF App

LEMMA AppTypes ==
  /\ Client \subseteq App /\ server \in App /\ server \notin Client
  /\ \A p \in App : /\ Order[p] \in Nat /\ Order[p] >= 1 /\ 2 * Order[p] <= BootUids
                    /\ StartTime[p] \in Nat /\ StopTime[p] \in Nat
  /\ \A c \in Client : m_interval[c] \in Nat /\ m_count[c] \in Nat
  /\ BootUids \in Nat
  BY AppFinite, AppAssumption, OrderAssumption, TimeAssumption, CountAssumption
  DEF App, BootUids

LEMMA BootEventTypes ==
  ASSUME NEW p \in App
  PROVE  /\ StartEvent(p) \in Event /\ StopEvent(p) \in Event
         /\ StartEvent(p).uid \in 1 .. BootUids /\ StopEvent(p).uid \in 1 .. BootUids
         /\ StartEvent(p).uid < StopEvent(p).uid
  BY AppTypes DEF StartEvent, StopEvent, Event

LEMMA BootUidsDistinct ==
  ASSUME NEW p \in App, NEW q \in App
  PROVE  /\ StartEvent(p).uid = StartEvent(q).uid => p = q
         /\ StopEvent(p).uid = StopEvent(q).uid => p = q
         /\ StartEvent(p).uid # StopEvent(q).uid
  BY AppTypes, OrderAssumption DEF StartEvent, StopEvent

(* Later packets of a train are not due earlier. *)
LEMMA Later ==
  ASSUME NEW c \in Client, NEW k \in Nat, NEW n \in Nat, k <= n
  PROVE  /\ StartTime[c] + k * m_interval[c] <= StartTime[c] + n * m_interval[c]
         /\ k * m_interval[c] \in Nat
<1>1. m_interval[c] \in Nat /\ StartTime[c] \in Nat
  BY AppTypes
<1>2. \A i, x, y \in Nat : x <= y => x * i <= y * i /\ x * i \in Nat /\ y * i \in Nat
  BY SMTT(20)
<1>3. k * m_interval[c] <= n * m_interval[c] /\ k * m_interval[c] \in Nat
        /\ n * m_interval[c] \in Nat
  BY <1>1, <1>2
<1> QED
  BY <1>1, <1>3

LEMMA NextDue ==
  ASSUME NEW c \in Client, NEW n \in Nat
  PROVE  /\ StartTime[c] + n * m_interval[c] \in Nat
         /\ (StartTime[c] + n * m_interval[c]) + m_interval[c]
              = StartTime[c] + (n + 1) * m_interval[c]
<1>1. m_interval[c] \in Nat /\ StartTime[c] \in Nat
  BY AppTypes
<1>2. \A i, x \in Nat : x * i \in Nat /\ (x + 1) * i = x * i + i
  BY SMTT(20)
<1> QED
  BY <1>1, <1>2
-----------------------------------------------------------------------------
LEMMA InitEstablishes == Init => IInv
<1> SUFFICES ASSUME Init PROVE IInv
  OBVIOUS
<1>1. TypeOK
  <2>1. events \in SUBSET Event
    BY BootEventTypes DEF Init
  <2>2. m_size \in [Client -> DataSize] /\ m_dataSize \in [Client -> DataSize \cup {0}]
    BY DEF Init
  <2>3. m_data \in [Client -> [length : DataSize \cup {0}, content : Content]]
    BY DEF Init, NoBuffer, Content
  <2>4. configured \in [Client -> [size : DataSize, content : Content]]
    BY DEF Init, Content
  <2>5. /\ m_socket \in [App -> {"null", "open", "closed"}]
        /\ m_sendEvent \in [Client -> Nat] /\ m_sent \in [Client -> Nat]
        /\ now \in Nat /\ nextUid \in Nat /\ abort \in Faults \cup {"none"}
    <3>1. nextUid \in Nat
      BY AppFinite DEF Init
    <3>2. m_socket \in [App -> {"null", "open", "closed"}]
      BY DEF Init
    <3>3. m_sendEvent \in [Client -> Nat] /\ m_sent \in [Client -> Nat]
      BY DEF Init
    <3>4. now \in Nat
      BY DEF Init
    <3>5. abort \in Faults \cup {"none"}
      BY DEF Init
    <3> QED
      BY <3>1, <3>2, <3>3, <3>4, <3>5
  <2>6. /\ network \in SUBSET Packet
        /\ received \in [Client -> SUBSET (Nat \ {0})]
        /\ train \in [Client -> Seq([at : Nat, size : Nat, content : Content])]
        /\ configs \in [Client -> 0 .. MaxConfigs]
    BY CountAssumption DEF Init
  <2>7. \A c \in Client : m_data[c].length = m_dataSize[c]
    BY DEF Init, NoBuffer
  <2> QED
    BY <2>1, <2>2, <2>3, <2>4, <2>5, <2>6, <2>7 DEF TypeOK
<1>2. \A e \in events : \E p \in App :
        e = StartEvent(p) \/ (e = StopEvent(p) /\ StopTime[p] # 0)
  BY DEF Init
<1>3. \A c \in App : StartEvent(c) \in events
                    /\ (StopTime[c] # 0 => StopEvent(c) \in events)
  BY DEF Init
<1>4. UidInv
  <2>1. nextUid > BootUids
    BY AppTypes DEF Init, BootUids
  <2>2. \A e \in events : 0 < e.uid /\ e.uid < nextUid
    BY <1>2, BootEventTypes, AppTypes DEF Init, BootUids
  <2>3. \A e, f \in events : e.uid = f.uid => e = f
    BY <1>2, BootUidsDistinct
  <2> QED
    BY <2>1, <2>2, <2>3 DEF UidInv
<1>5. BootInv
  BY <1>2 DEF BootInv, StartEvent, StopEvent
<1>6. \A e \in events : e.kind # "Send"
  BY <1>2 DEF StartEvent, StopEvent
<1>7. SendInv
  BY <1>6 DEF SendInv
<1>8. TrainInv /\ SendsOnSchedule /\ Running
  BY DEF Init, TrainInv, SendsOnSchedule, Running
<1>9. FillInv /\ MemoInv
  BY DEF Init, FillInv, MemoInv
<1>10. PhaseInv
  <2> SUFFICES ASSUME NEW c \in Client, StopTime[c] # 0 => StartTime[c] <= StopTime[c]
               PROVE  /\ m_sent[c] <= MaxSent(c)
                      /\ \A k \in Nat : k < m_sent[c] => InTime(c, k)
                      /\ StopTime[c] # 0 => StopPending(c)
                      /\ ~SendPending(c) /\ StartPending(c)
    BY DEF PhaseInv
  <2>1. c \in App
    BY DEF App
  <2>2. m_sent[c] = 0
    BY DEF Init
  <2>3. StartPending(c) /\ (StopTime[c] # 0 => StopPending(c))
    BY <2>1, <1>3 DEF StartPending, StopPending, StartEvent, StopEvent
  <2>4. ~SendPending(c)
    BY <1>6 DEF SendPending
  <2> QED
    BY <2>2, <2>3, <2>4, AppTypes DEF MaxSent
<1> QED
  BY <1>1, <1>4, <1>5, <1>7, <1>8, <1>9, <1>10 DEF IInv
-----------------------------------------------------------------------------
(* What the setters and the network leave alone. *)
LEMMA TrainKept ==
  ASSUME IInv,
         UNCHANGED <<m_socket, m_sendEvent, m_sent, events, nextUid, abort, train>>
  PROVE  /\ Running' /\ UidInv' /\ MemoInv' /\ BootInv' /\ SendInv' /\ TrainInv'
         /\ PhaseInv' /\ SendsOnSchedule'
<1>1. Running' /\ UidInv' /\ MemoInv' /\ BootInv' /\ TrainInv' /\ SendsOnSchedule'
  BY DEF IInv, Running, UidInv, MemoInv, BootInv, TrainInv, SendsOnSchedule, StartPending
<1>2. SendInv'
  BY DEF IInv, SendInv, StartPending
<1>3. PhaseInv'
  BY DEF IInv, PhaseInv, StartPending, StopPending, SendPending, InTime, MaxSent
<1> QED
  BY <1>1, <1>2, <1>3

LEMMA SetDataSizeKeeps ==
  ASSUME IInv, NEW c \in Client, NEW size \in DataSize, SetDataSize(c, size)
  PROVE  IInv'
<1>1. UNCHANGED <<m_socket, m_sendEvent, m_sent, events, nextUid, abort, train>>
  BY DEF SetDataSize, Configure, simVars
<1>2. TypeOK'
  <2>1. configs[c] + 1 \in 0 .. MaxConfigs
    BY CountAssumption DEF IInv, TypeOK, SetDataSize, Configure
  <2> QED
    BY <2>1 DEF IInv, TypeOK, SetDataSize, Configure, simVars, netVars, NoBuffer, Content
<1>3. FillInv'
  BY DEF IInv, TypeOK, FillInv, SetDataSize, Configure
<1> QED
  BY <1>1, <1>2, <1>3, TrainKept DEF IInv

LEMMA SetFillKeeps ==
  ASSUME IInv, NEW c \in Client, NEW size \in DataSize, NEW content \in Pattern,
         SetFill(c, size, content)
  PROVE  IInv'
<1>1. UNCHANGED <<m_socket, m_sendEvent, m_sent, events, nextUid, abort, train>>
  BY DEF SetFill, Configure, simVars
<1>2. BufferFor(c, size) = size
  BY DEF IInv, TypeOK, BufferFor
<1>3. \A d \in Client : m_data'[d].length = m_dataSize'[d]
  BY <1>2 DEF IInv, TypeOK, SetFill
<1>4. TypeOK'
  <2>1. configs[c] + 1 \in 0 .. MaxConfigs
    BY CountAssumption DEF IInv, TypeOK, SetFill, Configure
  <2> QED
    BY <1>2, <1>3, <2>1 DEF IInv, TypeOK, SetFill, Configure, simVars, netVars, Content
<1>5. FillInv'
  BY <1>2 DEF IInv, TypeOK, FillInv, SetFill, Configure
<1> QED
  BY <1>1, <1>4, <1>5, TrainKept DEF IInv

LEMMA NetworkKeeps ==
  ASSUME IInv, NEW p \in network, HandleRead(p) \/ Lose(p)
  PROVE  IInv'
<1>1. UNCHANGED <<m_socket, clientVars, simVars, abort, train, configured, configs>>
  BY DEF HandleRead, Lose
<1>2. network' \in SUBSET Packet /\ received' \in [Client -> SUBSET (Nat \ {0})]
  <2>1. p.n \in Nat \ {0} /\ p.from \in Client
    BY DEF IInv, TypeOK, Packet
  <2>2. network' = network \ {p}
    BY DEF HandleRead, Lose
  <2>3. received' = received \/ received' = [received EXCEPT ![p.from] = @ \cup {p.n}]
    BY DEF HandleRead, Lose
  <2>4. network \in SUBSET Packet /\ received \in [Client -> SUBSET (Nat \ {0})]
    BY DEF IInv, TypeOK
  <2>5. network' \in SUBSET Packet
    BY <2>2, <2>4
  <2>6. received' \in [Client -> SUBSET (Nat \ {0})]
    BY <2>1, <2>3, <2>4
  <2> QED
    BY <2>5, <2>6
<1>3. TypeOK'
  BY <1>1, <1>2 DEF IInv, TypeOK, clientVars, simVars
<1>4. FillInv'
  BY <1>1 DEF IInv, FillInv, clientVars
<1> QED
  BY <1>1, <1>3, <1>4, TrainKept DEF IInv, clientVars, simVars
-----------------------------------------------------------------------------
(* The events that are left when some are gone, and when one is added. *)

LEMMA FewerEvents ==
  ASSUME IInv, events' \subseteq events, UNCHANGED <<nextUid, m_sendEvent>>
  PROVE  UidInv' /\ MemoInv' /\ BootInv' /\ events' \in SUBSET Event
  BY DEF IInv, TypeOK, UidInv, MemoInv, BootInv

LEMMA OneMoreEvent ==
  ASSUME IInv, NEW e \in events, NEW c \in Client, NEW delay \in Nat, now' = e.at,
         Schedule(c, delay, events \ {e})
  PROVE  /\ UidInv' /\ MemoInv' /\ BootInv' /\ events' \in SUBSET Event
         /\ nextUid' \in Nat /\ nextUid > BootUids
         /\ m_sendEvent' = [m_sendEvent EXCEPT ![c] = nextUid]
         /\ m_sendEvent' \in [Client -> Nat]
         /\ nextUid \in Nat /\ \A f \in events : f.uid < nextUid
<1> DEFINE new == [uid |-> nextUid, at |-> e.at + delay, kind |-> "Send", app |-> c]
<1>1. /\ events' = (events \ {e}) \cup {new}
      /\ nextUid' = nextUid + 1
      /\ m_sendEvent' = [m_sendEvent EXCEPT ![c] = nextUid]
  BY DEF Schedule
<1>2. /\ events \in SUBSET Event /\ nextUid \in Nat /\ m_sendEvent \in [Client -> Nat]
  BY DEF IInv, TypeOK
<1>3. e.at \in Nat /\ new \in Event
  BY <1>2, AppTypes DEF Event
<1>4. nextUid > BootUids /\ \A f \in events : 0 < f.uid /\ f.uid < nextUid /\ f.uid \in Nat
  BY <1>2 DEF IInv, UidInv, Event
<1>5. new.uid = nextUid /\ new.kind = "Send"
  OBVIOUS
<1> HIDE DEF new
<1>6. UidInv'
  <2>1. BootUids \in Nat /\ nextUid + 1 > BootUids
    BY <1>2, <1>4, AppTypes
  <2>2. \A f \in events' : 0 < f.uid /\ f.uid < nextUid + 1
    BY <1>1, <1>2, <1>4, <1>5, <2>1, AppTypes
  <2>3. ASSUME NEW f \in events', NEW g \in events', f.uid = g.uid PROVE f = g
    <3>1. CASE f = new
      BY <1>1, <1>2, <1>4, <1>5, <2>3, <3>1
    <3>2. CASE g = new
      BY <1>1, <1>2, <1>4, <1>5, <2>3, <3>2
    <3>3. CASE f \in events /\ g \in events
      BY <2>3, <3>3 DEF IInv, UidInv
    <3> QED
      BY <1>1, <3>1, <3>2, <3>3
  <2> QED
    BY <1>1, <2>1, <2>2, <2>3 DEF UidInv, BootUids
<1>7. BootInv'
  BY <1>1, <1>5 DEF IInv, BootInv
<1>8. MemoInv'
  <2>1. BootUids \in Nat
    BY AppTypes
  <2>2. \A d \in Client : m_sendEvent'[d] = IF d = c THEN nextUid ELSE m_sendEvent[d]
    BY <1>1, <1>2
  <2>3. \A d \in Client : m_sendEvent[d] < nextUid /\ m_sendEvent[d] \in Nat
    BY <1>2, <1>4, <2>1 DEF IInv, MemoInv
  <2>4. \A d \in Client : m_sendEvent'[d] # 0 =>
          m_sendEvent'[d] > BootUids /\ m_sendEvent'[d] < nextUid'
    BY <1>1, <1>2, <1>4, <2>1, <2>2, <2>3 DEF IInv, MemoInv
  <2>5. \A a, b \in Client : a # b /\ m_sendEvent'[a] # 0 => m_sendEvent'[a] # m_sendEvent'[b]
    BY <1>2, <2>2, <2>3 DEF IInv, MemoInv
  <2> QED
    BY <2>4, <2>5 DEF MemoInv, BootUids
<1> QED
  BY <1>1, <1>2, <1>3, <1>4, <1>6, <1>7, <1>8

LEMMA EventTypes ==
  ASSUME IInv, NEW e \in events
  PROVE  /\ e \in Event /\ e.at \in Nat /\ e.uid \in Nat /\ e.app \in App
         /\ e.app # server => e.app \in Client
  BY DEF IInv, TypeOK, Event, App
-----------------------------------------------------------------------------
LEMMA ServerKeeps ==
  ASSUME IInv, NEW e \in events, now' = e.at, e.app = server,
         StartServer(e) \/ StopServer(e)
  PROVE  IInv'
<1>1. /\ events' = events \ {e}
      /\ UNCHANGED <<clientVars, nextUid, abort, netVars, train, configured, configs>>
      /\ \E s \in {"open", "closed", m_socket[server]} :
           m_socket' = [m_socket EXCEPT ![server] = s]
  BY DEF StartServer, StopServer
<1>2. /\ m_socket' \in [App -> {"null", "open", "closed"}]
      /\ \A c \in Client : m_socket'[c] = m_socket[c]
  <2>1. m_socket \in [App -> {"null", "open", "closed"}]
    BY DEF IInv, TypeOK
  <2>2. server \in App
    BY AppTypes
  <2>3. PICK s \in {"open", "closed", "null"} : m_socket' = [m_socket EXCEPT ![server] = s]
    BY <1>1, <2>1, <2>2
  <2> QED
    BY <2>1, <2>3, AppTypes
<1>3. UidInv' /\ MemoInv' /\ BootInv' /\ events' \in SUBSET Event
  BY <1>1, FewerEvents DEF clientVars
<1>4. TypeOK'
  BY <1>1, <1>2, <1>3, EventTypes DEF IInv, TypeOK, clientVars, netVars
<1>5. \A c \in Client : /\ StartPending(c)' <=> StartPending(c)
                        /\ StopPending(c)' <=> StopPending(c)
                        /\ SendPending(c)' <=> SendPending(c)
  BY <1>1, AppTypes DEF StartPending, StopPending, SendPending
<1>6. SendInv'
  BY <1>1, <1>2, <1>5 DEF IInv, SendInv, clientVars
<1>7. TrainInv' /\ FillInv' /\ SendsOnSchedule' /\ Running'
  BY <1>1, <1>5 DEF IInv, TrainInv, FillInv, SendsOnSchedule, Running, clientVars
<1>8. PhaseInv'
  BY <1>1, <1>5 DEF IInv, PhaseInv, clientVars, InTime, MaxSent
<1> QED
  BY <1>3, <1>4, <1>6, <1>7, <1>8 DEF IInv

LEMMA StartClientKeeps ==
  ASSUME IInv, NEW e \in events, Earliest(e), now' = e.at, e.kind = "Start",
         e.app # server, StartClient(e)
  PROVE  IInv'
<1> DEFINE c == e.app
<1> DEFINE new == [uid |-> nextUid, at |-> e.at, kind |-> "Send", app |-> c]
<1>1. c \in Client /\ c \in App /\ e.at \in Nat
  BY EventTypes
<1>2. /\ m_socket' = [m_socket EXCEPT ![c] = "open"]
      /\ events' = (events \ {e}) \cup {new}
      /\ Schedule(c, 0, events \ {e})
      /\ UNCHANGED <<m_sent, m_size, m_dataSize, m_data, abort, netVars, train,
                     configured, configs>>
  BY <1>1 DEF StartClient, Schedule
<1>3. /\ UidInv' /\ MemoInv' /\ BootInv' /\ events' \in SUBSET Event
      /\ nextUid' \in Nat /\ nextUid > BootUids
      /\ m_sendEvent' = [m_sendEvent EXCEPT ![c] = nextUid]
      /\ m_sendEvent' \in [Client -> Nat]
  BY <1>1, <1>2, OneMoreEvent
<1>4. m_socket' \in [App -> {"null", "open", "closed"}]
  BY <1>1, <1>2 DEF IInv, TypeOK
<1>5. TypeOK'
  BY <1>1, <1>2, <1>3, <1>4 DEF IInv, TypeOK, netVars
<1>6. e = StartEvent(c) /\ e.at = StartTime[c]
  BY DEF IInv, BootInv, StartEvent
<1>7. StartPending(c) /\ m_sent[c] = 0
  BY <1>1 DEF IInv, TrainInv, StartPending
<1>8. ~SendPending(c)
  BY <1>7 DEF IInv, SendInv, SendPending
<1>9. new.app = c /\ new.kind = "Send" /\ new.at = e.at /\ new.uid = nextUid
  OBVIOUS
<1> HIDE DEF new
<1>10. ~StartPending(c)'
  <2>1. \A f \in events : f.app = c /\ f.kind = "Start" => f = e
    BY <1>6 DEF IInv, BootInv
  <2> QED
    BY <1>2, <1>9, <2>1 DEF StartPending
<1>11. ASSUME NEW d \in Client
       PROVE  /\ d # c => (StartPending(d)' <=> StartPending(d))
              /\ d # c => (SendPending(d)' <=> SendPending(d))
              /\ StopPending(d)' <=> StopPending(d)
  BY <1>2, <1>9 DEF StartPending, StopPending, SendPending
<1>12. SendPending(c)'
  BY <1>2, <1>9 DEF SendPending
<1>13. SendInv'
  <2> SUFFICES ASSUME NEW f \in events', f.kind = "Send"
               PROVE  /\ f.app \in Client
                      /\ f.uid = m_sendEvent'[f.app]
                      /\ f.uid > BootUids
                      /\ m_socket'[f.app] = "open"
                      /\ ~StartPending(f.app)'
                      /\ f.at = StartTime[f.app] + m_sent'[f.app] * m_interval[f.app]
    BY DEF SendInv, BootUids
  <2>1. CASE f = new
    <3>1. m_sendEvent'[c] = nextUid /\ m_socket'[c] = "open"
      BY <1>1, <1>2, <1>3 DEF IInv, TypeOK
    <3>2. StartTime[c] = StartTime[c] + 0 * m_interval[c]
      BY <1>1, AppTypes
    <3> QED
      BY <1>1, <1>2, <1>3, <1>6, <1>7, <1>9, <1>10, <2>1, <3>1, <3>2
  <2>2. CASE f \in events /\ f.app # c
    <3>1. f.app \in Client /\ f.app \in App
      BY <2>2, AppTypes DEF IInv, SendInv
    <3>2. m_sendEvent'[f.app] = m_sendEvent[f.app] /\ m_socket'[f.app] = m_socket[f.app]
      BY <1>1, <1>2, <1>3, <2>2, <3>1 DEF IInv, TypeOK
    <3> QED
      BY <1>2, <1>11, <2>2, <3>1, <3>2 DEF IInv, SendInv
  <2>3. f = new \/ (f \in events /\ f.app # c)
    BY <1>2, <1>8 DEF SendPending
  <2> QED
    BY <2>1, <2>2, <2>3
<1>14. TrainInv'
  <2> SUFFICES ASSUME NEW d \in Client
               PROVE  Len(train'[d]) = m_sent'[d] /\ (StartPending(d)' => m_sent'[d] = 0)
    BY DEF TrainInv
  <2>1. UNCHANGED <<train, m_sent>>
    BY <1>2
  <2>2. StartPending(d)' => StartPending(d)
    BY <1>10, <1>11
  <2> QED
    BY <2>1, <2>2 DEF IInv, TrainInv
<1>15. FillInv' /\ SendsOnSchedule' /\ Running'
  BY <1>2 DEF IInv, FillInv, SendsOnSchedule, Running
<1>16. PhaseInv'
  <2> SUFFICES ASSUME NEW d \in Client, StopTime[d] # 0 => StartTime[d] <= StopTime[d]
               PROVE  /\ m_sent'[d] <= MaxSent(d)
                      /\ \A k \in Nat : k < m_sent'[d] => InTime(d, k)
                      /\ StartPending(d)' \/ SendPending(d)' =>
                           (StopTime[d] # 0 => StopPending(d)')
                      /\ SendPending(d)' => m_sent'[d] < MaxSent(d)
                      /\ ~StartPending(d)' /\ ~SendPending(d)' =>
                           m_sent'[d] = MaxSent(d) \/ ~InTime(d, m_sent'[d])
    BY DEF PhaseInv, MaxSent, InTime
  <2>1. CASE d # c
    BY <1>2, <1>11, <2>1 DEF IInv, PhaseInv
  <2>2. CASE d = c
    <3>1. 0 < MaxSent(c)
      BY <1>1, AppTypes DEF MaxSent
    <3> QED
      BY <1>2, <1>7, <1>11, <1>12, <2>2, <3>1 DEF IInv, PhaseInv
  <2> QED
    BY <2>1, <2>2
<1> QED
  BY <1>3, <1>5, <1>13, <1>14, <1>15, <1>16 DEF IInv

(* A client that is stopped after its start gives up what was not due. *)
LEMMA StopClientKeeps ==
  ASSUME IInv, NEW e \in events, Earliest(e), now' = e.at, e.kind = "Stop",
         e.app # server, StopClient(e)
  PROVE  IInv'
<1> DEFINE c == e.app
<1>1. c \in Client /\ c \in App /\ e.at \in Nat
  BY EventTypes
<1>2. /\ m_socket' = [m_socket EXCEPT ![c] = "null"]
      /\ events' = {f \in events \ {e} : f.uid # m_sendEvent[c]}
      /\ UNCHANGED <<clientVars, nextUid, abort, netVars, train, configured, configs>>
  BY DEF StopClient
<1>3. UidInv' /\ MemoInv' /\ BootInv' /\ events' \in SUBSET Event
  BY <1>2, FewerEvents DEF clientVars
<1>4. m_socket' \in [App -> {"null", "open", "closed"}]
  BY <1>1, <1>2 DEF IInv, TypeOK
<1>5. TypeOK'
  BY <1>1, <1>2, <1>3, <1>4 DEF IInv, TypeOK, clientVars, netVars
<1>6. e = StopEvent(c) /\ e.at = StopTime[c] /\ StopTime[c] # 0
  BY DEF IInv, BootInv, StopEvent
<1>7. ~SendPending(c)'
  BY <1>2 DEF IInv, SendInv, SendPending
<1>8. ASSUME NEW f \in events, f.uid = m_sendEvent[c]
      PROVE  f.kind = "Send" /\ f.app = c
  <2>1. /\ f.uid > 0 /\ f.kind \in {"Start", "Stop", "Send"} /\ f.app \in App
        /\ f.uid \in Nat /\ BootUids \in Nat
    BY EventTypes, AppTypes DEF IInv, UidInv, Event
  <2>2. f.uid > BootUids
    BY <1>1, <1>8, <2>1 DEF IInv, MemoInv
  <2>3. f.kind = "Send"
    BY <2>1, <2>2, BootEventTypes DEF IInv, BootInv
  <2> QED
    BY <1>1, <1>8, <2>1, <2>3 DEF IInv, SendInv, MemoInv
<1>9. ASSUME NEW d \in Client
      PROVE  StartPending(d)' => StartPending(d)
  BY <1>2 DEF StartPending
<1>10. SendInv'
  <2> SUFFICES ASSUME NEW f \in events', f.kind = "Send"
               PROVE  /\ f.app \in Client
                      /\ f.uid = m_sendEvent'[f.app]
                      /\ f.uid > BootUids
                      /\ m_socket'[f.app] = "open"
                      /\ ~StartPending(f.app)'
                      /\ f.at = StartTime[f.app] + m_sent'[f.app] * m_interval[f.app]
    BY DEF SendInv, BootUids
  <2>1. f \in events /\ f.app # c /\ f.app \in Client /\ f.app \in App
    BY <1>2, <1>7, AppTypes DEF IInv, SendInv, SendPending
  <2>2. m_socket'[f.app] = m_socket[f.app]
    BY <1>1, <1>2, <2>1 DEF IInv, TypeOK
  <2> QED
    BY <1>2, <1>9, <2>1, <2>2 DEF IInv, SendInv, clientVars
<1>11. TrainInv'
  BY <1>2, <1>9 DEF IInv, TrainInv, clientVars
<1>12. FillInv' /\ SendsOnSchedule' /\ Running'
  BY <1>2 DEF IInv, FillInv, SendsOnSchedule, Running, clientVars
<1>13. ASSUME NEW d \in Client, d # c
       PROVE  /\ StartPending(d)' <=> StartPending(d)
              /\ StopPending(d)' <=> StopPending(d)
              /\ SendPending(d)' <=> SendPending(d)
  BY <1>2, <1>8, <1>13 DEF StartPending, StopPending, SendPending
<1>14. StartTime[c] <= StopTime[c] => ~StartPending(c)
  <2> SUFFICES ASSUME StartTime[c] <= StopTime[c], NEW f \in events,
                      f.app = c, f.kind = "Start"
               PROVE  FALSE
    BY DEF StartPending
  <2>1. f = StartEvent(c) /\ f.at = StartTime[c]
    BY DEF IInv, BootInv, StartEvent
  <2>2. f.uid < e.uid
    BY <1>1, <1>6, <2>1, BootEventTypes
  <2> QED
    BY <1>1, <1>6, <2>1, <2>2, AppTypes, EventTypes DEF Earliest
<1>15. SendPending(c) => ~InTime(c, m_sent[c])
  <2> SUFFICES ASSUME NEW f \in events, f.app = c, f.kind = "Send"
               PROVE  ~InTime(c, m_sent[c])
    BY DEF SendPending
  <2>1. f.at = StartTime[c] + m_sent[c] * m_interval[c]
    BY DEF IInv, SendInv
  <2>2. f.at >= e.at
    BY EventTypes DEF Earliest
  <2> QED
    BY <1>1, <1>6, <2>1, <2>2, EventTypes DEF InTime
<1>16. PhaseInv'
  <2> SUFFICES ASSUME NEW d \in Client, StopTime[d] # 0 => StartTime[d] <= StopTime[d]
               PROVE  /\ m_sent'[d] <= MaxSent(d)
                      /\ \A k \in Nat : k < m_sent'[d] => InTime(d, k)
                      /\ StartPending(d)' \/ SendPending(d)' =>
                           (StopTime[d] # 0 => StopPending(d)')
                      /\ SendPending(d)' => m_sent'[d] < MaxSent(d)
                      /\ ~StartPending(d)' /\ ~SendPending(d)' =>
                           m_sent'[d] = MaxSent(d) \/ ~InTime(d, m_sent'[d])
    BY DEF PhaseInv, MaxSent, InTime
  <2>1. m_sent' = m_sent
    BY <1>2 DEF clientVars
  <2>2. CASE d # c
    BY <1>13, <2>1, <2>2 DEF IInv, PhaseInv
  <2>3. CASE d = c
    <3>1. ~StartPending(c)' /\ ~StartPending(c)
      BY <1>1, <1>6, <1>9, <1>14, <2>3
    <3> QED
      BY <1>7, <1>15, <2>1, <2>3, <3>1 DEF IInv, PhaseInv
  <2> QED
    BY <2>2, <2>3
<1> QED
  BY <1>3, <1>5, <1>10, <1>11, <1>12, <1>16 DEF IInv
-----------------------------------------------------------------------------
LEMMA AppendType ==
  ASSUME NEW T, NEW s \in Seq(T), NEW x \in T
  PROVE  Append(s, x) \in Seq(T)
  OBVIOUS

LEMMA BufferUsed ==
  ASSUME IInv, NEW c \in Client
  PROVE  /\ m_data[c].length \in Nat /\ m_dataSize[c] \in Nat /\ m_size[c] \in Nat
         /\ m_data[c].content \in Content
         /\ m_dataSize[c] # 0 => /\ m_data[c].length = m_dataSize[c]
                                 /\ m_data[c].content = configured[c].content
<1>1. /\ m_data[c] \in [length : DataSize \cup {0}, content : Content]
      /\ m_dataSize[c] \in DataSize \cup {0} /\ m_size[c] \in DataSize
  BY DEF IInv, TypeOK
<1>2. ASSUME m_dataSize[c] # 0
      PROVE  m_data[c].length = m_dataSize[c] /\ m_data[c].content = configured[c].content
  <2>1. /\ m_data[c] = [length |-> m_size[c], content |-> configured[c].content]
        /\ m_dataSize[c] = m_size[c]
    BY <1>2 DEF IInv, FillInv
  <2>2. m_data[c].length = m_size[c] /\ m_data[c].content = configured[c].content
    BY <2>1
  <2> QED
    BY <2>1, <2>2
<1>3. m_data[c].length \in DataSize \cup {0} /\ m_data[c].content \in Content
  BY <1>1
<1>4. DataSize \cup {0} \subseteq Nat
  BY DataAssumption
<1> QED
  BY <1>1, <1>2, <1>3, <1>4

LEMMA NoFault ==
  ASSUME IInv, NEW e \in events, e.kind = "Send"
  PROVE  SendFault(e) = "none" /\ e.app \in Client
<1> DEFINE c == e.app
<1>1. c \in Client /\ m_socket[c] = "open" /\ e.uid = m_sendEvent[c]
  BY DEF IInv, SendInv
<1>2. ~ \E f \in events \ {e} : f.uid = m_sendEvent[c]
  BY <1>1 DEF IInv, UidInv
<1>3. m_dataSize[c] # 0 => m_dataSize[c] = m_size[c]
  BY <1>1 DEF IInv, FillInv
<1>4. ~(m_dataSize[c] > m_data[c].length)
  BY <1>1, BufferUsed
<1> QED
  BY <1>1, <1>2, <1>3, <1>4 DEF SendFault

(* What Send does, once it is known not to fail. *)
LEMMA SendStep ==
  ASSUME IInv, NEW e \in events, e.kind = "Send", Send(e)
  PROVE  LET c == e.app IN
         /\ network' = network \cup {PacketOf(c)}
         /\ m_sent' = [m_sent EXCEPT ![c] = @ + 1]
         /\ train' = [train EXCEPT ![c] =
                        Append(@, [at |-> now', size |-> PacketOf(c).size,
                                   content |-> PacketOf(c).content])]
         /\ \/ MoreToSend(c) /\ Schedule(c, m_interval[c], events \ {e})
            \/ ~MoreToSend(c) /\ events' = events \ {e} /\ UNCHANGED <<m_sendEvent, nextUid>>
         /\ UNCHANGED <<m_socket, m_size, m_dataSize, m_data, abort, received,
                        configured, configs>>
  BY NoFault DEF Send

LEMMA PacketType ==
  ASSUME IInv, NEW c \in Client
  PROVE  /\ PacketOf(c) \in Packet
         /\ PacketOf(c).size = configured[c].size
         /\ PacketOf(c).size # 0 => PacketOf(c).content = configured[c].content
         /\ PacketOf(c).size \in Nat /\ PacketOf(c).content \in Content
<1>1. m_sent[c] \in Nat /\ m_size[c] \in Nat /\ m_data[c].content \in Content
  BY BufferUsed DEF IInv, TypeOK
<1>2. NoPattern \in Content
  BY DEF Content
<1>3. PacketOf(c) \in Packet
  BY <1>1, <1>2 DEF PacketOf, Packet
<1>4. m_dataSize[c] # 0 => m_data[c].content = configured[c].content
  BY BufferUsed
<1>5. /\ m_size[c] = configured[c].size
      /\ m_dataSize[c] = 0 /\ m_size[c] # 0 => configured[c].content = NoPattern
  BY DEF IInv, FillInv
<1> QED
  BY <1>1, <1>2, <1>3, <1>4, <1>5 DEF PacketOf

LEMMA SendKeeps ==
  ASSUME IInv, NEW e \in events, Earliest(e), now' = e.at, e.kind = "Send", Send(e)
  PROVE  IInv'
<1> DEFINE c == e.app
<1> DEFINE n == m_sent[c]
<1> DEFINE new == [uid |-> nextUid, at |-> e.at + m_interval[c], kind |-> "Send", app |-> c]
<1> DEFINE sent == [at |-> e.at, size |-> PacketOf(c).size, content |-> PacketOf(c).content]
<1>1. /\ c \in Client /\ c \in App /\ e.at \in Nat /\ e.uid \in Nat
      /\ n \in Nat /\ m_interval[c] \in Nat
      /\ e.at = StartTime[c] + n * m_interval[c]
      /\ e.uid = m_sendEvent[c] /\ e.uid > BootUids
      /\ ~StartPending(c)
  BY NoFault, EventTypes, AppTypes DEF IInv, TypeOK, SendInv
<1>2. /\ network' = network \cup {PacketOf(c)}
      /\ m_sent' = [m_sent EXCEPT ![c] = n + 1]
      /\ train' = [train EXCEPT ![c] = Append(@, sent)]
      /\ UNCHANGED <<m_socket, m_size, m_dataSize, m_data, abort, received,
                     configured, configs>>
  BY SendStep
<1>3. \/ MoreToSend(c) /\ Schedule(c, m_interval[c], events \ {e})
      \/ ~MoreToSend(c) /\ events' = events \ {e} /\ UNCHANGED <<m_sendEvent, nextUid>>
  BY SendStep
<1>4. \/ MoreToSend(c) /\ events' = (events \ {e}) \cup {new}
      \/ ~MoreToSend(c) /\ events' = events \ {e}
  BY <1>3 DEF Schedule
<1>5. /\ UidInv' /\ MemoInv' /\ BootInv' /\ events' \in SUBSET Event
      /\ nextUid' \in Nat /\ m_sendEvent' \in [Client -> Nat]
  <2>1. CASE Schedule(c, m_interval[c], events \ {e})
    BY <1>1, <2>1, OneMoreEvent
  <2>2. CASE events' = events \ {e} /\ UNCHANGED <<m_sendEvent, nextUid>>
    BY <2>2, FewerEvents DEF IInv, TypeOK
  <2> QED
    BY <1>3, <2>1, <2>2
<1>6. sent \in [at : Nat, size : Nat, content : Content]
  BY <1>1, PacketType
<1>7. /\ m_sent'[c] = n + 1 /\ m_sent' \in [Client -> Nat]
      /\ \A d \in Client : d # c => m_sent'[d] = m_sent[d] /\ train'[d] = train[d]
      /\ train'[c] = Append(train[c], sent)
      /\ train' \in [Client -> Seq([at : Nat, size : Nat, content : Content])]
  <2>1. /\ m_sent \in [Client -> Nat]
        /\ train \in [Client -> Seq([at : Nat, size : Nat, content : Content])]
    BY DEF IInv, TypeOK
  <2>2. /\ m_sent'[c] = n + 1 /\ m_sent' \in [Client -> Nat]
        /\ \A d \in Client : d # c => m_sent'[d] = m_sent[d] /\ train'[d] = train[d]
        /\ train'[c] = Append(train[c], sent)
    BY <1>1, <1>2, <2>1
  <2>3. Append(train[c], sent) \in Seq([at : Nat, size : Nat, content : Content])
    BY <1>1, <1>6, <2>1, AppendType
  <2>4. train' \in [Client -> Seq([at : Nat, size : Nat, content : Content])]
    BY <1>1, <1>2, <2>1, <2>3
  <2> QED
    BY <2>2, <2>4
<1>8. TypeOK'
  <2>1. network' \in SUBSET Packet
    BY <1>1, <1>2, PacketType DEF IInv, TypeOK
  <2>2. now' \in Nat
    BY <1>1
  <2> QED
    BY <1>2, <1>5, <1>7, <2>1, <2>2 DEF IInv, TypeOK
<1>9. new.uid = nextUid /\ new.at = e.at + m_interval[c] /\ new.kind = "Send" /\ new.app = c
  OBVIOUS
<1> HIDE DEF new
<1>10. ASSUME NEW d \in Client
       PROVE  /\ StartPending(d)' <=> StartPending(d)
              /\ StopPending(d)' <=> StopPending(d)
              /\ d # c => (SendPending(d)' <=> SendPending(d))
  BY <1>4, <1>9 DEF StartPending, StopPending, SendPending
<1>11. \A f \in events : f.kind = "Send" /\ f.app = c => f = e
  BY <1>1 DEF IInv, UidInv, SendInv
<1>12. SendPending(c)' <=> MoreToSend(c)
  BY <1>4, <1>9, <1>11 DEF SendPending
<1>13. SendInv'
  <2> SUFFICES ASSUME NEW f \in events', f.kind = "Send"
               PROVE  /\ f.app \in Client
                      /\ f.uid = m_sendEvent'[f.app]
                      /\ f.uid > BootUids
                      /\ m_socket'[f.app] = "open"
                      /\ ~StartPending(f.app)'
                      /\ f.at = StartTime[f.app] + m_sent'[f.app] * m_interval[f.app]
    BY DEF SendInv, BootUids
  <2>1. CASE MoreToSend(c) /\ f = new
    <3>1. m_sendEvent' = [m_sendEvent EXCEPT ![c] = nextUid] /\ nextUid > BootUids
      BY <1>1, <1>3, <2>1, OneMoreEvent
    <3>2. m_sendEvent'[c] = nextUid /\ m_socket'[c] = "open"
      BY <1>1, <1>2, <3>1 DEF IInv, TypeOK, SendInv
    <3>3. e.at + m_interval[c] = StartTime[c] + (n + 1) * m_interval[c]
      BY <1>1, NextDue
    <3> QED
      BY <1>1, <1>7, <1>9, <1>10, <2>1, <3>1, <3>2, <3>3
  <2>2. CASE f \in events /\ f.app # c
    <3>1. f.app \in Client
      BY <2>2 DEF IInv, SendInv
    <3>2. m_sendEvent'[f.app] = m_sendEvent[f.app]
      <4>1. CASE Schedule(c, m_interval[c], events \ {e})
        BY <1>1, <2>2, <3>1, <4>1 DEF IInv, TypeOK, Schedule
      <4>2. CASE UNCHANGED m_sendEvent
        BY <4>2
      <4> QED
        BY <1>3, <4>1, <4>2
    <3> QED
      BY <1>2, <1>7, <1>10, <2>2, <3>1, <3>2 DEF IInv, SendInv
  <2>3. (MoreToSend(c) /\ f = new) \/ (f \in events /\ f.app # c)
    BY <1>4, <1>11
  <2> QED
    BY <2>1, <2>2, <2>3
<1>14. TrainInv'
  <2> SUFFICES ASSUME NEW d \in Client
               PROVE  Len(train'[d]) = m_sent'[d] /\ (StartPending(d)' => m_sent'[d] = 0)
    BY DEF TrainInv
  <2>1. CASE d = c
    <3>1. Len(train[c]) = n
      BY <1>1 DEF IInv, TrainInv
    <3>2. Len(Append(train[c], sent)) = n + 1
      BY <1>1, <1>6, <3>1 DEF IInv, TypeOK
    <3> QED
      BY <1>1, <1>7, <1>10, <2>1, <3>2
  <2>2. CASE d # c
    BY <1>7, <1>10, <2>2 DEF IInv, TrainInv
  <2> QED
    BY <2>1, <2>2
<1>15. SendsOnSchedule'
  <2> SUFFICES ASSUME NEW d \in Client, NEW k \in 1 .. Len(train'[d])
               PROVE  train'[d][k].at = StartTime[d] + (k - 1) * m_interval[d]
    BY DEF SendsOnSchedule
  <2>1. CASE d # c
    BY <1>7, <2>1 DEF IInv, SendsOnSchedule
  <2>2. CASE d = c
    <3>1. /\ Len(train[c]) = n
          /\ train[c] \in Seq([at : Nat, size : Nat, content : Content])
      BY <1>1 DEF IInv, TrainInv, TypeOK
    <3>2. k \in 1 .. n + 1
      BY <1>6, <1>7, <2>2, <3>1
    <3>3. CASE k = n + 1
      <4>1. train'[c][k] = sent
        BY SMTT(40), <1>1, <1>6, <1>7, <3>1, <3>3
      <4>2. k - 1 = n /\ sent.at = e.at
        BY <1>1, <3>3
      <4> QED
        BY <1>1, <2>2, <4>1, <4>2
    <3>4. CASE k \in 1 .. n
      <4>1. train'[c][k] = train[c][k]
        BY SMTT(40), <1>1, <1>6, <1>7, <3>1, <3>4
      <4> QED
        BY <1>1, <2>2, <3>1, <3>4, <4>1 DEF IInv, SendsOnSchedule
    <3> QED
      BY <1>1, <3>2, <3>3, <3>4
  <2> QED
    BY <2>1, <2>2
<1>16. FillInv' /\ Running'
  BY <1>2 DEF IInv, FillInv, Running
<1>17. SendPending(c)
  BY DEF SendPending
<1>18. StopPending(c) => InTime(c, n)
  <2> SUFFICES ASSUME NEW f \in events, f.app = c, f.kind = "Stop"
               PROVE  StartTime[c] + n * m_interval[c] < StopTime[c]
    BY DEF StopPending, InTime
  <2>1. f = StopEvent(c) /\ f.at = StopTime[c] /\ f.uid < e.uid /\ f.uid \in Nat
    BY <1>1, BootEventTypes, AppTypes DEF IInv, BootInv, StopEvent
  <2> QED
    BY <1>1, <2>1, EventTypes, AppTypes DEF Earliest
<1>19. PhaseInv'
  <2> SUFFICES ASSUME NEW d \in Client, StopTime[d] # 0 => StartTime[d] <= StopTime[d]
               PROVE  /\ m_sent'[d] <= MaxSent(d)
                      /\ \A k \in Nat : k < m_sent'[d] => InTime(d, k)
                      /\ StartPending(d)' \/ SendPending(d)' =>
                           (StopTime[d] # 0 => StopPending(d)')
                      /\ SendPending(d)' => m_sent'[d] < MaxSent(d)
                      /\ ~StartPending(d)' /\ ~SendPending(d)' =>
                           m_sent'[d] = MaxSent(d) \/ ~InTime(d, m_sent'[d])
    BY DEF PhaseInv, MaxSent, InTime
  <2>1. CASE d # c
    BY <1>7, <1>10, <2>1 DEF IInv, PhaseInv
  <2>2. CASE d = c
    <3>1. /\ n < MaxSent(c)
          /\ \A k \in Nat : k < n => InTime(c, k)
          /\ StopTime[c] # 0 => StopPending(c)
      BY <1>1, <1>17, <2>2 DEF IInv, PhaseInv
    <3>2. InTime(c, n)
      BY <1>18, <3>1 DEF InTime
    <3>3. m_count[c] \in Nat /\ MaxSent(c) \in Nat
      BY <1>1, AppTypes DEF MaxSent
    <3>4. /\ MoreToSend(c) => n + 1 < MaxSent(c)
          /\ ~MoreToSend(c) => n + 1 = MaxSent(c)
      BY <1>1, <3>1, <3>3 DEF MoreToSend, MaxSent
    <3>5. \A k \in Nat : k < n + 1 => InTime(c, k)
      BY <1>1, <3>1, <3>2
    <3>6. n + 1 <= MaxSent(c)
      BY <1>1, <3>1, <3>3
    <3> QED
      BY <1>7, <1>10, <1>12, <2>2, <3>1, <3>4, <3>5, <3>6
  <2> QED
    BY <2>1, <2>2
<1> QED
  BY <1>5, <1>8, <1>13, <1>14, <1>15, <1>16, <1>19 DEF IInv
-----------------------------------------------------------------------------
LEMMA StutterKeeps ==
  ASSUME IInv, UNCHANGED vars
  PROVE  IInv'
<1>1. TypeOK' /\ FillInv'
  BY DEF IInv, TypeOK, FillInv, vars, clientVars, simVars, netVars
<1> QED
  BY <1>1, TrainKept DEF IInv, vars, clientVars, simVars, netVars

LEMMA NextKeeps ==
  ASSUME IInv, [Next]_vars
  PROVE  IInv'
<1>1. ASSUME NEW e \in events, Run(e) PROVE IInv'
  <2>1. Earliest(e) /\ now' = e.at
    BY <1>1 DEF Run
  <2>2. CASE e.kind = "Start" /\ e.app # server /\ StartClient(e)
    BY <2>1, <2>2, StartClientKeeps
  <2>3. CASE e.app = server /\ (StartServer(e) \/ StopServer(e))
    BY <2>1, <2>3, ServerKeeps
  <2>4. CASE e.kind = "Stop" /\ e.app # server /\ StopClient(e)
    BY <2>1, <2>4, StopClientKeeps
  <2>5. CASE e.kind = "Send" /\ Send(e)
    BY <2>1, <2>5, SendKeeps
  <2> QED
    BY <1>1, <2>2, <2>3, <2>4, <2>5 DEF Run
<1>2. CASE \E p \in network : HandleRead(p) \/ Lose(p)
  BY <1>2, NetworkKeeps
<1>3. CASE \E c \in Client, size \in DataSize : SetDataSize(c, size)
  BY <1>3, SetDataSizeKeeps
<1>4. CASE \E c \in Client, size \in DataSize, content \in Pattern : SetFill(c, size, content)
  BY <1>4, SetFillKeeps
<1>5. CASE UNCHANGED vars
  BY <1>5, StutterKeeps
<1> QED
  BY <1>1, <1>2, <1>3, <1>4, <1>5 DEF Next

LEMMA Invariance == Spec => []IInv
<1>1. Init => IInv
  BY InitEstablishes
<1>2. IInv /\ [Next]_vars => IInv'
  BY NextKeeps
<1> QED
  BY <1>1, <1>2, PTL DEF Spec

THEOREM TypeCorrect == Spec => []TypeOK
<1>1. IInv => TypeOK
  BY DEF IInv
<1> QED
  BY <1>1, Invariance, PTL

(* No Send fails an assertion, uses a buffer it does not have or a socket  *)
(* that was given up, in whatever order clients are started, stopped and   *)
(* configured.                                                             *)
THEOREM SendsCorrect == Spec => []SendNeverFails
<1>1. IInv => SendNeverFails
  BY DEF IInv, SendNeverFails
<1> QED
  BY <1>1, Invariance, PTL

(* Trains of any length keep their schedule exactly. *)
THEOREM ScheduleCorrect == Spec => []SendsOnSchedule
<1>1. IInv => SendsOnSchedule
  BY DEF IInv
<1> QED
  BY <1>1, Invariance, PTL

(* A step that lengthens a train sends the packet that was configured. *)
LEMMA SentAsConfigured ==
  ASSUME IInv, [Next]_vars, NEW c \in Client, train'[c] # train[c]
  PROVE  LET sent == train'[c][Len(train'[c])] IN
         /\ sent.size = configured[c].size
         /\ sent.size # 0 => sent.content = configured[c].content
<1>1. PICK e \in events : e.kind = "Send" /\ Send(e)
  <2>1. train' # train
    OBVIOUS
  <2>2. \/ UNCHANGED vars
        \/ \E p \in network : HandleRead(p) \/ Lose(p)
        \/ \E d \in Client, size \in DataSize : SetDataSize(d, size)
        \/ \E d \in Client, size \in DataSize, content \in Pattern : SetFill(d, size, content)
        => train' = train
    BY DEF vars, HandleRead, Lose, SetDataSize, SetFill, Configure
  <2>3. PICK e \in events : Run(e)
    BY <2>1, <2>2 DEF Next
  <2>4. StartClient(e) \/ StartServer(e) \/ StopClient(e) \/ StopServer(e) => train' = train
    BY DEF StartClient, StartServer, StopClient, StopServer
  <2> QED
    BY <2>1, <2>3, <2>4 DEF Run
<1> DEFINE sent(d) == [at |-> now', size |-> PacketOf(d).size, content |-> PacketOf(d).content]
<1>2. e.app \in Client /\ train' = [train EXCEPT ![e.app] = Append(@, sent(e.app))]
  BY <1>1, NoFault, SendStep
<1>3. e.app = c /\ train'[c] = Append(train[c], sent(c))
  BY <1>2 DEF IInv, TypeOK
<1>4. train[c] \in Seq([at : Nat, size : Nat, content : Content])
  BY DEF IInv, TypeOK
<1>5. train'[c][Len(train'[c])] = sent(c)
  <2>1. ASSUME NEW T, NEW s \in Seq(T), NEW x PROVE Append(s, x)[Len(Append(s, x))] = x
    BY <2>1
  <2> HIDE DEF sent
  <2> QED
    BY <1>3, <1>4, <2>1
<1> QED
  BY <1>5, PacketType

(* Each packet has the size and the contents that were asked for last.     *)
THEOREM ContentsCorrect == Spec => SendsWhatIsConfigured
<1>1. IInv /\ [Next]_vars =>
        [\A c \in Client : train'[c] # train[c] =>
           LET sent == train'[c][Len(train'[c])] IN
           /\ sent.size = configured[c].size
           /\ sent.size # 0 => sent.content = configured[c].content]_vars
  BY SentAsConfigured
<1> QED
  BY <1>1, Invariance, PTL DEF Spec, SendsWhatIsConfigured

(* A client at its end: what is due is what it sent. *)
LEMMA DueAtTheEnd ==
  ASSUME IInv, NEW c \in Client, StopTime[c] # 0 => StartTime[c] <= StopTime[c],
         \A e \in events : e.app # c
  PROVE  m_sent[c] = Cardinality(Due(c))
<1> DEFINE n == m_sent[c]
<1>1. n \in Nat /\ m_count[c] \in Nat /\ MaxSent(c) \in Nat \ {0}
  BY AppTypes DEF IInv, TypeOK, MaxSent
<1>2. /\ n <= MaxSent(c)
      /\ \A k \in Nat : k < n => InTime(c, k)
      /\ n = MaxSent(c) \/ ~InTime(c, n)
  BY DEF IInv, PhaseInv, StartPending, SendPending
<1>3. Due(c) = {k \in 0 .. MaxSent(c) - 1 : InTime(c, k)}
  BY <1>1 DEF Due, MaxSent, InTime
<1>4. ASSUME NEW k \in Nat, n <= k, ~InTime(c, n) PROVE ~InTime(c, k)
  <2>1. StartTime[c] + n * m_interval[c] <= StartTime[c] + k * m_interval[c]
    BY <1>1, <1>4, Later
  <2>2. /\ StartTime[c] + n * m_interval[c] \in Nat
        /\ StartTime[c] + k * m_interval[c] \in Nat
        /\ StopTime[c] \in Nat
    BY <1>1, NextDue, AppTypes
  <2> QED
    BY <1>4, <2>1, <2>2 DEF InTime
<1>5. Due(c) = 0 .. n - 1
  <2>1. \A k \in 0 .. n - 1 : k \in Due(c)
    BY <1>1, <1>2, <1>3
  <2>2. ASSUME NEW k \in Due(c) PROVE k \in 0 .. n - 1
    <3>1. k \in Nat /\ k <= MaxSent(c) - 1 /\ InTime(c, k)
      BY <1>1, <1>3
    <3>2. k < n
      BY <1>1, <1>2, <1>4, <3>1
    <3> QED
      BY <1>1, <3>1, <3>2
  <2> QED
    BY <2>1, <2>2
<1>6. Cardinality(0 .. n - 1) = n
  <2> DEFINE m == n - 1
  <2>1. m \in Int /\ 0 \in Int
    BY <1>1
  <2> HIDE DEF m
  <2>2. Cardinality(0 .. m) = IF 0 > m THEN 0 ELSE m - 0 + 1
    BY <2>1, FS_Interval
  <2>3. Cardinality(0 .. m) = n
    BY <1>1, <2>2 DEF m
  <2> QED
    BY <2>3 DEF m
<1> QED
  BY <1>1, <1>5, <1>6

(* Whenever a client is stopped: it has sent exactly what was due.         *)
THEOREM TrainsComplete == Spec => []TrainComplete
<1>1. IInv => TrainComplete
  BY DueAtTheEnd DEF TrainComplete
<1> QED
  BY <1>1, Invariance, PTL
=============================================================================
