--------------------------- MODULE RequestResponse ---------------------------
(***************************************************************************)
(* RequestResponseClient and RequestResponseServer: applications that the  *)
(* simulator starts and stops, clients that send a train of packets paced  *)
(* by an event that schedules its successor, and a server that reads what  *)
(* the network brings it.                                                  *)
(*                                                                         *)
(* The attributes and the fill of a client may be set between any two      *)
(* events.  The network is external: it hands over what it carries in any  *)
(* order, or loses it (ns-3 UDP over links with drop-tail queues).         *)
(***************************************************************************)
EXTENDS Naturals, Sequences, FiniteSets

CONSTANTS
  Client,        \* the client applications
  server,        \* the server application
  Order,         \* Order[app]: the order in which Node initialises the applications
  StartTime,     \* m_startTime of an application
  StopTime,      \* m_stopTime; 0: the application is never stopped
  m_count,       \* attribute MaxPackets of a client
  m_interval,    \* attribute Interval of a client
  DataSize,      \* the sizes SetDataSize and SetFill are called with
  Pattern,       \* the contents a SetFill call can ask for
  MaxConfigs     \* bound: calls of SetDataSize and SetFill, per client

App == Client \cup {server}

ASSUME AppAssumption == server \notin Client /\ IsFiniteSet(Client)
ASSUME OrderAssumption ==
  /\ Order \in [App -> 1 .. Cardinality(App)]
  /\ \A p, q \in App : Order[p] = Order[q] => p = q
ASSUME TimeAssumption ==
  /\ StartTime \in [App -> Nat]
  /\ StopTime \in [App -> Nat]
  /\ m_interval \in [Client -> Nat]
ASSUME CountAssumption == m_count \in [Client -> Nat] /\ MaxConfigs \in Nat
ASSUME DataAssumption == DataSize \subseteq Nat

NoPattern == "unspecified"  \* the contents of a packet without a buffer
Content == Pattern \cup {NoPattern}
NoBuffer == [length |-> 0, content |-> NoPattern]

VARIABLES
  m_socket,      \* per application: "null", "open" or "closed"
  m_sendEvent,   \* per client: the uid of the last Send scheduled, or 0
  m_sent,        \* per client
  m_size,        \* per client: attribute PacketSize
  m_dataSize,    \* per client: size of the buffer, 0 when it is not used
  m_data,        \* per client: the buffer, NoBuffer when it is null
  events,        \* of the simulator: the pending events
  now,           \* of the simulator: the time of the event run last
  nextUid,       \* of the simulator: the uid of the next event
  abort,         \* what ended the program, or "none"
  network,       \* the packets on their way to the server
  received,      \* history, per client: those of its packets the server read
  train,         \* history, per client: what it sent, and when
  configured,    \* history, per client: what the last setter asked for
  configs        \* history, per client: how many setters were called

clientVars == <<m_sendEvent, m_sent, m_size, m_dataSize, m_data>>
simVars == <<events, now, nextUid>>
netVars == <<network, received>>
vars == <<m_socket, clientVars, simVars, abort, netVars, train, configured, configs>>

Event == [uid : Nat, at : Nat, kind : {"Start", "Stop", "Send"}, app : App]
Running == abort = "none"
-----------------------------------------------------------------------------
(* Application::DoInitialize schedules the start and, unless the stop time *)
(* is 0, the stop of every application, in the order of the applications.  *)
StartEvent(p) == [uid |-> 2 * Order[p] - 1, at |-> StartTime[p], kind |-> "Start", app |-> p]
StopEvent(p) == [uid |-> 2 * Order[p], at |-> StopTime[p], kind |-> "Stop", app |-> p]

Init ==
  /\ m_socket = [p \in App |-> "null"]
  /\ m_sendEvent = [c \in Client |-> 0]
  /\ m_sent = [c \in Client |-> 0]
  /\ m_size \in [Client -> DataSize]
  /\ m_dataSize = [c \in Client |-> 0]
  /\ m_data = [c \in Client |-> NoBuffer]
  /\ events = {StartEvent(p) : p \in App}
                \cup {StopEvent(p) : p \in {q \in App : StopTime[q] # 0}}
  /\ now = 0
  /\ nextUid = 2 * Cardinality(App) + 1
  /\ abort = "none"
  /\ network = {}
  /\ received = [c \in Client |-> {}]
  /\ train = [c \in Client |-> <<>>]
  /\ configured = [c \in Client |-> [size |-> m_size[c], content |-> NoPattern]]
  /\ configs = [c \in Client |-> 0]
-----------------------------------------------------------------------------
(* What a client sends.  The four SetFill overloads leave the same state   *)
(* for the same size; they differ in the contents they write.              *)

Configure(c, size, content) ==
  /\ Running
  /\ configs[c] < MaxConfigs
  /\ m_size' = [m_size EXCEPT ![c] = size]
  /\ configured' = [configured EXCEPT ![c] = [size |-> size, content |-> content]]
  /\ configs' = [configs EXCEPT ![c] = @ + 1]
  /\ UNCHANGED <<m_socket, m_sendEvent, m_sent, simVars, abort, netVars, train>>

(* Mutant of SetDataSize: the buffer of an earlier SetFill stays.          *)
SetDataSizeKeepingFill(c, size) ==
  /\ Configure(c, size, NoPattern)
  /\ UNCHANGED <<m_dataSize, m_data>>

SetDataSize(c, size) ==
  /\ Configure(c, size, NoPattern)
  /\ m_dataSize' = [m_dataSize EXCEPT ![c] = 0]
  /\ m_data' = [m_data EXCEPT ![c] = NoBuffer]

(* Mutant of BufferFor: a buffer that is there is taken to be large enough. *)
BufferForReused(c, size) == IF m_dataSize[c] = 0 THEN size ELSE m_data[c].length

(* The buffer is allocated anew only when its size changes. *)
BufferFor(c, size) == IF size # m_dataSize[c] THEN size ELSE m_data[c].length

(* Mutant of SetFill: m_dataSize keeps the size of the last buffer. *)
SetFillSizeKept(c, size, content) ==
  /\ Configure(c, size, content)
  /\ m_data' = [m_data EXCEPT ![c] = [length |-> BufferFor(c, size), content |-> content]]
  /\ UNCHANGED m_dataSize

SetFill(c, size, content) ==
  /\ Configure(c, size, content)
  /\ m_dataSize' = [m_dataSize EXCEPT ![c] = size]
  /\ m_data' = [m_data EXCEPT ![c] = [length |-> BufferFor(c, size), content |-> content]]
-----------------------------------------------------------------------------
Schedule(c, delay, pending) ==
  /\ events' = pending \cup {[uid |-> nextUid, at |-> now' + delay, kind |-> "Send", app |-> c]}
  /\ m_sendEvent' = [m_sendEvent EXCEPT ![c] = nextUid]
  /\ nextUid' = nextUid + 1

(* Mutant of StartClient: the first packet waits for an interval, too. *)
StartClientLate(e) ==
  /\ m_socket' = [m_socket EXCEPT ![e.app] = "open"]
  /\ Schedule(e.app, m_interval[e.app], events \ {e})
  /\ UNCHANGED <<m_sent, m_size, m_dataSize, m_data, abort, netVars, train,
                 configured, configs>>

(* The socket is bound and connected; what a failure to bind, a fatal      *)
(* error, or an address of another type, an assertion, would end before    *)
(* the first packet is left out.                                           *)
StartClient(e) ==
  /\ m_socket' = [m_socket EXCEPT ![e.app] = "open"]
  /\ Schedule(e.app, 0, events \ {e})
  /\ UNCHANGED <<m_sent, m_size, m_dataSize, m_data, abort, netVars, train,
                 configured, configs>>

(* The socket is given up and the pending Send, if any, is cancelled. *)
StopClient(e) ==
  /\ m_socket' = [m_socket EXCEPT ![e.app] = "null"]
  /\ events' = {f \in events \ {e} : f.uid # m_sendEvent[e.app]}
  /\ UNCHANGED <<clientVars, nextUid, abort, netVars, train, configured, configs>>

(* The packet that Send makes out of the buffer, or without one.  Its      *)
(* number n is no part of it: a label for the histories.                   *)
PacketOf(c) ==
  [from |-> c, n |-> m_sent[c] + 1, size |-> m_size[c],
   content |-> IF m_dataSize[c] # 0 THEN m_data[c].content ELSE NoPattern]

(* What would end the program in Send: its assertions, in their order, and *)
(* a socket that is gone.                                                  *)
Faults ==
  {"m_sendEvent.IsExpired ()", "m_size and m_dataSize inconsistent",
   "m_dataSize but no m_data", "m_socket is null"}

SendFault(e) ==
  LET c == e.app IN
  IF \E f \in events \ {e} : f.uid = m_sendEvent[c] THEN "m_sendEvent.IsExpired ()"
  ELSE IF m_dataSize[c] # 0 /\ m_dataSize[c] # m_size[c]
       THEN "m_size and m_dataSize inconsistent"
  ELSE IF m_dataSize[c] > m_data[c].length THEN "m_dataSize but no m_data"
  ELSE IF m_socket[c] # "open" THEN "m_socket is null"
  ELSE "none"

(* Mutant of MoreToSend: the packet just sent is not counted. *)
MoreToSendUncounted(c) == m_sent[c] < m_count[c]

MoreToSend(c) == m_sent[c] + 1 < m_count[c]

Send(e) ==
  LET c == e.app IN
  IF SendFault(e) # "none"
  THEN /\ abort' = SendFault(e)
       /\ UNCHANGED <<m_socket, clientVars, events, nextUid, netVars, train,
                      configured, configs>>
  ELSE /\ network' = network \cup {PacketOf(c)}
       /\ m_sent' = [m_sent EXCEPT ![c] = @ + 1]
       /\ train' = [train EXCEPT ![c] =
                      Append(@, [at |-> now', size |-> PacketOf(c).size,
                                 content |-> PacketOf(c).content])]
       /\ IF MoreToSend(c)
          THEN Schedule(c, m_interval[c], events \ {e})
          ELSE events' = events \ {e} /\ UNCHANGED <<m_sendEvent, nextUid>>
       /\ UNCHANGED <<m_socket, m_size, m_dataSize, m_data, abort, received,
                      configured, configs>>
-----------------------------------------------------------------------------
(* The server closes its socket without giving it up. *)
StartServer(e) ==
  /\ m_socket' = [m_socket EXCEPT ![server] = IF @ = "null" THEN "open" ELSE @]
  /\ events' = events \ {e}
  /\ UNCHANGED <<clientVars, nextUid, abort, netVars, train, configured, configs>>

StopServer(e) ==
  /\ m_socket' = [m_socket EXCEPT ![server] = IF @ = "null" THEN @ ELSE "closed"]
  /\ events' = events \ {e}
  /\ UNCHANGED <<clientVars, nextUid, abort, netVars, train, configured, configs>>

(* A packet reaches the node of the server; HandleRead reads it at once.   *)
HandleRead(p) ==
  /\ Running
  /\ m_socket[server] = "open"
  /\ network' = network \ {p}
  /\ received' = [received EXCEPT ![p.from] = @ \cup {p.n}]
  /\ UNCHANGED <<m_socket, clientVars, simVars, abort, train, configured, configs>>

(* A queue overflows, or nobody listens at the port of the server. *)
Lose(p) ==
  /\ Running
  /\ network' = network \ {p}
  /\ UNCHANGED <<m_socket, clientVars, simVars, abort, received, train,
                 configured, configs>>
-----------------------------------------------------------------------------
Earliest(e) == \A f \in events : f.at > e.at \/ (f.at = e.at /\ f.uid >= e.uid)

Run(e) ==
  /\ Running
  /\ Earliest(e)
  /\ now' = e.at
  /\ \/ e.kind = "Start" /\ e.app # server /\ StartClient(e)
     \/ e.kind = "Start" /\ e.app = server /\ StartServer(e)
     \/ e.kind = "Stop" /\ e.app # server /\ StopClient(e)
     \/ e.kind = "Stop" /\ e.app = server /\ StopServer(e)
     \/ e.kind = "Send" /\ Send(e)

Next ==
  \/ \E e \in events : Run(e)
  \/ \E p \in network : HandleRead(p) \/ Lose(p)
  \/ \E c \in Client, size \in DataSize : SetDataSize(c, size)
  \/ \E c \in Client, size \in DataSize, content \in Pattern : SetFill(c, size, content)

Spec == Init /\ [][Next]_vars

(* The simulator runs the pending events to the end. *)
FairSpec == Spec /\ WF_vars(\E e \in events : Run(e))
-----------------------------------------------------------------------------
Packet == [from : Client, n : Nat \ {0}, size : Nat, content : Content]

(* A buffer is as long as m_dataSize says. *)
TypeOK ==
  /\ m_socket \in [App -> {"null", "open", "closed"}]
  /\ m_sendEvent \in [Client -> Nat]
  /\ m_sent \in [Client -> Nat]
  /\ m_size \in [Client -> DataSize]
  /\ m_dataSize \in [Client -> DataSize \cup {0}]
  /\ m_data \in [Client -> [length : DataSize \cup {0}, content : Content]]
  /\ \A c \in Client : m_data[c].length = m_dataSize[c]
  /\ events \in SUBSET Event
  /\ now \in Nat
  /\ nextUid \in Nat
  /\ abort \in Faults \cup {"none"}
  /\ network \in SUBSET Packet
  /\ received \in [Client -> SUBSET (Nat \ {0})]
  /\ train \in [Client -> Seq([at : Nat, size : Nat, content : Content])]
  /\ configured \in [Client -> [size : DataSize, content : Content]]
  /\ configs \in [Client -> 0 .. MaxConfigs]

(* Send never fails an assertion, reads past its buffer or uses a socket   *)
(* it does not have, whenever the client is stopped and whichever setters  *)
(* are called between its packets.                                         *)
SendNeverFails == Running

(* Action property: a packet is what the last of SetDataSize and SetFill   *)
(* asked for, in size and, unless it is empty, in contents, although Send  *)
(* is free to use or to ignore the buffer, and SetFill to reuse it.        *)
SendsWhatIsConfigured ==
  [][\A c \in Client : train'[c] # train[c] =>
       LET sent == train'[c][Len(train'[c])] IN
       /\ sent.size = configured[c].size
       /\ sent.size # 0 => sent.content = configured[c].content]_vars

(* The train is evenly paced from the start of the application on, without *)
(* drift: the k-th packet leaves exactly k-1 intervals after it.           *)
SendsOnSchedule ==
  \A c \in Client : \A k \in 1 .. Len(train[c]) :
    train[c][k].at = StartTime[c] + (k - 1) * m_interval[c]

(* A client that has nothing left to do has sent every packet of its train *)
(* that was due before it was stopped, and no other: a packet due at the   *)
(* very instant of the stop is not sent.  MaxPackets = 0 sends one packet. *)
Due(c) ==
  {k \in 0 .. (IF m_count[c] = 0 THEN 0 ELSE m_count[c] - 1) :
     StopTime[c] # 0 => StartTime[c] + k * m_interval[c] < StopTime[c]}

TrainComplete ==
  \A c \in Client :
    /\ Running
    /\ StopTime[c] # 0 => StartTime[c] <= StopTime[c]
    /\ \A e \in events : e.app # c
    => m_sent[c] = Cardinality(Due(c))
-----------------------------------------------------------------------------
(* What the headers and the attributes of the applications say of them.    *)

(* request-response-server.h: "Every packet received is sent back."        *)
EveryPacketIsReturned ==
  \A c \in Client : \A n \in 1 .. m_count[c] :
    n \in received[c] ~> \E p \in network : p.from = server /\ p.n = n
=============================================================================
