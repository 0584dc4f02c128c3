# A TLA+ model of the compression-link project

The repository simulates, in ns-3.29, a four-node network whose inner link is
meant to compress, and an application that infers compression from the
spreading of two packet trains. This directory holds a formal model of its own
code (the point-to-point device and channel it changes, the request-response
applications it adds, the experiment that joins them and the script that starts
it), TLC configurations that check the model on small instances, and proofs,
checked by TLAPS, that hold for every value of the constants.

## The system

| part | source | state | operations |
|---|---|---|---|
| net device | `ns-3.29/src/point-to-point/model/point-to-point-net-device.cc` | link up, queue, READY/BUSY, current packet, compression flags | `SetQueue`, `Attach`, `Send`, `TransmitStart`, `TransmitComplete`, `Receive`, flag setters |
| channel | `.../point-to-point-channel.cc` | number of devices, two wires | `Attach`, `TransmitStart` |
| PPP header | `.../ppp-header.cc` | protocol number | size, protocol |
| helper, unit test | `.../helper/point-to-point-helper.cc`, `.../test/point-to-point-test.cc` | none | orders in which a link is assembled |
| remote channel | `.../point-to-point-remote-channel.cc` | none | MPI variant of `TransmitStart` |
| client | `ns-3.29/src/applications/model/request-response-client.cc` | socket, pending send, count, buffer | start, stop, `SetDataSize`, four `SetFill`, `Send`, `HandleRead` |
| server | `.../request-response-server.cc` | sockets | start, stop, `HandleRead` |
| experiment | `ns-3.29/examples/routing/cs621-dev01.cc` | configuration, statistics of two flows | build, run, compare the two trains |
| zlib programs | `zlib_experiment/` | none that lasts | compress, decompress a buffer |
| launcher | `run.py` | none | runs the simulation |

**Interaction.** An application calls its socket; UDP/IP hands the packet to the
queue disc of the device, which calls `PointToPointNetDevice::Send` while the
device's queue has a place and is woken when it has one again; the device puts the packet through its drop-tail
queue, calls the channel, and leaves two events in the simulator:
`TransmitComplete` for itself and `Receive` for the peer. `Receive` calls the
layer above through a callback, which may call `Send` of the next device. All of
it runs on one thread: the simulator takes the pending event with the least
(timestamp, uid) and runs its handler to the end.

**What is hard.** Not data races but the order of events: handlers of one instant
are ordered by uid alone; several receptions and a completion may be pending at
once; `Send` comes at any moment, also between the events of one instant; a link
can be used while only half of it exists; a queue is at its limit; a client is
stopped at the very instant its next packet is due. The experiment compares two
dispersions, so an error of one gap or one queue place is an error of its result.

**What makes each part correct.**

- Link: what `Send` accepts arrives once, in order, unaltered, after a bounded
  time, exactly when a work-conserving line of fixed rate would deliver it; a
  packet is refused only when the line is busy and the queue is full; the
  assertions of the device are facts.
- Client: evenly paced, complete trains, of the packets that were asked for.
- Server: reads what arrives while it is open and, says its header, returns it.
- Network: packets keep their order through all links, none vanishes, only a link
  slower than those before it queues, and the last node sees its rate in their spacing.
- Experiment: the verdict follows from the two trains as they arrived, in spite of
  the sentinel and of rounding; what it ran with is what its inputs say. That the
  verdict depends on the compression of the inner link is what it promises, and
  does not hold (Findings).
- zlib utilities: a round trip that reports no error has restored the data.

## Modules

| module | what it is |
|---|---|
| `PppProtocol` | the header's size and the tables `EtherToPpp` and `PppToEther` |
| `PointToPoint` | devices, channel, and the events of one link; its properties |
| `FifoLink` | what a link promises: one lossy FIFO per direction, no clock, no queue |
| `PointToPointInvariant` | the inductive invariant `IInv` and its named parts |
| `PointToPointProofs` | its proof, the theorems that follow, and that `PointToPoint` implements `FifoLink` |
| `CompressionFlags` | `PointToPoint` with the two flags of the device |
| `PointToPointLatency` | proof of the bound on the latency, from `LatencyInv` |
| `RequestResponse` | clients and server, started and stopped by the simulator |
| `RequestResponseProofs` | its inductive invariant, and the theorems about its properties |
| `ClientFill` | the four `SetFill` overloads, octet by octet |
| `ClientFillProofs` | proof that they leave what was asked for, and in which calls a copy stays inside the buffer |
| `Tandem` | the row of three links between four nodes, with flows that share it |
| `LossyPath` | what the row promises: one path that may lose and never reorders |
| `TandemInvariant` | the inductive invariant of the row and its named parts |
| `TandemProofs` | its proof, the theorems that follow, and that `Tandem` implements `LossyPath` |
| `Detection` | the two trains of `cs621-dev01.cc` over `Tandem`, the statistics, the verdict |
| `DetectionInvariant` | the invariant of the experiment with two clients: who sends next, and the timetable of the packets |
| `DetectionProofs` | its proof; that `Detection` implements `Tandem`; the verdict, the rounding, the paced trains |
| `Experiment` | `run.py`, and how `main` comes by its parameters |
| `ExperimentProofs` | proof that its inputs decide what a process runs with |
| `ZlibRoundTrip` | `compress` and `decompress`, by the return codes of zlib |
| `ZlibRoundTripProofs` | proofs about the round trip |
| `MC*` | instances for TLC |

### PointToPoint

Variables carry the names of the fields. `hasQueue` says whether `m_queue` is set,
`m_queue` what it holds; `events`, `now` and `nextUid` are the simulator's event
list, clock and next uid; `abort` names the assertion that ended the program.
Five history variables record what goes in and what comes out: `accepted` (the
requests `Send` accepted, with their time), `starts` (when each transmission
started), `dropped`, `arrivals` (the packets as `Receive` saw them) and
`m_macRxTrace` (firings of that trace).

An action is a whole handler.

| action | code |
|---|---|
| `SetQueue(d)`, `Attach(d)` | the functions of the same name; `Attach` includes `PointToPointChannel::Attach` and `NotifyLinkUp` |
| `Send(d, size, proto)` | `Send` with all it calls: `AddHeader`, the queue, `TransmitStart` of device and channel |
| `TransmitComplete(e)` | the handler, with the next `TransmitStart` if a packet waits |
| `Receive(e)` | the handler: the error model, `ProcessHeader`, the traces, `GetRemote` |
| `Tick` | the simulator's clock moves when nothing is left to do now |

A packet is its sender, its number, its protocol on the wire and its size with
header; its payload is abstracted away, because nothing in these handlers reads it
(the code that would is commented out). A failed assertion, or a null queue,
aborts: the state is left as it was and nothing more happens. Each call of
`Send` is the caller's own event, so it is enabled whenever the simulator is
between events. The commented-out compression of `Send` and decompression of
`Receive` are not modelled: they are not in the program.

Two simplifications. `Attach` is called once per device, as every caller in the
repository does. The receive error model corrupts any packet of a device in `Lossy`
(every outcome of a rate error model), and none elsewhere.

### RequestResponse

`events` starts with what `Application::DoInitialize` schedules: start and stop of
every application, in the order in which the nodes initialise them (uids follow that
order; a stop time of 0 means never). Time jumps to the event that is run. The
buffer of a client is its length and what it is filled with; `SetFill` stands for
the four overloads, which leave the same state for the same size. The number `n` of a packet is a
label for the histories, the program gives its packets none. `StartClient` takes the socket to be
bound and connected: the fatal error when it cannot be bound, and the assertion about an address that is
neither IPv4 nor IPv6, end the program before the first packet and are left out. The network is
external: it may deliver in any order or lose. `HandleRead` of the client is never
called, because nothing is ever sent to a client. The IPv6 socket of the server is
not used by the experiment and is not modelled.

### ClientFill

`RequestResponse` takes a `SetFill` for one step; here it is the code: the buffer that is
allocated only when its size changes, the loop of whole copies (`FillOnce`, one `memcpy` a
step), the partial `LastFill`. Sizes are all those below `Width` (2^32), and their sum is computed modulo
`Width` as at line 283, so that it wraps around for a pattern and a buffer that are large together. A
copy past the end of the buffer is undefined behaviour, and so is the array of the random fill when
its length, an `int`, is negative: the model records that (`pc = "lost"`) and nothing of what follows. `CopiesStayInside`
says exactly which calls with a pattern come to this: those in which no whole number of copies ends between the size
of the buffer and 2^32 (`CopiesEnd`). Left out are strings of 2^32 - 1 characters and more, the limit
of the stack, and allocations that fail. An octet that was never written is `Wild`.

### Tandem, Detection, Experiment

`Tandem` composes three links in one direction. It keeps of each device what the proofs of
`PointToPoint` leave to be known: BUSY goes with a current packet, so `sending` stands for
both. Events are a set, each with its time and uid; `IsNext` is the simulator's choice of the
least. `Receive` at an inner node includes `Send` of the next device, as the call stack does; what
a call of `Send` adds to the events is `SendEvents`, and to the uids `SendUid`.
The IP layer is external and forwards, and between it and each device stands the queue disc (a `PfifoFastQueueDisc` of
1000 packets) that `Ipv4AddressHelper::Assign` installs (lines 160-168). It is external code as well, and part of
the module because it decides what waits and what is lost: `queue` is all that waits for a device, the first `handed` of
it in the device's own `m_queue` (`DeviceLimit`), the rest in the disc (`DiscLimit`). A packet is refused only by a
full disc. The disc hands packets on while `m_queue` has room (`Fill`); a full one stops it, and the traces that
`DoInitialize` connects (line 249) wake it when a packet is taken out. The wake is an event of its own (`Wake`, scheduled by
`Woken`): `TransmitComplete` dequeues after it has set the transmitter READY and before it starts the
next transmission, and a disc that ran inside would send, and so make that start fail its assertion. The rates are whole numbers of time units
per octet. `stats` is what the flow monitor knows. `refused` (per hop), `arrived` and
`lastStart` (when a device last began to transmit) are history. The layers above take uids for events of
their own (`OtherUids` says how many at a time); such an event may offer a packet
(`OfferAnytime`) or nothing (`OtherEvent`, in which for the row only time passes).

`Detection` adds the two clients, `Simulator::Stop`, and the code after the run: the loop over
the statistics, one flow a step (`Loop`), and the comparison (`Judge`). `Collect`
has the sentinel `first == 0`, `Spread` the four conversions to milliseconds. Nothing
looks at `useCompression`: in the program it only sets the flags that no code reads.
The clients stop with the simulation (65 s), after their last packet, so their stop is left out.
`Simulator::Stop` ends the run at its place among the events of its instant; what is still pending
is left in `events` and never happens. `Row` maps the experiment to `Tandem`: the row sees the events of its devices, and the
sends and the stop are the layers above. `ImplementsTandem` is that refinement.

`Experiment` starts processes as `run.py` does (`Launch`) and takes each through the file, the
command line, the check of the capacity, and the building of the network. A process ends without a verdict when there is
no file, when `stoi` cannot read a value (`Unreadable`), when `CommandLine` refuses an argument, when the capacity is 0, when
a rate is none (`outerDataRate` outside `Rates`, or a capacity below 0), and when a packet is too
large for the array that the random fill puts on the stack (outside `Sizes`). A local variable that
nothing has set is `Unset`; what depends on it may go either way. `ended` remembers the last process that ended. Left out:
a rate of zero.

### ZlibRoundTrip

Two actions, `compress` and `decompress`, on a stream and buffers of every size. zlib is given
by its return codes: `deflate` with `Z_FINISH` ends the stream if it fits and returns `Z_OK` if
it does not; `inflate` with `Z_FINISH` returns `Z_BUF_ERROR` unless it reaches the end. Allocation
succeeds; when it does not, the code goes on with a stream that was never set up.

## Runs

| run | question | bounds |
|---|---|---|
| `link_train` | When does each packet of a train arrive, how long can it take, when may it be refused, and does everything accepted arrive? Also checks `IInv`. | 3 packets of 2 or 4 octets on the wire one way and 1 the other, rates 1:2, calls at times 0 to 3 in any pattern, gap 1, delay 3, queue of 1, one lossy device |
| `link_duplex` | Is each direction a FIFO link, each transmitter woken once per packet, and which assertions can a half-built link fail? | 3 devices assembled in every order, 2 packets one way and 1 the other at times 0 to 2, rates 1:2, no gap, delay 2, IPv4, compressed IPv4 and a protocol without PPP number, one lossy device |
| `clients` | Are trains evenly paced and complete, and of the packets that were asked for last? | 2 clients of 4 and 2 packets, one stopped at the instant of its third, one never; 2 setter calls per client anywhere, sizes 0 to 2 |
| `tandem` | Is the row one path, with every packet in one place, and does it empty? Where do packets queue, is every disc woken, and what spacing does the slowest link leave? Also checks its `IInv`. | three links of rate 1 or 3 in all combinations, 5 packets of two sizes offered at times 0 to 3, queues and discs of 1, delay 1 |
| `verdicts` | What does the verdict say of the trains? Is the experiment a use of the row? Also checks the timetable. | 216 combinations of three rates of 1 to 6, trains of 4 every 5 units, queues of 1 and discs of 2, delay 1, a millisecond of 3 units, threshold 1 |
| `configurations` | What does a run run with, and does the script finish? | every subset of ten lines as `config.txt`, or no file; the 20 commands of `run.py`, five by hand; values that cannot be read, a negative capacity |
| `fills` | What does `SetFill` leave in the buffer? | 3 calls, 2 octets, all sizes of a word of 6 values |
| `zlib_round_trip` | Can a round trip fail in silence? | buffers and streams up to 4 octets |
| `macrx_trace`, `compression_flag`, `echo`, `false_alarm` | see Findings; each ends with a counterexample | `false_alarm`: 200 packets a train, the payload, pace and limits of the program, outer links of 50 kbps |

*Why the bounds are enough.* Three packets and a queue of one make every situation of a
transmitter occur: idle, busy with an empty queue, busy with a full one, a refusal,
and a queue that drains into back-to-back transmissions. Delay 3 with a transmission
of 2 puts two receptions and a completion in the event list together; without a gap a
completion, a reception and a call of `Send` fall on one instant. Two sizes are enough to tell a packet
from another.
`MaxSends`, `Horizon` and `MaxConfigs` bound how often, and how late, the environment acts;
they appear only in the guards of `Send` and of the setters; `MaxOffers`, `Horizon` and `MaxCalls`
do the same for `Tandem` and `ClientFill`. Five packets through queues and discs of one fill every queue and every disc
of the row behind a slow link and make it refuse; eight combinations of rates put the slowest link first,
in the middle and last. `OnlyBottlenecksQueue` and `SpacedByBottleneck` speak of packets of one size, and are
checked along the behaviours in which only one of the two flows has sent. `verdicts` has every situation of
the analysis: trains that fit, that are cut, a first spread of less than a millisecond, differences on each
side of the threshold; 8 of its 216 rows carry both trains (rates 1 and 2), slowing down, speeding up or both, and the rest do not. Sizes from 0 to 5 modulo 6 give `SetFill` a pattern that fits exactly, once, several times, and not
at all, and sums that wrap around, with a copy that leaves the buffer and without. What the runs show of the link, the clients and the fills on these instances the theorems below show
for all, except where said.

Deadlock checking is off: a simulation is over when its last event has run.

*Fairness.* `FairSpec` of `PointToPoint` asks only that the simulator goes on while an event
is pending (`WF_vars(Simulate)`), which is what `Simulator::Run` does. It asks nothing
of the callers of `Send`. `FairSpec` of `RequestResponse`, and of `Tandem`, where it is stated of
`RunNext`, are the same. `FairDetSpec` asks it of the step of the simulator in `Detection`. `FairSpec` of
`Experiment` says that a process that runs goes on and that `os.system` starts the next one; `FairSpec` of
`ClientFill` that a call goes on. `FillEnds` is stated under `CopiesEnd`, which excludes an empty pattern for a
buffer that is not: that loop does not end.

## Findings

Places where the program does other than its comments or documents say, each with a run that
ends in a counterexample:

1. `macrx_trace`: `Receive` fires the MacRx trace twice per packet, so the ASCII trace
   has two `r` lines for each.
2. `compression_flag`: no code reads the compression flag; packets of a flagged
   device leave uncompressed.
3. `echo`: the server returns nothing; its header and the client's say it does.
4. `false_alarm`: without compression, with 200 packets a train and outer links of 50 kbps, the program prints
   "Compression Detected": `Simulator::Stop` ends the run at 65 s with both trains still on their way, 174 packets of
   the first and 173 of the second have arrived, and their spreads, 62557 and 62195 ms, differ by more than the
   threshold. The analysis does not ask whether a train is complete.

Others follow from what the passing runs and the proofs establish:

- *Never detected by pacing.* The clients pace their packets 10 ms apart, where the repository's `README.md`
  has them sent back to back. By `PacedTrainsKeepTheirSpread`, proved for all rates, paces and lengths of the row and of the trains, wherever the links carry both trains the
  program prints "Compression Not Detected", with compression switched on as well.
- *Configuration.* By `InputsDecide`, `useCompression` and `compressionLinkCapacity` come from the command line
  alone: their two entries of `config.txt` are never read, and without the options they are uninitialised.
- *Random fill.* `FilledAsAsked` holds of a random fill for all but the last octet, which is never drawn.
- *Large fills.* By `CopiesStayInside`, the loop of `SetFill` writes past its buffer when the next whole copy
  would end beyond 2^32; where the two sizes together are at most 2^32 it does not (`SmallSizesStayInside`). The experiment
  fills by the random overload only.
- *MaxPackets.* By `TrainComplete`, `MaxPackets = 0` sends one packet.
- *Wires.* By `LinkInv`, both wires are IDLE from the second `Attach` on, whatever is transmitted; the header of
  the channel says their state follows the transmissions.

## Proofs

Assumed: `Device` is any set without `NoDevice`, sizes, times and delays are naturals
(zero included), `QueueLimit` is positive. Nothing bounds the number of devices or of
packets. The clock is discrete, as ns-3's `Time` is, and unbounded.

The properties speak of `accepted` and `arrivals`; none of them is inductive, since none
says where a packet is in between. `IInv` does:

- `LinkInv`: the devices that are up are the ends of the wires, and nothing moves before
  both are there;
- `MachineInv`: BUSY goes with exactly one `TransmitComplete`, due at `Free(d, NStarted(d))`,
  and READY with an empty queue;
- `QueueInv`: the queue holds the packets after the first `NStarted(d)`, framed;
- `TimingInv`: each transmission starts when its packet is there and its predecessor has
  left, gap included;
- `WireInv`: each packet started and not arrived is one `Receive` event, due one
  transmission and one delay after its start, with uids in the order of the packets;
- `ArrivalInv`: what has arrived is what was accepted first, at its computed time;
- `EventInv`: no event is in the past or has a uid still to be given.

The heart of the argument is `NextIsOldest`: when a reception is the next event, it carries
packet `NArrived + 1` of its sender. An older one would be due earlier, or at the same
instant with a smaller uid, and so would have run. `StartStep` is the other large lemma:
a transmission, whether `Send` or `TransmitComplete` starts it, preserves every part.

The bound on the latency needs more, since a queue is a sum of transmissions. `LatencyInv` avoids the
sum: a packet at place i of the queue will start no later than i - 1 slots after the transmitter is
free, and that instant is within `QueueLimit` slots of its acceptance, where a slot is the longest
transmission and a gap. Each step keeps this: `Send` to a busy device adds a packet at place `NQueued + 1`, and
the transmitter is free within a slot; `TransmitComplete` comes exactly when the transmitter is
free, and moves every packet up by one place while it moves that instant by at most one slot. Assumed in addition:
there is a largest size (`LargestSize`).

For `RequestResponse`, the set of clients is finite and the uids of the applications' start and stop events
are distinct (`OrderAssumption`). The invariant says that uids tell events apart (`UidInv`), that no
two clients remember the same event (`MemoInv`), which makes cancelling by uid safe, that a pending
`Send` is the remembered one, of a client with an open socket, due at its place in the schedule
(`SendInv`), that a buffer in use is of the size and contents asked for last (`FillInv`), and where a client
is between its start and its end (`PhaseInv`); the last is what `TrainComplete` needs.

For `ClientFill` the loop invariant says that whole copies stand at the start of the buffer
and, when the sum of line 283 has not wrapped around, that there is room for what is left; the arithmetic is that of remainders. Of the width it is
assumed that it is more than 1, of the sizes nothing. Where the sum wraps, the next multiple of the size of the pattern is beyond
the last size there is, and every earlier one is below the size of the buffer (`NextIsLeast`): so no copy
ends in range, which is what `CopiesStayInside` says of such a call, and where the loop ends one does.

For `Tandem` there is any number of hops and of flows, and every rate and size is positive: two
transmissions that take no time would make receptions of one hop share an instant with the
next. `IInv` says where every packet is and in which order:

- `MachineInv`: a device transmits until its one pending `TransmitComplete`, and what it has sent
  arrives no later than the delay after that;
- `HandInv`: no queue or disc holds more than it has places for, and a disc that holds packets back either faces a full
  `m_queue` or has a wake pending at this very instant; when a packet leaves a full queue that wake is the one it schedules;
- `OrderInv`: three orders agree. On a wire and in a queue packets follow each other by id;
  what is on the wire is older than what waits; what is further along the row is older still.
  Receptions of a wire are ordered by time as by uid, so the next event of the simulator is
  always the oldest packet of its wire, and what it enters the next hop with is younger than all there;
- `AccountInv`: ids are given once, and each packet offered is in one place; the counters of
  the flow monitor are the numbers of packets;
- `SpacingInv`: if all packets have one size, the receptions of a hop are at least one
  slot of *every* hop up to it apart, where a slot is how long a packet keeps a transmitter. A hop
  that is no bottleneck (`QuietAt`) holds at most one waiting packet, and only at the instant in which its
  transmitter becomes free: what comes next comes a slot of the slower hop after what came last.
  `OnlyBottlenecksQueue` and `SpacedByBottleneck` need each other: spacing survives a hop because
  nothing waits there, and nothing waits because what comes is spaced.

The step lemmas follow the code: `StartStep` for a transmission, whoever starts it, and one for
each way a call of `Send` can end; `Forward` and `TransmitComplete` are put together from them.
Cardinalities are handled with `FiniteSetTheorems`. The refinement maps the path to the
packets under way: `Arrive` hands out the oldest because of the third order.

For `Detection` nothing is assumed beyond `Tandem` and `TrainAssumption`. The verdict is
followed through the statistics. `RunInv` says that every packet in the row is of a flow that has
sent, so that a flow the monitor does not know has empty statistics; `LoopInv` is the loop
invariant of the analysis, for two clients, with the sentinel: after the second
flow the *distance* of `first` and `second` is that of the spreads, though their places may be
exchanged. `Margin` carries the distance through the cut to milliseconds, whose error is below
one millisecond for each spread.

That the paced trains keep their spread takes the packets themselves, and three steps:

- *Who sends next* (`PendingInv`, `TurnInv`, `FlowInv`). Each client has one send pending, at its
  place in the schedule. Both send at the same instants, and the uids of their events keep
  them in turns: the first client sends the odd packets, the second the even ones.
- *The experiment is a row* (`ExperimentIsARow`). Every step of the simulator maps to a step of
  `Tandem`: a device's event, a packet offered with the uids its client takes, or an event that offers
  nothing; the analysis maps to a stutter. `TandemProofs` is instantiated with the same mapping, so
  its invariant holds of the packets in the experiment. All of it does but `SpacingInv`,
  which the timetable does not need.
- *The timetable* (`PacedInv`). Where each link can carry both trains, packet `k` reaches the end of
  hop `h` at `Due(k, h)`: a recursive function over the hops, of the latency of the first of a
  pair (`Latency`) and of the longest slot so far (`Longest`), by which the second comes after it. `DueInv`
  says this of every reception, that a waiting packet is already there, and when the
  transmitter was or will be free of those it has begun (`Begun`). `DueNext`
  carries the steps: a packet that comes to a hop after its predecessor has left starts at once, one
  that comes before starts when its predecessor has left, and either way it reaches the next hop when
  `Due` says. By `DueApart` a link is through with a packet before the third after it comes, so when a packet
  comes at most one is waiting, and a disc of two refuses none. When the simulator stops
  every packet was due (`TimeEnough`), so all have arrived; the first and last of each train are `PacketCount - 1`
  pairs apart and belong to the same place of a pair, so the spread is `(PacketCount - 1) * Interval`, whatever the rates.

`PacedCorrect` adds the cut to milliseconds: an interval of whole milliseconds moves both ends of a spread by the same
number, and otherwise the two spreads differ by one at most. Its conditions matter: with two packet sizes (the
program has one), with a queue and a disc of one place, or with threshold 0 and an interval that is no whole
number of milliseconds, TLC finds a counterexample.

For `Experiment` the loop invariant is `ReadUpTo`: a variable holds the value of the last line read that
names it. Files are sequences (`FileAssumption`), with anything as a line. For
`ZlibRoundTrip` the invariant is that of two steps: what `compress` leaves, and what `decompress` then says.

| theorem | states |
|---|---|
| `Invariance` | `Spec => []IInv` |
| `TypeCorrect`, `AssertionsCorrect`, `TransmitterCorrect`, `OrderCorrect`, `TimesCorrect` | `TypeOK`, `InternalAssertionsHold`, `TransmitterAccounted`, `DeliveredInOrder`, `ArrivalTimes` always hold |
| `RefusalCorrect` | the action property `RefusesOnlyWhenSaturated` |
| `LatencyCorrect` | `BoundedLatency` always holds |
| `Refinement` | `Spec` implements `FifoLink` |
| `TypeCorrect`, `SendsCorrect`, `ScheduleCorrect`, `TrainsComplete` of `RequestResponseProofs` | `TypeOK`, `SendNeverFails`, `SendsOnSchedule`, `TrainComplete` always hold |
| `ContentsCorrect` | the action property `SendsWhatIsConfigured` |
| `TypeCorrect`, `FillCorrect`, `CopiesCorrect` of `ClientFillProofs` | `TypeOK`, `FilledAsAsked`, `CopiesStayInside` always hold |
| `SmallSizesStayInside` | two sizes that are together at most 2^32 keep every copy inside the buffer |
| `Invariance`, `TypeCorrect`, `AccountsCorrect`, `NothingIsForgotten`, `BottlenecksCorrect` of `TandemProofs` | `IInv`, `TypeOK`, `NothingVanishes`, `NothingForgotten`, `OnlyBottlenecksQueue` always hold |
| `SpacingCorrect` | the action property `SpacedByBottleneck` |
| `Refinement` of `TandemProofs` | `Spec` implements `LossyPath` |
| `VerdictCorrect`, `RoundingCorrect` of `DetectionProofs` | `VerdictFollowsSpreads`, `VerdictWithinRounding` always hold |
| `ExperimentIsARow` | with two clients, `DetSpec` implements `Tandem` |
| `TimetableCorrect`, `PacedCorrect` | `TimetableInv`, `PacedTrainsKeepTheirSpread` always hold |
| `InputsCorrect` of `ExperimentProofs` | `InputsDecide` always holds |
| `SilenceCorrect`, `RestoreCorrect` of `ZlibRoundTripProofs` | `SilenceMeansRestored`, `RestoredWhenItFits` always hold |

Only model-checked: liveness (`EveryAcceptedArrives`, `EveryPacketSettles`, `VerdictIsReached`,
`EveryCommandIsRun`, `FillEnds`), which is out of the prover's reach. Every invariant, every action property
and every refinement that a passing run checks is also a theorem.

## Plan

Done: the link with its invariant, latency, refinement and proofs; the flags; the applications with
their proofs; the fills with theirs; the network with its invariant, spacing, refinement and proofs; the
detection with its refinement, timetable and proofs; its configuration and the zlib utilities with theirs. Worth doing next, in this order:

1. `Tandem` over `PointToPoint` itself, by a mapping of each hop to one direction of a link;
2. the remote channel, with a model of the time windows of distributed ns-3.

## Not modelled

- The remote channel: distributed simulation, used by nothing in the repository.
- The Python bindings (`bindings/modulegen__gcc_*.py`, `callbacks_list.py`,
  `modulegen_customizations.py`): by far the most Python lines of the repository, about 27,650 of
  them, are four identical copies of a file that a tool generated from the headers of upstream
  ns-3. They call `add_class`, `add_method` and so on, one name after the other, with no state or decision of
  this program. A TLA+ version could only repeat the table, and would check nothing. A measure of this project by Python lines is
  therefore near zero, though the C++ that is the program is modelled handler by handler.
- The plot in `run.py`: it shows a list written into the script (line 15, marked TODO) under the title
  "Simulation Result", not what the runs printed.
- pcap and ASCII trace files, logging, and the copies of upstream code and earlier versions under
  `examples/`, `zlib_experiment/` and `CourseMaterial/`.
- Changing the data rate, the gap or the queue of a device while packets are under way: possible in
  ns-3 and done by nothing in the repository.
- `HandleRead` of the client, which waits for replies that are never sent.
- A failing allocation inside zlib.
- The errors with which ns-3 ends a program that has misused it: a socket that cannot be bound, an address of a wrong type.

The reasons are repeated, per component, in `PROJECT.json`.
