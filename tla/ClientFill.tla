----------------------------- MODULE ClientFill -----------------------------
(***************************************************************************)
(* The four SetFill overloads of RequestResponseClient, octet by octet.    *)
(* RequestResponse takes a call for one step that leaves the contents      *)
(* asked for; this module is about how they come to be in the buffer: a    *)
(* buffer that is only allocated when its size changes, a loop that copies *)
(* a pattern as often as it fits and a last, partial copy.                 *)
(*                                                                         *)
(* Sizes are uint32_t, every one of them: that of a pattern and that of    *)
(* its buffer may be so large that their sum wraps around.  A memcpy is    *)
(* one step.  A copy past the end of a buffer is undefined behaviour, and  *)
(* so is an array of a negative length: the model says that it has come to *)
(* that, pc = "lost", and nothing of what follows.                         *)
(***************************************************************************)
EXTENDS Integers, FiniteSets

CONSTANTS
  Octet,      \* the values of an octet
  Wild,       \* an octet that was never written
  Width,      \* 2^32: sizes are computed modulo Width
  MaxCalls    \* bound: the number of calls

ASSUME OctetAssumption == 0 \in Octet /\ Wild \notin Octet
ASSUME WidthAssumption == Width \in Nat \ {0, 1} /\ MaxCalls \in Nat

Size == 0 .. Width - 1
Octets(n) == [0 .. n - 1 -> Octet]
Buffer(n) == [0 .. n - 1 -> Octet \cup {Wild}]

VARIABLES
  m_data,      \* the buffer
  m_dataSize,  \* its size
  m_size,      \* attribute PacketSize
  pc,          \* "ready" between two calls, "fill" in the loop, or "lost"
  filled,      \* of the loop: the octets it has filled
  asked,       \* the call that runs or ran last: what it is asked for
  calls        \* how many calls were made

vars == <<m_data, m_dataSize, m_size, pc, filled, asked, calls>>

Request(kind, fill, fillSize, dataSize) ==
  [kind |-> kind, fill |-> fill, fillSize |-> fillSize, dataSize |-> dataSize]

Init ==
  /\ m_data \in Buffer(0)
  /\ m_dataSize = 0
  /\ m_size \in Size
  /\ pc = "ready"
  /\ filled = 0
  /\ asked = Request("none", m_data, 0, 0)
  /\ calls = 0
-----------------------------------------------------------------------------
(* Mutant of Allocated: a buffer that is large enough is kept. *)
AllocatedOnce(n) ==
  IF n > m_dataSize THEN [i \in 0 .. n - 1 |-> Wild] ELSE m_data

Allocated(n) == IF n # m_dataSize THEN [i \in 0 .. n - 1 |-> Wild] ELSE m_data

memcpy(to, at, from, n) ==
  [i \in DOMAIN to |-> IF i \in at .. at + n - 1 THEN from[i - at] ELSE to[i]]

Call(request) ==
  /\ pc = "ready"
  /\ calls < MaxCalls
  /\ calls' = calls + 1
  /\ asked' = request
  /\ m_dataSize' = request.dataSize

Done(n) == m_size' = n /\ pc' = "ready"

(* SetFill(std::string): the characters and a terminating zero, whose      *)
(* number is a uint32_t: longer strings are left out.                      *)
Terminated(fill, n) == [i \in 0 .. n |-> IF i < n THEN fill[i] ELSE 0]

SetFillString(fill, n) ==
  /\ Call(Request("string", Terminated(fill, n), n + 1, n + 1))
  /\ m_data' = memcpy(Allocated(n + 1), 0, Terminated(fill, n), n + 1)
  /\ Done(n + 1)
  /\ UNCHANGED filled

(* SetFill(uint8_t, uint32_t): memset. *)
SetFillByte(octet, dataSize) ==
  /\ Call(Request("byte", [i \in {0} |-> octet], 1, dataSize))
  /\ m_data' = [i \in DOMAIN Allocated(dataSize) |-> octet]
  /\ Done(dataSize)
  /\ UNCHANGED filled

(* SetFill(uint8_t *, uint32_t, uint32_t), up to its loop. *)
SetFillPattern(fill, fillSize, dataSize) ==
  /\ Call(Request("pattern", fill, fillSize, dataSize))
  /\ \/ /\ fillSize >= dataSize
        /\ m_data' = memcpy(Allocated(dataSize), 0, fill, dataSize)
        /\ Done(dataSize)
        /\ UNCHANGED filled
     \/ /\ fillSize < dataSize
        /\ m_data' = Allocated(dataSize)
        /\ pc' = "fill"
        /\ filled' = 0
        /\ UNCHANGED m_size

(* Mutant of MoreFills: the copy that is to be made is not counted. *)
MoreFillsUncounted == filled < asked.dataSize

MoreFills == (filled + asked.fillSize) % Width < asked.dataSize

(* Mutant of FillOnce: what has been filled is not counted. *)
FillOnceUncounted ==
  /\ pc = "fill" /\ MoreFills
  /\ m_data' = memcpy(m_data, filled, asked.fill, asked.fillSize)
  /\ UNCHANGED <<m_dataSize, m_size, pc, filled, asked, calls>>

(* All but the final fill. *)
FillOnce ==
  /\ pc = "fill" /\ MoreFills
  /\ \/ /\ filled + asked.fillSize <= m_dataSize
        /\ m_data' = memcpy(m_data, filled, asked.fill, asked.fillSize)
        /\ filled' = (filled + asked.fillSize) % Width
        /\ UNCHANGED pc
     \/ /\ filled + asked.fillSize > m_dataSize
        /\ pc' = "lost"
        /\ UNCHANGED <<m_data, filled>>
  /\ UNCHANGED <<m_dataSize, m_size, asked, calls>>

(* Mutant of LastFill: only whole copies are made. *)
LastFillMissing ==
  /\ pc = "fill" /\ ~MoreFills
  /\ Done(asked.dataSize)
  /\ UNCHANGED <<m_data, m_dataSize, filled, asked, calls>>

(* The last fill may be partial. *)
LastFill ==
  /\ pc = "fill" /\ ~MoreFills
  /\ m_data' = memcpy(m_data, filled, asked.fill, asked.dataSize - filled)
  /\ Done(asked.dataSize)
  /\ UNCHANGED <<m_dataSize, filled, asked, calls>>

(* SetFill(bool, uint32_t): all octets but the last one of an array of the *)
(* stack are drawn, and the whole array is copied.  The length of the      *)
(* array is an int.                                                        *)
Drawn(random, n) == [i \in 0 .. n - 1 |-> IF i < n - 1 THEN random[i] ELSE Wild]

SetFillRandom(random, dataSize) ==
  \/ /\ dataSize < Width \div 2
     /\ Call(Request("random", random, dataSize, dataSize))
     /\ m_data' = memcpy(Allocated(dataSize), 0, Drawn(random, dataSize), dataSize)
     /\ Done(dataSize)
     /\ UNCHANGED filled
  \/ /\ dataSize >= Width \div 2
     /\ Call(Request("random", random, dataSize, dataSize))
     /\ m_data' = Allocated(dataSize)
     /\ pc' = "lost"
     /\ UNCHANGED <<m_size, filled>>
-----------------------------------------------------------------------------
SetFill ==
  \/ \E n \in 0 .. Width - 2 : \E fill \in Octets(n) : SetFillString(fill, n)
  \/ \E octet \in Octet, n \in Size : SetFillByte(octet, n)
  \/ \E n, fillSize \in Size : \E fill \in Octets(fillSize) : SetFillPattern(fill, fillSize, n)
  \/ \E n \in Size : \E random \in Octets(n) : SetFillRandom(random, n)

Next == SetFill \/ FillOnce \/ LastFill

Spec == Init /\ [][Next]_vars

(* A call that runs goes on. *)
FairSpec == Spec /\ WF_vars(FillOnce \/ LastFill)
-----------------------------------------------------------------------------
TypeOK ==
  /\ m_dataSize \in Size
  /\ m_data \in Buffer(m_dataSize)
  /\ m_size \in Size
  /\ pc \in {"ready", "fill", "lost"}
  /\ filled \in Size
  /\ asked.fillSize \in Size
  /\ asked.fill \in Octets(asked.fillSize)
  /\ asked.dataSize = m_dataSize

(* The reference: the contents repeated as many times as is required. *)
Repeats(data, upto) ==
  \A i \in 0 .. upto - 1 : data[i] = asked.fill[i % asked.fillSize]

(* When a call is over the buffer holds the contents asked for, as often   *)
(* as they fit: nothing is left of an earlier fill of the same buffer, no  *)
(* octet is skipped where two copies meet, and none is written twice.  Of  *)
(* the random fill this is said of all but its last octet.                 *)
FilledAsAsked ==
  pc = "ready" =>
    /\ m_size = asked.dataSize \/ asked.kind = "none"
    /\ asked.kind # "random" => Repeats(m_data, asked.dataSize)
    /\ asked.kind = "random" => Repeats(m_data, asked.dataSize - 1)

(* Some number of whole copies ends between the size of the buffer and the *)
(* last uint32_t.                                                          *)
CopiesEnd ==
  \E k \in 0 .. Width - 1 : k * asked.fillSize \in asked.dataSize .. Width - 1

(* The loop compares a sum that may wrap around.  A call with a pattern    *)
(* writes past the end of its buffer only, and returns only, as that says: *)
(* it is within bounds where some number of copies ends in range, which it *)
(* does whenever the two sizes together are at most 2^32, and where there  *)
(* is none it never returns in good order.  The last copy never reads past *)
(* the end of the pattern.                                                 *)
CopiesStayInside ==
  asked.kind = "pattern" =>
    /\ pc = "lost" => ~CopiesEnd
    /\ pc = "ready" => CopiesEnd
    /\ pc = "fill" /\ ~MoreFills => asked.dataSize - filled <= asked.fillSize

(* Liveness: under the same condition a call that runs returns.  It rules  *)
(* out the empty pattern, with which the loop goes on for ever.            *)
FillEnds == pc = "fill" /\ CopiesEnd ~> pc = "ready"
=============================================================================
