-------------------------- MODULE ClientFillProofs --------------------------
(***************************************************************************)
(* For every set of octets, every width and every size below it: whatever  *)
(* calls of SetFill follow each other, each that returns leaves the        *)
(* contents asked for, and a copy leaves the buffer only where the sizes   *)
(* are so large that no whole number of copies ends in range.              *)
(***************************************************************************)
EXTENDS ClientFill, TLAPS

(* The loop has copied the pattern a whole number of times, to the         *)
(* beginning of the buffer and not beyond its end.                         *)
LoopInv ==
  pc = "fill" =>
    /\ asked.kind = "pattern"
    /\ filled < asked.dataSize
    /\ asked.fillSize < asked.dataSize
    /\ asked.fillSize = 0 => filled = 0
    /\ asked.fillSize > 0 => filled % asked.fillSize = 0
    /\ Repeats(m_data, filled)

(* Which calls for a pattern can have gone wrong, and which returned. *)
RangeInv ==
  asked.kind = "pattern" =>
    /\ pc = "lost" => ~CopiesEnd
    /\ pc = "ready" => CopiesEnd

IInv == TypeOK /\ FilledAsAsked /\ LoopInv /\ RangeInv
-----------------------------------------------------------------------------
(* Remainders. *)

LEMMA SmallRemainder ==
  ASSUME NEW p \in Nat \ {0}, NEW x \in Nat, x < p
  PROVE  x % p = x
  BY SMTT(20)

(* What stands at an offset behind whole copies is at that offset of one.  *)
LEMMA OffsetRemainder ==
  ASSUME NEW p \in Nat \ {0}, NEW f \in Nat, f % p = 0, NEW j \in Nat, j < p
  PROVE  (f + j) % p = j
  BY SMTT(20)

LEMMA NextMultiple ==
  ASSUME NEW p \in Nat \ {0}, NEW f \in Nat, f % p = 0
  PROVE  (f + p) % p = 0
<1> DEFINE q == f \div p
<1>1. q \in Nat /\ f = (p * q) + 0
  BY SMTT(20)
<1>2. f + p = p * (q + 1) + 0
  BY <1>1, SMT
<1>3. ASSUME NEW k \in Nat PROVE (p * k + 0) % p = 0
  BY SMTT(20)
<1>4. q + 1 \in Nat
  BY <1>1
<1> QED
  BY <1>2, <1>3, <1>4

(* The sum of two sizes, and what is left of it when it wraps around. *)
LEMMA Sum ==
  ASSUME NEW x \in Size, NEW y \in Size
  PROVE  /\ x + y < Width => (x + y) % Width = x + y
         /\ x + y >= Width => (x + y) % Width = (x + y) - Width /\ (x + y) - Width < x
<1>1. Width \in Nat \ {0} /\ x \in Nat /\ y \in Nat /\ x < Width /\ y < Width
  BY WidthAssumption DEF Size
<1>2. ASSUME NEW w \in Nat \ {0}, NEW s \in Nat, w <= s, s < 2 * w
      PROVE  s % w = s - w
  BY <1>2, SMTT(20)
<1>3. ASSUME x + y >= Width PROVE (x + y) % Width = (x + y) - Width
  <2>1. x + y \in Nat /\ Width <= x + y /\ x + y < 2 * Width
    BY <1>1, <1>3
  <2>2. \A s \in Nat : Width <= s /\ s < 2 * Width => s % Width = s - Width
    BY <1>1, <1>2
  <2> DEFINE sum == x + y
  <2>3. sum \in Nat /\ Width <= sum /\ sum < 2 * Width
    BY <2>1
  <2> HIDE DEF sum
  <2>4. sum % Width = sum - Width
    BY <2>2, <2>3
  <2> QED
    BY <2>4 DEF sum
<1> QED
  BY <1>1, <1>3, SmallRemainder

(* The next multiple of p after f is the least one beyond it. *)
LEMMA NextIsLeast ==
  ASSUME NEW p \in Nat \ {0}, NEW f \in Nat, f % p = 0, NEW k \in Nat, f < k * p
  PROVE  f + p <= k * p
<1> DEFINE q == f \div p
<1>1. q \in Nat /\ f = (p * q) + 0
  BY SMTT(20)
<1> HIDE DEF q
<1>2. q < k
  <2>1. ASSUME k <= q PROVE FALSE
    <3>1. PICK d \in Nat : q = k + d
      BY <1>1, <2>1
    <3>2. p * q = k * p + p * d /\ p * d \in Nat /\ k * p \in Nat
      BY <3>1
    <3> QED
      BY <1>1, <3>2
  <2> QED
    BY <1>1, <2>1
<1>3. PICK d \in Nat : k = q + 1 + d
  BY <1>1, <1>2
<1>4. k * p = p * q + p + p * d /\ p * d \in Nat /\ p * q \in Nat
  BY <1>1, <1>3
<1> QED
  BY <1>1, <1>4

(* A multiple counts its copies. *)
LEMMA MultipleCounts ==
  ASSUME NEW p \in Nat \ {0}, NEW f \in Nat, f % p = 0
  PROVE  \E k \in 0 .. f : k * p = f
<1> DEFINE q == f \div p
<1>1. q \in Nat /\ f = (p * q) + 0
  BY SMTT(20)
<1> HIDE DEF q
<1>2. p * q = q + (p - 1) * q /\ (p - 1) * q \in Nat /\ q * p = p * q
  BY <1>1
<1> QED
  BY <1>1, <1>2
-----------------------------------------------------------------------------
(* Buffers. *)

LEMMA AllocatedType ==
  ASSUME TypeOK, NEW n \in Size
  PROVE  /\ Allocated(n) \in Buffer(n)
         /\ DOMAIN Allocated(n) = 0 .. n - 1
  BY DEF Allocated, TypeOK, Buffer

(* A copy that stays inside writes what it is given and nothing else. *)
LEMMA CopyType ==
  ASSUME NEW n \in Size, NEW to \in Buffer(n), NEW at \in Int, NEW k \in Int,
         NEW from, \A i \in 0 .. k - 1 : from[i] \in Octet \cup {Wild}
  PROVE  /\ memcpy(to, at, from, k) \in Buffer(n)
         /\ \A i \in 0 .. n - 1 :
              memcpy(to, at, from, k)[i] =
                IF i \in at .. at + k - 1 THEN from[i - at] ELSE to[i]
<1>1. ASSUME NEW i \in 0 .. n - 1, i \in at .. at + k - 1
      PROVE  from[i - at] \in Octet \cup {Wild}
  <2>1. i - at \in 0 .. k - 1
    BY <1>1 DEF Size
  <2> QED
    BY <2>1
<1>2. DOMAIN to = 0 .. n - 1 /\ \A i \in 0 .. n - 1 : to[i] \in Octet \cup {Wild}
  BY DEF Buffer
<1> QED
  BY <1>1, <1>2, Zenon DEF memcpy, Buffer

(* Another copy of the pattern, or a part of it, behind whole ones.        *)
LEMMA CopyRepeats ==
  ASSUME TypeOK, LoopInv, pc = "fill",
         NEW k \in Nat, k <= asked.fillSize, filled + k <= asked.dataSize
  PROVE  /\ memcpy(m_data, filled, asked.fill, k) \in Buffer(m_dataSize)
         /\ Repeats(memcpy(m_data, filled, asked.fill, k), filled + k)
<1> DEFINE new == memcpy(m_data, filled, asked.fill, k)
<1>1. /\ asked.fillSize \in Nat /\ filled \in Nat /\ m_dataSize \in Size
      /\ asked.dataSize = m_dataSize
  BY DEF TypeOK, Size
<1>2. \A i \in 0 .. k - 1 : asked.fill[i] \in Octet \cup {Wild}
  <2>1. \A i \in 0 .. asked.fillSize - 1 : asked.fill[i] \in Octet
    BY DEF TypeOK, Octets
  <2>2. 0 .. k - 1 \subseteq 0 .. asked.fillSize - 1
    BY <1>1
  <2> QED
    BY <2>1, <2>2
<1>3. /\ new \in Buffer(m_dataSize)
      /\ \A i \in 0 .. m_dataSize - 1 :
           new[i] = IF i \in filled .. filled + k - 1
                    THEN asked.fill[i - filled] ELSE m_data[i]
  <2>1. m_data \in Buffer(m_dataSize) /\ filled \in Int /\ k \in Int
    BY <1>1 DEF TypeOK
  <2> QED
    BY <1>1, <1>2, <2>1, CopyType
<1>4. ASSUME NEW i \in 0 .. (filled + k) - 1
      PROVE  new[i] = asked.fill[i % asked.fillSize]
  <2>1. i \in 0 .. m_dataSize - 1
    BY <1>1 DEF Size
  <2>2. CASE i < filled
    <3>1. new[i] = m_data[i]
      BY <1>1, <1>3, <2>1, <2>2
    <3>2. i \in 0 .. filled - 1
      BY <1>1, <2>2
    <3> QED
      BY <3>1, <3>2 DEF LoopInv, Repeats
  <2>3. CASE i >= filled
    <3> DEFINE j == i - filled
    <3>1. new[i] = asked.fill[j]
      BY <1>1, <1>3, <2>1, <2>3
    <3>2. asked.fillSize \in Nat \ {0} /\ j \in Nat /\ j < asked.fillSize /\ i = filled + j
      BY <1>1, <2>3
    <3>3. filled % asked.fillSize = 0
      BY <3>2 DEF LoopInv
    <3>4. (filled + j) % asked.fillSize = j
      BY <1>1, <3>2, <3>3, OffsetRemainder
    <3> QED
      BY <3>1, <3>2, <3>4
  <2> QED
    BY <1>1, <2>2, <2>3
<1> QED
  BY <1>3, <1>4 DEF Repeats
-----------------------------------------------------------------------------
(* A call that copies at once: its buffer is the contents asked for.       *)
LEMMA OneCopy ==
  ASSUME TypeOK, NEW n \in Size, NEW fillSize \in Size, n <= fillSize,
         NEW from \in Buffer(fillSize)
  PROVE  /\ memcpy(Allocated(n), 0, from, n) \in Buffer(n)
         /\ \A i \in 0 .. n - 1 : memcpy(Allocated(n), 0, from, n)[i] = from[i]
         /\ \A i \in 0 .. n - 1 : i % fillSize = i
<1>1. n \in Nat /\ fillSize \in Nat
  BY DEF Size
<1>2. \A i \in 0 .. n - 1 : from[i] \in Octet \cup {Wild}
  BY <1>1 DEF Buffer
<1>3. /\ memcpy(Allocated(n), 0, from, n) \in Buffer(n)
      /\ \A i \in 0 .. n - 1 :
           memcpy(Allocated(n), 0, from, n)[i] =
             IF i \in 0 .. 0 + n - 1 THEN from[i - 0] ELSE Allocated(n)[i]
  BY <1>1, <1>2, AllocatedType, CopyType
<1>4. ASSUME NEW i \in 0 .. n - 1 PROVE i % fillSize = i
  <2>1. fillSize \in Nat \ {0} /\ i \in Nat /\ i < fillSize
    BY <1>1
  <2> QED
    BY <2>1, SmallRemainder
<1> QED
  BY <1>1, <1>3, <1>4
-----------------------------------------------------------------------------
LEMMA InitEstablishes == Init => IInv
<1> SUFFICES ASSUME Init PROVE IInv
  OBVIOUS
<1>1. 0 \in Size
  BY WidthAssumption DEF Size
<1>2. Buffer(0) = Octets(0)
  BY DEF Buffer, Octets
<1>3. TypeOK
  BY <1>1, <1>2 DEF Init, TypeOK, Request
<1>4. FilledAsAsked
  BY DEF Init, FilledAsAsked, Repeats, Request
<1>5. LoopInv /\ RangeInv
  BY DEF Init, LoopInv, RangeInv, Request
<1> QED
  BY <1>3, <1>4, <1>5 DEF IInv

(* A call that is over when it has made one copy of its own contents.      *)
LEMMA CallAtOnce ==
  ASSUME IInv, NEW kind \in {"string", "byte", "pattern"},
         NEW n \in Size, NEW fillSize \in Size, NEW fill \in Octets(fillSize),
         asked' = Request(kind, fill, fillSize, n),
         m_dataSize' = n, Done(n), UNCHANGED filled,
         m_data' \in Buffer(n),
         \A i \in 0 .. n - 1 : m_data'[i] = fill[i % fillSize],
         kind = "pattern" => \E k \in 0 .. Width - 1 : k * fillSize \in n .. Width - 1
  PROVE  IInv'
<1>1. TypeOK'
  BY DEF IInv, TypeOK, Request, Done
<1>2. FilledAsAsked'
  BY DEF FilledAsAsked, Repeats, Request, Done
<1>3. LoopInv'
  BY DEF LoopInv, Done
<1>4. RangeInv'
  BY DEF RangeInv, CopiesEnd, Request, Done
<1> QED
  BY <1>1, <1>2, <1>3, <1>4 DEF IInv

LEMMA StringKeeps ==
  ASSUME IInv, NEW n \in 0 .. Width - 2, NEW fill \in Octets(n), SetFillString(fill, n)
  PROVE  IInv'
<1> DEFINE whole == Terminated(fill, n)
<1>1. n + 1 \in Size /\ n \in Nat
  BY WidthAssumption DEF Size
<1>2. whole \in Octets(n + 1)
  BY <1>1, OctetAssumption DEF Terminated, Octets
<1>3. whole \in Buffer(n + 1)
  BY <1>2 DEF Octets, Buffer
<1>4. /\ memcpy(Allocated(n + 1), 0, whole, n + 1) \in Buffer(n + 1)
      /\ \A i \in 0 .. (n + 1) - 1 :
           memcpy(Allocated(n + 1), 0, whole, n + 1)[i] = whole[i]
      /\ \A i \in 0 .. (n + 1) - 1 : i % (n + 1) = i
  BY <1>1, <1>3, OneCopy DEF IInv
<1>5. \A i \in 0 .. (n + 1) - 1 : m_data'[i] = whole[i % (n + 1)]
  BY <1>4 DEF SetFillString
<1> QED
  BY <1>1, <1>2, <1>4, <1>5, CallAtOnce DEF SetFillString, Call, Request

LEMMA ByteKeeps ==
  ASSUME IInv, NEW octet \in Octet, NEW n \in Size, SetFillByte(octet, n)
  PROVE  IInv'
<1> DEFINE one == [i \in {0} |-> octet]
<1>1. n \in Nat /\ 1 \in Nat
  BY DEF Size
<1>2. DOMAIN Allocated(n) = 0 .. n - 1
  BY AllocatedType DEF IInv
<1>3. m_data' = [i \in 0 .. n - 1 |-> octet]
  BY <1>2 DEF SetFillByte
<1>4. m_data' \in Buffer(n)
  BY <1>3 DEF Buffer
<1>5. \A i \in Nat : i % 1 = 0
  BY SMTT(20)
<1>6. \A i \in 0 .. n - 1 : m_data'[i] = one[i % 1]
  BY <1>1, <1>3, <1>5
<1>7. one \in Octets(1) /\ 1 \in Size
  BY WidthAssumption DEF Octets, Size
<1> QED
  BY <1>4, <1>6, <1>7, CallAtOnce DEF SetFillByte, Call, Request

LEMMA PatternKeeps ==
  ASSUME IInv, NEW fillSize \in Size, NEW n \in Size, NEW fill \in Octets(fillSize),
         SetFillPattern(fill, fillSize, n)
  PROVE  IInv'
<1>1. n \in Nat /\ fillSize \in Nat /\ 0 \in Size
  BY WidthAssumption DEF Size
<1>2. CASE fillSize >= n /\ m_data' = memcpy(Allocated(n), 0, fill, n)
             /\ Done(n) /\ UNCHANGED filled
  <2>1. fill \in Buffer(fillSize)
    BY DEF Octets, Buffer
  <2>2. /\ memcpy(Allocated(n), 0, fill, n) \in Buffer(n)
        /\ \A i \in 0 .. n - 1 : memcpy(Allocated(n), 0, fill, n)[i] = fill[i]
        /\ \A i \in 0 .. n - 1 : i % fillSize = i
    BY <1>1, <1>2, <2>1, OneCopy DEF IInv
  <2>3. \A i \in 0 .. n - 1 : m_data'[i] = fill[i % fillSize]
    BY <1>2, <2>2
  <2>4. \E k \in 0 .. Width - 1 : k * fillSize \in n .. Width - 1
    <3>1. 1 \in 0 .. Width - 1 /\ 1 * fillSize \in n .. Width - 1
      BY <1>1, <1>2, WidthAssumption DEF Size
    <3> QED
      BY <3>1
  <2> QED
    BY <1>2, <2>2, <2>3, <2>4, CallAtOnce DEF SetFillPattern, Call, Request
<1>3. CASE fillSize < n /\ m_data' = Allocated(n) /\ pc' = "fill" /\ filled' = 0
             /\ UNCHANGED m_size
  <2>1. /\ asked' = Request("pattern", fill, fillSize, n)
        /\ m_dataSize' = n
    BY DEF SetFillPattern, Call, Request
  <2>2. Allocated(n) \in Buffer(n)
    BY AllocatedType DEF IInv
  <2>3. TypeOK'
    BY <1>1, <1>3, <2>1, <2>2 DEF IInv, TypeOK, Request
  <2>4. FilledAsAsked'
    BY <1>3 DEF FilledAsAsked
  <2>5. LoopInv'
    <3>1. fillSize > 0 => 0 % fillSize = 0
      BY <1>1, SmallRemainder
    <3> QED
      BY <1>1, <1>3, <2>1, <3>1 DEF LoopInv, Request, Repeats
  <2>6. RangeInv'
    BY <1>3 DEF RangeInv
  <2> QED
    BY <2>3, <2>4, <2>5, <2>6 DEF IInv
<1> QED
  BY <1>2, <1>3 DEF SetFillPattern

LEMMA RandomKeeps ==
  ASSUME IInv, NEW n \in Size, NEW random \in Octets(n), SetFillRandom(random, n)
  PROVE  IInv'
<1> DEFINE drawn == Drawn(random, n)
<1>1. n \in Nat
  BY DEF Size
<1>2. drawn \in Buffer(n) /\ \A i \in 0 .. (n - 1) - 1 : drawn[i] = random[i]
  BY <1>1 DEF Drawn, Octets, Buffer
<1>3. /\ memcpy(Allocated(n), 0, drawn, n) \in Buffer(n)
      /\ \A i \in 0 .. n - 1 : memcpy(Allocated(n), 0, drawn, n)[i] = drawn[i]
      /\ \A i \in 0 .. n - 1 : i % n = i
  BY <1>1, <1>2, OneCopy DEF IInv
<1>4. asked' = Request("random", random, n, n) /\ m_dataSize' = n
  BY DEF SetFillRandom, Call, Request
<1>5. RangeInv'
  BY <1>4 DEF RangeInv, Request
<1>6. CASE /\ m_data' = memcpy(Allocated(n), 0, drawn, n)
           /\ pc' = "ready" /\ m_size' = n /\ UNCHANGED filled
  <2>1. TypeOK'
    BY <1>3, <1>4, <1>6 DEF IInv, TypeOK, Request
  <2>2. \A i \in 0 .. (n - 1) - 1 : m_data'[i] = random[i % n]
    BY <1>1, <1>2, <1>3, <1>6
  <2>3. FilledAsAsked' /\ LoopInv'
    BY <1>4, <1>6, <2>2 DEF FilledAsAsked, Repeats, Request, LoopInv
  <2> QED
    BY <1>5, <2>1, <2>3 DEF IInv
<1>7. CASE m_data' = Allocated(n) /\ pc' = "lost" /\ UNCHANGED <<m_size, filled>>
  <2>1. Allocated(n) \in Buffer(n)
    BY AllocatedType DEF IInv
  <2>2. TypeOK'
    BY <1>4, <1>7, <2>1 DEF IInv, TypeOK, Request
  <2>3. FilledAsAsked' /\ LoopInv'
    BY <1>7 DEF FilledAsAsked, LoopInv
  <2> QED
    BY <1>5, <2>2, <2>3 DEF IInv
<1> QED
  BY <1>6, <1>7 DEF SetFillRandom, Done

(* The comparison of the loop: it is the one of the numbers until their    *)
(* sum wraps around, and then always says that a copy still fits.          *)
LEMMA Comparison ==
  ASSUME TypeOK, filled < asked.dataSize
  PROVE  /\ filled + asked.fillSize < Width =>
              /\ (filled + asked.fillSize) % Width = filled + asked.fillSize
              /\ MoreFills <=> filled + asked.fillSize < asked.dataSize
         /\ filled + asked.fillSize >= Width => MoreFills
<1>1. /\ filled \in Nat /\ asked.fillSize \in Nat /\ asked.dataSize \in Nat /\ Width \in Nat
      /\ filled \in Size /\ asked.fillSize \in Size
  BY WidthAssumption DEF TypeOK, Size
<1>2. /\ filled + asked.fillSize < Width =>
           (filled + asked.fillSize) % Width = filled + asked.fillSize
      /\ filled + asked.fillSize >= Width =>
           /\ (filled + asked.fillSize) % Width = filled + asked.fillSize - Width
           /\ filled + asked.fillSize - Width < filled
  BY <1>1, Sum
<1> QED
  BY <1>1, <1>2 DEF MoreFills

(* When the next copy would wrap around no number of copies ends in range. *)
LEMMA NoneEnds ==
  ASSUME TypeOK, LoopInv, pc = "fill", filled + asked.fillSize >= Width
  PROVE  ~CopiesEnd
<1>1. /\ filled \in Nat /\ asked.fillSize \in Nat /\ asked.dataSize \in Nat /\ Width \in Nat
      /\ filled < Width
  BY WidthAssumption DEF TypeOK, Size
<1>2. filled < asked.dataSize /\ asked.fillSize > 0 /\ filled % asked.fillSize = 0
  BY <1>1 DEF LoopInv
<1>3. ASSUME NEW k \in 0 .. Width - 1, k * asked.fillSize \in asked.dataSize .. Width - 1
      PROVE  FALSE
  <2>1. k \in Nat /\ k * asked.fillSize \in Nat
    BY <1>1
  <2>2. filled < k * asked.fillSize /\ k * asked.fillSize < Width
    BY <1>1, <1>2, <1>3, <2>1
  <2>3. filled + asked.fillSize <= k * asked.fillSize
    BY <1>1, <1>2, <2>1, <2>2, NextIsLeast
  <2> QED
    BY <1>1, <2>1, <2>2, <2>3
<1> QED
  BY <1>3 DEF CopiesEnd

LEMMA FillOnceKeeps ==
  ASSUME IInv, FillOnce
  PROVE  IInv'
<1>1. /\ filled \in Nat /\ asked.fillSize \in Nat /\ asked.dataSize \in Size
      /\ asked.dataSize \in Nat /\ Width \in Nat /\ asked.dataSize < Width
      /\ asked.dataSize = m_dataSize /\ filled < asked.dataSize
      /\ asked.fillSize < asked.dataSize /\ pc = "fill"
  BY WidthAssumption DEF IInv, TypeOK, Size, LoopInv, FillOnce
<1>2. CASE /\ filled + asked.fillSize <= m_dataSize
           /\ m_data' = memcpy(m_data, filled, asked.fill, asked.fillSize)
           /\ filled' = (filled + asked.fillSize) % Width /\ UNCHANGED pc
  <2>1. filled + asked.fillSize < asked.dataSize /\ filled' = filled + asked.fillSize
    BY <1>1, <1>2, Comparison DEF IInv, FillOnce
  <2>2. /\ m_data' \in Buffer(m_dataSize)
        /\ \A i \in 0 .. (filled + asked.fillSize) - 1 :
             m_data'[i] = asked.fill[i % asked.fillSize]
    BY <1>1, <1>2, CopyRepeats DEF IInv, Repeats
  <2>3. filled' \in Size
    BY <1>1, <2>1, WidthAssumption DEF Size
  <2>4. TypeOK'
    BY <1>2, <2>2, <2>3 DEF IInv, TypeOK, FillOnce
  <2>5. FilledAsAsked' /\ RangeInv'
    BY <1>1, <1>2 DEF FilledAsAsked, RangeInv
  <2>6. asked.fillSize > 0 => (filled + asked.fillSize) % asked.fillSize = 0
    BY <1>1, NextMultiple DEF IInv, LoopInv
  <2>7. LoopInv'
    BY <1>1, <2>1, <2>2, <2>6 DEF IInv, LoopInv, FillOnce, Repeats
  <2> QED
    BY <2>4, <2>5, <2>7 DEF IInv
<1>3. CASE /\ filled + asked.fillSize > m_dataSize
           /\ pc' = "lost" /\ UNCHANGED <<m_data, filled>>
  <2>1. filled + asked.fillSize >= Width
    BY <1>1, <1>3, Comparison DEF IInv, FillOnce
  <2>2. ~CopiesEnd
    BY <1>1, <2>1, NoneEnds DEF IInv
  <2>3. UNCHANGED <<m_dataSize, m_size, asked>>
    BY DEF FillOnce
  <2>4. TypeOK'
    BY <1>3, <2>3 DEF IInv, TypeOK
  <2>5. FilledAsAsked' /\ LoopInv'
    BY <1>3 DEF FilledAsAsked, LoopInv
  <2>6. RangeInv'
    BY <1>3, <2>2, <2>3 DEF RangeInv, CopiesEnd
  <2> QED
    BY <2>4, <2>5, <2>6 DEF IInv
<1> QED
  BY <1>2, <1>3 DEF FillOnce

(* When the loop ends the sum has not wrapped around, and is the end of a  *)
(* whole number of copies.                                                 *)
LEMMA LoopEnds ==
  ASSUME TypeOK, LoopInv, pc = "fill", ~MoreFills
  PROVE  /\ asked.dataSize - filled \in Nat /\ asked.dataSize - filled <= asked.fillSize
         /\ CopiesEnd
<1>1. /\ filled \in Nat /\ asked.fillSize \in Nat /\ asked.dataSize \in Nat /\ Width \in Nat
      /\ filled < asked.dataSize
  BY WidthAssumption DEF TypeOK, Size, LoopInv
<1>2. filled + asked.fillSize < Width /\ filled + asked.fillSize >= asked.dataSize
  BY <1>1, Comparison
<1>3. asked.fillSize > 0 /\ (filled + asked.fillSize) % asked.fillSize = 0
  BY <1>1, <1>2, NextMultiple DEF LoopInv
<1>4. PICK k \in 0 .. (filled + asked.fillSize) : k * asked.fillSize = filled + asked.fillSize
  <2>1. asked.fillSize \in Nat \ {0} /\ filled + asked.fillSize \in Nat
    BY <1>1, <1>3
  <2>2. \A p \in Nat \ {0}, f \in Nat : f % p = 0 => \E n \in 0 .. f : n * p = f
    BY MultipleCounts
  <2> QED
    BY <1>3, <2>1, <2>2
<1>5. k \in 0 .. Width - 1 /\ k * asked.fillSize \in asked.dataSize .. Width - 1
  BY <1>1, <1>2, <1>4
<1> QED
  BY <1>1, <1>2, <1>5 DEF CopiesEnd

LEMMA LastFillKeeps ==
  ASSUME IInv, LastFill
  PROVE  IInv'
<1> DEFINE rest == asked.dataSize - filled
<1>1. /\ filled \in Nat /\ asked.fillSize \in Nat /\ asked.dataSize \in Nat
      /\ asked.dataSize = m_dataSize /\ asked.dataSize \in Size
  BY DEF IInv, TypeOK, Size
<1>2. rest \in Nat /\ rest <= asked.fillSize /\ filled + rest = asked.dataSize
  BY <1>1, LoopEnds DEF IInv, LastFill
<1>3. /\ m_data' \in Buffer(m_dataSize)
      /\ \A i \in 0 .. asked.dataSize - 1 :
           m_data'[i] = asked.fill[i % asked.fillSize]
  <2>1. filled + rest <= asked.dataSize
    BY <1>1, <1>2
  <2>2. m_data' = memcpy(m_data, filled, asked.fill, rest)
    BY DEF LastFill
  <2> HIDE DEF rest
  <2> QED
    BY <1>1, <1>2, <2>1, <2>2, CopyRepeats DEF IInv, LastFill, Repeats
<1>4. TypeOK'
  BY <1>1, <1>3 DEF IInv, TypeOK, LastFill, Done
<1>5. FilledAsAsked'
  BY <1>3 DEF IInv, LoopInv, FilledAsAsked, LastFill, Done, Repeats
<1>6. LoopInv'
  BY DEF LoopInv, LastFill, Done
<1>7. RangeInv'
  BY LoopEnds DEF IInv, RangeInv, CopiesEnd, LastFill, Done
<1> QED
  BY <1>4, <1>5, <1>6, <1>7 DEF IInv

LEMMA StutterKeeps ==
  ASSUME IInv, UNCHANGED vars
  PROVE  IInv'
  BY DEF IInv, TypeOK, FilledAsAsked, LoopInv, RangeInv, CopiesEnd, Repeats, vars

LEMMA NextKeeps ==
  ASSUME IInv, [Next]_vars
  PROVE  IInv'
<1>1. CASE \E n \in 0 .. Width - 2 : \E fill \in Octets(n) : SetFillString(fill, n)
  BY <1>1, StringKeeps
<1>2. CASE \E octet \in Octet, n \in Size : SetFillByte(octet, n)
  BY <1>2, ByteKeeps
<1>3. CASE \E n, fillSize \in Size : \E fill \in Octets(fillSize) :
             SetFillPattern(fill, fillSize, n)
  BY <1>3, PatternKeeps
<1>4. CASE \E n \in Size : \E random \in Octets(n) : SetFillRandom(random, n)
  BY <1>4, RandomKeeps
<1>5. CASE FillOnce
  BY <1>5, FillOnceKeeps
<1>6. CASE LastFill
  BY <1>6, LastFillKeeps
<1>7. CASE UNCHANGED vars
  BY <1>7, StutterKeeps
<1> QED
  BY <1>1, <1>2, <1>3, <1>4, <1>5, <1>6, <1>7 DEF Next, SetFill
-----------------------------------------------------------------------------
LEMMA Invariance == Spec => []IInv
<1>1. Init => IInv
  BY InitEstablishes
<1>2. IInv /\ [Next]_vars => IInv'
  BY NextKeeps
<1> QED
  BY <1>1, <1>2, PTL DEF Spec

(* Every buffer is of the size of its request. *)
THEOREM TypeCorrect == Spec => []TypeOK
<1>1. IInv => TypeOK
  BY DEF IInv
<1> QED
  BY <1>1, Invariance, PTL

(* When SetFill returns, the buffer holds what it was asked for: a string  *)
(* and its zero, an octet or a pattern repeated up to the last octet, or   *)
(* the octets that were drawn, up to the last but one.                     *)
THEOREM FillCorrect == Spec => []FilledAsAsked
<1>1. IInv => FilledAsAsked
  BY DEF IInv
<1> QED
  BY <1>1, Invariance, PTL

(* The loop of SetFill compares a sum of two uint32_t that may wrap: a     *)
(* copy leaves the buffer exactly in those calls for which no whole number *)
(* of copies ends between the size of the buffer and 2^32; the last copy   *)
(* stays inside the pattern in all of them.                                *)
THEOREM CopiesCorrect == Spec => []CopiesStayInside
<1>1. IInv => CopiesStayInside
  BY LoopEnds DEF IInv, RangeInv, CopiesStayInside
<1> QED
  BY <1>1, Invariance, PTL

(* Two sizes that together are no more than 2^32 are such that some number *)
(* of copies ends in range: no copy of such a call leaves its buffer.      *)
THEOREM SmallSizesStayInside ==
  Spec => [](pc = "lost" /\ asked.kind = "pattern" =>
               asked.fillSize = 0 \/ asked.dataSize + asked.fillSize > Width)
<1>1. ASSUME TypeOK, asked.fillSize # 0, ~(asked.dataSize + asked.fillSize > Width)
      PROVE  CopiesEnd
  <2> DEFINE p == asked.fillSize
             d == asked.dataSize
             f == (d + p - 1) - ((d + p - 1) % p)
  <2>1. p \in Nat \ {0} /\ d \in Nat /\ Width \in Nat /\ d + p <= Width
    BY <1>1, WidthAssumption DEF TypeOK, Size
  <2> HIDE DEF p, d
  <2>2. ASSUME NEW x \in Nat PROVE x % p \in 0 .. p - 1 /\ x - (x % p) \in Nat /\ (x - (x % p)) % p = 0
    <3>1. DEFINE q == x \div p
    <3>2. q \in Nat /\ x = p * q + (x % p) /\ x % p \in 0 .. p - 1
      BY <2>1, SMTT(20)
    <3>3. ASSUME NEW k \in Nat PROVE (p * k + 0) % p = 0
      BY <2>1, SMTT(20)
    <3>4. p * q \in Nat
      BY <2>1, <3>2
    <3> HIDE DEF q
    <3>5. x - (x % p) = p * q + 0
      BY <3>2, <3>4
    <3> QED
      BY <3>2, <3>3, <3>4, <3>5
  <2>3. f \in Nat /\ f % p = 0 /\ f >= d /\ f <= d + p - 1
    <3>1. d + p - 1 \in Nat
      BY <2>1
    <3>2. (d + p - 1) % p \in 0 .. p - 1 /\ f \in Nat /\ f % p = 0
      BY <2>2, <3>1
    <3> QED
      BY <2>1, <3>1, <3>2
  <2> HIDE DEF f
  <2>4. PICK k \in 0 .. f : k * p = f
    BY <2>1, <2>3, MultipleCounts
  <2>5. k \in 0 .. Width - 1 /\ k * p \in d .. Width - 1
    BY <2>1, <2>3, <2>4
  <2> QED
    BY <2>5 DEF CopiesEnd, p, d
<1>2. IInv => (pc = "lost" /\ asked.kind = "pattern" =>
                 asked.fillSize = 0 \/ asked.dataSize + asked.fillSize > Width)
  BY <1>1 DEF IInv, RangeInv
<1> QED
  BY <1>2, Invariance, PTL
=============================================================================
