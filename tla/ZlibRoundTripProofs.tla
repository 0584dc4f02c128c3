------------------------ MODULE ZlibRoundTripProofs ------------------------
(***************************************************************************)
(* Proofs about the round trip of zlib-test.cc, for buffers of every size  *)
(* and streams of every length.                                            *)
(***************************************************************************)
EXTENDS ZlibRoundTrip, TLAPS

(* What compress leaves for decompress, and what is known of the codes at  *)
(* the end: an inflate that does not reach the end of the stream prints.   *)
Fits == b = stream /\ inputSize <= cSize

TripTypes ==
  /\ stage \in {"compress", "decompress", "done"}
  /\ inputSize \in Nat /\ bSize \in Nat /\ cSize \in Nat
  /\ stream \in Nat \ {0}

TripInv ==
  /\ TripTypes
  /\ stage \in {"decompress", "done"} /\ stream <= bSize => b = stream
  /\ stage = "decompress" /\ stream <= bSize => printed = {}
  /\ stage = "done" /\ Fits => /\ c = inputSize
                               /\ stream <= bSize => printed = {}
  /\ stage = "done" /\ ~Fits => "Z_BUF_ERROR" \in printed

LEMMA TripInit == Init => TripInv
BY SizeAssumption DEF Init, TripInv, TripTypes, Size

(* A stream that fits is written whole, and its two codes print nothing. *)
LEMMA DeflateFits ==
  ASSUME bSize \in Nat, stream \in Nat \ {0}, stream <= bSize,
         NEW r \in Deflate("Z_FINISH")
  PROVE  r.out = stream /\ zerr({r.ret, r.end}) = {}
<1>1. r = [ret |-> "Z_STREAM_END", out |-> stream, end |-> "Z_OK"]
  BY DEF Deflate
<1>. QED  BY <1>1 DEF zerr, Message

LEMMA InflateFinish ==
  ASSUME NEW r \in Inflate("Z_FINISH")
  PROVE  /\ Fits => r.out = inputSize /\ zerr({r.ret}) = {}
         /\ ~Fits => zerr({r.ret}) = {"Z_BUF_ERROR"}
<1>1. Fits => r = [ret |-> "Z_STREAM_END", out |-> inputSize]
  BY DEF Inflate, Fits
<1>2. ~Fits => r.ret = "Z_BUF_ERROR"
  BY DEF Inflate, Fits
<1>3. zerr({"Z_STREAM_END"}) = {} /\ zerr({"Z_BUF_ERROR"}) = {"Z_BUF_ERROR"}
  BY DEF zerr, Message
<1>4. Fits => r.ret = "Z_STREAM_END" /\ r.out = inputSize
  BY <1>1
<1>. QED  BY <1>2, <1>3, <1>4

LEMMA TripStep == TripInv /\ [Next]_vars => TripInv'
<1>. SUFFICES ASSUME TripInv, [Next]_vars PROVE TripInv'
  OBVIOUS
<1>1. CASE compress
  <2>1. PICK r \in Deflate("Z_FINISH") : b' = r.out /\ printed' = zerr({r.ret, r.end})
    BY <1>1 DEF compress, CompressFlush
  <2>2. stage' = "decompress" /\ TripTypes'
    BY <1>1 DEF compress, TripInv, TripTypes, sizes
  <2>3. stream' <= bSize' => b' = stream' /\ printed' = {}
    BY <1>1, <2>1, DeflateFits DEF compress, TripInv, TripTypes, sizes
  <2>. QED  BY <2>2, <2>3 DEF TripInv
<1>2. CASE decompress
  <2>1. PICK r \in Inflate("Z_FINISH") :
          c' = r.out /\ printed' = printed \cup zerr({r.ret})
    BY <1>2 DEF decompress, DecompressFlush
  <2>2. stage = "decompress" /\ stage' = "done" /\ TripTypes' /\ UNCHANGED <<sizes, b>>
    BY <1>2 DEF decompress, TripInv, TripTypes, sizes
  <2>3. Fits' <=> Fits
    BY <2>2 DEF Fits, sizes
  <2>4. Fits => c' = inputSize' /\ printed' = printed
    BY <2>1, <2>2, InflateFinish DEF sizes
  <2>5. ~Fits => "Z_BUF_ERROR" \in printed'
    BY <2>1, InflateFinish
  <2>. QED  BY <2>2, <2>3, <2>4, <2>5 DEF TripInv, sizes
<1>3. CASE UNCHANGED vars
  BY <1>3 DEF TripInv, TripTypes, Fits, vars, sizes
<1>. QED  BY <1>1, <1>2, <1>3 DEF Next

LEMMA TripInvariance == Spec => []TripInv
BY TripInit, TripStep, PTL DEF Spec

(* A round trip that prints no error has restored the data, although       *)
(* compress keeps silent about some unfinished streams.                    *)
THEOREM SilenceCorrect == Spec => []SilenceMeansRestored
<1>1. TripInv => SilenceMeansRestored
  BY DEF TripInv, SilenceMeansRestored, Restored, Fits
<1>. QED  BY <1>1, TripInvariance, PTL

(* When the stream fits in the second buffer and the data in the third,    *)
(* the data come back and nothing is printed.                              *)
THEOREM RestoreCorrect == Spec => []RestoredWhenItFits
<1>1. TripInv => RestoredWhenItFits
  BY DEF TripInv, RestoredWhenItFits, Restored, Fits
<1>. QED  BY <1>1, TripInvariance, PTL
=============================================================================
