---------------------------- MODULE ZlibRoundTrip ----------------------------
(***************************************************************************)
(* CS621CompressionUtil, called as zlib-test.cc does: compress a into b,   *)
(* decompress all of b into c.  Neither function returns anything; what    *)
(* the caller can learn is what zerr has printed.  zlib itself is external *)
(* and known by the return codes of its manual; its memory suffices.       *)
(*                                                                         *)
(* A buffer is its size and how many octets of the stream, or of the data, *)
(* are at its start.                                                       *)
(***************************************************************************)
EXTENDS Naturals

CONSTANT MaxSize        \* bound: the largest buffer, and the longest stream

ASSUME SizeAssumption == MaxSize \in Nat

VARIABLES
  stage,      \* what main does next: "compress", "decompress" or "done"
  inputSize,  \* octets in a
  stream,     \* octets of the stream that a compresses to
  bSize, b,   \* the second buffer, and the octets of the stream in it
  cSize, c,   \* the third buffer, and the octets of the data in it
  printed     \* the codes for which zerr printed a message

sizes == <<inputSize, stream, bSize, cSize>>
vars == <<stage, sizes, b, c, printed>>

Size == 0 .. MaxSize

(* Incompressible data compress to more octets than they are.              *)
Init ==
  /\ stage = "compress"
  /\ inputSize \in Size /\ bSize \in Size /\ cSize \in Size
  /\ stream \in Size \ {0}
  /\ b = 0 /\ c = 0
  /\ printed = {}

(* zerr has no case for Z_OK and Z_STREAM_END. *)
Message == {"Z_ERRNO", "Z_STREAM_ERROR", "Z_BUF_ERROR", "Z_DATA_ERROR",
            "Z_MEM_ERROR", "Z_VERSION_ERROR"}
zerr(codes) == codes \cap Message

Smaller(m, n) == IF m <= n THEN m ELSE n
-----------------------------------------------------------------------------
(* deflate: the code it returns, the octets it has written, and what       *)
(* deflateEnd then says of the stream.  Z_OK is the answer to Z_FINISH     *)
(* when the output is full, and deflateEnd may not complain, since the     *)
(* stream counts as finished once its last block is begun.  Without        *)
(* Z_FINISH the stream is never ended.                                     *)
Deflate(flush) ==
  IF bSize = 0 THEN {[ret |-> "Z_BUF_ERROR", out |-> 0, end |-> "Z_OK"]}
  ELSE IF flush = "Z_NO_FLUSH"
  THEN {[ret |-> "Z_OK", out |-> n, end |-> "Z_DATA_ERROR"] :
          n \in 0 .. Smaller(stream - 1, bSize)}
  ELSE IF stream <= bSize
  THEN {[ret |-> "Z_STREAM_END", out |-> stream, end |-> "Z_OK"]}
  ELSE [ret : {"Z_OK"}, out : {bSize}, end : {"Z_OK", "Z_DATA_ERROR"}]

(* inflate, of all of b: the end of the stream is reached when it is there *)
(* and its data fit; octets after it are ignored.  Otherwise Z_FINISH is   *)
(* an error, and Z_NO_FLUSH is one only if nothing could be done.          *)
Inflate(flush) ==
  IF b = stream /\ inputSize <= cSize
  THEN {[ret |-> "Z_STREAM_END", out |-> inputSize]}
  ELSE [ret : IF flush = "Z_FINISH" THEN {"Z_BUF_ERROR"} ELSE {"Z_OK", "Z_BUF_ERROR"},
        out : 0 .. Smaller(inputSize, cSize)]

(* Mutants: the calls that are commented out. *)
CompressFlushNone == "Z_NO_FLUSH"
DecompressFlushNone == "Z_NO_FLUSH"

CompressFlush == "Z_FINISH"
DecompressFlush == "Z_FINISH"

compress ==
  /\ stage = "compress"
  /\ \E r \in Deflate(CompressFlush) :
       /\ b' = r.out
       /\ printed' = zerr({r.ret, r.end})
  /\ stage' = "decompress"
  /\ UNCHANGED <<sizes, c>>

decompress ==
  /\ stage = "decompress"
  /\ \E r \in Inflate(DecompressFlush) :
       /\ c' = r.out
       /\ printed' = printed \cup zerr({r.ret})
  /\ stage' = "done"
  /\ UNCHANGED <<sizes, b>>

Next == compress \/ decompress

Spec == Init /\ [][Next]_vars
-----------------------------------------------------------------------------
Restored == b = stream /\ c = inputSize

(* A round trip that prints no error has restored the data.  compress      *)
(* alone gives no such guarantee: its test takes the Z_OK of an unfinished *)
(* stream for success, and may let it pass in silence.                     *)
SilenceMeansRestored == stage = "done" /\ printed = {} => Restored

(* When the stream fits in b and the data in c, as they do in zlib-test.cc *)
(* where the three buffers have one size and a compresses, the data come   *)
(* back and nothing is printed.                                            *)
RestoredWhenItFits ==
  stage = "done" /\ stream <= bSize /\ inputSize <= cSize => Restored /\ printed = {}
=============================================================================
