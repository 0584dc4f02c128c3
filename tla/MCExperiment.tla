---------------------------- MODULE MCExperiment ----------------------------
(* Instances of Experiment for TLC. *)
EXTENDS Experiment

Line(name, value) == [name |-> name, value |-> value]

(* config.txt as it is, and with any of its lines missing; a second line   *)
(* for two of the names, and lines without "=" or with a number too large. *)
Shipped ==
  <<Line("packetSize", 1100), Line("maxPacketCount", 6000),
    Line("outerDataRate", "8Mbps"), Line("threshold", 100),
    Line("compressionLinkCapacity", 5), Line("useCompression", 1)>>
Others ==
  <<Line("packetSize", 100000000), Line("outerDataRate", "4Mbps"),
    Line("threshold", Unreadable), Line("outerDataRate", Unreadable)>>
Every == Shipped \o Others
Position == [k \in 1 .. Len(Every) |-> k]
Chosen(S) ==
  LET kept == SelectSeq(Position, LAMBDA k : k \in S)
  IN [k \in 1 .. Len(kept) |-> Every[kept[k]]]
AnyFile == {Chosen(S) : S \in SUBSET (1 .. Len(Every))}

(* By hand: as the manual says, without options, with a capacity of 0 or  *)
(* below, and with an option that is misspelt.                             *)
ByHand == {<<Command(1, NoOption)>>, <<Command(NoOption, NoOption)>>, <<Command(0, 1)>>,
           <<Command(-1, 1)>>, <<Command(2, Unreadable)>>}

Anything == {RunPy} \cup ByHand
=============================================================================
