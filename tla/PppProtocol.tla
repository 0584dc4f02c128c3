---------------------------- MODULE PppProtocol ----------------------------
(***************************************************************************)
(* The PPP encapsulation used by PointToPointNetDevice: the two-octet      *)
(* header of ppp-header.cc and the two tables EtherToPpp and PppToEther    *)
(* that translate between the EtherType an upper layer names and the PPP   *)
(* protocol number that travels on the wire.  The tables are partial: a    *)
(* number outside their domain makes NS_ASSERT_MSG fail ("PPP Protocol     *)
(* number not defined!").                                                  *)
(***************************************************************************)
EXTENDS Naturals

IPv4 == 2048            \* 0x0800
IPv6 == 34525           \* 0x86DD
CompressedIPv4 == 16417 \* 0x4021, used both as an EtherType and on the wire

PppIPv4 == 33           \* 0x0021
PppIPv6 == 87           \* 0x0057
PppNone == 0            \* 0x0000

KnownEtherType == {IPv4, IPv6, CompressedIPv4}
KnownPpp == {PppIPv4, PppIPv6, CompressedIPv4, PppNone}

(* The cases of the switch in EtherToPpp. *)
EtherToPpp ==
  [ether \in KnownEtherType |->
     CASE ether = IPv4           -> PppIPv4
       [] ether = IPv6           -> PppIPv6
       [] ether = CompressedIPv4 -> CompressedIPv4]

(* The cases of the switch in PppToEther. *)
PppToEther ==
  [ppp \in KnownPpp |->
     CASE ppp = PppIPv4        -> IPv4
       [] ppp = PppIPv6        -> IPv6
       [] ppp = CompressedIPv4 -> IPv4
       [] ppp = PppNone        -> IPv4]

(* GetSerializedSize: the octets AddHeader puts in front of a packet. *)
PppHeaderSize == 2
=============================================================================
