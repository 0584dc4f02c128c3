---------------------------- MODULE MCClientFill ----------------------------
(* Instances of ClientFill for TLC. *)
EXTENDS ClientFill

Octets2 == {0, 1}
=============================================================================
