------------------------------ MODULE FifoLink ------------------------------
(***************************************************************************)
(* What a point-to-point link promises to the layers above it, without     *)
(* clocks, queues, events or transmit machines: whatever a device accepts  *)
(* for transmission is in transit until it arrives at the other end; it    *)
(* arrives in the order of acceptance, at most once, with its size and its *)
(* protocol, and the only way to lose it is corruption on arrival.         *)
(* The protocol a receiver is told is the one the sender named, except     *)
(* that compressed IPv4 is handed up as IPv4.                              *)
(***************************************************************************)
EXTENDS Naturals, Sequences

CONSTANTS Device,    \* the devices of the link
          MayLose,   \* the devices whose packets may be corrupted on arrival
          Message,   \* what an upper layer asks to be sent: [size, proto]
          Compressed, Plain  \* the protocol that is handed up as another one

VARIABLES transit,   \* transit[s]: accepted from s, not yet at the other end
          outcome,   \* outcome[s]: what became of the packets of s, in order
          dead       \* the simulation has been aborted by an assertion

vars == <<transit, outcome, dead>>

(* What the receiving side is told about a message. *)
Presented(m) == [m EXCEPT !.proto = IF @ = Compressed THEN Plain ELSE @]

Init ==
  /\ transit = [s \in Device |-> <<>>]
  /\ outcome = [s \in Device |-> <<>>]
  /\ dead = FALSE

Accept(s, m) ==
  /\ ~dead
  /\ transit' = [transit EXCEPT ![s] = Append(@, m)]
  /\ UNCHANGED <<outcome, dead>>

(* The oldest message in transit from s arrives, intact or corrupted. *)
Arrive(s) ==
  /\ ~dead
  /\ transit[s] # <<>>
  /\ transit' = [transit EXCEPT ![s] = Tail(@)]
  /\ \E lost \in BOOLEAN :
       /\ lost => s \in MayLose
       /\ outcome' = [outcome EXCEPT ![s] =
            Append(@, [msg |-> Presented(Head(transit[s])), lost |-> lost])]
  /\ UNCHANGED dead

Abort ==
  /\ ~dead
  /\ dead' = TRUE
  /\ UNCHANGED <<transit, outcome>>

Next ==
  \/ \E s \in Device, m \in Message : Accept(s, m)
  \/ \E s \in Device : Arrive(s)
  \/ Abort

Spec == Init /\ [][Next]_vars
=============================================================================
