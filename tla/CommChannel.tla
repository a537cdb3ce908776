---------------------------- MODULE CommChannel ----------------------------
(***************************************************************************)
(* What the communication bus promises the programs of the MPEs, without   *)
(* arbitration, registers or counters.  Every MPE has one outgoing and one *)
(* incoming packet slot.  A packet leaves the outgoing slot in exactly one *)
(* of three ways: it moves, whole, into the empty incoming slot of the MPE *)
(* it is addressed to; a device takes it; or, when that MPE cannot take    *)
(* it, it is dropped and the sender is told so.  Only its reader empties   *)
(* an incoming slot.                                                       *)
(***************************************************************************)
CONSTANTS
  MPE,       \* the processors
  Target,    \* what a packet can be addressed to: the MPEs and devices
  Packet,    \* packet contents
  NoPacket   \* an empty slot, which is no packet

VARIABLES
  outbox,  \* the packet an MPE is sending
  inbox,   \* the packet an MPE has received, with its sender
  address, \* where an MPE's packets go
  closed,  \* the MPEs that refuse packets
  failed   \* the MPEs whose last packet was dropped

cvars == <<outbox, inbox, address, closed, failed>>

Received == [from : MPE, packet : Packet]

ChannelTypeOK ==
  /\ outbox \in [MPE -> Packet \union {NoPacket}]
  /\ inbox \in [MPE -> Received \union {NoPacket}]
  /\ address \in [MPE -> Target]
  /\ closed \in SUBSET MPE
  /\ failed \in SUBSET MPE

Accepts(t) == t \notin closed /\ inbox[t] = NoPacket

Send(i, p) ==
  /\ outbox[i] = NoPacket
  /\ outbox' = [outbox EXCEPT ![i] = p]
  /\ failed' = failed \ {i}
  /\ UNCHANGED <<inbox, address, closed>>

Deliver(i) ==
  /\ outbox[i] # NoPacket
  /\ address[i] \in MPE /\ Accepts(address[i])
  /\ outbox' = [outbox EXCEPT ![i] = NoPacket]
  /\ inbox' = [inbox EXCEPT ![address[i]] = [from |-> i, packet |-> outbox[i]]]
  /\ UNCHANGED <<address, closed, failed>>

Absorb(i) ==
  /\ outbox[i] # NoPacket
  /\ address[i] \notin MPE
  /\ outbox' = [outbox EXCEPT ![i] = NoPacket]
  /\ UNCHANGED <<inbox, address, closed, failed>>

Drop(i) ==
  /\ outbox[i] # NoPacket
  /\ address[i] \in MPE /\ ~Accepts(address[i])
  /\ outbox' = [outbox EXCEPT ![i] = NoPacket]
  /\ failed' = failed \union {i}
  /\ UNCHANGED <<inbox, address, closed>>

Receive(t) ==
  /\ inbox' = [inbox EXCEPT ![t] = NoPacket]
  /\ UNCHANGED <<outbox, address, closed, failed>>

Configure(i) ==
  /\ \E a \in Target : address' = [address EXCEPT ![i] = a]
  /\ closed' \in {closed \union {i}, closed \ {i}}
  /\ UNCHANGED <<outbox, inbox, failed>>

\* A reset of the processors R empties their slots.
Reset(R) ==
  /\ outbox' = [i \in MPE |-> IF i \in R THEN NoPacket ELSE outbox[i]]
  /\ inbox' = [i \in MPE |-> IF i \in R THEN NoPacket ELSE inbox[i]]
  /\ \E a \in Target :
       address' = [i \in MPE |-> IF i \in R THEN a ELSE address[i]]
  /\ closed' = closed \ R
  /\ failed' = failed \ R

ChannelInit ==
  /\ outbox = [i \in MPE |-> NoPacket]
  /\ inbox = [i \in MPE |-> NoPacket]
  /\ \E a \in Target : address = [i \in MPE |-> a]
  /\ closed = {}
  /\ failed = {}

ChannelNext ==
  \/ \E i \in MPE, p \in Packet : Send(i, p)
  \/ \E i \in MPE : Deliver(i) \/ Absorb(i) \/ Drop(i)
  \/ \E i \in MPE : Receive(i) \/ Configure(i)
  \/ \E R \in SUBSET MPE : Reset(R)

ChannelSpec == ChannelInit /\ [][ChannelNext]_cvars
=============================================================================
