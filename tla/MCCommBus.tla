----------------------------- MODULE MCCommBus -----------------------------
(***************************************************************************)
(* Small instances of the communication bus.                               *)
(***************************************************************************)
EXTENDS CommBus

CONSTANTS w0, w1, none, audio, sw, irq

\* InitBios selects the receive interrupt on the MPE that runs the BIOS.
MCBootSelect == [i \in MPE |-> IF i \in BiosMPE THEN irq ELSE sw]

Ctl(d, r, l, t) ==
  [recvDisable |-> d, retry |-> r, lock |-> l, target |-> t]

\* Sending to MPE 1, which opens and closes, and to a device.
MCClosing == {Ctl(d, r, FALSE, 1) : d, r \in BOOLEAN}
               \union {Ctl(FALSE, FALSE, FALSE, audio)}

\* Everybody sends to MPE 0, with and without retry and locking the bus.
MCToZeroLocking == {Ctl(FALSE, r, l, 0) : r, l \in BOOLEAN}

\* Everybody sends to MPE 0, which may close.
MCToZeroClosing == {Ctl(d, FALSE, FALSE, 0) : d \in BOOLEAN}
=============================================================================
