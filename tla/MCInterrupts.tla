--------------------------- MODULE MCInterrupts ---------------------------
(***************************************************************************)
(* Small instances of the interrupt unit.                                  *)
(***************************************************************************)
EXTENDS Interrupts

CONSTANTS m1, m2, sw, timer

\* InitBios selects a source that nothing raises at level 2.
MCBootSelect == [i \in MPE |-> sw]
=============================================================================
