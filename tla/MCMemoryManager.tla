-------------------------- MODULE MCMemoryManager --------------------------
(* A memory of 256 bytes in vectors of four.                               *)
EXTENDS MemoryManager

MCRegion == [b \in Bus |-> IF b = "main" THEN [start |-> 68, end |-> 87]
                          ELSE [start |-> 136, end |-> 143]]
MCLowmem == [start |-> 128, bytes |-> 8]
MCFunctions == [start |-> 144, bytes |-> 48]
=============================================================================
