------------------------------ MODULE Packets ------------------------------
(***************************************************************************)
(* Packets of instructions.  The instructions of a packet belong to        *)
(* different units and read the registers as they were at its start, but   *)
(* are executed one after the other: DecompressPacket puts them in an      *)
(* order, and says whether some instruction of that order reads what an    *)
(* earlier one writes, in which case the registers must be copied first.   *)
(*                                                                         *)
(* An instruction is a record: its unit, the cells in and out that the     *)
(* decoder declares as its dependencies (registers and flags alike),       *)
(* whether it loads from memory, whether an emitter exists for it, and k,  *)
(* for what it computes.  mem stands for the memory and for the control    *)
(* registers that have no dependency mask, the stack pointer among them;   *)
(* an instruction that changes it has mem in out, and is marked if the     *)
(* decoder says so (DEPENDENCY_MASK_MEM_STORE): it does for st_s Sj,(Si)   *)
(* alone.  Other stores, push and pop, and the stores to control registers *)
(* are not marked.                                                         *)
(* indirect: r0 holds its address, which may be that of a control register *)
(* of the processor, and emitted code cannot access these.                 *)
(* An ECU instruction has its condition (cond: it reads z), its target to  *)
(* (an address, rz, or none: halt), whether its delay slots are implicit   *)
(* (nop), whether it is a call (link), and where the call returns to.      *)
(***************************************************************************)
EXTENDS Integers, Sequences, SequencesExt

Operation(unit, in, out, loads, emits, k) ==
    [unit |-> unit, in |-> in, out |-> out, loads |-> loads, emits |-> emits, k |-> k,
     indirect |-> FALSE, marked |-> TRUE]
Unmarked(n) == [n EXCEPT !.marked = FALSE]
Indirectly(n) == [n EXCEPT !.indirect = TRUE, !.in = @ \cup {"r0"}]
\* The targets that are no addresses.
InRz == 0
Nowhere == -1
Ecu(cond, to, nop, link) ==
    [unit |-> "ECU", in |-> (IF cond THEN {"z"} ELSE {}) \cup (IF to = InRz THEN {"rz"} ELSE {}),
     out |-> IF link THEN {"rz"} ELSE {}, loads |-> FALSE, emits |-> to # Nowhere, indirect |-> FALSE, marked |-> TRUE,
     cond |-> cond, to |-> to, nop |-> nop, link |-> link, return |-> 0]

\* The packet's instructions, and its flags: NEVERCOMPILE, MEMORY_IO or
\* MEMORY_INDIRECT, and BREAKPOINT.
PacketOf(units, never, io, breakpoint) == [units |-> units, never |-> never, io |-> io, breakpoint |-> breakpoint]
Unit(p, u) == CHOOSE n \in p.units : n.unit = u
Has(p, u) == \E n \in p.units : n.unit = u

\* The cells in which y depends on x, if x is executed first.
Dependencies(x, y) == y.in \cap x.out

\* The later of two instructions should read little of what the earlier writes.
ChooseInstructionPairOrdering(x, y) ==
    IF Cardinality(Dependencies(x, y)) > Cardinality(Dependencies(y, x)) THEN <<y, x>> ELSE <<x, y>>

\* What the instructions of a sequence read of what earlier ones write.
CellsIn(s) == UNION {UNION {Dependencies(s[i], s[j]) : i \in 1 .. j - 1} : j \in 1 .. Len(s)}
Score(s) == Cardinality(CellsIn(s))

\* The last of the candidates with the lowest score, and the place it names.
LastLowest(scored) ==
    LET score == [i \in DOMAIN scored |-> Score(scored[i])]
        least == CHOOSE k \in Range(score) : \A i \in DOMAIN scored : k <= score[i]
    IN SelectLastInSeq(score, LAMBDA k : k = least)

\* The scores are those of six orders; the third and the fifth put the
\* instructions in each other's places.
ScheduleInstructionTriplet(a, b, c) ==
    LET scored == <<<<a, b, c>>, <<a, c, b>>, <<b, c, a>>, <<b, a, c>>, <<c, a, b>>, <<c, b, a>>>>
        placed == <<<<a, b, c>>, <<a, c, b>>, <<c, a, b>>, <<b, a, c>>, <<b, c, a>>, <<c, b, a>>>>
    IN placed[LastLowest(scored)]

ScheduleInstructionQuartet(rcu, alu, mul, mem) ==
    LET scored == <<<<rcu, alu, mul, mem>>, <<rcu, mul, alu, mem>>, <<mul, rcu, alu, mem>>,
                    <<mem, rcu, mul, alu>>, <<mem, mul, rcu, alu>>, <<rcu, mem, mul, alu>>>>
    IN scored[LastLowest(scored)]

\* The order of a packet, without its ECU instruction: for the interpreter, and
\* for the compiler, which takes memory accesses first.
Scheduled(p, memFirst) ==
    LET rcu == Unit(p, "RCU")  alu == Unit(p, "ALU")  mul == Unit(p, "MUL")  mem == Unit(p, "MEM")
        units == {n.unit : n \in p.units} \ {"ECU"}
    IN CASE units = {} -> <<>>
         [] units \in {{"MEM"}, {"RCU"}, {"MUL"}, {"ALU"}} -> <<CHOOSE n \in p.units : n.unit \in units>>
         [] units = {"MEM", "RCU"} -> IF memFirst THEN <<mem, rcu>> ELSE ChooseInstructionPairOrdering(rcu, mem)
         [] units = {"MUL", "RCU"} -> ChooseInstructionPairOrdering(rcu, mul)
         [] units = {"MUL", "MEM"} -> IF memFirst THEN <<mem, mul>> ELSE ChooseInstructionPairOrdering(mul, mem)
         [] units = {"ALU", "MEM"} -> IF memFirst THEN <<mem, alu>> ELSE ChooseInstructionPairOrdering(alu, mem)
         [] units = {"ALU", "RCU"} -> <<rcu, alu>>
         [] units = {"ALU", "MUL"} -> ChooseInstructionPairOrdering(alu, mul)
         [] units = {"MUL", "MEM", "RCU"} -> IF ~memFirst THEN ScheduleInstructionTriplet(mul, mem, rcu)
                                             ELSE IF Has(p, "ECU") THEN <<mem, rcu, mul>> ELSE <<mem, mul, rcu>>
         [] units = {"ALU", "MEM", "RCU"} -> IF memFirst THEN <<mem, rcu, alu>> ELSE ScheduleInstructionTriplet(alu, mem, rcu)
         [] units = {"ALU", "MUL", "RCU"} -> ScheduleInstructionTriplet(alu, mul, rcu)
         [] units = {"ALU", "MUL", "MEM"} -> IF memFirst THEN <<mem, alu, mul>> ELSE ScheduleInstructionTriplet(alu, mul, mem)
         [] OTHER -> IF ~memFirst THEN ScheduleInstructionQuartet(rcu, alu, mul, mem)
                     ELSE IF Has(p, "ECU") THEN <<mem, rcu, alu, mul>>
                     ELSE <<mem>> \o ScheduleInstructionTriplet(alu, mul, rcu)

\* The decoded packet at an address.  DECOMPRESS_OPTIONS_INHIBIT_ECU leaves its
\* ECU instruction out.  A call returns behind its delay slots.
DecompressPacket(p, pcexec, inhibit, memFirst) ==
    LET ecu == Has(p, "ECU") /\ ~inhibit
        kept == IF inhibit THEN [p EXCEPT !.units = {n \in @ : n.unit # "ECU"}] ELSE p
        s == Scheduled(kept, memFirst)
             \o IF ecu THEN <<[Unit(p, "ECU") EXCEPT !.return = pcexec + IF Unit(p, "ECU").nop THEN 1 ELSE 3]>> ELSE <<>>
    IN [nuances |-> s, pcexec |-> pcexec, pcroute |-> pcexec + 1,
        dependencyPresent |-> CellsIn(s) # {}, ecu |-> ecu,
        never |-> p.never, io |-> p.io, breakpoint |-> p.breakpoint]
=============================================================================
