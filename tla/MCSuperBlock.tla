---------------------------- MODULE MCSuperBlock ----------------------------
(* Programs for the runs of SuperBlock: three or four packets at the        *)
(* addresses from 1, of a few instructions each.                            *)
EXTENDS SuperBlock

Op(unit, in, out, k) == Operation(unit, in, out, FALSE, TRUE, k)
Ordinary(units) == PacketOf(units, FALSE, FALSE, FALSE)

NoOp == Ordinary({})
Advance == Ordinary({Op("ALU", {"r0"}, {"r0", "z"}, 1)})
Test == Ordinary({Op("ALU", {"r1"}, {"z"}, 0)})
Set == Ordinary({Op("MUL", {}, {"r1"}, 1)})
\* Each reads what the other writes.
Exchange == Ordinary({Op("MUL", {"r1"}, {"r0"}, 0), Op("ALU", {"r0"}, {"r1", "z"}, 1)})
LoadUse == Ordinary({Operation("MEM", {"r0"}, {"r1"}, TRUE, TRUE, 0), Op("ALU", {"r1"}, {"r0", "z"}, 1)})
StoreSet == Ordinary({Operation("MEM", {"r1"}, {"mem"}, FALSE, TRUE, 1), Op("RCU", {"r1"}, {"r1"}, 1)})
Wide == Ordinary({Operation("MEM", {"r0"}, {"mem"}, FALSE, TRUE, 0), Op("ALU", {"r1"}, {"r0"}, 1),
                  Op("MUL", {"r0"}, {"r1"}, 0), Op("RCU", {"r0", "r1"}, {"z"}, 0)})
\* What is stored is the same for a control register.
Reach == PacketOf({Indirectly(Operation("MEM", {}, {"mem"}, FALSE, TRUE, 1)), Op("ALU", {"r1"}, {"r1"}, 0)}, FALSE, TRUE, FALSE)
\* A vector load is not marked as MEMORY_INDIRECT.
ReachVector == Ordinary({Indirectly(Operation("MEM", {}, {"r1"}, TRUE, TRUE, 1)), Op("ALU", {"r0"}, {"z"}, 0)})
Push == Ordinary({Unmarked(Operation("MEM", {"r0"}, {"mem"}, FALSE, TRUE, 1))})
PopRz == Ordinary({Unmarked(Operation("MEM", {}, {"rz", "mem"}, TRUE, TRUE, 1))})
\* No emitter exists for loads of vectors from control registers.
Unemitted == Ordinary({Operation("MEM", {}, {"r1"}, TRUE, FALSE, 1)})
Control == PacketOf({Unmarked(Operation("MEM", {"r0"}, {"mem"}, FALSE, TRUE, 1))}, FALSE, TRUE, FALSE)
Stop == PacketOf({}, FALSE, FALSE, TRUE)
StopAdvance == PacketOf({Op("ALU", {"r0"}, {"r0"}, 1)}, FALSE, FALSE, TRUE)

Bodies == {NoOp, Advance, Set, Exchange, LoadUse, StoreSet, Wide, Unemitted, Reach, ReachVector, Push, PopRz}
BranchesOf(units) ==
    {Ordinary(units \cup {e}) :
        e \in {Ecu(FALSE, 5, FALSE, FALSE), Ecu(TRUE, 5, FALSE, FALSE), Ecu(TRUE, 1, TRUE, FALSE),
               Ecu(FALSE, 4, FALSE, TRUE), Ecu(TRUE, 4, FALSE, TRUE), Ecu(TRUE, InRz, FALSE, FALSE)}}
BranchPackets == BranchesOf({}) \cup BranchesOf({Op("ALU", {"r1"}, {"z"}, 1)})
Slots == {NoOp, Advance, Exchange, StoreSet, Unemitted, ReachVector, Control, StopAdvance,
          Ordinary({Ecu(FALSE, 2, TRUE, FALSE)}), Ordinary({Ecu(TRUE, 2, TRUE, FALSE)})}

MCPrograms ==
    {<<b, c, s1, s2>> : b \in Bodies \ {NoOp, Set}, c \in BranchPackets, s1 \in Slots, s2 \in Slots}
    \cup {<<b1, b2, b3>> : b1 \in Bodies, b2 \in Bodies \cup {Control, Stop, Test}, b3 \in Bodies \cup {Test}}

Start(r0, z) == [c \in Cells |-> CASE c = "r0" -> r0 [] c = "r1" -> 1 [] c = "z" -> z [] c = "rz" -> 3 [] OTHER -> 0]
MCStarts == {Start(0, 1), Start(1, 0)}
MCOptions == [native : BOOLEAN, deadCode : BOOLEAN, max : {1, 4}]
=============================================================================
