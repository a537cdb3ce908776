----------------------------- MODULE SuperBlock -----------------------------
(***************************************************************************)
(* How a processor executes a program: packet by packet, or in blocks of   *)
(* packets that were compiled, to native code or to a list of instructions *)
(* for the interpreter ("IL").  The data of an instruction is abstracted   *)
(* to a function of the cells it reads; what is modelled is which packets  *)
(* a block takes, the order of their instructions, which registers are     *)
(* copied first, which instructions and outputs are left out, and how      *)
(* branches count their delay slots.                                       *)
(*                                                                         *)
(* reference is the same processor, always executing one packet at a time. *)
(***************************************************************************)
EXTENDS Packets

CONSTANTS
    Programs,       \* sequences of packets, at the addresses 1, 2, ...
    Starts,         \* contents of the cells
    Options,        \* records: native code, dead code elimination, packets in a block
    Values,         \* what a cell holds: 0 .. Values - 1
    Defects         \* the known defects of the compiler a block may meet

VARIABLES program, options, cpu, reference,
    numPackets, \* in the list of the block that was run last
    late        \* cells whose last write was left out of a block that was then left early
vars == <<program, options, cpu, reference, numPackets, late>>

Registers == {"r0", "r1", "z"}
Cells == Registers \cup {"rz", "mem", "excepsrc"}
ControlRegister == 1    \* as an address

\* What the decoder makes of an instruction: only the memory unit accesses
\* memory, marked or not, and no two instructions of a packet have a unit or an
\* output in common.
IsInstruction(n) ==
    /\ n.in \subseteq Registers \cup {"rz"}
    /\ n.unit \in {"MEM", "RCU", "MUL", "ALU"} =>
           /\ n.out \subseteq Registers \cup {"rz", "mem"}
           /\ n.k \in Int
           /\ n.loads \in BOOLEAN /\ n.emits \in BOOLEAN /\ n.indirect \in BOOLEAN /\ n.marked \in BOOLEAN
           /\ n.unit # "MEM" => ~n.loads /\ ~n.indirect /\ "mem" \notin n.out
    /\ n.unit \notin {"MEM", "RCU", "MUL", "ALU"} =>
           /\ n.cond \in BOOLEAN /\ n.to \in Int /\ n.nop \in BOOLEAN /\ n.link \in BOOLEAN
           /\ n = Ecu(n.cond, n.to, n.nop, n.link)
           /\ n.to = Nowhere => ~n.link
IsPacket(p) ==
    /\ p = PacketOf(p.units, p.never, p.io, p.breakpoint)
    /\ p.never \in BOOLEAN /\ p.io \in BOOLEAN /\ p.breakpoint \in BOOLEAN
    /\ \A n \in p.units : IsInstruction(n)
    /\ \A m, n \in p.units : m # n => m.unit # n.unit /\ m.out \cap n.out = {}
    /\ (\E n \in p.units : n.unit = "ECU" /\ n.to = Nowhere) => p.never

ASSUME ProgramAssumption ==
    \A q \in Programs : Len(q) \in Nat /\ DOMAIN q = 1 .. Len(q) /\ \A a \in DOMAIN q : IsPacket(q[a])
ASSUME SuperBlockAssumption ==
    /\ Values \in Nat \ {0}
    /\ \A o \in Options : o.native \in BOOLEAN /\ o.deadCode \in BOOLEAN /\ o.max \in Nat
    /\ \A f \in Starts : f \in [Cells -> Int] /\ \A c \in Registers \cup {"mem"} : f[c] \in 0 .. Values - 1

\* Behind the program the processor halts.
Bios == PacketOf({Ecu(FALSE, Nowhere, TRUE, FALSE)}, TRUE, FALSE, FALSE)
Packet(a) == IF a \in DOMAIN program THEN program[a] ELSE Bios
\* Every packet of the programs as it is decoded at the addresses they have.
Addresses == 1 .. Max({Len(q) : q \in Programs})
DecodedPackets ==
    [p \in UNION {Range(q) : q \in Programs} |->
        [a \in Addresses |-> [inhibit \in BOOLEAN |-> [memFirst \in BOOLEAN |->
            DecompressPacket(p, a, inhibit, memFirst)]]]]
Decoded(a, inhibit, memFirst) ==
    IF a \in DOMAIN program /\ a \in Addresses THEN DecodedPackets[program[a]][a][inhibit][memFirst]
    ELSE DecompressPacket(Packet(a), a, inhibit, memFirst)

-----------------------------------------------------------------------------
\* What an instruction computes from the cells it reads.
Sum(f, S) ==
    LET At(c) == IF c \in S THEN f[c] ELSE 0
    IN At("r0") + At("r1") + At("z") + At("rz") + At("mem")
Reads(n) == IF n.loads THEN n.in \cup {"mem"} ELSE n.in
Result(n, c, f) == (n.k + (IF c = "r1" THEN 1 ELSE 0) + Sum(f, Reads(n))) % Values

\* It writes the outputs in W; from is where it reads registers, tempCC where
\* a branch reads the flags, skip how many packets a branch waits for.
Compute(n, W, from, x) ==
    LET f == [from EXCEPT !["mem"] = x.f["mem"]]
    IN [x EXCEPT !.f = [c \in Cells |-> IF c \in W THEN Result(n, c, f) ELSE @[c]]]
Taken(n, x, tempCC) == x.ecuSkipCounter = 0 /\ n.to # Nowhere /\ (n.cond => tempCC["z"] = 0)
Branch(n, from, tempCC, skip, x) ==
    IF ~Taken(n, x, tempCC) THEN x
    ELSE [x EXCEPT !.pcfetchnext = IF n.to = InRz THEN from["rz"] ELSE n.to,
                   !.f["rz"] = IF n.link THEN n.return ELSE @,
                   !.ecuSkipCounter = IF n.nop THEN 1 ELSE skip]
Perform(n, W, from, tempCC, skip, x) ==
    IF n.unit = "ECU" THEN Branch(n, from, tempCC, skip, x) ELSE Compute(n, W, from, x)

\* MPE::ExecuteNuances: all instructions read the copy if one of them must.
ExecuteNuances(p, x) ==
    FoldLeft(LAMBDA y, n : Perform(n, n.out, IF p.dependencyPresent THEN x.f ELSE y.f, x.f, 3, y),
             IF p.breakpoint THEN [x EXCEPT !.f["excepsrc"] = 1] ELSE x, p.nuances)

\* The end of FetchDecodeExecute.
Retired(x) ==
    IF x.ecuSkipCounter = 0 THEN x
    ELSE IF x.ecuSkipCounter = 1 THEN [x EXCEPT !.ecuSkipCounter = 0, !.pcexec = x.pcfetchnext]
    ELSE [x EXCEPT !.ecuSkipCounter = @ - 1]

\* FetchDecodeExecute when it interprets.
InterpretPacket(p, x) == Retired(ExecuteNuances(p, [x EXCEPT !.pcexec = p.pcroute, !.interpretNextPacket = 0]))
Interpreted(x) == InterpretPacket(Decoded(x.pcexec, FALSE, FALSE), x)

\* The same, k times.
ManyInterpreted(x, k) == FoldLeft(LAMBDA y, i : Interpreted(y), x, [i \in 1..k |-> i])

-----------------------------------------------------------------------------
(* FetchSuperBlock                                                         *)

\* The list of packets, where the block ends, the packets processed, and
\* whether the compiler goes on.
Fetching(a, left) == [packets |-> <<>>, next |-> a, exit |-> a, processed |-> 0, branch |-> FALSE, left |-> left]

IsEmpty(p) == p.nuances = <<>>
Uncompilable(p) == p.never \/ p.io \/ p.ecu

\* The block ends before the packet.
EndBefore(b, p) == [b EXCEPT !.exit = p.pcexec, !.left = 0]
\* Mutant: packets are not counted.
AddPacketUncounted(b, p) ==
    [b EXCEPT !.packets = Append(@, p), !.next = p.pcroute, !.exit = p.pcroute, !.processed = @ + 1]
AddPacket(b, p) ==
    [b EXCEPT !.packets = Append(@, p), !.next = p.pcroute, !.exit = p.pcroute,
              !.processed = @ + 1, !.left = @ - 1]
SkipPacket(b, p) == [b EXCEPT !.next = p.pcroute, !.exit = p.pcroute, !.processed = @ + 1]

EcuOf(p) == Last(p.nuances)
\* A branch ends the block, with its delay slots; those that are empty are left
\* out.  Behind a branch that is always taken the ECU is inhibited.
AddUnlessEmpty(list, s) == IF IsEmpty(s) THEN list ELSE Append(list, s)
AddDelaySlots(b, s1, s2) ==
    [b EXCEPT !.packets = AddUnlessEmpty(AddUnlessEmpty(@, s1), s2), !.exit = s2.pcroute, !.processed = @ + 2]
AddBranchAndSlots(b, p, s1, s2) ==
    IF EcuOf(p).nop THEN AddPacket(b, p)
    ELSE IF Uncompilable(s1) \/ Uncompilable(s2) THEN EndBefore(b, p)
    ELSE AddDelaySlots(AddPacket(b, p), s1, s2)
AddBranch(b, p) ==
    LET Slot(i) == Decoded(p.pcexec + i, ~EcuOf(p).cond, TRUE)
    IN [AddBranchAndSlots(b, p, Slot(1), Slot(2)) EXCEPT !.branch = TRUE, !.left = 0]

AddFetched(b, p) ==
    IF IsEmpty(p) THEN SkipPacket(b, p)
    ELSE IF p.never \/ p.breakpoint THEN EndBefore(b, p)
    ELSE IF p.ecu THEN AddBranch(b, p)
    ELSE AddPacket(b, p)
FetchPacket(b) == IF b.left = 0 THEN b ELSE AddFetched(b, Decoded(b.next, FALSE, TRUE))
FetchSuperBlock(a) ==
    FoldLeft(LAMBDA b, i : FetchPacket(b), Fetching(a, options.max), [i \in 1 .. Len(program) + 2 |-> i])

-----------------------------------------------------------------------------
(* CompileBlock                                                            *)

\* AddInstructionsToList; UpdateDependencyInfo, for a packet of the list.
Entries(p) == [i \in DOMAIN p.nuances |-> [n |-> p.nuances[i], out |-> p.nuances[i].out, dead |-> FALSE]]
Depend(a, e) ==
    IF e.dead THEN a ELSE [op |-> a.op \cup (e.n.in \cap a.out), out |-> a.out \cup e.out]
OpDependencies(q) == FoldLeft(LAMBDA a, e : Depend(a, e), [op |-> {}, out |-> {}], q).op

\* PerformDeadCodeElimination, from the last packet to the first and in each
\* from the last instruction to the first: masked is what need not be written,
\* because packets that follow write it before they read it.  An instruction
\* that declares nothing else is dead, also if it stores and is not marked.
Declared(e) == IF e.n.marked THEN e.out ELSE e.out \ {"mem"}
Eliminated(e, masked) == [e EXCEPT !.out = @ \ masked, !.dead = (Declared(e) \subseteq masked)]
\* Mutant: a packet's inputs are removed from the mask one instruction at a time.
MaskingInOrder(e, a, masked) ==
    [in |-> {}, next |-> (a.next \ e.n.in) \cup (e.out \ (masked \cup {"mem"}))]
Masking(e, a, masked) ==
    LET in == a.in \cup e.n.in
    IN [in |-> in, next |-> (a.next \cup (e.out \ (masked \cup {"mem"}))) \ in]
NextMask(q, masked) == FoldRight(LAMBDA e, a : Masking(e, a, masked), q, [in |-> {}, next |-> masked]).next
EliminateIn(q, a) ==
    [masked |-> NextMask(q, a.masked), list |-> <<[i \in DOMAIN q |-> Eliminated(q[i], a.masked)]>> \o a.list]
\* Mutant: nothing is needed behind the block.
PerformDeadCodeEliminationToEnd(list) ==
    FoldRight(LAMBDA q, a : EliminateIn(q, a), list, [masked |-> Registers, list |-> <<>>]).list
PerformDeadCodeElimination(list) ==
    FoldRight(LAMBDA q, a : EliminateIn(q, a), list, [masked |-> {}, list |-> <<>>]).list

ListOf(entries) == IF options.deadCode THEN PerformDeadCodeElimination(entries) ELSE entries
Compiled(b) ==
    [list |-> ListOf([i \in DOMAIN b.packets |-> Entries(b.packets[i])]),
     at |-> [i \in DOMAIN b.packets |-> b.packets[i].pcexec],
     exit |-> b.exit, processed |-> b.processed, branch |-> b.branch,
     native |-> options.native /\ \A p \in Range(b.packets) : \A n \in Range(p.nuances) : n.emits]
CompileBlock(a) == Compiled(FetchSuperBlock(a))

-----------------------------------------------------------------------------
(* Execution of a block                                                    *)

\* As IL: SaveRegs or SaveFlags, the instructions that are live, and
\* CheckECUSkipCounter at the end of each packet.
ExecuteIL(x, saved, y, e) ==
    IF e.dead THEN y ELSE Perform(e.n, e.n.out, IF saved THEN x.f ELSE y.f, x.f, 3, y)
RunPacketIL(q, x) == FoldLeft(LAMBDA y, e : ExecuteIL(x, OpDependencies(q) # {}, y, e), x, q)
\* Mutant: a branch that was not taken is counted too.
CheckECUSkipCounterAlways(x) ==
    IF x.ecuSkipCounter = 1 THEN [x EXCEPT !.ecuSkipCounter = 0, !.pcexec = x.pcfetchnext]
    ELSE [x EXCEPT !.ecuSkipCounter = @ - 1]
CheckECUSkipCounter(x) ==
    IF x.ecuSkipCounter = 1 THEN [x EXCEPT !.ecuSkipCounter = 0, !.pcexec = x.pcfetchnext]
    ELSE IF x.ecuSkipCounter = 0 THEN x ELSE [x EXCEPT !.ecuSkipCounter = @ - 1]
NextPacketIL(q, z) ==
    IF z.taken THEN z
    ELSE LET y == RunPacketIL(q, z.x) IN [x |-> CheckECUSkipCounter(y), taken |-> y.ecuSkipCounter = 1]
RunIL(b, x) ==
    FoldLeft(LAMBDA z, q : NextPacketIL(q, z), [x |-> [x EXCEPT !.pcexec = b.exit], taken |-> FALSE], b.list).x

\* Emitted code leaves the block when it meets the address of a control
\* register: the interpreter executes that packet, from its beginning.
Left(y) == y.interpretNextPacket = 1
LeaveBlock(y, i, b) == [y EXCEPT !.pcexec = b.at[i], !.interpretNextPacket = 1]

\* As native code: a register is read from the copy x if an earlier instruction
\* writes it; an output that is not needed may be written (all) or not.
Reading(op, x, y) == [c \in Cells |-> IF c \in op THEN x.f[c] ELSE y.f[c]]
ExecuteNative(b, i, all, x, from, y, e) ==
    IF Left(y) \/ e.dead THEN y
    ELSE IF e.n.indirect /\ from["r0"] = ControlRegister THEN LeaveBlock(y, i, b)
    ELSE Perform(e.n, IF all THEN e.n.out ELSE e.out, from, from, 1, y)
RunPacketNative(b, i, all, x) ==
    FoldLeft(LAMBDA y, e : ExecuteNative(b, i, all, x, Reading(OpDependencies(b.list[i]), x, y), y, e), x, b.list[i])
RunNative(b, all, x) ==
    FoldLeft(LAMBDA z, i : RunPacketNative(b, i, all, z),
             [x EXCEPT !.pcexec = b.exit, !.pcfetchnext = IF b.branch /\ b.list # <<>> THEN b.exit ELSE @],
             [i \in DOMAIN b.list |-> i])
\* The packets executed, those that are empty included.
Executed(b, y, a) == IF Left(y) THEN y.pcexec - a ELSE b.processed
\* The cells that the packets before the one it was left at do not write any more.
LeftOut(b, y) ==
    IF Left(y)
    THEN UNION {e.n.out \ e.out : e \in UNION {Range(b.list[j]) : j \in {i \in DOMAIN b.list : b.at[i] < y.pcexec}}}
    ELSE {}

-----------------------------------------------------------------------------
\* What is known to go wrong in a block (see the README):
\* a branch has no outputs, so it is eliminated;
DeadBranch(b) == \E i \in DOMAIN b.list : \E e \in Range(b.list[i]) : e.dead /\ e.n.unit = "ECU"
\* most stores are not marked, and are eliminated, pushes and pops as well;
LostStore(b) == \E i \in DOMAIN b.list : \E e \in Range(b.list[i]) : e.dead /\ "mem" \in e.n.out
\* the IL of a delay slot that is empty does not count it;
EmptySlot(b) ==
    /\ ~b.native
    /\ \E i \in DOMAIN b.list : \E e \in Range(b.list[i]) : e.n.unit = "ECU" /\ ~e.n.nop /\ i > Len(b.list) - 2
\* an output that is no longer needed is written, and read in the same packet.
StrayOutput(b) ==
    \E i \in DOMAIN b.list : \E j, k \in DOMAIN b.list[i] :
        LET d == b.list[i][j]  e == b.list[i][k]
        IN j < k /\ ~d.dead /\ ~e.dead /\ (d.n.out \ d.out) \cap e.n.in # {}
\* a call counts as a write of rz although it may not be taken;
LostReturn(b) ==
    \E i, j \in DOMAIN b.list : \E d \in Range(b.list[i]), e \in Range(b.list[j]) :
        i < j /\ "rz" \in d.n.out \ d.out /\ e.n.unit = "ECU" /\ e.n.link /\ e.n.cond
\* a vector load in a delay slot leaves the block for the interpreter, which
\* does not execute it when the branch was taken;
LeftSlot(b) ==
    \E i, j \in DOMAIN b.list : \E d \in Range(b.list[i]), e \in Range(b.list[j]) :
        i < j /\ d.n.unit = "ECU" /\ e.n.indirect
\* a packet that is only a breakpoint is taken for a NOP, and delay slots are
\* not searched for breakpoints.
LostBreakpoint(a, b) == \E c \in a .. a + b.processed - 1 : Packet(c).breakpoint

Met(a, b) ==
    {d \in {"DeadBranch", "LostStore", "EmptySlot", "StrayOutput", "LostReturn", "LeftSlot", "LostBreakpoint"} :
        CASE d = "DeadBranch" -> DeadBranch(b)
          [] d = "LostStore" -> LostStore(b)
          [] d = "EmptySlot" -> EmptySlot(b)
          [] d = "StrayOutput" -> StrayOutput(b)
          [] d = "LostReturn" -> LostReturn(b)
          [] d = "LeftSlot" -> LeftSlot(b)
          [] d = "LostBreakpoint" -> LostBreakpoint(a, b)}

-----------------------------------------------------------------------------
Init ==
    /\ program \in Programs
    /\ options \in Options
    /\ cpu \in [f : Starts, pcexec : {1}, pcfetchnext : {0}, ecuSkipCounter : {0}, interpretNextPacket : {0}]
    /\ reference = cpu
    /\ numPackets = 0
    /\ late = {}

\* The processor stands before the code behind the program.
Halted(x) == Packet(x.pcexec) = Bios /\ x.ecuSkipCounter = 0

\* The registers in which the processor and the reference are apart.
Apart == {c \in Cells : cpu.f[c] # reference.f[c]}
Interpret ==
    /\ ~Halted(cpu)
    /\ cpu' = Interpreted(cpu)
    /\ reference' = Interpreted(reference)
    /\ numPackets' = 0
    /\ late' = late \cap Apart'
    /\ UNCHANGED <<program, options>>

RunAsIL(b) ==
    /\ ~b.native
    /\ cpu' = RunIL(b, cpu)
    /\ reference' = ManyInterpreted(reference, b.processed)
    /\ late' = late \cap Apart'

RunAsNative(b) ==
    /\ b.native
    /\ \E all \in BOOLEAN : \E y \in {RunNative(b, all, cpu)} :
         /\ cpu' = Retired(y)
         /\ reference' = ManyInterpreted(reference, Executed(b, y, cpu.pcexec))
         /\ late' = (late \cup LeftOut(b, y)) \cap Apart'

\* A block is only entered when no branch waits for its delay slots, and
\* compiled only if there is something in it.
RunBlock ==
    /\ ~Halted(cpu)
    /\ cpu.ecuSkipCounter = 0
    /\ cpu.interpretNextPacket = 0
    /\ \E b \in {CompileBlock(cpu.pcexec)} :
          /\ b.processed > 0
          /\ Met(cpu.pcexec, b) \subseteq Defects
          /\ numPackets' = Len(b.list)
          /\ RunAsIL(b) \/ RunAsNative(b)
    /\ UNCHANGED <<program, options>>

Next == Interpret \/ RunBlock
Spec == Init /\ [][Next]_vars

-----------------------------------------------------------------------------
TypeOK ==
    \A x \in {cpu, reference} :
        /\ \A c \in Registers \cup {"mem"} : x.f[c] \in 0 .. Values - 1
        /\ x.ecuSkipCounter \in 0..3

\* Blocks do what their packets do one by one: the processor is where it would
\* be, and with the same registers, flags and memory, if none had been compiled.
\* This holds also where a block was left in the middle, but for the registers
\* whose last write was left out of it.
Lockstep ==
    /\ Apart \subseteq late
    /\ cpu.pcexec = reference.pcexec
    /\ cpu.ecuSkipCounter = reference.ecuSkipCounter
    /\ cpu.ecuSkipCounter # 0 => cpu.pcfetchnext = reference.pcfetchnext

\* Those are written again before anything reads them: from where the processor
\* stands there is a packet that writes the register, that no branch on the way
\* passes by, and none before it, nor itself, reads it; in the delay slots of a
\* branch that is taken, a branch is not executed.
Branches(a) == \E n \in Packet(a).units : n.unit = "ECU" /\ n.to # Nowhere
Jumps(a) == \E n \in Packet(a).units : n.unit = "ECU" /\ n.to # Nowhere /\ ~n.cond
Delays(a) == \A n \in Packet(a).units : n.unit = "ECU" => ~n.nop
WrittenAt(a) == UNION {n.out : n \in {m \in Packet(a).units : m.unit # "ECU"}}
Calls(a) == \E n \in Packet(a).units : n.unit = "ECU" /\ n.link /\ ~n.cond
Reached(a, skip, j) ==
    IF skip # 0 THEN j < skip
    ELSE \A i \in 0 .. j - 1 :
             Branches(a + i) => \/ Delays(a + i) /\ j <= i + 2
                                \/ \E h \in 0 .. i - 1 : Jumps(a + h)
Unread(c, a, skip, i) ==
    \A n \in Packet(a + i).units :
        c \in Reads(n) => n.unit = "ECU" /\ (skip # 0 \/ \E h \in 0 .. i - 1 : Jumps(a + h))
Overwritten(c, a, skip, j) ==
    /\ Reached(a, skip, j)
    /\ \A i \in 0..j : Unread(c, a, skip, i)
    /\ \/ c \in WrittenAt(a + j)
       \/ c = "rz" /\ Calls(a + j) /\ skip = 0 /\ \A i \in 0 .. j - 1 : ~Branches(a + i)
LateIsUnseen ==
    \A c \in late : \E j \in 0 .. Len(program) : Overwritten(c, cpu.pcexec, cpu.ecuSkipCounter, j)

\* A block fits in the lists of the compiler, MAX_SUPERBLOCK_PACKETS + 2 long.
BlockFits == numPackets <= options.max + 2

=============================================================================
