---------------------------- MODULE EmittedCode ----------------------------
(***************************************************************************)
(* One instruction of a packet, interpreted and compiled: the handler of   *)
(* the interpreter and the code of the emitter start from the same         *)
(* registers.  Constant propagation may have rewritten the instruction     *)
(* first, from what it knew of them; the interpreter executes what was     *)
(* decoded.  The registers that another instruction of the packet has      *)
(* already written while this one reads them (emitVars.sdep and mdep) are read  *)
(* from the copy made at the start of the packet; what is no longer needed *)
(* of the outputs (so and mo of the entry less sout and mout) may be left out   *)
(* of the code.                                                            *)
(***************************************************************************)
EXTENDS Handlers

CONSTANTS
    Instructions,   \* what the decoder makes of the instructions considered
    KnownSets,      \* the registers (s) and the others and flags (m) that may be known
    VariablesOf(_, _), \* the EmitterVariables an instruction is compiled with, propagated or not
    Contents,       \* registers at the start of the packet
    KnownContents   \* the same, when constants are propagated

VARIABLES stage, decoded, constants, entry, emitVars, code, before, live, interpreted, native
vars == <<stage, decoded, constants, entry, emitVars, code, before, live, interpreted, native>>

None == <<>>
Init ==
    /\ stage = "fetch" /\ decoded = None
    /\ entry = None /\ constants = None /\ emitVars = None /\ code = None
    /\ before = None /\ live = None /\ interpreted = None /\ native = None

Fetch ==
    /\ stage = "fetch"
    /\ stage' = "propagate"
    /\ decoded' \in Instructions
    /\ UNCHANGED <<constants, entry, emitVars, code, before, live, interpreted, native>>

\* bConstantPropagation is off, or what the packets before left is known.
Knowing(n, f, K) ==
    LET s == [r \in Scalars |-> IF r \in K.s THEN f[r] ELSE Unknown]
        m == [x \in MiscNames \cup AllFlags |->
                 IF x \notin K.m THEN Unknown
                 ELSE IF x \in MiscNames THEN f[MiscName[x]]
                 ELSE IF And(f[CC], FlagBit[x]) # 0 THEN 1 ELSE 0]
    IN [n |-> n, s |-> s, m |-> m, ts |-> s, tm |-> m, locked |-> FALSE]
Propagate ==
    /\ stage = "propagate"
    /\ stage' = "emit"
    /\ \/ /\ entry' = decoded
          /\ UNCHANGED <<constants, before>>
       \/ \E f \in KnownContents, K \in KnownSets :
            /\ before' = f
            /\ constants' = ConstantHandlers(Knowing(decoded, f, K))
            /\ entry' = constants'.n
    /\ UNCHANGED <<decoded, emitVars, code, live, interpreted, native>>

Emit ==
    /\ stage = "emit"
    /\ stage' = "run"
    /\ emitVars' \in VariablesOf(entry, constants # None)
    /\ code' = emitHandlers(emitVars', entry)
    /\ UNCHANGED <<decoded, constants, entry, before, live, interpreted, native>>

\* The other instructions of the packet have changed what this one reads and
\* they write; what was not copied from the registers is stale.
Others(D) == {MiscName[x] : x \in D \ AllFlags}
Changed(f) ==
    [c \in Cells |->
        IF c \in (emitVars.sdep \cup Others(emitVars.mdep)) \ (entry.so \cup Others(entry.mo)) THEN Not(f[c])
        ELSE IF c = CC THEN Xor(f[c], FLAG_DEPENDENCIES(emitVars.mdep \ entry.mo)) ELSE f[c]]
Stale(f) == [c \in Cells |-> IF c = CC THEN CC_ALLFLAGS - f[c] ELSE Not(f[c])]
Copy(f) == Run(Machine(f, Stale(f)), Emit_SaveRegs(emitVars, [sdep |-> emitVars.sdep, mdep |-> emitVars.mdep])).saved

Execute ==
    /\ stage = "run"
    /\ stage' = "done"
    /\ before' \in IF constants = None THEN Contents ELSE {before}
    /\ live' = Changed(before')
    /\ interpreted' = nuanceHandlers(live', before', decoded)
    /\ native' = Run(Machine(live', Copy(before')), code).live
    /\ UNCHANGED <<decoded, constants, entry, emitVars, code>>

Retire ==
    /\ stage = "done"
    /\ stage' = "fetch"
    /\ decoded' = None
    /\ entry' = None /\ constants' = None /\ emitVars' = None /\ code' = None
    /\ before' = None /\ live' = None /\ interpreted' = None /\ native' = None

Next == Fetch \/ Propagate \/ Emit \/ Execute \/ Retire
Spec == Init /\ [][Next]_vars

-----------------------------------------------------------------------------
\* The bits of cc, and the cells, that a set of dependencies names.
FlagsIn(f, D) == And(f[CC], FLAG_DEPENDENCIES(D))
Outputs == entry.so \cup Others(entry.mo)
Needed == emitVars.sout \cup Others(emitVars.mout)

TypeOK ==
    stage = "done" =>
        \A f \in {live, interpreted, native} :
            f \in [Cells -> 0..Ones] /\ f[CC] \in 0..CC_ALLFLAGS /\ f[ecuSkipCounter] \in {0, 1, 3}

\* The compiled code leaves in every output that is still needed what the
\* interpreter leaves there.  Two kinds of instructions are left
\* out, for which it does not.  An immediate with its highest bit set is compiled
\* to a 64-bit operation, which sets other flags than the 32-bit one; and the
\* multiplications that shift by svshift count in esi and then store through it.
WideImmediate ==
    entry.h \in {"ADDImmediate", "SUBImmediate", "CMPImmediate", "ADDWCImmediate",
             "SUBWCImmediate", "CMPWCImmediate"} /\ entry.src1 > MaxInt
CountInEsi ==
    entry.h \in {"MUL_SVScalarShiftSvshift", "MUL_SVRuShiftSvshift", "MUL_SVRvShiftSvshift"}
EmittedAsExecuted ==
    stage = "done" /\ ~CountInEsi =>
        /\ \A c \in Needed \cup {pcfetchnext, intctl} : native[c] = interpreted[c]
        /\ native[ecuSkipCounter] = 0 <=> interpreted[ecuSkipCounter] = 0
        /\ ~WideImmediate => FlagsIn(native, emitVars.mout) = FlagsIn(interpreted, emitVars.mout)

\* ... and touches nothing the decoder does not name as an output: the code of
\* the other instructions of the packet, and of the packets before, is kept.
OutputsDeclared ==
    stage = "done" =>
        \A f \in {interpreted, native} :
            /\ \A c \in Cells \ (Outputs \cup {CC} \cup IF entry.unit = "ECU" THEN Control ELSE {}) : f[c] = live[c]
            /\ FlagsIn(f, AllFlags \ entry.mo) = FlagsIn(live, AllFlags \ entry.mo)

\* The inputs are declared: the interpreter computes the outputs from nothing
\* else, not from what they were before either.  (The zero flag of the
\* instructions with carry, the negative flag of msb and the rz of a
\* conditional jsr may be kept.)
Kept ==
    CASE decoded.h = "MSB" -> {"N"}
      [] decoded.unit = "ALU" /\ "C" \in decoded.mi -> {"Z"}
      [] decoded.unit = "ECU" /\ decoded.src2 # "T" -> {"RZ"}
      [] OTHER -> {}
Scrambled(f) ==
    [c \in Cells |-> IF c \in entry.si \cup Others(entry.mi) \cup Control THEN f[c]
                     ELSE IF c = CC THEN Xor(f[c], FLAG_DEPENDENCIES(AllFlags \ entry.mi))
                     ELSE Not(f[c])]
InputsDeclared ==
    stage = "done" =>
        LET again == nuanceHandlers(Scrambled(live), Scrambled(before), entry)
        IN /\ \A c \in (Outputs \ Others(Kept)) \cup Control : again[c] = interpreted[c]
           /\ FlagsIn(again, entry.mo \ Kept) = FlagsIn(interpreted, entry.mo \ Kept)

\* A register or a flag that is known after the instruction holds its constant,
\* unless another instruction of the packet writes it.  (A call leaves rz known:
\* nothing forgets it.)
ConstantsHold ==
    stage = "done" /\ constants # None =>
        /\ \A r \in Scalars \ (emitVars.sdep \ entry.so) :
              constants.ts[r] \in {Unknown, interpreted[r]}
        /\ \A x \in MiscNames \ (emitVars.mdep \ entry.mo) :
              (decoded.unit = "ECU" => x # "RZ") => constants.tm[x] \in {Unknown, interpreted[MiscName[x]]}
        /\ \A x \in AllFlags \ (emitVars.mdep \ entry.mo) :
              constants.tm[x] # Unknown => (constants.tm[x] = 1 <=> And(interpreted[CC], FlagBit[x]) # 0)
=============================================================================
