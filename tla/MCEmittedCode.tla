--------------------------- MODULE MCEmittedCode ---------------------------
(***************************************************************************)
(* Every form of every instruction, on a few combinations of registers,    *)
(* counts and immediates, with chosen registers.                           *)
(***************************************************************************)
EXTENDS EmittedCode, DecodeALU, DecodeMUL, DecodeECU

Fields == {<<0, 1, 1>>, <<0, 0, 0>>, <<5, 0, 1>>}
Counts == {0, 1, 7, 8, 15}
Immediates == {3, Sign + 5}

ALUForms ==
    LET forms(f, k, i) == DecodeInstruction_ALU16(f[1], f[2], k, i)
                            \cup DecodeInstruction_ALU32(f[1], f[2], f[3], k, i)
    IN UNION {forms(<<0, 1, 5>>, k, 3) : k \in Counts}
       \cup UNION {forms(f, 7, i) : f \in Fields, i \in Immediates}
MULForms ==
    UNION {DecodeInstruction_MUL16(f[1], f[2]) : f \in Fields}
      \cup UNION {DecodeInstruction_MUL32(f[1], f[2], f[3], k, k, s) :
                   f \in {<<0, 1, 5>>, <<5, 0, 1>>}, k \in 0..3, s \in {0, 3, W, W + 5, 2 * W + 1, 3 * W, 4 * W - 3}}
RCUForms == UNION {DecodeInstruction_RCU16(s, d, dec, Sign + 5) : s \in {0, 5}, d \in 0..3, dec \in 0..3}
ECUForms ==
    UNION {DecodeInstruction_ECU16(20, cc, nop, 30, 32) \cup DecodeInstruction_ECU32(Sign + 20, 5, cc, nop, 30, 32) :
               cc \in {Conditions[k] : k \in 1..32}, nop \in BOOLEAN}
MCInstructions == ECUForms \cup ALUForms \cup MULForms \cup RCUForms

Vars(sdep, mdep, sout, mout) == [sdep |-> sdep, mdep |-> mdep, sout |-> sout, mout |-> mout]
MCVariablesOf(n, propagated) ==
    {Vars({}, {}, n.so, n.mo), Vars(n.si, n.mi, n.so, n.mo)} \cup
    IF propagated THEN {} ELSE
    {Vars({0}, {}, {}, n.mo),
     Vars({1}, n.mi, n.so, n.mo \cap {"C", "V"}),
     Vars({5}, {}, n.so, n.mo \cap {"Z"}),
     Vars({}, n.mi, n.so, n.mo \cap {"N"})}

Signed7(y) == LET k == y % (4 * W) IN IF k < 2 * W THEN k ELSE Wrap(k - 4 * W)
ContentsOf(X, Y) ==
    {[c \in Cells |-> CASE c = 0 -> x [] c = 1 -> y [] c = 5 -> Xor(x, y)
                        [] c = CC -> (CASE x < y -> w [] x = y -> CC_ALLFLAGS - w
                                        [] y = 0 -> CC_ALU_NEGATIVE + CC_COUNTER0_ZERO + CC_MODGE + CC_COPROCESSOR0
                                        [] OTHER -> CC_ALLFLAGS - CC_ALU_NEGATIVE - CC_ALU_CARRY)
                        [] c \in {RX, RY, RU, RV, RC0} -> x [] c \in {UVCTL, RC1} -> y [] c = SVSHIFT -> y % 4 [] c = ACSHIFT -> Signed7(y)
                        [] c = ecuSkipCounter -> 0
                        [] OTHER -> Wrap(c * 9973)] :
        x \in X, y \in Y, w \in {CC_ALU_ZERO + CC_ALU_CARRY}}
MCContents == ContentsOf({0, 16, MaxInt, Sign, Ones}, {0, 1, 16, MaxInt, Sign})
MCKnownContents == ContentsOf({16, Sign, Ones}, {1, Sign})
MCKnown == {[s |-> {0}, m |-> {}], [s |-> {1}, m |-> MiscNames \cup AllFlags],
            [s |-> Scalars, m |-> {}], [s |-> Scalars, m |-> MiscNames \cup AllFlags]}
=============================================================================
