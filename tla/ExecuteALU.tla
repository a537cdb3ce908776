----------------------------- MODULE ExecuteALU -----------------------------
(***************************************************************************)
(* The interpreter's handlers of the ALU.  m is the register file the      *)
(* handler writes, p the one it reads (the same file, or the copy made at  *)
(* the start of the packet when one instruction of the packet reads what   *)
(* another one writes; p[CC] is tempCC), n the decoded instruction.        *)
(***************************************************************************)
EXTENDS Nuance

LOCAL Z == CC_ALU_ZERO
LOCAL C == CC_ALU_CARRY
LOCAL V == CC_ALU_OVERFLOW
LOCAL N == CC_ALU_NEGATIVE

\* Zero, or the sign bit moved down to the negative flag.
ZeroOrSign(r) == IF r = 0 THEN Z ELSE And(Shr(r, W - 4), N)

Write(m, n, r) == [m EXCEPT ![n.dest] = r]
Flags(m, clear, set) == [m EXCEPT ![CC] = CCWith(@, clear, set)]

\* Operands: an immediate is the field itself, a count is six bits of a register.
Count(p, r) == p[r] % (2 * W)
Leftward(c) == (c \div W) % 2 = 1
Logical(x, c) == IF Leftward(c) THEN (IF 2 * W - c < W THEN Shl(x, 2 * W - c) ELSE 0) ELSE Shr(x, c)
Rotated(x, c) == IF Leftward(c) THEN Rol(x, (2 * W - c) % W) ELSE Ror(x, c)

\* The flags of an addition or a subtraction, alone and with the carry in:
\* the latter leave Z alone when the result is zero and clear it otherwise.
ArithBits(s) == (IF s.c THEN C ELSE 0) + (IF s.v THEN V ELSE 0) + (IF Negative(s.r) THEN N ELSE 0)
Arith(m, s) == Flags(m, N + V + C + Z, ArithBits(s) + IF s.r = 0 THEN Z ELSE 0)
ArithWC(m, s) == Flags(m, N + V + C + IF s.r = 0 THEN 0 ELSE Z, ArithBits(s))
CarryOf(p) == Bit(p[CC], 1)

Execute_ABS(m, p, n) ==
    LET s == p[n.src1]
        bits == IF Negative(s) THEN C + (IF s = Sign THEN N + V ELSE 0) ELSE IF s = 0 THEN Z ELSE 0
    IN Flags(IF Negative(s) /\ s # Sign THEN Write(m, n, Neg(s)) ELSE m, N + V + Z + C, bits)

Extract(m, n, r) == Flags(Write(m, n, r), Z + N, ZeroOrSign(r))
Execute_BITSScalar(m, p, n) == Extract(m, n, And(n.src1, Shr(p[n.dest], p[n.src2] % W)))
Execute_BITSImmediate(m, p, n) == Extract(m, n, And(n.src1, Shr(p[n.dest], n.src2)))
Execute_BTST(m, p, n) == Flags(m, Z + N + V, IF And(n.src1, p[n.src2]) = 0 THEN Z ELSE 0)

Execute_BUTT(m, p, n) ==
    LET s == Plus(p[n.src1], p[n.src2], 0)
    IN Arith([m EXCEPT ![n.dest + 1] = Wrap(p[n.src2] - p[n.src1]), ![n.dest] = s.r], s)

Execute_COPY(m, p, n) == Flags(Write(m, n, p[n.src2]), N + V + Z, ZeroOrSign(p[n.src2]))

Execute_MSB(m, p, n) ==
    LET s == p[n.src1]  bits == BitLength(IF Negative(s) THEN Not(s) ELSE s)
    IN Flags(Write(m, n, bits), Z, IF bits = 0 THEN Z ELSE 0)

Execute_SAT(m, p, n) ==
    LET mask == Pow[n.src2] - 1  s == Signed(p[n.src1])
        r == IF s > mask THEN mask ELSE IF s < -mask - 1 THEN Not(mask) ELSE p[n.src1]
    IN Flags(Write(m, n, r), Z + N, ZeroOrSign(r))

\* Shifts: the carry is the bit that leaves first, bit 31 to the left and
\* bit 0 to the right, also when the count is zero.
LeftCarry(a) == And(Shr(a, W - 2), C)
RightCarry(a) == (a % 2) * C
Shifted(m, n, r, carry) == Flags(Write(m, n, r), Z + V + N + C, ZeroOrSign(r) + carry)
ByCount(m, p, n, Right(_, _)) ==
    LET a == p[n.src2]  c == Count(p, n.src1)
    IN IF Leftward(c) THEN Shifted(m, n, Logical(a, c), LeftCarry(a))
                      ELSE Shifted(m, n, Right(a, c), RightCarry(a))
Execute_AS(m, p, n) == ByCount(m, p, n, Sar)
Execute_ASL(m, p, n) ==
    Shifted(m, n, IF n.src1 < W THEN Shl(p[n.src2], n.src1) ELSE 0, LeftCarry(p[n.src2]))
Execute_ASR(m, p, n) == Shifted(m, n, Sar(p[n.src2], n.src1), RightCarry(p[n.src2]))
Execute_LS(m, p, n) == ByCount(m, p, n, Shr)
Execute_LSR(m, p, n) == Shifted(m, n, Shr(p[n.src2], n.src1), RightCarry(p[n.src2]))

Turned(m, n, r) == Flags(Write(m, n, r), Z + V + N, ZeroOrSign(r))
Execute_ROT(m, p, n) == Turned(m, n, Rotated(p[n.src2], Count(p, n.src1)))
Execute_ROL(m, p, n) == Turned(m, n, Rol(p[n.src2], n.src1))
Execute_ROR(m, p, n) == Turned(m, n, Ror(p[n.src2], n.src1))

\* Vectors: the upper halves of the lanes, without flags.
Lanes(m, p, n, k, Op(_, _)) ==
    [i \in DOMAIN m |-> IF i \in n.dest .. n.dest + k - 1
        THEN Wrap(Op(And(p[n.src2 + i - n.dest], HighHalf), And(p[n.src1 + i - n.dest], HighHalf)))
        ELSE m[i]]
Execute_ADD_P(m, p, n) == Lanes(m, p, n, 3, LAMBDA a, b : a + b)
Execute_SUB_P(m, p, n) == Lanes(m, p, n, 3, LAMBDA a, b : a - b)
Execute_ADD_SV(m, p, n) == Lanes(m, p, n, 4, LAMBDA a, b : a + b)
Execute_SUB_SV(m, p, n) == Lanes(m, p, n, 4, LAMBDA a, b : a - b)

\* Sums and differences: with an immediate, between registers, with a shifted
\* register; comparisons are differences that are not written.
Store(m, n, s) == Arith(Write(m, n, s.r), s)
StoreWC(m, n, s) == ArithWC(Write(m, n, s.r), s)
ImmSum(p, n, c) == Plus(n.src1, p[n.src2], c)
RegSum(p, n, c) == Plus(p[n.src1], p[n.src2], c)
RightSum(p, n, c) == Plus(Sar(p[n.src1], n.src2), p[n.dest], c)
LeftSum(p, n, c) == Plus(Shl(p[n.src1], n.src2), p[n.dest], c)
ImmDiff(p, n, c) == Minus(p[n.src2], n.src1, c)
ReverseDiff(p, n, c) == Minus(n.src2, p[n.src1], c)
RegDiff(p, n, c) == Minus(p[n.src2], p[n.src1], c)
RightDiff(p, n, c) == Minus(p[n.dest], Sar(p[n.src1], n.src2), c)
LeftDiff(p, n, c) == Minus(p[n.dest], Shl(p[n.src1], n.src2), c)

Execute_ADDImmediate(m, p, n) == Store(m, n, ImmSum(p, n, 0))
Execute_ADDScalar(m, p, n) == Store(m, n, RegSum(p, n, 0))
Execute_ADDScalarShiftRightImmediate(m, p, n) == Store(m, n, RightSum(p, n, 0))
Execute_ADDScalarShiftLeftImmediate(m, p, n) == Store(m, n, LeftSum(p, n, 0))
Execute_SUBImmediate(m, p, n) == Store(m, n, ImmDiff(p, n, 0))
Execute_SUBImmediateReverse(m, p, n) == Store(m, n, ReverseDiff(p, n, 0))
Execute_SUBScalar(m, p, n) == Store(m, n, RegDiff(p, n, 0))
Execute_SUBScalarShiftRightImmediate(m, p, n) == Store(m, n, RightDiff(p, n, 0))
Execute_SUBScalarShiftLeftImmediate(m, p, n) == Store(m, n, LeftDiff(p, n, 0))
Execute_CMPImmediate(m, p, n) == Arith(m, ImmDiff(p, n, 0))
Execute_CMPImmediateReverse(m, p, n) == Arith(m, ReverseDiff(p, n, 0))
\* Mutant: the difference is stored.
Execute_CMPScalarStored(m, p, n) == Store(m, n, RegDiff(p, n, 0))
Execute_CMPScalar(m, p, n) == Arith(m, RegDiff(p, n, 0))
Execute_CMPScalarShiftRightImmediate(m, p, n) == Arith(m, RightDiff(p, n, 0))
Execute_CMPScalarShiftLeftImmediate(m, p, n) == Arith(m, LeftDiff(p, n, 0))
Execute_ADDWCImmediate(m, p, n) == StoreWC(m, n, ImmSum(p, n, CarryOf(p)))
Execute_ADDWCScalar(m, p, n) == StoreWC(m, n, RegSum(p, n, CarryOf(p)))
Execute_ADDWCScalarShiftRightImmediate(m, p, n) == StoreWC(m, n, RightSum(p, n, CarryOf(p)))
Execute_ADDWCScalarShiftLeftImmediate(m, p, n) == StoreWC(m, n, LeftSum(p, n, CarryOf(p)))
Execute_SUBWCImmediate(m, p, n) == StoreWC(m, n, ImmDiff(p, n, CarryOf(p)))
Execute_SUBWCImmediateReverse(m, p, n) == StoreWC(m, n, ReverseDiff(p, n, CarryOf(p)))
Execute_SUBWCScalar(m, p, n) == StoreWC(m, n, RegDiff(p, n, CarryOf(p)))
Execute_SUBWCScalarShiftRightImmediate(m, p, n) == StoreWC(m, n, RightDiff(p, n, CarryOf(p)))
Execute_SUBWCScalarShiftLeftImmediate(m, p, n) == StoreWC(m, n, LeftDiff(p, n, CarryOf(p)))
Execute_CMPWCImmediate(m, p, n) == ArithWC(m, ImmDiff(p, n, CarryOf(p)))
Execute_CMPWCImmediateReverse(m, p, n) == ArithWC(m, ReverseDiff(p, n, CarryOf(p)))
Execute_CMPWCScalar(m, p, n) == ArithWC(m, RegDiff(p, n, CarryOf(p)))
Execute_CMPWCScalarShiftRightImmediate(m, p, n) == ArithWC(m, RightDiff(p, n, CarryOf(p)))
Execute_CMPWCScalarShiftLeftImmediate(m, p, n) == ArithWC(m, LeftDiff(p, n, CarryOf(p)))

\* Logic: the second operand is a register or, with a shift, the destination;
\* ftst is an and that is not written.
LogicFlags(m, r) == Flags(m, Z + N + V, ZeroOrSign(r))
LogicStore(m, n, r) == LogicFlags(Write(m, n, r), r)
ImmShiftScalar(p, n) == Logical(n.src1, Count(p, n.src2))
ScalarShiftScalar(p, n) == Logical(p[n.src1], Count(p, n.src2))
ScalarRotateScalar(p, n) == Rotated(p[n.src1], Count(p, n.src2))
ShiftRightImm(p, n) == Shr(p[n.src1], n.src2)
ShiftLeftImm(p, n) == Shl(p[n.src1], n.src2)

Execute_ANDImmediate(m, p, n) == LogicStore(m, n, And(n.src1, p[n.src2]))
Execute_ANDScalar(m, p, n) == LogicStore(m, n, And(p[n.src1], p[n.src2]))
Execute_ANDImmediateShiftScalar(m, p, n) == LogicStore(m, n, And(p[n.dest], ImmShiftScalar(p, n)))
Execute_ANDScalarShiftRightImmediate(m, p, n) == LogicStore(m, n, And(p[n.dest], ShiftRightImm(p, n)))
Execute_ANDScalarShiftLeftImmediate(m, p, n) == LogicStore(m, n, And(p[n.dest], ShiftLeftImm(p, n)))
Execute_ANDScalarShiftScalar(m, p, n) == LogicStore(m, n, And(p[n.dest], ScalarShiftScalar(p, n)))
Execute_ANDScalarRotateScalar(m, p, n) == LogicStore(m, n, And(p[n.dest], ScalarRotateScalar(p, n)))
Execute_FTSTImmediate(m, p, n) == LogicFlags(m, And(n.src1, p[n.src2]))
Execute_FTSTScalar(m, p, n) == LogicFlags(m, And(p[n.src1], p[n.src2]))
Execute_FTSTImmediateShiftScalar(m, p, n) == LogicFlags(m, And(p[n.dest], ImmShiftScalar(p, n)))
Execute_FTSTScalarShiftRightImmediate(m, p, n) == LogicFlags(m, And(p[n.dest], ShiftRightImm(p, n)))
Execute_FTSTScalarShiftLeftImmediate(m, p, n) == LogicFlags(m, And(p[n.dest], ShiftLeftImm(p, n)))
Execute_FTSTScalarShiftScalar(m, p, n) == LogicFlags(m, And(p[n.dest], ScalarShiftScalar(p, n)))
Execute_FTSTScalarRotateScalar(m, p, n) == LogicFlags(m, And(p[n.dest], ScalarRotateScalar(p, n)))
Execute_ORImmediate(m, p, n) == LogicStore(m, n, Or(n.src1, p[n.src2]))
Execute_ORScalar(m, p, n) == LogicStore(m, n, Or(p[n.src1], p[n.src2]))
Execute_ORImmediateShiftScalar(m, p, n) == LogicStore(m, n, Or(p[n.dest], ImmShiftScalar(p, n)))
Execute_ORScalarShiftRightImmediate(m, p, n) == LogicStore(m, n, Or(p[n.dest], ShiftRightImm(p, n)))
Execute_ORScalarShiftLeftImmediate(m, p, n) == LogicStore(m, n, Or(p[n.dest], ShiftLeftImm(p, n)))
Execute_ORScalarShiftScalar(m, p, n) == LogicStore(m, n, Or(p[n.dest], ScalarShiftScalar(p, n)))
Execute_ORScalarRotateScalar(m, p, n) == LogicStore(m, n, Or(p[n.dest], ScalarRotateScalar(p, n)))
Execute_EORImmediate(m, p, n) == LogicStore(m, n, Xor(n.src1, p[n.src2]))
Execute_EORScalar(m, p, n) == LogicStore(m, n, Xor(p[n.src1], p[n.src2]))
Execute_EORImmediateShiftScalar(m, p, n) == LogicStore(m, n, Xor(p[n.dest], ImmShiftScalar(p, n)))
Execute_EORScalarShiftRightImmediate(m, p, n) == LogicStore(m, n, Xor(p[n.dest], ShiftRightImm(p, n)))
Execute_EORScalarShiftLeftImmediate(m, p, n) == LogicStore(m, n, Xor(p[n.dest], ShiftLeftImm(p, n)))
Execute_EORScalarShiftScalar(m, p, n) == LogicStore(m, n, Xor(p[n.dest], ScalarShiftScalar(p, n)))
Execute_EORScalarRotateScalar(m, p, n) == LogicStore(m, n, Xor(p[n.dest], ScalarRotateScalar(p, n)))
=============================================================================
