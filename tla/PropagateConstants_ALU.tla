----------------------- MODULE PropagateConstants_ALU -----------------------
(***************************************************************************)
(* Constant propagation over the arithmetic and logic unit.                *)
(***************************************************************************)
EXTENDS PropagateConstants

LOCAL Is(c, r) == IsScalarRegisterConstant(c, r)
\* The flags of a result, and of an addition or a subtraction.
LOCAL SignOf(v) == IF v = 0 THEN {"Z"} ELSE IF Negative(v) THEN {"N"} ELSE {}
LOCAL FlagsOf(r) ==
    (IF r.c THEN {"C"} ELSE {}) \cup (IF r.v THEN {"V"} ELSE {}) \cup SignOf(r.r)
\* The unknown result of an instruction that writes its destination.
LOCAL Any(c, D) == Lost(c, D, {c.n.dest})
LOCAL NoOverflow(c) == SetMiscRegisterConstant(c, "V", 0)

PropagateConstants_ABS(c) ==
    LET n == c.n
        s == S(c, n.src1)
    IN IF ~Is(c, n.src1) THEN Any(c, NVCZ)
       ELSE IF Negative(s)
       THEN Fold(SetMiscRegisterConstant(c, "C", 1), Neg(s), NVCZ, {"C"} \cup (IF s = Sign THEN {"N", "V"} ELSE {}), {n.src1})
       ELSE Fold(c, s, NVCZ, IF s = 0 THEN {"Z"} ELSE {}, {n.src1})

PropagateConstants_BITSImmediate(c) ==
    LET n == c.n
        v == And(n.src1, Shr(S(c, n.dest), n.src2))
    IN IF Is(c, n.dest) THEN Fold(c, v, NZ, SignOf(v), {n.dest}) ELSE Any(c, NZ)
PropagateConstants_BITSScalar(c) ==
    LET n == c.n
    IN IF Is(c, n.src2)
       THEN PropagateConstants_BITSImmediate(Becomes(c, "BITSImmediate", n.src1, S(c, n.src2) % W, {n.src2}, {n.dest}))
       ELSE Any(c, NZ)

PropagateConstants_BTST(c0) ==
    LET c == SetMiscRegisterConstant(NoOverflow(c0), "N", 0)
        n == c.n
    IN IF Is(c, n.src2)
       THEN FoldFlags(c, NVZ, IF And(n.src1, S(c, n.src2)) = 0 THEN {"Z"} ELSE {}, {n.src2})
       ELSE Lost(c, {"Z"}, {})

ForgetsOneOutput(c) == Lost(c, NVCZ, {c.n.dest})
PropagateConstants_BUTT(c) == Lost(c, NVCZ, BUTTERFLY_REG_DEPENDENCY_MASK(c.n.dest))

PropagateConstants_COPY(c0) ==
    LET c == NoOverflow(c0)
        v == S(c, c.n.src2)
    IN IF Is(c, c.n.src2) THEN Fold(c, v, NVZ, SignOf(v), {c.n.src2}) ELSE Any(c, NZ)

PropagateConstants_MSB(c) ==
    LET s == S(c, c.n.src1)
        sigbits == BitLength(IF Negative(s) THEN Not(s) ELSE s)
    IN IF Is(c, c.n.src1) THEN Fold(c, sigbits, {"Z"}, IF sigbits = 0 THEN {"Z"} ELSE {}, {c.n.src1})
       ELSE Any(c, {"Z"})

PropagateConstants_SAT(c) ==
    LET n == c.n
        s == S(c, n.src1)
        mask == Pow[n.src2] - 1
        v == IF Signed(s) > mask THEN mask ELSE IF Signed(s) < -mask - 1 THEN Not(mask) ELSE s
    IN IF Is(c, n.src1) THEN Fold(c, v, NZ, SignOf(v), {n.src1}) ELSE Any(c, NZ)

\* Shifts by a count in src1.  The carry is a bit of the operand; a count in a
\* register is taken modulo 2W, and a large one is a shift to the left.
LOCAL Shifted(c0, Op(_, _), carry) ==
    LET c == NoOverflow(c0)
        n == c.n
        v == Op(S(c, n.src2), n.src1)
    IN IF Is(c, n.src2)
       THEN Fold(c, v, NVCZ, (IF Bit(S(c, n.src2), carry) = 1 THEN {"C"} ELSE {}) \cup SignOf(v), {n.src2})
       ELSE Any(c, {"N", "C", "Z"})
LOCAL Rotated(c0, Op(_, _)) ==
    LET c == NoOverflow(c0)
        n == c.n
        v == Op(S(c, n.src2), n.src1 % W)
    IN IF Is(c, n.src2) THEN Fold(c, v, NVZ, SignOf(v), {n.src2}) ELSE Any(c, NZ)
PropagateConstants_ASL(c) == Shifted(c, LAMBDA a, k : IF k < W THEN Shl(a, k) ELSE 0, W - 1)
PropagateConstants_ASR(c) == Shifted(c, Sar, 0)
PropagateConstants_LSR(c) == Shifted(c, Shr, 0)
PropagateConstants_ROL(c) == Rotated(c, Rol)
PropagateConstants_ROR(c) == Rotated(c, Ror)
LOCAL ByCount(c0, left, Left(_), right, Right(_), D) ==
    LET c == NoOverflow(c0)
        n == c.n
        k == S(c, n.src1) % (2 * W)
    IN IF ~Is(c, n.src1) THEN Any(c, D)
       ELSE IF k >= W THEN Left(Becomes(c, left, 2 * W - k, n.src2, {n.src1}, {n.src2}))
       ELSE Right(Becomes(c, right, k, n.src2, {n.src1}, {n.src2}))
PropagateConstants_AS(c) ==
    ByCount(c, "ASL", PropagateConstants_ASL, "ASR", PropagateConstants_ASR, {"N", "C", "Z"})
PropagateConstants_LS(c) ==
    ByCount(c, "ASL", PropagateConstants_ASL, "LSR", PropagateConstants_LSR, {"N", "C", "Z"})
PropagateConstants_ROT(c) == ByCount(c, "ROL", PropagateConstants_ROL, "ROR", PropagateConstants_ROR, NZ)

\* Vectors are only known to be zero when one is subtracted from itself.
LOCAL Zeros(c, R) ==
    IF c.n.src1 = c.n.src2 THEN [c EXCEPT !.ts = [r \in Scalars |-> IF r \in R THEN 0 ELSE @[r]]] ELSE Lost(c, {}, R)
PropagateConstants_ADD_P(c) == Lost(c, {}, PIXEL_REG_DEPENDENCY_MASK(c.n.dest))
PropagateConstants_SUB_P(c) == Zeros(c, PIXEL_REG_DEPENDENCY_MASK(c.n.dest))
PropagateConstants_ADD_SV(c) == Lost(c, {}, VECTOR_REG_DEPENDENCY_MASK(c.n.dest))
PropagateConstants_SUB_SV(c) == Zeros(c, VECTOR_REG_DEPENDENCY_MASK(c.n.dest))

\* The arithmetic with an immediate; only a subtraction is folded, never an
\* addition.  With carry, the zero flag is known only to be reset.  The source
\* clears the dependency on the carry with its mask for an index: a shift by more
\* than a word, which the hosts take modulo the word, and so the one on rc0.
LOCAL Difference(c, a, b, r, stores) ==
    LET d == Minus(a, b, 0)
    IN IF ~Is(c, r) THEN Lost(c, NVCZ, IF stores THEN {c.n.dest} ELSE {})
       ELSE IF stores THEN Fold(c, d.r, NVCZ, FlagsOf(d), {r}) ELSE FoldFlags(c, NVCZ, FlagsOf(d), {r})
LOCAL WithCarry(c0, d, r, stores) ==
    LET mask == NVC \cup (IF d.r # 0 THEN {"Z"} ELSE {})
        c == [c0 EXCEPT !.n.mi = @ \ {"RC0"}]
        flags == FlagsOf(d) \ {"Z"}
    IN IF ~Is(c, r) \/ ~IsMiscRegisterConstant(c, "C") THEN Lost(c0, NVCZ, IF stores THEN {c.n.dest} ELSE {})
       ELSE IF stores THEN Fold(c, d.r, mask, flags, {r}) ELSE FoldFlags(c, mask, flags, {r})

PropagateConstants_ADDImmediate(c) == Any(c, NVCZ)
PropagateConstants_SUBImmediate(c) == Difference(c, S(c, c.n.src2), c.n.src1, c.n.src2, TRUE)
PropagateConstants_SUBImmediateReverse(c) == Difference(c, c.n.src2, S(c, c.n.src1), c.n.src1, TRUE)
PropagateConstants_CMPImmediate(c) == Difference(c, S(c, c.n.src2), c.n.src1, c.n.src2, FALSE)
PropagateConstants_CMPImmediateReverse(c) == Difference(c, c.n.src2, S(c, c.n.src1), c.n.src1, FALSE)
PropagateConstants_ADDWCImmediate(c) ==
    WithCarry(NoOverflow(c), Plus(c.n.src1, S(c, c.n.src2), Mc(c, "C")), c.n.src2, TRUE)
PropagateConstants_SUBWCImmediate(c) == WithCarry(c, Minus(S(c, c.n.src2), c.n.src1, Mc(c, "C")), c.n.src2, TRUE)
PropagateConstants_SUBWCImmediateReverse(c) ==
    WithCarry(c, Minus(c.n.src2, S(c, c.n.src1), Mc(c, "C")), c.n.src1, TRUE)
PropagateConstants_CMPWCImmediate(c) == WithCarry(c, Minus(S(c, c.n.src2), c.n.src1, Mc(c, "C")), c.n.src2, FALSE)
PropagateConstants_CMPWCImmediateReverse(c) ==
    WithCarry(c, Minus(c.n.src2, S(c, c.n.src1), Mc(c, "C")), c.n.src1, FALSE)

\* An operand in a register that is known becomes an immediate; the known second
\* operand of a subtraction, the left-hand side of its reverse.  A shifted
\* operand is combined with the destination.
LOCAL First(c, h, Then(_), Else(_)) ==
    LET n == c.n
    IN IF Is(c, n.src1) THEN Then(Becomes(c, h, S(c, n.src1), n.src2, {n.src1}, {n.src2})) ELSE Else(c)
LOCAL Second(c, h, Then(_), Else(_)) ==
    LET n == c.n
    IN IF Is(c, n.src2) THEN Then(Becomes(c, h, n.src1, S(c, n.src2), {n.src2}, {n.src1})) ELSE Else(c)
LOCAL ShiftedFirst(c, h, Op(_, _), Then(_), Else(_)) ==
    LET n == c.n
    IN IF Is(c, n.src1) THEN Then(Becomes(c, h, Op(S(c, n.src1), n.src2), n.dest, {n.src1}, {n.dest})) ELSE Else(c)
LOCAL Result(c) == Any(c, NVCZ)
LOCAL Flags(c) == Lost(c, NVCZ, {})

PropagateConstants_ADDScalar(c) == First(c, "ADDImmediate", PropagateConstants_ADDImmediate, Result)
PropagateConstants_ADDScalarShiftRightImmediate(c) == ShiftedFirst(c, "ADDImmediate", Sar, PropagateConstants_ADDImmediate, Result)
PropagateConstants_ADDScalarShiftLeftImmediate(c) == ShiftedFirst(c, "ADDImmediate", Shl, PropagateConstants_ADDImmediate, Result)
PropagateConstants_SUBScalar(c) ==
    IF c.n.src1 = c.n.src2 THEN Fold(c, 0, NVCZ, {"Z"}, {c.n.src1})
    ELSE First(c, "SUBImmediate", PropagateConstants_SUBImmediate,
               LAMBDA d : Second(d, "SUBImmediateReverse", PropagateConstants_SUBImmediateReverse, Result))
PropagateConstants_SUBScalarShiftRightImmediate(c) == ShiftedFirst(c, "SUBImmediate", Sar, PropagateConstants_SUBImmediate, Result)
PropagateConstants_SUBScalarShiftLeftImmediate(c) == ShiftedFirst(c, "SUBImmediate", Shl, PropagateConstants_SUBImmediate, Result)
PropagateConstants_CMPScalar(c) ==
    First(c, "CMPImmediate", PropagateConstants_CMPImmediate,
          LAMBDA d : Second(d, "CMPImmediateReverse", PropagateConstants_CMPImmediateReverse, Flags))
PropagateConstants_CMPScalarShiftRightImmediate(c) == ShiftedFirst(c, "CMPImmediate", Sar, PropagateConstants_CMPImmediate, Flags)
PropagateConstants_CMPScalarShiftLeftImmediate(c) == ShiftedFirst(c, "CMPImmediate", Shl, PropagateConstants_CMPImmediate, Flags)
PropagateConstants_ADDWCScalar(c) == First(c, "ADDWCImmediate", PropagateConstants_ADDWCImmediate, Result)
PropagateConstants_ADDWCScalarShiftRightImmediate(c) == ShiftedFirst(c, "ADDWCImmediate", Sar, PropagateConstants_ADDWCImmediate, Result)
PropagateConstants_ADDWCScalarShiftLeftImmediate(c) == ShiftedFirst(c, "ADDWCImmediate", Shl, PropagateConstants_ADDWCImmediate, Result)
PropagateConstants_SUBWCScalar(c) ==
    First(c, "SUBWCImmediate", PropagateConstants_SUBWCImmediate,
          LAMBDA d : Second(d, "SUBWCImmediateReverse", PropagateConstants_SUBWCImmediateReverse, Result))
PropagateConstants_SUBWCScalarShiftRightImmediate(c) == ShiftedFirst(c, "SUBWCImmediate", Sar, PropagateConstants_SUBWCImmediate, Result)
PropagateConstants_SUBWCScalarShiftLeftImmediate(c) == ShiftedFirst(c, "SUBWCImmediate", Shl, PropagateConstants_SUBWCImmediate, Result)
PropagateConstants_CMPWCScalar(c) ==
    First(c, "CMPWCImmediate", PropagateConstants_CMPWCImmediate,
          LAMBDA d : Second(d, "CMPWCImmediateReverse", PropagateConstants_CMPWCImmediateReverse, Flags))
PropagateConstants_CMPWCScalarShiftRightImmediate(c) == ShiftedFirst(c, "CMPWCImmediate", Sar, PropagateConstants_CMPWCImmediate, Flags)
PropagateConstants_CMPWCScalarShiftLeftImmediate(c) == ShiftedFirst(c, "CMPWCImmediate", Shl, PropagateConstants_CMPWCImmediate, Flags)

\* The logical instructions reset the overflow flag.  A count is taken modulo
\* 2W, and the larger half of the counts shifts or rotates to the left.
LOCAL Logic(c0, Op(_, _), stores) ==
    LET c == NoOverflow(c0)
        n == c.n
        v == Op(n.src1, S(c, n.src2))
    IN IF ~Is(c, n.src2) THEN Lost(c, NZ, IF stores THEN {n.dest} ELSE {})
       ELSE IF stores THEN Fold(c, v, NVZ, SignOf(v), {n.src2}) ELSE FoldFlags(c, NVZ, SignOf(v), {n.src2})
LOCAL Either(c0, h, Immediate(_), Else(_)) ==
    LET c == NoOverflow(c0)
        n == c.n
    IN First(c, h, Immediate,
             LAMBDA d : IF Is(d, n.src2)
                        THEN Immediate(Becomes(d, h, S(d, n.src2), n.src1, {n.src2}, {n.src1})) ELSE Else(d))
LOCAL ImmediateShift(c0, h, Immediate(_), Else(_)) ==
    LET c == NoOverflow(c0)
        n == c.n
        k == S(c, n.src2) % (2 * W)
        v == IF k < W THEN Shr(n.src1, k) ELSE IF k = W THEN 0 ELSE Shl(n.src1, 2 * W - k)
    IN IF Is(c, n.src2) THEN Immediate(Becomes(c, h, v, n.dest, {n.src2}, {n.dest})) ELSE Else(c)
LOCAL ScalarShift(c0, h, ImmediateShiftScalar(_), Else(_)) ==
    LET c == NoOverflow(c0)
        n == c.n
    IN IF Is(c, n.src1)
       THEN ImmediateShiftScalar(Becomes(c, h, S(c, n.src1), n.src2, {n.src1}, {n.src2, n.dest})) ELSE Else(c)
LOCAL ScalarRotate(c0, h, Immediate(_), Else(_)) ==
    LET c == NoOverflow(c0)
        n == c.n
        k == S(c, n.src2) % (2 * W)
        v == IF k >= W THEN Rol(S(c, n.src1), (2 * W - k) % W) ELSE Ror(S(c, n.src1), k)
    IN IF Is(c, n.src1) /\ Is(c, n.src2)
       THEN Immediate(Becomes(c, h, v, n.dest, {n.src1, n.src2}, {n.dest})) ELSE Else(c)
LOCAL Stored(c) == Any(c, NZ)
LOCAL Tested(c) == Lost(c, NZ, {})

PropagateConstants_ANDImmediate(c) == Logic(c, And, TRUE)
PropagateConstants_ANDScalar(c) == Either(c, "ANDImmediate", PropagateConstants_ANDImmediate, Stored)
PropagateConstants_ANDImmediateShiftScalar(c) == ImmediateShift(c, "ANDImmediate", PropagateConstants_ANDImmediate, Stored)
PropagateConstants_ANDScalarShiftRightImmediate(c) == ShiftedFirst(NoOverflow(c), "ANDImmediate", Shr, PropagateConstants_ANDImmediate, Stored)
PropagateConstants_ANDScalarShiftLeftImmediate(c) == ShiftedFirst(NoOverflow(c), "ANDImmediate", Shl, PropagateConstants_ANDImmediate, Stored)
PropagateConstants_ANDScalarShiftScalar(c) == ScalarShift(c, "ANDImmediateShiftScalar", PropagateConstants_ANDImmediateShiftScalar, Stored)
PropagateConstants_ANDScalarRotateScalar(c) == ScalarRotate(c, "ANDImmediate", PropagateConstants_ANDImmediate, Stored)
PropagateConstants_FTSTImmediate(c) == Logic(c, And, FALSE)
PropagateConstants_FTSTScalar(c) == Either(c, "FTSTImmediate", PropagateConstants_FTSTImmediate, Tested)
PropagateConstants_FTSTImmediateShiftScalar(c) == ImmediateShift(c, "FTSTImmediate", PropagateConstants_FTSTImmediate, Tested)
PropagateConstants_FTSTScalarShiftRightImmediate(c) == ShiftedFirst(NoOverflow(c), "FTSTImmediate", Shr, PropagateConstants_FTSTImmediate, Tested)
PropagateConstants_FTSTScalarShiftLeftImmediate(c) == ShiftedFirst(NoOverflow(c), "FTSTImmediate", Shl, PropagateConstants_FTSTImmediate, Tested)
PropagateConstants_FTSTScalarShiftScalar(c) == ScalarShift(c, "FTSTImmediateShiftScalar", PropagateConstants_FTSTImmediateShiftScalar, Tested)
PropagateConstants_FTSTScalarRotateScalar(c) == ScalarRotate(c, "FTSTImmediate", PropagateConstants_FTSTImmediate, Tested)
PropagateConstants_ORImmediate(c) == Logic(c, Or, TRUE)
PropagateConstants_ORScalar(c) == Either(c, "ORImmediate", PropagateConstants_ORImmediate, Stored)
PropagateConstants_ORImmediateShiftScalar(c) == ImmediateShift(c, "ORImmediate", PropagateConstants_ORImmediate, Stored)
PropagateConstants_ORScalarShiftRightImmediate(c) == ShiftedFirst(NoOverflow(c), "ORImmediate", Shr, PropagateConstants_ORImmediate, Stored)
PropagateConstants_ORScalarShiftLeftImmediate(c) == ShiftedFirst(NoOverflow(c), "ORImmediate", Shl, PropagateConstants_ORImmediate, Stored)
PropagateConstants_ORScalarShiftScalar(c) == ScalarShift(c, "ORImmediateShiftScalar", PropagateConstants_ORImmediateShiftScalar, Stored)
PropagateConstants_ORScalarRotateScalar(c) == ScalarRotate(c, "ORImmediate", PropagateConstants_ORImmediate, Stored)
PropagateConstants_EORImmediate(c) == Logic(c, Xor, TRUE)
PropagateConstants_EORScalar(c) ==
    IF c.n.src1 = c.n.src2 THEN Fold(NoOverflow(c), 0, NVZ, {"Z"}, {c.n.src1})
    ELSE Either(c, "EORImmediate", PropagateConstants_EORImmediate, Stored)
PropagateConstants_EORImmediateShiftScalar(c) == ImmediateShift(c, "EORImmediate", PropagateConstants_EORImmediate, Stored)
PropagateConstants_EORScalarShiftRightImmediate(c) == ShiftedFirst(NoOverflow(c), "EORImmediate", Shr, PropagateConstants_EORImmediate, Stored)
PropagateConstants_EORScalarShiftLeftImmediate(c) == ShiftedFirst(NoOverflow(c), "EORImmediate", Shl, PropagateConstants_EORImmediate, Stored)
PropagateConstants_EORScalarShiftScalar(c) == ScalarShift(c, "EORImmediateShiftScalar", PropagateConstants_EORImmediateShiftScalar, Stored)
PropagateConstants_EORScalarRotateScalar(c) == ScalarRotate(c, "EORImmediate", PropagateConstants_EORImmediate, Stored)
=============================================================================
