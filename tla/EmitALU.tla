------------------------------ MODULE EmitALU ------------------------------
(***************************************************************************)
(* The emitters of the ALU: the code each instruction is compiled to, with *)
(* the registers the source uses and in the order it emits them.           *)
(***************************************************************************)
EXTENDS EmitMisc

LOCAL Needs(v, D) == v.mout \cap D # {}
LOCAL Clear(v, D) == X86Emit_ANDIM(Not(FLAG_DEPENDENCIES(v.mout \cap D)), Cc(v))
LOCAL Zeroed == X86Emit_XORRR(eax, eax)
LOCAL Placed(v) == X86Emit_ORRM(eax, Cc(v))

\* The result, in ebx, when it is still needed.
Result(v, n) == When(v.sout # {}, <<X86Emit_MOVRM(ebx, ScalarW(v, n.dest))>>)

\* The zero flag and the negative flag computed from ebx.
ZeroOfEbx(v) ==
    When("Z" \in v.mout,
         <<X86Emit_XORRR(ecx, ecx), X86Emit_MOVIR(CC_ALU_ZERO, edx), X86Emit_TESTRR(ebx, ebx),
           X86Emit_CMOVZRR(ecx, edx), X86Emit_ORRR(eax, ecx)>>)
SignOfEbx(v) ==
    When("N" \in v.mout,
         <<X86Emit_MOVRR(ecx, ebx), X86Emit_SHRIR(ecx, W - 4), X86Emit_ANDIR(CC_ALU_NEGATIVE, ecx),
           X86Emit_ORRR(eax, ecx)>>)
\* Mutant: the flags are or-ed into whatever is in eax.
FlagsOfEbxNotZeroed(v, D) ==
    When(Needs(v, D), <<Clear(v, D)>>) \o SignOfEbx(v) \o ZeroOfEbx(v)
      \o When(Needs(v, D), <<Placed(v)>>)
FlagsOfEbx(v, D) ==
    When(Needs(v, D), <<Zeroed, Clear(v, D)>>) \o SignOfEbx(v) \o ZeroOfEbx(v)
      \o When(Needs(v, D), <<Placed(v)>>)

\* The flags of the machine, set aside in byte registers before anything
\* changes them: the sign in sign (ch or dh), overflow in cl, carry in dh, zero
\* in dl; then moved into place.
SetAside(v, sign) ==
    When("N" \in v.mout, <<X86Emit_SETSR(sign)>>) \o When("Z" \in v.mout, <<X86Emit_SETZR(dl)>>)
SignInto(v, sign) == When("N" \in v.mout, <<X86Emit_SHLIR(sign, 3), X86Emit_ORRR(al, sign)>>)
ZeroInto(v) == When("Z" \in v.mout, <<X86Emit_ORRR(al, dl)>>)
SetAsideAll(v) ==
    When("N" \in v.mout, <<X86Emit_SETSR(ch)>>) \o When("V" \in v.mout, <<X86Emit_SETOR(cl)>>)
      \o When("C" \in v.mout, <<X86Emit_SETBR(dh)>>) \o When("Z" \in v.mout, <<X86Emit_SETZR(dl)>>)
OverflowAndCarryInto(v) ==
    When("V" \in v.mout, <<X86Emit_SHLIR(cl, 2), X86Emit_ORRR(al, cl)>>)
      \o When("C" \in v.mout, <<X86Emit_SHLIR(dh, 1), X86Emit_ORRR(al, dh)>>)

\* ... after a sum or a difference
ArithFlags(v) ==
    When(Needs(v, NVCZ), SetAsideAll(v) \o <<Clear(v, NVCZ), Zeroed>>)
      \o SignInto(v, ch) \o OverflowAndCarryInto(v) \o ZeroInto(v) \o When(Needs(v, NVCZ), <<Placed(v)>>)
\* ... with carry: the zero flag is cleared or left alone
CarryFlags(v) ==
    When(Needs(v, NVCZ), SetAsideAll(v) \o <<Clear(v, NVC), Zeroed>>)
      \o SignInto(v, ch) \o OverflowAndCarryInto(v) \o When(Needs(v, NVC), <<Placed(v)>>)
      \o When("Z" \in v.mout,
              <<X86Emit_MOVZXRR(edx, dl), X86Emit_ORIR(Not(CC_ALU_ZERO), edx), X86Emit_ANDRM(edx, Cc(v))>>)
\* ... after a logical operation with a shifted register
LogicFlagsOf(v, sign) ==
    When(Needs(v, NVZ), SetAside(v, sign) \o <<Clear(v, NVZ), Zeroed>>)
      \o SignInto(v, sign) \o ZeroInto(v) \o When(Needs(v, NVZ), <<Placed(v)>>)
\* ... after a test of ebx
TestedFlags(v) ==
    When(Needs(v, NVZ), <<X86Emit_TESTRR(ebx, ebx)>>) \o LogicFlagsOf(v, dh)
\* ... of a shift, whose carry the code carry leaves in reg
ShiftFlags(v, carry, reg) ==
    When(Needs(v, NVCZ), <<X86Emit_TESTRR(ebx, ebx)>> \o SetAside(v, dh)
                           \o When("C" \in v.mout, carry) \o <<Clear(v, NVCZ), Zeroed>>)
      \o SignInto(v, dh) \o ZeroInto(v)
      \o When("C" \in v.mout, <<X86Emit_ORRR(IF reg = ebp THEN eax ELSE al, reg)>>)
      \o When(Needs(v, NVCZ), <<Placed(v)>>)

Emit_ABS(v, n) ==
    LET OnMinimum == v.mout \cap {"N", "V"}
    IN <<X86Emit_MOVMR(eax, ScalarR(v, n.src1)), X86Emit_MOVRR(ebx, eax), X86Emit_MOVRR(ebp, eax),
         X86Emit_SARIR(ebx, W - 1), X86Emit_XORRR(eax, ebx), X86Emit_SUBRR(eax, ebx)>>
       \o When(v.sout # {}, <<X86Emit_MOVRM(eax, ScalarW(v, n.dest))>>)
       \o When(Needs(v, NVCZ), <<Zeroed, Clear(v, NVCZ)>>)
       \o When("C" \in v.mout,
               <<X86Emit_MOVRR(ebx, ebp), X86Emit_SHRIR(ebx, W - 2), X86Emit_ANDIR(CC_ALU_CARRY, ebx),
                 X86Emit_ORRR(eax, ebx)>>)
       \o When(OnMinimum # {},
               <<X86Emit_XORRR(ebx, ebx), X86Emit_MOVIR(FlagBits(OnMinimum), ecx),
                 X86Emit_CMPIR(Sign, ebp), X86Emit_CMOVZRR(ebx, ecx), X86Emit_ORRR(eax, ebx)>>)
       \o When("Z" \in v.mout,
               <<X86Emit_XORRR(ebx, ebx), X86Emit_MOVIR(CC_ALU_ZERO, ecx), X86Emit_TESTRR(ebp, ebp),
                 X86Emit_CMOVZRR(ebx, ecx), X86Emit_ORRR(eax, ebx)>>)
       \o When(Needs(v, NVCZ), <<Placed(v)>>)

Emit_BITSScalar(v, n) ==
    <<X86Emit_MOVMR(eax, ScalarR(v, n.dest)), X86Emit_MOVMR(ecx, ScalarR(v, n.src2)),
      X86Emit_MOVIR(n.src1, ebx), X86Emit_ANDIR(W - 1, ecx), X86Emit_SHRRR(eax), X86Emit_ANDRR(ebx, eax)>>
    \o Result(v, n) \o FlagsOfEbx(v, NZ)
Emit_BITSImmediate(v, n) ==
    <<X86Emit_MOVMR(ebx, ScalarR(v, n.dest))>> \o When(n.src2 # 0, <<X86Emit_SHRIR(ebx, n.src2)>>)
    \o When(n.src1 # Ones, <<X86Emit_ANDIR(n.src1, ebx)>>) \o Result(v, n) \o FlagsOfEbx(v, NZ)

Emit_BTST(v, n) ==
    <<X86Emit_MOVMR(ebx, ScalarR(v, n.src2)), X86Emit_ANDIR(n.src1, ebx)>>
    \o When(Needs(v, NVZ), <<Zeroed, Clear(v, NVZ)>>) \o ZeroOfEbx(v) \o When(Needs(v, NVZ), <<Placed(v)>>)

Emit_BUTT(v, n) ==
    <<X86Emit_MOVMR(ebx, ScalarR(v, n.src2))>>
    \o When(n.dest + 1 \in v.sout,
            <<X86Emit_MOVRR(eax, ebx), X86Emit_SUBMR(eax, ScalarR(v, n.src1)),
              X86Emit_MOVRM(eax, ScalarW(v, n.dest + 1))>>)
    \o <<X86Emit_ADDMR(ebx, ScalarR(v, n.src1))>>
    \o When(n.dest \in v.sout, <<X86Emit_MOVRM(ebx, ScalarW(v, n.dest))>>) \o ArithFlags(v)

Emit_COPY(v, n) == <<X86Emit_MOVMR(ebx, ScalarR(v, n.src2))>> \o Result(v, n) \o FlagsOfEbx(v, NVZ)

Emit_MSB(v, n) ==
    <<X86Emit_MOVMR(eax, ScalarR(v, n.src1)), X86Emit_MOVRR(ebx, eax), X86Emit_SARIR(ebx, W - 1),
      X86Emit_XORRR(eax, ebx), X86Emit_BSRRR(ebx, eax), X86Emit_MOVIR(Ones, ecx),
      X86Emit_CMOVZRR(ebx, ecx), X86Emit_INCR(ebx)>>
    \o Result(v, n)
    \o When("Z" \in v.mout, <<Zeroed, X86Emit_ANDIM(Not(CC_ALU_ZERO), Cc(v))>> \o ZeroOfEbx(v) \o <<Placed(v)>>)

Emit_SAT(v, n) ==
    <<X86Emit_MOVMR(ebx, ScalarR(v, n.src1)), X86Emit_MOVIR(Pow[n.src2] - 1, eax),
      X86Emit_CMPRR(ebx, eax), X86Emit_CMOVNLERR(ebx, eax), X86Emit_NOTR(eax),
      X86Emit_CMPRR(ebx, eax), X86Emit_CMOVLRR(ebx, eax)>>
    \o Result(v, n) \o FlagsOfEbx(v, NZ)

\* Vectors: four lanes at once when the lanes 0 and 1 come from one register
\* file and the lanes 2 and 3 as well, else two lanes at a time.
Paired(v, r) ==
    /\ GetScalarRegReadBaseReg(v, r) = GetScalarRegReadBaseReg(v, r + 1)
    /\ GetScalarRegReadBaseReg(v, r + 2) = GetScalarRegReadBaseReg(v, r + 3)
sub_sv_mask == <<HighHalf, HighHalf, HighHalf, HighHalf>>
AllLanes(v, n, op) ==
    <<X86Emit_MOVDQAMR(xmm2, sub_sv_mask), X86Emit_MOVDQUMR(xmm0, ScalarR(v, n.src2)),
      X86Emit_MOVDQUMR(xmm1, ScalarR(v, n.src1)), X86Emit_PANDRR(xmm0, xmm2),
      X86Emit_PANDRR(xmm1, xmm2), op, X86Emit_MOVDQURM(xmm0, ScalarW(v, n.dest))>>
FirstLanes(v, n, op) ==
    <<X86Emit_MOVMR(eax, ScalarR(v, n.src2)), X86Emit_MOVMR(ebx, ScalarR(v, n.src1)),
      X86Emit_MOVMR(ecx, ScalarR(v, n.src2 + 1)), X86Emit_MOVMR(edx, ScalarR(v, n.src1 + 1)),
      X86Emit_MOVIR(HighHalf, ebp), X86Emit_ANDRR(eax, ebp), X86Emit_ANDRR(ebx, ebp),
      X86Emit_ANDRR(ecx, ebp), X86Emit_ANDRR(edx, ebp), <<op, eax, ebx>>, <<op, ecx, edx>>,
      X86Emit_MOVMR(ebx, ScalarR(v, n.src2 + 2)), X86Emit_MOVMR(edx, ScalarR(v, n.src1 + 2))>>
VectorLanes(v, n, op) ==
    FirstLanes(v, n, op) \o
    <<X86Emit_MOVRM(eax, ScalarW(v, n.dest)), X86Emit_MOVMR(eax, ScalarR(v, n.src2 + 3)),
      X86Emit_MOVRM(ecx, ScalarW(v, n.dest + 1)), X86Emit_MOVMR(ecx, ScalarR(v, n.src1 + 3)),
      X86Emit_ANDRR(eax, ebp), X86Emit_ANDRR(ebx, ebp), X86Emit_ANDRR(ecx, ebp), X86Emit_ANDRR(edx, ebp),
      <<op, ebx, edx>>, <<op, eax, ecx>>,
      X86Emit_MOVRM(ebx, ScalarW(v, n.dest + 2)), X86Emit_MOVRM(eax, ScalarW(v, n.dest + 3))>>
PixelLanes(v, n, op) ==
    FirstLanes(v, n, op) \o
    <<X86Emit_MOVRM(eax, ScalarW(v, n.dest)), X86Emit_MOVRM(ecx, ScalarW(v, n.dest + 1)),
      X86Emit_ANDRR(ebx, ebp), X86Emit_ANDRR(edx, ebp), <<op, ebx, edx>>,
      X86Emit_MOVRM(ebx, ScalarW(v, n.dest + 2))>>
ZeroLanes(v, n, k) == <<Zeroed>> \o [i \in 1..k |-> X86Emit_MOVRM(eax, ScalarW(v, n.dest + i - 1))]

Emit_ADD_SV(v, n) ==
    IF Paired(v, n.src1) /\ Paired(v, n.src2)
    THEN AllLanes(v, n, X86Emit_PADDRR(xmm0, xmm1)) ELSE VectorLanes(v, n, "add")
Emit_ADD_P(v, n) == PixelLanes(v, n, "add")
Emit_SUB_SV(v, n) ==
    IF n.src1 = n.src2 THEN ZeroLanes(v, n, 4)
    ELSE IF Paired(v, n.src1) /\ Paired(v, n.src2)
    THEN AllLanes(v, n, X86Emit_PSUBDRR(xmm0, xmm1)) ELSE VectorLanes(v, n, "sub")
Emit_SUB_P(v, n) == IF n.src1 = n.src2 THEN ZeroLanes(v, n, 3) ELSE PixelLanes(v, n, "sub")

\* Shifts and rotations by a count of six bits in ecx of the value in ebx: to
\* the left when bit 5 of the count is set, by 64 less the count, which may be
\* a whole word.
CountTested(before) ==
    <<X86Emit_MOVIR(2 * W, edx), X86Emit_ANDIR(2 * W - 1, ecx), X86Emit_SUBRR(edx, ecx)>> \o before \o
    <<X86Emit_TESTIR(W, ecx), X86Emit_CMOVNZRR(ecx, edx), X86Emit_JCC_Label("nz", "l_left")>>
\* Mutant: a count of 32 shifts by 0.
LeftShiftedModulo == <<X86Emit_SHLRR(ebx)>>
LeftShifted ==
    <<X86Emit_XORRR(edx, edx), X86Emit_SHLRR(ebx), X86Emit_CMPIR(W, ecx), X86Emit_CMOVZRR(ebx, edx)>>
EitherWay(right, left) ==
    right \o <<X86Emit_JMPI_Label("l_calc_flags"), SetLabelPointer("l_left")>> \o left
      \o <<SetLabelPointer("l_calc_flags")>>
Shifting == CountTested(<<>>) \o EitherWay(<<X86Emit_SHRRR(ebx)>>, LeftShifted)
Rotating == CountTested(<<>>) \o EitherWay(<<X86Emit_RORRR(ebx)>>, <<X86Emit_ROLRR(ebx)>>)

Operands(v, value, count) == <<X86Emit_MOVMR(ecx, ScalarR(v, count)), value>>
Emit_ROT(v, n) ==
    Operands(v, X86Emit_MOVMR(ebx, ScalarR(v, n.src2)), n.src1) \o Rotating
    \o Result(v, n) \o TestedFlags(v)
Emit_ROL(v, n) ==
    <<X86Emit_MOVMR(ebx, ScalarR(v, n.src2)), X86Emit_ROLIR(ebx, n.src1)>> \o Result(v, n) \o TestedFlags(v)
Emit_ROR(v, n) ==
    <<X86Emit_MOVMR(ebx, ScalarR(v, n.src2))>> \o When(n.src1 # 0, <<X86Emit_RORIR(ebx, n.src1)>>)
    \o Result(v, n) \o TestedFlags(v)

\* The carry of a shift by a register is taken from a copy of the value.
ShiftEmitted(v, n, right) ==
    Operands(v, X86Emit_MOVMR(ebx, ScalarR(v, n.src2)), n.src1)
    \o CountTested(<<X86Emit_MOVRR(ebp, ebx)>>)
    \o EitherWay(<<right>> \o When("C" \in v.mout, <<X86Emit_SHLIR(ebp, 1), X86Emit_ANDIR(CC_ALU_CARRY, ebp)>>),
                 LeftShifted \o
                 When("C" \in v.mout, <<X86Emit_SHRIR(ebp, W - 2), X86Emit_ANDIR(CC_ALU_CARRY, ebp)>>))
    \o Result(v, n) \o ShiftFlags(v, <<>>, ebp)
Emit_AS(v, n) == ShiftEmitted(v, n, X86Emit_SARRR(ebx))
Emit_LS(v, n) == ShiftEmitted(v, n, X86Emit_SHRRR(ebx))
Emit_ASL(v, n) ==
    <<X86Emit_MOVMR(ebx, ScalarR(v, n.src2)), X86Emit_MOVRR(ecx, ebx)>>
    \o (IF n.src1 = W THEN <<X86Emit_XORRR(ebx, ebx)>> ELSE When(n.src1 # 0, <<X86Emit_SHLIR(ebx, n.src1)>>))
    \o Result(v, n) \o ShiftFlags(v, <<X86Emit_SHRIR(ecx, W - 2), X86Emit_ANDIR(CC_ALU_CARRY, ecx)>>, cl)
RightEmitted(v, n, right) ==
    <<X86Emit_MOVMR(ebx, ScalarR(v, n.src2))>> \o When("C" \in v.mout, <<X86Emit_LEA(ecx, ebx, ebx, 0)>>)
    \o When(n.src1 # 0, <<right>>)
    \o Result(v, n) \o ShiftFlags(v, <<X86Emit_ANDIR(CC_ALU_CARRY, ecx)>>, cl)
Emit_ASR(v, n) == RightEmitted(v, n, X86Emit_SARIR(ebx, n.src1))
Emit_LSR(v, n) == RightEmitted(v, n, X86Emit_SHRIR(ebx, n.src1))

\* The second operands: a register, an immediate, a shifted or rotated
\* immediate or register, a register shifted by an immediate.
Loaded(v, r) == <<X86Emit_MOVMR(ebx, ScalarR(v, r))>>
ShiftedImm(v, n) == Operands(v, X86Emit_MOVIR(n.src1, ebx), n.src2) \o Shifting
ShiftedScalar(v, n) == Operands(v, X86Emit_MOVMR(ebx, ScalarR(v, n.src1)), n.src2) \o Shifting
RotatedScalar(v, n) == Operands(v, X86Emit_MOVMR(ebx, ScalarR(v, n.src1)), n.src2) \o Rotating
LeftImm(v, n) ==
    Loaded(v, n.dest) \o <<X86Emit_MOVMR(ecx, ScalarR(v, n.src1)), X86Emit_SHLIR(ecx, n.src2)>>
RightImm(v, n, shift) ==
    Loaded(v, n.dest) \o <<X86Emit_MOVMR(ecx, ScalarR(v, n.src1))>> \o When(n.src2 # 0, <<shift>>)
LogicalImm(v, n) == RightImm(v, n, X86Emit_SHRIR(ecx, n.src2))
ArithmeticImm(v, n) == RightImm(v, n, X86Emit_SARIR(ecx, n.src2))

Emit_ANDScalar(v, n) ==
    Loaded(v, n.src2) \o <<X86Emit_ANDMR(ebx, ScalarR(v, n.src1))>> \o Result(v, n) \o FlagsOfEbx(v, NVZ)
Emit_ANDImmediate(v, n) ==
    Loaded(v, n.src2) \o When(n.src1 # Ones, <<X86Emit_ANDIR(n.src1, ebx)>>)
    \o Result(v, n) \o FlagsOfEbx(v, NVZ)
Emit_ANDImmediateShiftScalar(v, n) ==
    ShiftedImm(v, n) \o <<X86Emit_ANDMR(ebx, ScalarR(v, n.dest))>> \o Result(v, n) \o TestedFlags(v)
Emit_ANDScalarShiftScalar(v, n) ==
    ShiftedScalar(v, n) \o <<X86Emit_ANDMR(ebx, ScalarR(v, n.dest))>> \o Result(v, n) \o TestedFlags(v)
Emit_ANDScalarRotateScalar(v, n) ==
    RotatedScalar(v, n) \o <<X86Emit_ANDMR(ebx, ScalarR(v, n.dest))>> \o Result(v, n) \o TestedFlags(v)
Emit_ANDScalarShiftLeftImmediate(v, n) ==
    LeftImm(v, n) \o <<X86Emit_ANDRR(ebx, ecx)>> \o Result(v, n) \o LogicFlagsOf(v, ch)
Emit_ANDScalarShiftRightImmediate(v, n) ==
    LogicalImm(v, n) \o <<X86Emit_ANDRR(ebx, ecx)>> \o Result(v, n) \o LogicFlagsOf(v, ch)

\* ftst is an and whose result is not written.
Emit_FTSTScalar(v, n) ==
    Loaded(v, n.src2) \o <<X86Emit_ANDMR(ebx, ScalarR(v, n.src1))>> \o FlagsOfEbx(v, NVZ)
Emit_FTSTImmediate(v, n) ==
    Loaded(v, n.src2) \o When(n.src1 # Ones, <<X86Emit_ANDIR(n.src1, ebx)>>)
    \o FlagsOfEbx(v, NVZ)
Emit_FTSTImmediateShiftScalar(v, n) ==
    ShiftedImm(v, n) \o <<X86Emit_ANDMR(ebx, ScalarR(v, n.dest))>> \o TestedFlags(v)
Emit_FTSTScalarShiftScalar(v, n) ==
    ShiftedScalar(v, n) \o <<X86Emit_ANDMR(ebx, ScalarR(v, n.dest))>> \o TestedFlags(v)
Emit_FTSTScalarRotateScalar(v, n) ==
    RotatedScalar(v, n) \o <<X86Emit_ANDMR(ebx, ScalarR(v, n.dest))>> \o TestedFlags(v)
Emit_FTSTScalarShiftLeftImmediate(v, n) ==
    LeftImm(v, n) \o <<X86Emit_ANDRR(ebx, ecx)>> \o LogicFlagsOf(v, ch)
Emit_FTSTScalarShiftRightImmediate(v, n) ==
    LogicalImm(v, n) \o <<X86Emit_ANDRR(ebx, ecx)>> \o LogicFlagsOf(v, ch)
Emit_ORScalar(v, n) ==
    Loaded(v, n.src2) \o <<X86Emit_ORMR(ebx, ScalarR(v, n.src1))>> \o Result(v, n) \o FlagsOfEbx(v, NVZ)
Emit_ORImmediate(v, n) ==
    Loaded(v, n.src2) \o When(n.src1 # 0, <<X86Emit_ORIR(n.src1, ebx)>>)
    \o Result(v, n) \o FlagsOfEbx(v, NVZ)
Emit_ORImmediateShiftScalar(v, n) ==
    ShiftedImm(v, n) \o <<X86Emit_ORMR(ebx, ScalarR(v, n.dest))>> \o Result(v, n) \o TestedFlags(v)
Emit_ORScalarShiftScalar(v, n) ==
    ShiftedScalar(v, n) \o <<X86Emit_ORMR(ebx, ScalarR(v, n.dest))>> \o Result(v, n) \o TestedFlags(v)
Emit_ORScalarRotateScalar(v, n) ==
    RotatedScalar(v, n) \o <<X86Emit_ORMR(ebx, ScalarR(v, n.dest))>> \o Result(v, n) \o TestedFlags(v)
Emit_ORScalarShiftLeftImmediate(v, n) ==
    LeftImm(v, n) \o <<X86Emit_ORRR(ebx, ecx)>> \o Result(v, n) \o LogicFlagsOf(v, ch)
Emit_ORScalarShiftRightImmediate(v, n) ==
    LogicalImm(v, n) \o <<X86Emit_ORRR(ebx, ecx)>> \o Result(v, n) \o LogicFlagsOf(v, ch)
Emit_EORScalar(v, n) ==
    Loaded(v, n.src2) \o <<X86Emit_XORMR(ebx, ScalarR(v, n.src1))>> \o Result(v, n) \o FlagsOfEbx(v, NVZ)
Emit_EORImmediate(v, n) ==
    Loaded(v, n.src2) \o When(n.src1 # 0, <<X86Emit_XORIR(n.src1, ebx)>>)
    \o Result(v, n) \o FlagsOfEbx(v, NVZ)
Emit_EORImmediateShiftScalar(v, n) ==
    ShiftedImm(v, n) \o <<X86Emit_XORMR(ebx, ScalarR(v, n.dest))>> \o Result(v, n) \o TestedFlags(v)
Emit_EORScalarShiftScalar(v, n) ==
    ShiftedScalar(v, n) \o <<X86Emit_XORMR(ebx, ScalarR(v, n.dest))>> \o Result(v, n) \o TestedFlags(v)
Emit_EORScalarRotateScalar(v, n) ==
    RotatedScalar(v, n) \o <<X86Emit_XORMR(ebx, ScalarR(v, n.dest))>> \o Result(v, n) \o TestedFlags(v)
Emit_EORScalarShiftLeftImmediate(v, n) ==
    LeftImm(v, n) \o <<X86Emit_XORRR(ebx, ecx)>> \o Result(v, n) \o LogicFlagsOf(v, ch)
Emit_EORScalarShiftRightImmediate(v, n) ==
    LogicalImm(v, n) \o <<X86Emit_XORRR(ebx, ecx)>> \o Result(v, n) \o LogicFlagsOf(v, ch)

\* Sums, differences, and comparisons, which are differences not written.
Emit_ADDImmediate(v, n) ==
    Loaded(v, n.src2) \o <<X86Emit_ADDIR(n.src1, ebx)>> \o Result(v, n) \o ArithFlags(v)
Emit_ADDScalar(v, n) ==
    Loaded(v, n.src2) \o <<X86Emit_ADDMR(ebx, ScalarR(v, n.src1))>> \o Result(v, n) \o ArithFlags(v)
Emit_ADDScalarShiftLeftImmediate(v, n) ==
    LeftImm(v, n) \o <<X86Emit_ADDRR(ebx, ecx)>> \o Result(v, n) \o ArithFlags(v)
Emit_ADDScalarShiftRightImmediate(v, n) ==
    ArithmeticImm(v, n) \o <<X86Emit_ADDRR(ebx, ecx)>> \o Result(v, n) \o ArithFlags(v)
Emit_SUBImmediate(v, n) ==
    Loaded(v, n.src2) \o <<X86Emit_SUBIR(n.src1, ebx)>> \o Result(v, n) \o ArithFlags(v)
Emit_SUBScalar(v, n) ==
    Loaded(v, n.src2) \o <<X86Emit_SUBMR(ebx, ScalarR(v, n.src1))>> \o Result(v, n) \o ArithFlags(v)
Emit_SUBScalarShiftLeftImmediate(v, n) ==
    LeftImm(v, n) \o <<X86Emit_SUBRR(ebx, ecx)>> \o Result(v, n) \o ArithFlags(v)
Emit_SUBScalarShiftRightImmediate(v, n) ==
    ArithmeticImm(v, n) \o <<X86Emit_SUBRR(ebx, ecx)>> \o Result(v, n) \o ArithFlags(v)
Emit_SUBImmediateReverse(v, n) ==
    <<X86Emit_MOVIR(n.src2, ebx), X86Emit_SUBMR(ebx, ScalarR(v, n.src1))>> \o Result(v, n) \o ArithFlags(v)
Emit_CMPImmediate(v, n) ==
    Loaded(v, n.src2) \o <<X86Emit_SUBIR(n.src1, ebx)>> \o ArithFlags(v)
Emit_CMPScalar(v, n) ==
    Loaded(v, n.src2) \o <<X86Emit_SUBMR(ebx, ScalarR(v, n.src1))>> \o ArithFlags(v)
Emit_CMPScalarShiftLeftImmediate(v, n) ==
    LeftImm(v, n) \o <<X86Emit_SUBRR(ebx, ecx)>> \o ArithFlags(v)
Emit_CMPScalarShiftRightImmediate(v, n) ==
    ArithmeticImm(v, n) \o <<X86Emit_SUBRR(ebx, ecx)>> \o ArithFlags(v)
Emit_CMPImmediateReverse(v, n) ==
    <<X86Emit_MOVIR(n.src2, ebx), X86Emit_SUBMR(ebx, ScalarR(v, n.src1))>> \o ArithFlags(v)

\* With carry: the carry flag of cc is rotated into that of the machine.
CarryIn(v, reg) == <<X86Emit_MOVRR(reg, eax), X86Emit_RCRIR(reg, 2)>>
CcLoaded(v) == <<X86Emit_MOVMR(eax, MiscR(v, CC))>>
Emit_ADDWCImmediate(v, n) ==
    CcLoaded(v) \o Loaded(v, n.src2) \o CarryIn(v, ecx) \o <<X86Emit_ADCIR(n.src1, ebx)>>
    \o Result(v, n) \o CarryFlags(v)
Emit_ADDWCScalar(v, n) ==
    CcLoaded(v) \o Loaded(v, n.src2) \o CarryIn(v, ecx) \o <<X86Emit_ADCMR(ebx, ScalarR(v, n.src1))>>
    \o Result(v, n) \o CarryFlags(v)
Emit_ADDWCScalarShiftLeftImmediate(v, n) ==
    CcLoaded(v) \o LeftImm(v, n) \o CarryIn(v, edx) \o <<X86Emit_ADCRR(ebx, ecx)>>
    \o Result(v, n) \o CarryFlags(v)
Emit_ADDWCScalarShiftRightImmediate(v, n) ==
    CcLoaded(v) \o ArithmeticImm(v, n) \o CarryIn(v, edx) \o <<X86Emit_ADCRR(ebx, ecx)>>
    \o Result(v, n) \o CarryFlags(v)
Emit_SUBWCImmediate(v, n) ==
    CcLoaded(v) \o Loaded(v, n.src2) \o CarryIn(v, ecx) \o <<X86Emit_SBBIR(n.src1, ebx)>>
    \o Result(v, n) \o CarryFlags(v)
Emit_SUBWCScalar(v, n) ==
    CcLoaded(v) \o Loaded(v, n.src2) \o CarryIn(v, ecx) \o <<X86Emit_SBBMR(ebx, ScalarR(v, n.src1))>>
    \o Result(v, n) \o CarryFlags(v)
Emit_SUBWCScalarShiftLeftImmediate(v, n) ==
    CcLoaded(v) \o LeftImm(v, n) \o CarryIn(v, edx) \o <<X86Emit_SBBRR(ebx, ecx)>>
    \o Result(v, n) \o CarryFlags(v)
Emit_SUBWCScalarShiftRightImmediate(v, n) ==
    CcLoaded(v) \o ArithmeticImm(v, n) \o CarryIn(v, edx) \o <<X86Emit_SBBRR(ebx, ecx)>>
    \o Result(v, n) \o CarryFlags(v)
Emit_SUBWCImmediateReverse(v, n) ==
    CcLoaded(v) \o <<X86Emit_MOVIR(n.src2, ebx)>> \o CarryIn(v, ecx)
    \o <<X86Emit_SBBMR(ebx, ScalarR(v, n.src1))>> \o Result(v, n) \o CarryFlags(v)
Emit_CMPWCImmediate(v, n) ==
    CcLoaded(v) \o Loaded(v, n.src2) \o CarryIn(v, ecx) \o <<X86Emit_SBBIR(n.src1, ebx)>>
    \o CarryFlags(v)
Emit_CMPWCScalar(v, n) ==
    CcLoaded(v) \o Loaded(v, n.src2) \o CarryIn(v, ecx) \o <<X86Emit_SBBMR(ebx, ScalarR(v, n.src1))>>
    \o CarryFlags(v)
Emit_CMPWCScalarShiftLeftImmediate(v, n) ==
    CcLoaded(v) \o LeftImm(v, n) \o CarryIn(v, edx) \o <<X86Emit_SBBRR(ebx, ecx)>>
    \o CarryFlags(v)
Emit_CMPWCScalarShiftRightImmediate(v, n) ==
    CcLoaded(v) \o ArithmeticImm(v, n) \o CarryIn(v, edx) \o <<X86Emit_SBBRR(ebx, ecx)>>
    \o CarryFlags(v)
Emit_CMPWCImmediateReverse(v, n) ==
    CcLoaded(v) \o <<X86Emit_MOVIR(n.src2, ebx)>> \o CarryIn(v, ecx)
    \o <<X86Emit_SBBMR(ebx, ScalarR(v, n.src1))>> \o CarryFlags(v)
=============================================================================
