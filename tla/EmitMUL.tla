------------------------------ MODULE EmitMUL ------------------------------
(***************************************************************************)
(* The emitters of the multiplier: the code each instruction is compiled   *)
(* to, with the registers the source uses and in the order it emits them.  *)
(***************************************************************************)
EXTENDS EmitMisc

LOCAL NeedsMV(v) == "MV" \in v.mout
LOCAL ClearFlags(v) == X86Emit_ANDIM(Not(FLAG_DEPENDENCIES(v.mout)), Cc(v))
LOCAL Only(v, code) == When(v.sout # {}, code)
LOCAL Dest(v, n) == ScalarW(v, n.dest)
LOCAL Src1(v, n) == ScalarR(v, n.src1)
LOCAL Src2(v, n) == ScalarR(v, n.src2)

Emit_ADDM(v, n) ==
    Only(v, <<X86Emit_MOVMR(eax, Src1(v, n)), X86Emit_ADDMR(eax, Src2(v, n)), X86Emit_MOVRM(eax, Dest(v, n))>>)
Emit_ADDMImmediate(v, n) ==
    Only(v, <<X86Emit_MOVMR(eax, Src2(v, n)), X86Emit_ADDIR(n.src1, eax), X86Emit_MOVRM(eax, Dest(v, n))>>)
Emit_SUBM(v, n) ==
    Only(v, IF n.src1 = n.src2 THEN <<X86Emit_MOVIM(0, Dest(v, n))>>
            ELSE <<X86Emit_MOVMR(eax, Src1(v, n)), X86Emit_SUBMR(eax, Src2(v, n)), X86Emit_MOVRM(eax, Dest(v, n))>>)
Emit_SUBMImmediateReverse(v, n) ==
    Only(v, <<X86Emit_MOVIR(n.src1, eax), X86Emit_SUBMR(eax, Src2(v, n)), X86Emit_MOVRM(eax, Dest(v, n))>>)

\* The product is in edx:eax.  The low word goes to the destination; the
\* overflow is what the high word differs by from its sign extension.
Stored(v, n) == X86Emit_MOVRM(eax, Dest(v, n))
OverflowOfEdx(v) ==
    <<X86Emit_XORRR(ecx, ecx), X86Emit_TESTIR(Sign, eax), X86Emit_MOVIR(1, ebx),
      X86Emit_MOVIR(CC_MUL_OVERFLOW, ebp), X86Emit_CMOVZRR(ebx, ecx), X86Emit_ADDRR(edx, ebx),
      X86Emit_CMOVZRR(ebp, edx), X86Emit_ORRM(ebp, Cc(v))>>

\* A shift by the seven bits in ecx: to the left when bit 6 is set.
ByEcx(v, n, farRight) ==
    <<X86Emit_TESTIR(2 * W, ecx), X86Emit_JCC_Label("z", "l_pos"),
      X86Emit_NEGR(ecx), X86Emit_ADDIR(4 * W, ecx), X86Emit_JMPI_Label("l_neg"),
      SetLabelPointer("l_pos"),
      X86Emit_CMPIR(W, ecx), X86Emit_JCC_Label("nl", "l_posge32"),
      SetLabelPointer("l_poslt32"), X86Emit_SHRDRRR(eax, edx)>>
    \o When(NeedsMV(v), <<X86Emit_SARRR(edx)>> \o OverflowOfEdx(v))
    \o <<X86Emit_JMPI_Label("l_exit"),
         SetLabelPointer("l_posge32"),
         X86Emit_MOVRR(eax, edx), X86Emit_SUBIR(W, ecx), X86Emit_SARRR(eax)>> \o farRight
    \o <<X86Emit_JMPI_Label("l_exit"),
         SetLabelPointer("l_neg"),
         X86Emit_XORRR(ebp, ebp), X86Emit_MOVRR(ebx, ecx), X86Emit_SUBIR(W, ebx), X86Emit_CMPIR(W, ecx),
         X86Emit_CMOVNLRR(edx, eax), X86Emit_CMOVNLRR(eax, ebp), X86Emit_CMOVNLRR(ecx, ebx),
         X86Emit_SHLDRRR(edx, eax), X86Emit_SHLRR(eax)>>
    \o When(NeedsMV(v), OverflowOfEdx(v))
    \o <<SetLabelPointer("l_exit"), Stored(v, n)>>

Emit_MULScalarShiftAcshift(v, n) ==
    <<X86Emit_MOVMR(eax, Src1(v, n)), X86Emit_MOVMR(ebx, Src2(v, n)), X86Emit_MOVMR(ecx, MiscR(v, ACSHIFT))>>
    \o When(NeedsMV(v), <<X86Emit_ANDIM(Not(CC_MUL_OVERFLOW), Cc(v))>>)
    \o <<X86Emit_ANDIR(4 * W - 1, ecx), X86Emit_IMULRR(ebx)>>
    \o ByEcx(v, n, When(NeedsMV(v), <<X86Emit_XORRR(ebp, ebp), X86Emit_ORRM(ebp, Cc(v))>>))

LoadedCount(v, n, first, count) ==
    <<first, ClearFlags(v), X86Emit_MOVMR(ecx, count), X86Emit_IMULMR(Src2(v, n)), X86Emit_ANDIR(4 * W - 1, ecx)>>
Emit_MULImmediateShiftAcshift(v, n) ==
    LoadedCount(v, n, X86Emit_MOVIR(n.src1, eax), MiscR(v, ACSHIFT)) \o ByEcx(v, n, <<>>)
Emit_MULScalarShiftScalar(v, n) ==
    LoadedCount(v, n, X86Emit_MOVMR(eax, Src1(v, n)), ScalarR(v, n.info)) \o ByEcx(v, n, <<>>)
Emit_MULImmediateShiftScalar(v, n) ==
    LoadedCount(v, n, X86Emit_MOVIR(n.src1, eax), ScalarR(v, n.info)) \o ByEcx(v, n, <<>>)

RightImmediate(v, n, first) ==
    <<first>> \o When(NeedsMV(v), <<ClearFlags(v)>>) \o <<X86Emit_IMULMR(Src2(v, n))>>
    \o IF n.info < W
       THEN <<X86Emit_SHRDIRR(eax, edx, n.info)>>
              \o When(NeedsMV(v), <<X86Emit_SARIR(edx, n.info)>> \o OverflowOfEdx(v)) \o <<Stored(v, n)>>
       ELSE IF n.info = W THEN <<X86Emit_MOVRM(edx, Dest(v, n))>>
       ELSE <<X86Emit_MOVRR(eax, edx), X86Emit_SARIR(eax, n.info - W), Stored(v, n)>>
LeftImmediate(v, n, first) ==
    <<first, ClearFlags(v), X86Emit_IMULMR(Src2(v, n))>>
    \o IF n.info > W - 1
       THEN <<X86Emit_MOVIM(0, Dest(v, n))>>
              \o When(NeedsMV(v),
                      When(n.info > W, <<X86Emit_SHLIR(eax, n.info - W)>>)
                      \o <<X86Emit_MOVIR(CC_MUL_OVERFLOW, ebp), X86Emit_TESTRR(eax, eax),
                           X86Emit_CMOVZRR(ebp, eax), X86Emit_ORRM(ebp, Cc(v))>>)
       ELSE When(n.info # 0, <<X86Emit_SHLDIRR(edx, eax, n.info), X86Emit_SHLIR(eax, n.info)>>)
              \o When(NeedsMV(v), OverflowOfEdx(v)) \o <<Stored(v, n)>>
Emit_MULScalarShiftRightImmediate(v, n) == RightImmediate(v, n, X86Emit_MOVMR(eax, Src1(v, n)))
Emit_MULScalarShiftLeftImmediate(v, n) == LeftImmediate(v, n, X86Emit_MOVMR(eax, Src1(v, n)))
Emit_MULImmediateShiftRightImmediate(v, n) == RightImmediate(v, n, X86Emit_MOVIR(n.src1, eax))
Emit_MULImmediateShiftLeftImmediate(v, n) == LeftImmediate(v, n, X86Emit_MOVIR(n.src1, eax))

-----------------------------------------------------------------------------
\* Vectors.  shiftTable again; the lanes i of src go to the registers regs;
\* Each(regs, Op) is one instruction for each register of regs.
CountOf(n) == <<Half, Half \div 2, 0, Half \div 8>>[1 + n.info]
Each(regs, Op(_)) == [i \in DOMAIN regs |-> Op(regs[i])]
LoadLanes(v, r, regs) == [i \in DOMAIN regs |-> X86Emit_MOVMR(regs[i], ScalarR(v, r + i - 1))]
StoreLanes(v, n, regs) == [i \in DOMAIN regs |-> X86Emit_MOVRM(regs[i], ScalarW(v, n.dest + i - 1))]
Uppers(regs) == Each(regs, LAMBDA r : X86Emit_SARIR(r, Half))
TimesEbp(regs) == Each(regs, LAMBDA r : X86Emit_IMULRRR(r, ebp))
ShiftEach(n, regs) == When(CountOf(n) > 0, Each(regs, LAMBDA r : X86Emit_SHLIR(r, CountOf(n))))
ShiftByCl(regs) == Each(regs, X86Emit_SHLRR)

\* The vector instructions when the four lanes come from one register file.
OneFile(v, r) ==
    /\ GetScalarRegReadBaseReg(v, r) = GetScalarRegReadBaseReg(v, r + 1)
    /\ GetScalarRegReadBaseReg(v, r + 2) = GetScalarRegReadBaseReg(v, r + 3)
    /\ GetScalarRegReadBaseReg(v, r) = GetScalarRegReadBaseReg(v, r + 2)
ProductsInXmm0(v, n, setup, s) ==
    <<X86Emit_MOVDQUMR(xmm0, Src2(v, n))>> \o setup
    \o <<X86Emit_PSRADIR(xmm0, Half), X86Emit_MOVDRR(xmm1, s), X86Emit_SHUFIR(xmm1, xmm1, 0),
         X86Emit_PMULLDRR(xmm0, xmm1)>>
VectorStored(v, n) ==
    When(CountOf(n) > 0, <<X86Emit_PSLDIR(xmm0, CountOf(n))>>) \o <<X86Emit_MOVDQURM(xmm0, Dest(v, n))>>

\* The fraction of ru or rv, in ebp.
Fraction(v, c) ==
    <<X86Emit_MOVMR(ebp, MiscR(v, c)), X86Emit_MOVMR(ecx, MiscR(v, UVCTL)), X86Emit_SHRIR(ecx, 3 * (W \div 4)),
      X86Emit_ANDIR(7, ecx), X86Emit_ADDIR(2, ecx), X86Emit_SARRR(ebp), X86Emit_ANDIR(Pow[Half - 2] - 1, ebp)>>
UpperEbp == <<X86Emit_SARIR(ebp, Half)>>

\* The count svshift stands for, from ecx to the register reg.
FromSvshift(v, reg) ==
    <<X86Emit_MOVMR(ecx, MiscR(v, SVSHIFT)), X86Emit_ANDIR(3, ecx), X86Emit_MOVIR(Half, reg),
      X86Emit_SHRRR(reg), X86Emit_ANDIR(Not(Half \div 4), reg)>>
ToCl(reg) == <<X86Emit_MOVRR(ecx, reg)>>
LiveAgain == X86Emit_MOVIR(LIVE, esi)

\* ebp times the four lanes; the first instructions that prepare ebp are upper
\* when it is a register whose upper half is meant.
SVImmediate(v, n, upper) ==
    IF OneFile(v, n.src2)
    THEN ProductsInXmm0(v, n, upper, ebp) \o VectorStored(v, n)
    ELSE LET r == <<eax, ebx, ecx, edx>>
         IN LoadLanes(v, n.src2, r) \o upper \o Uppers(r) \o TimesEbp(r) \o ShiftEach(n, r) \o StoreLanes(v, n, r)
\* By svshift the count is made in esi, which holds the address of the
\* registers, and esi is set again after the results have been stored.
SVSvshift(v, n, upper) ==
    IF OneFile(v, n.src2)
    THEN ProductsInXmm0(v, n, upper, ebp) \o FromSvshift(v, esi)
         \o <<X86Emit_MOVDRR(xmm1, esi), X86Emit_SHUFIR(xmm1, xmm1, 0), X86Emit_PSLDRR(xmm0, xmm1),
              X86Emit_MOVDQURM(xmm0, Dest(v, n)), LiveAgain>>
    ELSE LET r == <<eax, ebx, ecx, edx>>  q == <<eax, ebx, ebp, edx>>
         IN LoadLanes(v, n.src2, r) \o upper \o Uppers(r)
            \o <<X86Emit_IMULRRR(eax, ebp), X86Emit_IMULRRR(ebx, ebp), X86Emit_IMULRRR(edx, ebp),
                 X86Emit_IMULRRR(ebp, ecx)>>
            \o FromSvshift(v, esi) \o ToCl(esi) \o ShiftByCl(<<eax, ebx, edx, ebp>>) \o StoreLanes(v, n, q)
            \o <<LiveAgain>>

Emit_MUL_SVImmediateShiftImmediate(v, n) ==
    LET scalar == Sar(n.src1, Half)
        r == <<eax, ebx, ecx, edx>>
    IN IF OneFile(v, n.src2)
       THEN <<X86Emit_MOVDQUMR(xmm0, Src2(v, n)), X86Emit_PSRADIR(xmm0, Half), X86Emit_MOVIR(scalar, eax),
              X86Emit_MOVDRR(xmm1, eax), X86Emit_SHUFIR(xmm1, xmm1, 0), X86Emit_PMULLDRR(xmm0, xmm1)>>
            \o VectorStored(v, n)
       ELSE LoadLanes(v, n.src2, r) \o Uppers(r) \o Each(r, LAMBDA d : X86Emit_IMULIRR(d, scalar, d))
            \o ShiftEach(n, r) \o StoreLanes(v, n, r)
Emit_MUL_SVScalarShiftImmediate(v, n) == <<X86Emit_MOVMR(ebp, Src1(v, n))>> \o SVImmediate(v, n, UpperEbp)
Emit_MUL_SVScalarShiftSvshift(v, n) == <<X86Emit_MOVMR(ebp, Src1(v, n))>> \o SVSvshift(v, n, UpperEbp)
Emit_MUL_SVRuShiftImmediate(v, n) == Fraction(v, RU) \o SVImmediate(v, n, <<>>)
Emit_MUL_SVRuShiftSvshift(v, n) == Fraction(v, RU) \o SVSvshift(v, n, <<>>)
Emit_MUL_SVRvShiftImmediate(v, n) == Fraction(v, RV) \o SVImmediate(v, n, <<>>)
Emit_MUL_SVRvShiftSvshift(v, n) == Fraction(v, RV) \o SVSvshift(v, n, <<>>)

\* Two vectors, two lanes at a time: the products are stored, and shifted there.
TwoProducts(v, n, i) ==
    <<X86Emit_MOVMR(eax, ScalarR(v, n.src1 + i)), X86Emit_MOVMR(ecx, ScalarR(v, n.src2 + i)),
      X86Emit_MOVMR(ebx, ScalarR(v, n.src1 + i + 1)), X86Emit_MOVMR(edx, ScalarR(v, n.src2 + i + 1))>>
    \o Uppers(<<eax, ecx, ebx, edx>>)
    \o <<X86Emit_IMULRRR(eax, ecx), X86Emit_IMULRRR(ebx, edx),
         X86Emit_MOVRM(eax, ScalarW(v, n.dest + i)), X86Emit_MOVRM(ebx, ScalarW(v, n.dest + i + 1))>>
StoredAndShifted(v, n, count) ==
    TwoProducts(v, n, 0) \o TwoProducts(v, n, 2) \o <<X86Emit_MOVIR(Half, eax)>> \o count
    \o <<X86Emit_SHRRR(eax), X86Emit_ANDIR(Not(Half \div 4), eax), X86Emit_MOVRR(ecx, eax)>>
    \o [i \in 1..4 |-> X86Emit_SHLRM(ScalarW(v, n.dest + i - 1))]
Emit_MUL_SVVectorShiftImmediate(v, n) == StoredAndShifted(v, n, <<X86Emit_MOVIR(n.info, ecx)>>)
Emit_MUL_SVVectorShiftSvshift(v, n) ==
    StoredAndShifted(v, n, <<X86Emit_MOVMR(ecx, MiscR(v, SVSHIFT)), X86Emit_ANDIR(3, ecx)>>)

\* Three lanes.
PImmediate(v, n, upper) ==
    LET r == <<eax, ebx, ecx>>
    IN LoadLanes(v, n.src2, r) \o upper \o Uppers(r) \o TimesEbp(r) \o ShiftEach(n, r) \o StoreLanes(v, n, r)
PSvshift(v, n, upper) ==
    LET r == <<eax, ebx, edx>>
    IN LoadLanes(v, n.src2, r) \o upper \o Uppers(r) \o TimesEbp(r) \o FromSvshift(v, ebp) \o ToCl(ebp)
       \o ShiftByCl(r) \o StoreLanes(v, n, r)
Emit_MUL_PImmediateShiftImmediate(v, n) ==
    LET scalar == Sar(n.src1, Half)
        r == <<eax, ebx, ecx>>
    IN LoadLanes(v, n.src2, r) \o Uppers(r) \o Each(r, LAMBDA d : X86Emit_IMULIRR(d, scalar, d))
       \o ShiftEach(n, r) \o <<X86Emit_MOVIR(scalar, ebp)>> \o StoreLanes(v, n, r)
Emit_MUL_PScalarShiftImmediate(v, n) == <<X86Emit_MOVMR(ebp, Src1(v, n))>> \o PImmediate(v, n, UpperEbp)
Emit_MUL_PScalarShiftSvshift(v, n) == <<X86Emit_MOVMR(ebp, Src1(v, n))>> \o PSvshift(v, n, UpperEbp)
Emit_MUL_PRuShiftImmediate(v, n) == Fraction(v, RU) \o PImmediate(v, n, <<>>)
Emit_MUL_PRuShiftSvshift(v, n) == Fraction(v, RU) \o PSvshift(v, n, <<>>)
Emit_MUL_PRvShiftImmediate(v, n) == Fraction(v, RV) \o PImmediate(v, n, <<>>)
Emit_MUL_PRvShiftSvshift(v, n) == Fraction(v, RV) \o PSvshift(v, n, <<>>)

\* Lanes 0 and 1 of two vectors into a, b and c, d, then lane 2 into ebx and ebp.
FirstProducts(v, n) ==
    <<X86Emit_MOVMR(eax, Src1(v, n)), X86Emit_MOVMR(ebx, Src2(v, n)),
      X86Emit_MOVMR(ecx, ScalarR(v, n.src1 + 1)), X86Emit_MOVMR(edx, ScalarR(v, n.src2 + 1))>>
    \o Uppers(<<eax, ebx, ecx, edx>>) \o <<X86Emit_IMULRRR(eax, ebx)>>
ThirdLanes(v, n) ==
    <<X86Emit_MOVMR(ebx, ScalarR(v, n.src1 + 2)), X86Emit_MOVMR(ebp, ScalarR(v, n.src2 + 2))>>
ThirdProduct(v, n) == ThirdLanes(v, n) \o Uppers(<<ebx, ebp>>) \o <<X86Emit_IMULRRR(ebx, ebp)>>
Emit_MUL_PVectorShiftImmediate(v, n) ==
    FirstProducts(v, n) \o <<X86Emit_IMULRRR(ecx, edx)>> \o ThirdProduct(v, n)
    \o ShiftEach(n, <<eax, ecx, ebx>>) \o <<LiveAgain>> \o StoreLanes(v, n, <<eax, ecx, ebx>>)
Emit_MUL_PVectorShiftSvshift(v, n) ==
    FirstProducts(v, n) \o <<X86Emit_IMULRRR(edx, ecx)>> \o ThirdProduct(v, n)
    \o FromSvshift(v, ebp) \o ToCl(ebp) \o ShiftByCl(<<eax, edx, ebx>>) \o StoreLanes(v, n, <<eax, edx, ebx>>)

\* Dot products: the sum is made in eax.
DotInEax(v, n) ==
    <<X86Emit_MOVMR(ebp, Src1(v, n))>> \o
    IF OneFile(v, n.src2)
    THEN ProductsInXmm0(v, n, UpperEbp, ebp)
         \o <<X86Emit_PHADDDRR(xmm0, xmm0), X86Emit_PHADDDRR(xmm0, xmm0), X86Emit_MOVDRR2(eax, xmm0)>>
    ELSE LET r == <<eax, ebx, ecx, edx>>
         IN LoadLanes(v, n.src2, r) \o UpperEbp \o Uppers(r) \o TimesEbp(r)
            \o <<X86Emit_ADDRR(ecx, edx), X86Emit_ADDRR(eax, ebx), X86Emit_ADDRR(eax, ecx)>>
ShiftedInto(v, n) == ShiftEach(n, <<eax>>) \o <<Stored(v, n)>>
ShiftedBySvshift(v, n) == FromSvshift(v, ebp) \o ToCl(ebp) \o ShiftByCl(<<eax>>) \o <<Stored(v, n)>>
Emit_DOTPScalarShiftImmediate(v, n) == DotInEax(v, n) \o ShiftedInto(v, n)
Emit_DOTPScalarShiftSvshift(v, n) == DotInEax(v, n) \o ShiftedBySvshift(v, n)

\* The fourth lane of src1 goes to d: edx, or esi, which is set again.
DotOfVectors(v, n, d, again) ==
    FirstProducts(v, n) \o <<X86Emit_IMULRRR(ecx, edx)>> \o ThirdLanes(v, n)
    \o <<X86Emit_ADDRR(eax, ecx), X86Emit_MOVMR(ecx, ScalarR(v, n.src2 + 3)), X86Emit_MOVMR(d, ScalarR(v, n.src1 + 3))>>
    \o Uppers(<<ebx, ebp, d, ecx>>) \o <<X86Emit_IMULRRR(ebx, ebp), X86Emit_IMULRRR(d, ecx)>> \o again
Emit_DOTPVectorShiftImmediate(v, n) ==
    DotOfVectors(v, n, edx, <<X86Emit_ADDRR(eax, ebx), X86Emit_ADDRR(eax, edx)>>) \o ShiftedInto(v, n)
Emit_DOTPVectorShiftSvshift(v, n) ==
    DotOfVectors(v, n, esi, <<X86Emit_ADDRR(ebx, esi), LiveAgain, X86Emit_ADDRR(eax, ebx)>>)
    \o ShiftedBySvshift(v, n)
=============================================================================
