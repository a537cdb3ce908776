------------------------------ MODULE EmitRCU ------------------------------
(***************************************************************************)
(* The emitters of the register control unit.                              *)
(***************************************************************************)
EXTENDS EmitMisc

LOCAL Cell(d) == RX + d
LOCAL IndexNeeded(v) == v.mout # {}

Decrement(v, rc, name, zero, flag) ==
    When(flag \in v.mout, <<X86Emit_ANDIM(Not(zero), Cc(v))>>)
    \o <<X86Emit_MOVMR(eax, MiscR(v, rc)), X86Emit_MOVIR(zero, ecx), X86Emit_MOVRR(ebx, eax),
         X86Emit_XORRR(ebp, ebp), X86Emit_SUBIR(1, ebx), X86Emit_CMOVNBRR(eax, ebx), X86Emit_CMOVNBERR(ecx, ebp)>>
    \o When(name \in v.mout, <<X86Emit_MOVRM(eax, MiscW(v, rc))>>)
    \o When(flag \in v.mout, <<X86Emit_ORRM(ecx, Cc(v))>>)
Emit_DECRc0(v, n) == Decrement(v, RC0, "RC0", CC_COUNTER0_ZERO, "C0Z")
Emit_DECRc1(v, n) == Decrement(v, RC1, "RC1", CC_COUNTER1_ZERO, "C1Z")
Emit_DECBoth(v, n) == Emit_DECRc0(v, n) \o Emit_DECRc1(v, n)
Emit_DEC(v, n) ==
    When(Bit(n.info, 1) = 1, Emit_DECRc0(v, n)) \o When(Bit(n.info, 0) = 1, Emit_DECRc1(v, n))

Emit_ADDRImmediateOnly(v, n) ==
    When(IndexNeeded(v),
         <<X86Emit_MOVMR(eax, MiscR(v, Cell(n.dest))), X86Emit_ADDIR(n.src1, eax),
           X86Emit_MOVRM(eax, MiscW(v, Cell(n.dest)))>>)
Emit_ADDRImmediate(v, n) == Emit_ADDRImmediateOnly(v, n) \o Emit_DEC(v, n)
Emit_ADDRScalarOnly(v, n) ==
    When(IndexNeeded(v),
         <<X86Emit_MOVMR(eax, ScalarR(v, n.src1)), X86Emit_ADDMR(eax, MiscR(v, Cell(n.dest))),
           X86Emit_MOVRM(eax, MiscW(v, Cell(n.dest)))>>)
Emit_ADDRScalar(v, n) == Emit_ADDRScalarOnly(v, n) \o Emit_DEC(v, n)
Emit_MVRImmediateOnly(v, n) == When(IndexNeeded(v), <<X86Emit_MOVIM(n.src1, MiscW(v, Cell(n.dest)))>>)
Emit_MVRImmediate(v, n) == Emit_MVRImmediateOnly(v, n) \o Emit_DEC(v, n)
Emit_MVRScalarOnly(v, n) ==
    When(IndexNeeded(v),
         <<X86Emit_MOVMR(eax, ScalarR(v, n.src1)), X86Emit_MOVRM(eax, MiscW(v, Cell(n.dest)))>>)
Emit_MVRScalar(v, n) == Emit_MVRScalarOnly(v, n) \o Emit_DEC(v, n)

\* The register in ebx, less or plus the range, in eax.
Emit_RangeOnly(v, n) ==
    <<X86Emit_MOVMR(eax, MiscR(v, IF n.src1 \in {0, 1} THEN XYRANGE ELSE UVRANGE)),
      X86Emit_MOVMR(ebx, MiscR(v, Cell(n.src1)))>>
    \o When(n.src1 \in {1, 3}, <<X86Emit_SHLIR(eax, Half)>>)
    \o When(v.mout \cap {"MODGE", "MODMI"} # {},
            <<X86Emit_ANDIM(Not(FLAG_DEPENDENCIES(v.mout \cap {"MODGE", "MODMI"})), Cc(v))>>)
    \o <<X86Emit_ANDIR((Pow[Half - 3] - 1) * Pow[Half], eax), X86Emit_MOVRR(ecx, ebx),
         X86Emit_ANDIR(HighHalf, ecx), X86Emit_CMPRR(ecx, eax), X86Emit_JCC_Label("l", "l_testmodmi"),
         X86Emit_SUBRR(ebx, eax)>>
    \o When("MODGE" \in v.mout, <<X86Emit_ORIM(CC_MODGE, Cc(v))>>)
    \o <<X86Emit_JMPI_Label("l_exit"), SetLabelPointer("l_testmodmi"),
         X86Emit_CMPIR(0, ebx), X86Emit_JCC_Label("nl", "l_exit"), X86Emit_ADDRR(ebx, eax)>>
    \o When("MODMI" \in v.mout, <<X86Emit_ORIM(CC_MODMI, Cc(v))>>)
    \o <<SetLabelPointer("l_exit")>>
Emit_Range(v, n) == Emit_RangeOnly(v, n) \o Emit_DEC(v, n)
Emit_ModuloOnly(v, n) ==
    Emit_RangeOnly(v, n) \o When(v.mout \ AllFlags # {}, <<X86Emit_MOVRM(ebx, MiscW(v, Cell(n.dest)))>>)
Emit_Modulo(v, n) == Emit_ModuloOnly(v, n) \o Emit_DEC(v, n)
=============================================================================
