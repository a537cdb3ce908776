------------------------------ MODULE EmitMisc ------------------------------
(***************************************************************************)
(* What every emitter uses.  v is the source's EmitterVariables: sdep and  *)
(* mdep, the registers and flags that one instruction of the packet reads  *)
(* and another one writes (they are read from the copy made at the start   *)
(* of the packet), and sout and mout, the outputs of this instruction that *)
(* are still needed.                                                       *)
(***************************************************************************)
EXTENDS NativeCodeCache

\* A cell that one instruction of the packet reads and another one writes is
\* read from the copy; cc is, when any flag is; cells are always written live.
GetScalarRegReadBaseReg(v, r) == IF r \in v.sdep THEN "edi" ELSE "esi"
GetScalarRegWriteBaseReg(v, r) == "esi"
GetMiscRegReadBaseReg(v, c) ==
    IF (IF c = CC THEN v.mdep \cap AllFlags # {} ELSE NameOf(c) \in v.mdep) THEN "edi" ELSE "esi"
GetMiscRegWriteBaseReg(v, c) == "esi"

ScalarR(v, r) == M(GetScalarRegReadBaseReg(v, r), r)
ScalarW(v, r) == M(GetScalarRegWriteBaseReg(v, r), r)
MiscR(v, c) == M(GetMiscRegReadBaseReg(v, c), c)
MiscW(v, c) == M(GetMiscRegWriteBaseReg(v, c), c)
Cc(v) == MiscW(v, CC)

Emit_NOP(v, n) == <<>>

\* The copy: the scalar registers in groups of four, cc, and the others.
Group(g) == 4 * g .. 4 * g + 3
Emit_SaveRegs(v, n) ==
    When(n.sdep \cap Group(0) # {},
         <<X86Emit_MOVDQUMR(xmm0, M("esi", 0)), X86Emit_MOVDQURM(xmm0, M("edi", 0))>>)
    \o When(n.sdep \cap Group(1) # {},
         <<X86Emit_MOVDQUMR(xmm0, M("esi", 4)), X86Emit_MOVDQURM(xmm0, M("edi", 4))>>)
    \o When(n.mdep \cap AllFlags # {},
         <<X86Emit_MOVMR(eax, M("esi", CC)), X86Emit_MOVRM(eax, M("edi", CC))>>)
    \o When(n.mdep \ AllFlags # {},
         <<X86Emit_MOVDQUMR(xmm0, M("esi", 32)), X86Emit_MOVDQUMR(xmm1, M("esi", 36)),
           X86Emit_MOVDQUMR(xmm2, M("esi", 40)), X86Emit_MOVDQUMR(xmm3, M("esi", 44)),
           X86Emit_MOVDQURM(xmm0, M("edi", 32)), X86Emit_MOVDQURM(xmm1, M("edi", 36)),
           X86Emit_MOVDQURM(xmm2, M("edi", 40)), X86Emit_MOVDQURM(xmm3, M("edi", 44))>>)

\* A constant the compiler computed, and the flags it computed with it.
ConstantFlags(v, n) ==
    When(n.flagmask # 0,
         <<X86Emit_ANDIM(Not(n.flagmask), Cc(v))>>
         \o When(n.flagvalues # 0, <<X86Emit_ORIM(n.flagvalues, Cc(v))>>))
Emit_StoreScalarRegisterConstant(v, n) ==
    <<X86Emit_MOVIM(n.value, ScalarW(v, n.address))>> \o ConstantFlags(v, n)
Emit_StoreMiscRegisterConstant(v, n) ==
    When(n.address # "discard", <<X86Emit_MOVIM(n.value, MiscW(v, MiscName[n.address]))>>)
    \o ConstantFlags(v, n)
=============================================================================
