------------------------------ MODULE EmitECU ------------------------------
(***************************************************************************)
(* The emitters of the branches.  The compiled code sets ecuSkipCounter to *)
(* 1 with or without delay slots: the block contains them.                 *)
(***************************************************************************)
EXTENDS EmitMisc

LOCAL SkipIf(cc) == <<X86Emit_JCC_Label(cc, "l_skip_ecu")>>
TestFlag(bits, cc) == <<X86Emit_TESTIR(bits, eax)>> \o SkipIf(cc)
\* N xor V, in ebx.
NotEqual ==
    <<X86Emit_MOVRR(ebx, eax), X86Emit_ANDIR(CC_ALU_OVERFLOW, eax), X86Emit_ANDIR(CC_ALU_NEGATIVE, ebx),
      X86Emit_SHLIR(eax, 1), X86Emit_XORRR(ebx, eax)>>
NorV == CC_ALU_NEGATIVE + CC_ALU_OVERFLOW

EmitConditionCheck(v, condition) ==
    When(condition # "T", <<X86Emit_MOVMR(eax, MiscR(v, CC))>>)
    \o CASE condition = "T" -> <<>>
         [] condition = "NE" -> TestFlag(CC_ALU_ZERO, "nz")
         [] condition = "C0EQ" -> TestFlag(CC_COUNTER0_ZERO, "z")
         [] condition = "C1EQ" -> TestFlag(CC_COUNTER1_ZERO, "z")
         [] condition = "CC" -> TestFlag(CC_ALU_CARRY, "nz")
         [] condition = "EQ" -> TestFlag(CC_ALU_ZERO, "z")
         [] condition = "CS" -> TestFlag(CC_ALU_CARRY, "z")
         [] condition = "VC" -> TestFlag(CC_ALU_OVERFLOW, "nz")
         [] condition = "VS" -> TestFlag(CC_ALU_OVERFLOW, "z")
         [] condition = "LT" ->
              <<X86Emit_ANDIR(NorV, eax)>> \o SkipIf("z") \o <<X86Emit_CMPIR(NorV, eax)>> \o SkipIf("z")
         [] condition = "MVC" -> TestFlag(CC_MUL_OVERFLOW, "nz")
         [] condition = "MVS" -> TestFlag(CC_MUL_OVERFLOW, "z")
         [] condition = "HI" -> TestFlag(CC_ALU_CARRY + CC_ALU_ZERO, "nz")
         [] condition = "LE" ->
              <<X86Emit_TESTIR(CC_ALU_ZERO, eax), X86Emit_JCC_Label("nz", "l_condition_true")>>
              \o NotEqual \o SkipIf("z")
         [] condition = "LS" -> TestFlag(CC_ALU_CARRY + CC_ALU_ZERO, "z")
         [] condition = "PL" -> TestFlag(CC_ALU_NEGATIVE, "nz")
         [] condition = "MI" -> TestFlag(CC_ALU_NEGATIVE, "z")
         [] condition = "GT" -> TestFlag(CC_ALU_ZERO, "nz") \o NotEqual \o SkipIf("nz")
         [] condition = "MODMI" -> TestFlag(CC_MODMI, "z")
         [] condition = "MODPL" -> TestFlag(CC_MODMI, "nz")
         [] condition = "GE" -> NotEqual \o SkipIf("nz")
         [] condition = "MODGE" -> TestFlag(CC_MODGE, "z")
         [] condition = "MODLT" -> TestFlag(CC_MODGE, "nz")
         [] condition = "C0NE" -> TestFlag(CC_COUNTER0_ZERO, "nz")
         [] condition = "CF0LO" -> TestFlag(CC_COPROCESSOR0, "nz")
         [] condition = "C1NE" -> TestFlag(CC_COUNTER1_ZERO, "nz")
         [] condition = "CF0HI" -> TestFlag(CC_COPROCESSOR0, "z")
         [] condition = "CF1LO" -> TestFlag(CC_COPROCESSOR1, "nz")
         [] condition = "CF1HI" -> TestFlag(CC_COPROCESSOR1, "z")
         [] condition \in Never -> <<X86Emit_JMPI_Label("l_skip_ecu")>>

\* What a branch does when it is taken: the target to pcfetchnext, a return
\* address to rz, ecuSkipCounter; without delay slots the block ends here.
To(address) == <<X86Emit_MOVIM(address, M("mpe", pcfetchnext))>>
From(cell) == <<X86Emit_MOVMR(eax, cell), X86Emit_MOVRM(eax, M("mpe", pcfetchnext))>>
FromScalar(v, n) == From(ScalarR(v, n.src1))
Return(v, address) == <<X86Emit_MOVIM(address, MiscW(v, RZ))>>
Skip == <<X86Emit_MOVIM(1, M("mpe", ecuSkipCounter))>>
Leave(bit) == <<X86Emit_ANDIM(Not(Pow[bit]), M("mpe", intctl))>>
Emit_ExitBlock == <<X86Emit_RETN>>
EmitIf(v, n, then) ==
    EmitConditionCheck(v, n.src2) \o <<SetLabelPointer("l_condition_true")>> \o then
      \o <<SetLabelPointer("l_skip_ecu")>>

Emit_ECU_NOP(v, n) == <<>>
Emit_BRAAlways(v, n) == To(n.src1) \o Skip
Emit_BRAAlways_NOP(v, n) == To(n.src1) \o Skip \o Emit_ExitBlock
Emit_BRAConditional(v, n) == EmitIf(v, n, To(n.src1) \o Skip)
Emit_BRAConditional_NOP(v, n) == EmitIf(v, n, To(n.src1) \o Skip \o Emit_ExitBlock)
Emit_JMPAlwaysIndirect(v, n) == FromScalar(v, n) \o Skip
Emit_JMPAlwaysIndirect_NOP(v, n) == FromScalar(v, n) \o Skip \o Emit_ExitBlock
Emit_JMPConditionalIndirect(v, n) == EmitIf(v, n, FromScalar(v, n) \o Skip)
Emit_JMPConditionalIndirect_NOP(v, n) == EmitIf(v, n, FromScalar(v, n) \o Skip \o Emit_ExitBlock)
Emit_JSRAlways(v, n) == To(n.src1) \o Return(v, n.dest) \o Skip
Emit_JSRAlways_NOP(v, n) == To(n.src1) \o Return(v, n.info) \o Skip \o Emit_ExitBlock
Emit_JSRConditional(v, n) == EmitIf(v, n, To(n.src1) \o Return(v, n.dest) \o Skip)
Emit_JSRConditional_NOP(v, n) == EmitIf(v, n, To(n.src1) \o Return(v, n.info) \o Skip \o Emit_ExitBlock)
Emit_JSRAlwaysIndirect(v, n) == FromScalar(v, n) \o Return(v, n.dest) \o Skip
Emit_JSRAlwaysIndirect_NOP(v, n) == FromScalar(v, n) \o Return(v, n.info) \o Skip \o Emit_ExitBlock
Emit_JSRConditionalIndirect(v, n) == EmitIf(v, n, FromScalar(v, n) \o Return(v, n.dest) \o Skip)
Emit_JSRConditionalIndirect_NOP(v, n) == EmitIf(v, n, FromScalar(v, n) \o Return(v, n.info) \o Skip \o Emit_ExitBlock)
Emit_RTSAlways(v, n) == From(MiscR(v, RZ)) \o Skip
Emit_RTSAlways_NOP(v, n) == From(MiscR(v, RZ)) \o Skip \o Emit_ExitBlock
Emit_RTSConditional(v, n) == EmitIf(v, n, From(MiscR(v, RZ)) \o Skip)
Emit_RTSConditional_NOP(v, n) == EmitIf(v, n, From(MiscR(v, RZ)) \o Skip \o Emit_ExitBlock)
Emit_RTI1Conditional(v, n) == EmitIf(v, n, From(MiscR(v, RZI1)) \o Skip \o Leave(1))
Emit_RTI1Conditional_NOP(v, n) == EmitIf(v, n, From(MiscR(v, RZI1)) \o Skip \o Leave(1) \o Emit_ExitBlock)
Emit_RTI2Conditional(v, n) == EmitIf(v, n, From(MiscR(v, RZI2)) \o Skip \o Leave(5))
Emit_RTI2Conditional_NOP(v, n) == EmitIf(v, n, From(MiscR(v, RZI2)) \o Skip \o Leave(5) \o Emit_ExitBlock)
=============================================================================
