--------------------- MODULE PropagateConstants_Control ---------------------
(***************************************************************************)
(* Constant propagation over the register control unit and over branches.  *)
(*                                                                         *)
(* Of the former, only the instructions that count nothing down are        *)
(* folded.  A branch keeps its place; a conditional one whose condition is *)
(* known becomes unconditional or nothing, one to a known register becomes *)
(* direct.                                                                 *)
(***************************************************************************)
EXTENDS PropagateConstants

LOCAL Index(c) == <<"RX", "RY", "RU", "RV">>[c.n.dest + 1]
LOCAL Counters == {"RC0", "RC1", "C0Z", "C1Z"}
LOCAL Ranges == {"MODMI", "MODGE"}
\* The source register is known: the instruction has it as an immediate.
LOCAL Immediate(c, h) == Becomes(c, h, S(c, c.n.src1), c.n.src2, {c.n.src1}, {})

LOCAL DECRc(c, rc, zero) ==
    LET left == IF Mc(c, rc) = 0 THEN 0 ELSE Mc(c, rc) - 1
    IN IF IsMiscRegisterConstant(c, rc)
       THEN FoldMisc(c, rc, left, {zero}, IF left = 0 THEN {zero} ELSE {})
       ELSE Lost(c, {rc, zero}, {})
PropagateConstants_DECRc0(c) == DECRc(c, "RC0", "C0Z")
PropagateConstants_DECRc1(c) == DECRc(c, "RC1", "C1Z")
PropagateConstants_DECBoth(c) == Lost(c, Counters, {})

PropagateConstants_ADDRImmediateOnly(c) ==
    IF IsMiscRegisterConstant(c, Index(c))
    THEN FoldMisc(c, Index(c), Wrap(Mc(c, Index(c)) + c.n.src1), {}, {})
    ELSE Lost(c, {Index(c)}, {})
PropagateConstants_ADDRImmediate(c) == Lost(c, {Index(c)} \cup Counters, {})
PropagateConstants_ADDRScalarOnly(c) ==
    IF IsScalarRegisterConstant(c, c.n.src1)
    THEN PropagateConstants_ADDRImmediateOnly(Immediate(c, "ADDRImmediateOnly"))
    ELSE Lost(c, {Index(c)}, {})
PropagateConstants_ADDRScalar(c) ==
    IF IsScalarRegisterConstant(c, c.n.src1)
    THEN PropagateConstants_ADDRImmediate(Immediate(c, "ADDRImmediate"))
    ELSE Lost(c, {Index(c)} \cup Counters, {})

PropagateConstants_MVRImmediateOnly(c) == SetMiscRegisterConstant(c, Index(c), c.n.src1)
PropagateConstants_MVRImmediate(c) == SetMiscRegisterConstant(Lost(c, Counters, {}), Index(c), c.n.src1)
PropagateConstants_MVRScalarOnly(c) ==
    IF IsScalarRegisterConstant(c, c.n.src1)
    THEN PropagateConstants_MVRImmediateOnly(Immediate(c, "MVRImmediateOnly"))
    ELSE Lost(c, {Index(c)}, {})
PropagateConstants_MVRScalar(c) ==
    IF IsScalarRegisterConstant(c, c.n.src1)
    THEN PropagateConstants_MVRImmediate(Immediate(c, "MVRImmediate"))
    ELSE Lost(c, {Index(c)} \cup Counters, {})

PropagateConstants_RangeOnly(c) == Lost(c, Ranges, {})
PropagateConstants_Range(c) == Lost(c, Ranges \cup Counters, {})
PropagateConstants_ModuloOnly(c) == Lost(c, {Index(c)} \cup Ranges, {})
PropagateConstants_Modulo(c) == Lost(c, {Index(c)} \cup Ranges \cup Counters, {})

-----------------------------------------------------------------------------
(* Branches                                                                *)

LOCAL Lock(c) == [c EXCEPT !.locked = TRUE]
PropagateConstants_ECU_NOP(c) ==
    [c EXCEPT !.n.si = {}, !.n.so = {}, !.n.mi = {}, !.n.mo = {}, !.locked = FALSE]
LOCAL Conditional(c, h, Always(_)) ==
    LET d == Lock(c)  known == EvaluateBranchCondition(c, c.n.src2)
    IN IF known = {TRUE} THEN Always([d EXCEPT !.n.h = h])
       ELSE IF known = {FALSE} THEN PropagateConstants_ECU_NOP([d EXCEPT !.n.h = "ECU_NOP"])
       ELSE d
\* The condition of a return from an interrupt is still tested.
LOCAL Unless(c) == LET h == c.n.h IN Conditional(c, h, Lock)
LOCAL Indirect(c, h) ==
    LET d == Lock(c)  r == c.n.src1
    IN IF IsScalarRegisterConstant(d, r) THEN Becomes(d, h, S(d, r), d.n.src2, {r}, {}) ELSE d

PropagateConstants_BRAAlways(c) == Lock(c)
PropagateConstants_BRAAlways_NOP(c) == Lock(c)
PropagateConstants_BRAConditional(c) == Conditional(c, "BRAAlways", PropagateConstants_BRAAlways)
PropagateConstants_BRAConditional_NOP(c) == Conditional(c, "BRAAlways_NOP", PropagateConstants_BRAAlways_NOP)
PropagateConstants_JMPAlwaysIndirect(c) == Indirect(c, "BRAAlways")
PropagateConstants_JMPAlwaysIndirect_NOP(c) == Indirect(c, "BRAAlways_NOP")
PropagateConstants_JMPConditionalIndirect(c) ==
    Conditional(c, "JMPAlwaysIndirect", PropagateConstants_JMPAlwaysIndirect)
PropagateConstants_JMPConditionalIndirect_NOP(c) ==
    Conditional(c, "JMPAlwaysIndirect_NOP", PropagateConstants_JMPAlwaysIndirect_NOP)
PropagateConstants_JSRAlways(c) == Lock(c)
PropagateConstants_JSRAlways_NOP(c) == Lock(c)
PropagateConstants_JSRConditional(c) == Conditional(c, "JSRAlways", PropagateConstants_JSRAlways)
PropagateConstants_JSRConditional_NOP(c) == Conditional(c, "JSRAlways_NOP", PropagateConstants_JSRAlways_NOP)
PropagateConstants_JSRAlwaysIndirect(c) == Indirect(c, "JSRAlways")
PropagateConstants_JSRAlwaysIndirect_NOP(c) == Indirect(c, "JSRAlways_NOP")
PropagateConstants_JSRConditionalIndirect(c) ==
    Conditional(c, "JSRAlwaysIndirect", PropagateConstants_JSRAlwaysIndirect)
PropagateConstants_JSRConditionalIndirect_NOP(c) ==
    Conditional(c, "JSRAlwaysIndirect_NOP", PropagateConstants_JSRAlwaysIndirect_NOP)
PropagateConstants_RTSAlways(c) == Lock(c)
PropagateConstants_RTSAlways_NOP(c) == Lock(c)
PropagateConstants_RTSConditional(c) == Conditional(c, "RTSAlways", PropagateConstants_RTSAlways)
PropagateConstants_RTSConditional_NOP(c) == Conditional(c, "RTSAlways_NOP", PropagateConstants_RTSAlways_NOP)
PropagateConstants_RTI1Conditional(c) == Unless(c)
PropagateConstants_RTI1Conditional_NOP(c) == Unless(c)
PropagateConstants_RTI2Conditional(c) == Unless(c)
PropagateConstants_RTI2Conditional_NOP(c) == Unless(c)
=============================================================================
