------------------------------ MODULE Handlers ------------------------------
(***************************************************************************)
(* The handler tables: nuanceHandlers, the interpreter's handler of each   *)
(* instruction, emitHandlers, the emitter that compiles it, and            *)
(* ConstantHandlers, how constants pass over it, one table for each        *)
(* function unit.                                                          *)
(***************************************************************************)
EXTENDS ExecuteALU, EmitALU, PropagateConstants_ALU,
        ExecuteMUL, EmitMUL, PropagateConstants_MUL,
        ExecuteRCU, EmitRCU, ExecuteECU, EmitECU, PropagateConstants_Control

nuanceHandlers_ALU(m, p, n) ==
    CASE n.h = "ABS" -> Execute_ABS(m, p, n) [] n.h = "BITSScalar" -> Execute_BITSScalar(m, p, n)
      [] n.h = "BITSImmediate" -> Execute_BITSImmediate(m, p, n) [] n.h = "BTST" -> Execute_BTST(m, p, n)
      [] n.h = "BUTT" -> Execute_BUTT(m, p, n) [] n.h = "COPY" -> Execute_COPY(m, p, n)
      [] n.h = "MSB" -> Execute_MSB(m, p, n) [] n.h = "SAT" -> Execute_SAT(m, p, n)
      [] n.h = "AS" -> Execute_AS(m, p, n) [] n.h = "ASL" -> Execute_ASL(m, p, n)
      [] n.h = "ASR" -> Execute_ASR(m, p, n) [] n.h = "LS" -> Execute_LS(m, p, n)
      [] n.h = "LSR" -> Execute_LSR(m, p, n) [] n.h = "ROT" -> Execute_ROT(m, p, n)
      [] n.h = "ROL" -> Execute_ROL(m, p, n) [] n.h = "ROR" -> Execute_ROR(m, p, n)
      [] n.h = "ADD_P" -> Execute_ADD_P(m, p, n) [] n.h = "SUB_P" -> Execute_SUB_P(m, p, n)
      [] n.h = "ADD_SV" -> Execute_ADD_SV(m, p, n) [] n.h = "SUB_SV" -> Execute_SUB_SV(m, p, n)
      [] n.h = "ADDImmediate" -> Execute_ADDImmediate(m, p, n)
      [] n.h = "ADDScalar" -> Execute_ADDScalar(m, p, n)
      [] n.h = "ADDScalarShiftRightImmediate" -> Execute_ADDScalarShiftRightImmediate(m, p, n)
      [] n.h = "ADDScalarShiftLeftImmediate" -> Execute_ADDScalarShiftLeftImmediate(m, p, n)
      [] n.h = "SUBImmediate" -> Execute_SUBImmediate(m, p, n)
      [] n.h = "SUBImmediateReverse" -> Execute_SUBImmediateReverse(m, p, n)
      [] n.h = "SUBScalar" -> Execute_SUBScalar(m, p, n)
      [] n.h = "SUBScalarShiftRightImmediate" -> Execute_SUBScalarShiftRightImmediate(m, p, n)
      [] n.h = "SUBScalarShiftLeftImmediate" -> Execute_SUBScalarShiftLeftImmediate(m, p, n)
      [] n.h = "CMPImmediate" -> Execute_CMPImmediate(m, p, n)
      [] n.h = "CMPImmediateReverse" -> Execute_CMPImmediateReverse(m, p, n)
      [] n.h = "CMPScalar" -> Execute_CMPScalar(m, p, n)
      [] n.h = "CMPScalarShiftRightImmediate" -> Execute_CMPScalarShiftRightImmediate(m, p, n)
      [] n.h = "CMPScalarShiftLeftImmediate" -> Execute_CMPScalarShiftLeftImmediate(m, p, n)
      [] n.h = "ANDImmediate" -> Execute_ANDImmediate(m, p, n)
      [] n.h = "ANDScalar" -> Execute_ANDScalar(m, p, n)
      [] n.h = "ANDImmediateShiftScalar" -> Execute_ANDImmediateShiftScalar(m, p, n)
      [] n.h = "ANDScalarShiftRightImmediate" -> Execute_ANDScalarShiftRightImmediate(m, p, n)
      [] n.h = "ANDScalarShiftLeftImmediate" -> Execute_ANDScalarShiftLeftImmediate(m, p, n)
      [] n.h = "ANDScalarShiftScalar" -> Execute_ANDScalarShiftScalar(m, p, n)
      [] n.h = "ANDScalarRotateScalar" -> Execute_ANDScalarRotateScalar(m, p, n)
      [] n.h = "FTSTImmediate" -> Execute_FTSTImmediate(m, p, n)
      [] n.h = "FTSTScalar" -> Execute_FTSTScalar(m, p, n)
      [] n.h = "FTSTImmediateShiftScalar" -> Execute_FTSTImmediateShiftScalar(m, p, n)
      [] n.h = "FTSTScalarShiftRightImmediate" -> Execute_FTSTScalarShiftRightImmediate(m, p, n)
      [] n.h = "FTSTScalarShiftLeftImmediate" -> Execute_FTSTScalarShiftLeftImmediate(m, p, n)
      [] n.h = "FTSTScalarShiftScalar" -> Execute_FTSTScalarShiftScalar(m, p, n)
      [] n.h = "FTSTScalarRotateScalar" -> Execute_FTSTScalarRotateScalar(m, p, n)
      [] n.h = "ORImmediate" -> Execute_ORImmediate(m, p, n) [] n.h = "ORScalar" -> Execute_ORScalar(m, p, n)
      [] n.h = "ORImmediateShiftScalar" -> Execute_ORImmediateShiftScalar(m, p, n)
      [] n.h = "ORScalarShiftRightImmediate" -> Execute_ORScalarShiftRightImmediate(m, p, n)
      [] n.h = "ORScalarShiftLeftImmediate" -> Execute_ORScalarShiftLeftImmediate(m, p, n)
      [] n.h = "ORScalarShiftScalar" -> Execute_ORScalarShiftScalar(m, p, n)
      [] n.h = "ORScalarRotateScalar" -> Execute_ORScalarRotateScalar(m, p, n)
      [] n.h = "EORImmediate" -> Execute_EORImmediate(m, p, n)
      [] n.h = "EORScalar" -> Execute_EORScalar(m, p, n)
      [] n.h = "EORImmediateShiftScalar" -> Execute_EORImmediateShiftScalar(m, p, n)
      [] n.h = "EORScalarShiftRightImmediate" -> Execute_EORScalarShiftRightImmediate(m, p, n)
      [] n.h = "EORScalarShiftLeftImmediate" -> Execute_EORScalarShiftLeftImmediate(m, p, n)
      [] n.h = "EORScalarShiftScalar" -> Execute_EORScalarShiftScalar(m, p, n)
      [] n.h = "EORScalarRotateScalar" -> Execute_EORScalarRotateScalar(m, p, n)
      [] n.h = "ADDWCScalar" -> Execute_ADDWCScalar(m, p, n)
      [] n.h = "ADDWCImmediate" -> Execute_ADDWCImmediate(m, p, n)
      [] n.h = "ADDWCScalarShiftRightImmediate" -> Execute_ADDWCScalarShiftRightImmediate(m, p, n)
      [] n.h = "ADDWCScalarShiftLeftImmediate" -> Execute_ADDWCScalarShiftLeftImmediate(m, p, n)
      [] n.h = "SUBWCScalar" -> Execute_SUBWCScalar(m, p, n)
      [] n.h = "SUBWCImmediate" -> Execute_SUBWCImmediate(m, p, n)
      [] n.h = "SUBWCImmediateReverse" -> Execute_SUBWCImmediateReverse(m, p, n)
      [] n.h = "SUBWCScalarShiftRightImmediate" -> Execute_SUBWCScalarShiftRightImmediate(m, p, n)
      [] n.h = "SUBWCScalarShiftLeftImmediate" -> Execute_SUBWCScalarShiftLeftImmediate(m, p, n)
      [] n.h = "CMPWCScalar" -> Execute_CMPWCScalar(m, p, n)
      [] n.h = "CMPWCImmediate" -> Execute_CMPWCImmediate(m, p, n)
      [] n.h = "CMPWCImmediateReverse" -> Execute_CMPWCImmediateReverse(m, p, n)
      [] n.h = "CMPWCScalarShiftRightImmediate" -> Execute_CMPWCScalarShiftRightImmediate(m, p, n)
      [] n.h = "CMPWCScalarShiftLeftImmediate" -> Execute_CMPWCScalarShiftLeftImmediate(m, p, n)
ConstantHandlers_ALU(c) ==
    CASE c.n.h = "ABS" -> PropagateConstants_ABS(c) [] c.n.h = "BITSScalar" -> PropagateConstants_BITSScalar(c)
      [] c.n.h = "BITSImmediate" -> PropagateConstants_BITSImmediate(c)
      [] c.n.h = "BTST" -> PropagateConstants_BTST(c) [] c.n.h = "BUTT" -> PropagateConstants_BUTT(c)
      [] c.n.h = "COPY" -> PropagateConstants_COPY(c) [] c.n.h = "MSB" -> PropagateConstants_MSB(c)
      [] c.n.h = "SAT" -> PropagateConstants_SAT(c) [] c.n.h = "AS" -> PropagateConstants_AS(c)
      [] c.n.h = "ASL" -> PropagateConstants_ASL(c) [] c.n.h = "ASR" -> PropagateConstants_ASR(c)
      [] c.n.h = "LS" -> PropagateConstants_LS(c) [] c.n.h = "LSR" -> PropagateConstants_LSR(c)
      [] c.n.h = "ROT" -> PropagateConstants_ROT(c) [] c.n.h = "ROL" -> PropagateConstants_ROL(c)
      [] c.n.h = "ROR" -> PropagateConstants_ROR(c) [] c.n.h = "ADD_P" -> PropagateConstants_ADD_P(c)
      [] c.n.h = "SUB_P" -> PropagateConstants_SUB_P(c) [] c.n.h = "ADD_SV" -> PropagateConstants_ADD_SV(c)
      [] c.n.h = "SUB_SV" -> PropagateConstants_SUB_SV(c)
      [] c.n.h = "ADDImmediate" -> PropagateConstants_ADDImmediate(c)
      [] c.n.h = "ADDScalar" -> PropagateConstants_ADDScalar(c)
      [] c.n.h = "ADDScalarShiftRightImmediate" -> PropagateConstants_ADDScalarShiftRightImmediate(c)
      [] c.n.h = "ADDScalarShiftLeftImmediate" -> PropagateConstants_ADDScalarShiftLeftImmediate(c)
      [] c.n.h = "SUBImmediate" -> PropagateConstants_SUBImmediate(c)
      [] c.n.h = "SUBImmediateReverse" -> PropagateConstants_SUBImmediateReverse(c)
      [] c.n.h = "SUBScalar" -> PropagateConstants_SUBScalar(c)
      [] c.n.h = "SUBScalarShiftRightImmediate" -> PropagateConstants_SUBScalarShiftRightImmediate(c)
      [] c.n.h = "SUBScalarShiftLeftImmediate" -> PropagateConstants_SUBScalarShiftLeftImmediate(c)
      [] c.n.h = "CMPImmediate" -> PropagateConstants_CMPImmediate(c)
      [] c.n.h = "CMPImmediateReverse" -> PropagateConstants_CMPImmediateReverse(c)
      [] c.n.h = "CMPScalar" -> PropagateConstants_CMPScalar(c)
      [] c.n.h = "CMPScalarShiftRightImmediate" -> PropagateConstants_CMPScalarShiftRightImmediate(c)
      [] c.n.h = "CMPScalarShiftLeftImmediate" -> PropagateConstants_CMPScalarShiftLeftImmediate(c)
      [] c.n.h = "ANDImmediate" -> PropagateConstants_ANDImmediate(c)
      [] c.n.h = "ANDScalar" -> PropagateConstants_ANDScalar(c)
      [] c.n.h = "ANDImmediateShiftScalar" -> PropagateConstants_ANDImmediateShiftScalar(c)
      [] c.n.h = "ANDScalarShiftRightImmediate" -> PropagateConstants_ANDScalarShiftRightImmediate(c)
      [] c.n.h = "ANDScalarShiftLeftImmediate" -> PropagateConstants_ANDScalarShiftLeftImmediate(c)
      [] c.n.h = "ANDScalarShiftScalar" -> PropagateConstants_ANDScalarShiftScalar(c)
      [] c.n.h = "ANDScalarRotateScalar" -> PropagateConstants_ANDScalarRotateScalar(c)
      [] c.n.h = "FTSTImmediate" -> PropagateConstants_FTSTImmediate(c)
      [] c.n.h = "FTSTScalar" -> PropagateConstants_FTSTScalar(c)
      [] c.n.h = "FTSTImmediateShiftScalar" -> PropagateConstants_FTSTImmediateShiftScalar(c)
      [] c.n.h = "FTSTScalarShiftRightImmediate" -> PropagateConstants_FTSTScalarShiftRightImmediate(c)
      [] c.n.h = "FTSTScalarShiftLeftImmediate" -> PropagateConstants_FTSTScalarShiftLeftImmediate(c)
      [] c.n.h = "FTSTScalarShiftScalar" -> PropagateConstants_FTSTScalarShiftScalar(c)
      [] c.n.h = "FTSTScalarRotateScalar" -> PropagateConstants_FTSTScalarRotateScalar(c)
      [] c.n.h = "ORImmediate" -> PropagateConstants_ORImmediate(c)
      [] c.n.h = "ORScalar" -> PropagateConstants_ORScalar(c)
      [] c.n.h = "ORImmediateShiftScalar" -> PropagateConstants_ORImmediateShiftScalar(c)
      [] c.n.h = "ORScalarShiftRightImmediate" -> PropagateConstants_ORScalarShiftRightImmediate(c)
      [] c.n.h = "ORScalarShiftLeftImmediate" -> PropagateConstants_ORScalarShiftLeftImmediate(c)
      [] c.n.h = "ORScalarShiftScalar" -> PropagateConstants_ORScalarShiftScalar(c)
      [] c.n.h = "ORScalarRotateScalar" -> PropagateConstants_ORScalarRotateScalar(c)
      [] c.n.h = "EORImmediate" -> PropagateConstants_EORImmediate(c)
      [] c.n.h = "EORScalar" -> PropagateConstants_EORScalar(c)
      [] c.n.h = "EORImmediateShiftScalar" -> PropagateConstants_EORImmediateShiftScalar(c)
      [] c.n.h = "EORScalarShiftRightImmediate" -> PropagateConstants_EORScalarShiftRightImmediate(c)
      [] c.n.h = "EORScalarShiftLeftImmediate" -> PropagateConstants_EORScalarShiftLeftImmediate(c)
      [] c.n.h = "EORScalarShiftScalar" -> PropagateConstants_EORScalarShiftScalar(c)
      [] c.n.h = "EORScalarRotateScalar" -> PropagateConstants_EORScalarRotateScalar(c)
      [] c.n.h = "ADDWCScalar" -> PropagateConstants_ADDWCScalar(c)
      [] c.n.h = "ADDWCImmediate" -> PropagateConstants_ADDWCImmediate(c)
      [] c.n.h = "ADDWCScalarShiftRightImmediate" -> PropagateConstants_ADDWCScalarShiftRightImmediate(c)
      [] c.n.h = "ADDWCScalarShiftLeftImmediate" -> PropagateConstants_ADDWCScalarShiftLeftImmediate(c)
      [] c.n.h = "SUBWCScalar" -> PropagateConstants_SUBWCScalar(c)
      [] c.n.h = "SUBWCImmediate" -> PropagateConstants_SUBWCImmediate(c)
      [] c.n.h = "SUBWCImmediateReverse" -> PropagateConstants_SUBWCImmediateReverse(c)
      [] c.n.h = "SUBWCScalarShiftRightImmediate" -> PropagateConstants_SUBWCScalarShiftRightImmediate(c)
      [] c.n.h = "SUBWCScalarShiftLeftImmediate" -> PropagateConstants_SUBWCScalarShiftLeftImmediate(c)
      [] c.n.h = "CMPWCScalar" -> PropagateConstants_CMPWCScalar(c)
      [] c.n.h = "CMPWCImmediate" -> PropagateConstants_CMPWCImmediate(c)
      [] c.n.h = "CMPWCImmediateReverse" -> PropagateConstants_CMPWCImmediateReverse(c)
      [] c.n.h = "CMPWCScalarShiftRightImmediate" -> PropagateConstants_CMPWCScalarShiftRightImmediate(c)
      [] c.n.h = "CMPWCScalarShiftLeftImmediate" -> PropagateConstants_CMPWCScalarShiftLeftImmediate(c)
emitHandlers_ALU(v, n) ==
    CASE n.h = "ABS" -> Emit_ABS(v, n) [] n.h = "BITSScalar" -> Emit_BITSScalar(v, n)
      [] n.h = "BITSImmediate" -> Emit_BITSImmediate(v, n) [] n.h = "BTST" -> Emit_BTST(v, n)
      [] n.h = "BUTT" -> Emit_BUTT(v, n) [] n.h = "COPY" -> Emit_COPY(v, n) [] n.h = "MSB" -> Emit_MSB(v, n)
      [] n.h = "SAT" -> Emit_SAT(v, n) [] n.h = "AS" -> Emit_AS(v, n) [] n.h = "ASL" -> Emit_ASL(v, n)
      [] n.h = "ASR" -> Emit_ASR(v, n) [] n.h = "LS" -> Emit_LS(v, n) [] n.h = "LSR" -> Emit_LSR(v, n)
      [] n.h = "ROT" -> Emit_ROT(v, n) [] n.h = "ROL" -> Emit_ROL(v, n) [] n.h = "ROR" -> Emit_ROR(v, n)
      [] n.h = "ADD_P" -> Emit_ADD_P(v, n) [] n.h = "SUB_P" -> Emit_SUB_P(v, n)
      [] n.h = "ADD_SV" -> Emit_ADD_SV(v, n) [] n.h = "SUB_SV" -> Emit_SUB_SV(v, n)
      [] n.h = "ADDImmediate" -> Emit_ADDImmediate(v, n) [] n.h = "ADDScalar" -> Emit_ADDScalar(v, n)
      [] n.h = "ADDScalarShiftRightImmediate" -> Emit_ADDScalarShiftRightImmediate(v, n)
      [] n.h = "ADDScalarShiftLeftImmediate" -> Emit_ADDScalarShiftLeftImmediate(v, n)
      [] n.h = "SUBImmediate" -> Emit_SUBImmediate(v, n)
      [] n.h = "SUBImmediateReverse" -> Emit_SUBImmediateReverse(v, n)
      [] n.h = "SUBScalar" -> Emit_SUBScalar(v, n)
      [] n.h = "SUBScalarShiftRightImmediate" -> Emit_SUBScalarShiftRightImmediate(v, n)
      [] n.h = "SUBScalarShiftLeftImmediate" -> Emit_SUBScalarShiftLeftImmediate(v, n)
      [] n.h = "CMPImmediate" -> Emit_CMPImmediate(v, n)
      [] n.h = "CMPImmediateReverse" -> Emit_CMPImmediateReverse(v, n)
      [] n.h = "CMPScalar" -> Emit_CMPScalar(v, n)
      [] n.h = "CMPScalarShiftRightImmediate" -> Emit_CMPScalarShiftRightImmediate(v, n)
      [] n.h = "CMPScalarShiftLeftImmediate" -> Emit_CMPScalarShiftLeftImmediate(v, n)
      [] n.h = "ANDImmediate" -> Emit_ANDImmediate(v, n) [] n.h = "ANDScalar" -> Emit_ANDScalar(v, n)
      [] n.h = "ANDImmediateShiftScalar" -> Emit_ANDImmediateShiftScalar(v, n)
      [] n.h = "ANDScalarShiftRightImmediate" -> Emit_ANDScalarShiftRightImmediate(v, n)
      [] n.h = "ANDScalarShiftLeftImmediate" -> Emit_ANDScalarShiftLeftImmediate(v, n)
      [] n.h = "ANDScalarShiftScalar" -> Emit_ANDScalarShiftScalar(v, n)
      [] n.h = "ANDScalarRotateScalar" -> Emit_ANDScalarRotateScalar(v, n)
      [] n.h = "FTSTImmediate" -> Emit_FTSTImmediate(v, n) [] n.h = "FTSTScalar" -> Emit_FTSTScalar(v, n)
      [] n.h = "FTSTImmediateShiftScalar" -> Emit_FTSTImmediateShiftScalar(v, n)
      [] n.h = "FTSTScalarShiftRightImmediate" -> Emit_FTSTScalarShiftRightImmediate(v, n)
      [] n.h = "FTSTScalarShiftLeftImmediate" -> Emit_FTSTScalarShiftLeftImmediate(v, n)
      [] n.h = "FTSTScalarShiftScalar" -> Emit_FTSTScalarShiftScalar(v, n)
      [] n.h = "FTSTScalarRotateScalar" -> Emit_FTSTScalarRotateScalar(v, n)
      [] n.h = "ORImmediate" -> Emit_ORImmediate(v, n) [] n.h = "ORScalar" -> Emit_ORScalar(v, n)
      [] n.h = "ORImmediateShiftScalar" -> Emit_ORImmediateShiftScalar(v, n)
      [] n.h = "ORScalarShiftRightImmediate" -> Emit_ORScalarShiftRightImmediate(v, n)
      [] n.h = "ORScalarShiftLeftImmediate" -> Emit_ORScalarShiftLeftImmediate(v, n)
      [] n.h = "ORScalarShiftScalar" -> Emit_ORScalarShiftScalar(v, n)
      [] n.h = "ORScalarRotateScalar" -> Emit_ORScalarRotateScalar(v, n)
      [] n.h = "EORImmediate" -> Emit_EORImmediate(v, n) [] n.h = "EORScalar" -> Emit_EORScalar(v, n)
      [] n.h = "EORImmediateShiftScalar" -> Emit_EORImmediateShiftScalar(v, n)
      [] n.h = "EORScalarShiftRightImmediate" -> Emit_EORScalarShiftRightImmediate(v, n)
      [] n.h = "EORScalarShiftLeftImmediate" -> Emit_EORScalarShiftLeftImmediate(v, n)
      [] n.h = "EORScalarShiftScalar" -> Emit_EORScalarShiftScalar(v, n)
      [] n.h = "EORScalarRotateScalar" -> Emit_EORScalarRotateScalar(v, n)
      [] n.h = "ADDWCScalar" -> Emit_ADDWCScalar(v, n) [] n.h = "ADDWCImmediate" -> Emit_ADDWCImmediate(v, n)
      [] n.h = "ADDWCScalarShiftRightImmediate" -> Emit_ADDWCScalarShiftRightImmediate(v, n)
      [] n.h = "ADDWCScalarShiftLeftImmediate" -> Emit_ADDWCScalarShiftLeftImmediate(v, n)
      [] n.h = "SUBWCScalar" -> Emit_SUBWCScalar(v, n) [] n.h = "SUBWCImmediate" -> Emit_SUBWCImmediate(v, n)
      [] n.h = "SUBWCImmediateReverse" -> Emit_SUBWCImmediateReverse(v, n)
      [] n.h = "SUBWCScalarShiftRightImmediate" -> Emit_SUBWCScalarShiftRightImmediate(v, n)
      [] n.h = "SUBWCScalarShiftLeftImmediate" -> Emit_SUBWCScalarShiftLeftImmediate(v, n)
      [] n.h = "CMPWCScalar" -> Emit_CMPWCScalar(v, n) [] n.h = "CMPWCImmediate" -> Emit_CMPWCImmediate(v, n)
      [] n.h = "CMPWCImmediateReverse" -> Emit_CMPWCImmediateReverse(v, n)
      [] n.h = "CMPWCScalarShiftRightImmediate" -> Emit_CMPWCScalarShiftRightImmediate(v, n)
      [] n.h = "CMPWCScalarShiftLeftImmediate" -> Emit_CMPWCScalarShiftLeftImmediate(v, n)
nuanceHandlers_MUL(m, p, n) ==
    CASE n.h = "ADDM" -> Execute_ADDM(m, p, n) [] n.h = "ADDMImmediate" -> Execute_ADDMImmediate(m, p, n)
      [] n.h = "SUBM" -> Execute_SUBM(m, p, n)
      [] n.h = "SUBMImmediateReverse" -> Execute_SUBMImmediateReverse(m, p, n)
      [] n.h = "MULScalarShiftAcshift" -> Execute_MULScalarShiftAcshift(m, p, n)
      [] n.h = "MULScalarShiftRightImmediate" -> Execute_MULScalarShiftRightImmediate(m, p, n)
      [] n.h = "MULScalarShiftLeftImmediate" -> Execute_MULScalarShiftLeftImmediate(m, p, n)
      [] n.h = "MULImmediateShiftAcshift" -> Execute_MULImmediateShiftAcshift(m, p, n)
      [] n.h = "MULScalarShiftScalar" -> Execute_MULScalarShiftScalar(m, p, n)
      [] n.h = "MULImmediateShiftScalar" -> Execute_MULImmediateShiftScalar(m, p, n)
      [] n.h = "MULImmediateShiftRightImmediate" -> Execute_MULImmediateShiftRightImmediate(m, p, n)
      [] n.h = "MULImmediateShiftLeftImmediate" -> Execute_MULImmediateShiftLeftImmediate(m, p, n)
      [] n.h = "MUL_SVImmediateShiftImmediate" -> Execute_MUL_SVImmediateShiftImmediate(m, p, n)
      [] n.h = "MUL_SVScalarShiftImmediate" -> Execute_MUL_SVScalarShiftImmediate(m, p, n)
      [] n.h = "MUL_SVScalarShiftSvshift" -> Execute_MUL_SVScalarShiftSvshift(m, p, n)
      [] n.h = "MUL_SVRuShiftImmediate" -> Execute_MUL_SVRuShiftImmediate(m, p, n)
      [] n.h = "MUL_SVRuShiftSvshift" -> Execute_MUL_SVRuShiftSvshift(m, p, n)
      [] n.h = "MUL_SVRvShiftImmediate" -> Execute_MUL_SVRvShiftImmediate(m, p, n)
      [] n.h = "MUL_SVRvShiftSvshift" -> Execute_MUL_SVRvShiftSvshift(m, p, n)
      [] n.h = "MUL_SVVectorShiftImmediate" -> Execute_MUL_SVVectorShiftImmediate(m, p, n)
      [] n.h = "MUL_SVVectorShiftSvshift" -> Execute_MUL_SVVectorShiftSvshift(m, p, n)
      [] n.h = "MUL_PImmediateShiftImmediate" -> Execute_MUL_PImmediateShiftImmediate(m, p, n)
      [] n.h = "MUL_PScalarShiftImmediate" -> Execute_MUL_PScalarShiftImmediate(m, p, n)
      [] n.h = "MUL_PScalarShiftSvshift" -> Execute_MUL_PScalarShiftSvshift(m, p, n)
      [] n.h = "MUL_PRuShiftImmediate" -> Execute_MUL_PRuShiftImmediate(m, p, n)
      [] n.h = "MUL_PRuShiftSvshift" -> Execute_MUL_PRuShiftSvshift(m, p, n)
      [] n.h = "MUL_PRvShiftImmediate" -> Execute_MUL_PRvShiftImmediate(m, p, n)
      [] n.h = "MUL_PRvShiftSvshift" -> Execute_MUL_PRvShiftSvshift(m, p, n)
      [] n.h = "MUL_PVectorShiftImmediate" -> Execute_MUL_PVectorShiftImmediate(m, p, n)
      [] n.h = "MUL_PVectorShiftSvshift" -> Execute_MUL_PVectorShiftSvshift(m, p, n)
      [] n.h = "DOTPScalarShiftImmediate" -> Execute_DOTPScalarShiftImmediate(m, p, n)
      [] n.h = "DOTPScalarShiftSvshift" -> Execute_DOTPScalarShiftSvshift(m, p, n)
      [] n.h = "DOTPVectorShiftImmediate" -> Execute_DOTPVectorShiftImmediate(m, p, n)
      [] n.h = "DOTPVectorShiftSvshift" -> Execute_DOTPVectorShiftSvshift(m, p, n)
ConstantHandlers_MUL(c) ==
    CASE c.n.h = "ADDM" -> PropagateConstants_ADDM(c)
      [] c.n.h = "ADDMImmediate" -> PropagateConstants_ADDMImmediate(c)
      [] c.n.h = "SUBM" -> PropagateConstants_SUBM(c)
      [] c.n.h = "SUBMImmediateReverse" -> PropagateConstants_SUBMImmediateReverse(c)
      [] c.n.h = "MULScalarShiftAcshift" -> PropagateConstants_MULScalarShiftAcshift(c)
      [] c.n.h = "MULScalarShiftRightImmediate" -> PropagateConstants_MULScalarShiftRightImmediate(c)
      [] c.n.h = "MULScalarShiftLeftImmediate" -> PropagateConstants_MULScalarShiftLeftImmediate(c)
      [] c.n.h = "MULImmediateShiftAcshift" -> PropagateConstants_MULImmediateShiftAcshift(c)
      [] c.n.h = "MULScalarShiftScalar" -> PropagateConstants_MULScalarShiftScalar(c)
      [] c.n.h = "MULImmediateShiftScalar" -> PropagateConstants_MULImmediateShiftScalar(c)
      [] c.n.h = "MULImmediateShiftRightImmediate" -> PropagateConstants_MULImmediateShiftRightImmediate(c)
      [] c.n.h = "MULImmediateShiftLeftImmediate" -> PropagateConstants_MULImmediateShiftLeftImmediate(c)
      [] c.n.h = "MUL_SVImmediateShiftImmediate" -> PropagateConstants_MUL_SVImmediateShiftImmediate(c)
      [] c.n.h = "MUL_SVScalarShiftImmediate" -> PropagateConstants_MUL_SVScalarShiftImmediate(c)
      [] c.n.h = "MUL_SVScalarShiftSvshift" -> PropagateConstants_MUL_SVScalarShiftSvshift(c)
      [] c.n.h = "MUL_SVRuShiftImmediate" -> PropagateConstants_MUL_SVRuShiftImmediate(c)
      [] c.n.h = "MUL_SVRuShiftSvshift" -> PropagateConstants_MUL_SVRuShiftSvshift(c)
      [] c.n.h = "MUL_SVRvShiftImmediate" -> PropagateConstants_MUL_SVRvShiftImmediate(c)
      [] c.n.h = "MUL_SVRvShiftSvshift" -> PropagateConstants_MUL_SVRvShiftSvshift(c)
      [] c.n.h = "MUL_SVVectorShiftImmediate" -> PropagateConstants_MUL_SVVectorShiftImmediate(c)
      [] c.n.h = "MUL_SVVectorShiftSvshift" -> PropagateConstants_MUL_SVVectorShiftSvshift(c)
      [] c.n.h = "MUL_PImmediateShiftImmediate" -> PropagateConstants_MUL_PImmediateShiftImmediate(c)
      [] c.n.h = "MUL_PScalarShiftImmediate" -> PropagateConstants_MUL_PScalarShiftImmediate(c)
      [] c.n.h = "MUL_PScalarShiftSvshift" -> PropagateConstants_MUL_PScalarShiftSvshift(c)
      [] c.n.h = "MUL_PRuShiftImmediate" -> PropagateConstants_MUL_PRuShiftImmediate(c)
      [] c.n.h = "MUL_PRuShiftSvshift" -> PropagateConstants_MUL_PRuShiftSvshift(c)
      [] c.n.h = "MUL_PRvShiftImmediate" -> PropagateConstants_MUL_PRvShiftImmediate(c)
      [] c.n.h = "MUL_PRvShiftSvshift" -> PropagateConstants_MUL_PRvShiftSvshift(c)
      [] c.n.h = "MUL_PVectorShiftImmediate" -> PropagateConstants_MUL_PVectorShiftImmediate(c)
      [] c.n.h = "MUL_PVectorShiftSvshift" -> PropagateConstants_MUL_PVectorShiftSvshift(c)
      [] c.n.h = "DOTPScalarShiftImmediate" -> PropagateConstants_DOTPScalarShiftImmediate(c)
      [] c.n.h = "DOTPScalarShiftSvshift" -> PropagateConstants_DOTPScalarShiftSvshift(c)
      [] c.n.h = "DOTPVectorShiftImmediate" -> PropagateConstants_DOTPVectorShiftImmediate(c)
      [] c.n.h = "DOTPVectorShiftSvshift" -> PropagateConstants_DOTPVectorShiftSvshift(c)
emitHandlers_MUL(v, n) ==
    CASE n.h = "ADDM" -> Emit_ADDM(v, n) [] n.h = "ADDMImmediate" -> Emit_ADDMImmediate(v, n)
      [] n.h = "SUBM" -> Emit_SUBM(v, n) [] n.h = "SUBMImmediateReverse" -> Emit_SUBMImmediateReverse(v, n)
      [] n.h = "MULScalarShiftAcshift" -> Emit_MULScalarShiftAcshift(v, n)
      [] n.h = "MULScalarShiftRightImmediate" -> Emit_MULScalarShiftRightImmediate(v, n)
      [] n.h = "MULScalarShiftLeftImmediate" -> Emit_MULScalarShiftLeftImmediate(v, n)
      [] n.h = "MULImmediateShiftAcshift" -> Emit_MULImmediateShiftAcshift(v, n)
      [] n.h = "MULScalarShiftScalar" -> Emit_MULScalarShiftScalar(v, n)
      [] n.h = "MULImmediateShiftScalar" -> Emit_MULImmediateShiftScalar(v, n)
      [] n.h = "MULImmediateShiftRightImmediate" -> Emit_MULImmediateShiftRightImmediate(v, n)
      [] n.h = "MULImmediateShiftLeftImmediate" -> Emit_MULImmediateShiftLeftImmediate(v, n)
      [] n.h = "MUL_SVImmediateShiftImmediate" -> Emit_MUL_SVImmediateShiftImmediate(v, n)
      [] n.h = "MUL_SVScalarShiftImmediate" -> Emit_MUL_SVScalarShiftImmediate(v, n)
      [] n.h = "MUL_SVScalarShiftSvshift" -> Emit_MUL_SVScalarShiftSvshift(v, n)
      [] n.h = "MUL_SVRuShiftImmediate" -> Emit_MUL_SVRuShiftImmediate(v, n)
      [] n.h = "MUL_SVRuShiftSvshift" -> Emit_MUL_SVRuShiftSvshift(v, n)
      [] n.h = "MUL_SVRvShiftImmediate" -> Emit_MUL_SVRvShiftImmediate(v, n)
      [] n.h = "MUL_SVRvShiftSvshift" -> Emit_MUL_SVRvShiftSvshift(v, n)
      [] n.h = "MUL_SVVectorShiftImmediate" -> Emit_MUL_SVVectorShiftImmediate(v, n)
      [] n.h = "MUL_SVVectorShiftSvshift" -> Emit_MUL_SVVectorShiftSvshift(v, n)
      [] n.h = "MUL_PImmediateShiftImmediate" -> Emit_MUL_PImmediateShiftImmediate(v, n)
      [] n.h = "MUL_PScalarShiftImmediate" -> Emit_MUL_PScalarShiftImmediate(v, n)
      [] n.h = "MUL_PScalarShiftSvshift" -> Emit_MUL_PScalarShiftSvshift(v, n)
      [] n.h = "MUL_PRuShiftImmediate" -> Emit_MUL_PRuShiftImmediate(v, n)
      [] n.h = "MUL_PRuShiftSvshift" -> Emit_MUL_PRuShiftSvshift(v, n)
      [] n.h = "MUL_PRvShiftImmediate" -> Emit_MUL_PRvShiftImmediate(v, n)
      [] n.h = "MUL_PRvShiftSvshift" -> Emit_MUL_PRvShiftSvshift(v, n)
      [] n.h = "MUL_PVectorShiftImmediate" -> Emit_MUL_PVectorShiftImmediate(v, n)
      [] n.h = "MUL_PVectorShiftSvshift" -> Emit_MUL_PVectorShiftSvshift(v, n)
      [] n.h = "DOTPScalarShiftImmediate" -> Emit_DOTPScalarShiftImmediate(v, n)
      [] n.h = "DOTPScalarShiftSvshift" -> Emit_DOTPScalarShiftSvshift(v, n)
      [] n.h = "DOTPVectorShiftImmediate" -> Emit_DOTPVectorShiftImmediate(v, n)
      [] n.h = "DOTPVectorShiftSvshift" -> Emit_DOTPVectorShiftSvshift(v, n)
nuanceHandlers_RCU(m, p, n) ==
    CASE n.h = "DECRc1" -> Execute_DECRc1(m, p, n) [] n.h = "DECRc0" -> Execute_DECRc0(m, p, n)
      [] n.h = "DECBoth" -> Execute_DECBoth(m, p, n)
      [] n.h = "ADDRImmediateOnly" -> Execute_ADDRImmediateOnly(m, p, n)
      [] n.h = "ADDRImmediate" -> Execute_ADDRImmediate(m, p, n)
      [] n.h = "ADDRScalarOnly" -> Execute_ADDRScalarOnly(m, p, n)
      [] n.h = "ADDRScalar" -> Execute_ADDRScalar(m, p, n)
      [] n.h = "MVRImmediateOnly" -> Execute_MVRImmediateOnly(m, p, n)
      [] n.h = "MVRImmediate" -> Execute_MVRImmediate(m, p, n)
      [] n.h = "MVRScalarOnly" -> Execute_MVRScalarOnly(m, p, n)
      [] n.h = "MVRScalar" -> Execute_MVRScalar(m, p, n) [] n.h = "RangeOnly" -> Execute_RangeOnly(m, p, n)
      [] n.h = "Range" -> Execute_Range(m, p, n) [] n.h = "ModuloOnly" -> Execute_ModuloOnly(m, p, n)
      [] n.h = "Modulo" -> Execute_Modulo(m, p, n)
ConstantHandlers_RCU(c) ==
    CASE c.n.h = "DECRc1" -> PropagateConstants_DECRc1(c) [] c.n.h = "DECRc0" -> PropagateConstants_DECRc0(c)
      [] c.n.h = "DECBoth" -> PropagateConstants_DECBoth(c)
      [] c.n.h = "ADDRImmediateOnly" -> PropagateConstants_ADDRImmediateOnly(c)
      [] c.n.h = "ADDRImmediate" -> PropagateConstants_ADDRImmediate(c)
      [] c.n.h = "ADDRScalarOnly" -> PropagateConstants_ADDRScalarOnly(c)
      [] c.n.h = "ADDRScalar" -> PropagateConstants_ADDRScalar(c)
      [] c.n.h = "MVRImmediateOnly" -> PropagateConstants_MVRImmediateOnly(c)
      [] c.n.h = "MVRImmediate" -> PropagateConstants_MVRImmediate(c)
      [] c.n.h = "MVRScalarOnly" -> PropagateConstants_MVRScalarOnly(c)
      [] c.n.h = "MVRScalar" -> PropagateConstants_MVRScalar(c)
      [] c.n.h = "RangeOnly" -> PropagateConstants_RangeOnly(c)
      [] c.n.h = "Range" -> PropagateConstants_Range(c)
      [] c.n.h = "ModuloOnly" -> PropagateConstants_ModuloOnly(c)
      [] c.n.h = "Modulo" -> PropagateConstants_Modulo(c)
emitHandlers_RCU(v, n) ==
    CASE n.h = "DECRc1" -> Emit_DECRc1(v, n) [] n.h = "DECRc0" -> Emit_DECRc0(v, n)
      [] n.h = "DECBoth" -> Emit_DECBoth(v, n) [] n.h = "ADDRImmediateOnly" -> Emit_ADDRImmediateOnly(v, n)
      [] n.h = "ADDRImmediate" -> Emit_ADDRImmediate(v, n)
      [] n.h = "ADDRScalarOnly" -> Emit_ADDRScalarOnly(v, n) [] n.h = "ADDRScalar" -> Emit_ADDRScalar(v, n)
      [] n.h = "MVRImmediateOnly" -> Emit_MVRImmediateOnly(v, n)
      [] n.h = "MVRImmediate" -> Emit_MVRImmediate(v, n) [] n.h = "MVRScalarOnly" -> Emit_MVRScalarOnly(v, n)
      [] n.h = "MVRScalar" -> Emit_MVRScalar(v, n) [] n.h = "RangeOnly" -> Emit_RangeOnly(v, n)
      [] n.h = "Range" -> Emit_Range(v, n) [] n.h = "ModuloOnly" -> Emit_ModuloOnly(v, n)
      [] n.h = "Modulo" -> Emit_Modulo(v, n)
nuanceHandlers_ECU(m, p, n) ==
    CASE n.h = "ECU_NOP" -> Execute_ECU_NOP(m, p, n) [] n.h = "BRAAlways" -> Execute_BRAAlways(m, p, n)
      [] n.h = "BRAAlways_NOP" -> Execute_BRAAlways_NOP(m, p, n)
      [] n.h = "BRAConditional" -> Execute_BRAConditional(m, p, n)
      [] n.h = "BRAConditional_NOP" -> Execute_BRAConditional_NOP(m, p, n)
      [] n.h = "JMPAlwaysIndirect" -> Execute_JMPAlwaysIndirect(m, p, n)
      [] n.h = "JMPAlwaysIndirect_NOP" -> Execute_JMPAlwaysIndirect_NOP(m, p, n)
      [] n.h = "JMPConditionalIndirect" -> Execute_JMPConditionalIndirect(m, p, n)
      [] n.h = "JMPConditionalIndirect_NOP" -> Execute_JMPConditionalIndirect_NOP(m, p, n)
      [] n.h = "JSRAlways" -> Execute_JSRAlways(m, p, n)
      [] n.h = "JSRAlways_NOP" -> Execute_JSRAlways_NOP(m, p, n)
      [] n.h = "JSRConditional" -> Execute_JSRConditional(m, p, n)
      [] n.h = "JSRConditional_NOP" -> Execute_JSRConditional_NOP(m, p, n)
      [] n.h = "JSRAlwaysIndirect" -> Execute_JSRAlwaysIndirect(m, p, n)
      [] n.h = "JSRAlwaysIndirect_NOP" -> Execute_JSRAlwaysIndirect_NOP(m, p, n)
      [] n.h = "JSRConditionalIndirect" -> Execute_JSRConditionalIndirect(m, p, n)
      [] n.h = "JSRConditionalIndirect_NOP" -> Execute_JSRConditionalIndirect_NOP(m, p, n)
      [] n.h = "RTI1Conditional" -> Execute_RTI1Conditional(m, p, n)
      [] n.h = "RTI1Conditional_NOP" -> Execute_RTI1Conditional_NOP(m, p, n)
      [] n.h = "RTI2Conditional" -> Execute_RTI2Conditional(m, p, n)
      [] n.h = "RTI2Conditional_NOP" -> Execute_RTI2Conditional_NOP(m, p, n)
      [] n.h = "RTSAlways" -> Execute_RTSAlways(m, p, n)
      [] n.h = "RTSAlways_NOP" -> Execute_RTSAlways_NOP(m, p, n)
      [] n.h = "RTSConditional" -> Execute_RTSConditional(m, p, n)
      [] n.h = "RTSConditional_NOP" -> Execute_RTSConditional_NOP(m, p, n)
ConstantHandlers_ECU(c) ==
    CASE c.n.h = "ECU_NOP" -> PropagateConstants_ECU_NOP(c)
      [] c.n.h = "BRAAlways" -> PropagateConstants_BRAAlways(c)
      [] c.n.h = "BRAAlways_NOP" -> PropagateConstants_BRAAlways_NOP(c)
      [] c.n.h = "BRAConditional" -> PropagateConstants_BRAConditional(c)
      [] c.n.h = "BRAConditional_NOP" -> PropagateConstants_BRAConditional_NOP(c)
      [] c.n.h = "JMPAlwaysIndirect" -> PropagateConstants_JMPAlwaysIndirect(c)
      [] c.n.h = "JMPAlwaysIndirect_NOP" -> PropagateConstants_JMPAlwaysIndirect_NOP(c)
      [] c.n.h = "JMPConditionalIndirect" -> PropagateConstants_JMPConditionalIndirect(c)
      [] c.n.h = "JMPConditionalIndirect_NOP" -> PropagateConstants_JMPConditionalIndirect_NOP(c)
      [] c.n.h = "JSRAlways" -> PropagateConstants_JSRAlways(c)
      [] c.n.h = "JSRAlways_NOP" -> PropagateConstants_JSRAlways_NOP(c)
      [] c.n.h = "JSRConditional" -> PropagateConstants_JSRConditional(c)
      [] c.n.h = "JSRConditional_NOP" -> PropagateConstants_JSRConditional_NOP(c)
      [] c.n.h = "JSRAlwaysIndirect" -> PropagateConstants_JSRAlwaysIndirect(c)
      [] c.n.h = "JSRAlwaysIndirect_NOP" -> PropagateConstants_JSRAlwaysIndirect_NOP(c)
      [] c.n.h = "JSRConditionalIndirect" -> PropagateConstants_JSRConditionalIndirect(c)
      [] c.n.h = "JSRConditionalIndirect_NOP" -> PropagateConstants_JSRConditionalIndirect_NOP(c)
      [] c.n.h = "RTI1Conditional" -> PropagateConstants_RTI1Conditional(c)
      [] c.n.h = "RTI1Conditional_NOP" -> PropagateConstants_RTI1Conditional_NOP(c)
      [] c.n.h = "RTI2Conditional" -> PropagateConstants_RTI2Conditional(c)
      [] c.n.h = "RTI2Conditional_NOP" -> PropagateConstants_RTI2Conditional_NOP(c)
      [] c.n.h = "RTSAlways" -> PropagateConstants_RTSAlways(c)
      [] c.n.h = "RTSAlways_NOP" -> PropagateConstants_RTSAlways_NOP(c)
      [] c.n.h = "RTSConditional" -> PropagateConstants_RTSConditional(c)
      [] c.n.h = "RTSConditional_NOP" -> PropagateConstants_RTSConditional_NOP(c)
emitHandlers_ECU(v, n) ==
    CASE n.h = "ECU_NOP" -> Emit_ECU_NOP(v, n) [] n.h = "BRAAlways" -> Emit_BRAAlways(v, n)
      [] n.h = "BRAAlways_NOP" -> Emit_BRAAlways_NOP(v, n)
      [] n.h = "BRAConditional" -> Emit_BRAConditional(v, n)
      [] n.h = "BRAConditional_NOP" -> Emit_BRAConditional_NOP(v, n)
      [] n.h = "JMPAlwaysIndirect" -> Emit_JMPAlwaysIndirect(v, n)
      [] n.h = "JMPAlwaysIndirect_NOP" -> Emit_JMPAlwaysIndirect_NOP(v, n)
      [] n.h = "JMPConditionalIndirect" -> Emit_JMPConditionalIndirect(v, n)
      [] n.h = "JMPConditionalIndirect_NOP" -> Emit_JMPConditionalIndirect_NOP(v, n)
      [] n.h = "JSRAlways" -> Emit_JSRAlways(v, n) [] n.h = "JSRAlways_NOP" -> Emit_JSRAlways_NOP(v, n)
      [] n.h = "JSRConditional" -> Emit_JSRConditional(v, n)
      [] n.h = "JSRConditional_NOP" -> Emit_JSRConditional_NOP(v, n)
      [] n.h = "JSRAlwaysIndirect" -> Emit_JSRAlwaysIndirect(v, n)
      [] n.h = "JSRAlwaysIndirect_NOP" -> Emit_JSRAlwaysIndirect_NOP(v, n)
      [] n.h = "JSRConditionalIndirect" -> Emit_JSRConditionalIndirect(v, n)
      [] n.h = "JSRConditionalIndirect_NOP" -> Emit_JSRConditionalIndirect_NOP(v, n)
      [] n.h = "RTI1Conditional" -> Emit_RTI1Conditional(v, n)
      [] n.h = "RTI1Conditional_NOP" -> Emit_RTI1Conditional_NOP(v, n)
      [] n.h = "RTI2Conditional" -> Emit_RTI2Conditional(v, n)
      [] n.h = "RTI2Conditional_NOP" -> Emit_RTI2Conditional_NOP(v, n)
      [] n.h = "RTSAlways" -> Emit_RTSAlways(v, n) [] n.h = "RTSAlways_NOP" -> Emit_RTSAlways_NOP(v, n)
      [] n.h = "RTSConditional" -> Emit_RTSConditional(v, n)
      [] n.h = "RTSConditional_NOP" -> Emit_RTSConditional_NOP(v, n)
nuanceHandlers_Misc(m, p, n) ==
    CASE n.h = "StoreScalarRegisterConstant" -> Execute_StoreScalarRegisterConstant(m, p, n)
      [] n.h = "StoreMiscRegisterConstant" -> Execute_StoreMiscRegisterConstant(m, p, n)
emitHandlers_Misc(v, n) ==
    CASE n.h = "StoreScalarRegisterConstant" -> Emit_StoreScalarRegisterConstant(v, n)
      [] n.h = "StoreMiscRegisterConstant" -> Emit_StoreMiscRegisterConstant(v, n)
\* The unit is the one the decoder put the instruction in.
nuanceHandlers(m, p, n) ==
    CASE n.unit = "ALU" -> nuanceHandlers_ALU(m, p, n)
      [] n.unit = "MUL" -> nuanceHandlers_MUL(m, p, n)
      [] n.unit = "RCU" -> nuanceHandlers_RCU(m, p, n)
      [] n.unit = "ECU" -> nuanceHandlers_ECU(m, p, n)
      [] n.unit = "Const" -> nuanceHandlers_Misc(m, p, n)
ConstantHandlers(c) ==
    CASE c.n.unit = "ALU" -> ConstantHandlers_ALU(c)
      [] c.n.unit = "MUL" -> ConstantHandlers_MUL(c)
      [] c.n.unit = "RCU" -> ConstantHandlers_RCU(c)
      [] c.n.unit = "ECU" -> ConstantHandlers_ECU(c)
emitHandlers(v, n) ==
    CASE n.unit = "ALU" -> emitHandlers_ALU(v, n)
      [] n.unit = "MUL" -> emitHandlers_MUL(v, n)
      [] n.unit = "RCU" -> emitHandlers_RCU(v, n)
      [] n.unit = "ECU" -> emitHandlers_ECU(v, n)
      [] n.unit = "Const" -> emitHandlers_Misc(v, n)
=============================================================================
