----------------------------- MODULE DecodeMUL -----------------------------
(***************************************************************************)
(* What the decoder makes of the instruction words of the multiplier: one  *)
(* definition per major opcode, the set of the entries its forms decode    *)
(* to.  The five-bit fields of the instruction word are a (f3E00000), b    *)
(* (f1F0000) and c (f1F) where they name registers, k where one is a count *)
(* or an immediate; f60 is the two-bit field that names a shift, and f7F   *)
(* the seven-bit shift of the scalar forms, to the left from 2W on.        *)
(***************************************************************************)
EXTENDS Nuance

LOCAL Mul(h, src1, src2, dest, info, si, so, mi, mo) ==
    [unit |-> "MUL", h |-> h, src1 |-> src1, src2 |-> src2, dest |-> dest, info |-> info,
     si |-> si, so |-> so, mi |-> mi, mo |-> mo]
LOCAL Align(r) == r - (r % 4)
LOCAL V(r) == VECTOR_REG_DEPENDENCY_MASK(Align(r))
LOCAL P(r) == PIXEL_REG_DEPENDENCY_MASK(Align(r))

\* A product shifted by a constant.
ByField(right, left, src1, a, si, f7F) ==
    IF f7F < 2 * W THEN Mul(right, src1, a, a, f7F, si, {a}, {}, {"MV"})
                   ELSE Mul(left, src1, a, a, 4 * W - f7F, si, {a}, {}, {"MV"})

MUL16(a, c) ==
    {Mul("MUL_SVVectorShiftSvshift", Align(c), Align(a), Align(a), 0, V(a) \cup V(c), V(a), {"SVSHIFT"}, {}),
     Mul("MULScalarShiftAcshift", c, a, a, 0, {a, c}, {a}, {"ACSHIFT"}, {"MV"})}

MUL32_Scalar(a, b, c, f7F) ==
    {ByField("MULScalarShiftRightImmediate", "MULScalarShiftLeftImmediate", b, a, {a, b}, f7F),
     Mul("MULScalarShiftAcshift", b, a, c, 0, {a, b}, {c}, {"ACSHIFT"}, {"MV"}),
     Mul("MULScalarShiftScalar", b, a, a, c, {a, b, c}, {a}, {}, {"MV"})}
MUL32_Immediate(a, k, c, f7F) ==
    {Mul("MULImmediateShiftAcshift", k, a, c, 0, {a}, {c}, {"ACSHIFT"}, {"MV"}),
     Mul("MULImmediateShiftScalar", k, a, a, c, {a, c}, {a}, {}, {"MV"}),
     ByField("MULImmediateShiftRightImmediate", "MULImmediateShiftLeftImmediate", k, a, {a}, f7F)}
MUL32_Vector(a, b, c, f60) ==
    {Mul("MUL_SVScalarShiftImmediate", a, Align(b), Align(c), f60, {a} \cup V(b), V(c), {}, {}),
     Mul("MUL_SVScalarShiftSvshift", a, Align(b), Align(c), 0, {a} \cup V(b), V(c), {"SVSHIFT"}, {}),
     Mul("MUL_SVRuShiftImmediate", 0, Align(a), Align(c), f60, V(a), V(c), {"RU", "UVCTL"}, {}),
     Mul("MUL_SVRuShiftSvshift", 0, Align(a), Align(c), 0, V(a), V(c), {"RU", "UVCTL", "SVSHIFT"}, {}),
     Mul("MUL_SVRvShiftImmediate", 0, Align(a), Align(c), f60, V(a), V(c), {"RV", "UVCTL"}, {}),
     Mul("MUL_SVRvShiftSvshift", 0, Align(a), Align(c), 0, V(a), V(c), {"RV", "UVCTL", "SVSHIFT"}, {}),
     Mul("MUL_SVVectorShiftImmediate", Align(b), Align(a), Align(c), f60, V(a) \cup V(b), V(c), {}, {}),
     Mul("MUL_SVVectorShiftSvshift", Align(b), Align(a), Align(c), 0, V(a) \cup V(b), V(c), {"SVSHIFT"}, {})}
MUL32_Pixel(a, b, c, f60) ==
    {Mul("MUL_PScalarShiftImmediate", a, Align(b), Align(c), f60, {a} \cup P(b), P(c), {}, {}),
     Mul("MUL_PScalarShiftSvshift", a, Align(b), Align(c), 0, {a} \cup P(b), P(c), {"SVSHIFT"}, {}),
     Mul("MUL_PRuShiftImmediate", 0, Align(a), Align(c), f60, P(a), P(c), {"RU", "UVCTL"}, {}),
     Mul("MUL_PRuShiftSvshift", 0, Align(a), Align(c), 0, P(a), P(c), {"RU", "UVCTL", "SVSHIFT"}, {}),
     Mul("MUL_PRvShiftImmediate", 0, Align(a), Align(c), f60, P(a), P(c), {"RV", "UVCTL"}, {}),
     Mul("MUL_PRvShiftSvshift", 0, Align(a), Align(c), 0, P(a), P(c), {"RV", "UVCTL", "SVSHIFT"}, {}),
     Mul("MUL_PVectorShiftImmediate", Align(b), Align(a), Align(c), f60, P(a) \cup P(b), P(c), {}, {}),
     Mul("MUL_PVectorShiftSvshift", Align(b), Align(a), Align(c), 0, P(a) \cup P(b), P(c), {"SVSHIFT"}, {})}
MUL32_Dot(a, b, c, f60) ==
    {Mul("DOTPScalarShiftImmediate", a, Align(b), c, f60, {a} \cup V(b), {c}, {}, {}),
     Mul("DOTPScalarShiftSvshift", a, Align(b), c, 0, {a} \cup V(b), {c}, {"SVSHIFT"}, {}),
     Mul("DOTPVectorShiftImmediate", Align(a), Align(b), c, f60, V(a) \cup V(b), {c}, {}, {}),
     Mul("DOTPVectorShiftSvshift", Align(a), Align(b), c, 0, V(a) \cup V(b), {c}, {"SVSHIFT"}, {}),
     Mul("ADDM", a, b, c, 0, {a, b}, {c}, {}, {}),
     Mul("SUBM", a, b, c, 0, {a, b}, {c}, {}, {})}

DecodeInstruction_MUL16(a, c) == MUL16(a, c)
DecodeInstruction_MUL32(a, b, c, k, f60, f7F) ==
    MUL32_Scalar(a, b, c, f7F) \cup MUL32_Immediate(a, k, c, f7F) \cup MUL32_Vector(a, b, c, f60)
      \cup MUL32_Pixel(a, b, c, f60) \cup MUL32_Dot(a, b, c, f60)
=============================================================================
