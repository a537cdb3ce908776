----------------------------- MODULE DecodeALU -----------------------------
(***************************************************************************)
(* What the decoder makes of the instruction words of the ALU: one         *)
(* definition per major opcode, the set of the entries its forms decode    *)
(* to.  The five-bit fields of the instruction word are a (f3E00000), b    *)
(* (f1F0000) and c (f1F) where they name registers, k where they are a     *)
(* count or a short immediate, and i is an immediate with its extension.   *)
(* A five-bit field has W bits' worth of counts here: 0..W-1.              *)
(***************************************************************************)
EXTENDS Nuance

\* An entry of the instruction cache: the handler, its fields, and the
\* registers and flags the decoder says it reads (si, mi) and writes (so, mo).
Entry(h, src1, src2, dest, si, so, mi, mo) ==
    [unit |-> "ALU", h |-> h, src1 |-> src1, src2 |-> src2, dest |-> dest, info |-> 0,
     si |-> si, so |-> so, mi |-> mi, mo |-> mo]

\* Conversions of a short field: signed; to the high bits; a rotated one.
Short(k) == Wrap(IF k < Half THEN k ELSE k - W)
ToHigh(a, k) == IF k = 0 THEN a ELSE Shl(a, W - k)
Turn(a, k) == IF k < Half THEN Ror(a, k) ELSE Rol(a, W - k)
Mask(k) == Shr(Ones, W - 1 - k)
Aligned(r) == r - (r % 4)

\* A register shifted by a signed count: to the right when it is not negative.
ByShift(right, left, a, k, b, si, so, mi, mo) ==
    IF k < Half THEN Entry(right, a, k, b, si, so, mi, mo)
                ELSE Entry(left, a, W - k, b, si, so, mi, mo)

\* Mutant: the second source is not declared.
VectorsOfOne(h, a, b, c) ==
    Entry(h, Aligned(a), Aligned(b), Aligned(c),
          VECTOR_REG_DEPENDENCY_MASK(Aligned(a)), VECTOR_REG_DEPENDENCY_MASK(Aligned(c)), {}, {})
Vectors(h, a, b, c) ==
    Entry(h, Aligned(a), Aligned(b), Aligned(c),
          VECTOR_REG_DEPENDENCY_MASK(Aligned(a)) \cup VECTOR_REG_DEPENDENCY_MASK(Aligned(b)),
          VECTOR_REG_DEPENDENCY_MASK(Aligned(c)), {}, {})
Pixels(h, a, b, c) ==
    Entry(h, Aligned(a), Aligned(b), Aligned(c),
          PIXEL_REG_DEPENDENCY_MASK(Aligned(a)) \cup PIXEL_REG_DEPENDENCY_MASK(Aligned(b)),
          PIXEL_REG_DEPENDENCY_MASK(Aligned(c)), {}, {})

\* Sixteen-bit forms: the destination is the second source.
ALU16_Low(a, c, k, i) ==
    {Entry("ADDScalar", a, c, c, {a, c}, {c}, {}, NVCZ),
     Entry("ADDImmediate", i, c, c, {c}, {c}, {}, NVCZ),
     Entry("COPY", 0, a, c, {a}, {c}, {}, NVZ),
     Vectors("ADD_SV", a, c, c),
     Vectors("SUB_SV", a, c, c),
     Entry("SUBImmediateReverse", a, 0, a, {a}, {a}, {}, NVCZ),
     Entry("ABS", a, 0, a, {a}, {a}, {}, NVCZ)}
ALU16_High(a, c, k, i) ==
    {Entry("SUBScalar", a, c, c, {a, c}, {c}, {}, NVCZ),
     Entry("SUBImmediate", i, c, c, {c}, {c}, {}, NVCZ),
     Entry("EORImmediate", Short(k), c, c, {c}, {c}, {}, NVZ),
     Entry("EORImmediate", i, c, c, {c}, {c}, {}, NVZ),
     Entry("CMPScalar", a, c, c, {a, c}, {}, {}, NVCZ),
     Entry("CMPImmediate", i, c, c, {c}, {}, {}, NVCZ),
     Entry("ANDScalar", a, c, c, {a, c}, {c}, {}, NVZ),
     Entry("ORScalar", a, c, c, {a, c}, {c}, {}, NVZ),
     Entry("EORScalar", a, c, c, {a, c}, {c}, {}, NVZ),
     Entry("ASL", (W - k) % W, a, a, {a}, {a}, {}, NVCZ),
     Entry("ASR", k, a, a, {a}, {a}, {}, NVCZ),
     Entry("LSR", k, a, a, {a}, {a}, {}, NVCZ),
     Entry("BTST", Pow[k], a, a, {a}, {}, {}, NVZ)}

ALU32_add(a, b, c, k, i) ==
    {Entry("ADDScalar", a, b, c, {a, b}, {c}, {}, NVCZ),
     Entry("ADDImmediate", i, b, c, {b}, {c}, {}, NVCZ),
     Entry("ADDImmediate", i, b, b, {b}, {b}, {}, NVCZ),
     Entry("ADDImmediate", ToHigh(a, k), b, b, {b}, {b}, {}, NVCZ),
     ByShift("ADDScalarShiftRightImmediate", "ADDScalarShiftLeftImmediate", a, k, b, {a, b}, {b}, {}, NVCZ),
     Vectors("ADD_SV", a, b, c),
     Pixels("ADD_P", a, b, c)}
ALU32_sub(a, b, c, k, i) ==
    {Entry("SUBScalar", a, b, c, {a, b}, {c}, {}, NVCZ),
     Entry("SUBImmediate", i, b, c, {b}, {c}, {}, NVCZ),
     Entry("SUBImmediate", i, b, b, {b}, {b}, {}, NVCZ),
     Entry("SUBImmediate", ToHigh(a, k), b, b, {b}, {b}, {}, NVCZ),
     Entry("SUBImmediateReverse", a, i, c, {a}, {c}, {}, NVCZ),
     ByShift("SUBScalarShiftRightImmediate", "SUBScalarShiftLeftImmediate", a, k, b, {a, b}, {b}, {}, NVCZ),
     Vectors("SUB_SV", a, b, c),
     Pixels("SUB_P", a, b, c)}
ALU32_cmp(a, b, k, i) ==
    {Entry("CMPImmediate", i, b, 0, {b}, {}, {}, NVCZ),
     Entry("CMPImmediate", ToHigh(a, k), b, 0, {b}, {}, {}, NVCZ),
     Entry("CMPImmediateReverse", a, i, 0, {a}, {}, {}, NVCZ),
     ByShift("CMPScalarShiftRightImmediate", "CMPScalarShiftLeftImmediate", a, k, b, {a, b}, {}, {}, NVCZ)}

\* The logical operations have the same seven forms.
ALU32_and(a, b, c, k, i) ==
    {Entry("ANDScalar", a, b, c, {a, b}, {c}, {}, NVZ),
     Entry("ANDImmediate", Short(k), b, c, {b, c}, {c}, {}, NVZ),
     Entry("ANDImmediate", i, b, c, {b, c}, {c}, {}, NVZ),
     Entry("ANDImmediate", Turn(Short(a), k), b, b, {b}, {b}, {}, NVZ),
     Entry("ANDImmediateShiftScalar", i, b, a, {a, b}, {a}, {}, NVZ),
     Entry("ANDImmediateShiftScalar", Short(k), b, a, {a, b}, {a}, {}, NVZ),
     ByShift("ANDScalarShiftRightImmediate", "ANDScalarShiftLeftImmediate", a, k, b, {a, b}, {b}, {}, NVZ),
     Entry("ANDScalarShiftScalar", a, b, c, {a, b, c}, {c}, {}, NVZ),
     Entry("ANDScalarRotateScalar", a, b, c, {a, b, c}, {c}, {}, NVZ)}
ALU32_ftst(a, b, c, k, i) ==
    {Entry("FTSTScalar", a, b, 0, {a, b}, {}, {}, NVZ),
     Entry("FTSTImmediate", Short(k), b, c, {b, c}, {}, {}, NVZ),
     Entry("FTSTImmediate", i, b, c, {b, c}, {}, {}, NVZ),
     Entry("FTSTImmediate", Turn(Short(a), k), b, b, {b}, {}, {}, NVZ),
     Entry("FTSTImmediateShiftScalar", i, b, a, {a, b}, {}, {}, NVZ),
     Entry("FTSTImmediateShiftScalar", Short(k), b, a, {a, b}, {}, {}, NVZ),
     ByShift("FTSTScalarShiftRightImmediate", "FTSTScalarShiftLeftImmediate", a, k, b, {a, b}, {}, {}, NVZ),
     Entry("FTSTScalarShiftScalar", a, b, c, {a, b, c}, {}, {}, NVZ),
     Entry("FTSTScalarRotateScalar", a, b, c, {a, b, c}, {}, {}, NVZ)}
ALU32_or(a, b, c, k, i) ==
    {Entry("ORScalar", a, b, c, {a, b}, {c}, {}, NVZ),
     Entry("ORImmediate", Short(k), b, c, {b, c}, {c}, {}, NVZ),
     Entry("ORImmediate", i, b, c, {b, c}, {c}, {}, NVZ),
     Entry("ORImmediate", Turn(Short(a), k), b, b, {b}, {b}, {}, NVZ),
     Entry("ORImmediateShiftScalar", i, b, a, {a, b}, {a}, {}, NVZ),
     Entry("ORImmediateShiftScalar", Short(k), b, a, {a, b}, {a}, {}, NVZ),
     ByShift("ORScalarShiftRightImmediate", "ORScalarShiftLeftImmediate", a, k, b, {a, b}, {b}, {}, NVZ),
     Entry("ORScalarShiftScalar", a, b, c, {a, b, c}, {c}, {}, NVZ),
     Entry("ORScalarRotateScalar", a, b, c, {a, b, c}, {c}, {}, NVZ)}
ALU32_eor(a, b, c, k, i) ==
    {Entry("EORScalar", a, b, c, {a, b}, {c}, {}, NVZ),
     Entry("EORImmediate", Short(k), b, c, {b, c}, {c}, {}, NVZ),
     Entry("EORImmediate", i, b, c, {b, c}, {c}, {}, NVZ),
     Entry("EORImmediate", Turn(Short(a), k), b, b, {b}, {b}, {}, NVZ),
     Entry("EORImmediateShiftScalar", i, b, a, {a, b}, {a}, {}, NVZ),
     Entry("EORImmediateShiftScalar", Short(k), b, a, {a, b}, {a}, {}, NVZ),
     ByShift("EORScalarShiftRightImmediate", "EORScalarShiftLeftImmediate", a, k, b, {a, b}, {b}, {}, NVZ),
     Entry("EORScalarShiftScalar", a, b, c, {a, b, c}, {c}, {}, NVZ),
     Entry("EORScalarRotateScalar", a, b, c, {a, b, c}, {c}, {}, NVZ)}

ALU32_shift(a, b, c, k) ==
    {Entry("AS", b, a, c, {a, b}, {c}, {}, NVCZ),
     Entry("ASL", (W - k) % W, a, b, {a}, {b}, {}, NVCZ),
     Entry("ASR", k, a, b, {a}, {b}, {}, NVCZ),
     Entry("LS", b, a, c, {a, b}, {c}, {}, NVCZ),
     Entry("LSR", k, a, b, {a}, {b}, {}, NVCZ),
     Entry("ROT", b, a, c, {a, b}, {c}, {}, NVZ),
     IF k >= Half THEN Entry("ROL", W - k, a, b, {a, b}, {b}, {}, NVZ)
                  ELSE Entry("ROR", k, a, b, {a, b}, {b}, {}, NVZ)}
\* bits keeps the field its mask was made of: the printer shows it.
ALU32_bits(a, b, c, k) ==
    {[Entry("BITSScalar", Mask(k), b, a, {a, b}, {a}, {}, NZ) EXCEPT !.info = k],
     [Entry("BITSImmediate", Mask(k), b, a, {a}, {a}, {}, NZ) EXCEPT !.info = k],
     Entry("SAT", a, k, b, {a}, {b}, {}, NZ)}
    \cup IF c + 1 \in Scalars
         THEN {Entry("BUTT", a, b, c, {a, b}, BUTTERFLY_REG_DEPENDENCY_MASK(c), {}, NVCZ)} ELSE {}
ALU32_msb(a, b) == {Entry("MSB", b, 0, a, {b}, {a}, {}, NZ)}

\* The three with carry read the carry flag.
ALU32_addwc(a, b, c, k, i) ==
    {Entry("ADDWCScalar", a, b, c, {a, b}, {c}, {"C"}, NVCZ),
     Entry("ADDWCImmediate", i, b, c, {b}, {c}, {"C"}, NVCZ),
     Entry("ADDWCImmediate", i, b, b, {b}, {b}, {"C"}, NVCZ),
     Entry("ADDWCImmediate", ToHigh(a, k), b, b, {b}, {b}, {"C"}, NVCZ),
     ByShift("ADDWCScalarShiftRightImmediate", "ADDWCScalarShiftLeftImmediate", a, k, b, {a, b}, {b}, {"C"}, NVCZ)}
ALU32_subwc(a, b, c, k, i) ==
    {Entry("SUBWCScalar", a, b, c, {a, b}, {c}, {"C"}, NVCZ),
     Entry("SUBWCImmediate", i, b, c, {b}, {c}, {"C"}, NVCZ),
     Entry("SUBWCImmediate", i, b, b, {b}, {b}, {"C"}, NVCZ),
     Entry("SUBWCImmediate", ToHigh(a, k), b, b, {b}, {b}, {"C"}, NVCZ),
     Entry("SUBWCImmediateReverse", a, i, c, {a}, {c}, {"C"}, NVCZ),
     ByShift("SUBWCScalarShiftRightImmediate", "SUBWCScalarShiftLeftImmediate", a, k, b, {a, b}, {b}, {"C"}, NVCZ)}
ALU32_cmpwc(a, b, k, i) ==
    {Entry("CMPWCScalar", a, b, 0, {a, b}, {}, {"C"}, NVCZ),
     Entry("CMPWCImmediate", i, b, 0, {b}, {}, {"C"}, NVCZ),
     Entry("CMPWCImmediate", ToHigh(a, k), b, 0, {b}, {}, {"C"}, NVCZ),
     Entry("CMPWCImmediateReverse", a, i, 0, {a}, {}, {"C"}, NVCZ),
     ByShift("CMPWCScalarShiftRightImmediate", "CMPWCScalarShiftLeftImmediate", a, k, b, {a, b}, {}, {"C"}, NVCZ)}

DecodeInstruction_ALU16(a, c, k, i) == ALU16_Low(a, c, k, i) \cup ALU16_High(a, c, k, i)
DecodeInstruction_ALU32(a, b, c, k, i) ==
    UNION {ALU32_add(a, b, c, k, i), ALU32_sub(a, b, c, k, i), ALU32_cmp(a, b, k, i),
           ALU32_and(a, b, c, k, i), ALU32_ftst(a, b, c, k, i), ALU32_or(a, b, c, k, i),
           ALU32_eor(a, b, c, k, i), ALU32_shift(a, b, c, k), ALU32_bits(a, b, c, k), ALU32_msb(a, b),
           ALU32_addwc(a, b, c, k, i), ALU32_subwc(a, b, c, k, i), ALU32_cmpwc(a, b, k, i)}
=============================================================================
