----------------------------- MODULE ExecuteMUL -----------------------------
(***************************************************************************)
(* The interpreter's handlers of the multiplier.  A product has two words, *)
(* <<high, low>>; the scalar multiplications shift it, keep the low word   *)
(* and set MV when the high word is not its sign extension.  The vector    *)
(* ones multiply the upper halves of the lanes and shift to the left by    *)
(* one of four counts.                                                     *)
(***************************************************************************)
EXTENDS Nuance

\* shiftTable, indexed by a two-bit field or by svshift.
shiftTable == <<Half, Half \div 2, 0, Half \div 8>>
ShiftOf(k) == shiftTable[1 + (k % 4)]
Svshift(p) == ShiftOf(p[SVSHIFT])

\* The upper half of a word, as a signed number; the fraction of ru and rv
\* below the mipmap level in uvctl.
Upper(w) == Sar(w, Half)
BilinearInfo_XYMipmap(uvctl) == Shr(uvctl, 3 * (W \div 4)) % 8
FractionOf(p, c) == And(Sar(p[c], 2 + BilinearInfo_XYMipmap(p[UVCTL])), Pow[Half - 2] - 1)

Product(a, b) == Pair(Signed(a) * Signed(b))
Times(a, b) == Wrap(Signed(a) * Signed(b))

Execute_ADDM(m, p, n) == [m EXCEPT ![n.dest] = Wrap(p[n.src1] + p[n.src2])]
Execute_ADDMImmediate(m, p, n) == [m EXCEPT ![n.dest] = Wrap(n.src1 + p[n.src2])]
Execute_SUBM(m, p, n) == [m EXCEPT ![n.dest] = Wrap(p[n.src1] - p[n.src2])]
Execute_SUBMImmediateReverse(m, p, n) == [m EXCEPT ![n.dest] = Wrap(n.src1 - p[n.src2])]

\* Scalar multiplications.  A shift register has seven bits, and its bit 6
\* means a shift to the left; the shift of a double word by its width, which
\* C++ leaves undefined, does nothing on the hosts of the compiled code.
Keep(m, n, r) ==
    LET overflow == r[1] # Sar(r[2], W - 1)
    IN [m EXCEPT ![n.dest] = r[2],
                 ![CC] = CCWith(@, CC_MUL_OVERFLOW, IF overflow THEN CC_MUL_OVERFLOW ELSE 0)]
ShiftPair(r, reg) ==
    LET c == reg % (4 * W)
    IN IF c >= 2 * W THEN ShlPair(r, (4 * W - c) % (2 * W)) ELSE SarPair(r, c)

Execute_MULScalarShiftAcshift(m, p, n) == Keep(m, n, ShiftPair(Product(p[n.src1], p[n.src2]), p[ACSHIFT]))
Execute_MULScalarShiftRightImmediate(m, p, n) == Keep(m, n, SarPair(Product(p[n.src1], p[n.src2]), n.info))
Execute_MULScalarShiftLeftImmediate(m, p, n) ==
    Keep(m, n, ShlPair(Product(p[n.src1], p[n.src2]), n.info % (2 * W)))
Execute_MULImmediateShiftAcshift(m, p, n) == Keep(m, n, ShiftPair(Product(n.src1, p[n.src2]), p[ACSHIFT]))
Execute_MULScalarShiftScalar(m, p, n) == Keep(m, n, ShiftPair(Product(p[n.src1], p[n.src2]), p[n.info]))
Execute_MULImmediateShiftScalar(m, p, n) == Keep(m, n, ShiftPair(Product(n.src1, p[n.src2]), p[n.info]))
Execute_MULImmediateShiftRightImmediate(m, p, n) == Keep(m, n, SarPair(Product(n.src1, p[n.src2]), n.info))
Execute_MULImmediateShiftLeftImmediate(m, p, n) ==
    Keep(m, n, ShlPair(Product(n.src1, p[n.src2]), n.info % (2 * W)))

\* Vectors of four lanes, and of three: each lane times s.
EachLane(m, n, last, Lane(_)) ==
    [c \in Cells |-> IF c \in n.dest .. n.dest + last THEN Lane(c - n.dest) ELSE m[c]]
Scaled(m, p, n, last, s, shift) ==
    EachLane(m, n, last, LAMBDA i : Shl(Times(s, Upper(p[n.src2 + i])), shift))
LaneProduct(p, n, i) == Times(Upper(p[n.src1 + i]), Upper(p[n.src2 + i]))
Pairwise(m, p, n, last, shift) == EachLane(m, n, last, LAMBDA i : Shl(LaneProduct(p, n, i), shift))

Execute_MUL_SVImmediateShiftImmediate(m, p, n) == Scaled(m, p, n, 3, Upper(n.src1), ShiftOf(n.info))
Execute_MUL_SVScalarShiftImmediate(m, p, n) == Scaled(m, p, n, 3, Upper(p[n.src1]), ShiftOf(n.info))
Execute_MUL_SVScalarShiftSvshift(m, p, n) == Scaled(m, p, n, 3, Upper(p[n.src1]), Svshift(p))
Execute_MUL_SVRuShiftImmediate(m, p, n) == Scaled(m, p, n, 3, FractionOf(p, RU), ShiftOf(n.info))
Execute_MUL_SVRuShiftSvshift(m, p, n) == Scaled(m, p, n, 3, FractionOf(p, RU), Svshift(p))
Execute_MUL_SVRvShiftImmediate(m, p, n) == Scaled(m, p, n, 3, FractionOf(p, RV), ShiftOf(n.info))
Execute_MUL_SVRvShiftSvshift(m, p, n) == Scaled(m, p, n, 3, FractionOf(p, RV), Svshift(p))
Execute_MUL_SVVectorShiftImmediate(m, p, n) == Pairwise(m, p, n, 3, ShiftOf(n.info))
Execute_MUL_SVVectorShiftSvshift(m, p, n) == Pairwise(m, p, n, 3, Svshift(p))
Execute_MUL_PImmediateShiftImmediate(m, p, n) == Scaled(m, p, n, 2, Upper(n.src1), ShiftOf(n.info))
Execute_MUL_PScalarShiftImmediate(m, p, n) == Scaled(m, p, n, 2, Upper(p[n.src1]), ShiftOf(n.info))
Execute_MUL_PScalarShiftSvshift(m, p, n) == Scaled(m, p, n, 2, Upper(p[n.src1]), Svshift(p))
Execute_MUL_PRuShiftImmediate(m, p, n) == Scaled(m, p, n, 2, FractionOf(p, RU), ShiftOf(n.info))
Execute_MUL_PRuShiftSvshift(m, p, n) == Scaled(m, p, n, 2, FractionOf(p, RU), Svshift(p))
Execute_MUL_PRvShiftImmediate(m, p, n) == Scaled(m, p, n, 2, FractionOf(p, RV), ShiftOf(n.info))
Execute_MUL_PRvShiftSvshift(m, p, n) == Scaled(m, p, n, 2, FractionOf(p, RV), Svshift(p))
Execute_MUL_PVectorShiftImmediate(m, p, n) == Pairwise(m, p, n, 2, ShiftOf(n.info))
Execute_MUL_PVectorShiftSvshift(m, p, n) == Pairwise(m, p, n, 2, Svshift(p))

\* Dot products: the sum of the four lanes.
DotScalar(p, n) ==
    LET s == Upper(p[n.src1])
        Lane(i) == Times(s, Upper(p[n.src2 + i]))
    IN Wrap(Lane(0) + Lane(1) + Lane(2) + Lane(3))
DotVector(p, n) == Wrap(LaneProduct(p, n, 0) + LaneProduct(p, n, 1) + LaneProduct(p, n, 2) + LaneProduct(p, n, 3))
Execute_DOTPScalarShiftImmediate(m, p, n) == [m EXCEPT ![n.dest] = Shl(DotScalar(p, n), ShiftOf(n.info))]
Execute_DOTPScalarShiftSvshift(m, p, n) == [m EXCEPT ![n.dest] = Shl(DotScalar(p, n), Svshift(p))]
Execute_DOTPVectorShiftImmediate(m, p, n) == [m EXCEPT ![n.dest] = Shl(DotVector(p, n), ShiftOf(n.info))]
Execute_DOTPVectorShiftSvshift(m, p, n) == [m EXCEPT ![n.dest] = Shl(DotVector(p, n), Svshift(p))]
=============================================================================
