----------------------- MODULE PropagateConstants_MUL -----------------------
(***************************************************************************)
(* Constant propagation over the multiplier.  The scalar multiplications   *)
(* are folded; of the vector ones only the operands become immediates.     *)
(***************************************************************************)
EXTENDS PropagateConstants

LOCAL Is(c, r) == IsScalarRegisterConstant(c, r)
LOCAL Any(c) == Lost(c, {}, {c.n.dest})
LOCAL First(c, h, Then(_), Else(_)) ==
    LET n == c.n
    IN IF Is(c, n.src1) THEN Then(Becomes(c, h, S(c, n.src1), n.src2, {n.src1}, {n.src2})) ELSE Else(c)
LOCAL Swapped(c, h, Of(_), Then(_), Else(_)) ==
    LET n == c.n
    IN IF Is(c, n.src2) THEN Then(Becomes(c, h, Of(S(c, n.src2)), n.src1, {n.src2}, {n.src1})) ELSE Else(c)

PropagateConstants_ADDMImmediate(c) ==
    IF Is(c, c.n.src2) THEN Fold(c, Wrap(c.n.src1 + S(c, c.n.src2)), {}, {}, {c.n.src2}) ELSE Any(c)
PropagateConstants_ADDM(c) ==
    First(c, "ADDMImmediate", PropagateConstants_ADDMImmediate,
          LAMBDA d : Swapped(d, "ADDMImmediate", LAMBDA v : v, PropagateConstants_ADDMImmediate, Any))
PropagateConstants_SUBMImmediateReverse(c) ==
    IF Is(c, c.n.src2) THEN Fold(c, Wrap(c.n.src1 - S(c, c.n.src2)), {}, {}, {c.n.src2}) ELSE Any(c)
PropagateConstants_SUBM(c) ==
    IF c.n.src1 = c.n.src2 THEN Fold(c, 0, {}, {}, {c.n.src1})
    ELSE First(c, "SUBMImmediateReverse", PropagateConstants_SUBMImmediateReverse,
               LAMBDA d : Swapped(d, "ADDMImmediate", Neg, Any, Any))

\* A product of two words, its shift, and whether one word holds it.
LOCAL Lose(c) == Lost(c, {"MV"}, {c.n.dest})
LOCAL Multiplied(c, Shift(_, _)) ==
    LET n == c.n
        r == Shift(Pair(Signed(n.src1) * Signed(S(c, n.src2))), n.info % (2 * W))
        overflow == r[1] # (IF Negative(r[2]) THEN Ones ELSE 0)
    IN IF Is(c, n.src2) THEN Fold(c, r[2], {"MV"}, IF overflow THEN {"MV"} ELSE {}, {n.src2}) ELSE Lose(c)
PropagateConstants_MULImmediateShiftRightImmediate(c) == Multiplied(c, SarPair)
PropagateConstants_MULImmediateShiftLeftImmediate(c) == Multiplied(c, ShlPair)
PropagateConstants_MULScalarShiftRightImmediate(c) ==
    First(c, "MULImmediateShiftRightImmediate", PropagateConstants_MULImmediateShiftRightImmediate, Lose)
PropagateConstants_MULScalarShiftLeftImmediate(c) ==
    First(c, "MULImmediateShiftLeftImmediate", PropagateConstants_MULImmediateShiftLeftImmediate, Lose)

\* The count of seven bits in a register, as an immediate in info.
LOCAL Count(c, k) == [c EXCEPT !.n.info = k]
LOCAL ImmediateByCount(c, v) ==
    LET k == v % (4 * W)
    IN IF k >= 2 * W
       THEN PropagateConstants_MULImmediateShiftLeftImmediate(
                [Count(c, 4 * W - k) EXCEPT !.n.h = "MULImmediateShiftLeftImmediate"])
       ELSE PropagateConstants_MULImmediateShiftRightImmediate(
                [Count(c, k) EXCEPT !.n.h = "MULImmediateShiftRightImmediate"])
LOCAL Unread(c, x) == [c EXCEPT !.n.mi = @ \ {x}]
PropagateConstants_MULImmediateShiftAcshift(c) ==
    IF IsMiscRegisterConstant(c, "ACSHIFT") THEN ImmediateByCount(Unread(c, "ACSHIFT"), Mc(c, "ACSHIFT")) ELSE Lose(c)
PropagateConstants_MULScalarShiftAcshift(c) ==
    LET k == Signed(Mc(c, "ACSHIFT"))
        d == Unread(c, "ACSHIFT")
    IN IF IsMiscRegisterConstant(c, "ACSHIFT")
       THEN IF k >= 0
            THEN PropagateConstants_MULScalarShiftRightImmediate(
                     [Count(d, k) EXCEPT !.n.h = "MULScalarShiftRightImmediate"])
            ELSE PropagateConstants_MULScalarShiftLeftImmediate(
                     [Count(d, -k) EXCEPT !.n.h = "MULScalarShiftLeftImmediate"])
       ELSE First(c, "MULImmediateShiftAcshift", PropagateConstants_MULImmediateShiftAcshift,
                  LAMBDA e : Swapped(e, "MULImmediateShiftAcshift", LAMBDA v : v,
                                     PropagateConstants_MULImmediateShiftAcshift, Lose))
PropagateConstants_MULImmediateShiftScalar(c) ==
    LET n == c.n
    IN IF Is(c, n.info)
       THEN ImmediateByCount([c EXCEPT !.n.si = (@ \ {n.info}) \cup {n.src2}], S(c, n.info)) ELSE Lose(c)
PropagateConstants_MULScalarShiftScalar(c) ==
    First(c, "MULImmediateShiftScalar", PropagateConstants_MULImmediateShiftScalar, Lose)

\* Vectors of four lanes and of three.  svshift is known: its table index becomes
\* the immediate count.
LOCAL Four(c) == Lost(c, {}, VECTOR_REG_DEPENDENCY_MASK(c.n.dest))
LOCAL Three(c) == Lost(c, {}, PIXEL_REG_DEPENDENCY_MASK(c.n.dest))
LOCAL Svshift(c, h, Then(_), Else(_)) ==
    IF IsMiscRegisterConstant(c, "SVSHIFT")
    THEN Then([Count(Unread(c, "SVSHIFT"), Mc(c, "SVSHIFT")) EXCEPT !.n.h = h]) ELSE Else(c)
LOCAL ScalarTimes(c, h, lanes, Then(_)) ==
    LET n == c.n
    IN IF Is(c, n.src1) THEN Then(Becomes(c, h, S(c, n.src1), n.src2, {n.src1}, lanes)) ELSE Then(c)

PropagateConstants_MUL_SVImmediateShiftImmediate(c) == Four(c)
PropagateConstants_MUL_SVScalarShiftImmediate(c) ==
    ScalarTimes(c, "MUL_SVImmediateShiftImmediate", VECTOR_REG_DEPENDENCY_MASK(c.n.src2),
                PropagateConstants_MUL_SVImmediateShiftImmediate)
PropagateConstants_MUL_SVScalarShiftSvshift(c) ==
    Svshift(c, "MUL_SVScalarShiftImmediate", PropagateConstants_MUL_SVScalarShiftImmediate, Four)
PropagateConstants_MUL_SVRuShiftImmediate(c) == Four(c)
PropagateConstants_MUL_SVRuShiftSvshift(c) == Svshift(c, "MUL_SVRuShiftImmediate", Four, Four)
PropagateConstants_MUL_SVRvShiftImmediate(c) == Four(c)
PropagateConstants_MUL_SVRvShiftSvshift(c) == Svshift(c, "MUL_SVRvShiftImmediate", Four, Four)
PropagateConstants_MUL_SVVectorShiftImmediate(c) == Four(c)
PropagateConstants_MUL_SVVectorShiftSvshift(c) == Svshift(c, "MUL_SVVectorShiftImmediate", Four, Four)
PropagateConstants_MUL_PImmediateShiftImmediate(c) == Three(c)
PropagateConstants_MUL_PScalarShiftImmediate(c) ==
    ScalarTimes(c, "MUL_PImmediateShiftImmediate", PIXEL_REG_DEPENDENCY_MASK(c.n.src2),
                PropagateConstants_MUL_PImmediateShiftImmediate)
PropagateConstants_MUL_PScalarShiftSvshift(c) ==
    Svshift(c, "MUL_PScalarShiftImmediate", PropagateConstants_MUL_PScalarShiftImmediate, Three)
PropagateConstants_MUL_PRuShiftImmediate(c) == Three(c)
PropagateConstants_MUL_PRuShiftSvshift(c) == Svshift(c, "MUL_PRuShiftImmediate", Three, Three)
PropagateConstants_MUL_PRvShiftImmediate(c) == Three(c)
PropagateConstants_MUL_PRvShiftSvshift(c) == Svshift(c, "MUL_PRvShiftImmediate", Three, Three)
PropagateConstants_MUL_PVectorShiftImmediate(c) == Three(c)
PropagateConstants_MUL_PVectorShiftSvshift(c) == Svshift(c, "MUL_PVectorShiftImmediate", Three, Three)
PropagateConstants_DOTPScalarShiftImmediate(c) == Any(c)
PropagateConstants_DOTPScalarShiftSvshift(c) == Svshift(c, "DOTPScalarShiftImmediate", Any, Any)
PropagateConstants_DOTPVectorShiftImmediate(c) == Any(c)
PropagateConstants_DOTPVectorShiftSvshift(c) == Svshift(c, "DOTPVectorShiftImmediate", Any, Any)
=============================================================================
