----------------------------- MODULE ExecuteRCU -----------------------------
(***************************************************************************)
(* The interpreter's handlers of the register control unit: the index      *)
(* registers rx, ry, ru and rv, and the counters rc0 and rc1, which most   *)
(* of its instructions can count down at the same time (n.info, a bit for  *)
(* each).  The counters are read and written in the live registers.        *)
(***************************************************************************)
EXTENDS Nuance

IndexCell(d) == RX + d

\* A counter stops at zero, and its flag says whether it is zero now.
CountDown(m, rc, zero) ==
    LET left == IF m[rc] = 0 THEN 0 ELSE m[rc] - 1
    IN [m EXCEPT ![rc] = left, ![CC] = CCWith(@, zero, IF left = 0 THEN zero ELSE 0)]
Execute_DECRc0(m, p, n) == CountDown(m, RC0, CC_COUNTER0_ZERO)
Execute_DECRc1(m, p, n) == CountDown(m, RC1, CC_COUNTER1_ZERO)
Execute_DECBoth(m, p, n) == Execute_DECRc1(Execute_DECRc0(m, p, n), p, n)
Counted(m, p, n) ==
    LET m0 == IF Bit(n.info, 1) = 1 THEN Execute_DECRc0(m, p, n) ELSE m
    IN IF Bit(n.info, 0) = 1 THEN Execute_DECRc1(m0, p, n) ELSE m0

Execute_ADDRImmediateOnly(m, p, n) ==
    [m EXCEPT ![IndexCell(n.dest)] = Wrap(p[IndexCell(n.dest)] + n.src1)]
Execute_ADDRImmediate(m, p, n) == Counted(Execute_ADDRImmediateOnly(m, p, n), p, n)
Execute_ADDRScalarOnly(m, p, n) ==
    [m EXCEPT ![IndexCell(n.dest)] = Wrap(p[IndexCell(n.dest)] + p[n.src1])]
Execute_ADDRScalar(m, p, n) == Counted(Execute_ADDRScalarOnly(m, p, n), p, n)
Execute_MVRImmediateOnly(m, p, n) == [m EXCEPT ![IndexCell(n.dest)] = n.src1]
Execute_MVRImmediate(m, p, n) == Counted(Execute_MVRImmediateOnly(m, p, n), p, n)
Execute_MVRScalarOnly(m, p, n) == [m EXCEPT ![IndexCell(n.dest)] = p[n.src1]]
Execute_MVRScalar(m, p, n) == Counted(Execute_MVRScalarOnly(m, p, n), p, n)

\* The range of an index register: some bits of one half of xyrange or uvrange,
\* as an integer part.  MODGE: the register has left the range, MODMI: it is
\* negative.
RangeBits == (Pow[Half - 3] - 1) * Pow[Half]
RangeOf(p, d) ==
    LET r == p[IF d \in {0, 1} THEN XYRANGE ELSE UVRANGE]
    IN And(IF d \in {0, 2} THEN r ELSE Shl(r, Half), RangeBits)
Beyond(p, d) == Signed(And(p[IndexCell(d)], HighHalf)) >= Signed(RangeOf(p, d))
Below(p, d) == ~Beyond(p, d) /\ Negative(p[IndexCell(d)])
Execute_RangeOnly(m, p, n) ==
    [m EXCEPT ![CC] = CCWith(@, CC_MODGE + CC_MODMI,
                             IF Beyond(p, n.src1) THEN CC_MODGE ELSE IF Below(p, n.src1) THEN CC_MODMI ELSE 0)]
Execute_Range(m, p, n) == Counted(Execute_RangeOnly(m, p, n), p, n)

\* The integer part brought back into the range, once.
Execute_ModuloOnly(m, p, n) ==
    LET s == p[IndexCell(n.src1)]
        moduloResult == IF Beyond(p, n.src1) THEN Wrap(s - RangeOf(p, n.src1))
                        ELSE IF Below(p, n.src1) THEN Wrap(s + RangeOf(p, n.src1)) ELSE s
    IN [Execute_RangeOnly(m, p, n) EXCEPT
           ![IndexCell(n.dest)] = (p[IndexCell(n.dest)] % Pow[Half]) + And(moduloResult, HighHalf)]
Execute_Modulo(m, p, n) == Counted(Execute_ModuloOnly(m, p, n), p, n)
=============================================================================
