----------------------------- MODULE ExecuteECU -----------------------------
(***************************************************************************)
(* The interpreter's handlers of the branches.  The fields of a branch are *)
(* its target or the register that holds it (src1, the source's ADDRESS),  *)
(* its condition (src2), and the addresses of the packet after the next    *)
(* two (dest, the source's PCFETCHNEXT) and of the next (info, PCROUTE).   *)
(* A branch does nothing in the delay slots of another one, while          *)
(* ecuSkipCounter is not zero.                                             *)
(***************************************************************************)
EXTENDS Nuance

LOCAL Flag(cc, f) == And(cc, FlagBit[f]) # 0
Less(cc) == Flag(cc, "N") # Flag(cc, "V")

TestConditionCode(cc, condition) ==
    CASE condition = "NE" -> ~Flag(cc, "Z")
      [] condition = "C0EQ" -> Flag(cc, "C0Z")
      [] condition = "C1EQ" -> Flag(cc, "C1Z")
      [] condition = "CC" -> ~Flag(cc, "C")
      [] condition = "EQ" -> Flag(cc, "Z")
      [] condition = "CS" -> Flag(cc, "C")
      [] condition = "VC" -> ~Flag(cc, "V")
      [] condition = "VS" -> Flag(cc, "V")
      [] condition = "LT" -> Less(cc)
      [] condition = "MVC" -> ~Flag(cc, "MV")
      [] condition = "MVS" -> Flag(cc, "MV")
      [] condition = "HI" -> ~Flag(cc, "C") /\ ~Flag(cc, "Z")
      [] condition = "LE" -> Flag(cc, "Z") \/ Less(cc)
      [] condition = "LS" -> Flag(cc, "C") \/ Flag(cc, "Z")
      [] condition = "PL" -> ~Flag(cc, "N")
      [] condition = "MI" -> Flag(cc, "N")
      [] condition = "GT" -> ~Flag(cc, "Z") /\ ~Less(cc)
      [] condition = "T" -> TRUE
      [] condition = "MODMI" -> Flag(cc, "MODMI")
      [] condition = "MODPL" -> ~Flag(cc, "MODMI")
      [] condition = "GE" -> ~Less(cc)
      [] condition = "MODGE" -> Flag(cc, "MODGE")
      [] condition = "MODLT" -> ~Flag(cc, "MODGE")
      [] condition = "C0NE" -> ~Flag(cc, "C0Z")
      [] condition = "CF0LO" -> ~Flag(cc, "CP0")
      [] condition = "C1NE" -> ~Flag(cc, "C1Z")
      [] condition = "CF0HI" -> Flag(cc, "CP0")
      [] condition = "CF1LO" -> ~Flag(cc, "CP1")
      [] condition = "CF1HI" -> Flag(cc, "CP1")
      [] condition \in Never -> FALSE

\* A branch taken to t; slots is the number of packets until it has its effect.
Taken(m, t, slots) == [m EXCEPT ![pcfetchnext] = t, ![ecuSkipCounter] = slots]
Called(m, t, slots, from) == [Taken(m, t, slots) EXCEPT ![RZ] = from]
Returned(m, t, slots, bit) == [Taken(m, t, slots) EXCEPT ![intctl] = And(@, Not(Pow[bit]))]
Enabled(m, c, then) == IF m[ecuSkipCounter] = 0 /\ c THEN then ELSE m
Always(m, then) == Enabled(m, TRUE, then)
ExecuteIf(m, p, n, then) == Enabled(m, TestConditionCode(p[CC], n.src2), then)

Execute_ECU_NOP(m, p, n) == m
Execute_BRAAlways(m, p, n) == Always(m, Taken(m, n.src1, 3))
Execute_BRAAlways_NOP(m, p, n) == Always(m, Taken(m, n.src1, 1))
Execute_BRAConditional(m, p, n) == ExecuteIf(m, p, n, Taken(m, n.src1, 3))
Execute_BRAConditional_NOP(m, p, n) == ExecuteIf(m, p, n, Taken(m, n.src1, 1))
Execute_JMPAlwaysIndirect(m, p, n) == Always(m, Taken(m, p[n.src1], 3))
Execute_JMPAlwaysIndirect_NOP(m, p, n) == Always(m, Taken(m, p[n.src1], 1))
Execute_JMPConditionalIndirect(m, p, n) == ExecuteIf(m, p, n, Taken(m, p[n.src1], 3))
Execute_JMPConditionalIndirect_NOP(m, p, n) == ExecuteIf(m, p, n, Taken(m, p[n.src1], 1))
Execute_JSRAlways(m, p, n) == Always(m, Called(m, n.src1, 3, n.dest))
Execute_JSRAlways_NOP(m, p, n) == Always(m, Called(m, n.src1, 1, n.info))
Execute_JSRConditional(m, p, n) == ExecuteIf(m, p, n, Called(m, n.src1, 3, n.dest))
Execute_JSRConditional_NOP(m, p, n) == ExecuteIf(m, p, n, Called(m, n.src1, 1, n.info))
Execute_JSRAlwaysIndirect(m, p, n) == Always(m, Called(m, p[n.src1], 3, n.dest))
Execute_JSRAlwaysIndirect_NOP(m, p, n) == Always(m, Called(m, p[n.src1], 1, n.info))
Execute_JSRConditionalIndirect(m, p, n) == ExecuteIf(m, p, n, Called(m, p[n.src1], 3, n.dest))
Execute_JSRConditionalIndirect_NOP(m, p, n) == ExecuteIf(m, p, n, Called(m, p[n.src1], 1, n.info))
Execute_RTSAlways(m, p, n) == Always(m, Taken(m, p[RZ], 3))
Execute_RTSAlways_NOP(m, p, n) == Always(m, Taken(m, p[RZ], 1))
Execute_RTSConditional(m, p, n) == ExecuteIf(m, p, n, Taken(m, p[RZ], 3))
Execute_RTSConditional_NOP(m, p, n) == ExecuteIf(m, p, n, Taken(m, p[RZ], 1))
Execute_RTI1Conditional(m, p, n) == ExecuteIf(m, p, n, Returned(m, p[RZI1], 3, 1))
Execute_RTI1Conditional_NOP(m, p, n) == ExecuteIf(m, p, n, Returned(m, p[RZI1], 1, 1))
Execute_RTI2Conditional(m, p, n) == ExecuteIf(m, p, n, Returned(m, p[RZI2], 3, 5))
Execute_RTI2Conditional_NOP(m, p, n) == ExecuteIf(m, p, n, Returned(m, p[RZI2], 1, 5))

\* What constant propagation makes of an instruction (ExecuteMisc.cpp): a store of
\* a constant, and of the flags it was computed with.
LOCAL ConstantFlags(m, n) == [m EXCEPT ![CC] = IF n.flagmask = 0 THEN @ ELSE CCWith(@, n.flagmask, n.flagvalues)]
Execute_StoreScalarRegisterConstant(m, p, n) == ConstantFlags([m EXCEPT ![n.address] = n.value], n)
Execute_StoreMiscRegisterConstant(m, p, n) ==
    ConstantFlags(IF n.address = "discard" THEN m ELSE [m EXCEPT ![MiscName[n.address]] = n.value], n)
=============================================================================
