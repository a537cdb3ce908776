------------------------- MODULE PropagateConstants -------------------------
(***************************************************************************)
(* What constant propagation knows while it passes over a block: the       *)
(* source's SuperBlockConstants.  A record c holds the entry of the        *)
(* instruction (n), the constants that the packets before have left in the *)
(* scalar registers (s) and in the other registers and the flags (m),      *)
(* those that this packet leaves (ts and tm), and whether the entry must   *)
(* stay in its place.  Every instruction of a packet looks at s and m and  *)
(* changes ts and tm; the end of the packet commits the second to the      *)
(* first.  An instruction that only has known inputs becomes a store of a  *)
(* constant and of flags; one with some becomes an instruction that reads  *)
(* less.                                                                   *)
(***************************************************************************)
EXTENDS Nuance

Unknown == -1
NoScalars == [r \in Scalars |-> Unknown]
NoMisc == [x \in MiscNames \cup AllFlags |-> Unknown]

\* The constants of the packet before.
S(c, r) == c.s[r]
Mc(c, x) == c.m[x]
IsScalarRegisterConstant(c, r) == S(c, r) # Unknown
IsMiscRegisterConstant(c, x) == Mc(c, x) # Unknown

\* Those of this packet.
SetScalarRegisterConstant(c, r, v) == [c EXCEPT !.ts[r] = v]
SetMiscRegisterConstant(c, x, v) == [c EXCEPT !.tm[x] = v]
Lost(c, D, R) ==
    [c EXCEPT !.ts = [r \in Scalars |-> IF r \in R THEN Unknown ELSE @[r]],
              !.tm = [x \in MiscNames \cup AllFlags |-> IF x \in D THEN Unknown ELSE @[x]]]
ClearConstants(c) == [c EXCEPT !.s = NoScalars, !.m = NoMisc, !.ts = NoScalars, !.tm = NoMisc]
CommitConstants(c) == [c EXCEPT !.s = c.ts, !.m = c.tm]

\* A store of flags keeps its place in the block.
PropagateConstants_UpdateFlagConstants(c) ==
    IF c.n.flagmask = 0 THEN c
    ELSE [c EXCEPT !.locked = TRUE,
                   !.tm = [x \in MiscNames \cup AllFlags |->
                              IF x \in AllFlags /\ And(c.n.flagmask, FlagBit[x]) # 0
                              THEN IF And(c.n.flagvalues, FlagBit[x]) # 0 THEN 1 ELSE 0
                              ELSE @[x]]]
PropagateConstants_StoreScalarRegisterConstant(c) ==
    PropagateConstants_UpdateFlagConstants(SetScalarRegisterConstant(c, c.n.address, c.n.value))
PropagateConstants_StoreMiscRegisterConstant(c) ==
    PropagateConstants_UpdateFlagConstants(
        IF c.n.address = "discard" THEN c
        ELSE [SetMiscRegisterConstant(c, c.n.address, c.n.value) EXCEPT !.locked = TRUE])

\* The instruction becomes the store of a value and of the flags in mask; it no
\* longer reads the scalar registers in used.
LOCAL Store(c, h, address, v, mask, flags, used) ==
    [c EXCEPT !.n = [unit |-> "Const", h |-> h, address |-> address, value |-> v,
                     flagmask |-> FlagBits(mask), flagvalues |-> FlagBits(flags),
                     si |-> @.si \ used, so |-> @.so, mi |-> @.mi, mo |-> @.mo]]
Fold(c, v, mask, flags, used) ==
    PropagateConstants_StoreScalarRegisterConstant(
        Store(c, "StoreScalarRegisterConstant", c.n.dest, v, mask, flags, used))
FoldMisc(c, x, v, mask, flags) ==
    LET d == PropagateConstants_StoreMiscRegisterConstant(
                 Store(c, "StoreMiscRegisterConstant", x, v, mask, flags, {}))
    IN [d EXCEPT !.n.mi = @ \ {x}]
FoldFlags(c, mask, flags, used) ==
    PropagateConstants_StoreMiscRegisterConstant(
        Store(c, "StoreMiscRegisterConstant", "discard", 0, mask, flags, used))

\* The instruction becomes another one, with other operands, that does not
\* read less any more but more.
Becomes(c, h, src1, src2, less, more) ==
    [c EXCEPT !.n.h = h, !.n.src1 = src1, !.n.src2 = src2, !.n.si = (@ \ less) \cup more]

\* What is known of a condition: {TRUE}, {FALSE} or nothing.
LOCAL Known(c, f) == IsMiscRegisterConstant(c, f)
LOCAL IsSet(c, f) == Mc(c, f) # 0
LOCAL If(c, f) == IF Known(c, f) THEN {IsSet(c, f)} ELSE {}
LOCAL IfNot(c, f) == IF Known(c, f) THEN {~IsSet(c, f)} ELSE {}
LOCAL IfLess(c, b) == IF Known(c, "N") /\ Known(c, "V") THEN {(Mc(c, "N") # Mc(c, "V")) = b} ELSE {}
EvaluateBranchCondition(c, condition) ==
    CASE condition = "NE" -> IfNot(c, "Z")
      [] condition = "EQ" -> If(c, "Z")
      [] condition = "C0EQ" -> If(c, "C0Z")
      [] condition = "C0NE" -> IfNot(c, "C0Z")
      [] condition = "C1EQ" -> If(c, "C1Z")
      [] condition = "C1NE" -> IfNot(c, "C1Z")
      [] condition = "CC" -> IfNot(c, "C")
      [] condition = "CS" -> If(c, "C")
      [] condition = "VC" -> IfNot(c, "V")
      [] condition = "VS" -> If(c, "V")
      [] condition = "LT" -> IfLess(c, TRUE)
      [] condition = "GE" -> IfLess(c, FALSE)
      [] condition = "MVC" -> IfNot(c, "MV")
      [] condition = "MVS" -> If(c, "MV")
      [] condition = "HI" -> IF {TRUE} \in {If(c, "C"), If(c, "Z")} THEN {FALSE}
                             ELSE IF Known(c, "C") /\ Known(c, "Z") THEN {TRUE} ELSE {}
      [] condition = "LS" -> IF If(c, "C") = {FALSE} THEN If(c, "Z")
                             ELSE IF {TRUE} \in {If(c, "C"), If(c, "Z")} THEN {TRUE} ELSE {}
      [] condition = "LE" -> IF If(c, "Z") = {FALSE} THEN IfLess(c, TRUE) ELSE If(c, "Z")
      [] condition = "GT" -> IF If(c, "Z") = {FALSE} THEN IfLess(c, FALSE) ELSE IfNot(c, "Z")
      [] condition = "PL" -> IfNot(c, "N")
      [] condition = "MI" -> If(c, "N")
      [] condition = "MODMI" -> If(c, "MODMI")
      [] condition = "MODPL" -> IfNot(c, "MODMI")
      [] condition = "MODGE" -> If(c, "MODGE")
      [] condition = "MODLT" -> IfNot(c, "MODGE")
      [] condition = "CF0LO" -> IfNot(c, "CP0")
      [] condition = "CF0HI" -> If(c, "CP0")
      [] condition = "CF1LO" -> IfNot(c, "CP1")
      [] condition = "CF1HI" -> If(c, "CP1")
      [] condition = "T" -> {TRUE}
      [] condition \in Never -> {FALSE}
=============================================================================
