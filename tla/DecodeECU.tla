----------------------------- MODULE DecodeECU -----------------------------
(***************************************************************************)
(* What the decoder makes of the instruction words of the branches and of  *)
(* the register control unit.  Of a branch, t is the target, s the scalar  *)
(* register that holds it, cc the condition, nop whether the form has no   *)
(* delay slots; next and route are the addresses after the delay slots and *)
(* after the packet.  Of the register control unit, dec is the two-bit     *)
(* field of the counters to count down, d the index register, s the scalar *)
(* register, i an immediate.                                               *)
(***************************************************************************)
EXTENDS Nuance

\* The flags a condition depends on.
flagDependencies(cc) ==
    CASE cc \in {"NE", "EQ"} -> {"Z"}
      [] cc \in {"C0EQ", "C0NE"} -> {"C0Z"}
      [] cc \in {"C1EQ", "C1NE"} -> {"C1Z"}
      [] cc \in {"CC", "CS"} -> {"C"}
      [] cc \in {"VC", "VS"} -> {"V"}
      [] cc \in {"LT", "GE"} -> {"N", "V"}
      [] cc \in {"MVC", "MVS"} -> {"MV"}
      [] cc \in {"HI", "LS"} -> {"C", "Z"}
      [] cc \in {"LE", "GT"} -> NVZ
      [] cc \in {"PL", "MI"} -> {"N"}
      [] cc \in {"MODMI", "MODPL"} -> {"MODMI"}
      [] cc \in {"MODGE", "MODLT"} -> {"MODGE"}
      [] cc \in {"CF0LO", "CF0HI"} -> {"CP0"}
      [] cc \in {"CF1LO", "CF1HI"} -> {"CP1"}
      [] cc \in Never \cup {"T"} -> {}

LOCAL Branch(h, target, cc, next, route, si, mi, mo) ==
    [unit |-> "ECU", h |-> h, src1 |-> target, src2 |-> cc, dest |-> next, info |-> route,
     si |-> si, so |-> {}, mi |-> flagDependencies(cc) \cup mi, mo |-> mo]
\* The handler of a form: with delay slots or not, conditional or not.
Form(always, always_NOP, conditional, conditional_NOP, cc, nop) ==
    IF cc = "T" THEN IF nop THEN always_NOP ELSE always ELSE IF nop THEN conditional_NOP ELSE conditional
BRA(cc, nop) == Form("BRAAlways", "BRAAlways_NOP", "BRAConditional", "BRAConditional_NOP", cc, nop)
RTS(cc, nop) == Form("RTSAlways", "RTSAlways_NOP", "RTSConditional", "RTSConditional_NOP", cc, nop)
JSR(cc, nop) == Form("JSRAlways", "JSRAlways_NOP", "JSRConditional", "JSRConditional_NOP", cc, nop)
JMPIndirect(cc, nop) ==
    Form("JMPAlwaysIndirect", "JMPAlwaysIndirect_NOP", "JMPConditionalIndirect", "JMPConditionalIndirect_NOP", cc, nop)
JSRIndirect(cc, nop) ==
    Form("JSRAlwaysIndirect", "JSRAlwaysIndirect_NOP", "JSRConditionalIndirect", "JSRConditionalIndirect_NOP", cc, nop)

\* The short conditional branch has every fourth condition only; with its
\* extension it has all of them.
DecodeInstruction_ECU16(t, cc, nop, next, route) ==
    (IF ~nop /\ \E k \in 0..7 : cc = Conditions[4 * k + 1] THEN {Branch(BRA(cc, FALSE), t, cc, next, route, {}, {}, {})} ELSE {})
    \cup {Branch(BRA(cc, nop), t, cc, next, route, {}, {}, {}),
          Branch("BRAAlways", t, "T", next, route, {}, {}, {}),
          Branch(RTS(cc, nop), 0, cc, next, route, {}, {"RZ"}, {}),
          Branch(IF nop THEN "RTI1Conditional_NOP" ELSE "RTI1Conditional", 0, cc, next, route, {}, {"RZI1"}, {}),
          Branch(IF nop THEN "RTI2Conditional_NOP" ELSE "RTI2Conditional", 0, cc, next, route, {}, {"RZI2"}, {})}
DecodeInstruction_ECU32(t, s, cc, nop, next, route) ==
    {Branch(BRA(cc, nop), t, cc, next, route, {}, {}, {}),
     Branch(JSR(cc, nop), t, cc, next, route, {}, {}, {"RZ"}),
     Branch(JMPIndirect(cc, nop), s, cc, next, route, {s}, {}, {}),
     Branch(JSRIndirect(cc, nop), s, cc, next, route, {s}, {}, {"RZ"})}

-----------------------------------------------------------------------------
(* The register control unit: DecodeRCU.cpp                                *)

INDEX_REG_DEPENDENCY_MASK(d) == {<<"RX", "RY", "RU", "RV">>[d + 1]}
Counters(dec) ==
    (IF dec \in {1, 3} THEN {"RC1", "C1Z"} ELSE {}) \cup (IF dec \in {2, 3} THEN {"RC0", "C0Z"} ELSE {})
LOCAL Rcu(only, h, src, d, dec, si, mi, mo) ==
    [unit |-> "RCU", h |-> IF dec = 0 THEN only ELSE h, src1 |-> src, src2 |-> 0, dest |-> d, info |-> dec,
     si |-> si, so |-> {}, mi |-> mi \cup Counters(dec), mo |-> mo \cup Counters(dec)]

DecodeInstruction_RCU16(s, d, dec, i) ==
    LET index == INDEX_REG_DEPENDENCY_MASK(d)
        range == {IF d \in {0, 1} THEN "XYRANGE" ELSE "UVRANGE"}
        integer == Wrap((IF s < Half THEN s ELSE s - W) * Pow[Half])
    IN {Rcu("ADDRImmediateOnly", "ADDRImmediate", i, d, dec, {}, index, index),
        Rcu("ADDRImmediateOnly", "ADDRImmediate", integer, d, dec, {}, index, index),
        Rcu("ADDRScalarOnly", "ADDRScalar", s, d, dec, {s}, index, index),
        Rcu("MVRImmediateOnly", "MVRImmediate", i, d, dec, {}, {}, index),
        Rcu("MVRScalarOnly", "MVRScalar", s, d, dec, {s}, {}, index),
        Rcu("RangeOnly", "Range", d, d, dec, {}, index \cup range, {"MODMI", "MODGE"}),
        Rcu("ModuloOnly", "Modulo", d, d, dec, {}, index \cup range, {"MODMI", "MODGE"} \cup index)}
       \cup (IF dec = 0 THEN {}
             ELSE {Rcu("", <<"DECRc1", "DECRc0", "DECBoth">>[dec], 0, 0, dec, {}, {}, {})})
=============================================================================
