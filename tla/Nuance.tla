------------------------------- MODULE Nuance -------------------------------
(***************************************************************************)
(* What the interpreter, the emitters and the superblock compiler share:   *)
(* the 48 register cells of a processor (32 scalar registers, then cc and  *)
(* the 15 registers of the address units), the flags of cc, and the        *)
(* dependency masks, which are sets of scalar register numbers and of      *)
(* names of flags and of the other registers.                              *)
(*                                                                         *)
(* A decoded instruction is a record n: its handler h and the fields src1, *)
(* src2, dest and info of the source's Nuance.  Only eight scalar          *)
(* registers (two vectors) are kept.                                       *)
(***************************************************************************)
EXTENDS Words, FiniteSets

Scalars == 0..7

\* The cells after the scalar registers, in the order of REGINDEX_*.
Misc(k) == 32 + k
CC == Misc(0)
RC0 == Misc(1)
RC1 == Misc(2)
RX == Misc(3)
RY == Misc(4)
RU == Misc(5)
RV == Misc(6)
RZ == Misc(7)
RZI1 == Misc(8)
RZI2 == Misc(9)
XYCTL == Misc(10)
UVCTL == Misc(11)
XYRANGE == Misc(12)
UVRANGE == Misc(13)
ACSHIFT == Misc(14)
SVSHIFT == Misc(15)

\* The registers of the packet fetch that branches write.
pcfetchnext == Misc(16)
ecuSkipCounter == Misc(17)
intctl == Misc(18)
Control == {pcfetchnext, ecuSkipCounter, intctl}

Registers == Scalars \cup (CC .. SVSHIFT)
Cells == Registers \cup Control

\* The bits of cc.
CC_ALU_ZERO == 1
CC_ALU_CARRY == 2
CC_ALU_OVERFLOW == 4
CC_ALU_NEGATIVE == 8
CC_MUL_OVERFLOW == 16
CC_COUNTER0_ZERO == 32
CC_COUNTER1_ZERO == 64
CC_MODGE == 128
CC_MODMI == 256
CC_COPROCESSOR0 == 512
CC_COPROCESSOR1 == 1024
CC_ALLFLAGS == 2047

FlagBit == [Z |-> 1, C |-> 2, V |-> 4, N |-> 8, MV |-> 16, C0Z |-> 32, C1Z |-> 64,
            MODGE |-> 128, MODMI |-> 256, CP0 |-> 512, CP1 |-> 1024]
AllFlags == {"Z", "C", "V", "N", "MV", "C0Z", "C1Z", "MODGE", "MODMI", "CP0", "CP1"}
NVCZ == {"N", "V", "C", "Z"}
NVZ == {"N", "V", "Z"}
NZ == {"N", "Z"}
NVC == {"N", "V", "C"}

\* FLAG_DEPENDENCIES: the bits of cc a set of misc dependencies stands for.
RECURSIVE FlagBits(_)
FlagBits(D) == IF D = {} THEN 0 ELSE LET f == CHOOSE f \in D : TRUE IN FlagBit[f] + FlagBits(D \ {f})
FLAG_DEPENDENCIES(D) == FlagBits(D \cap AllFlags)

\* The conditions of branches, in the order of their codes 0..31.
Conditions == <<"NE", "C0EQ", "C1EQ", "CC", "EQ", "CS", "VC", "VS", "LT", "MVC", "MVS", "HI", "LE", "LS", "PL", "MI",
    "GT", "T", "MODMI", "MODPL", "GE", "MODGE", "MODLT", "never23", "C0NE", "never25", "never26", "CF0LO",
    "C1NE", "CF0HI", "CF1LO", "CF1HI">>
Never == {"never23", "never25", "never26"}

\* The registers beside cc in a misc dependency mask, and their cells.
MiscName == [RC0 |-> RC0, RC1 |-> RC1, RX |-> RX, RY |-> RY, RU |-> RU, RV |-> RV, RZ |-> RZ, RZI1 |-> RZI1, RZI2 |-> RZI2,
             XYCTL |-> XYCTL, UVCTL |-> UVCTL, XYRANGE |-> XYRANGE, UVRANGE |-> UVRANGE, ACSHIFT |-> ACSHIFT, SVSHIFT |-> SVSHIFT]
MiscNames == DOMAIN MiscName
NameOf(c) == CHOOSE x \in MiscNames : MiscName[x] = c

\* The register groups the decoder names in a mask.
VECTOR_REG_DEPENDENCY_MASK(r) == r .. r + 3
PIXEL_REG_DEPENDENCY_MASK(r) == r .. r + 2
BUTTERFLY_REG_DEPENDENCY_MASK(r) == {r, r + 1}

\* cc with the flags of clear cleared and then those of set set.
CCWith(cc, clear, set) == Or(And(cc, Not(clear)), set)
=============================================================================
