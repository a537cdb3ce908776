-------------------------------- MODULE X86 --------------------------------
(***************************************************************************)
(* The machine the emitted code runs on, as far as the emitters use it.    *)
(* Its state x is a record: the general registers, the vector registers    *)
(* xmm (four words each), the flags, the memory and the label a jump is on *)
(* its way to (every jump of the emitters is forward).  The memory is two  *)
(* register files: live, the registers of the processor, and saved, the    *)
(* copy made at the start of the packet; LIVE and SAVED are their          *)
(* addresses, which esi and edi hold at the start; a cell of live can also *)
(* be named by its absolute address, as if a register mpe held LIVE (exit  *)
(* is the label after the end of the block).  An access through a register *)
(* that holds neither is recorded in wild.                                 *)
(*                                                                         *)
(* An instruction is a tuple: its mnemonic, its destination, its sources.  *)
(* An operand is a tagged tuple: "r" a register, "l" and "h" its low and   *)
(* high byte, "m" a base register and a cell, "i" an immediate.            *)
(***************************************************************************)
EXTENDS Nuance

R(reg) == <<"r", reg>>
Low(reg) == <<"l", reg>>
High(reg) == <<"h", reg>>
I(imm) == <<"i", imm>>
M(base, cell) == <<"m", base, cell>>

NoLabel == "none"
LIVE == Modulus
SAVED == Modulus + 1
Machine(live, saved) ==
    [eax |-> 0, ecx |-> 0, edx |-> 0, ebx |-> 0, ebp |-> 0, esi |-> LIVE, edi |-> SAVED, mpe |-> LIVE,
     xmm |-> [k \in 0..5 |-> <<0, 0, 0, 0>>],
     zf |-> FALSE, sf |-> FALSE, cf |-> FALSE, of |-> FALSE,
     live |-> live, saved |-> saved, wild |-> FALSE, to |-> NoLabel]

\* A cell, and a write of the cells that new gives a value.
Load(x, base, cell) ==
    CASE x[base] = LIVE -> x.live[cell]
      [] x[base] = SAVED -> x.saved[cell]
      [] OTHER -> 0
WriteTo(x, base, Into(_)) ==
    CASE x[base] = LIVE -> [x EXCEPT !.live = Into(@)]
      [] x[base] = SAVED -> [x EXCEPT !.saved = Into(@)]
      [] OTHER -> [x EXCEPT !.wild = TRUE]

Get(x, o) ==
    CASE o[1] = "r" -> x[o[2]]
      [] o[1] = "i" -> o[2]
      [] o[1] = "m" -> Load(x, o[2], o[3])
      [] o[1] = "l" -> x[o[2]] % 256
      [] o[1] = "h" -> x[o[2]] \div 256
Put(x, o, w) ==
    CASE o[1] = "r" -> [x EXCEPT ![o[2]] = w]
      [] o[1] = "m" -> WriteTo(x, o[2], LAMBDA f : [f EXCEPT ![o[3]] = w])
      [] o[1] = "l" -> [x EXCEPT ![o[2]] = 256 * (@ \div 256) + (w % 256)]
      [] o[1] = "h" -> [x EXCEPT ![o[2]] = (@ % 256) + 256 * (w % 256)]

\* The flag that some instructions leave undefined: code that reads it fails.
Undefined == "undefined"

Carry(x) == IF x.cf THEN 1 ELSE 0
Bits(r) == [r |-> r, c |-> FALSE, v |-> FALSE]
Alu(op, a, b, c) ==
    CASE op \in {"add", "inc"} -> Plus(a, b, 0)
      [] op \in {"sub", "cmp", "dec"} -> Minus(a, b, 0)
      [] op \in {"and", "test"} -> Bits(And(a, b))
      [] op = "or" -> Bits(Or(a, b))
      [] op = "xor" -> Bits(Xor(a, b))
      [] op = "adc" -> Plus(a, b, c)
      [] op = "sbb" -> Minus(a, b, c)
AluOps == {"add", "or", "adc", "sbb", "and", "sub", "xor", "cmp", "test", "inc", "dec"}
Discarded == {"cmp", "test", "cmp64"}
WithFlags(x, z, s, c, v) == [x EXCEPT !.zf = z, !.sf = s, !.cf = c, !.of = v]
DoAlu(x, op, d, s) ==
    LET a == Alu(op, Get(x, d), Get(x, s), Carry(x))
        y == WithFlags(x, a.r = 0, Negative(a.r), IF op \in {"inc", "dec"} THEN x.cf ELSE a.c, a.v)
    IN IF op \in Discarded THEN y ELSE Put(y, d, a.r)

\* The same on 64-bit registers, whose upper half the 32-bit loads have
\* cleared: the flags are those of the double word.
Alu64(op, a, b, c) ==
    CASE op = "add64" -> a + b
      [] op = "adc64" -> a + b + c
      [] op \in {"sub64", "cmp64"} -> a - b
      [] op = "sbb64" -> a - b - c
      [] op = "and64" -> And(a, b)
      [] op = "or64" -> Or(a, b)
      [] op = "xor64" -> Xor(a, b)
Alu64Ops == {"add64", "or64", "adc64", "sbb64", "and64", "sub64", "xor64", "cmp64"}
DoAlu64(x, op, d, s) ==
    LET r == Alu64(op, Get(x, d), Get(x, s), Carry(x))
        y == WithFlags(x, r = 0, r < 0, r < 0, FALSE)
    IN IF op \in Discarded THEN y ELSE Put(y, d, Wrap(r))

\* Shifts and rotations: the count is taken modulo the width, and a count of
\* zero leaves the flags alone.  They say nothing of the overflow.
Through(a, c, k) ==                                          \* rcr: W+1 bits
    LET b == c * Modulus + a IN (b \div Pow[k]) + ((b % Pow[k]) * 2 * Pow[W - k])
DoShift(x, op, d, s) ==
    LET k == Get(x, s) % W
        a == Get(x, d)
        r == CASE op = "shl" -> Shl(a, k)
               [] op = "shr" -> Shr(a, k)
               [] op = "sar" -> Sar(a, k)
               [] op = "rol" -> Rol(a, k)
               [] op = "ror" -> Ror(a, k)
               [] op = "rcr" -> Through(a, Carry(x), k) % Modulus
        c == CASE op = "shl" -> Bit(a, W - k) = 1
               [] op \in {"shr", "sar"} -> Bit(a, k - 1) = 1
               [] op = "rol" -> Bit(r, 0) = 1
               [] op = "ror" -> Negative(r)
               [] op = "rcr" -> Through(a, Carry(x), k) >= Modulus
    IN IF k = 0 THEN x
       ELSE Put(IF op \in {"rol", "ror", "rcr"}
                THEN [x EXCEPT !.cf = c, !.of = Undefined]
                ELSE WithFlags(x, r = 0, Negative(r), c, Undefined), d, r)
ShiftOps == {"shl", "shr", "sar", "rol", "ror", "rcr"}

\* Double shifts: the bits that come in are those of a second register.
DoDouble(x, op, d, o, s) ==
    LET k == Get(x, s) % W
        a == Get(x, d)
        b == Get(x, o)
        r == IF op = "shld" THEN Shl(a, k) + Shr(b, W - k) ELSE Shr(a, k) + Shl(b, W - k)
        c == IF op = "shld" THEN Bit(a, W - k) = 1 ELSE Bit(a, k - 1) = 1
    IN IF k = 0 THEN x ELSE Put(WithFlags(x, r = 0, Negative(r), c, Undefined), d, r)
DoubleOps == {"shld", "shrd"}

Cond(x, cc) ==
    CASE cc = "z" -> x.zf
      [] cc = "nz" -> ~x.zf
      [] cc = "s" -> x.sf
      [] cc = "o" -> x.of
      [] cc = "b" -> x.cf
      [] cc = "nb" -> ~x.cf
      [] cc = "be" -> x.cf \/ x.zf
      [] cc = "nbe" -> ~x.cf /\ ~x.zf
      [] cc = "l" -> x.sf # x.of
      [] cc = "nl" -> x.sf = x.of
      [] cc = "le" -> x.zf \/ x.sf # x.of
      [] cc = "nle" -> ~x.zf /\ x.sf = x.of

\* The multiplication keeps the low word; its edx:eax form keeps both.
DoMul(x, i) ==
    IF i[1] = "imul"
    THEN [Put(x, i[2], Wrap(Signed(Get(x, i[3])) * Signed(Get(x, i[4]))))
            EXCEPT !.zf = Undefined, !.sf = Undefined, !.cf = Undefined, !.of = Undefined]
    ELSE LET p == Pair(Signed(x.eax) * Signed(Get(x, i[2])))
         IN [x EXCEPT !.edx = p[1], !.eax = p[2], !.zf = Undefined, !.sf = Undefined,
                      !.cf = Undefined, !.of = Undefined]

\* Vector instructions, on four words.
Four(Op(_)) == <<Op(1), Op(2), Op(3), Op(4)>>
Vec(x, o) ==
    CASE o[1] = "x" -> x.xmm[o[2]]
      [] o[1] = "m" -> Four(LAMBDA k : Load(x, o[2], o[3] + k - 1))
      [] o[1] \in {"i", "r"} -> o[2]
DoVec(x, op, d, s) ==
    LET a == x.xmm[d[2]]
        b == Vec(x, s)
    IN [x EXCEPT !.xmm[d[2]] =
          CASE op = "movdqu" -> b
            [] op = "paddd" -> Four(LAMBDA k : Wrap(a[k] + b[k]))
            [] op = "psubd" -> Four(LAMBDA k : Wrap(a[k] - b[k]))
            [] op = "pand" -> Four(LAMBDA k : And(a[k], b[k]))
            [] op = "pmulld" -> Four(LAMBDA k : Wrap(Signed(a[k]) * Signed(b[k])))
            [] op = "psrad" -> Four(LAMBDA k : IF s[2] >= W THEN Sar(a[k], W - 1) ELSE Sar(a[k], s[2]))
            [] op = "pslld" ->                      \* the count in a register has two words
                 LET c == IF s[1] = "i" THEN s[2] ELSE IF b[2] # 0 THEN W ELSE b[1]
                 IN Four(LAMBDA k : IF c >= W THEN 0 ELSE Shl(a[k], c))
            [] op = "broadcast" -> Four(LAMBDA k : b[1])
            [] op = "movd" -> <<Get(x, s), 0, 0, 0>>
            [] op = "phaddd" -> <<Wrap(a[1] + a[2]), Wrap(a[3] + a[4]), Wrap(b[1] + b[2]), Wrap(b[3] + b[4])>>]
VecOps == {"movdqu", "paddd", "psubd", "pand", "pmulld", "psrad", "pslld", "phaddd", "broadcast", "movd"}
StoreVec(x, m, s) ==
    WriteTo(x, m[2], LAMBDA f : [c \in DOMAIN f |-> IF c \in m[3] .. m[3] + 3 THEN x.xmm[s[2]][c - m[3] + 1] ELSE f[c]])

Step(x, i) ==
    IF x.to # NoLabel
    THEN IF i[1] = "label" /\ i[2] = x.to THEN [x EXCEPT !.to = NoLabel] ELSE x
    ELSE CASE i[1] \in AluOps -> DoAlu(x, i[1], i[2], i[3])
           [] i[1] = "mov" -> Put(x, i[2], Get(x, i[3]))
           [] i[1] \in ShiftOps -> DoShift(x, i[1], i[2], i[3])
           [] i[1] = "set" -> Put(x, i[3], IF Cond(x, i[2]) THEN 1 ELSE 0)
           [] i[1] = "cmov" -> IF Cond(x, i[2]) THEN Put(x, i[3], Get(x, i[4])) ELSE x
           [] i[1] = "j" -> IF Cond(x, i[2]) THEN [x EXCEPT !.to = i[3]] ELSE x
           [] i[1] = "jmp" -> [x EXCEPT !.to = i[2]]
           [] i[1] = "label" -> x
           [] i[1] = "ret" -> [x EXCEPT !.to = "exit"]
           [] i[1] \in Alu64Ops -> DoAlu64(x, i[1], i[2], i[3])
           [] i[1] = "not" -> Put(x, i[2], Not(Get(x, i[2])))
           [] i[1] = "neg" -> LET a == Minus(0, Get(x, i[2]), 0)
                              IN Put(WithFlags(x, a.r = 0, Negative(a.r), a.c, a.v), i[2], a.r)
           [] i[1] = "lea" -> Put(x, i[2], Wrap(Get(x, i[3]) + Get(x, i[4]) + i[5]))
           [] i[1] = "bsr" -> IF Get(x, i[3]) = 0 THEN [x EXCEPT !.zf = TRUE]
                              ELSE [Put(x, i[2], BitLength(Get(x, i[3])) - 1) EXCEPT !.zf = FALSE]
           [] i[1] \in {"imul", "imul2"} -> DoMul(x, i)
           [] i[1] \in DoubleOps -> DoDouble(x, i[1], i[2], i[3], i[4])
           [] i[1] \in VecOps -> DoVec(x, i[1], i[2], i[3])
           [] i[1] = "storevec" -> StoreVec(x, i[2], i[3])
           [] i[1] = "lane" -> Put(x, i[2], x.xmm[i[3][2]][1])

\* The state after the code.
RECURSIVE RunFrom(_, _, _)
RunFrom(x, code, k) ==
    IF x.to = "exit" \/ k > Len(code) THEN x ELSE RunFrom(Step(x, code[k]), code, k + 1)
Run(x, code) == RunFrom(x, code, 1)

When(c, code) == IF c THEN code ELSE <<>>
=============================================================================
