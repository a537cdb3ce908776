------------------------------- MODULE Words -------------------------------
(***************************************************************************)
(* Machine words.  The processors of the source are 32 bits wide; here a   *)
(* word has W bits, and every shift count, mask and bit position of the    *)
(* source that comes from the width is written with W (31 is W-1, 0x3F is  *)
(* 2W-1, the half-word mask 0xFFFF0000 is HighHalf).  W is 16: a power of  *)
(* two, as the masks of the shift counts need, wide enough for the eleven  *)
(* flags of cc, and small enough for a double word to be a TLC integer.    *)
(***************************************************************************)
EXTENDS Integers, Sequences

W == 16
Half == W \div 2
Modulus == 2^W
Sign == 2^(W - 1)
MaxInt == Sign - 1
Ones == Modulus - 1
HighHalf == Modulus - 2^Half

Pow == [k \in 0..W |-> 2^k]

\* Bitwise operations, four bits at a time, from tables computed once.
Nibble == 0..15
BitsOf(a) == <<a % 2, (a \div 2) % 2, (a \div 4) % 2, (a \div 8) % 2>>
ByBit(Op(_, _)) ==
    [a \in Nibble |-> [b \in Nibble |->
        LET p == BitsOf(a)  q == BitsOf(b)
        IN Op(p[1], q[1]) + 2 * Op(p[2], q[2]) + 4 * Op(p[3], q[3]) + 8 * Op(p[4], q[4])]]
AndTable == ByBit(LAMBDA x, y : x * y)
OrTable == ByBit(LAMBDA x, y : x + y - x * y)
XorTable == ByBit(LAMBDA x, y : (x + y) % 2)
Blend(T, a, b) ==
    T[a % 16][b % 16] + 16 * T[(a \div 16) % 16][(b \div 16) % 16]
      + 256 * T[(a \div 256) % 16][(b \div 256) % 16] + 4096 * T[a \div 4096][b \div 4096]

And(a, b) == Blend(AndTable, a, b)
Or(a, b) == Blend(OrTable, a, b)
Xor(a, b) == Blend(XorTable, a, b)
Not(a) == Ones - a

Wrap(i) == i % Modulus
Negative(a) == a >= Sign
Signed(a) == IF Negative(a) THEN a - Modulus ELSE a
Neg(a) == Wrap(-a)
Bit(a, k) == (a \div Pow[k]) % 2

\* Shifts by 0..W-1; the arithmetic one fills with the sign.
Shl(a, k) == (a * Pow[k]) % Modulus
Shr(a, k) == a \div Pow[k]
Sar(a, k) == Wrap(Signed(a) \div Pow[k])
Rol(a, k) == IF k = 0 THEN a ELSE (a % Pow[W - k]) * Pow[k] + a \div Pow[W - k]
Ror(a, k) == IF k = 0 THEN a ELSE (a % Pow[k]) * Pow[W - k] + a \div Pow[k]

\* Number of bits up to the highest set bit, 0 for 0.
BitLength(a) == IF a = 0 THEN 0 ELSE 1 + (CHOOSE k \in 0..W-1 : Pow[k] <= a /\ a < 2 * Pow[k])

\* An addition and a subtraction with carry: the result, the carry and the
\* signed overflow out of the top bit.
Plus(a, b, c) ==
    [r |-> Wrap(a + b + c), c |-> a + b + c >= Modulus,
     v |-> ~(Signed(a) + Signed(b) + c \in -Sign .. MaxInt)]
Minus(a, b, c) ==
    [r |-> Wrap(a - b - c), c |-> a < b + c,
     v |-> ~(Signed(a) - Signed(b) - c \in -Sign .. MaxInt)]

\* A double word as the pair <<high, low>>, from a signed product, and back.
Pair(i) == <<Wrap(i \div Modulus), i % Modulus>>

\* Its shifts, by 0..2W-1; the one to the right is arithmetic.
ShlPair(p, k) ==
    IF k = 0 THEN p ELSE IF k >= W THEN <<Shl(p[2], k - W), 0>>
    ELSE <<Wrap(Shl(p[1], k) + Shr(p[2], W - k)), Shl(p[2], k)>>
SarPair(p, k) ==
    IF k = 0 THEN p ELSE IF k >= W THEN <<Sar(p[1], W - 1), Sar(p[1], k - W)>>
    ELSE <<Sar(p[1], k), Wrap(Shr(p[2], k) + Shl(p[1], W - k))>>
=============================================================================
