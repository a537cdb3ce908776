------------------------ MODULE MemoryManager_proofs ------------------------
(***************************************************************************)
(* The memory manager for any regions, any sequence of requests and any    *)
(* width of the addresses.                                                 *)
(*                                                                         *)
(* Nothing is ever entered in the list of allocated blocks: it is empty at *)
(* first, and AddAllocatedBlock inserts only before a later block.  So     *)
(* MemFree gives nothing back, and the free blocks, which are only ever    *)
(* cut up, never touch each other; that is why Add never joins any.        *)
(***************************************************************************)
EXTENDS MemoryManager, SequenceTheorems, TLAPS

\* Aligning an address of a region does not wrap around the addresses: of
\* the alignments that are powers of two all but 2^31.  With that one the
\* aligned address is 0 and in no region.
AligningStays ==
  \A a \in Alignments : Strict(a) \in PowersOfTwo =>
    \A b \in Bus : Region[b].end + Strict(a) <= Top

FreeBlock == [start : Nat, end : Nat, bytes : Nat]

\* The blocks of a list, and those of them but the n-th.
BlocksOf(q) == {q[n] : n \in 1 .. Len(q)}
Others(q, n) == {q[j] : j \in (1 .. Len(q)) \ {n}}

\* A block, a list with another n-th block, and one whose n-th block is cut.
Record(start, end, bytes) == [start |-> start, end |-> end, bytes |-> bytes]
Replaced(q, n, c)         == [q EXCEPT ![n] = c]
StartCut(q, n, x, y) == [q EXCEPT ![n].start = x, ![n].bytes = Word(@ - y)]
EndCut(q, n, x, y)   == [q EXCEPT ![n].end = x, ![n].bytes = Word(@ - y)]

\* The free blocks of a bus: in order, with a gap between any two.
ListOK(b, q) ==
  /\ q \in Seq(FreeBlock)
  /\ \A n \in 1 .. Len(q) : IsFreeBlock(b, q[n])
  /\ \A m, n \in 1 .. Len(q) : m < n => q[m].end + 1 < q[n].start

\* There is a gap after the n-th block that d fits in.
GapHolds(b, q, n, d) ==
  /\ b \in Bus /\ ListOK(b, q) /\ n \in 1 .. Len(q)
  /\ d \in FreeBlock /\ IsFreeBlock(b, d)
  /\ q[n].end + 1 < d.start
  /\ n < Len(q) => d.end + 1 < q[n + 1].start

\* Memory that programs hold is apart from what is free and from each other.
HeldOK ==
  /\ held \subseteq [start : Address \ {0}, bytes : 1 .. Top]
  /\ \A x, y \in held : x # y => Apart(x, y)
  /\ \A x \in held, b \in Bus : \A f \in BlocksOf(free[b]) : Apart(x, f)

MemoryInv ==
  /\ free \in [Bus -> Seq(FreeBlock)]
  /\ \A b \in Bus : ListOK(b, free[b])
  /\ allocated = [b \in Bus |-> << >>]
  /\ answer \in [bytes : Bytes \union {0}, alignment : Alignments \union {0},
                  buses : Preferences, at : Address]
  /\ HeldOK

-----------------------------------------------------------------------------
(* Words                                                                   *)

\* Order of addresses with a gap between them: the gap only grows when the
\* first address goes down or the second goes up.
LEMMA Before ==
  ASSUME NEW x \in Nat, NEW y \in Nat, NEW z \in Nat, x + 1 < y, y <= z
  PROVE  x + 1 < z
OBVIOUS

LEMMA Between ==
  ASSUME NEW w \in Nat, NEW x \in Nat, NEW y \in Nat, NEW z \in Nat,
         w <= x, x + 1 < y, y <= z
  PROVE  w + 1 < z
OBVIOUS

LEMMA ModDef ==
  ASSUME NEW m \in Nat \ {0}, NEW n \in Int
  PROVE  /\ n % m \in 0 .. m - 1
         /\ \E q \in Int : n = q * m + (n % m)
<1>1. n = m * (n \div m) + (n % m) /\ n \div m \in Int /\ n % m \in 0 .. m - 1
  OBVIOUS
<1>2. m * (n \div m) = (n \div m) * m
  BY <1>1
<1>3. QED
  BY <1>1, <1>2

\* Two multiples are the same or at least m apart.
LEMMA Multiples ==
  ASSUME NEW m \in Nat \ {0}, NEW p \in Int, NEW q \in Int, p * m < q * m
  PROVE  p * m + m <= q * m
<1>1. q - p >= 1
  <2>1. CASE q - p <= 0
    <3>1. (p - q) * m >= 0
      BY <2>1
    <3>2. (p - q) * m = p * m - q * m
      OBVIOUS
    <3>3. QED
      BY <3>1, <3>2
  <2>2. QED
    BY <2>1
<1>2. (q - p - 1) * m >= 0
  BY <1>1
<1>3. (q - p - 1) * m = q * m - p * m - m
  OBVIOUS
<1>4. QED
  BY <1>2, <1>3

LEMMA ModIs ==
  ASSUME NEW m \in Nat \ {0}, NEW q \in Int, NEW r \in 0 .. m - 1
  PROVE  (q * m + r) % m = r
<1> DEFINE n == q * m + r
<1>1. n \in Int /\ q * m \in Int
  OBVIOUS
<1> HIDE DEF n
<1>2. PICK p \in Int : n = p * m + (n % m)
  BY <1>1, ModDef
<1>3. n % m \in 0 .. m - 1 /\ p * m \in Int
  BY <1>1, ModDef
<1>4. n = q * m + r
  BY DEF n
<1>5. ~ (p * m < q * m)
  BY <1>1, <1>2, <1>3, <1>4, Multiples
<1>6. ~ (q * m < p * m)
  BY <1>1, <1>2, <1>3, <1>4, Multiples
<1>7. n % m = r
  BY <1>1, <1>2, <1>3, <1>4, <1>5, <1>6
<1>8. QED
  BY <1>7 DEF n

LEMMA WordIs ==
  ASSUME NEW n \in 0 .. Top - 1
  PROVE  Word(n) = n
<1>1. Top \in Nat \ {0} /\ 0 * Top + n = n
  BY MemoryAssumption
<1>2. QED
  BY <1>1, ModIs DEF Word

LEMMA RoundedDown ==
  ASSUME NEW m \in Nat \ {0}, NEW n \in Nat
  PROVE  /\ RoundDown(n, m) \in Nat /\ RoundDown(n, m) <= n /\ n < RoundDown(n, m) + m
         /\ RoundDown(n, m) % m = 0
         /\ \A a \in Nat : a % m = 0 /\ a <= n => a <= RoundDown(n, m)
<1> DEFINE r == RoundDown(n, m)
<1>0. n \in Int
  OBVIOUS
<1>1. PICK p \in Int : n = p * m + (n % m)
  BY <1>0, ModDef
<1>2. n % m \in 0 .. m - 1 /\ p * m \in Int
  BY <1>0, ModDef
<1>3. r = p * m
  BY <1>1, <1>2 DEF RoundDown
<1>4. r % m = 0
  <2>1. p * m + 0 = p * m /\ 0 \in 0 .. m - 1
    BY <1>2
  <2>2. QED
    BY <1>3, <2>1, ModIs
<1>5. r >= 0
  <2>1. CASE r < 0
    <3>1. p * m < 0 * m /\ 0 * m = 0
      BY <1>3, <2>1
    <3>2. p * m + m <= 0
      BY <3>1, Multiples
    <3>3. QED
      BY <1>1, <1>2, <3>2
  <2>2. QED
    BY <1>2, <1>3, <2>1
<1> HIDE DEF r
<1>6. ASSUME NEW a \in Nat, a % m = 0, a <= n PROVE a <= r
  <2>0. a \in Int
    OBVIOUS
  <2>1. PICK q \in Int : a = q * m + (a % m)
    BY <2>0, ModDef
  <2>2. a = q * m
    BY <1>6, <2>1
  <2>3. CASE r < a
    <3>1. p * m + m <= q * m
      BY <1>3, <2>2, <2>3, Multiples
    <3>2. QED
      BY <1>1, <1>2, <1>6, <2>2, <3>1
  <2>4. QED
    BY <1>2, <1>3, <2>3
<1>7. QED
  BY <1>1, <1>2, <1>3, <1>4, <1>5, <1>6 DEF r

\* The first aligned address from a start on, when it does not wrap.
LEMMA Aligned ==
  ASSUME NEW m \in Nat \ {0}, NEW start \in Nat, start + m <= Top
  PROVE  /\ AlignAddress(start, m) \in Nat /\ start <= AlignAddress(start, m)
         /\ AlignAddress(start, m) % m = 0
         /\ \A a \in Nat : start <= a /\ a % m = 0 => AlignAddress(start, m) <= a
<1> DEFINE n == start + m - 1
<1>1. n \in Nat /\ n \in 0 .. Top - 1
  BY MemoryAssumption
<1>2. AlignAddress(start, m) = RoundDown(n, m)
  BY <1>1, WordIs DEF AlignAddress
<1> DEFINE r == RoundDown(n, m)
<1>3. r \in Nat /\ r <= n /\ n < r + m /\ r % m = 0
  BY <1>1, RoundedDown
<1> HIDE DEF r
<1>4. ASSUME NEW a \in Nat, start <= a, a % m = 0, a < r PROVE FALSE
  <2>0. a \in Int /\ r \in Int
    BY <1>3
  <2>1. PICK p \in Int : a = p * m + (a % m)
    BY <2>0, ModDef
  <2>2. PICK q \in Int : r = q * m + (r % m)
    BY <2>0, ModDef
  <2>3. a = p * m /\ r = q * m
    BY <1>3, <1>4, <2>1, <2>2
  <2>4. a + m <= r
    BY <1>4, <2>3, Multiples
  <2>5. QED
    BY <1>3, <1>4, <2>4
<1>5. start <= r
  BY <1>3
<1>6. QED
  BY <1>2, <1>3, <1>4, <1>5 DEF r

LEMMA PaddedIs ==
  ASSUME NEW bytes \in Bytes
  PROVE  Padded(bytes) \in 1 .. Top - 1 /\ bytes <= Padded(bytes)
<1> DEFINE some == IF bytes = 0 THEN 1 ELSE bytes
           n == some + VECTOR - 1
<1>1. /\ VECTOR \in Nat \ {0} /\ Top \in Nat /\ VECTOR < Top
      /\ bytes \in Nat /\ bytes <= Top - VECTOR
  BY MemoryAssumption
<1>2. some \in Nat /\ some >= 1 /\ bytes <= some /\ n \in Nat /\ n \in 0 .. Top - 1
  BY <1>1
<1> HIDE DEF some
<1>3. Padded(bytes) = RoundDown(n, VECTOR)
  BY <1>2, WordIs DEF Padded, some
<1>4. /\ RoundDown(n, VECTOR) \in Nat /\ RoundDown(n, VECTOR) <= n
      /\ n < RoundDown(n, VECTOR) + VECTOR
  BY <1>1, <1>2, RoundedDown
<1>5. QED
  BY <1>1, <1>2, <1>3, <1>4

-----------------------------------------------------------------------------
(* Lists                                                                   *)

LEMMA Removed ==
  ASSUME NEW S, NEW q \in Seq(S), NEW n \in 1 .. Len(q)
  PROVE  /\ RemoveAt(q, n) \in Seq(S) /\ Len(RemoveAt(q, n)) = Len(q) - 1
         /\ \A i \in 1 .. Len(q) - 1 :
              RemoveAt(q, n)[i] = IF i < n THEN q[i] ELSE q[i + 1]
<1> DEFINE s == SubSeq(q, 1, n - 1)
           t == SubSeq(q, n + 1, Len(q))
<1>1. Len(q) \in Nat /\ n \in Int /\ 1 <= n /\ n <= Len(q)
  OBVIOUS
<1>2. s \in Seq(S) /\ Len(s) = n - 1 /\ \A i \in 1 .. n - 1 : s[i] = q[i]
  BY <1>1
<1>3. t \in Seq(S) /\ Len(t) = Len(q) - n /\ \A i \in 1 .. Len(q) - n : t[i] = q[n + i]
  BY <1>1
<1>4. RemoveAt(q, n) = s \o t
  BY DEF RemoveAt
<1> HIDE DEF s, t
<1>5. /\ s \o t \in Seq(S) /\ Len(s \o t) = Len(s) + Len(t)
      /\ \A i \in 1 .. Len(s) + Len(t) :
           (s \o t)[i] = IF i <= Len(s) THEN s[i] ELSE t[i - Len(s)]
  BY <1>2, <1>3, ConcatProperties
<1>6. Len(s \o t) = Len(q) - 1
  BY <1>1, <1>2, <1>3, <1>5
<1>7. ASSUME NEW i \in 1 .. Len(q) - 1
      PROVE  (s \o t)[i] = IF i < n THEN q[i] ELSE q[i + 1]
  <2>1. CASE i < n
    BY <1>1, <1>2, <1>3, <1>5, <2>1
  <2>2. CASE i >= n
    <3>1. i - Len(s) \in 1 .. Len(q) - n /\ n + (i - Len(s)) = i + 1 /\ ~(i <= Len(s))
      BY <1>1, <1>2, <2>2
    <3>2. (s \o t)[i] = t[i - Len(s)]
      BY <1>1, <1>2, <1>3, <1>5, <3>1
    <3>3. t[i - Len(s)] = q[i + 1]
      BY <1>3, <3>1
    <3>4. QED
      BY <1>1, <2>2, <3>2, <3>3
  <2>3. i < n \/ i >= n
    BY <1>1
  <2>4. QED
    BY <2>1, <2>2, <2>3
<1>8. QED
  BY <1>4, <1>5, <1>6, <1>7

LEMMA Inserted ==
  ASSUME NEW S, NEW q \in Seq(S), NEW n \in 1 .. Len(q) + 1, NEW e \in S
  PROVE  /\ InsertAt(q, n, e) \in Seq(S) /\ Len(InsertAt(q, n, e)) = Len(q) + 1
         /\ \A i \in 1 .. Len(q) + 1 :
              InsertAt(q, n, e)[i] = IF i < n THEN q[i] ELSE IF i = n THEN e ELSE q[i - 1]
<1> DEFINE s == SubSeq(q, 1, n - 1)
           t == SubSeq(q, n, Len(q))
           u == s \o <<e>>
<1>1. Len(q) \in Nat /\ n \in Int /\ 1 <= n /\ n <= Len(q) + 1
  OBVIOUS
<1>2. s \in Seq(S) /\ Len(s) = n - 1 /\ \A i \in 1 .. n - 1 : s[i] = q[i]
  BY <1>1
<1>3. /\ t \in Seq(S) /\ Len(t) = Len(q) - n + 1
      /\ \A i \in 1 .. Len(q) - n + 1 : t[i] = q[n + i - 1]
  <2>1. \A i \in n .. Len(q) : q[i] \in S
    BY <1>1
  <2>2. /\ t \in Seq(S) /\ Len(t) = IF n <= Len(q) THEN Len(q) - n + 1 ELSE 0
        /\ \A i \in 1 .. Len(q) - n + 1 : t[i] = q[n + i - 1]
    BY <1>1, <2>1, SubSeqProperties
  <2>3. QED
    BY <1>1, <2>2
<1>4. InsertAt(q, n, e) = u \o t
  BY DEF InsertAt
<1> HIDE DEF s, t
<1>5. u \in Seq(S) /\ Len(u) = n /\ \A i \in 1 .. n : u[i] = IF i < n THEN q[i] ELSE e
  <2>1. <<e>> \in Seq(S) /\ Len(<<e>>) = 1 /\ <<e>>[1] = e
    OBVIOUS
  <2>2. /\ u \in Seq(S) /\ Len(u) = Len(s) + Len(<<e>>)
        /\ \A i \in 1 .. Len(s) + Len(<<e>>) :
             u[i] = IF i <= Len(s) THEN s[i] ELSE <<e>>[i - Len(s)]
    BY <1>2, <2>1, ConcatProperties
  <2> HIDE DEF u
  <2>3. ASSUME NEW i \in 1 .. n PROVE u[i] = IF i < n THEN q[i] ELSE e
    <3>1. CASE i < n
      BY <1>1, <1>2, <2>1, <2>2, <3>1
    <3>2. CASE i = n
      <4>1. ~(i <= Len(s)) /\ i - Len(s) = 1 /\ i \in 1 .. Len(s) + Len(<<e>>)
        BY <1>1, <1>2, <2>1, <3>2
      <4>2. QED
        BY <2>1, <2>2, <3>2, <4>1
    <3>3. i < n \/ i = n
      BY <1>1
    <3>4. QED
      BY <3>1, <3>2, <3>3
  <2>4. QED
    BY <1>1, <1>2, <2>1, <2>2, <2>3
<1> HIDE DEF u
<1>6. /\ u \o t \in Seq(S) /\ Len(u \o t) = Len(u) + Len(t)
      /\ \A i \in 1 .. Len(u) + Len(t) :
           (u \o t)[i] = IF i <= Len(u) THEN u[i] ELSE t[i - Len(u)]
  BY <1>3, <1>5, ConcatProperties
<1>7. Len(u \o t) = Len(q) + 1
  BY <1>1, <1>3, <1>5, <1>6
<1>8. ASSUME NEW i \in 1 .. Len(q) + 1
      PROVE  (u \o t)[i] = IF i < n THEN q[i] ELSE IF i = n THEN e ELSE q[i - 1]
  <2>1. CASE i <= n
    BY <1>1, <1>3, <1>5, <1>6, <2>1
  <2>2. CASE i > n
    <3>1. /\ i - Len(u) \in 1 .. Len(q) - n + 1 /\ n + (i - Len(u)) - 1 = i - 1
          /\ ~(i <= Len(u)) /\ i \in 1 .. Len(u) + Len(t)
      BY <1>1, <1>3, <1>5, <2>2
    <3>2. (u \o t)[i] = q[i - 1]
      BY <1>3, <1>6, <3>1
    <3>3. QED
      BY <1>1, <2>2, <3>2
  <2>3. i <= n \/ i > n
    BY <1>1
  <2>4. QED
    BY <2>1, <2>2, <2>3
<1>9. QED
  BY <1>4, <1>6, <1>7, <1>8

\* An element appended is one inserted after the last.
LEMMA Appended ==
  ASSUME NEW S, NEW q \in Seq(S), NEW e \in S
  PROVE  Append(q, e) = InsertAt(q, Len(q) + 1, e)
<1>1. Len(q) \in Nat /\ Len(q) + 1 \in 1 .. Len(q) + 1
  OBVIOUS
<1>2. /\ Append(q, e) \in Seq(S) /\ Len(Append(q, e)) = Len(q) + 1
      /\ \A i \in 1 .. Len(q) : Append(q, e)[i] = q[i]
      /\ Append(q, e)[Len(q) + 1] = e
  BY AppendProperties
<1>3. ASSUME NEW n \in 1 .. Len(q) + 1
      PROVE  /\ InsertAt(q, n, e) \in Seq(S) /\ Len(InsertAt(q, n, e)) = Len(q) + 1
             /\ \A i \in 1 .. Len(q) + 1 : InsertAt(q, n, e)[i] =
                  IF i < n THEN q[i] ELSE IF i = n THEN e ELSE q[i - 1]
  BY Inserted
<1> DEFINE t == InsertAt(q, Len(q) + 1, e)
<1>4. /\ t \in Seq(S) /\ Len(t) = Len(q) + 1
      /\ \A i \in 1 .. Len(q) + 1 :
           t[i] = IF i < Len(q) + 1 THEN q[i] ELSE IF i = Len(q) + 1 THEN e ELSE q[i - 1]
  BY <1>1, <1>3
<1> HIDE DEF t
<1>5. \A i \in 1 .. Len(q) + 1 : Append(q, e)[i] = t[i]
  BY <1>1, <1>2, <1>4
<1>6. Append(q, e) = t
  BY <1>2, <1>4, <1>5, SeqEqual
<1>7. QED
  BY <1>6 DEF t

LEMMA Regions ==
  ASSUME NEW b \in Bus
  PROVE  /\ Region[b].start \in 1 .. Top - 1 /\ Region[b].end \in 1 .. Top - 1
         /\ Region[b].start <= Region[b].end /\ Top \in Nat \ {0}
<1>1. Region[b] \in [start : Address \ {0}, end : Address] /\ Top \in Nat \ {0}
  BY MemoryAssumption
<1>2. Region[b].start \in 1 .. Top - 1 /\ Region[b].end \in 0 .. Top - 1
  BY <1>1 DEF Address
<1>3. Region[b].start <= Region[b].end
  BY MemoryAssumption
<1>4. QED
  BY <1>1, <1>2, <1>3

\* What IsFreeBlock says, with the types of the numbers.
LEMMA FreeBlockIs ==
  ASSUME NEW b \in Bus, NEW f \in FreeBlock, IsFreeBlock(b, f)
  PROVE  /\ f.start \in 1 .. Top - 1 /\ f.end \in 1 .. Top - 1 /\ f.start <= f.end
         /\ Region[b].start <= f.start /\ f.end <= Region[b].end
         /\ f.bytes = f.end - f.start + 1
<1>1. f.start \in Nat /\ f.end \in Nat
  BY DEF FreeBlock
<1>2. /\ f.start \in Region[b].start .. Region[b].end /\ f.end \in f.start .. Region[b].end
      /\ f.bytes = f.end - f.start + 1
  BY DEF IsFreeBlock
<1>3. QED
  BY <1>1, <1>2, Regions

LEMMA Elements ==
  ASSUME NEW b \in Bus, NEW q, ListOK(b, q)
  PROVE  /\ q \in Seq(FreeBlock) /\ Len(q) \in Nat
         /\ \A n \in 1 .. Len(q) :
              /\ q[n] \in FreeBlock /\ IsFreeBlock(b, q[n])
              /\ q[n].start \in Nat /\ q[n].end \in Nat /\ q[n].start <= q[n].end
<1>1. q \in Seq(FreeBlock) /\ Len(q) \in Nat
  BY DEF ListOK
<1>2. ASSUME NEW n \in 1 .. Len(q)
      PROVE  /\ q[n] \in FreeBlock /\ IsFreeBlock(b, q[n])
             /\ q[n].start \in Nat /\ q[n].end \in Nat /\ q[n].start <= q[n].end
  <2>1. q[n] \in FreeBlock /\ IsFreeBlock(b, q[n])
    BY <1>1 DEF ListOK
  <2>2. q[n].start <= q[n].end
    BY <2>1, FreeBlockIs
  <2>3. QED
    BY <2>1, <2>2 DEF FreeBlock
<1>3. QED
  BY <1>1, <1>2

\* A block is removed, made smaller, or followed by a new one.
LEMMA RemovedOK ==
  ASSUME NEW b \in Bus, NEW q, ListOK(b, q), NEW n \in 1 .. Len(q)
  PROVE  /\ ListOK(b, RemoveAt(q, n))
         /\ BlocksOf(RemoveAt(q, n)) = Others(q, n)
<1> DEFINE t == RemoveAt(q, n)
<1>1. q \in Seq(FreeBlock) /\ Len(q) \in Nat
  BY DEF ListOK
<1>2. /\ t \in Seq(FreeBlock) /\ Len(t) = Len(q) - 1
      /\ \A i \in 1 .. Len(q) - 1 : t[i] = IF i < n THEN q[i] ELSE q[i + 1]
  BY <1>1, Removed
<1> HIDE DEF t
<1>3. ASSUME NEW i \in 1 .. Len(t)
      PROVE  \E j \in (1 .. Len(q)) \ {n} :
               t[i] = q[j] /\ (i < n => j = i) /\ (i >= n => j = i + 1)
  <2>1. CASE i < n
    <3>1. i \in (1 .. Len(q)) \ {n} /\ t[i] = q[i] /\ ~(i >= n)
      BY <1>1, <1>2, <2>1
    <3>2. QED
      BY <3>1
  <2>2. CASE i >= n
    <3>1. i + 1 \in (1 .. Len(q)) \ {n} /\ t[i] = q[i + 1] /\ ~(i < n)
      BY <1>1, <1>2, <2>2
    <3>2. QED
      BY <3>1
  <2>3. i < n \/ i >= n
    BY <1>1
  <2>4. QED
    BY <2>1, <2>2, <2>3
<1>4. ASSUME NEW j \in (1 .. Len(q)) \ {n}
      PROVE  \E i \in 1 .. Len(t) : t[i] = q[j]
  <2>1. CASE j < n
    <3>1. j \in 1 .. Len(t) /\ t[j] = q[j]
      BY <1>1, <1>2, <2>1
    <3>2. QED
      BY <3>1
  <2>2. CASE j > n
    <3>1. j - 1 \in 1 .. Len(t) /\ t[j - 1] = q[j]
      BY <1>1, <1>2, <2>2
    <3>2. QED
      BY <3>1
  <2>3. QED
    BY <1>1, <2>1, <2>2
<1>5. BlocksOf(t) = Others(q, n)
  <2>1. \A i \in 1 .. Len(t) : \E j \in (1 .. Len(q)) \ {n} : t[i] = q[j]
    BY <1>3
  <2>2. \A j \in (1 .. Len(q)) \ {n} : \E i \in 1 .. Len(t) : t[i] = q[j]
    BY <1>4
  <2>3. ASSUME NEW x \in BlocksOf(t) PROVE x \in Others(q, n)
    <3>1. PICK i \in 1 .. Len(t) : x = t[i]
      BY DEF BlocksOf
    <3>2. QED
      BY <2>1, <3>1 DEF Others
  <2>4. ASSUME NEW j \in (1 .. Len(q)) \ {n} PROVE q[j] \in BlocksOf(t)
    BY <2>2 DEF BlocksOf
  <2>5. QED
    BY <2>3, <2>4 DEF Others
<1>6. \A i \in 1 .. Len(t) : IsFreeBlock(b, t[i])
  BY <1>3 DEF ListOK
<1>7. ASSUME NEW k \in 1 .. Len(t), NEW i \in 1 .. Len(t), k < i
      PROVE  t[k].end + 1 < t[i].start
  <2>1. PICK x \in 1 .. Len(q) : t[k] = q[x] /\ (k < n => x = k) /\ (k >= n => x = k + 1)
    BY <1>3
  <2>2. PICK y \in 1 .. Len(q) : t[i] = q[y] /\ (i < n => y = i) /\ (i >= n => y = i + 1)
    BY <1>3
  <2>3. x < y
    BY <1>1, <1>2, <1>7, <2>1, <2>2
  <2>4. QED
    BY <2>1, <2>2, <2>3 DEF ListOK
<1>8. QED
  BY <1>2, <1>5, <1>6, <1>7 DEF ListOK, t

LEMMA ReplacedOK ==
  ASSUME NEW b \in Bus, NEW q, ListOK(b, q), NEW n \in 1 .. Len(q),
         NEW c \in FreeBlock, IsFreeBlock(b, c),
         q[n].start <= c.start, c.end <= q[n].end
  PROVE  /\ ListOK(b, Replaced(q, n, c)) /\ Len(Replaced(q, n, c)) = Len(q)
         /\ Replaced(q, n, c)[n] = c
         /\ \A j \in (1 .. Len(q)) \ {n} : Replaced(q, n, c)[j] = q[j]
         /\ BlocksOf(Replaced(q, n, c)) = Others(q, n) \union {c}
<1> DEFINE t == Replaced(q, n, c)
<1>1. q \in Seq(FreeBlock) /\ Len(q) \in Nat
  BY DEF ListOK
<1>2. /\ t \in Seq(FreeBlock) /\ Len(t) = Len(q) /\ t[n] = c
      /\ \A j \in (1 .. Len(q)) \ {n} : t[j] = q[j]
  BY <1>1 DEF Replaced
<1> HIDE DEF t
<1>3. BlocksOf(t) = Others(q, n) \union {c}
  BY <1>2 DEF BlocksOf, Others
<1>4. \A i \in 1 .. Len(t) : IsFreeBlock(b, t[i])
  BY <1>2 DEF ListOK
<1>5. ASSUME NEW k \in 1 .. Len(t), NEW i \in 1 .. Len(t), k < i
      PROVE  t[k].end + 1 < t[i].start
  <2>1. q[k].end + 1 < q[i].start
    BY <1>2, <1>5 DEF ListOK
  <2>2. ASSUME NEW j \in 1 .. Len(q)
        PROVE  /\ t[j].end <= q[j].end /\ q[j].start <= t[j].start
               /\ t[j].end \in Nat /\ q[j].end \in Nat /\ q[j].start \in Nat /\ t[j].start \in Nat
    <3>1. q[j].end \in Nat /\ q[j].start \in Nat /\ c.end \in Nat /\ c.start \in Nat
      BY Elements DEF FreeBlock
    <3>2. CASE j = n
      BY <1>2, <3>1, <3>2
    <3>3. CASE j # n
      BY <1>2, <3>1, <3>3
    <3>4. QED
      BY <3>2, <3>3
  <2>3. QED
    <3>1. k \in 1 .. Len(q) /\ i \in 1 .. Len(q)
      BY <1>2
    <3>2. t[k].end <= q[k].end /\ t[k].end \in Nat /\ q[k].end \in Nat
      BY <2>2, <3>1
    <3>3. q[i].start <= t[i].start /\ q[i].start \in Nat /\ t[i].start \in Nat
      BY <2>2, <3>1
    <3>4. QED
      BY <2>1, <3>2, <3>3, Between, Zenon
<1>6. QED
  BY <1>2, <1>3, <1>4, <1>5 DEF ListOK, t

LEMMA InsertedOK ==
  ASSUME NEW b, NEW q, NEW n, NEW d, GapHolds(b, q, n, d)
  PROVE  /\ ListOK(b, InsertAt(q, n + 1, d))
         /\ InsertAt(q, n + 1, d)[n] = q[n] /\ InsertAt(q, n + 1, d)[n + 1] = d
         /\ BlocksOf(InsertAt(q, n + 1, d)) = BlocksOf(q) \union {d}
<1> DEFINE t == InsertAt(q, n + 1, d)
<1> USE DEF GapHolds
<1>1. q \in Seq(FreeBlock) /\ Len(q) \in Nat /\ n + 1 \in 1 .. Len(q) + 1
  BY DEF ListOK
<1>2. /\ t \in Seq(FreeBlock) /\ Len(t) = Len(q) + 1
      /\ \A i \in 1 .. Len(q) + 1 :
           t[i] = IF i < n + 1 THEN q[i] ELSE IF i = n + 1 THEN d ELSE q[i - 1]
  <2>1. ASSUME NEW k \in 1 .. Len(q) + 1
        PROVE  /\ InsertAt(q, k, d) \in Seq(FreeBlock) /\ Len(InsertAt(q, k, d)) = Len(q) + 1
               /\ \A i \in 1 .. Len(q) + 1 : InsertAt(q, k, d)[i] =
                    IF i < k THEN q[i] ELSE IF i = k THEN d ELSE q[i - 1]
    BY <1>1, Inserted
  <2>2. QED
    BY <1>1, <2>1
<1> HIDE DEF t
<1>3. ASSUME NEW i \in 1 .. Len(t)
      PROVE  \/ i < n + 1 /\ t[i] = q[i] /\ i \in 1 .. Len(q)
             \/ i = n + 1 /\ t[i] = d
             \/ i > n + 1 /\ t[i] = q[i - 1] /\ i - 1 \in 1 .. Len(q)
  BY <1>1, <1>2
<1>4. t[n] = q[n] /\ t[n + 1] = d
  BY <1>1, <1>2
<1>5. ASSUME NEW j \in 1 .. Len(q)
      PROVE  \E i \in 1 .. Len(t) : t[i] = q[j]
  <2>1. CASE j < n + 1
    <3>1. j \in 1 .. Len(t) /\ t[j] = q[j]
      BY <1>1, <1>2, <2>1
    <3>2. QED
      BY <3>1
  <2>2. CASE j >= n + 1
    <3>1. /\ j + 1 \in 1 .. Len(t) /\ ~(j + 1 < n + 1) /\ j + 1 # n + 1
          /\ (j + 1) - 1 = j
      BY <1>1, <1>2, <2>2
    <3>2. t[j + 1] = q[j]
      BY <1>2, <3>1
    <3>3. QED
      BY <3>1, <3>2
  <2>3. QED
    BY <1>1, <2>1, <2>2
<1>6. BlocksOf(t) = BlocksOf(q) \union {d}
  <2>1. n + 1 \in 1 .. Len(t)
    BY <1>1, <1>2
  <2>2. \A i \in 1 .. Len(t) : t[i] = d \/ \E j \in 1 .. Len(q) : t[i] = q[j]
    BY <1>3
  <2>3. \A j \in 1 .. Len(q) : \E i \in 1 .. Len(t) : t[i] = q[j]
    BY <1>5
  <2>4. ASSUME NEW x \in BlocksOf(t) PROVE x \in BlocksOf(q) \union {d}
    <3>1. PICK i \in 1 .. Len(t) : x = t[i]
      BY DEF BlocksOf
    <3>2. QED
      BY <2>2, <3>1 DEF BlocksOf
  <2>5. ASSUME NEW x \in BlocksOf(q) PROVE x \in BlocksOf(t)
    <3>1. PICK j \in 1 .. Len(q) : x = q[j]
      BY DEF BlocksOf
    <3>2. QED
      BY <2>3, <3>1 DEF BlocksOf
  <2>6. d \in BlocksOf(t)
    BY <1>4, <2>1 DEF BlocksOf
  <2>7. QED
    BY <2>4, <2>5, <2>6
<1>7. \A i \in 1 .. Len(t) : IsFreeBlock(b, t[i])
  BY <1>3 DEF ListOK
<1>8. ASSUME NEW k \in 1 .. Len(t), NEW i \in 1 .. Len(t), k < i
      PROVE  t[k].end + 1 < t[i].start
  <2>1. /\ \A j \in 1 .. Len(q) : q[j].end \in Nat /\ q[j].start \in Nat /\ q[j].start <= q[j].end
        /\ d.start \in Nat /\ d.end \in Nat
    BY Elements DEF FreeBlock
  <2>2. \A x, y \in 1 .. Len(q) : x < y => q[x].end + 1 < q[y].start
    BY DEF ListOK
  <2>3. CASE i < n + 1
    BY <1>1, <1>2, <1>3, <1>8, <2>2, <2>3
  <2>4. CASE i = n + 1
    <3>1. t[k] = q[k] /\ k \in 1 .. Len(q) /\ k <= n
      BY <1>1, <1>2, <1>8, <2>4
    <3>2. q[k].end + 1 <= q[n].end + 1
      <4>1. CASE k = n
        BY <2>1, <4>1
      <4>2. CASE k < n
        <5>1. q[k].end + 1 < q[n].start /\ q[n].start <= q[n].end
          BY <2>1, <2>2, <3>1, <4>2
        <5>2. QED
          BY <2>1, <3>1, <5>1, SMTT(30)
      <4>3. QED
        BY <3>1, <4>1, <4>2
    <3>3. QED
      BY <1>4, <2>1, <2>4, <3>1, <3>2, SMTT(30)
  <2>5. CASE i > n + 1
    <3>1. t[i] = q[i - 1] /\ i - 1 \in 1 .. Len(q) /\ n < i - 1
      BY <1>1, <1>2, <2>5
    <3>2. CASE k < n + 1
      <4>1. t[k] = q[k] /\ k \in 1 .. Len(q) /\ k < i - 1
        BY <1>1, <1>2, <2>5, <3>2
      <4>2. QED
        BY <2>2, <3>1, <4>1
    <3>3. CASE k = n + 1
      <4>1. t[k] = d /\ n + 1 \in 1 .. Len(q) /\ n + 1 <= i - 1 /\ n < Len(q)
        BY <1>1, <1>4, <3>1, <3>3
      <4>2. q[n + 1].start <= q[i - 1].start
        <5>1. CASE n + 1 = i - 1
          BY <2>1, <4>1, <5>1
        <5>2. CASE n + 1 < i - 1
          <6>1. /\ q[n + 1].end + 1 < q[i - 1].start /\ q[n + 1].start <= q[n + 1].end
                /\ q[n + 1].end \in Nat /\ q[n + 1].start \in Nat /\ q[i - 1].start \in Nat
            BY <2>1, <2>2, <3>1, <4>1, <5>2
          <6>2. QED
            BY <6>1, SMTT(30)
        <5>3. n + 1 = i - 1 \/ n + 1 < i - 1
          BY <1>1, <1>2, <4>1
        <5>4. QED
          BY <5>1, <5>2, <5>3
      <4>3. d.end + 1 < q[n + 1].start /\ q[n + 1].start \in Nat /\ q[i - 1].start \in Nat
        BY <2>1, <3>1, <4>1
      <4>4. d.end + 1 < q[i - 1].start
        <5>1. d.end \in Nat
          BY <2>1
        <5>2. QED
          BY <4>2, <4>3, <5>1, Before, Zenon
      <4>5. QED
        BY <3>1, <4>1, <4>4, Zenon
    <3>4. CASE k > n + 1
      <4>1. t[k] = q[k - 1] /\ k - 1 \in 1 .. Len(q) /\ k - 1 < i - 1
        BY <1>1, <1>2, <1>3, <1>8, <3>4
      <4>2. QED
        BY <2>2, <3>1, <4>1
    <3>5. QED
      BY <1>1, <3>2, <3>3, <3>4
  <2>6. QED
    BY <1>1, <2>3, <2>4, <2>5
<1>9. QED
  BY <1>2, <1>4, <1>6, <1>7, <1>8 DEF ListOK, t

-----------------------------------------------------------------------------
(* What is taken out of a list                                             *)

\* C is what remains of a block when bytes from an address on are cut out.
Remains(f, at, bytes, C) ==
  /\ C \subseteq FreeBlock
  /\ \A c \in C : /\ f.start <= c.start /\ c.start <= c.end /\ c.end <= f.end
                  /\ c.bytes = c.end - c.start + 1
                  /\ c.end < at \/ at + bytes <= c.start
  /\ \A x \in f.start .. f.end :
       x \in at .. at + bytes - 1 \/ \E c \in C : x \in c.start .. c.end

\* The n-th block of a list is replaced by what remains of it.
TakenAs(b, q, n, at, bytes, t) ==
  /\ ListOK(b, t)
  /\ \E C \in SUBSET FreeBlock :
       /\ Remains(q[n], at, bytes, C)
       /\ BlocksOf(t) = Others(q, n) \union C

LEMMA BlockIs ==
  ASSUME NEW start \in 1 .. Top - 1, NEW end \in 1 .. Top - 1, start <= end
  PROVE  /\ Block(start, end) = [start |-> start, end |-> end, bytes |-> end - start + 1]
         /\ Block(start, end) \in FreeBlock
<1>1. end - start + 1 \in 0 .. Top - 1 /\ Top \in Nat
  BY MemoryAssumption
<1>2. Word(end - start + 1) = end - start + 1
  BY <1>1, WordIs
<1>3. Block(start, end) = [start |-> start, end |-> end, bytes |-> end - start + 1]
  BY <1>2 DEF Block
<1>4. start \in Nat /\ end \in Nat /\ end - start + 1 \in Nat
  BY <1>1
<1>5. QED
  BY <1>3, <1>4 DEF FreeBlock

\* In a list with gaps Add joins nothing.
LEMMA AddInside ==
  ASSUME NEW b \in Bus, NEW q, ListOK(b, q), NEW n \in 1 .. Len(q) - 1,
         NEW start \in 1 .. Top - 1, NEW end \in 1 .. Top - 1, start <= end,
         q[n].end + 1 < start, end + 1 < q[n + 1].start
  PROVE  Add(q, start, end, n) = InsertAt(q, n + 1, Block(start, end))
<1> DEFINE d == Block(start, end)
           t == InsertAt(q, n + 1, d)
<1>1. /\ q \in Seq(FreeBlock) /\ Len(q) \in Nat /\ n \in 1 .. Len(q) /\ n + 1 \in 1 .. Len(q)
      /\ n \in Nat /\ n # Len(q) /\ Top \in Nat
  BY Elements, MemoryAssumption
<1>2. q # << >>
  BY <1>1
<1>3. d \in FreeBlock /\ d.start = start /\ d.end = end
  BY BlockIs
<1>4. /\ q[n + 1].start \in 1 .. Top - 1 /\ q[n].end \in 1 .. Top - 1
  BY <1>1, Elements, FreeBlockIs
<1>5. Word(q[n + 1].start - 1) = q[n + 1].start - 1
  <2>1. q[n + 1].start - 1 \in 0 .. Top - 1
    BY <1>1, <1>4
  <2>2. QED
    BY <2>1, WordIs
<1>6. Word(start - 1) = start - 1
  <2>1. start - 1 \in 0 .. Top - 1
    BY <1>1
  <2>2. QED
    BY <2>1, WordIs
<1> HIDE DEF d
<1>7. t[n] = q[n] /\ t[n + 1] = d
  <2>1. ASSUME NEW k \in 1 .. Len(q) + 1
        PROVE  /\ \A i \in 1 .. Len(q) + 1 : InsertAt(q, k, d)[i] =
                    IF i < k THEN q[i] ELSE IF i = k THEN d ELSE q[i - 1]
    BY <1>1, <1>3, Inserted
  <2>2. n + 1 \in 1 .. Len(q) + 1 /\ n \in 1 .. Len(q) + 1 /\ n < n + 1
    BY <1>1
  <2>3. QED
    BY <2>1, <2>2
<1>8. Joined(t, n + 1) = t
  <2>1. (n + 1) - 1 = n
    BY <1>1
  <2>2. t[(n + 1) - 1].end # Word(t[n + 1].start - 1)
    BY <1>3, <1>4, <1>6, <1>7, <2>1
  <2>3. QED
    BY <2>2 DEF Joined
<1>9. end # Word(q[n + 1].start - 1)
  BY <1>1, <1>4, <1>5
<1>10. Add(q, start, end, n) = Joined(t, n + 1)
  BY <1>1, <1>2, <1>9 DEF Add, d
<1>11. QED
  BY <1>8, <1>10 DEF d

\* A block is cut at its beginning, or at its end.
LEMMA StartChanged ==
  ASSUME NEW q, NEW n, NEW lo, NEW hi, NEW z, NEW x, NEW y, q[n] = Record(lo, hi, z)
  PROVE  StartCut(q, n, x, y) = Replaced(q, n, Record(x, hi, Word(z - y)))
<1> DEFINE f == Record(lo, hi, z)
           g == Record(x, hi, z)
<1>1. [f EXCEPT !.start = x] = g
  BY DEF Record
<1>2. [g EXCEPT !.bytes = Word(z - y)] = Record(x, hi, Word(z - y))
  BY DEF Record
<1>3. q[n].bytes = z
  BY DEF Record
<1>4. StartCut(q, n, x, y)
        = Replaced(q, n, [[q[n] EXCEPT !.start = x] EXCEPT !.bytes = Word(q[n].bytes - y)])
  BY DEF StartCut, Replaced
<1> HIDE DEF f, g
<1>5. QED
  BY <1>1, <1>2, <1>3, <1>4, Zenon DEF f

LEMMA EndChanged ==
  ASSUME NEW q, NEW n, NEW lo, NEW hi, NEW z, NEW x, NEW y, q[n] = Record(lo, hi, z)
  PROVE  EndCut(q, n, x, y) = Replaced(q, n, Record(lo, x, Word(z - y)))
<1> DEFINE f == Record(lo, hi, z)
           g == Record(lo, x, z)
<1>1. [f EXCEPT !.end = x] = g
  BY DEF Record
<1>2. [g EXCEPT !.bytes = Word(z - y)] = Record(lo, x, Word(z - y))
  BY DEF Record
<1>3. q[n].bytes = z
  BY DEF Record
<1>4. EndCut(q, n, x, y)
        = Replaced(q, n, [[q[n] EXCEPT !.end = x] EXCEPT !.bytes = Word(q[n].bytes - y)])
  BY DEF EndCut, Replaced
<1> HIDE DEF f, g
<1>5. QED
  BY <1>1, <1>2, <1>3, <1>4, Zenon DEF f

LEMMA TakenOK ==
  ASSUME NEW b \in Bus, NEW q, ListOK(b, q), NEW n \in 1 .. Len(q),
         NEW at \in Nat, NEW bytes \in Nat \ {0},
         q[n].start <= at, at + bytes - 1 <= q[n].end
  PROVE  TakenAs(b, q, n, at, bytes, Taken(q, n, at, bytes))
<1> DEFINE f == q[n]
<1>1. /\ q \in Seq(FreeBlock) /\ Len(q) \in Nat /\ f \in FreeBlock /\ IsFreeBlock(b, f)
  BY Elements
<1>2. /\ f.start \in 1 .. Top - 1 /\ f.end \in 1 .. Top - 1 /\ f.start <= f.end
      /\ Region[b].start <= f.start /\ f.end <= Region[b].end
      /\ f.bytes = f.end - f.start + 1 /\ Top \in Nat
      /\ Region[b].start \in 1 .. Top - 1 /\ Region[b].end \in 1 .. Top - 1
  BY <1>1, FreeBlockIs, Regions
<1>3. PICK lo \in 1 .. Top - 1, hi \in 1 .. Top - 1 :
        /\ f = [start |-> lo, end |-> hi, bytes |-> hi - lo + 1]
        /\ lo <= hi /\ Region[b].start <= lo /\ hi <= Region[b].end
  <2>1. f = [start |-> f.start, end |-> f.end, bytes |-> f.end - f.start + 1]
    BY <1>1, <1>2 DEF FreeBlock
  <2>2. QED
    BY <1>2, <2>1
<1>4. /\ lo <= at /\ at + bytes - 1 <= hi /\ lo \in Nat /\ hi \in Nat /\ Top \in Nat
      /\ lo \in 1 .. Top - 1 /\ hi \in 1 .. Top - 1 /\ bytes >= 1 /\ lo <= hi
      /\ f.start = lo /\ f.end = hi /\ f.bytes = hi - lo + 1
      /\ q[n].start = lo /\ q[n].end = hi /\ q[n].bytes = hi - lo + 1
      /\ at \in 1 .. Top - 1 /\ at + bytes - 1 \in 1 .. Top - 1 /\ bytes <= hi - lo + 1
  BY <1>2, <1>3
<1> HIDE DEF f
\* A block is in its region.
<1>5. ASSUME NEW s \in 1 .. Top - 1, NEW t \in 1 .. Top - 1, s <= t, lo <= s, t <= hi
      PROVE  /\ Block(s, t) = [start |-> s, end |-> t, bytes |-> t - s + 1]
             /\ Block(s, t) \in FreeBlock /\ IsFreeBlock(b, Block(s, t))
  <2>1. /\ Block(s, t) = [start |-> s, end |-> t, bytes |-> t - s + 1]
        /\ Block(s, t) \in FreeBlock
    BY <1>5, BlockIs
  <2>2. s \in Region[b].start .. Region[b].end /\ t \in s .. Region[b].end
    BY <1>2, <1>3, <1>4, <1>5
  <2>3. QED
    BY <2>1, <2>2 DEF IsFreeBlock
\* One block remains.
<1>6. ASSUME NEW c \in FreeBlock, IsFreeBlock(b, c), lo <= c.start, c.end <= hi,
             Remains(f, at, bytes, {c})
      PROVE  TakenAs(b, q, n, at, bytes, Replaced(q, n, c))
  <2>1. /\ ListOK(b, Replaced(q, n, c))
        /\ BlocksOf(Replaced(q, n, c)) = Others(q, n) \union {c}
    <3>1. q[n].start <= c.start /\ c.end <= q[n].end
      BY <1>4, <1>6
    <3>2. IsFreeBlock(b, c)
      BY <1>6
    <3>3. QED
      BY <3>1, <3>2, ReplacedOK
  <2>2. {c} \in SUBSET FreeBlock
    OBVIOUS
  <2>3. QED
    BY <1>6, <2>1, <2>2 DEF TakenAs, f
<1>7. CASE bytes = (hi - lo + 1)
  <2>1. at = lo /\ at + bytes - 1 = hi
    BY <1>4, <1>7
  <2>2. Taken(q, n, at, bytes) = RemoveAt(q, n)
    BY <1>4, <1>7 DEF Taken
  <2>3. ListOK(b, RemoveAt(q, n)) /\ BlocksOf(RemoveAt(q, n)) = Others(q, n) \union {}
    BY RemovedOK
  <2>4. Remains(f, at, bytes, {})
    BY <1>4, <2>1 DEF Remains
  <2>5. {} \in SUBSET FreeBlock
    OBVIOUS
  <2>6. QED
    BY <2>2, <2>3, <2>4, <2>5, Zenon DEF TakenAs, f
<1>8. CASE bytes # (hi - lo + 1) /\ at = lo
  <2> DEFINE c == Block(at + bytes, hi)
  <2>1. at + bytes \in 1 .. Top - 1 /\ at + bytes <= hi /\ lo <= at + bytes
    BY <1>4, <1>8
  <2>2. /\ c = [start |-> at + bytes, end |-> hi, bytes |-> hi - (at + bytes) + 1]
        /\ c \in FreeBlock /\ IsFreeBlock(b, c)
    BY <1>4, <1>5, <2>1
  <2>3. /\ Word(at + bytes) = at + bytes
        /\ Word((hi - lo + 1) - bytes) = hi - (at + bytes) + 1
    <3>1. /\ at + bytes \in 0 .. Top - 1 /\ (hi - lo + 1) - bytes \in 0 .. Top - 1
          /\ (hi - lo + 1) - bytes = hi - (at + bytes) + 1
      BY <1>4, <1>8, <2>1
    <3>2. QED
      BY <3>1, WordIs
  <2>4. Taken(q, n, at, bytes) = Replaced(q, n, c)
    <3>1. q[n] = Record(lo, hi, hi - lo + 1)
      BY <1>3 DEF Record, f
    <3>2. StartCut(q, n, Word(at + bytes), bytes) = Replaced(q, n, Record(Word(at + bytes), hi, Word((hi - lo + 1) - bytes)))
      BY <3>1, StartChanged
    <3>3. c = Record(Word(at + bytes), hi, Word((hi - lo + 1) - bytes))
      BY <2>2, <2>3, Zenon DEF Record
    <3>4. Taken(q, n, at, bytes) = StartCut(q, n, Word(at + bytes), bytes)
      BY <1>4, <1>8 DEF Taken, StartCut
    <3>5. QED
      BY <3>2, <3>3, <3>4, Zenon
  <2>5. Remains(f, at, bytes, {c})
    BY <1>4, <1>8, <2>1, <2>2 DEF Remains
  <2>6. lo <= c.start /\ c.end <= hi
    BY <1>4, <2>1, <2>2, SMTT(30)
  <2> HIDE DEF c
  <2>7. QED
    BY <1>6, <2>2, <2>4, <2>5, <2>6
<1>9. CASE bytes # (hi - lo + 1) /\ at # lo /\ at + bytes - 1 = hi
  <2> DEFINE c == Block(lo, at - 1)
  <2>1. at - 1 \in 1 .. Top - 1 /\ lo <= at - 1 /\ at - 1 <= hi
    BY <1>4, <1>9, SMTT(30)
  <2>2. /\ c = [start |-> lo, end |-> at - 1, bytes |-> at - 1 - lo + 1]
        /\ c \in FreeBlock /\ IsFreeBlock(b, c)
    BY <1>4, <1>5, <2>1
  <2>3. /\ Word(at + bytes - 1) = hi /\ Word(at - 1) = at - 1
        /\ Word((hi - lo + 1) - bytes) = at - 1 - lo + 1
    <3>1. /\ at + bytes - 1 \in 0 .. Top - 1 /\ (hi - lo + 1) - bytes \in 0 .. Top - 1
          /\ at - 1 \in 0 .. Top - 1
          /\ (hi - lo + 1) - bytes = at - 1 - lo + 1
      BY <1>4, <1>9, <2>1
    <3>2. QED
      BY <1>9, <3>1, WordIs
  <2>4. Taken(q, n, at, bytes) = Replaced(q, n, c)
    <3>1. q[n] = Record(lo, hi, hi - lo + 1)
      BY <1>3 DEF Record, f
    <3>2. EndCut(q, n, Word(at - 1), bytes) = Replaced(q, n, Record(lo, Word(at - 1), Word((hi - lo + 1) - bytes)))
      <4>1. ASSUME NEW x
            PROVE  EndCut(q, n, x, bytes) = Replaced(q, n, Record(lo, x, Word((hi - lo + 1) - bytes)))
        <5> DEFINE z == hi - lo + 1
        <5>1. q[n] = Record(lo, hi, z)
          BY <3>1
        <5> HIDE DEF z
        <5>2. EndCut(q, n, x, bytes) = Replaced(q, n, Record(lo, x, Word(z - bytes)))
          BY <5>1, EndChanged
        <5>3. QED
          BY <5>2 DEF z
      <4>2. QED
        BY <4>1, Zenon
    <3>3. c = Record(lo, Word(at - 1), Word((hi - lo + 1) - bytes))
      BY <2>2, <2>3, Zenon DEF Record
    <3>4. Taken(q, n, at, bytes) = EndCut(q, n, Word(at - 1), bytes)
      BY <1>4, <1>9, <2>3 DEF Taken, EndCut
    <3>5. QED
      BY <3>2, <3>3, <3>4, Zenon
  <2>5. Remains(f, at, bytes, {c})
    BY <1>4, <1>9, <2>1, <2>2 DEF Remains
  <2>6. lo <= c.start /\ c.end <= hi
    BY <1>4, <2>1, <2>2, SMTT(30)
  <2> HIDE DEF c
  <2>7. QED
    BY <1>6, <2>2, <2>4, <2>5, <2>6
<1>10. CASE bytes # (hi - lo + 1) /\ at # lo /\ at + bytes - 1 # hi
  <2> DEFINE c == Block(lo, at - 1)
             d == Block(at + bytes, hi)
             low == Replaced(q, n, c)
             t == InsertAt(low, n + 1, d)
  <2>1. /\ at - 1 \in 1 .. Top - 1 /\ lo <= at - 1 /\ at - 1 <= hi
        /\ at + bytes \in 1 .. Top - 1 /\ lo <= at + bytes /\ at + bytes <= hi
    BY <1>4, <1>10, SMTT(30)
  <2>2. /\ c = [start |-> lo, end |-> at - 1, bytes |-> at - 1 - lo + 1]
        /\ c \in FreeBlock /\ IsFreeBlock(b, c)
    BY <1>4, <1>5, <2>1
  <2>3. /\ d = [start |-> at + bytes, end |-> hi, bytes |-> hi - (at + bytes) + 1]
        /\ d \in FreeBlock /\ IsFreeBlock(b, d)
    BY <1>4, <1>5, <2>1
  <2>4. /\ Word(at - 1) = at - 1 /\ Word(at + bytes) = at + bytes
        /\ Word(at + bytes - 1) = at + bytes - 1
    <3>1. /\ at - 1 \in 0 .. Top - 1 /\ at + bytes \in 0 .. Top - 1
          /\ at + bytes - 1 \in 0 .. Top - 1
      BY <1>4, <2>1
    <3>2. QED
      BY <3>1, WordIs
  <2>5. Taken(q, n, at, bytes) = IF n # Len(q) THEN Add(low, at + bytes, hi, n)
                                 ELSE Append(low, d)
    BY <1>4, <1>10, <2>4, Zenon DEF Taken, Replaced
  <2>6. c.start = lo /\ c.end = at - 1 /\ d.start = at + bytes /\ d.end = hi
    BY <2>2, <2>3, SMTT(30)
  <2> HIDE DEF c, d
  <2>7. /\ ListOK(b, low) /\ Len(low) = Len(q) /\ low[n] = c
        /\ \A j \in (1 .. Len(q)) \ {n} : low[j] = q[j]
        /\ BlocksOf(low) = Others(q, n) \union {c}
    <3>1. q[n].start <= c.start /\ c.end <= q[n].end
      BY <1>4, <2>1, <2>6
    <3>2. c \in FreeBlock /\ IsFreeBlock(b, c)
      BY <2>2
    <3>3. QED
      BY <3>1, <3>2, ReplacedOK DEF low
  <2> HIDE DEF low
  <2>8. low[n].end + 1 < d.start
    BY <1>4, <2>6, <2>7
  <2>9. n < Len(low) => d.end + 1 < low[n + 1].start
    <3>1. SUFFICES ASSUME n < Len(low) PROVE d.end + 1 < low[n + 1].start
      OBVIOUS
    <3>2. n + 1 \in (1 .. Len(q)) \ {n} /\ n < n + 1 /\ n \in 1 .. Len(q)
      BY <1>1, <2>7, <3>1
    <3>3. q[n].end + 1 < q[n + 1].start
      BY <3>2 DEF ListOK
    <3>4. QED
      BY <1>4, <2>6, <2>7, <3>2, <3>3
  <2>10. /\ ListOK(b, t) /\ BlocksOf(t) = BlocksOf(low) \union {d}
    <3>1. /\ n \in 1 .. Len(low) /\ ListOK(b, low)
          /\ d \in FreeBlock /\ IsFreeBlock(b, d)
      BY <2>3, <2>7
    <3>2. GapHolds(b, low, n, d)
      BY <2>8, <2>9, <3>1 DEF GapHolds
    <3>3. QED
      BY <3>2, InsertedOK, SMTT(30)
  <2>11. Taken(q, n, at, bytes) = t
    <3>1. low \in Seq(FreeBlock) /\ Len(low) \in Nat
      BY <2>7 DEF ListOK
    <3>2. CASE n = Len(q)
      <4>1. Append(low, d) = InsertAt(low, Len(low) + 1, d)
        BY <2>3, <3>1, Appended
      <4>2. QED
        BY <2>5, <2>7, <3>2, <4>1, Zenon
    <3>3. CASE n # Len(q)
      <4>1. n \in 1 .. Len(low) - 1 /\ n < Len(low)
        BY <1>1, <2>7, <3>3
      <4>2. low[n].end + 1 < at + bytes /\ hi + 1 < low[n + 1].start
        BY <2>6, <2>8, <2>9, <4>1
      <4>3. /\ ListOK(b, low) /\ at + bytes <= hi
            /\ at + bytes \in 1 .. Top - 1 /\ hi \in 1 .. Top - 1
        BY <1>4, <2>1, <2>7
      <4>4. ASSUME NEW s \in 1 .. Top - 1, s <= hi, low[n].end + 1 < s
            PROVE  Add(low, s, hi, n) = InsertAt(low, n + 1, Block(s, hi))
        <5>1. b \in Bus /\ n \in 1 .. Len(low) - 1 /\ hi \in 1 .. Top - 1 /\ ListOK(b, low)
              /\ hi + 1 < low[n + 1].start
          BY <4>1, <4>2, <4>3
        <5>2. QED
          BY <4>4, <5>1, AddInside
      <4>5. QED
        BY <2>5, <3>3, <4>2, <4>3, <4>4, Zenon DEF d
    <3>4. QED
      BY <3>2, <3>3
  <2>12. Remains(f, at, bytes, {c, d})
    BY <1>4, <1>10, <2>1, <2>2, <2>3, SMTT(30) DEF Remains, c, d
  <2>13. {c, d} \in SUBSET FreeBlock
    BY <2>2, <2>3
  <2>14. BlocksOf(t) = Others(q, n) \union {c, d}
    BY <2>7, <2>10
  <2>15. QED
    BY <2>10, <2>11, <2>12, <2>13, <2>14, Zenon DEF TakenAs, f
<1>11. QED
  BY <1>7, <1>8, <1>9, <1>10
-----------------------------------------------------------------------------
(* A request that is granted                                               *)

\* Where memory of the n-th block of a bus is granted.
GrantedIn(b, n, at, bytes) ==
  /\ n \in 1 .. Len(free[b])
  /\ at \in 1 .. Top - 1 /\ bytes \in 1 .. Top - 1
  /\ free[b][n].start <= at /\ at + bytes - 1 <= free[b][n].end

LEMMA CandidateIs ==
  ASSUME MemoryInv, AligningStays, NEW b \in Bus, NEW bytes \in 1 .. Top - 1,
         NEW alignment \in Alignments,
         NEW n \in Candidates(b, bytes, Strict(alignment)),
         NEW at, at = AlignAddress(free[b][n].start, Strict(alignment))
  PROVE  GrantedIn(b, n, at, bytes) /\ at % Strict(alignment) = 0
<1> DEFINE m == Strict(alignment)
           f == free[b][n]
<1>1. /\ ListOK(b, free[b]) /\ n \in DOMAIN free[b] /\ m \in PowersOfTwo
      /\ Fits(f, bytes, m)
  BY DEF MemoryInv, Candidates
<1>2. free[b] \in Seq(FreeBlock) /\ n \in 1 .. Len(free[b])
  BY <1>1 DEF ListOK
<1>3. f \in FreeBlock /\ IsFreeBlock(b, f)
  BY <1>1, <1>2, Elements
<1> HIDE DEF f
<1>4. /\ f.start \in 1 .. Top - 1 /\ f.end \in 1 .. Top - 1 /\ f.start <= f.end
      /\ f.end <= Region[b].end /\ Region[b].end \in 1 .. Top - 1 /\ Top \in Nat
  BY <1>3, FreeBlockIs, Regions
<1>5. m \in Nat \ {0} /\ Region[b].end + m <= Top
  BY <1>1, MemoryAssumption DEF AligningStays
<1> HIDE DEF m
<1>6. f.start \in Nat /\ f.start + m <= Top
  BY <1>4, <1>5
<1>7. at = AlignAddress(f.start, m)
  BY DEF f, m
<1>8. at \in Nat /\ f.start <= at /\ at % m = 0
  BY <1>5, <1>6, <1>7, Aligned
<1>9. at <= f.end /\ Word(f.end - at + 1) >= bytes
  BY <1>1, <1>7 DEF Fits
<1>10. f.end - at + 1 \in 0 .. Top - 1
  BY <1>4, <1>8, <1>9
<1>11. Word(f.end - at + 1) = f.end - at + 1
  BY <1>10, WordIs
<1>12. at \in 1 .. Top - 1 /\ at + bytes - 1 <= f.end
  BY <1>4, <1>8, <1>9, <1>11
<1>13. QED
  BY <1>2, <1>8, <1>12 DEF GrantedIn, f, m

LEMMA NothingEntered ==
  ASSUME NEW x
  PROVE  AddAllocatedBlock(<< >>, x) = << >>
<1>1. DOMAIN << >> = {}
  OBVIOUS
<1>2. {n \in DOMAIN << >> : << >>[n].start > x.start} = {}
  BY <1>1, Zenon
<1>3. QED
  BY <1>2, Zenon DEF AddAllocatedBlock

\* Blocks of different buses, and different blocks of one, are apart.
LEMMA BlocksApart ==
  ASSUME MemoryInv, NEW b \in Bus, NEW n \in 1 .. Len(free[b]),
         NEW c \in Bus, NEW g \in BlocksOf(free[c]),
         c # b \/ g \in Others(free[b], n)
  PROVE  g.end < free[b][n].start \/ free[b][n].end < g.start
<1> DEFINE f == free[b][n]
<1>1. ListOK(b, free[b]) /\ ListOK(c, free[c])
  BY DEF MemoryInv
<1>2. f \in FreeBlock /\ IsFreeBlock(b, f)
  BY <1>1, Elements
<1>3. g \in FreeBlock /\ IsFreeBlock(c, g)
  BY <1>1, Elements DEF BlocksOf
<1>4. CASE c # b
  <2>1. /\ Region[b].start <= f.start /\ f.end <= Region[b].end
        /\ Region[c].start <= g.start /\ g.end <= Region[c].end
        /\ f.start \in Nat /\ f.end \in Nat /\ g.start \in Nat /\ g.end \in Nat
    BY <1>2, <1>3, FreeBlockIs
  <2>2. Region["main"].end < Region["system"].start
    BY MemoryAssumption
  <2>3. /\ Region[b].start \in Nat /\ Region[b].end \in Nat
        /\ Region[c].start \in Nat /\ Region[c].end \in Nat
    BY Regions
  <2>4. (b = "main" /\ c = "system") \/ (b = "system" /\ c = "main")
    BY <1>4 DEF Bus
  <2> HIDE DEF f
  <2>5. Region[b].end < Region[c].start \/ Region[c].end < Region[b].start
    BY <2>2, <2>4
  <2>6. g.end < f.start \/ f.end < g.start
    BY <2>1, <2>3, <2>5, SMTT(30)
  <2>7. QED
    BY <2>6 DEF f
<1>5. CASE g \in Others(free[b], n)
  <2>1. PICK j \in (1 .. Len(free[b])) \ {n} : g = free[b][j]
    BY <1>5 DEF Others
  <2>2. Len(free[b]) \in Nat
    BY <1>1, Elements
  <2>3. j < n \/ n < j
    BY <2>2
  <2>4. j < n => free[b][j].end + 1 < free[b][n].start
    BY <1>1 DEF ListOK
  <2>5. n < j => free[b][n].end + 1 < free[b][j].start
    BY <1>1 DEF ListOK
  <2>6. g.start \in Nat /\ g.end \in Nat /\ f.start \in Nat /\ f.end \in Nat
    BY <1>2, <1>3 DEF FreeBlock
  <2>7. QED
    BY <2>1, <2>3, <2>4, <2>5, <2>6
<1>6. QED
  BY <1>4, <1>5

\* The list of the bus is cut, and the request gets what was cut out.
LEMMA GrantStep ==
  ASSUME MemoryInv, NEW b \in Bus, NEW n, NEW at, NEW bytes,
         GrantedIn(b, n, at, bytes), Allocate(b, n, bytes, at)
  PROVE  /\ free' \in [Bus -> Seq(FreeBlock)] /\ allocated' = allocated
         /\ \A c \in Bus : c # b => free'[c] = free[c]
         /\ TakenAs(b, free[b], n, at, bytes, free'[b])
         /\ \A c \in Bus : ListOK(c, free'[c])
<1>1. /\ free \in [Bus -> Seq(FreeBlock)] /\ allocated = [c \in Bus |-> << >>]
      /\ \A c \in Bus : ListOK(c, free[c])
  BY DEF MemoryInv
<1>2. /\ n \in 1 .. Len(free[b]) /\ at \in Nat /\ bytes \in Nat \ {0}
      /\ free[b][n].start <= at /\ at + bytes - 1 <= free[b][n].end
  BY MemoryAssumption DEF GrantedIn
<1> DEFINE t == Taken(free[b], n, at, bytes)
<1>3. TakenAs(b, free[b], n, at, bytes, t)
  <2> DEFINE q == free[b]
  <2>1. ListOK(b, q) /\ n \in 1 .. Len(q) /\ q[n].start <= at /\ at + bytes - 1 <= q[n].end
    BY <1>1, <1>2
  <2> HIDE DEF q
  <2>2. TakenAs(b, q, n, at, bytes, Taken(q, n, at, bytes))
    BY <1>2, <2>1, TakenOK
  <2>3. QED
    BY <2>2 DEF q
<1>4. ListOK(b, t) /\ t \in Seq(FreeBlock)
  BY <1>3 DEF TakenAs, ListOK
<1>5. free' = [free EXCEPT ![b] = t]
  BY DEF Allocate
<1> HIDE DEF t
<1>6. /\ free' \in [Bus -> Seq(FreeBlock)] /\ free'[b] = t
      /\ \A c \in Bus : c # b => free'[c] = free[c]
  BY <1>1, <1>4, <1>5
<1>7. allocated' = allocated
  <2>1. allocated' = [allocated EXCEPT ![b] = AddAllocatedBlock(@, Allocated(at, bytes))]
    BY DEF Allocate
  <2>2. allocated[b] = << >>
    BY <1>1
  <2>3. AddAllocatedBlock(allocated[b], Allocated(at, bytes)) = << >>
    BY <2>2, NothingEntered
  <2>4. QED
    BY <1>1, <2>1, <2>2, <2>3
<1>8. ASSUME NEW c \in Bus PROVE ListOK(c, free'[c])
  <2>1. CASE c = b
    BY <1>4, <1>6, <2>1
  <2>2. CASE c # b
    BY <1>1, <1>6, <2>2
  <2>3. QED
    BY <2>1, <2>2
<1>9. QED
  BY <1>3, <1>6, <1>7, <1>8

\* The numbers of a free block.
LEMMA BlockNumbers ==
  ASSUME MemoryInv, NEW c \in Bus, NEW g \in BlocksOf(free[c])
  PROVE  /\ g.start \in 1 .. Top - 1 /\ g.end \in 1 .. Top - 1 /\ g.start <= g.end
         /\ Region[c].start <= g.start /\ g.end <= Region[c].end
         /\ g.bytes = g.end - g.start + 1
<1>1. ListOK(c, free[c])
  BY DEF MemoryInv
<1>2. g \in FreeBlock /\ IsFreeBlock(c, g)
  BY <1>1, Elements DEF BlocksOf
<1>3. QED
  BY <1>2, FreeBlockIs

\* Memory that is apart from a block is apart from what lies in the block.
LEMMA ApartInside ==
  ASSUME NEW y, y.start \in Nat, y.bytes \in Nat \ {0},
         NEW f, f.start \in Nat, f.end \in Nat, f.start <= f.end,
         f.bytes = f.end - f.start + 1, Apart(y, f),
         NEW c, c.start \in Nat, c.bytes \in Nat \ {0},
         f.start <= c.start, c.start + c.bytes - 1 <= f.end
  PROVE  Apart(y, c) /\ Apart(c, y) /\ y # c
<1>1. y.start + y.bytes <= f.start \/ f.start + f.bytes <= y.start
  BY DEF Apart
<1>2. f.start + f.bytes = f.end + 1
  OBVIOUS
<1>3. y.start + y.bytes <= c.start \/ c.start + c.bytes <= y.start
  <2>1. CASE y.start + y.bytes <= f.start
    BY <2>1
  <2>2. CASE f.start + f.bytes <= y.start
    BY <1>2, <2>2
  <2>3. QED
    BY <1>1, <2>1, <2>2
<1>4. y # c
  <2>1. SUFFICES ASSUME y = c PROVE FALSE
    OBVIOUS
  <2>2. y.start + y.bytes <= y.start
    BY <1>3, <2>1
  <2>3. QED
    BY <2>2
<1>5. QED
  BY <1>3, <1>4 DEF Apart

\* What is granted is new, and apart from what is held and what stays free.
LEMMA GrantHeld ==
  ASSUME MemoryInv, NEW b \in Bus, NEW n, NEW at, NEW bytes,
         GrantedIn(b, n, at, bytes), Allocate(b, n, bytes, at)
  PROVE  /\ HeldOK' /\ held' \ held = {Allocated(at, bytes)}
<1> DEFINE f == free[b][n]
           x == Allocated(at, bytes)
<1>1. /\ n \in 1 .. Len(free[b]) /\ at \in 1 .. Top - 1 /\ bytes \in 1 .. Top - 1
      /\ f.start <= at /\ at + bytes - 1 <= f.end /\ Top \in Nat \ {0}
      /\ held' = held \union {x}
  BY MemoryAssumption DEF GrantedIn, Allocate
<1>2. f \in BlocksOf(free[b])
  BY <1>1 DEF BlocksOf
<1>3. x.start = at /\ x.bytes = bytes /\ x \in [start : Address \ {0}, bytes : 1 .. Top]
  BY <1>1 DEF Allocated, Address
<1>4. /\ held \subseteq [start : Address \ {0}, bytes : 1 .. Top]
      /\ \A y, z \in held : y # z => Apart(y, z)
      /\ \A y \in held, c \in Bus : \A g \in BlocksOf(free[c]) : Apart(y, g)
  BY DEF MemoryInv, HeldOK
<1>5. /\ f.start \in Nat /\ f.end \in Nat /\ f.start <= f.end
      /\ f.bytes = f.end - f.start + 1
  BY <1>2, BlockNumbers
<1>6. PICK C \in SUBSET FreeBlock :
        Remains(f, at, bytes, C) /\ BlocksOf(free'[b]) = Others(free[b], n) \union C
  BY GrantStep DEF TakenAs
<1>7. \A c \in Bus : c # b => BlocksOf(free'[c]) = BlocksOf(free[c])
  BY GrantStep
<1>8. \A y \in held : y.start \in Nat /\ y.bytes \in Nat \ {0}
  BY <1>1, <1>4 DEF Address
<1> HIDE DEF f, x
<1>9. ASSUME NEW y \in held PROVE Apart(y, x) /\ Apart(x, y) /\ y # x
  <2>1. y.start \in Nat /\ y.bytes \in Nat \ {0} /\ Apart(y, f)
    BY <1>2, <1>4, <1>8
  <2>2. x.start \in Nat /\ x.bytes \in Nat \ {0} /\ x.start + x.bytes - 1 <= f.end
    BY <1>1, <1>3
  <2>3. f.start <= x.start
    BY <1>1, <1>3
  <2>4. QED
    BY <1>5, <2>1, <2>2, <2>3, ApartInside
\* A block that is free afterwards was free, or is what remains of one.
<1>10. ASSUME NEW c \in Bus, NEW g \in BlocksOf(free'[c])
       PROVE  \/ g \in BlocksOf(free[c]) /\ (c # b \/ g \in Others(free[b], n))
              \/ g \in C
  <2>1. Others(free[b], n) \subseteq BlocksOf(free[b])
    BY DEF Others, BlocksOf
  <2>2. CASE c = b
    BY <1>6, <2>1, <2>2
  <2>3. CASE c # b
    BY <1>7, <2>3
  <2>4. QED
    BY <2>2, <2>3
<1>11. ASSUME NEW g \in C
       PROVE  /\ f.start <= g.start /\ g.start <= g.end /\ g.end <= f.end
              /\ g.bytes = g.end - g.start + 1
              /\ g.end < at \/ at + bytes <= g.start
              /\ g.start \in Nat /\ g.end \in Nat
  BY <1>6 DEF Remains, FreeBlock
<1>12. ASSUME NEW y \in held, NEW c \in Bus, NEW g \in BlocksOf(free'[c])
       PROVE  Apart(y, g)
  <2>1. CASE g \in BlocksOf(free[c])
    BY <1>4, <2>1
  <2>2. CASE g \in C
    <3>1. y.start \in Nat /\ y.bytes \in Nat \ {0} /\ Apart(y, f)
      BY <1>2, <1>4, <1>8
    <3>2. /\ g.start \in Nat /\ g.bytes \in Nat \ {0} /\ f.start <= g.start
          /\ g.start + g.bytes - 1 <= f.end
      BY <1>5, <1>11, <2>2
    <3>3. QED
      BY <1>5, <3>1, <3>2, ApartInside
  <2>3. QED
    BY <1>10, <2>1, <2>2
<1>13. ASSUME NEW c \in Bus, NEW g \in BlocksOf(free'[c])
       PROVE  Apart(x, g)
  <2>1. CASE g \in BlocksOf(free[c]) /\ (c # b \/ g \in Others(free[b], n))
    <3>1. g.end < f.start \/ f.end < g.start
      BY <1>1, <2>1, BlocksApart DEF f
    <3>2. /\ g.start \in Nat /\ g.end \in Nat /\ g.bytes = g.end - g.start + 1
      BY <2>1, BlockNumbers
    <3>3. x.start + x.bytes <= g.start \/ g.start + g.bytes <= x.start
      BY <1>1, <1>3, <1>5, <3>1, <3>2, SMTT(30)
    <3>4. QED
      BY <3>3 DEF Apart
  <2>2. CASE g \in C
    <3>1. x.start + x.bytes <= g.start \/ g.start + g.bytes <= x.start
      BY <1>1, <1>3, <1>11, <2>2
    <3>2. QED
      BY <3>1 DEF Apart
  <2>3. QED
    BY <1>10, <2>1, <2>2
<1>14. held' \ held = {x}
  BY <1>1, <1>9
<1>15. HeldOK'
  <2>1. held' \subseteq [start : Address \ {0}, bytes : 1 .. Top]
    BY <1>1, <1>3, <1>4
  <2>2. \A y, z \in held' : y # z => Apart(y, z)
    BY <1>1, <1>4, <1>9
  <2>3. \A y \in held', c \in Bus : \A g \in BlocksOf(free'[c]) : Apart(y, g)
    BY <1>1, <1>12, <1>13
  <2>4. QED
    BY <2>1, <2>2, <2>3 DEF HeldOK, BlocksOf
<1>16. QED
  BY <1>14, <1>15 DEF x

-----------------------------------------------------------------------------
(* The free bytes                                                          *)

BytesOf(fr) == UNION {UNION {fr[b][n].start .. fr[b][n].end :
                               n \in DOMAIN fr[b]} : b \in Bus}

LEMMA ByteIsFree ==
  ASSUME NEW fr \in [Bus -> Seq(FreeBlock)], NEW z
  PROVE  z \in BytesOf(fr) <=>
           \E c \in Bus : \E g \in BlocksOf(fr[c]) : z \in g.start .. g.end
<1>1. \A c \in Bus : DOMAIN fr[c] = 1 .. Len(fr[c])
  OBVIOUS
<1>2. ASSUME z \in BytesOf(fr)
      PROVE  \E c \in Bus : \E g \in BlocksOf(fr[c]) : z \in g.start .. g.end
  <2>1. PICK c \in Bus : z \in UNION {fr[c][n].start .. fr[c][n].end : n \in DOMAIN fr[c]}
    BY <1>2 DEF BytesOf
  <2>2. PICK n \in DOMAIN fr[c] : z \in fr[c][n].start .. fr[c][n].end
    BY <2>1
  <2>3. fr[c][n] \in BlocksOf(fr[c])
    BY <1>1 DEF BlocksOf
  <2>4. QED
    BY <2>2, <2>3
<1>3. ASSUME NEW c \in Bus, NEW g \in BlocksOf(fr[c]), z \in g.start .. g.end
      PROVE  z \in BytesOf(fr)
  <2>1. PICK n \in 1 .. Len(fr[c]) : g = fr[c][n]
    BY DEF BlocksOf
  <2>2. n \in DOMAIN fr[c] /\ z \in fr[c][n].start .. fr[c][n].end
    BY <1>1, <1>3, <2>1
  <2>3. z \in UNION {fr[c][m].start .. fr[c][m].end : m \in DOMAIN fr[c]}
    BY <2>2
  <2>4. QED
    BY <2>3 DEF BytesOf
<1>4. QED
  BY <1>2, <1>3

LEMMA GrantBytes ==
  ASSUME MemoryInv, NEW b \in Bus, NEW n, NEW at, NEW bytes,
         GrantedIn(b, n, at, bytes), Allocate(b, n, bytes, at)
  PROVE  FreeBytes' = FreeBytes \ UNION {x.start .. x.start + x.bytes - 1 :
                                           x \in held' \ held}
<1> DEFINE f == free[b][n]
           x == Allocated(at, bytes)
           taken == at .. at + bytes - 1
<1>1. /\ n \in 1 .. Len(free[b]) /\ at \in 1 .. Top - 1 /\ bytes \in 1 .. Top - 1
      /\ f.start <= at /\ at + bytes - 1 <= f.end /\ Top \in Nat \ {0}
  BY MemoryAssumption DEF GrantedIn
<1>2. free \in [Bus -> Seq(FreeBlock)] /\ free' \in [Bus -> Seq(FreeBlock)]
  BY GrantStep DEF MemoryInv
<1>3. FreeBytes = BytesOf(free) /\ FreeBytes' = BytesOf(free')
  BY DEF FreeBytes, BytesOf
<1>4. UNION {y.start .. y.start + y.bytes - 1 : y \in held' \ held} = taken
  <2>1. held' \ held = {x}
    BY GrantHeld
  <2>2. x.start = at /\ x.bytes = bytes
    BY DEF Allocated
  <2> HIDE DEF x, taken
  <2>3. UNION {y.start .. y.start + y.bytes - 1 : y \in {x}} = x.start .. x.start + x.bytes - 1
    OBVIOUS
  <2>4. QED
    BY <2>1, <2>2, <2>3 DEF taken
<1>5. PICK C \in SUBSET FreeBlock :
        Remains(f, at, bytes, C) /\ BlocksOf(free'[b]) = Others(free[b], n) \union C
  BY GrantStep DEF TakenAs
<1>6. \A c \in Bus : c # b => BlocksOf(free'[c]) = BlocksOf(free[c])
  BY GrantStep
<1>7. BlocksOf(free[b]) = Others(free[b], n) \union {f}
  BY <1>1 DEF BlocksOf, Others
<1>8. f.start \in Nat /\ f.end \in Nat /\ f.start <= f.end
  BY <1>7, BlockNumbers
<1> HIDE DEF f
<1>9. ASSUME NEW g \in C
      PROVE  /\ f.start <= g.start /\ g.start <= g.end /\ g.end <= f.end
             /\ g.end < at \/ at + bytes <= g.start
             /\ g.start \in Nat /\ g.end \in Nat
  BY <1>5 DEF Remains, FreeBlock
\* What stays free was free, and is not taken.
<1>10. ASSUME NEW z \in BytesOf(free') PROVE z \in BytesOf(free) /\ z \notin taken
  <2>0. PICK c \in Bus : \E g \in BlocksOf(free'[c]) : z \in g.start .. g.end
    BY <1>2, ByteIsFree
  <2>1. PICK g \in BlocksOf(free'[c]) : z \in g.start .. g.end
    BY <2>0
  <2>2. CASE g \in C /\ c = b
    <3>1. z \in f.start .. f.end /\ z \notin taken
      BY <1>1, <1>8, <1>9, <2>1, <2>2
    <3>2. f \in BlocksOf(free[b])
      BY <1>7
    <3>3. QED
      BY <1>2, <3>1, <3>2, ByteIsFree
  <2>3. CASE g \in BlocksOf(free[c]) /\ (c # b \/ g \in Others(free[b], n))
    <3>1. z \in BytesOf(free)
      BY <1>2, <2>1, <2>3, ByteIsFree
    <3>2. g.end < f.start \/ f.end < g.start
      BY <1>1, <2>3, BlocksApart DEF f
    <3>3. g.start \in Nat /\ g.end \in Nat
      BY <2>3, BlockNumbers
    <3>4. z \notin taken
      BY <1>1, <1>8, <2>1, <3>2, <3>3
    <3>5. QED
      BY <3>1, <3>4
  <2>4. QED
    BY <1>5, <1>6, <1>7, <2>1, <2>2, <2>3
\* What was free and is not taken stays free.
<1>11. ASSUME NEW z \in BytesOf(free), z \notin taken PROVE z \in BytesOf(free')
  <2>0. PICK c \in Bus : \E g \in BlocksOf(free[c]) : z \in g.start .. g.end
    BY <1>2, ByteIsFree
  <2>1. PICK g \in BlocksOf(free[c]) : z \in g.start .. g.end
    BY <2>0
  <2>2. CASE c # b \/ g \in Others(free[b], n)
    <3>1. g \in BlocksOf(free'[c])
      BY <1>5, <1>6, <1>7, <2>2
    <3>2. QED
      BY <1>2, <2>1, <3>1, ByteIsFree
  <2>3. CASE c = b /\ g = f
    <3>1. PICK d \in C : z \in d.start .. d.end
      BY <1>5, <1>11, <2>1, <2>3 DEF Remains
    <3>2. d \in BlocksOf(free'[b])
      BY <1>5
    <3>3. QED
      BY <1>2, <3>1, <3>2, ByteIsFree
  <2>4. QED
    BY <1>7, <2>2, <2>3
<1> HIDE DEF taken
<1>12. BytesOf(free') = BytesOf(free) \ taken
  BY <1>10, <1>11
<1>13. QED
  BY <1>3, <1>4, <1>12

\* A block that is free on a bus, of all the blocks that hold its address.
LEMMA FreeOnBus ==
  ASSUME MemoryInv, NEW b \in Bus, NEW z \in Region[b].start .. Region[b].end,
         z \in FreeBytes
  PROVE  \E n \in 1 .. Len(free[b]) : z \in free[b][n].start .. free[b][n].end
<1>1. free \in [Bus -> Seq(FreeBlock)] /\ FreeBytes = BytesOf(free)
  BY DEF MemoryInv, FreeBytes, BytesOf
<1>2. PICK c \in Bus : \E g \in BlocksOf(free[c]) : z \in g.start .. g.end
  BY <1>1, ByteIsFree
<1>3. PICK g \in BlocksOf(free[c]) : z \in g.start .. g.end
  BY <1>2
<1>4. c = b
  <2>1. SUFFICES ASSUME c # b PROVE FALSE
    OBVIOUS
  <2>2. Region["main"].end < Region["system"].start
    BY MemoryAssumption
  <2>3. (b = "main" /\ c = "system") \/ (b = "system" /\ c = "main")
    BY <2>1 DEF Bus
  <2>4. Region[b].end < Region[c].start \/ Region[c].end < Region[b].start
    BY <2>2, <2>3
  <2>5. /\ Region[b].start \in Nat /\ Region[b].end \in Nat
        /\ Region[c].start \in Nat /\ Region[c].end \in Nat
    BY Regions
  <2>6. /\ Region[c].start <= g.start /\ g.end <= Region[c].end
        /\ g.start \in Nat /\ g.end \in Nat
    BY BlockNumbers
  <2>7. QED
    BY <1>3, <2>4, <2>5, <2>6
<1>5. QED
  BY <1>3, <1>4 DEF BlocksOf

\* A run of free bytes of a bus lies in one block, and so it would have been
\* found, from the first aligned address of the block on.
LEMMA NoRunIsFree ==
  ASSUME MemoryInv, AligningStays, NEW b \in Bus, NEW bytes \in 1 .. Top - 1,
         NEW alignment \in Alignments, Strict(alignment) \in PowersOfTwo,
         Candidates(b, bytes, Strict(alignment)) = {},
         NEW at \in Region[b].start .. Region[b].end, at % Strict(alignment) = 0
  PROVE  ~(at .. at + bytes - 1 \subseteq
             FreeBytes \intersect Region[b].start .. Region[b].end)
<1> DEFINE q == free[b]
           m == Strict(alignment)
<1>1. SUFFICES ASSUME at .. at + bytes - 1 \subseteq
                        FreeBytes \intersect Region[b].start .. Region[b].end
               PROVE  FALSE
  OBVIOUS
<1>2. /\ Region[b].start \in 1 .. Top - 1 /\ Region[b].end \in 1 .. Top - 1
      /\ at \in Nat /\ Top \in Nat
  BY Regions
<1>3. ListOK(b, q) /\ q \in Seq(FreeBlock) /\ Len(q) \in Nat
  BY DEF MemoryInv, ListOK
<1>4. ASSUME NEW z \in at .. at + bytes - 1
      PROVE  \E n \in 1 .. Len(q) : z \in q[n].start .. q[n].end
  BY <1>1, <1>4, FreeOnBus
<1>5. at \in at .. at + bytes - 1
  BY <1>2
<1>6. PICK n \in 1 .. Len(q) : at \in q[n].start .. q[n].end
  BY <1>4, <1>5
<1> DEFINE f == q[n]
<1>7. f \in FreeBlock /\ IsFreeBlock(b, f)
  BY <1>3, Elements
<1>8. /\ f.start \in 1 .. Top - 1 /\ f.end \in 1 .. Top - 1 /\ f.start <= f.end
      /\ f.end <= Region[b].end /\ f.bytes = f.end - f.start + 1
      /\ f.start <= at /\ at <= f.end
  <2>1. /\ f.start \in 1 .. Top - 1 /\ f.end \in 1 .. Top - 1 /\ f.start <= f.end
        /\ f.end <= Region[b].end /\ f.bytes = f.end - f.start + 1
    BY <1>7, FreeBlockIs
  <2>2. f.start <= at /\ at <= f.end
    BY <1>6, <2>1
  <2>3. QED
    BY <2>1, <2>2
<1> HIDE DEF q
\* The run does not go past the end of the block.
<1>9. at + bytes - 1 <= f.end
  <2>1. SUFFICES ASSUME f.end < at + bytes - 1 PROVE FALSE
    BY <1>2, <1>8
  <2>2. f.end + 1 \in at .. at + bytes - 1
    BY <1>2, <1>8, <2>1, SMTT(30)
  <2>3. PICK k \in 1 .. Len(q) : f.end + 1 \in q[k].start .. q[k].end
    BY <1>4, <2>2
  <2>4. q[k].start \in Nat /\ q[k].end \in Nat /\ q[k].start <= f.end + 1 /\ f.end + 1 <= q[k].end
    <3>1. q[k].start \in Nat /\ q[k].end \in Nat
      BY <1>3, Elements
    <3>2. QED
      BY <1>8, <2>3, <3>1
  <2>5. CASE k < n
    <3>1. q[k].end + 1 < q[n].start
      BY <1>3, <2>5 DEF ListOK
    <3>2. QED
      BY <1>8, <2>4, <3>1, SMTT(30)
  <2>6. CASE k = n
    BY <1>8, <2>4, <2>6
  <2>7. CASE n < k
    <3>1. q[n].end + 1 < q[k].start
      BY <1>3, <2>7 DEF ListOK
    <3>2. QED
      BY <1>8, <2>4, <3>1
  <2>8. k < n \/ k = n \/ n < k
    BY <1>3
  <2>9. QED
    BY <2>5, <2>6, <2>7, <2>8
<1> HIDE DEF f
<1>10. m \in Nat \ {0} /\ Region[b].end + m <= Top
  BY MemoryAssumption DEF AligningStays
<1>11. m \in PowersOfTwo /\ at % m = 0
  OBVIOUS
<1> HIDE DEF m
<1> DEFINE first == AlignAddress(f.start, m)
<1>12. first \in Nat /\ f.start <= first /\ first <= at
  <2>1. f.start \in Nat /\ f.start + m <= Top
    BY <1>2, <1>8, <1>10, SMTT(30)
  <2>2. /\ first \in Nat /\ f.start <= first
        /\ \A a \in Nat : f.start <= a /\ a % m = 0 => first <= a
    BY <1>10, <2>1, Aligned
  <2>3. QED
    BY <1>2, <1>8, <1>11, <2>2
<1> HIDE DEF first
<1>13. f.end - first + 1 \in 0 .. Top - 1
  BY <1>2, <1>8, <1>12, SMTT(30)
<1>14. Word(f.end - first + 1) = f.end - first + 1
  BY <1>13, WordIs
<1>15. f.bytes >= bytes /\ first <= f.end /\ Word(f.end - first + 1) >= bytes
  BY <1>2, <1>8, <1>9, <1>12, <1>14, SMTT(30)
<1>16. Fits(f, bytes, m)
  BY <1>15 DEF Fits, first
<1>17. n \in Candidates(b, bytes, m)
  <2>1. n \in DOMAIN free[b]
    BY <1>3 DEF q
  <2>2. QED
    BY <1>11, <1>16, <2>1 DEF Candidates, f, q
<1>18. QED
  BY <1>17 DEF m

-----------------------------------------------------------------------------
(* The steps                                                               *)

\* After MemInit, and at first: one free block, and nothing allocated.
LEMMA StartedOK ==
  ASSUME NEW b \in Bus
  PROVE  Started(b) \in Seq(FreeBlock) /\ ListOK(b, Started(b)) /\ Kernel(b) = << >>
<1> DEFINE s == Region[b].start
           e == Region[b].end
           d == Block(s, e)
<1>1. s \in 1 .. Top - 1 /\ e \in 1 .. Top - 1 /\ s <= e
  BY Regions
<1> HIDE DEF s, e
<1>2. d \in FreeBlock /\ d = [start |-> s, end |-> e, bytes |-> e - s + 1]
  BY <1>1, BlockIs
<1>3. IsFreeBlock(b, d)
  BY <1>1, <1>2 DEF IsFreeBlock, s, e
<1> HIDE DEF d
<1>4. Started(b) = <<d>>
  BY DEF Started, Add, d, s, e
<1>5. /\ <<d>> \in Seq(FreeBlock) /\ Len(<<d>>) = 1 /\ <<d>>[1] = d
  BY <1>2
<1>6. ListOK(b, <<d>>)
  BY <1>3, <1>5 DEF ListOK
<1>7. Kernel(b) = << >>
  BY NothingEntered DEF Kernel
<1>8. QED
  BY <1>4, <1>5, <1>6, <1>7

LEMMA InitialState == Init => MemoryInv
<1> SUFFICES ASSUME Init PROVE MemoryInv
  OBVIOUS
<1>1. free \in [Bus -> Seq(FreeBlock)] /\ \A b \in Bus : ListOK(b, free[b])
  BY StartedOK DEF Init
<1>2. allocated = [b \in Bus |-> << >>]
  BY StartedOK DEF Init
<1>3. held = {} /\ answer = NoAnswer
  BY DEF Init
<1>4. answer \in [bytes : Bytes \union {0}, alignment : Alignments \union {0},
                  buses : Preferences, at : Address]
  BY <1>3, MemoryAssumption DEF NoAnswer, Preferences, Address
<1>5. QED
  BY <1>1, <1>2, <1>3, <1>4 DEF MemoryInv, HeldOK

LEMMA InitStep == MemInit => MemoryInv'
<1> SUFFICES ASSUME MemInit PROVE MemoryInv'
  OBVIOUS
<1>1. free' \in [Bus -> Seq(FreeBlock)] /\ \A b \in Bus : ListOK(b, free'[b])
  BY StartedOK DEF MemInit
<1>2. allocated' = [b \in Bus |-> << >>]
  BY StartedOK DEF MemInit
<1>3. held' = {} /\ answer' = NoAnswer
  BY DEF MemInit
<1>4. answer' \in [bytes : Bytes \union {0}, alignment : Alignments \union {0},
                   buses : Preferences, at : Address]
  BY <1>3, MemoryAssumption DEF NoAnswer, Preferences, Address
<1>5. QED
  BY <1>1, <1>2, <1>3, <1>4 DEF MemoryInv, HeldOK

AnswerTo(bytes, alignment, buses, at) ==
  [bytes |-> bytes, alignment |-> alignment, buses |-> buses, at |-> at]

\* A request that is granted, and one that fails.
Granted(bytes, alignment, buses) ==
  \E k \in DOMAIN buses, n \in Nat, at \in 1 .. Top - 1 :
    /\ buses[k] \in Bus
    /\ GrantedIn(buses[k], n, at, Padded(bytes)) /\ at % Strict(alignment) = 0
    /\ Allocate(buses[k], n, Padded(bytes), at)
    /\ answer' = AnswerTo(bytes, alignment, buses, at)
Failed(bytes, alignment, buses) ==
  /\ \A k \in DOMAIN buses :
       buses[k] \in Bus /\ Candidates(buses[k], Padded(bytes), Strict(alignment)) = {}
  /\ answer' = AnswerTo(bytes, alignment, buses, 0)
  /\ UNCHANGED <<free, allocated, held>>

LEMMA BusesOf ==
  ASSUME NEW buses \in Preferences, NEW k \in DOMAIN buses
  PROVE  buses[k] \in Bus
<1>1. DOMAIN << >> = {} /\ DOMAIN <<"main">> = {1} /\ DOMAIN <<"system">> = {1}
      /\ DOMAIN <<"main", "system">> = {1, 2}
  OBVIOUS
<1>2. /\ <<"main">>[1] = "main" /\ <<"system">>[1] = "system"
      /\ <<"main", "system">>[1] = "main" /\ <<"main", "system">>[2] = "system"
  OBVIOUS
<1>3. CASE buses = << >>
  BY <1>1, <1>3
<1>4. CASE buses = <<"main">>
  BY <1>1, <1>2, <1>4 DEF Bus
<1>5. CASE buses = <<"system">>
  BY <1>1, <1>2, <1>5 DEF Bus
<1>6. CASE buses = <<"main", "system">>
  BY <1>1, <1>2, <1>6 DEF Bus
<1>7. QED
  BY <1>3, <1>4, <1>5, <1>6 DEF Preferences

LEMMA RequestIs ==
  ASSUME MemoryInv, AligningStays, MemAlloc
  PROVE  \E bytes \in Bytes, alignment \in Alignments, buses \in Preferences :
           Granted(bytes, alignment, buses) \/ Failed(bytes, alignment, buses)
<1>1. PICK bytes \in Bytes, alignment \in Alignments, buses \in Preferences :
        LET Can(k) == Candidates(buses[k], Padded(bytes), Strict(alignment))
            serving == {k \in DOMAIN buses : Can(k) # {}}
            Answer(at) == [bytes |-> bytes, alignment |-> alignment,
                           buses |-> buses, at |-> at]
        IN \/ \E k \in serving : \E n \in Can(k) :
                LET at == AlignAddress(free[buses[k]][n].start, Strict(alignment))
                IN /\ \A l \in serving : k <= l
                   /\ \A m \in Can(k) : n <= m
                   /\ Allocate(buses[k], n, Padded(bytes), at)
                   /\ answer' = Answer(at)
           \/ /\ serving = {}
              /\ answer' = Answer(0)
              /\ UNCHANGED <<free, allocated, held>>
  BY DEF MemAlloc
<1> DEFINE Can(k) == Candidates(buses[k], Padded(bytes), Strict(alignment))
           serving == {k \in DOMAIN buses : Can(k) # {}}
<1>2. CASE /\ serving = {}
           /\ answer' = AnswerTo(bytes, alignment, buses, 0)
           /\ UNCHANGED <<free, allocated, held>>
  <2>1. \A k \in DOMAIN buses : buses[k] \in Bus
    BY BusesOf
  <2>2. \A k \in DOMAIN buses : Candidates(buses[k], Padded(bytes), Strict(alignment)) = {}
    BY <1>2
  <2>3. Failed(bytes, alignment, buses)
    BY <1>2, <2>1, <2>2 DEF Failed
  <2>4. QED
    BY <2>3
<1>3. ASSUME NEW k \in serving, NEW n \in Can(k),
             NEW at, at = AlignAddress(free[buses[k]][n].start, Strict(alignment)),
             Allocate(buses[k], n, Padded(bytes), at),
             answer' = AnswerTo(bytes, alignment, buses, at)
      PROVE  Granted(bytes, alignment, buses)
  <2>1. k \in DOMAIN buses /\ buses[k] \in Bus
    BY BusesOf
  <2>2. Padded(bytes) \in 1 .. Top - 1
    BY PaddedIs
  <2> DEFINE b == buses[k]
             p == Padded(bytes)
  <2>3. /\ b \in Bus /\ p \in 1 .. Top - 1 /\ n \in Candidates(b, p, Strict(alignment))
        /\ at = AlignAddress(free[b][n].start, Strict(alignment))
    BY <1>3, <2>1, <2>2
  <2> HIDE DEF b, p
  <2>4. GrantedIn(b, n, at, p) /\ at % Strict(alignment) = 0
    BY <2>3, CandidateIs
  <2>5. n \in Nat /\ at \in 1 .. Top - 1
    BY <2>4 DEF GrantedIn
  <2>6. QED
    BY <1>3, <2>1, <2>4, <2>5 DEF Granted, b, p
<1>4. CASE \E k \in serving : \E n \in Can(k) :
             LET at == AlignAddress(free[buses[k]][n].start, Strict(alignment))
             IN /\ Allocate(buses[k], n, Padded(bytes), at)
                /\ answer' = AnswerTo(bytes, alignment, buses, at)
  <2>1. PICK k \in serving : \E n \in Can(k) :
             LET at == AlignAddress(free[buses[k]][n].start, Strict(alignment))
             IN /\ Allocate(buses[k], n, Padded(bytes), at)
                /\ answer' = AnswerTo(bytes, alignment, buses, at)
    BY <1>4
  <2>2. PICK n \in Can(k) :
             LET at == AlignAddress(free[buses[k]][n].start, Strict(alignment))
             IN /\ Allocate(buses[k], n, Padded(bytes), at)
                /\ answer' = AnswerTo(bytes, alignment, buses, at)
    BY <2>1
  <2> HIDE DEF Can, serving
  <2>3. Granted(bytes, alignment, buses)
    BY <1>3, <2>2
  <2>4. QED
    BY <2>3
<1>5. QED
  BY <1>1, <1>2, <1>4 DEF AnswerTo

LEMMA RequestStep ==
  ASSUME MemoryInv, AligningStays, MemAlloc
  PROVE  MemoryInv'
<1>1. PICK bytes \in Bytes, alignment \in Alignments, buses \in Preferences :
        Granted(bytes, alignment, buses) \/ Failed(bytes, alignment, buses)
  BY RequestIs
<1>2. ASSUME NEW at \in Address
      PROVE  AnswerTo(bytes, alignment, buses, at)
               \in [bytes : Bytes \union {0}, alignment : Alignments \union {0},
                   buses : Preferences, at : Address]
  BY DEF AnswerTo
<1>3. Top \in Nat \ {0}
  BY MemoryAssumption
<1>4. CASE Granted(bytes, alignment, buses)
  <2>1. PICK k \in DOMAIN buses, n \in Nat, at \in 1 .. Top - 1 :
          /\ buses[k] \in Bus
          /\ GrantedIn(buses[k], n, at, Padded(bytes))
          /\ Allocate(buses[k], n, Padded(bytes), at)
          /\ answer' = AnswerTo(bytes, alignment, buses, at)
    BY <1>4 DEF Granted
  <2> DEFINE b == buses[k]
             p == Padded(bytes)
  <2>2. b \in Bus /\ GrantedIn(b, n, at, p) /\ Allocate(b, n, p, at)
    BY <2>1
  <2> HIDE DEF b, p
  <2>3. /\ free' \in [Bus -> Seq(FreeBlock)] /\ allocated' = allocated
        /\ \A c \in Bus : ListOK(c, free'[c])
    BY <2>2, GrantStep
  <2>4. HeldOK'
    BY <2>2, GrantHeld
  <2>5. at \in Address
    BY <1>3 DEF Address
  <2>6. QED
    BY <1>2, <2>1, <2>3, <2>4, <2>5 DEF MemoryInv
<1>5. CASE Failed(bytes, alignment, buses)
  <2>1. UNCHANGED <<free, allocated, held>> /\ answer' = AnswerTo(bytes, alignment, buses, 0)
    BY <1>5 DEF Failed
  <2>2. 0 \in Address
    BY <1>3 DEF Address
  <2>3. HeldOK'
    BY <2>1 DEF MemoryInv, HeldOK
  <2>4. QED
    BY <1>2, <2>1, <2>2, <2>3 DEF MemoryInv
<1>6. QED
  BY <1>1, <1>4, <1>5

\* MemFree never finds the block, and only the program forgets it.
LEMMA FreeStep ==
  ASSUME MemoryInv, NEW block \in held, MemFree(block)
  PROVE  /\ MemoryInv' /\ UNCHANGED <<free, allocated, answer>>
         /\ held' = held \ {block}
<1>1. PICK b \in Bus : Free(b, block.start)
  BY DEF MemFree
<1>2. allocated[b] = << >> /\ DOMAIN << >> = {}
  BY DEF MemoryInv
<1>3. UNCHANGED <<free, allocated>>
  BY <1>1, <1>2 DEF Free
<1>4. held' = held \ {block} /\ UNCHANGED answer
  BY DEF MemFree
<1>5. HeldOK'
  BY <1>3, <1>4 DEF MemoryInv, HeldOK
<1>6. QED
  BY <1>3, <1>4, <1>5 DEF MemoryInv

LEMMA Invariance ==
  ASSUME AligningStays
  PROVE  Spec => []MemoryInv
<1>1. ASSUME MemoryInv, [Next]_vars PROVE MemoryInv'
  <2>1. CASE MemAlloc
    BY <1>1, <2>1, RequestStep
  <2>2. CASE \E block \in held : MemFree(block)
    BY <1>1, <2>2, FreeStep
  <2>3. CASE MemInit
    BY <2>3, InitStep
  <2>4. CASE UNCHANGED vars
    BY <1>1, <2>4 DEF vars, MemoryInv, HeldOK
  <2>5. QED
    BY <1>1, <2>1, <2>2, <2>3, <2>4 DEF Next
<1>2. QED
  BY <1>1, InitialState, PTL DEF Spec

-----------------------------------------------------------------------------
(* The theorems                                                            *)

\* The lists of the memory manager and the answer of MemAlloc are what
\* MemoryManager.cpp means them to be: every free block lies in its bus, and
\* the size it says it has is the number of its bytes.
THEOREM TypeCorrect ==
  ASSUME AligningStays
  PROVE  Spec => []TypeOK
<1>1. MemoryInv => TypeOK
  <2>1. SUFFICES ASSUME MemoryInv PROVE TypeOK
    OBVIOUS
  <2>2. DOMAIN free = Bus /\ DOMAIN allocated = Bus
    BY <2>1 DEF MemoryInv
  <2>3. ASSUME NEW b \in Bus, NEW n \in DOMAIN free[b] PROVE IsFreeBlock(b, free[b][n])
    <3>1. ListOK(b, free[b])
      BY <2>1 DEF MemoryInv
    <3>2. DOMAIN free[b] = 1 .. Len(free[b])
      BY <3>1 DEF ListOK
    <3>3. QED
      BY <3>1, <3>2, <2>3 DEF ListOK
  <2>4. \A b \in Bus : allocated[b] \in Seq([start : Address, bytes : 1 .. Top])
    BY <2>1 DEF MemoryInv
  <2>5. QED
    BY <2>1, <2>2, <2>3, <2>4 DEF TypeOK, MemoryInv, HeldOK
<1>2. QED
  BY <1>1, Invariance, PTL

\* No byte is handed out twice, and none that a program has is free: whatever
\* the requests, their order and their alignments, Allocate cuts what it
\* grants out of one free block and leaves the rest of that block behind.
THEOREM HeldApartCorrect ==
  ASSUME AligningStays
  PROVE  Spec => []HeldApart
<1>1. MemoryInv => HeldApart
  <2>1. SUFFICES ASSUME MemoryInv PROVE HeldApart
    OBVIOUS
  <2>2. ASSUME NEW x \in held, NEW b \in Bus, NEW n \in DOMAIN free[b]
        PROVE  Apart(x, free[b][n])
    <3>1. DOMAIN free[b] = 1 .. Len(free[b])
      BY <2>1 DEF MemoryInv, ListOK
    <3>2. free[b][n] \in BlocksOf(free[b])
      BY <3>1 DEF BlocksOf
    <3>3. QED
      BY <2>1, <3>2 DEF MemoryInv, HeldOK
  <2>3. QED
    BY <2>1, <2>2 DEF HeldApart, MemoryInv, HeldOK
<1>2. QED
  BY <1>1, Invariance, PTL

\* MemAlloc grants what was asked for: at least as many bytes as requested,
\* aligned, new, and on a bus that the caller's flags allow.
THEOREM GrantedCorrect ==
  ASSUME AligningStays
  PROVE  Spec => GrantedAsRequested
<1> DEFINE G == answer' # answer /\ answer'.at # 0 =>
        \E x \in held' \ held :
          /\ x.start = answer'.at /\ x.bytes >= answer'.bytes
          /\ x.start % Strict(answer'.alignment) = 0
          /\ \E k \in DOMAIN answer'.buses :
               LET r == Region[answer'.buses[k]]
               IN x.start >= r.start /\ x.start + x.bytes - 1 <= r.end
<1>1. ASSUME MemoryInv, MemAlloc, answer'.at # 0 PROVE G
  <2>1. PICK bytes \in Bytes, alignment \in Alignments, buses \in Preferences :
          Granted(bytes, alignment, buses) \/ Failed(bytes, alignment, buses)
    BY <1>1, RequestIs
  <2>2. CASE Failed(bytes, alignment, buses)
    BY <1>1, <2>2 DEF Failed, AnswerTo
  <2>3. CASE Granted(bytes, alignment, buses)
    <3>1. PICK k \in DOMAIN buses, n \in Nat, at \in 1 .. Top - 1 :
            /\ buses[k] \in Bus
            /\ GrantedIn(buses[k], n, at, Padded(bytes)) /\ at % Strict(alignment) = 0
            /\ Allocate(buses[k], n, Padded(bytes), at)
            /\ answer' = AnswerTo(bytes, alignment, buses, at)
      BY <2>3 DEF Granted
    <3> DEFINE b == buses[k]
               p == Padded(bytes)
               x == Allocated(at, p)
    <3>2. b \in Bus /\ GrantedIn(b, n, at, p) /\ Allocate(b, n, p, at)
      BY <3>1
    <3>3. x.start = at /\ x.bytes = p
      BY DEF Allocated
    <3>4. bytes <= p
      BY PaddedIs
    <3> HIDE DEF p, x
    <3>5. x \in held' \ held
      <4>1. held' \ held = {Allocated(at, p)}
        BY <1>1, <3>2, GrantHeld
      <4>2. QED
        BY <4>1 DEF x
    <3>6. /\ Region[b].start <= at /\ at + p - 1 <= Region[b].end
      <4> DEFINE f == free[b][n]
      <4>1. /\ n \in 1 .. Len(free[b]) /\ f.start <= at /\ at + p - 1 <= f.end
            /\ p \in 1 .. Top - 1 /\ Top \in Nat
        BY <3>2, MemoryAssumption DEF GrantedIn
      <4>2. f \in BlocksOf(free[b])
        BY <4>1 DEF BlocksOf
      <4>3. /\ Region[b].start <= f.start /\ f.end <= Region[b].end
            /\ f.start \in Nat /\ f.end \in Nat
        BY <1>1, <3>2, <4>2, BlockNumbers
      <4>4. Region[b].start \in Nat /\ Region[b].end \in Nat
        BY <3>2, Regions
      <4> HIDE DEF f, b
      <4>5. QED
        BY <4>1, <4>3, <4>4
    <3>7. /\ answer'.at = at /\ answer'.bytes = bytes /\ answer'.alignment = alignment
          /\ answer'.buses = buses
      BY <3>1 DEF AnswerTo
    <3>8. /\ x.start = answer'.at /\ x.bytes >= answer'.bytes
          /\ x.start % Strict(answer'.alignment) = 0
      BY <3>1, <3>3, <3>4, <3>7
    <3>9. \E l \in DOMAIN answer'.buses :
            LET r == Region[answer'.buses[l]]
            IN x.start >= r.start /\ x.start + x.bytes - 1 <= r.end
      <4>1. x.start >= Region[b].start /\ x.start + x.bytes - 1 <= Region[b].end
        BY <3>3, <3>6
      <4>2. QED
        BY <3>7, <4>1
    <3>10. QED
      BY <3>5, <3>8, <3>9
  <2>4. QED
    BY <2>1, <2>2, <2>3
<1>2. ASSUME MemoryInv, [Next]_vars PROVE [G]_vars
  <2>1. CASE MemAlloc
    <3>1. answer'.at # 0 => G
      BY <1>1, <1>2, <2>1
    <3>2. QED
      BY <3>1
  <2>2. CASE \E block \in held : MemFree(block)
    BY <1>2, <2>2, FreeStep
  <2>3. CASE MemInit
    BY <2>3 DEF MemInit, NoAnswer
  <2>4. CASE UNCHANGED vars
    BY <2>4
  <2>5. QED
    BY <1>2, <2>1, <2>2, <2>3, <2>4 DEF Next
<1>3. QED
  BY <1>2, Invariance, PTL DEF Spec, GrantedAsRequested

\* What MemAlloc takes off the free lists is what it hands out: the piece
\* before an aligned address, and the rest behind the request, stay free.
THEOREM NothingLostCorrect ==
  ASSUME AligningStays
  PROVE  Spec => NothingLost
<1> DEFINE N == ~MemInit =>
        FreeBytes' = FreeBytes \ UNION {x.start .. x.start + x.bytes - 1 :
                                          x \in held' \ held}
<1>1. ASSUME UNCHANGED free, held' \ held = {} PROVE N
  <2>1. FreeBytes' = FreeBytes
    BY <1>1 DEF FreeBytes
  <2>2. UNION {x.start .. x.start + x.bytes - 1 : x \in held' \ held} = {}
    BY <1>1
  <2>3. QED
    BY <2>1, <2>2
<1>2. ASSUME MemoryInv, MemAlloc PROVE N
  <2>1. PICK bytes \in Bytes, alignment \in Alignments, buses \in Preferences :
          Granted(bytes, alignment, buses) \/ Failed(bytes, alignment, buses)
    BY <1>2, RequestIs
  <2>2. CASE Failed(bytes, alignment, buses)
    <3>1. UNCHANGED free /\ held' \ held = {}
      BY <2>2 DEF Failed
    <3>2. QED
      BY <1>1, <3>1
  <2>3. CASE Granted(bytes, alignment, buses)
    <3>1. PICK k \in DOMAIN buses, n \in Nat, at \in 1 .. Top - 1 :
            /\ buses[k] \in Bus
            /\ GrantedIn(buses[k], n, at, Padded(bytes))
            /\ Allocate(buses[k], n, Padded(bytes), at)
      BY <2>3 DEF Granted
    <3>2. FreeBytes' = FreeBytes \ UNION {x.start .. x.start + x.bytes - 1 :
                                            x \in held' \ held}
      BY <1>2, <3>1, GrantBytes
    <3>3. QED
      BY <3>2
  <2>4. QED
    BY <2>1, <2>2, <2>3
<1>3. ASSUME MemoryInv, [Next]_vars PROVE [N]_vars
  <2>1. CASE MemAlloc
    BY <1>2, <1>3, <2>1
  <2>2. CASE \E block \in held : MemFree(block)
    <3>1. UNCHANGED free /\ held' \ held = {}
      BY <1>3, <2>2, FreeStep
    <3>2. QED
      BY <1>1, <3>1
  <2>3. CASE MemInit
    BY <2>3
  <2>4. CASE UNCHANGED vars
    BY <2>4
  <2>5. QED
    BY <1>3, <2>1, <2>2, <2>3, <2>4 DEF Next
<1>4. QED
  BY <1>3, Invariance, PTL DEF Spec, NothingLost

\* A request fails only if no run of free bytes at an aligned address, on any
\* bus the caller allows, is as long as it: first fit misses nothing, because
\* free blocks that touch do not exist.
THEOREM FailureCorrect ==
  ASSUME AligningStays
  PROVE  Spec => FailureJustified
<1> DEFINE F == (answer' # answer /\ answer'.at = 0
                   /\ Strict(answer'.alignment) \in PowersOfTwo) =>
        \A k \in DOMAIN answer'.buses :
          LET r == Region[answer'.buses[k]]
          IN \A at \in r.start .. r.end :
               at % Strict(answer'.alignment) = 0 =>
                 ~(at .. at + Padded(answer'.bytes) - 1
                     \subseteq FreeBytes \intersect r.start .. r.end)
<1>1. ASSUME MemoryInv, MemAlloc PROVE F
  <2>1. PICK bytes \in Bytes, alignment \in Alignments, buses \in Preferences :
          Granted(bytes, alignment, buses) \/ Failed(bytes, alignment, buses)
    BY <1>1, RequestIs
  <2>2. CASE Granted(bytes, alignment, buses)
    <3>1. PICK at \in 1 .. Top - 1 : answer' = AnswerTo(bytes, alignment, buses, at)
      BY <2>2 DEF Granted
    <3>2. answer'.at # 0
      BY <3>1, MemoryAssumption DEF AnswerTo
    <3>3. QED
      BY <3>2
  <2>3. CASE Failed(bytes, alignment, buses)
    <3>1. SUFFICES ASSUME Strict(alignment) \in PowersOfTwo,
                          NEW k \in DOMAIN buses,
                          NEW at \in Region[buses[k]].start .. Region[buses[k]].end,
                          at % Strict(alignment) = 0
                   PROVE  ~(at .. at + Padded(bytes) - 1 \subseteq
                              FreeBytes \intersect
                                Region[buses[k]].start .. Region[buses[k]].end)
      BY <2>3 DEF Failed, AnswerTo
    <3>2. /\ buses[k] \in Bus
          /\ Candidates(buses[k], Padded(bytes), Strict(alignment)) = {}
      BY <2>3 DEF Failed
    <3>3. Padded(bytes) \in 1 .. Top - 1
      BY PaddedIs
    <3> DEFINE b == buses[k]
               p == Padded(bytes)
    <3>4. /\ b \in Bus /\ p \in 1 .. Top - 1
          /\ Candidates(b, p, Strict(alignment)) = {}
          /\ at \in Region[b].start .. Region[b].end
      BY <3>2, <3>3
    <3> HIDE DEF b, p
    <3>5. ~(at .. at + p - 1 \subseteq
              FreeBytes \intersect Region[b].start .. Region[b].end)
      BY <1>1, <3>1, <3>4, NoRunIsFree
    <3>6. QED
      BY <3>5 DEF b, p
  <2>4. QED
    BY <2>1, <2>2, <2>3
<1>2. ASSUME MemoryInv, [Next]_vars PROVE [F]_vars
  <2>1. CASE MemAlloc
    BY <1>1, <1>2, <2>1
  <2>2. CASE \E block \in held : MemFree(block)
    BY <1>2, <2>2, FreeStep
  <2>3. CASE MemInit
    <3>1. DOMAIN answer'.buses = {}
      BY <2>3 DEF MemInit, NoAnswer
    <3>2. QED
      BY <3>1
  <2>4. CASE UNCHANGED vars
    BY <2>4
  <2>5. QED
    BY <1>2, <2>1, <2>2, <2>3, <2>4 DEF Next
<1>3. QED
  BY <1>2, Invariance, PTL DEF Spec, FailureJustified
=============================================================================
