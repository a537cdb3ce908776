--------------------------- MODULE Packets_proofs ---------------------------
(***************************************************************************)
(* What the folds of Packets and SuperBlock compute, the order that        *)
(* DecompressPacket puts a packet in, what a packet does wherever and in   *)
(* whatever way it is executed, and what dead code elimination leaves out. *)
(*                                                                         *)
(* A fold is a recursive function on sets; the provers know nothing of it  *)
(* but its definition.  FoldExists says that there is such a function, by  *)
(* induction on the size of the set, for any way of choosing elements; the *)
(* fold of a sequence is then a run of steps: see IsRun.                   *)
(***************************************************************************)
EXTENDS SuperBlock, FiniteSetTheorems, TLAPS

-----------------------------------------------------------------------------
(* Induction                                                               *)

LEMMA Induction ==
  ASSUME NEW S, 0 \in S, \A n \in Nat : n \in S => n + 1 \in S
  PROVE  Nat \subseteq S
<1> DEFINE I(k) == 0 .. k
           T == {I(k) : k \in Nat \ S}
<1>1. SUFFICES ASSUME Nat \ S # {} PROVE FALSE
  OBVIOUS
<1>2. T # {} /\ T \subseteq FiniteSubsetsOf(Nat)
  <2>1. \A k \in Nat : I(k) \in SUBSET Nat /\ IsFiniteSet(I(k))
    BY FS_Interval
  <2> QED BY <1>1, <2>1 DEF FiniteSubsetsOf
<1>3. PICK J \in T : \A K \in T : ~(<<K, J>> \in StrictSubsetOrdering(Nat))
  BY <1>2, FS_StrictSubsetOrderingWellFounded, WFMin
<1>4. PICK m \in Nat \ S : J = I(m)
  OBVIOUS
<1>5. m # 0 /\ m - 1 \in Nat /\ (m - 1) + 1 = m
  OBVIOUS
<1>6. m - 1 \in Nat \ S
  BY <1>5
<1>7. I(m - 1) \in SUBSET Nat /\ I(m) \in SUBSET Nat /\ I(m - 1) \subseteq I(m) /\ I(m - 1) # I(m)
  BY <1>5
<1>8. <<I(m - 1), I(m)>> \in StrictSubsetOrdering(Nat)
  BY <1>7 DEF StrictSubsetOrdering
<1> QED BY <1>3, <1>4, <1>6, <1>8

\* Up from 0 to n.
LEMMA UpTo ==
  ASSUME NEW n \in Nat, NEW S, 0 \in S, \A k \in 0 .. n - 1 : k \in S => k + 1 \in S
  PROVE  0 .. n \subseteq S
<1> DEFINE T == {k \in Nat : k <= n => k \in S}
<1>1. 0 \in T /\ \A k \in Nat : k \in T => k + 1 \in T
  OBVIOUS
<1>2. Nat \subseteq T
  BY <1>1, Induction
<1> QED BY <1>2

\* Down from n + 1 to 1.
LEMMA DownTo ==
  ASSUME NEW n \in Nat, NEW S, n + 1 \in S, \A k \in 1 .. n : k + 1 \in S => k \in S
  PROVE  1 .. n + 1 \subseteq S
<1> DEFINE T == {k \in 0 .. n : (n + 1) - k \in S}
<1>1. 0 \in T
  OBVIOUS
<1>2. ASSUME NEW k \in 0 .. n - 1, k \in T PROVE k + 1 \in T
  <2>1. n - k \in 1 .. n /\ (n - k) + 1 = (n + 1) - k /\ n - k = (n + 1) - (k + 1)
    OBVIOUS
  <2> QED BY <1>2, <2>1
<1>3. 0 .. n \subseteq T
  BY <1>1, <1>2, UpTo
<1>4. \A k \in 1 .. n + 1 : (n + 1) - k \in 0 .. n /\ (n + 1) - ((n + 1) - k) = k
  OBVIOUS
<1> QED BY <1>3, <1>4

-----------------------------------------------------------------------------
(* The greatest and the least number of a set                              *)

LEMMA GreatestExists ==
  ASSUME NEW n \in Nat
  PROVE  \A s \in SUBSET (1..n) : s # {} => \E x \in s : \A y \in s : x >= y
<1> DEFINE T == {k \in Nat : \A s \in SUBSET (1..k) : s # {} => \E x \in s : \A y \in s : x >= y}
<1>1. 0 \in T
  <2>1. 1..0 = {}
    OBVIOUS
  <2>2. \A s \in SUBSET (1..0) : s = {}
    BY <2>1
  <2> QED BY <2>2
<1>2. ASSUME NEW k \in Nat, k \in T PROVE k + 1 \in T
  <2>1. SUFFICES ASSUME NEW s \in SUBSET (1 .. k + 1), s # {} PROVE \E x \in s : \A y \in s : x >= y
    OBVIOUS
  <2>2. CASE k + 1 \in s
    BY <2>2
  <2>3. CASE k + 1 \notin s
    <3>1. s \in SUBSET (1 .. k)
      BY <2>3
    <3> QED BY <1>2, <2>1, <3>1
  <2> QED BY <2>2, <2>3
<1>3. n \in T
  BY <1>1, <1>2, Induction
<1> QED BY <1>3

LEMMA GreatestOf ==
  ASSUME NEW n \in Nat, NEW s \in SUBSET (1..n), s # {}
  PROVE  Max(s) \in s /\ \A y \in s : Max(s) >= y
<1>1. \E x \in s : \A y \in s : x >= y
  BY GreatestExists
<1> QED BY <1>1 DEF Max

LEMMA LeastOf ==
  ASSUME NEW n \in Nat, NEW s \in SUBSET (1..n), s # {}
  PROVE  Min(s) \in s /\ \A y \in s : Min(s) <= y
<1> DEFINE t == {(n + 1) - x : x \in s}
<1>1. t \in SUBSET (1..n) /\ t # {}
  <2>1. \A x \in s : (n + 1) - x \in 1..n
    OBVIOUS
  <2> QED BY <2>1
<1>2. PICK z \in t : \A y \in t : z >= y
  BY <1>1, GreatestExists
<1>3. PICK x \in s : z = (n + 1) - x
  OBVIOUS
<1>4. \A y \in s : x <= y
  <2> SUFFICES ASSUME NEW y \in s PROVE x <= y
    OBVIOUS
  <2>1. z >= (n + 1) - y
    BY <1>2
  <2> QED BY <1>3, <2>1
<1> QED BY <1>4 DEF Min

LEMMA GreatestOfPrefix ==
  ASSUME NEW n \in Nat, NEW k \in 1..n
  PROVE  Max(1..k) = k /\ (1..k) \ {k} = 1 .. k - 1 /\ 1..k \in SUBSET (1..n)
<1>1. 1..k \in SUBSET (1..n) /\ k \in 1..k
  OBVIOUS
<1>2. Max(1..k) \in 1..k /\ Max(1..k) >= k
  BY <1>1, GreatestOf
<1> QED BY <1>1, <1>2

LEMMA LeastOfSuffix ==
  ASSUME NEW n \in Nat, NEW k \in 1..n
  PROVE  Min(k..n) = k /\ (k..n) \ {k} = k + 1 .. n /\ k..n \in SUBSET (1..n)
<1>1. k..n \in SUBSET (1..n) /\ k \in k..n
  OBVIOUS
<1>2. Min(k..n) \in k..n /\ Min(k..n) <= k
  BY <1>1, LeastOf
<1> QED BY <1>1, <1>2

-----------------------------------------------------------------------------
(* Folds                                                                   *)

\* A function on the subsets of a finite set may be defined from its value on
\* the set without one of its elements.
Foldable(S, B, base, F, pick) ==
  /\ IsFiniteSet(S) /\ base \in B /\ F \in [S -> [B -> B]]
  /\ \A s \in SUBSET S : s # {} => pick[s] \in s

IsFold(it, S, B, base, F, pick) ==
  /\ it \in [SUBSET S -> B]
  /\ \A s \in SUBSET S : it[s] = IF s = {} THEN base ELSE F[pick[s]][it[s \ {pick[s]}]]

LEMMA FoldExists ==
  ASSUME NEW S, NEW B, NEW base, NEW F, NEW least, Foldable(S, B, base, F, least)
  PROVE  \E it : IsFold(it, S, B, base, F, least)
<1> USE DEF Foldable, IsFold
<1> DEFINE Holds(it, s) == it[s] = IF s = {} THEN base ELSE F[least[s]][it[s \ {least[s]}]]
           T == {k \in Nat : \E it \in [SUBSET S -> B] :
                               \A s \in SUBSET S : Cardinality(s) <= k => Holds(it, s)}
<1>0. \A s \in SUBSET S : IsFiniteSet(s) /\ Cardinality(s) \in Nat /\ Cardinality(s) <= Cardinality(S)
  BY FS_Subset, FS_CardinalityType
<1>1. 0 \in T
  <2> DEFINE it == [s \in SUBSET S |-> base]
  <2>1. \A s \in SUBSET S : Cardinality(s) <= 0 => s = {}
    BY <1>0, FS_EmptySet
  <2>2. it \in [SUBSET S -> B] /\ \A s \in SUBSET S : Cardinality(s) <= 0 => Holds(it, s)
    BY <2>1
  <2> QED BY <2>2
<1>2. ASSUME NEW k \in Nat, k \in T PROVE k + 1 \in T
  <2>1. PICK it \in [SUBSET S -> B] : \A s \in SUBSET S : Cardinality(s) <= k => Holds(it, s)
    BY <1>2
  <2> DEFINE next == [s \in SUBSET S |-> IF Cardinality(s) <= k THEN it[s]
                                         ELSE F[least[s]][it[s \ {least[s]}]]]
  <2>2. \A s \in SUBSET S : s # {} => least[s] \in S /\ s \ {least[s]} \in SUBSET S
    OBVIOUS
  <2>3. \A s \in SUBSET S : ~(Cardinality(s) <= k) => s # {}
    <3> SUFFICES ASSUME NEW s \in SUBSET S, s = {} PROVE Cardinality(s) <= k
      OBVIOUS
    <3> QED BY FS_EmptySet
  <2>4. next \in [SUBSET S -> B]
    BY <2>2, <2>3
  <2>5. ASSUME NEW s \in SUBSET S, Cardinality(s) <= k + 1 PROVE Holds(next, s)
    <3>1. s # {} => Cardinality(s \ {least[s]}) <= k
      <4>1. s # {} => Cardinality(s \ {least[s]}) = Cardinality(s) - 1
        BY <1>0, FS_RemoveElement
      <4> QED BY <1>0, <2>5, <4>1
    <3>2. s # {} => next[s \ {least[s]}] = it[s \ {least[s]}]
      BY <2>2, <3>1
    <3>3. CASE Cardinality(s) <= k
      <4>1. Holds(it, s) /\ next[s] = it[s]
        BY <2>1, <3>3
      <4> QED BY <3>2, <4>1
    <3>4. CASE ~(Cardinality(s) <= k)
      <4>1. s # {} /\ next[s] = F[least[s]][it[s \ {least[s]}]]
        BY <2>3, <3>4
      <4> QED BY <3>2, <4>1
    <3> QED BY <3>3, <3>4
  <2> HIDE DEF next, Holds
  <2>6. \E g \in [SUBSET S -> B] : \A s \in SUBSET S : Cardinality(s) <= k + 1 => Holds(g, s)
    BY <2>4, <2>5
  <2> QED BY <2>6
<1>3. Cardinality(S) \in T
  <2>1. Nat \subseteq T
    BY <1>1, <1>2, Induction
  <2> QED BY <1>0, <2>1
<1> QED BY <1>0, <1>3

\* FoldLeft and FoldRight, as functions of a set of places.
FoldsLeft(it, n, B, base, F) ==
  /\ it \in [SUBSET (1..n) -> B]
  /\ \A s \in SUBSET (1..n) : it[s] = IF s = {} THEN base ELSE F[Max(s)][it[s \ {Max(s)}]]
FoldsRight(it, n, B, base, F) ==
  /\ it \in [SUBSET (1..n) -> B]
  /\ \A s \in SUBSET (1..n) : it[s] = IF s = {} THEN base ELSE F[Min(s)][it[s \ {Min(s)}]]

LEMMA FoldLeftExists ==
  ASSUME NEW n \in Nat, NEW B, NEW base \in B, NEW F \in [1..n -> [B -> B]]
  PROVE  \E it : FoldsLeft(it, n, B, base, F)
<1> DEFINE last == [s \in SUBSET (1..n) |-> Max(s)]
<1>1. \A s \in SUBSET (1..n) : s # {} => last[s] \in s
  BY GreatestOf
<1>2. PICK it : IsFold(it, 1..n, B, base, F, last)
  <2>1. IsFiniteSet(1..n)
    BY FS_Interval
  <2> HIDE DEF last
  <2>2. Foldable(1..n, B, base, F, last)
    BY <1>1, <2>1 DEF Foldable
  <2> QED BY <2>2, FoldExists
<1> QED BY <1>2 DEF IsFold, FoldsLeft

LEMMA FoldRightExists ==
  ASSUME NEW n \in Nat, NEW B, NEW base \in B, NEW F \in [1..n -> [B -> B]]
  PROVE  \E it : FoldsRight(it, n, B, base, F)
<1> DEFINE first == [s \in SUBSET (1..n) |-> Min(s)]
<1>1. \A s \in SUBSET (1..n) : s # {} => first[s] \in s
  BY LeastOf
<1>2. PICK it : IsFold(it, 1..n, B, base, F, first)
  <2>1. IsFiniteSet(1..n)
    BY FS_Interval
  <2> HIDE DEF first
  <2>2. Foldable(1..n, B, base, F, first)
    BY <1>1, <2>1 DEF Foldable
  <2> QED BY <2>2, FoldExists
<1> QED BY <1>2 DEF IsFold, FoldsRight

\* What such a function is at the first k places, or at those from k on, is a
\* run of the steps F.
Upwards(it, n, B, base, F) ==
  /\ it[1..0] = base
  /\ \A k \in 1..n : it[1 .. k - 1] \in B => it[1..k] = F[k][it[1 .. k - 1]]
Downwards(it, n, B, base, F) ==
  /\ it[n + 1 .. n] = base
  /\ \A k \in 1..n : it[k + 1 .. n] \in B => it[k..n] = F[k][it[k + 1 .. n]]
IsRun(X, n, B, base, F) ==
  /\ X \in [0..n -> B] /\ X[0] = base /\ \A k \in 1..n : X[k] = F[k][X[k - 1]]
IsRunBack(X, n, B, base, F) ==
  /\ X \in [1 .. n + 1 -> B] /\ X[n + 1] = base /\ \A k \in 1..n : X[k] = F[k][X[k + 1]]

LEMMA RunUp ==
  ASSUME NEW n \in Nat, NEW B, NEW base \in B, NEW F \in [1..n -> [B -> B]], NEW it, Upwards(it, n, B, base, F)
  PROVE  \E X : IsRun(X, n, B, base, F) /\ X[n] = it[1..n]
<1> DEFINE X == [k \in 0..n |-> it[1..k]]
           S == {k \in 0..n : it[1..k] \in B}
<1>1. 0 \in S /\ \A k \in 0 .. n - 1 : k \in S => k + 1 \in S
  <2>1. 0 \in S
    BY DEF Upwards
  <2>2. ASSUME NEW k \in 0 .. n - 1, k \in S PROVE k + 1 \in S
    <3>1. k + 1 \in 1..n /\ (k + 1) - 1 = k /\ k + 1 \in 0..n
      OBVIOUS
    <3>2. it[1 .. k + 1] = F[k + 1][it[1..k]]
      BY <2>2, <3>1 DEF Upwards
    <3> QED BY <2>2, <3>1, <3>2
  <2> QED BY <2>1, <2>2
<1>2. 0..n \subseteq S
  <2> HIDE DEF S
  <2> QED BY <1>1, UpTo
<1>3. X \in [0..n -> B] /\ X[0] = base /\ \A k \in 1..n : X[k] = F[k][X[k - 1]]
  BY <1>2 DEF Upwards
<1>4. X[n] = it[1..n]
  OBVIOUS
<1> HIDE DEF X
<1> QED BY <1>3, <1>4 DEF IsRun

LEMMA RunDown ==
  ASSUME NEW n \in Nat, NEW B, NEW base \in B, NEW F \in [1..n -> [B -> B]], NEW it, Downwards(it, n, B, base, F)
  PROVE  \E X : IsRunBack(X, n, B, base, F) /\ X[1] = it[1..n]
<1> DEFINE X == [k \in 1 .. n + 1 |-> it[k..n]]
           S == {k \in 1 .. n + 1 : it[k..n] \in B}
<1>1. n + 1 \in S /\ \A k \in 1..n : k + 1 \in S => k \in S
  BY DEF Downwards
<1>2. 1 .. n + 1 \subseteq S
  <2> HIDE DEF S
  <2> QED BY <1>1, DownTo
<1>3. X \in [1 .. n + 1 -> B] /\ X[n + 1] = base /\ \A k \in 1..n : X[k] = F[k][X[k + 1]]
  BY <1>2 DEF Downwards
<1>4. X[1] = it[1..n]
  OBVIOUS
<1> HIDE DEF X
<1> QED BY <1>3, <1>4 DEF IsRunBack

-----------------------------------------------------------------------------
(* The order of a packet                                                   *)

\* What the order depends on: no two instructions have a unit in common, and
\* they read some of finitely many cells.
Units == {"MEM", "RCU", "MUL", "ALU"}
Instructions(U, C) ==
  /\ IsFiniteSet(C)
  /\ \A n \in U : n.unit \in Units \cup {"ECU"} /\ n.in \subseteq C
  /\ \A m, n \in U : m.unit = n.unit => m = n

\* Every element of U is in the sequence, once.
IsOrder(s, U) ==
  /\ Len(s) \in Nat /\ DOMAIN s = 1 .. Len(s)
  /\ \A i \in 1 .. Len(s) : s[i] \in U
  /\ \A u \in U : \E i \in 1 .. Len(s) : s[i] = u
  /\ \A i, j \in 1 .. Len(s) : s[i] = s[j] => i = j

LEMMA SmallestExists ==
  ASSUME NEW T \in SUBSET Nat, T # {}
  PROVE  \E x \in T : \A y \in T : x <= y
<1> DEFINE S == {m \in Nat : \A y \in T : m <= y}
<1>1. CASE \A m \in Nat : m \in S => m + 1 \in S
  <2>1. 0 \in S
    OBVIOUS
  <2>2. Nat \subseteq S
    BY <1>1, <2>1, Induction
  <2>3. PICK y \in T : TRUE
    OBVIOUS
  <2>4. y + 1 \in S
    BY <2>2
  <2> QED BY <2>4
<1>2. CASE ~(\A m \in Nat : m \in S => m + 1 \in S)
  <2>1. PICK m \in Nat : m \in S /\ m + 1 \notin S
    BY <1>2
  <2>2. PICK y \in T : ~(m + 1 <= y)
    BY <2>1
  <2>3. y = m
    BY <2>1, <2>2
  <2> QED BY <2>1, <2>3
<1> QED BY <1>1, <1>2

\* A score is a number.
LEMMA ScoreType ==
  ASSUME NEW C, IsFiniteSet(C), NEW s, Len(s) \in Nat, \A i \in 1 .. Len(s) : s[i].in \subseteq C
  PROVE  Score(s) \in Nat
<1>1. CellsIn(s) \subseteq C
  BY DEF CellsIn, Dependencies
<1> QED BY <1>1, FS_Subset, FS_CardinalityType DEF Score

\* One of the candidates has the lowest score.
LEMMA LastLowestIsOne ==
  ASSUME NEW scored, DOMAIN scored = 1..6, \A i \in 1..6 : Score(scored[i]) \in Nat
  PROVE  LastLowest(scored) \in 1..6
<1> DEFINE score == [i \in DOMAIN scored |-> Score(scored[i])]
           least == CHOOSE k \in Range(score) : \A i \in DOMAIN scored : k <= score[i]
           I == {i \in 1 .. Len(score) : score[i] = least}
<1>1. score \in [1..6 -> Nat] /\ Len(score) = 6
  OBVIOUS
<1>2. Range(score) \in SUBSET Nat /\ Range(score) # {} /\ \A i \in 1..6 : score[i] \in Range(score)
  BY <1>1 DEF Range
<1>3. \E k \in Range(score) : \A i \in DOMAIN scored : k <= score[i]
  BY <1>1, <1>2, SmallestExists
<1>4. least \in Range(score)
  BY <1>3
<1> HIDE DEF least
<1>5. I \in SUBSET (1..6) /\ I # {}
  BY <1>1, <1>4 DEF Range
<1>6. Max(I) \in 1..6
  BY <1>5, GreatestOf
<1> USE DEF least
<1>7. LastLowest(scored) = IF I # {} THEN Max(I) ELSE 0
  BY DEF LastLowest, SelectLastInSeq
<1> QED BY <1>5, <1>6, <1>7

LEMMA OneInOrder ==
  ASSUME NEW a
  PROVE  IsOrder(<<a>>, {a})
BY DEF IsOrder

LEMMA TwoInOrder ==
  ASSUME NEW a, NEW b, a # b
  PROVE  IsOrder(<<a, b>>, {a, b})
BY DEF IsOrder

LEMMA ThreeInOrder ==
  ASSUME NEW a, NEW b, NEW c, a # b, a # c, b # c
  PROVE  IsOrder(<<a, b, c>>, {a, b, c})
BY DEF IsOrder

LEMMA FourInOrder ==
  ASSUME NEW a, NEW b, NEW c, NEW d, a # b, a # c, a # d, b # c, b # d, c # d
  PROVE  IsOrder(<<a, b, c, d>>, {a, b, c, d})
BY DEF IsOrder

LEMMA PairOrder ==
  ASSUME NEW a, NEW b, a # b
  PROVE  IsOrder(ChooseInstructionPairOrdering(a, b), {a, b})
<1>1. {a, b} = {b, a}
  OBVIOUS
<1>2. IsOrder(<<b, a>>, {a, b})
  BY <1>1, TwoInOrder
<1> QED BY <1>2, TwoInOrder DEF ChooseInstructionPairOrdering

LEMMA TripletOrder ==
  ASSUME NEW C, NEW a, NEW b, NEW c, Instructions({a, b, c}, C), a # b, a # c, b # c
  PROVE  /\ IsOrder(ScheduleInstructionTriplet(a, b, c), {a, b, c})
         /\ Len(ScheduleInstructionTriplet(a, b, c)) = 3
<1> DEFINE scored == <<<<a, b, c>>, <<a, c, b>>, <<b, c, a>>, <<b, a, c>>, <<c, a, b>>, <<c, b, a>>>>
           placed == <<<<a, b, c>>, <<a, c, b>>, <<c, a, b>>, <<b, a, c>>, <<b, c, a>>, <<c, b, a>>>>
<1>1. a.in \subseteq C /\ b.in \subseteq C /\ c.in \subseteq C /\ IsFiniteSet(C)
  BY DEF Instructions
<1>2. \A i \in 1..6 : Score(scored[i]) \in Nat
  <2> SUFFICES ASSUME NEW i \in 1..6 PROVE Score(scored[i]) \in Nat
    OBVIOUS
  <2> DEFINE s == scored[i]
  <2>1. Len(s) = 3 /\ \A j \in 1..3 : s[j].in \subseteq C
    BY <1>1
  <2> HIDE DEF s
  <2>2. Len(s) \in Nat /\ \A j \in 1 .. Len(s) : s[j].in \subseteq C
    BY <2>1
  <2>3. Score(s) \in Nat
    BY <1>1, <2>2, ScoreType
  <2> QED BY <2>3 DEF s
<1>3. LastLowest(scored) \in 1..6
  <2> DEFINE t == scored
  <2>1. DOMAIN t = 1..6
    OBVIOUS
  <2> HIDE DEF t
  <2> QED BY <1>2, <2>1, LastLowestIsOne
<1>4. \A i \in 1..6 : IsOrder(placed[i], {a, b, c}) /\ Len(placed[i]) = 3
  <2>1. /\ {a, b, c} = {a, c, b} /\ {a, b, c} = {c, a, b} /\ {a, b, c} = {b, a, c}
        /\ {a, b, c} = {b, c, a} /\ {a, b, c} = {c, b, a}
    OBVIOUS
  <2>2. /\ IsOrder(placed[1], {a, b, c}) /\ IsOrder(placed[2], {a, b, c}) /\ IsOrder(placed[3], {a, b, c})
        /\ IsOrder(placed[4], {a, b, c}) /\ IsOrder(placed[5], {a, b, c}) /\ IsOrder(placed[6], {a, b, c})
    BY <2>1, ThreeInOrder
  <2> QED BY <2>2
<1> HIDE DEF scored, placed
<1>5. ScheduleInstructionTriplet(a, b, c) = placed[LastLowest(scored)]
  BY DEF ScheduleInstructionTriplet, scored, placed
<1> QED BY <1>3, <1>4, <1>5

LEMMA QuartetOrder ==
  ASSUME NEW C, NEW a, NEW b, NEW c, NEW d, Instructions({a, b, c, d}, C),
         a # b, a # c, a # d, b # c, b # d, c # d
  PROVE  IsOrder(ScheduleInstructionQuartet(a, b, c, d), {a, b, c, d})
<1> DEFINE scored == <<<<a, b, c, d>>, <<a, c, b, d>>, <<c, a, b, d>>,
                       <<d, a, c, b>>, <<d, c, a, b>>, <<a, d, c, b>>>>
<1>1. a.in \subseteq C /\ b.in \subseteq C /\ c.in \subseteq C /\ d.in \subseteq C /\ IsFiniteSet(C)
  BY DEF Instructions
<1>2. \A i \in 1..6 : Score(scored[i]) \in Nat
  <2> SUFFICES ASSUME NEW i \in 1..6 PROVE Score(scored[i]) \in Nat
    OBVIOUS
  <2> DEFINE s == scored[i]
  <2>1. Len(s) = 4 /\ \A j \in 1..4 : s[j].in \subseteq C
    BY <1>1
  <2> HIDE DEF s
  <2>2. Len(s) \in Nat /\ \A j \in 1 .. Len(s) : s[j].in \subseteq C
    BY <2>1
  <2>3. Score(s) \in Nat
    BY <1>1, <2>2, ScoreType
  <2> QED BY <2>3 DEF s
<1>3. LastLowest(scored) \in 1..6
  <2> DEFINE t == scored
  <2>1. DOMAIN t = 1..6
    OBVIOUS
  <2> HIDE DEF t
  <2> QED BY <1>2, <2>1, LastLowestIsOne
<1>4. \A i \in 1..6 : IsOrder(scored[i], {a, b, c, d})
  <2>1. /\ {a, b, c, d} = {a, c, b, d} /\ {a, b, c, d} = {c, a, b, d}
        /\ {a, b, c, d} = {d, a, c, b} /\ {a, b, c, d} = {d, c, a, b} /\ {a, b, c, d} = {a, d, c, b}
    OBVIOUS
  <2>2. /\ IsOrder(scored[1], {a, b, c, d}) /\ IsOrder(scored[2], {a, b, c, d})
        /\ IsOrder(scored[3], {a, b, c, d}) /\ IsOrder(scored[4], {a, b, c, d})
        /\ IsOrder(scored[5], {a, b, c, d}) /\ IsOrder(scored[6], {a, b, c, d})
    BY <2>1, FourInOrder
  <2> QED BY <2>2
<1> HIDE DEF scored
<1>5. ScheduleInstructionQuartet(a, b, c, d) = scored[LastLowest(scored)]
  BY DEF ScheduleInstructionQuartet, scored
<1> QED BY <1>3, <1>4, <1>5

-----------------------------------------------------------------------------
\* The instructions of a packet that DecompressPacket schedules.
Scheduling(p) == {n \in p.units : n.unit # "ECU"}
MemoryFirst(s) == \A i \in 1 .. Len(s) : s[i].unit = "MEM" => i = 1

LEMMA UnitIsIn ==
  ASSUME NEW p, NEW u, u \in {n.unit : n \in p.units}
  PROVE  Unit(p, u) \in p.units /\ Unit(p, u).unit = u
BY DEF Unit

LEMMA WithoutMemory ==
  ASSUME NEW U, NEW s, IsOrder(s, U), \A n \in U : n.unit # "MEM"
  PROVE  MemoryFirst(s)
BY DEF IsOrder, MemoryFirst

LEMMA WithMemoryFirst ==
  ASSUME NEW U, NEW s, IsOrder(s, U), NEW mem, s[1] = mem, Len(s) # 0, \A n \in U : n.unit = "MEM" => n = mem
  PROVE  MemoryFirst(s)
BY DEF IsOrder, MemoryFirst

LEMMA OneMoreInOrder ==
  ASSUME NEW a, NEW U, NEW s, IsOrder(s, U), a \notin U
  PROVE  IsOrder(<<a>> \o s, {a} \cup U) /\ (<<a>> \o s)[1] = a /\ Len(<<a>> \o s) = Len(s) + 1
<1> DEFINE t == <<a>> \o s
<1>1. /\ Len(t) = Len(s) + 1 /\ DOMAIN t = 1 .. Len(s) + 1 /\ t[1] = a
      /\ \A i \in 1 .. Len(s) : t[i + 1] = s[i]
  BY DEF IsOrder
<1> HIDE DEF t
<1>2. \A i \in 1 .. Len(s) + 1 : i = 1 \/ (i - 1 \in 1 .. Len(s) /\ t[i] = s[i - 1])
  <2> SUFFICES ASSUME NEW i \in 1 .. Len(s) + 1, i # 1 PROVE i - 1 \in 1 .. Len(s) /\ t[i] = s[i - 1]
    OBVIOUS
  <2>1. Len(s) \in Nat /\ i - 1 \in 1 .. Len(s) /\ (i - 1) + 1 = i
    BY DEF IsOrder
  <2> QED BY <1>1, <2>1
<1>3. \A i \in 1 .. Len(t) : t[i] \in {a} \cup U
  BY <1>1, <1>2 DEF IsOrder
<1>4. \A u \in {a} \cup U : \E i \in 1 .. Len(t) : t[i] = u
  <2>1. Len(s) \in Nat
    BY DEF IsOrder
  <2>2. 1 \in 1 .. Len(t) /\ \A i \in 1 .. Len(s) : i + 1 \in 1 .. Len(t)
    BY <1>1, <2>1
  <2>3. ASSUME NEW u \in U PROVE \E i \in 1 .. Len(t) : t[i] = u
    <3>1. PICK i \in 1 .. Len(s) : s[i] = u
      BY DEF IsOrder
    <3> QED BY <1>1, <2>2, <3>1
  <2> QED BY <1>1, <2>2, <2>3
<1>5. \A i, j \in 1 .. Len(t) : t[i] = t[j] => i = j
  BY <1>1, <1>2 DEF IsOrder
<1> QED BY <1>1, <1>3, <1>4, <1>5 DEF IsOrder, t

\* A packet is scheduled as a whole; for the compiler, the memory unit first.
LEMMA ScheduledOrder ==
  ASSUME NEW C, NEW p, NEW memFirst \in BOOLEAN, Instructions(p.units, C)
  PROVE  /\ IsOrder(Scheduled(p, memFirst), Scheduling(p))
         /\ memFirst => MemoryFirst(Scheduled(p, memFirst))
<1> DEFINE rcu == Unit(p, "RCU")
           alu == Unit(p, "ALU")
           mul == Unit(p, "MUL")
           mem == Unit(p, "MEM")
           units == {n.unit : n \in p.units} \ {"ECU"}
           U == Scheduling(p)
<1>1. /\ "RCU" \in units => rcu \in U /\ rcu.unit = "RCU"
      /\ "ALU" \in units => alu \in U /\ alu.unit = "ALU"
      /\ "MUL" \in units => mul \in U /\ mul.unit = "MUL"
      /\ "MEM" \in units => mem \in U /\ mem.unit = "MEM"
  BY UnitIsIn DEF Scheduling
<1>2. \A u \in units : \E n \in U : n.unit = u
  BY DEF Scheduling
<1>3. \A n \in U : n.unit \in units /\ n.unit \in Units
  BY DEF Scheduling, Instructions
<1>4. \A m, n \in U : m.unit = n.unit => m = n
  BY DEF Scheduling, Instructions
<1>5. Instructions(U, C)
  BY DEF Scheduling, Instructions
<1>6. CASE units = {}
  <2>1. Scheduled(p, memFirst) = <<>>
    BY <1>6 DEF Scheduled
  <2>2. U = {}
    BY <1>3, <1>6
  <2>3. IsOrder(<<>>, {}) /\ MemoryFirst(<<>>)
    BY DEF IsOrder, MemoryFirst
  <2> QED BY <2>1, <2>2, <2>3
<1>7. ASSUME NEW u \in Units, units = {u} PROVE IsOrder(Scheduled(p, memFirst), U) /\ MemoryFirst(Scheduled(p, memFirst))
  <2> DEFINE n == CHOOSE n \in p.units : n.unit \in units
  <2>1. Scheduled(p, memFirst) = <<n>>
    <3>1. units \in {{"MEM"}, {"RCU"}, {"MUL"}, {"ALU"}} /\ units # {}
      BY <1>7 DEF Units
    <3> QED BY <1>7, <3>1 DEF Scheduled, Units
  <2>2. n \in p.units /\ n.unit \in units
    BY <1>2, <1>7 DEF Scheduling
  <2>3. n \in U
    BY <1>7, <2>2 DEF Scheduling, Units
  <2> HIDE DEF n
  <2>4. U = {n}
    BY <1>3, <1>4, <1>7, <2>2, <2>3
  <2>5. MemoryFirst(<<n>>)
    BY DEF MemoryFirst
  <2> QED BY <2>1, <2>4, <2>5, OneInOrder
<1>8. CASE units = {"MEM", "RCU"}
  <2>0. "MEM" \in units /\ "RCU" \in units /\ "MUL" \notin units /\ "ALU" \notin units
    BY <1>8
  <2>1. Scheduled(p, memFirst) =
          IF memFirst THEN <<mem, rcu>> ELSE ChooseInstructionPairOrdering(rcu, mem)
    BY <1>8, <2>0 DEF Scheduled
  <2> HIDE DEF rcu, alu, mul, mem, units
  <2>2. U = {mem, rcu}
    <3>1. \A n \in U : n.unit \in {"MEM", "RCU"}
      BY <1>3, <1>8
    <3> QED BY <1>1, <1>4, <2>0, <3>1
  <2>3. mem # rcu
    BY <1>1, <2>0
  <2>4. IsOrder(Scheduled(p, memFirst), U)
    BY <1>5, <2>1, <2>2, <2>3, TwoInOrder, PairOrder
  <2>5. memFirst => MemoryFirst(Scheduled(p, memFirst))
    <3>1. \A n \in U : n.unit = "MEM" => n = mem
      BY <1>1, <1>4, <2>0
    <3>2. memFirst => Scheduled(p, memFirst)[1] = mem /\ Len(Scheduled(p, memFirst)) # 0
      BY <2>1
    <3> QED BY <2>4, <3>1, <3>2, WithMemoryFirst
  <2> QED BY <2>4, <2>5
<1>9. CASE units = {"MUL", "RCU"}
  <2>0. "MEM" \notin units /\ "RCU" \in units /\ "MUL" \in units /\ "ALU" \notin units
    BY <1>9
  <2>1. Scheduled(p, memFirst) =
          ChooseInstructionPairOrdering(rcu, mul)
    BY <1>9, <2>0 DEF Scheduled
  <2> HIDE DEF rcu, alu, mul, mem, units
  <2>2. U = {mul, rcu}
    <3>1. \A n \in U : n.unit \in {"MUL", "RCU"}
      BY <1>3, <1>9
    <3> QED BY <1>1, <1>4, <2>0, <3>1
  <2>3. mul # rcu
    BY <1>1, <2>0
  <2>4. IsOrder(Scheduled(p, memFirst), U)
    BY <1>5, <2>1, <2>2, <2>3, TwoInOrder, PairOrder
  <2>5. MemoryFirst(Scheduled(p, memFirst))
    BY <1>3, <2>0, <2>4, WithoutMemory
  <2> QED BY <2>4, <2>5
<1>10. CASE units = {"MUL", "MEM"}
  <2>0. "MEM" \in units /\ "RCU" \notin units /\ "MUL" \in units /\ "ALU" \notin units
    BY <1>10
  <2>1. Scheduled(p, memFirst) =
          IF memFirst THEN <<mem, mul>> ELSE ChooseInstructionPairOrdering(mul, mem)
    BY <1>10, <2>0 DEF Scheduled
  <2> HIDE DEF rcu, alu, mul, mem, units
  <2>2. U = {mul, mem}
    <3>1. \A n \in U : n.unit \in {"MUL", "MEM"}
      BY <1>3, <1>10
    <3> QED BY <1>1, <1>4, <2>0, <3>1
  <2>3. mul # mem
    BY <1>1, <2>0
  <2>4. IsOrder(Scheduled(p, memFirst), U)
    BY <1>5, <2>1, <2>2, <2>3, TwoInOrder, PairOrder
  <2>5. memFirst => MemoryFirst(Scheduled(p, memFirst))
    <3>1. \A n \in U : n.unit = "MEM" => n = mem
      BY <1>1, <1>4, <2>0
    <3>2. memFirst => Scheduled(p, memFirst)[1] = mem /\ Len(Scheduled(p, memFirst)) # 0
      BY <2>1
    <3> QED BY <2>4, <3>1, <3>2, WithMemoryFirst
  <2> QED BY <2>4, <2>5
<1>11. CASE units = {"ALU", "MEM"}
  <2>0. "MEM" \in units /\ "RCU" \notin units /\ "MUL" \notin units /\ "ALU" \in units
    BY <1>11
  <2>1. Scheduled(p, memFirst) =
          IF memFirst THEN <<mem, alu>> ELSE ChooseInstructionPairOrdering(alu, mem)
    BY <1>11, <2>0 DEF Scheduled
  <2> HIDE DEF rcu, alu, mul, mem, units
  <2>2. U = {alu, mem}
    <3>1. \A n \in U : n.unit \in {"ALU", "MEM"}
      BY <1>3, <1>11
    <3> QED BY <1>1, <1>4, <2>0, <3>1
  <2>3. alu # mem
    BY <1>1, <2>0
  <2>4. IsOrder(Scheduled(p, memFirst), U)
    BY <1>5, <2>1, <2>2, <2>3, TwoInOrder, PairOrder
  <2>5. memFirst => MemoryFirst(Scheduled(p, memFirst))
    <3>1. \A n \in U : n.unit = "MEM" => n = mem
      BY <1>1, <1>4, <2>0
    <3>2. memFirst => Scheduled(p, memFirst)[1] = mem /\ Len(Scheduled(p, memFirst)) # 0
      BY <2>1
    <3> QED BY <2>4, <3>1, <3>2, WithMemoryFirst
  <2> QED BY <2>4, <2>5
<1>12. CASE units = {"ALU", "RCU"}
  <2>0. "MEM" \notin units /\ "RCU" \in units /\ "MUL" \notin units /\ "ALU" \in units
    BY <1>12
  <2>1. Scheduled(p, memFirst) =
          <<rcu, alu>>
    BY <1>12, <2>0 DEF Scheduled
  <2> HIDE DEF rcu, alu, mul, mem, units
  <2>2. U = {alu, rcu}
    <3>1. \A n \in U : n.unit \in {"ALU", "RCU"}
      BY <1>3, <1>12
    <3> QED BY <1>1, <1>4, <2>0, <3>1
  <2>3. alu # rcu
    BY <1>1, <2>0
  <2>4. IsOrder(Scheduled(p, memFirst), U)
    BY <1>5, <2>1, <2>2, <2>3, TwoInOrder, PairOrder
  <2>5. MemoryFirst(Scheduled(p, memFirst))
    BY <1>3, <2>0, <2>4, WithoutMemory
  <2> QED BY <2>4, <2>5
<1>13. CASE units = {"ALU", "MUL"}
  <2>0. "MEM" \notin units /\ "RCU" \notin units /\ "MUL" \in units /\ "ALU" \in units
    BY <1>13
  <2>1. Scheduled(p, memFirst) =
          ChooseInstructionPairOrdering(alu, mul)
    BY <1>13, <2>0 DEF Scheduled
  <2> HIDE DEF rcu, alu, mul, mem, units
  <2>2. U = {alu, mul}
    <3>1. \A n \in U : n.unit \in {"ALU", "MUL"}
      BY <1>3, <1>13
    <3> QED BY <1>1, <1>4, <2>0, <3>1
  <2>3. alu # mul
    BY <1>1, <2>0
  <2>4. IsOrder(Scheduled(p, memFirst), U)
    BY <1>5, <2>1, <2>2, <2>3, TwoInOrder, PairOrder
  <2>5. MemoryFirst(Scheduled(p, memFirst))
    BY <1>3, <2>0, <2>4, WithoutMemory
  <2> QED BY <2>4, <2>5
<1>14. CASE units = {"MUL", "MEM", "RCU"}
  <2>0. "MEM" \in units /\ "RCU" \in units /\ "MUL" \in units /\ "ALU" \notin units
    BY <1>14
  <2>1. Scheduled(p, memFirst) =
          IF ~memFirst THEN ScheduleInstructionTriplet(mul, mem, rcu)
                        ELSE IF Has(p, "ECU") THEN <<mem, rcu, mul>> ELSE <<mem, mul, rcu>>
    BY <1>14, <2>0 DEF Scheduled
  <2> HIDE DEF rcu, alu, mul, mem, units
  <2>2. U = {mul, mem, rcu}
    <3>1. \A n \in U : n.unit \in {"MUL", "MEM", "RCU"}
      BY <1>3, <1>14
    <3> QED BY <1>1, <1>4, <2>0, <3>1
  <2>3. mul # mem /\ mul # rcu /\ mem # rcu
    BY <1>1, <2>0
  <2>4. IsOrder(Scheduled(p, memFirst), U)
    BY <1>5, <2>1, <2>2, <2>3, ThreeInOrder, TripletOrder
  <2>5. memFirst => MemoryFirst(Scheduled(p, memFirst))
    <3>1. \A n \in U : n.unit = "MEM" => n = mem
      BY <1>1, <1>4, <2>0
    <3>2. memFirst => Scheduled(p, memFirst)[1] = mem /\ Len(Scheduled(p, memFirst)) # 0
      BY <2>1
    <3> QED BY <2>4, <3>1, <3>2, WithMemoryFirst
  <2> QED BY <2>4, <2>5
<1>15. CASE units = {"ALU", "MEM", "RCU"}
  <2>0. "MEM" \in units /\ "RCU" \in units /\ "MUL" \notin units /\ "ALU" \in units
    BY <1>15
  <2>1. Scheduled(p, memFirst) =
          IF memFirst THEN <<mem, rcu, alu>> ELSE ScheduleInstructionTriplet(alu, mem, rcu)
    BY <1>15, <2>0 DEF Scheduled
  <2> HIDE DEF rcu, alu, mul, mem, units
  <2>2. U = {alu, mem, rcu}
    <3>1. \A n \in U : n.unit \in {"ALU", "MEM", "RCU"}
      BY <1>3, <1>15
    <3> QED BY <1>1, <1>4, <2>0, <3>1
  <2>3. alu # mem /\ alu # rcu /\ mem # rcu
    BY <1>1, <2>0
  <2>4. IsOrder(Scheduled(p, memFirst), U)
    BY <1>5, <2>1, <2>2, <2>3, ThreeInOrder, TripletOrder
  <2>5. memFirst => MemoryFirst(Scheduled(p, memFirst))
    <3>1. \A n \in U : n.unit = "MEM" => n = mem
      BY <1>1, <1>4, <2>0
    <3>2. memFirst => Scheduled(p, memFirst)[1] = mem /\ Len(Scheduled(p, memFirst)) # 0
      BY <2>1
    <3> QED BY <2>4, <3>1, <3>2, WithMemoryFirst
  <2> QED BY <2>4, <2>5
<1>16. CASE units = {"ALU", "MUL", "RCU"}
  <2>0. "MEM" \notin units /\ "RCU" \in units /\ "MUL" \in units /\ "ALU" \in units
    BY <1>16
  <2>1. Scheduled(p, memFirst) =
          ScheduleInstructionTriplet(alu, mul, rcu)
    BY <1>16, <2>0 DEF Scheduled
  <2> HIDE DEF rcu, alu, mul, mem, units
  <2>2. U = {alu, mul, rcu}
    <3>1. \A n \in U : n.unit \in {"ALU", "MUL", "RCU"}
      BY <1>3, <1>16
    <3> QED BY <1>1, <1>4, <2>0, <3>1
  <2>3. alu # mul /\ alu # rcu /\ mul # rcu
    BY <1>1, <2>0
  <2>4. IsOrder(Scheduled(p, memFirst), U)
    BY <1>5, <2>1, <2>2, <2>3, ThreeInOrder, TripletOrder
  <2>5. MemoryFirst(Scheduled(p, memFirst))
    BY <1>3, <2>0, <2>4, WithoutMemory
  <2> QED BY <2>4, <2>5
<1>17. CASE units = {"ALU", "MUL", "MEM"}
  <2>0. "MEM" \in units /\ "RCU" \notin units /\ "MUL" \in units /\ "ALU" \in units
    BY <1>17
  <2>1. Scheduled(p, memFirst) =
          IF memFirst THEN <<mem, alu, mul>> ELSE ScheduleInstructionTriplet(alu, mul, mem)
    BY <1>17, <2>0 DEF Scheduled
  <2> HIDE DEF rcu, alu, mul, mem, units
  <2>2. U = {alu, mul, mem}
    <3>1. \A n \in U : n.unit \in {"ALU", "MUL", "MEM"}
      BY <1>3, <1>17
    <3> QED BY <1>1, <1>4, <2>0, <3>1
  <2>3. alu # mul /\ alu # mem /\ mul # mem
    BY <1>1, <2>0
  <2>4. IsOrder(Scheduled(p, memFirst), U)
    BY <1>5, <2>1, <2>2, <2>3, ThreeInOrder, TripletOrder
  <2>5. memFirst => MemoryFirst(Scheduled(p, memFirst))
    <3>1. \A n \in U : n.unit = "MEM" => n = mem
      BY <1>1, <1>4, <2>0
    <3>2. memFirst => Scheduled(p, memFirst)[1] = mem /\ Len(Scheduled(p, memFirst)) # 0
      BY <2>1
    <3> QED BY <2>4, <3>1, <3>2, WithMemoryFirst
  <2> QED BY <2>4, <2>5
<1>18. CASE units = Units
  <2>0. "MEM" \in units /\ "RCU" \in units /\ "MUL" \in units /\ "ALU" \in units
    BY <1>18 DEF Units
  <2>1. Scheduled(p, memFirst) =
          IF ~memFirst THEN ScheduleInstructionQuartet(rcu, alu, mul, mem)
          ELSE IF Has(p, "ECU") THEN <<mem, rcu, alu, mul>>
          ELSE <<mem>> \o ScheduleInstructionTriplet(alu, mul, rcu)
    BY <2>0 DEF Scheduled
  <2> HIDE DEF rcu, alu, mul, mem, units
  <2>2. U = {rcu, alu, mul, mem}
    <3>1. \A n \in U : n.unit \in Units
      BY <1>3
    <3> QED BY <1>1, <1>4, <2>0, <3>1 DEF Units
  <2>3. rcu # alu /\ rcu # mul /\ rcu # mem /\ alu # mul /\ alu # mem /\ mul # mem
    BY <1>1, <2>0
  <2>4. IsOrder(ScheduleInstructionQuartet(rcu, alu, mul, mem), U)
    BY <1>5, <2>2, <2>3, QuartetOrder
  <2>5. IsOrder(<<mem, rcu, alu, mul>>, U)
    <3>1. U = {mem, rcu, alu, mul}
      BY <2>2
    <3> QED BY <2>3, <3>1, FourInOrder
  <2>6. IsOrder(<<mem>> \o ScheduleInstructionTriplet(alu, mul, rcu), U)
    <3>1. Instructions({alu, mul, rcu}, C)
      BY <1>5, <2>2 DEF Instructions
    <3>2. IsOrder(ScheduleInstructionTriplet(alu, mul, rcu), {alu, mul, rcu})
      BY <2>3, <3>1, TripletOrder
    <3>3. U = {mem} \cup {alu, mul, rcu} /\ mem \notin {alu, mul, rcu}
      BY <2>2, <2>3
    <3> QED BY <3>2, <3>3, OneMoreInOrder
  <2>7. IsOrder(Scheduled(p, memFirst), U)
    BY <2>1, <2>4, <2>5, <2>6
  <2>8. memFirst => MemoryFirst(Scheduled(p, memFirst))
    <3>1. \A n \in U : n.unit = "MEM" => n = mem
      BY <1>1, <1>4, <2>0
    <3>2. Instructions({alu, mul, rcu}, C)
      BY <1>5, <2>2 DEF Instructions
    <3>3. IsOrder(ScheduleInstructionTriplet(alu, mul, rcu), {alu, mul, rcu})
      BY <2>3, <3>2, TripletOrder
    <3>4. memFirst => Scheduled(p, memFirst)[1] = mem /\ Len(Scheduled(p, memFirst)) # 0
      BY <2>1, <3>3, OneMoreInOrder
    <3> QED BY <2>7, <3>1, <3>4, WithMemoryFirst
  <2> QED BY <2>7, <2>8
<1>19. units \subseteq Units
  BY <1>2, <1>3
<1>20. \/ units = {} \/ (\E u \in Units : units = {u}) \/ units = Units
      \/ units = {"MEM", "RCU"} \/ units = {"MUL", "RCU"} \/ units = {"MUL", "MEM"} \/ units = {"ALU", "MEM"} \/ units = {"ALU", "RCU"} \/ units = {"ALU", "MUL"} \/ units = {"MUL", "MEM", "RCU"} \/ units = {"ALU", "MEM", "RCU"} \/ units = {"ALU", "MUL", "RCU"} \/ units = {"ALU", "MUL", "MEM"}
  BY <1>19 DEF Units
<1> QED BY <1>6, <1>7, <1>20, <1>8, <1>9, <1>10, <1>11, <1>12, <1>13, <1>14, <1>15, <1>16, <1>17, <1>18

-----------------------------------------------------------------------------
(* Decoded packets                                                         *)

Decodable(p, C) ==
  /\ p = PacketOf(p.units, p.never, p.io, p.breakpoint)
  /\ Instructions(p.units, C)
  /\ \A n \in p.units : n.unit = "ECU" => n = Ecu(n.cond, n.to, n.nop, n.link)

\* The branch of a packet at an address, with the place a call returns to.
BranchOf(p, a) == [Unit(p, "ECU") EXCEPT !.return = a + IF Unit(p, "ECU").nop THEN 1 ELSE 3]

\* The decoded packet has the instructions of the packet, once each, the branch
\* last, if it is not inhibited; and it says so when one depends on another.
IsDecoded(d, p, a, inhibit) ==
  /\ d.pcexec = a /\ d.pcroute = a + 1
  /\ d.never = p.never /\ d.io = p.io /\ d.breakpoint = p.breakpoint
  /\ d.ecu = (Has(p, "ECU") /\ ~inhibit)
  /\ Len(d.nuances) \in Nat /\ DOMAIN d.nuances = 1 .. Len(d.nuances)
  /\ d.ecu => Len(d.nuances) # 0 /\ d.nuances[Len(d.nuances)] = BranchOf(p, a)
  /\ \A i \in 1 .. Len(d.nuances) :
        \/ d.nuances[i] \in Scheduling(p)
        \/ d.ecu /\ i = Len(d.nuances)
  /\ \A n \in Scheduling(p) : \E i \in 1 .. Len(d.nuances) : d.nuances[i] = n
  /\ \A i, j \in 1 .. Len(d.nuances) : d.nuances[i].unit = d.nuances[j].unit => i = j
  /\ d.dependencyPresent \in BOOLEAN
  /\ ~d.dependencyPresent =>
        \A i, j \in 1 .. Len(d.nuances) : i < j => Dependencies(d.nuances[i], d.nuances[j]) = {}

LEMMA BranchFields ==
  ASSUME NEW C, NEW p, Decodable(p, C), Has(p, "ECU"), NEW a
  PROVE  LET n == Unit(p, "ECU")  b == BranchOf(p, a)
         IN /\ n \in p.units /\ n.unit = "ECU"
            /\ b.unit = "ECU" /\ b.in = n.in /\ b.out = n.out /\ b.cond = n.cond /\ b.to = n.to
            /\ b.nop = n.nop /\ b.link = n.link /\ b.return = a + (IF n.nop THEN 1 ELSE 3)
            /\ b.loads = FALSE /\ b.indirect = FALSE
<1> DEFINE n == Unit(p, "ECU")
<1>1. n \in p.units /\ n.unit = "ECU"
  BY DEF Has, Unit
<1>2. n = Ecu(n.cond, n.to, n.nop, n.link)
  BY <1>1 DEF Decodable
<1> HIDE DEF n
<1>3. n.loads = FALSE /\ n.indirect = FALSE /\ DOMAIN n = {"unit", "in", "out", "loads", "emits", "indirect", "marked", "cond", "to", "nop", "link", "return"}
  BY <1>2 DEF Ecu
<1>4. BranchOf(p, a) = [n EXCEPT !.return = a + IF n.nop THEN 1 ELSE 3]
  BY DEF BranchOf, n
<1> QED BY <1>1, <1>3, <1>4 DEF n

\* What the instructions of a sequence do not read of the earlier ones.
LEMMA NothingRead ==
  ASSUME NEW s, Len(s) \in Nat, CellsIn(s) = {}, NEW i \in 1 .. Len(s), NEW j \in 1 .. Len(s), i < j
  PROVE  Dependencies(s[i], s[j]) = {}
<1>1. i \in 1 .. j - 1
  OBVIOUS
<1>2. Dependencies(s[i], s[j]) \subseteq CellsIn(s)
  BY <1>1 DEF CellsIn
<1> QED BY <1>2

LEMMA PacketIsDecoded ==
  ASSUME NEW C, NEW p, Decodable(p, C), NEW a \in Int, NEW inhibit \in BOOLEAN, NEW memFirst \in BOOLEAN
  PROVE  LET d == DecompressPacket(p, a, inhibit, memFirst)
         IN IsDecoded(d, p, a, inhibit) /\ (memFirst => MemoryFirst(d.nuances))
<1> DEFINE d == DecompressPacket(p, a, inhibit, memFirst)
           ecu == Has(p, "ECU") /\ ~inhibit
           kept == IF inhibit THEN [p EXCEPT !.units = {n \in @ : n.unit # "ECU"}] ELSE p
           q == Scheduled(kept, memFirst)
           s == q \o IF ecu THEN <<BranchOf(p, a)>> ELSE <<>>
<1>1. /\ d.nuances = s /\ d.pcexec = a /\ d.pcroute = a + 1 /\ d.ecu = ecu
      /\ d.never = p.never /\ d.io = p.io /\ d.breakpoint = p.breakpoint
      /\ d.dependencyPresent = (CellsIn(s) # {})
  BY DEF DecompressPacket, BranchOf
<1>2. Instructions(kept.units, C) /\ Scheduling(kept) = Scheduling(p)
  <2>1. kept.units = IF inhibit THEN {n \in p.units : n.unit # "ECU"} ELSE p.units
    BY DEF Decodable, PacketOf
  <2> QED BY <2>1 DEF Decodable, Instructions, Scheduling
<1>3. IsOrder(q, Scheduling(p)) /\ (memFirst => MemoryFirst(q))
  <2> HIDE DEF kept
  <2> QED BY <1>2, ScheduledOrder
<1>4. Len(q) \in Nat /\ DOMAIN q = 1 .. Len(q)
  BY <1>3 DEF IsOrder
<1> DEFINE m == Len(s)
<1> HIDE DEF kept, q
<1>5. /\ m = (IF ecu THEN Len(q) + 1 ELSE Len(q)) /\ DOMAIN s = 1 .. m
      /\ \A i \in 1 .. Len(q) : i \in 1 .. m /\ s[i] = q[i]
      /\ ecu => s[m] = BranchOf(p, a)
  BY <1>4
<1> HIDE DEF s, d, ecu
<1>6. \A i \in 1 .. m : i \in 1 .. Len(q) \/ (ecu /\ i = m)
  <2>1. CASE ecu
    <3>1. m = Len(q) + 1
      BY <1>5, <2>1
    <3> QED BY <1>4, <2>1, <3>1
  <2>2. CASE ~ecu
    <3>1. m = Len(q)
      BY <1>5, <2>2
    <3> QED BY <3>1
  <2> QED BY <2>1, <2>2
<1>7. /\ \A i \in 1 .. Len(q) : q[i] \in Scheduling(p) /\ s[i] = q[i] /\ s[i].unit # "ECU"
      /\ ecu => s[m].unit = "ECU"
  <2>1. ASSUME ecu PROVE s[m].unit = "ECU"
    <3>1. Has(p, "ECU")
      BY <2>1 DEF ecu
    <3>2. BranchOf(p, a).unit = "ECU"
      BY <3>1, BranchFields
    <3> QED BY <1>5, <2>1, <3>2
  <2> QED BY <1>3, <1>5, <2>1 DEF IsOrder, Scheduling
<1>8. \A i, j \in 1 .. Len(q) : q[i].unit = q[j].unit => i = j
  <2>1. \A u, v \in Scheduling(p) : u.unit = v.unit => u = v
    BY DEF Decodable, Instructions, Scheduling
  <2> QED BY <1>3, <2>1 DEF IsOrder
<1>9. \A i, j \in 1 .. m : s[i].unit = s[j].unit => i = j
  BY <1>6, <1>7, <1>8
<1>10. \A n \in Scheduling(p) : \E i \in 1 .. m : s[i] = n
  BY <1>3, <1>5 DEF IsOrder
<1>11. memFirst => MemoryFirst(s)
  BY <1>3, <1>6, <1>7 DEF MemoryFirst
<1>12. CellsIn(s) = {} => \A i, j \in 1 .. m : i < j => Dependencies(s[i], s[j]) = {}
  <2>1. m \in Nat
    BY <1>4, <1>5
  <2> QED BY <2>1, NothingRead
<1>13. IsDecoded(d, p, a, inhibit)
  <2>1. m \in Nat /\ (ecu => m # 0)
    BY <1>4, <1>5
  <2> QED BY <1>1, <1>5, <1>6, <1>7, <1>9, <1>10, <1>12, <2>1 DEF IsDecoded, ecu
<1> QED BY <1>1, <1>11, <1>13 DEF d

-----------------------------------------------------------------------------
(* Packets                                                                 *)

\* What instructions may read.
Readable == Registers \cup {"rz"}

LEMMA ReadableIsFinite == IsFiniteSet(Readable)
<1>1. Readable = ((({} \cup {"r0"}) \cup {"r1"}) \cup {"z"}) \cup {"rz"}
  BY DEF Readable, Registers
<1> QED BY <1>1, FS_EmptySet, FS_AddElement

\* An instruction of a decoded packet.
Nuance(n) ==
  /\ n.unit \in Units \cup {"ECU"} /\ n.in \subseteq Readable /\ n.indirect \in BOOLEAN /\ n.loads \in BOOLEAN
  /\ n.unit # "MEM" => ~n.loads /\ ~n.indirect /\ "mem" \notin n.out
  /\ n.unit \in Units => n.out \subseteq Registers \cup {"rz", "mem"} /\ n.k \in Int
  /\ n.unit = "ECU" =>
        /\ n.cond \in BOOLEAN /\ n.to \in Int /\ n.nop \in BOOLEAN /\ n.link \in BOOLEAN /\ n.return \in Int
        /\ n.out = (IF n.link THEN {"rz"} ELSE {})
        /\ n.in = (IF n.cond THEN {"z"} ELSE {}) \cup (IF n.to = InRz THEN {"rz"} ELSE {})
        /\ n.to = Nowhere => ~n.link

LEMMA InstructionIsNuance ==
  ASSUME NEW n, IsInstruction(n)
  PROVE  Nuance(n) /\ (n.unit = "ECU" => n = Ecu(n.cond, n.to, n.nop, n.link))
<1>1. CASE n.unit \in Units
  BY <1>1 DEF IsInstruction, Nuance, Units, Readable
<1>2. CASE n.unit \notin Units
  <2>1. /\ n.cond \in BOOLEAN /\ n.to \in Int /\ n.nop \in BOOLEAN /\ n.link \in BOOLEAN
        /\ n = Ecu(n.cond, n.to, n.nop, n.link) /\ n.in \subseteq Readable
        /\ n.to = Nowhere => ~n.link
    BY <1>2 DEF IsInstruction, Units, Readable
  <2>2. /\ n.unit = "ECU" /\ n.loads = FALSE /\ n.indirect = FALSE /\ n.return = 0
        /\ n.out = (IF n.link THEN {"rz"} ELSE {})
        /\ n.in = (IF n.cond THEN {"z"} ELSE {}) \cup (IF n.to = InRz THEN {"rz"} ELSE {})
    BY <2>1 DEF Ecu
  <2>3. "mem" \notin n.out /\ n.unit \notin Units /\ n.return \in Int
    BY <2>2 DEF Units
  <2> QED BY <2>1, <2>2, <2>3 DEF Nuance
<1> QED BY <1>1, <1>2

LEMMA PacketIsDecodable ==
  ASSUME NEW p, IsPacket(p)
  PROVE  Decodable(p, Readable)
<1>1. \A n \in p.units : Nuance(n) /\ (n.unit = "ECU" => n = Ecu(n.cond, n.to, n.nop, n.link))
  BY InstructionIsNuance DEF IsPacket
<1> QED BY <1>1, ReadableIsFinite DEF Decodable, IsPacket, Instructions, Nuance

LEMMA BiosIsPacket == IsPacket(Bios)
<1> DEFINE n == Ecu(FALSE, Nowhere, TRUE, FALSE)
<1>1. IsInstruction(n)
  <2>1. /\ n.in = {} /\ n.unit = "ECU" /\ n.cond = FALSE /\ n.to = Nowhere /\ n.nop = TRUE /\ n.link = FALSE
        /\ Nowhere = -1
    BY DEF Ecu, Nowhere, InRz
  <2> HIDE DEF n
  <2>2. n = Ecu(n.cond, n.to, n.nop, n.link)
    <3>1. Ecu(n.cond, n.to, n.nop, n.link) = Ecu(FALSE, Nowhere, TRUE, FALSE)
      BY <2>1
    <3> QED BY <3>1 DEF n
  <2>3. n.to \in Int /\ n.unit \notin {"MEM", "RCU", "MUL", "ALU"} /\ n.in \subseteq Registers \cup {"rz"}
    BY <2>1
  <2>4. n.cond \in BOOLEAN /\ n.nop \in BOOLEAN /\ n.link \in BOOLEAN /\ ~n.link
    BY <2>1
  <2> QED BY <2>2, <2>3, <2>4 DEF IsInstruction
<1> HIDE DEF n
<1>2. Bios.units = {n} /\ Bios.never = TRUE /\ Bios.io = FALSE /\ Bios.breakpoint = FALSE
  BY DEF Bios, PacketOf, n
<1>3. Bios = PacketOf(Bios.units, Bios.never, Bios.io, Bios.breakpoint)
  BY <1>2 DEF Bios, n
<1> QED BY <1>1, <1>2, <1>3 DEF IsPacket

LEMMA PacketIsPacket ==
  ASSUME program \in Programs, NEW a
  PROVE  IsPacket(Packet(a))
BY ProgramAssumption, BiosIsPacket DEF Packet

LEMMA DecodedIs ==
  ASSUME program \in Programs, NEW a, NEW inhibit \in BOOLEAN, NEW memFirst \in BOOLEAN
  PROVE  Decoded(a, inhibit, memFirst) = DecompressPacket(Packet(a), a, inhibit, memFirst)
<1>1. CASE a \in DOMAIN program /\ a \in Addresses
  <2>1. program[a] \in UNION {Range(q) : q \in Programs}
    BY <1>1 DEF Range
  <2>2. DecodedPackets[program[a]][a][inhibit][memFirst] = DecompressPacket(program[a], a, inhibit, memFirst)
    <3> HIDE DEF Addresses
    <3> QED BY <1>1, <2>1 DEF DecodedPackets
  <2> QED BY <1>1, <2>2 DEF Decoded, Packet
<1>2. CASE ~(a \in DOMAIN program /\ a \in Addresses)
  BY <1>2 DEF Decoded
<1> QED BY <1>1, <1>2

LEMMA PacketDecoded ==
  ASSUME program \in Programs, NEW a \in Int, NEW inhibit \in BOOLEAN, NEW memFirst \in BOOLEAN
  PROVE  /\ IsDecoded(Decoded(a, inhibit, memFirst), Packet(a), a, inhibit)
         /\ memFirst => MemoryFirst(Decoded(a, inhibit, memFirst).nuances)
<1>1. Decodable(Packet(a), Readable)
  BY PacketIsPacket, PacketIsDecodable
<1>2. Decoded(a, inhibit, memFirst) = DecompressPacket(Packet(a), a, inhibit, memFirst)
  BY DecodedIs
<1> QED BY <1>1, <1>2, PacketIsDecoded

\* The instructions of a decoded packet, and of what they may be.
LEMMA DecodedNuances ==
  ASSUME NEW p, IsPacket(p), NEW a \in Int, NEW inhibit \in BOOLEAN, NEW d, IsDecoded(d, p, a, inhibit)
  PROVE  /\ \A i \in 1 .. Len(d.nuances) : Nuance(d.nuances[i])
         /\ \A i, j \in 1 .. Len(d.nuances) : i # j => d.nuances[i].out \cap d.nuances[j].out = {}
         /\ \A i \in 1 .. Len(d.nuances) : d.nuances[i].unit = "ECU" <=> (d.ecu /\ i = Len(d.nuances))
<1> DEFINE n == Unit(p, "ECU")
           b == BranchOf(p, a)
<1>1. \A u \in p.units : Nuance(u)
  BY InstructionIsNuance DEF IsPacket
<1>2. ASSUME d.ecu
      PROVE  /\ n \in p.units /\ n.unit = "ECU" /\ b.unit = "ECU" /\ b.in = n.in /\ b.out = n.out
             /\ b.cond = n.cond /\ b.to = n.to /\ b.nop = n.nop /\ b.link = n.link
             /\ b.return = a + (IF n.nop THEN 1 ELSE 3) /\ b.loads = FALSE /\ b.indirect = FALSE
  <2>1. Has(p, "ECU") /\ Decodable(p, Readable)
    BY <1>2, PacketIsDecodable DEF IsDecoded
  <2> QED BY <2>1, BranchFields, ZenonT(60)
<1> HIDE DEF n, b
<1>3. ASSUME d.ecu PROVE Nuance(b)
  <2>1. Nuance(n)
    BY <1>1, <1>2, <1>3
  <2>2. b.return \in Int
    BY <1>2, <1>3
  <2>3. "ECU" \notin Units /\ "ECU" # "MEM"
    BY DEF Units
  <2> QED BY <1>2, <1>3, <2>1, <2>2, <2>3 DEF Nuance
<1>4. /\ Len(d.nuances) \in Nat
      /\ d.ecu => d.nuances[Len(d.nuances)] = b /\ Len(d.nuances) # 0
      /\ \A i \in 1 .. Len(d.nuances) : d.nuances[i] \in Scheduling(p) \/ (d.ecu /\ i = Len(d.nuances))
      /\ \A i, j \in 1 .. Len(d.nuances) : d.nuances[i].unit = d.nuances[j].unit => i = j
  BY DEF IsDecoded, b
<1>5. \A u \in Scheduling(p) : u \in p.units /\ u.unit # "ECU"
  BY DEF Scheduling
<1>6. \A u, v \in p.units : u # v => u.out \cap v.out = {}
  BY DEF IsPacket
<1>7. \A i \in 1 .. Len(d.nuances) : d.nuances[i].unit = "ECU" <=> (d.ecu /\ i = Len(d.nuances))
  BY <1>2, <1>4, <1>5
<1>8. \A i \in 1 .. Len(d.nuances) : Nuance(d.nuances[i])
  BY <1>1, <1>3, <1>4, <1>5
<1>9. ASSUME NEW i \in 1 .. Len(d.nuances), NEW j \in 1 .. Len(d.nuances), i # j
      PROVE  d.nuances[i].out \cap d.nuances[j].out = {}
  <2>1. d.nuances[i].unit # d.nuances[j].unit
    BY <1>4, <1>9
  <2>2. PICK u \in p.units : u.unit = d.nuances[i].unit /\ u.out = d.nuances[i].out
    BY <1>2, <1>4, <1>5, <1>7
  <2>3. PICK v \in p.units : v.unit = d.nuances[j].unit /\ v.out = d.nuances[j].out
    BY <1>2, <1>4, <1>5, <1>7
  <2> QED BY <1>6, <2>1, <2>2, <2>3
<1> QED BY <1>7, <1>8, <1>9

-----------------------------------------------------------------------------
(* Instructions                                                            *)

Contents == {f \in [Cells -> Int] : \A c \in Registers \cup {"mem"} : f[c] \in 0 .. Values - 1}
State == [f : Contents, pcexec : Int, pcfetchnext : Int, ecuSkipCounter : 0..3, interpretNextPacket : {0, 1}]

LEMMA SumType ==
  ASSUME NEW f \in [Cells -> Int], NEW S
  PROVE  Sum(f, S) \in Int
<1> DEFINE At(c) == IF c \in S THEN f[c] ELSE 0
<1>1. At("r0") \in Int /\ At("r1") \in Int /\ At("z") \in Int /\ At("rz") \in Int /\ At("mem") \in Int
  BY DEF Cells, Registers
<1>2. Sum(f, S) = At("r0") + At("r1") + At("z") + At("rz") + At("mem")
  BY DEF Sum
<1> HIDE DEF At
<1> QED BY <1>1, <1>2

LEMMA ResultType ==
  ASSUME NEW n, Nuance(n), n.unit \in Units, NEW c, NEW f \in [Cells -> Int]
  PROVE  Result(n, c, f) \in 0 .. Values - 1
<1> DEFINE s == Sum(f, Reads(n))
<1>1. s \in Int /\ n.k \in Int /\ Values \in Nat \ {0}
  BY SumType, SuperBlockAssumption DEF Nuance
<1>2. Result(n, c, f) = (n.k + (IF c = "r1" THEN 1 ELSE 0) + s) % Values
  BY DEF Result
<1> HIDE DEF s
<1>3. n.k + (IF c = "r1" THEN 1 ELSE 0) + s \in Int
  BY <1>1
<1> QED BY <1>1, <1>2, <1>3

LEMMA SameResult ==
  ASSUME NEW n, NEW c, NEW f, NEW g, \A d \in Reads(n) : f[d] = g[d]
  PROVE  Result(n, c, f) = Result(n, c, g)
<1>1. Sum(f, Reads(n)) = Sum(g, Reads(n))
  BY DEF Sum
<1> QED BY <1>1 DEF Result

\* An instruction reads the same cells in both.
Agree(n, f, g) == \A c \in n.in : f[c] = g[c]

\* What it does, reading g.
ComputedFrom(n, W, g, x, y) ==
  /\ y.pcexec = x.pcexec /\ y.pcfetchnext = x.pcfetchnext
  /\ y.ecuSkipCounter = x.ecuSkipCounter /\ y.interpretNextPacket = x.interpretNextPacket
  /\ \A c \in Cells : y.f[c] = IF c \in W THEN Result(n, c, g) ELSE x.f[c]

LEMMA ComputeEffect ==
  ASSUME NEW n, Nuance(n), n.unit \in Units, NEW W \in SUBSET n.out, NEW from \in Contents, NEW x \in State,
         NEW g, Agree(n, from, g), n.loads => x.f["mem"] = g["mem"]
  PROVE  LET y == Compute(n, W, from, x) IN y \in State /\ ComputedFrom(n, W, g, x, y)
<1> DEFINE f == [from EXCEPT !["mem"] = x.f["mem"]]
           h == [c \in Cells |-> IF c \in W THEN Result(n, c, f) ELSE x.f[c]]
           y == Compute(n, W, from, x)
<1>1. from \in [Cells -> Int] /\ x.f \in Contents /\ x.f \in [Cells -> Int] /\ "mem" \in Cells
  BY DEF State, Contents, Cells
<1>2. f \in [Cells -> Int] /\ f["mem"] = x.f["mem"] /\ \A c \in Cells : c # "mem" => f[c] = from[c]
  BY <1>1
<1> HIDE DEF f
<1>3. \A c \in W : Result(n, c, f) = Result(n, c, g) /\ Result(n, c, f) \in 0 .. Values - 1
  <2>1. n.in \subseteq Cells /\ "mem" \notin n.in
    BY DEF Nuance, Readable, Cells, Registers
  <2>2. \A d \in Reads(n) : f[d] = g[d]
    BY <1>2, <2>1 DEF Reads, Agree
  <2> QED BY <1>2, <2>2, SameResult, ResultType
<1>4. h \in Contents
  <2>1. \A c \in Cells : h[c] = IF c \in W THEN Result(n, c, f) ELSE x.f[c]
    OBVIOUS
  <2>2. \A c \in Cells : h[c] \in Int
    <3>1. 0 .. Values - 1 \subseteq Int
      OBVIOUS
    <3> QED BY <1>1, <1>3, <2>1, <3>1
  <2>3. \A c \in Registers \cup {"mem"} : h[c] \in 0 .. Values - 1
    BY <1>1, <1>3, <2>1 DEF Contents, Cells
  <2> QED BY <2>2, <2>3 DEF Contents
<1>5. y = [x EXCEPT !.f = h]
  BY DEF Compute, f
<1>6. \A c \in Cells : h[c] = IF c \in W THEN Result(n, c, g) ELSE x.f[c]
  BY <1>3
<1> HIDE DEF h, y
<1>7. y \in State /\ y.f = h /\ y.pcexec = x.pcexec /\ y.pcfetchnext = x.pcfetchnext
      /\ y.ecuSkipCounter = x.ecuSkipCounter /\ y.interpretNextPacket = x.interpretNextPacket
  BY <1>4, <1>5 DEF State
<1> QED BY <1>6, <1>7 DEF ComputedFrom, y

\* Where a branch goes, and what it does to the processor.
Target(n, f) == IF n.to = InRz THEN f["rz"] ELSE n.to
Branched(n, f, skip, x, y) ==
  /\ y.pcexec = x.pcexec /\ y.interpretNextPacket = x.interpretNextPacket
  /\ IF Taken(n, x, f)
     THEN /\ y.pcfetchnext = Target(n, f) /\ y.ecuSkipCounter = (IF n.nop THEN 1 ELSE skip)
          /\ \A c \in Cells : y.f[c] = IF c = "rz" /\ n.link THEN n.return ELSE x.f[c]
     ELSE y = x

LEMMA BranchEffect ==
  ASSUME NEW n, Nuance(n), n.unit = "ECU", NEW from \in Contents, NEW tempCC, NEW skip \in 1..3, NEW x \in State,
         NEW g, Agree(n, from, g), n.cond => tempCC["z"] = g["z"]
  PROVE  LET y == Branch(n, from, tempCC, skip, x) IN y \in State /\ Branched(n, g, skip, x, y)
<1> DEFINE y == Branch(n, from, tempCC, skip, x)
<1> USE DEF Agree
<1>1. Taken(n, x, tempCC) <=> Taken(n, x, g)
  BY DEF Taken
<1>2. Target(n, from) = Target(n, g) /\ Target(n, from) \in Int
  <2>1. from["rz"] \in Int /\ n.to \in Int
    BY DEF Contents, Cells, Nuance
  <2>2. n.to = InRz => from["rz"] = g["rz"]
    BY DEF Nuance
  <2> QED BY <2>1, <2>2 DEF Target
<1>3. CASE ~Taken(n, x, g)
  BY <1>1, <1>3 DEF Branch, Branched
<1>4. CASE Taken(n, x, g)
  <2> DEFINE h == [x.f EXCEPT !["rz"] = IF n.link THEN n.return ELSE @]
             s == IF n.nop THEN 1 ELSE skip
  <2>1. x.f \in Contents /\ x.f \in [Cells -> Int] /\ n.return \in Int /\ n.link \in BOOLEAN
    BY DEF State, Contents, Nuance
  <2>2. \A c \in Cells : h[c] = IF c = "rz" /\ n.link THEN n.return ELSE x.f[c]
    BY <2>1 DEF Cells
  <2>3. h \in Contents
    <3>1. h \in [Cells -> Int]
      BY <2>1
    <3>2. \A c \in Registers \cup {"mem"} : h[c] = x.f[c]
      BY <2>2 DEF Cells, Registers
    <3> QED BY <2>1, <3>1, <3>2 DEF Contents
  <2>4. s \in 0..3
    OBVIOUS
  <2>5. y = [x EXCEPT !.pcfetchnext = Target(n, from), !.f = h, !.ecuSkipCounter = s]
    BY <1>1, <1>4 DEF Branch, Target, State
  <2> HIDE DEF h, s, y
  <2>6. y \in State /\ y.f = h /\ y.pcexec = x.pcexec /\ y.pcfetchnext = Target(n, g)
        /\ y.ecuSkipCounter = s /\ y.interpretNextPacket = x.interpretNextPacket
    BY <1>2, <2>3, <2>4, <2>5 DEF State
  <2> QED BY <1>4, <2>2, <2>6 DEF Branched, s, y
<1> QED BY <1>3, <1>4

-----------------------------------------------------------------------------
(* The execution of a packet                                               *)

\* The instructions of a packet, which all read the cells as they were at x:
\* those in live are executed, and W says what each of them writes.
Sequenced(ns, W) ==
  /\ Len(ns) \in Nat
  /\ \A i \in 1 .. Len(ns) : Nuance(ns[i]) /\ W[i] \subseteq ns[i].out /\ (ns[i].unit = "ECU" => i = Len(ns))
  /\ \A i, j \in 1 .. Len(ns) : i # j => ns[i].unit # ns[j].unit /\ ns[i].out \cap ns[j].out = {}

StepOfPass(ns, W, live, skip, x, X, i) ==
  \E from, tempCC \in Contents :
     /\ tempCC["z"] \in {x.f["z"], from["z"]}
     /\ X[i] = Perform(ns[i], W[i], from, tempCC, skip, X[i - 1])
     /\ \A c \in ns[i].in : \/ from[c] = x.f[c]
                            \/ from[c] = X[i - 1].f[c] /\ \A j \in 1 .. i - 1 : j \in live => c \notin W[j]

Pass(ns, W, live, skip, x, X) ==
  /\ X[0] = x
  /\ \A i \in 1 .. Len(ns) : IF i \in live THEN StepOfPass(ns, W, live, skip, x, X, i) ELSE X[i] = X[i - 1]

\* Its effect.
Writes(ns, W, live, x, y) ==
  \A i \in 1 .. Len(ns) : i \in live /\ ns[i].unit # "ECU" => \A c \in W[i] : y.f[c] = Result(ns[i], c, x.f)
Leaves(ns, W, live, x, y) ==
  \A c \in Cells : (\A i \in 1 .. Len(ns) : i \in live =>
                       IF ns[i].unit = "ECU" THEN ~(c = "rz" /\ ns[i].link /\ Taken(ns[i], x, x.f)) ELSE c \notin W[i])
                   => y.f[c] = x.f[c]
TakesIn(ns, live, x, i) == i \in live /\ ns[i].unit = "ECU" /\ Taken(ns[i], x, x.f)
Controls(ns, live, skip, x, y) ==
  /\ y.pcexec = x.pcexec /\ y.interpretNextPacket = x.interpretNextPacket
  /\ \A i \in 1 .. Len(ns) : TakesIn(ns, live, x, i) =>
        /\ y.pcfetchnext = Target(ns[i], x.f) /\ y.ecuSkipCounter = (IF ns[i].nop THEN 1 ELSE skip)
        /\ ns[i].link => y.f["rz"] = ns[i].return
  /\ (\A i \in 1 .. Len(ns) : ~TakesIn(ns, live, x, i)) =>
        y.pcfetchnext = x.pcfetchnext /\ y.ecuSkipCounter = x.ecuSkipCounter

\* Up to the k-th instruction, none of them a branch.
Passed(ns, W, live, x, X, k) ==
  /\ X[k] \in State
  /\ (\A i \in 1..k : ns[i].unit # "ECU") =>
        /\ X[k].pcexec = x.pcexec /\ X[k].pcfetchnext = x.pcfetchnext
        /\ X[k].ecuSkipCounter = x.ecuSkipCounter /\ X[k].interpretNextPacket = x.interpretNextPacket
        /\ \A i \in 1..k : i \in live => \A c \in W[i] : X[k].f[c] = Result(ns[i], c, x.f)
        /\ \A c \in Cells : (\A i \in 1..k : i \in live => c \notin W[i]) => X[k].f[c] = x.f[c]

LEMMA PassEffect ==
  ASSUME NEW ns, NEW W, NEW live, NEW skip \in 1..3, NEW x \in State, NEW X,
         Sequenced(ns, W), Pass(ns, W, live, skip, x, X)
  PROVE  /\ X[Len(ns)] \in State
         /\ Writes(ns, W, live, x, X[Len(ns)])
         /\ Leaves(ns, W, live, x, X[Len(ns)])
         /\ Controls(ns, live, skip, x, X[Len(ns)])
<1> DEFINE m == Len(ns)
           S == {k \in 0..m : Passed(ns, W, live, x, X, k)}
<1>0. m \in Nat /\ \A i \in 1..m : Nuance(ns[i]) /\ W[i] \subseteq ns[i].out /\ ns[i].out \subseteq Cells
  BY DEF Sequenced, Nuance, Cells, Registers, Units
<1>1. 0 \in S
  BY <1>0 DEF Passed, Pass
<1>2. ASSUME NEW k \in 0 .. m - 1, Passed(ns, W, live, x, X, k), k + 1 \in live,
             \A i \in 1..k : ns[i].unit # "ECU"
      PROVE  \E from, tempCC \in Contents :
                /\ tempCC["z"] \in {x.f["z"], from["z"]}
                /\ X[k + 1] = Perform(ns[k + 1], W[k + 1], from, tempCC, skip, X[k])
                /\ Agree(ns[k + 1], from, x.f)
                /\ ns[k + 1].loads => X[k].f["mem"] = x.f["mem"]
  <2>1. k + 1 \in 1..m /\ (k + 1) - 1 = k /\ k \in 0..m /\ 1..k \subseteq 1..m
    BY <1>0
  <2>2. StepOfPass(ns, W, live, skip, x, X, k + 1)
    BY <1>2, <2>1 DEF Pass
  <2>3. PICK from \in Contents, tempCC \in Contents :
           /\ tempCC["z"] \in {x.f["z"], from["z"]}
           /\ X[k + 1] = Perform(ns[k + 1], W[k + 1], from, tempCC, skip, X[k])
           /\ \A c \in ns[k + 1].in : \/ from[c] = x.f[c]
                                      \/ from[c] = X[k].f[c] /\ \A j \in 1..k : j \in live => c \notin W[j]
    BY <2>1, <2>2 DEF StepOfPass
  <2>4. \A c \in ns[k + 1].in : from[c] = x.f[c]
    <3>1. ns[k + 1].in \subseteq Cells
      BY <1>0, <2>1 DEF Nuance, Readable, Cells
    <3> QED BY <1>2, <2>3, <3>1 DEF Passed
  <2>5. ASSUME ns[k + 1].loads PROVE X[k].f["mem"] = x.f["mem"]
    <3>1. \A j \in 1..k : "mem" \notin W[j]
      <4> SUFFICES ASSUME NEW j \in 1..k PROVE "mem" \notin W[j]
        OBVIOUS
      <4>1. j \in 1..m /\ j # k + 1
        BY <1>0
      <4>2. ns[k + 1].unit = "MEM" /\ ns[j].unit # ns[k + 1].unit
        BY <2>1, <2>5, <4>1 DEF Sequenced, Nuance
      <4> QED BY <1>0, <4>1, <4>2 DEF Nuance
    <3> QED BY <1>2, <3>1 DEF Passed, Cells
  <2> QED BY <2>3, <2>4, <2>5 DEF Agree
<1>3. ASSUME NEW k \in 0 .. m - 1, Passed(ns, W, live, x, X, k), \A i \in 1 .. k + 1 : ns[i].unit # "ECU"
      PROVE  Passed(ns, W, live, x, X, k + 1)
  <2>0. k + 1 \in 1..m /\ (k + 1) - 1 = k /\ 1..k \subseteq 1..m /\ 1 .. k + 1 = (1..k) \cup {k + 1} /\ k + 1 \notin 1..k
    BY <1>0
  <2>1. CASE k + 1 \notin live
    <3>1. X[k + 1] = X[k]
      BY <2>0, <2>1 DEF Pass
    <3> QED BY <1>3, <2>0, <2>1, <3>1 DEF Passed
  <2>2. CASE k + 1 \in live
    <3> DEFINE n == ns[k + 1]
    <3>1. PICK from \in Contents, tempCC \in Contents :
             /\ tempCC["z"] \in {x.f["z"], from["z"]}
             /\ X[k + 1] = Perform(n, W[k + 1], from, tempCC, skip, X[k])
             /\ Agree(n, from, x.f)
             /\ n.loads => X[k].f["mem"] = x.f["mem"]
      BY <1>2, <1>3, <2>0, <2>2
    <3>2. n.unit # "ECU" /\ n.unit \in Units /\ Nuance(n) /\ W[k + 1] \in SUBSET n.out /\ X[k] \in State
      BY <1>0, <1>3, <2>0 DEF Nuance, Passed
    <3> DEFINE y == X[k + 1]
    <3>3. y = Compute(n, W[k + 1], from, X[k])
      BY <3>1, <3>2 DEF Perform
    <3> HIDE DEF n, y
    <3>4. /\ y \in State /\ y.pcexec = X[k].pcexec /\ y.pcfetchnext = X[k].pcfetchnext
          /\ y.ecuSkipCounter = X[k].ecuSkipCounter /\ y.interpretNextPacket = X[k].interpretNextPacket
          /\ \A c \in Cells : y.f[c] = IF c \in W[k + 1] THEN Result(n, c, x.f) ELSE X[k].f[c]
      <4> DEFINE z == X[k]
                 V == W[k + 1]
      <4>1. Nuance(n) /\ n.unit \in Units /\ V \in SUBSET n.out /\ z \in State /\ from \in Contents
        BY <3>1, <3>2
      <4>2. Agree(n, from, x.f) /\ (n.loads => z.f["mem"] = x.f["mem"]) /\ y = Compute(n, V, from, z)
        BY <3>1, <3>3
      <4> HIDE DEF z, V
      <4>3. y \in State /\ ComputedFrom(n, V, x.f, z, y)
        BY <4>1, <4>2, ComputeEffect
      <4> QED BY <4>3 DEF ComputedFrom, z, V
    <3>5. \A i \in 1..k : W[i] \cap W[k + 1] = {} /\ W[i] \subseteq Cells /\ W[k + 1] \subseteq Cells
      <4> SUFFICES ASSUME NEW i \in 1..k PROVE W[i] \cap W[k + 1] = {} /\ W[i] \subseteq Cells /\ W[k + 1] \subseteq Cells
        OBVIOUS
      <4>1. i \in 1..m /\ i # k + 1
        BY <1>0
      <4>2. ns[i].out \cap ns[k + 1].out = {}
        BY <2>0, <4>1 DEF Sequenced
      <4> QED BY <1>0, <2>0, <4>1, <4>2
    <3>6. W[k + 1] \subseteq Cells
      BY <1>0, <2>0
    <3>7. \A i \in 1 .. k + 1 : i \in live => \A c \in W[i] : y.f[c] = Result(ns[i], c, x.f)
      BY <1>3, <2>0, <3>4, <3>5, <3>6 DEF Passed, n
    <3>8. \A c \in Cells : (\A i \in 1 .. k + 1 : i \in live => c \notin W[i]) => y.f[c] = x.f[c]
      BY <1>3, <2>0, <2>2, <3>4 DEF Passed
    <3> QED BY <1>3, <2>0, <3>4, <3>7, <3>8 DEF Passed, y
  <2> QED BY <2>1, <2>2
<1>4. ASSUME NEW k \in 0 .. m - 1, k \in S PROVE k + 1 \in S
  <2>0. k + 1 \in 1..m /\ k + 1 \in 0..m /\ (k + 1) - 1 = k
    BY <1>0
  <2>1. CASE \A i \in 1 .. k + 1 : ns[i].unit # "ECU"
    BY <1>3, <1>4, <2>0, <2>1
  <2>2. CASE ~(\A i \in 1 .. k + 1 : ns[i].unit # "ECU")
    <3>1. \A i \in 1..k : ns[i].unit # "ECU"
      <4> SUFFICES ASSUME NEW i \in 1..k PROVE ns[i].unit # "ECU"
        OBVIOUS
      <4>1. i \in 1..m /\ i # m
        BY <1>0
      <4> QED BY <4>1 DEF Sequenced
    <3>2. X[k + 1] \in State
      <4>1. CASE k + 1 \notin live
        BY <1>4, <2>0, <4>1 DEF Pass, Passed
      <4>2. CASE k + 1 \in live
        <5> DEFINE n == ns[k + 1]
        <5>1. PICK from \in Contents, tempCC \in Contents :
                 /\ tempCC["z"] \in {x.f["z"], from["z"]}
                 /\ X[k + 1] = Perform(n, W[k + 1], from, tempCC, skip, X[k])
                 /\ Agree(n, from, x.f)
                 /\ n.loads => X[k].f["mem"] = x.f["mem"]
          BY <1>2, <1>4, <3>1, <4>2
        <5>2. Nuance(n) /\ W[k + 1] \in SUBSET n.out /\ X[k] \in State
          BY <1>0, <1>4, <2>0 DEF Passed
        <5>3. n.unit = "ECU"
          <6>1. 1 .. k + 1 = (1..k) \cup {k + 1}
            OBVIOUS
          <6> QED BY <2>2, <3>1, <6>1
        <5>4. n.cond => "z" \in n.in
          BY <5>2, <5>3 DEF Nuance
        <5>6. n.cond => tempCC["z"] = x.f["z"]
          BY <5>1, <5>4 DEF Agree
        <5> HIDE DEF n
        <5>5. Branch(n, from, tempCC, skip, X[k]) \in State
          BY <5>1, <5>2, <5>3, <5>6, BranchEffect
        <5> QED BY <5>1, <5>3, <5>5 DEF Perform
      <4> QED BY <4>1, <4>2
    <3> QED BY <2>0, <2>2, <3>2 DEF Passed
  <2> QED BY <2>1, <2>2
<1>5. 0..m \subseteq S
  <2> HIDE DEF S
  <2> QED BY <1>0, <1>1, <1>4, UpTo
<1>6. Passed(ns, W, live, x, X, m) /\ (m # 0 => Passed(ns, W, live, x, X, m - 1))
  BY <1>0, <1>5
<1>7. CASE \A i \in 1..m : ns[i].unit # "ECU"
  BY <1>6, <1>7 DEF Passed, Writes, Leaves, Controls, TakesIn
<1>8. CASE ~(\A i \in 1..m : ns[i].unit # "ECU")
  <2> DEFINE n == ns[m]
             k == m - 1
  <2>1. m # 0 /\ n.unit = "ECU" /\ m \in 1..m /\ k \in 0 .. m - 1 /\ k + 1 = m
    BY <1>0, <1>8 DEF Sequenced
  <2>2. \A i \in 1..k : i \in 1..m /\ i # m /\ ns[i].unit # "ECU"
    <3> SUFFICES ASSUME NEW i \in 1..k PROVE i \in 1..m /\ i # m /\ ns[i].unit # "ECU"
      OBVIOUS
    <3>1. i \in 1..m /\ i # m
      BY <1>0
    <3> QED BY <3>1 DEF Sequenced
  <2>3. /\ X[k] \in State
        /\ X[k].pcexec = x.pcexec /\ X[k].pcfetchnext = x.pcfetchnext
        /\ X[k].ecuSkipCounter = x.ecuSkipCounter /\ X[k].interpretNextPacket = x.interpretNextPacket
        /\ \A i \in 1..k : i \in live => \A c \in W[i] : X[k].f[c] = Result(ns[i], c, x.f)
        /\ \A c \in Cells : (\A i \in 1..k : i \in live => c \notin W[i]) => X[k].f[c] = x.f[c]
    BY <1>6, <2>1, <2>2 DEF Passed
  <2>4. \A i \in 1..m : i \in 1..k \/ i = m
    BY <1>0
  <2>5. CASE m \notin live
    <3>1. X[m] = X[k]
      BY <2>1, <2>5 DEF Pass
    <3>2. \A i \in 1..m : i \in live => i \in 1..k /\ ns[i].unit # "ECU"
      BY <2>2, <2>4, <2>5
    <3> QED BY <2>2, <2>3, <3>1, <3>2 DEF Writes, Leaves, Controls, TakesIn
  <2>6. CASE m \in live
    <3>1. PICK from \in Contents, tempCC \in Contents :
             /\ tempCC["z"] \in {x.f["z"], from["z"]}
             /\ X[m] = Perform(n, W[m], from, tempCC, skip, X[k])
             /\ Agree(n, from, x.f)
      <4>1. Passed(ns, W, live, x, X, k) /\ k + 1 \in live
        BY <1>6, <2>1, <2>6
      <4> HIDE DEF k
      <4>2. \E from, tempCC \in Contents :
               /\ tempCC["z"] \in {x.f["z"], from["z"]}
               /\ X[k + 1] = Perform(ns[k + 1], W[k + 1], from, tempCC, skip, X[k])
               /\ Agree(ns[k + 1], from, x.f)
        BY <1>2, <2>1, <2>2, <4>1
      <4> QED BY <2>1, <4>2
    <3>2. Nuance(n) /\ (n.cond => "z" \in n.in)
      BY <1>0, <2>1 DEF Nuance
    <3> DEFINE y == X[m]
    <3>3. y = Branch(n, from, tempCC, skip, X[k])
      BY <2>1, <3>1 DEF Perform
    <3>4. y \in State /\ Branched(n, x.f, skip, X[k], y)
      <4>1. n.cond => tempCC["z"] = x.f["z"]
        BY <3>1, <3>2 DEF Agree
      <4> HIDE DEF n, k, y
      <4> QED BY <2>1, <2>3, <3>1, <3>2, <3>3, <4>1, BranchEffect
    <3>5. Taken(n, X[k], x.f) <=> Taken(n, x, x.f)
      BY <2>3 DEF Taken
    <3>6. \A i \in 1..m : TakesIn(ns, live, x, i) <=> (i = m /\ Taken(n, x, x.f))
      BY <2>1, <2>2, <2>4, <2>6 DEF TakesIn
    <3>7. Controls(ns, live, skip, x, y)
      <4>1. "rz" \in Cells
        BY DEF Cells
      <4> QED BY <2>1, <2>3, <3>4, <3>5, <3>6, <4>1 DEF Controls, Branched
    <3>8. Writes(ns, W, live, x, y)
      <4> SUFFICES ASSUME NEW i \in 1..m, i \in live, ns[i].unit # "ECU", NEW c \in W[i]
                   PROVE  y.f[c] = Result(ns[i], c, x.f)
        BY DEF Writes
      <4>1. i \in 1..k /\ i # m /\ c \in Cells /\ c \in ns[i].out
        BY <1>0, <2>1, <2>4
      <4>2. X[k].f[c] = Result(ns[i], c, x.f)
        BY <2>3, <4>1
      <4>3. ~(c = "rz" /\ n.link)
        <5>1. ns[i].out \cap n.out = {}
          BY <2>1, <4>1 DEF Sequenced
        <5> QED BY <2>1, <3>2, <4>1, <5>1 DEF Nuance
      <4> QED BY <3>4, <4>1, <4>2, <4>3 DEF Branched
    <3>9. Leaves(ns, W, live, x, y)
      <4> SUFFICES ASSUME NEW c \in Cells,
                          \A i \in 1..m : i \in live =>
                             IF ns[i].unit = "ECU" THEN ~(c = "rz" /\ ns[i].link /\ Taken(ns[i], x, x.f)) ELSE c \notin W[i]
                   PROVE  y.f[c] = x.f[c]
        BY DEF Leaves
      <4>1. X[k].f[c] = x.f[c]
        BY <2>2, <2>3
      <4>2. ~(c = "rz" /\ n.link /\ Taken(n, x, x.f))
        BY <2>1, <2>6
      <4> QED BY <3>4, <3>5, <4>1, <4>2 DEF Branched
    <3> QED BY <3>4, <3>7, <3>8, <3>9
  <2> QED BY <2>5, <2>6
<1> QED BY <1>7, <1>8

LEMMA PerformType ==
  ASSUME NEW n, Nuance(n), NEW W \in SUBSET n.out, NEW from \in Contents, NEW tempCC \in Contents,
         NEW skip \in 1..3, NEW x \in State
  PROVE  Perform(n, W, from, tempCC, skip, x) \in State
<1>1. CASE n.unit # "ECU"
  <2> DEFINE g == [from EXCEPT !["mem"] = x.f["mem"]]
  <2>1. n.unit \in Units
    BY <1>1 DEF Nuance
  <2>2. Agree(n, from, g) /\ g["mem"] = x.f["mem"]
    BY DEF Agree, Nuance, Readable, Registers, Contents, Cells
  <2> HIDE DEF g
  <2>3. Compute(n, W, from, x) \in State
    BY <2>1, <2>2, ComputeEffect
  <2> QED BY <1>1, <2>3 DEF Perform
<1>2. CASE n.unit = "ECU"
  <2>1. CASE ~Taken(n, x, tempCC)
    BY <1>2, <2>1 DEF Perform, Branch
  <2>2. CASE Taken(n, x, tempCC)
    <3> DEFINE h == [x.f EXCEPT !["rz"] = IF n.link THEN n.return ELSE @]
               s == IF n.nop THEN 1 ELSE skip
               t == IF n.to = InRz THEN from["rz"] ELSE n.to
    <3>1. x.f \in [Cells -> Int] /\ n.return \in Int /\ n.link \in BOOLEAN
      BY <1>2 DEF State, Contents, Nuance
    <3>2. h \in [Cells -> Int]
      BY <3>1
    <3>3. \A c \in Registers \cup {"mem"} : h[c] = x.f[c]
      BY <3>1 DEF Cells, Registers
    <3>4. h \in Contents
      BY <3>2, <3>3 DEF Contents, State
    <3>5. s \in 0..3
      OBVIOUS
    <3>6. t \in Int
      <4>1. from["rz"] \in Int /\ n.to \in Int
        BY <1>2 DEF Contents, Cells, Nuance
      <4> QED BY <4>1
    <3>7. Perform(n, W, from, tempCC, skip, x) = [x EXCEPT !.pcfetchnext = t, !.f = h, !.ecuSkipCounter = s]
      BY <1>2, <2>2 DEF Perform, Branch, State
    <3> HIDE DEF h, s, t
    <3> QED BY <3>4, <3>5, <3>6, <3>7 DEF State
  <2> QED BY <2>1, <2>2
<1> QED BY <1>1, <1>2

-----------------------------------------------------------------------------
(* Folds                                                                   *)

\* MPE::ExecuteNuances, one instruction after the other.
Stopped(p, x) == IF p.breakpoint THEN [x EXCEPT !.f["excepsrc"] = 1] ELSE x
Interpreting(p, x, n, y) == Perform(n, n.out, IF p.dependencyPresent THEN x.f ELSE y.f, x.f, 3, y)

LEMMA StoppedType ==
  ASSUME NEW p, NEW x \in State
  PROVE  /\ Stopped(p, x) \in State
         /\ \A c \in Cells \ {"excepsrc"} : Stopped(p, x).f[c] = x.f[c]
         /\ Stopped(p, x).pcexec = x.pcexec /\ Stopped(p, x).pcfetchnext = x.pcfetchnext
         /\ Stopped(p, x).ecuSkipCounter = x.ecuSkipCounter
         /\ Stopped(p, x).interpretNextPacket = x.interpretNextPacket
<1> DEFINE h == [x.f EXCEPT !["excepsrc"] = 1]
<1>1. x.f \in [Cells -> Int]
  BY DEF State, Contents
<1>2. h \in [Cells -> Int] /\ \A c \in Cells \ {"excepsrc"} : h[c] = x.f[c]
  <2>1. \A c \in Cells : h[c] = IF c = "excepsrc" THEN 1 ELSE x.f[c]
    BY <1>1
  <2>2. h = [c \in Cells |-> IF c = "excepsrc" THEN 1 ELSE x.f[c]]
    BY <1>1
  <2> HIDE DEF h
  <2>3. h \in [Cells -> Int]
    BY <1>1, <2>2
  <2> QED BY <2>1, <2>3
<1>3. h \in Contents
  BY <1>2 DEF State, Contents, Cells, Registers
<1>4. Stopped(p, x) = IF p.breakpoint THEN [x EXCEPT !.f = h] ELSE x
  BY DEF Stopped
<1> HIDE DEF h
<1> QED BY <1>2, <1>3, <1>4 DEF State

LEMMA NuancesRun ==
  ASSUME NEW p, NEW x \in State, Len(p.nuances) \in Nat, DOMAIN p.nuances = 1 .. Len(p.nuances),
         \A i \in 1 .. Len(p.nuances) : Nuance(p.nuances[i])
  PROVE  \E X \in [0 .. Len(p.nuances) -> State] :
            /\ X[0] = Stopped(p, x)
            /\ \A i \in 1 .. Len(p.nuances) : X[i] = Interpreting(p, x, p.nuances[i], X[i - 1])
            /\ ExecuteNuances(p, x) = X[Len(p.nuances)]
<1> DEFINE n == Len(p.nuances)
           base == Stopped(p, x)
           F == [k \in 1..n |-> [y \in State |-> Interpreting(p, x, p.nuances[k], y)]]
           Is(it) == it = [s \in SUBSET (1..n) |->
                             IF s = {} THEN base ELSE Interpreting(p, x, p.nuances[Max(s)], it[s \ {Max(s)}])]
           it == CHOOSE it : Is(it)
<1>1. base \in State
  BY StoppedType
<1>2. ASSUME NEW k \in 1..n, NEW y \in State PROVE Interpreting(p, x, p.nuances[k], y) \in State
  <2> DEFINE u == p.nuances[k]
             W == u.out
             from == IF p.dependencyPresent THEN x.f ELSE y.f
  <2>1. Nuance(u) /\ W \in SUBSET u.out /\ from \in Contents /\ x.f \in Contents /\ 3 \in 1..3
    BY DEF State
  <2> HIDE DEF W, from
  <2>2. Perform(u, W, from, x.f, 3, y) \in State
    <3> HIDE DEF u
    <3> QED BY <2>1, PerformType
  <2> QED BY <2>2 DEF W, from, Interpreting
<1>3. F \in [1..n -> [State -> State]]
  BY <1>2
<1> HIDE DEF base
<1>4. \E g : Is(g)
  <2>1. PICK g : FoldsLeft(g, n, State, base, F)
    <3> HIDE DEF F
    <3> QED BY <1>1, <1>3, FoldLeftExists
  <2>2. \A s \in SUBSET (1..n) : s # {} => Max(s) \in 1..n /\ g[s \ {Max(s)}] \in State
    BY <2>1, GreatestOf DEF FoldsLeft
  <2>3. Is(g)
    BY <2>1, <2>2 DEF FoldsLeft
  <2> QED BY <2>3
<1>5. Is(it)
  BY <1>4
<1>6. ExecuteNuances(p, x) = it[1..n]
  BY DEF ExecuteNuances, FoldLeft, MapThenFoldSet, Interpreting, Stopped, base
<1> HIDE DEF it
<1>7. Upwards(it, n, State, base, F)
  <2>1. it[1..0] = base
    <3>1. 1..0 = {} /\ {} \in SUBSET (1..n)
      OBVIOUS
    <3> QED BY <1>5, <3>1
  <2>2. \A k \in 1..n : it[1..k] = Interpreting(p, x, p.nuances[k], it[1 .. k - 1])
    <3> SUFFICES ASSUME NEW k \in 1..n PROVE it[1..k] = Interpreting(p, x, p.nuances[k], it[1 .. k - 1])
      OBVIOUS
    <3>1. Max(1..k) = k /\ (1..k) \ {k} = 1 .. k - 1 /\ 1..k \in SUBSET (1..n) /\ 1..k # {}
      BY GreatestOfPrefix
    <3> QED BY <1>5, <3>1
  <2> QED BY <2>1, <2>2 DEF Upwards
<1>8. PICK X : IsRun(X, n, State, base, F) /\ X[n] = it[1..n]
  <2> HIDE DEF F
  <2> QED BY <1>1, <1>3, <1>7, RunUp
<1>9. \A k \in 1..n : X[k] = Interpreting(p, x, p.nuances[k], X[k - 1])
  <2>1. \A k \in 1..n : k - 1 \in 0..n
    OBVIOUS
  <2>2. \A k \in 1..n : X[k] = F[k][X[k - 1]] /\ X[k - 1] \in State
    <3> HIDE DEF F
    <3> QED BY <1>8, <2>1 DEF IsRun
  <2> QED BY <2>2
<1> QED BY <1>6, <1>8, <1>9 DEF IsRun, base

-----------------------------------------------------------------------------
(* What the packet at an address does                                      *)

\* The branch of the packet, if it is taken.
EcuAt(a) == Unit(Packet(a), "ECU")
TakesAt(a, x) == Has(Packet(a), "ECU") /\ Taken(EcuAt(a), x, x.f)
CallsAt(a, x) == TakesAt(a, x) /\ EcuAt(a).link
ReturnOf(a) == a + IF EcuAt(a).nop THEN 1 ELSE 3

\* It has been executed from x to y, all of its instructions at once, but for
\* some writes, to cells in left.
Executes(a, left, skip, x, y) ==
  /\ y \in State
  /\ \A n \in Scheduling(Packet(a)) : \A c \in n.out :
        y.f[c] = Result(n, c, x.f) \/ (c \in left /\ y.f[c] = x.f[c])
  /\ \A c \in Cells : c \notin WrittenAt(a) /\ ~(c = "rz" /\ CallsAt(a, x)) => y.f[c] = x.f[c]
  /\ CallsAt(a, x) => y.f["rz"] = ReturnOf(a)
  /\ IF TakesAt(a, x)
     THEN y.pcfetchnext = Target(EcuAt(a), x.f) /\ y.ecuSkipCounter = (IF EcuAt(a).nop THEN 1 ELSE skip)
     ELSE y.pcfetchnext = x.pcfetchnext /\ y.ecuSkipCounter = x.ecuSkipCounter

\* The writes that the execution of a decoded packet leaves out.
Omits(ns, W, live, left) ==
  \A i \in 1 .. Len(ns) :
     /\ W[i] \subseteq ns[i].out
     /\ i \in live /\ ns[i].unit # "ECU" => ns[i].out \ W[i] \subseteq left
     /\ i \notin live => ns[i].unit # "ECU" /\ ns[i].out \subseteq left

\* A decoded packet that a processor may execute: its branch is only left out
\* when it would not be taken.
DecodedFor(d, a, x) ==
  \/ IsDecoded(d, Packet(a), a, FALSE)
  \/ IsDecoded(d, Packet(a), a, TRUE) /\ x.ecuSkipCounter # 0

LEMMA PassExecutes ==
  ASSUME program \in Programs, NEW a \in Int, NEW x \in State, NEW d, DecodedFor(d, a, x),
         NEW W, NEW live, NEW left, Omits(d.nuances, W, live, left), NEW skip \in 1..3,
         NEW X, Pass(d.nuances, W, live, skip, x, X)
  PROVE  /\ Executes(a, left, skip, x, X[Len(d.nuances)])
         /\ X[Len(d.nuances)].pcexec = x.pcexec
         /\ X[Len(d.nuances)].interpretNextPacket = x.interpretNextPacket
<1> DEFINE p == Packet(a)
           ns == d.nuances
           m == Len(ns)
           y == X[m]
           e == EcuAt(a)
<1>0. PICK inhibit \in BOOLEAN : IsDecoded(d, p, a, inhibit) /\ (inhibit => x.ecuSkipCounter # 0)
  BY DEF DecodedFor
<1>1. IsPacket(p) /\ Decodable(p, Readable)
  BY PacketIsPacket, PacketIsDecodable
<1>2. /\ m \in Nat
      /\ \A i \in 1..m : Nuance(ns[i]) /\ (ns[i].unit = "ECU" <=> (d.ecu /\ i = m))
      /\ \A i, j \in 1..m : i # j => ns[i].out \cap ns[j].out = {} /\ ns[i].unit # ns[j].unit
      /\ d.ecu = (Has(p, "ECU") /\ ~inhibit)
      /\ d.ecu => m # 0 /\ ns[m] = BranchOf(p, a)
      /\ \A i \in 1..m : ns[i] \in Scheduling(p) \/ (d.ecu /\ i = m)
      /\ \A n \in Scheduling(p) : n.unit # "ECU" /\ \E i \in 1..m : ns[i] = n
  <2>1. /\ \A i \in 1..m : Nuance(ns[i]) /\ (ns[i].unit = "ECU" <=> (d.ecu /\ i = m))
        /\ \A i, j \in 1..m : i # j => ns[i].out \cap ns[j].out = {}
    BY <1>0, <1>1, DecodedNuances
  <2>2. \A n \in Scheduling(p) : n.unit # "ECU"
    BY DEF Scheduling
  <2> QED BY <1>0, <2>1, <2>2 DEF IsDecoded
<1>3. Sequenced(ns, W)
  BY <1>2 DEF Sequenced, Omits
<1>4. y \in State /\ Writes(ns, W, live, x, y) /\ Leaves(ns, W, live, x, y) /\ Controls(ns, live, skip, x, y)
  <2> HIDE DEF ns
  <2> QED BY <1>3, PassEffect DEF ns
<1> HIDE DEF y, ns, p, e
<1>5. ASSUME Has(p, "ECU")
      PROVE  /\ BranchOf(p, a).unit = "ECU" /\ BranchOf(p, a).cond = e.cond /\ BranchOf(p, a).to = e.to
             /\ BranchOf(p, a).nop = e.nop /\ BranchOf(p, a).link = e.link /\ BranchOf(p, a).return = ReturnOf(a)
  <2>1. EcuAt(a) = Unit(p, "ECU")
    BY DEF p, EcuAt
  <2> QED BY <1>1, <1>5, <2>1, BranchFields, ZenonT(60) DEF ReturnOf, e
<1>6. \A i \in 1..m : TakesIn(ns, live, x, i) <=> (d.ecu /\ i = m /\ TakesAt(a, x))
  <2> SUFFICES ASSUME NEW i \in 1..m PROVE TakesIn(ns, live, x, i) <=> (d.ecu /\ i = m /\ TakesAt(a, x))
    OBVIOUS
  <2>1. CASE ~(d.ecu /\ i = m)
    BY <1>2, <2>1 DEF TakesIn
  <2>2. CASE d.ecu /\ i = m
    <3>1. i \in live /\ ns[i].unit = "ECU" /\ ns[i] = BranchOf(p, a) /\ Has(p, "ECU")
      BY <1>2, <2>2 DEF Omits, ns
    <3>2. Taken(ns[i], x, x.f) <=> Taken(e, x, x.f)
      BY <1>5, <3>1 DEF Taken
    <3> QED BY <2>2, <3>1, <3>2 DEF TakesIn, TakesAt, p, e
  <2> QED BY <2>1, <2>2
<1>7. TakesAt(a, x) => d.ecu
  BY <1>0, <1>2 DEF TakesAt, Taken, p
<1>8. \A n \in Scheduling(p) : \A c \in n.out : y.f[c] = Result(n, c, x.f) \/ (c \in left /\ y.f[c] = x.f[c])
  <2> SUFFICES ASSUME NEW n \in Scheduling(p), NEW c \in n.out
               PROVE  y.f[c] = Result(n, c, x.f) \/ (c \in left /\ y.f[c] = x.f[c])
    OBVIOUS
  <2>1. PICK i \in 1..m : ns[i] = n /\ n.unit # "ECU"
    BY <1>2
  <2>2. CASE i \in live /\ c \in W[i]
    BY <1>4, <2>1, <2>2 DEF Writes
  <2>3. CASE ~(i \in live /\ c \in W[i])
    <3>1. c \in left
      BY <2>1, <2>3 DEF Omits, ns
    <3>2. c \in Cells
      BY <1>2, <2>1 DEF Nuance, Cells, Registers
    <3>3. \A j \in 1..m : j # i => c \notin ns[j].out
      BY <1>2, <2>1
    <3>4. \A j \in 1..m : j # i /\ ns[j].unit # "ECU" => c \notin W[j]
      BY <3>3 DEF Omits, ns
    <3>5. \A j \in 1..m : ns[j].unit = "ECU" => ~(c = "rz" /\ ns[j].link)
      BY <1>2, <2>1, <3>3 DEF Nuance
    <3>6. y.f[c] = x.f[c]
      BY <1>4, <2>1, <2>3, <3>2, <3>4, <3>5 DEF Leaves
    <3> QED BY <3>1, <3>6
  <2> QED BY <2>2, <2>3
<1>9. ASSUME NEW c \in Cells, c \notin WrittenAt(a), ~(c = "rz" /\ CallsAt(a, x)) PROVE y.f[c] = x.f[c]
  <2>1. \A n \in Scheduling(p) : c \notin n.out
    BY <1>9 DEF WrittenAt, Scheduling, p
  <2>2. \A i \in 1..m : ns[i].unit # "ECU" => c \notin W[i]
    BY <1>2, <2>1 DEF Omits, ns
  <2>3. \A i \in 1..m : i \in live /\ ns[i].unit = "ECU" => ~(c = "rz" /\ ns[i].link /\ Taken(ns[i], x, x.f))
    <3> SUFFICES ASSUME NEW i \in 1..m, i \in live, ns[i].unit = "ECU", c = "rz", ns[i].link, Taken(ns[i], x, x.f)
                 PROVE  FALSE
      OBVIOUS
    <3>1. d.ecu /\ i = m /\ TakesAt(a, x) /\ Has(p, "ECU") /\ ns[i] = BranchOf(p, a)
      BY <1>2, <1>6 DEF TakesIn
    <3> QED BY <1>5, <1>9, <3>1 DEF CallsAt, e
  <2> QED BY <1>4, <2>2, <2>3 DEF Leaves
<1>10. CASE TakesAt(a, x)
  <2>0. d.ecu /\ m # 0
    BY <1>2, <1>7, <1>10
  <2>1. d.ecu /\ m \in 1..m /\ TakesIn(ns, live, x, m) /\ ns[m] = BranchOf(p, a) /\ Has(p, "ECU")
    <3>1. m \in 1..m
      BY <1>2, <2>0
    <3> QED BY <1>2, <1>6, <1>10, <2>0, <3>1
  <2>2. Target(ns[m], x.f) = Target(e, x.f)
    BY <1>5, <2>1 DEF Target
  <2> QED BY <1>4, <1>5, <1>8, <1>9, <1>10, <2>1, <2>2 DEF Executes, Controls, CallsAt, y, p, e, ns
<1>11. CASE ~TakesAt(a, x)
  BY <1>4, <1>6, <1>8, <1>9, <1>11 DEF Executes, Controls, CallsAt, y, p, ns
<1> QED BY <1>10, <1>11

\* The interpreter at a packet, before its instructions are executed.
Entered(x) == [x EXCEPT !.pcexec = @ + 1, !.interpretNextPacket = 0]
Beginning(x) == Stopped(Packet(x.pcexec), Entered(x))

LEMMA RetiredType ==
  ASSUME NEW x \in State
  PROVE  /\ Retired(x) \in State /\ Retired(x).f = x.f /\ Retired(x).pcfetchnext = x.pcfetchnext
         /\ Retired(x).interpretNextPacket = x.interpretNextPacket
         /\ Retired(x).ecuSkipCounter = (IF x.ecuSkipCounter = 0 THEN 0 ELSE x.ecuSkipCounter - 1)
         /\ Retired(x).pcexec = (IF x.ecuSkipCounter = 1 THEN x.pcfetchnext ELSE x.pcexec)
<1>1. CASE x.ecuSkipCounter = 0
  BY <1>1 DEF Retired
<1>2. CASE x.ecuSkipCounter = 1
  <2>1. Retired(x) = [x EXCEPT !.ecuSkipCounter = 0, !.pcexec = x.pcfetchnext]
    BY <1>2 DEF Retired
  <2>2. 0 \in 0..3 /\ x.pcfetchnext \in Int /\ x \in State
    BY DEF State
  <2>3. Retired(x) \in State
    BY <2>1, <2>2 DEF State
  <2> QED BY <1>2, <2>1, <2>3 DEF State
<1>3. CASE x.ecuSkipCounter \notin {0, 1}
  <2> DEFINE s == x.ecuSkipCounter - 1
  <2>1. Retired(x) = [x EXCEPT !.ecuSkipCounter = s]
    BY <1>3 DEF Retired
  <2>2. s \in 0..3
    BY <1>3 DEF State
  <2>3. s = IF x.ecuSkipCounter = 0 THEN 0 ELSE x.ecuSkipCounter - 1
    BY <1>3
  <2> HIDE DEF s
  <2> QED BY <1>3, <2>1, <2>2, <2>3 DEF State
<1> QED BY <1>1, <1>2, <1>3

LEMMA EnteredType ==
  ASSUME NEW x \in State
  PROVE  /\ Entered(x) \in State /\ Entered(x).f = x.f /\ Entered(x).f \in Contents
         /\ Entered(x).pcexec = x.pcexec + 1 /\ Entered(x).pcfetchnext = x.pcfetchnext
         /\ Entered(x).ecuSkipCounter = x.ecuSkipCounter /\ Entered(x).interpretNextPacket = 0
<1> DEFINE a == x.pcexec + 1
<1>1. a \in Int /\ 0 \in {0, 1}
  BY DEF State
<1>2. Entered(x) = [x EXCEPT !.pcexec = a, !.interpretNextPacket = 0]
  BY DEF Entered
<1>3. a = x.pcexec + 1
  OBVIOUS
<1> HIDE DEF a
<1> QED BY <1>1, <1>2, <1>3 DEF State

LEMMA BeginningType ==
  ASSUME NEW x \in State
  PROVE  /\ Beginning(x) \in State
         /\ \A c \in Cells \ {"excepsrc"} : Beginning(x).f[c] = x.f[c]
         /\ ~Packet(x.pcexec).breakpoint => Beginning(x).f = x.f
         /\ Packet(x.pcexec).breakpoint => Beginning(x).f["excepsrc"] = 1
         /\ Beginning(x).pcexec = x.pcexec + 1 /\ Beginning(x).pcfetchnext = x.pcfetchnext
         /\ Beginning(x).ecuSkipCounter = x.ecuSkipCounter /\ Beginning(x).interpretNextPacket = 0
<1> DEFINE e == Entered(x)
           p == Packet(x.pcexec)
<1>1. e \in State /\ e.f = x.f /\ e.pcexec = x.pcexec + 1 /\ e.pcfetchnext = x.pcfetchnext
      /\ e.ecuSkipCounter = x.ecuSkipCounter /\ e.interpretNextPacket = 0
  BY EnteredType
<1> HIDE DEF e, p
<1>2. Beginning(x) = Stopped(p, e)
  BY DEF Beginning, e, p
<1>3. /\ Stopped(p, e) \in State
      /\ \A c \in Cells \ {"excepsrc"} : Stopped(p, e).f[c] = e.f[c]
      /\ Stopped(p, e).pcexec = e.pcexec /\ Stopped(p, e).pcfetchnext = e.pcfetchnext
      /\ Stopped(p, e).ecuSkipCounter = e.ecuSkipCounter
      /\ Stopped(p, e).interpretNextPacket = e.interpretNextPacket
  BY <1>1, StoppedType
<1>4. ~p.breakpoint => Stopped(p, e).f = e.f
  BY DEF Stopped
<1>5. p.breakpoint => Stopped(p, e).f["excepsrc"] = 1
  <2>1. e.f \in [Cells -> Int] /\ "excepsrc" \in Cells
    BY <1>1 DEF State, Contents, Cells
  <2>2. p.breakpoint => Stopped(p, e).f = [e.f EXCEPT !["excepsrc"] = 1]
    BY <1>1 DEF Stopped, State
  <2> QED BY <2>1, <2>2
<1> QED BY <1>1, <1>2, <1>3, <1>4, <1>5 DEF p

LEMMA InterpretedExecutes ==
  ASSUME program \in Programs, NEW x \in State
  PROVE  \E y : /\ Executes(x.pcexec, {}, 3, Beginning(x), y)
                /\ y.pcexec = x.pcexec + 1 /\ y.interpretNextPacket = 0
                /\ Interpreted(x) = Retired(y)
<1> DEFINE a == x.pcexec
           d == Decoded(a, FALSE, FALSE)
           e == Entered(x)
           ns == d.nuances
           m == Len(ns)
           W == [i \in 1..m |-> ns[i].out]
           b == Beginning(x)
<1>1. a \in Int /\ IsPacket(Packet(a)) /\ IsDecoded(d, Packet(a), a, FALSE)
  BY PacketIsPacket, PacketDecoded DEF State
<1>2. m \in Nat /\ DOMAIN ns = 1..m /\ \A i \in 1..m : Nuance(ns[i])
  <2>1. \A i \in 1..m : Nuance(ns[i])
    <3> HIDE DEF d, a
    <3> QED BY <1>1, DecodedNuances
  <2> QED BY <1>1, <2>1 DEF IsDecoded
<1>3. e \in State /\ e.f \in Contents /\ b = Stopped(d, e)
  <2>1. d.breakpoint = Packet(a).breakpoint
    BY <1>1 DEF IsDecoded
  <2>2. e \in State /\ e.f \in Contents
    BY EnteredType
  <2> QED BY <2>1, <2>2 DEF Beginning, Stopped
<1>4. b \in State /\ b.pcexec = a + 1 /\ b.interpretNextPacket = 0 /\ \A c \in Cells \ {"excepsrc"} : b.f[c] = e.f[c]
  <2>1. e.f = x.f
    BY EnteredType
  <2> QED BY <2>1, BeginningType
<1> HIDE DEF d, e, b
<1>5. PICK X \in [0..m -> State] : /\ X[0] = b
                                   /\ \A i \in 1..m : X[i] = Interpreting(d, e, ns[i], X[i - 1])
                                   /\ ExecuteNuances(d, e) = X[m]
  BY <1>2, <1>3, NuancesRun
<1>6. Pass(ns, W, 1..m, 3, b, X)
  <2> SUFFICES ASSUME NEW i \in 1..m PROVE StepOfPass(ns, W, 1..m, 3, b, X, i)
    BY <1>5 DEF Pass
  <2> DEFINE from == IF d.dependencyPresent THEN e.f ELSE X[i - 1].f
  <2>1. i - 1 \in 0..m
    BY <1>2
  <2>2. from \in Contents
    BY <1>3, <1>5, <2>1 DEF State
  <2>3. X[i] = Perform(ns[i], W[i], from, e.f, 3, X[i - 1])
    BY <1>5 DEF Interpreting
  <2>4. e.f["z"] \in {b.f["z"], from["z"]}
    BY <1>4 DEF Cells, Registers
  <2>5. \A c \in ns[i].in : \/ from[c] = b.f[c]
                            \/ from[c] = X[i - 1].f[c] /\ \A j \in 1 .. i - 1 : j \in 1..m => c \notin W[j]
    <3>1. CASE d.dependencyPresent
      <4>1. Readable \subseteq Cells \ {"excepsrc"}
        BY DEF Readable, Cells, Registers
      <4> QED BY <1>2, <1>4, <3>1, <4>1 DEF Nuance
    <3>2. CASE ~d.dependencyPresent
      <4>1. \A j \in 1 .. i - 1 : j \in 1..m /\ j < i
        BY <1>2
      <4>2. \A j \in 1 .. i - 1 : Dependencies(ns[j], ns[i]) = {}
        BY <1>1, <3>2, <4>1 DEF IsDecoded
      <4> QED BY <3>2, <4>1, <4>2 DEF Dependencies
    <3> QED BY <3>1, <3>2
  <2> HIDE DEF from, W
  <2> QED BY <1>3, <2>2, <2>3, <2>4, <2>5 DEF StepOfPass
<1>7. Omits(ns, W, 1..m, {})
  BY DEF Omits
<1>8. Executes(a, {}, 3, b, X[m]) /\ X[m].pcexec = b.pcexec /\ X[m].interpretNextPacket = b.interpretNextPacket
  <2> HIDE DEF W
  <2>1. DecodedFor(d, a, b) /\ 3 \in 1..3
    BY <1>1 DEF DecodedFor
  <2>2. Omits(d.nuances, W, 1..m, {}) /\ Pass(d.nuances, W, 1..m, 3, b, X)
    BY <1>6, <1>7
  <2> DEFINE live == 1..m
             none == {}
  <2>3. Omits(d.nuances, W, live, none) /\ Pass(d.nuances, W, live, 3, b, X)
    BY <2>2
  <2> HIDE DEF live, a, none
  <2>4. program \in Programs
    OBVIOUS
  <2>5. Executes(a, none, 3, b, X[Len(d.nuances)]) /\ X[Len(d.nuances)].pcexec = b.pcexec
        /\ X[Len(d.nuances)].interpretNextPacket = b.interpretNextPacket
    BY ONLY <1>1, <1>4, <2>1, <2>3, <2>4, PassExecutes, SMTT(30)
  <2> QED BY <2>5 DEF none
<1>9. Interpreted(x) = Retired(X[m])
  <2>1. e = [x EXCEPT !.pcexec = d.pcroute, !.interpretNextPacket = 0]
    BY <1>1 DEF IsDecoded, e, Entered
  <2> QED BY <1>5, <2>1 DEF Interpreted, InterpretPacket, d
<1> QED BY <1>4, <1>8, <1>9 DEF b

LEMMA InterpretedType ==
  ASSUME program \in Programs, NEW x \in State
  PROVE  Interpreted(x) \in State
BY InterpretedExecutes, RetiredType DEF Executes

LEMMA InterpretedRun ==
  ASSUME program \in Programs, NEW x \in State, NEW number \in Nat
  PROVE  \E X \in [0..number -> State] :
            /\ X[0] = x /\ \A i \in 1..number : X[i] = Interpreted(X[i - 1])
            /\ ManyInterpreted(x, number) = X[number]
<1> DEFINE n == number
           B == State
           base == x
           F == [k \in 1..n |-> [y \in B |-> Interpreted(y)]]
           Is(it) == it = [s \in SUBSET (1..n) |->
                             IF s = {} THEN base ELSE Interpreted(it[s \ {Max(s)}])]
           it == CHOOSE it : Is(it)
<1>0. n \in Nat
  OBVIOUS
<1>1. base \in B
  OBVIOUS
<1>2. ASSUME NEW k \in 1..n, NEW y \in B PROVE Interpreted(y) \in B
  BY <1>2, InterpretedType
<1> HIDE DEF base, B
<1>3. F \in [1..n -> [B -> B]]
  BY <1>2
<1>4. \E g : Is(g)
  <2>1. PICK g : FoldsLeft(g, n, B, base, F)
    <3> HIDE DEF F, n
    <3> QED BY <1>0, <1>1, <1>3, FoldLeftExists
  <2>2. \A s \in SUBSET (1..n) : s # {} => Max(s) \in 1..n /\ g[s \ {Max(s)}] \in B
    BY <1>0, <2>1, GreatestOf DEF FoldsLeft
  <2>3. Is(g)
    BY <2>1, <2>2 DEF FoldsLeft
  <2> QED BY <2>3
<1>5. Is(it)
  BY <1>4
<1>6. ManyInterpreted(x, number) = it[1..n]
  BY <1>0 DEF ManyInterpreted, FoldLeft, MapThenFoldSet, base
<1> HIDE DEF it
<1>7. Upwards(it, n, B, base, F)
  <2>1. it[1..0] = base
    <3>1. 1..0 = {} /\ {} \in SUBSET (1..n)
      OBVIOUS
    <3> QED BY <1>5, <3>1
  <2>2. \A k \in 1..n : it[1..k] = Interpreted(it[1 .. k - 1])
    <3> SUFFICES ASSUME NEW k \in 1..n PROVE it[1..k] = Interpreted(it[1 .. k - 1])
      OBVIOUS
    <3>1. Max(1..k) = k /\ (1..k) \ {k} = 1 .. k - 1 /\ 1..k \in SUBSET (1..n)
      BY <1>0, GreatestOfPrefix
    <3>2. 1..k # {}
      BY <1>0
    <3> QED BY <1>5, <3>1, <3>2
  <2> QED BY <2>1, <2>2 DEF Upwards
<1>8. PICK X : IsRun(X, n, B, base, F) /\ X[n] = it[1..n]
  <2> HIDE DEF F, n
  <2> QED BY <1>0, <1>1, <1>3, <1>7, RunUp
<1>9. \A k \in 1..n : X[k] = Interpreted(X[k - 1])
  <2>1. \A k \in 1..n : k - 1 \in 0..n
    BY <1>0
  <2>2. \A k \in 1..n : X[k] = F[k][X[k - 1]] /\ X[k - 1] \in B
    <3> HIDE DEF F
    <3> QED BY <1>8, <2>1 DEF IsRun
  <2> QED BY <2>2
<1> QED BY <1>6, <1>8, <1>9 DEF IsRun, base, B

LEMMA ManyInterpretedSteps ==
  ASSUME program \in Programs, NEW x \in State
  PROVE  /\ ManyInterpreted(x, 0) = x
         /\ \A k \in Nat : /\ ManyInterpreted(x, k) \in State
                           /\ ManyInterpreted(x, k + 1) = Interpreted(ManyInterpreted(x, k))
<1>1. ManyInterpreted(x, 0) = x
  BY InterpretedRun
<1>2. ASSUME NEW k \in Nat
      PROVE  /\ ManyInterpreted(x, k) \in State
             /\ ManyInterpreted(x, k + 1) = Interpreted(ManyInterpreted(x, k))
  <2>1. PICK X \in [0..k -> State] : /\ X[0] = x /\ \A i \in 1..k : X[i] = Interpreted(X[i - 1])
                                     /\ ManyInterpreted(x, k) = X[k]
    BY InterpretedRun
  <2>2. PICK Y \in [0 .. k + 1 -> State] :
           /\ Y[0] = x /\ \A i \in 1 .. k + 1 : Y[i] = Interpreted(Y[i - 1])
           /\ ManyInterpreted(x, k + 1) = Y[k + 1]
    <3>1. k + 1 \in Nat
      OBVIOUS
    <3> QED BY <3>1, InterpretedRun
  <2> DEFINE S == {i \in 0..k : X[i] = Y[i]}
  <2>3. 0 \in S /\ \A i \in 0 .. k - 1 : i \in S => i + 1 \in S
    <3>1. ASSUME NEW i \in 0 .. k - 1, i \in S PROVE i + 1 \in S
      <4>1. i + 1 \in 1..k /\ i + 1 \in 1 .. k + 1 /\ (i + 1) - 1 = i /\ i + 1 \in 0..k
        OBVIOUS
      <4> QED BY <2>1, <2>2, <3>1, <4>1
    <3> QED BY <2>1, <2>2, <3>1
  <2>4. k \in S
    <3> HIDE DEF S
    <3> QED BY <2>3, UpTo
  <2>5. k + 1 \in 1 .. k + 1 /\ (k + 1) - 1 = k
    OBVIOUS
  <2> QED BY <2>1, <2>2, <2>4, <2>5
<1> QED BY <1>1, <1>2

-----------------------------------------------------------------------------
(* Dead code                                                               *)

\* An instruction of the compiler's list reads and writes cells.
Entry(e) == e.n.in \subseteq Cells /\ e.out \subseteq Cells
EntryList(q) == Len(q) \in Nat /\ DOMAIN q = 1 .. Len(q) /\ \A i \in 1 .. Len(q) : Entry(q[i])

LEMMA DependenciesRun ==
  ASSUME NEW q, EntryList(q)
  PROVE  \E X \in [0 .. Len(q) -> [op : SUBSET Cells, out : SUBSET Cells]] :
            /\ \A i \in 1 .. Len(q) : X[i] = Depend(X[i - 1], q[i])
            /\ OpDependencies(q) = X[Len(q)].op
<1> DEFINE n == Len(q)
           B == [op : SUBSET Cells, out : SUBSET Cells]
           base == [op |-> {}, out |-> {}]
           F == [k \in 1..n |-> [y \in B |-> Depend(y, q[k])]]
           Is(it) == it = [s \in SUBSET (1..n) |->
                             IF s = {} THEN base ELSE Depend(it[s \ {Max(s)}], q[Max(s)])]
           it == CHOOSE it : Is(it)
<1>0. n \in Nat
  BY DEF EntryList
<1>1. base \in B
  OBVIOUS
<1>2. ASSUME NEW k \in 1..n, NEW y \in B PROVE Depend(y, q[k]) \in B
  <2>1. Entry(q[k])
    BY <1>0 DEF EntryList
  <2> QED BY <2>1 DEF Depend, Entry
<1> HIDE DEF base, B
<1>3. F \in [1..n -> [B -> B]]
  BY <1>2
<1>4. \E g : Is(g)
  <2>1. PICK g : FoldsLeft(g, n, B, base, F)
    <3> HIDE DEF F, n
    <3> QED BY <1>0, <1>1, <1>3, FoldLeftExists
  <2>2. \A s \in SUBSET (1..n) : s # {} => Max(s) \in 1..n /\ g[s \ {Max(s)}] \in B
    BY <1>0, <2>1, GreatestOf DEF FoldsLeft
  <2>3. Is(g)
    BY <2>1, <2>2 DEF FoldsLeft
  <2> QED BY <2>3
<1>5. Is(it)
  BY <1>4
<1>6. OpDependencies(q) = it[1..n].op
  BY <1>0 DEF EntryList, OpDependencies, FoldLeft, MapThenFoldSet, base
<1> HIDE DEF it
<1>7. Upwards(it, n, B, base, F)
  <2>1. it[1..0] = base
    <3>1. 1..0 = {} /\ {} \in SUBSET (1..n)
      OBVIOUS
    <3> QED BY <1>5, <3>1
  <2>2. \A k \in 1..n : it[1..k] = Depend(it[1 .. k - 1], q[k])
    <3> SUFFICES ASSUME NEW k \in 1..n PROVE it[1..k] = Depend(it[1 .. k - 1], q[k])
      OBVIOUS
    <3>1. Max(1..k) = k /\ (1..k) \ {k} = 1 .. k - 1 /\ 1..k \in SUBSET (1..n)
      BY <1>0, GreatestOfPrefix
    <3>2. 1..k # {}
      BY <1>0
    <3> QED BY <1>5, <3>1, <3>2
  <2> QED BY <2>1, <2>2 DEF Upwards
<1>8. PICK X : IsRun(X, n, B, base, F) /\ X[n] = it[1..n]
  <2> HIDE DEF F, n
  <2> QED BY <1>0, <1>1, <1>3, <1>7, RunUp
<1>9. \A k \in 1..n : X[k] = Depend(X[k - 1], q[k])
  <2>1. \A k \in 1..n : k - 1 \in 0..n
    BY <1>0
  <2>2. \A k \in 1..n : X[k] = F[k][X[k - 1]] /\ X[k - 1] \in B
    <3> HIDE DEF F
    <3> QED BY <1>8, <2>1 DEF IsRun
  <2> QED BY <2>2
<1> QED BY <1>6, <1>8, <1>9 DEF IsRun, base, B

\* UpdateDependencyInfo finds every cell that an instruction reads and an
\* earlier one writes.
LEMMA DependenciesFound ==
  ASSUME NEW q, EntryList(q), NEW i \in 1 .. Len(q), NEW j \in 1 .. Len(q), i < j, ~q[i].dead, ~q[j].dead
  PROVE  q[j].n.in \cap q[i].out \subseteq OpDependencies(q)
<1> DEFINE n == Len(q)
           Found(k, a) == \A h \in 1..k : ~q[h].dead =>
                             /\ q[h].out \subseteq a.out
                             /\ \A l \in 1..k : h < l /\ ~q[l].dead => q[l].n.in \cap q[h].out \subseteq a.op
<1>0. n \in Nat
  BY DEF EntryList
<1>1. PICK X \in [0..n -> [op : SUBSET Cells, out : SUBSET Cells]] :
         /\ \A k \in 1..n : X[k] = Depend(X[k - 1], q[k])
         /\ OpDependencies(q) = X[n].op
  BY DependenciesRun
<1> DEFINE S == {k \in 0..n : Found(k, X[k])}
<1>2. 0 \in S
  BY <1>0
<1>3. ASSUME NEW k \in 0 .. n - 1, Found(k, X[k]) PROVE Found(k + 1, X[k + 1])
  <2>1. k + 1 \in 1..n /\ (k + 1) - 1 = k /\ 1 .. k + 1 = (1..k) \cup {k + 1} /\ k \in 0..n
    BY <1>0
  <2>2. X[k + 1] = Depend(X[k], q[k + 1])
    BY <1>1, <2>1
  <2>3. /\ X[k].op \subseteq X[k + 1].op /\ X[k].out \subseteq X[k + 1].out
        /\ ~q[k + 1].dead => /\ q[k + 1].out \subseteq X[k + 1].out
                             /\ q[k + 1].n.in \cap X[k].out \subseteq X[k + 1].op
    BY <2>2 DEF Depend
  <2>4. \A h \in 1 .. k + 1 : h \in 1..k \/ h = k + 1
    BY <2>1
  <2>5. \A h, l \in 1 .. k + 1 : h < l => h \in 1..k
    OBVIOUS
  <2> QED BY <1>3, <2>3, <2>4, <2>5
<1>4. n \in S
  <2>1. \A k \in 0 .. n - 1 : k \in S => k + 1 \in S
    <3>1. \A k \in 0 .. n - 1 : k + 1 \in 0..n
      BY <1>0
    <3> HIDE DEF Found
    <3> QED BY <1>3, <3>1
  <2>2. 0..n \subseteq S
    <3> HIDE DEF S
    <3> QED BY <1>0, <1>2, <2>1, UpTo
  <2>3. n \in 0..n
    BY <1>0
  <2> HIDE DEF S
  <2> QED BY <2>2, <2>3
<1> QED BY <1>1, <1>4

LEMMA MaskRun ==
  ASSUME NEW q, EntryList(q), NEW masked \in SUBSET Cells
  PROVE  \E X \in [1 .. Len(q) + 1 -> [in : SUBSET Cells, next : SUBSET Cells]] :
            /\ X[Len(q) + 1] = [in |-> {}, next |-> masked]
            /\ \A i \in 1 .. Len(q) : X[i] = Masking(q[i], X[i + 1], masked)
            /\ NextMask(q, masked) = X[1].next
<1> DEFINE n == Len(q)
           B == [in : SUBSET Cells, next : SUBSET Cells]
           base == [in |-> {}, next |-> masked]
           F == [k \in 1..n |-> [y \in B |-> Masking(q[k], y, masked)]]
           Is(it) == it = [s \in SUBSET (1..n) |->
                             IF s = {} THEN base ELSE Masking(q[Min(s)], it[s \ {Min(s)}], masked)]
           it == CHOOSE it : Is(it)
<1>0. n \in Nat
  BY DEF EntryList
<1>1. base \in B
  OBVIOUS
<1>2. ASSUME NEW k \in 1..n, NEW y \in B PROVE Masking(q[k], y, masked) \in B
  <2>1. Entry(q[k])
    BY <1>0 DEF EntryList
  <2> QED BY <2>1 DEF Masking, Entry
<1> HIDE DEF base, B
<1>3. F \in [1..n -> [B -> B]]
  BY <1>2
<1>4. \E g : Is(g)
  <2>1. PICK g : FoldsRight(g, n, B, base, F)
    <3> HIDE DEF F, n
    <3> QED BY <1>0, <1>1, <1>3, FoldRightExists
  <2>2. \A s \in SUBSET (1..n) : s # {} => Min(s) \in 1..n /\ g[s \ {Min(s)}] \in B
    BY <1>0, <2>1, LeastOf DEF FoldsRight
  <2>3. Is(g)
    BY <2>1, <2>2 DEF FoldsRight
  <2> QED BY <2>3
<1>5. Is(it)
  BY <1>4
<1>6. NextMask(q, masked) = it[1..n].next
  BY <1>0 DEF EntryList, NextMask, FoldRight, MapThenFoldSet, base
<1> HIDE DEF it
<1>7. Downwards(it, n, B, base, F)
  <2>1. it[n + 1 .. n] = base
    <3>1. n + 1 .. n = {} /\ {} \in SUBSET (1..n)
      BY <1>0
    <3> QED BY <1>5, <3>1
  <2>2. \A k \in 1..n : it[k..n] = Masking(q[k], it[k + 1 .. n], masked)
    <3> SUFFICES ASSUME NEW k \in 1..n PROVE it[k..n] = Masking(q[k], it[k + 1 .. n], masked)
      OBVIOUS
    <3>1. Min(k..n) = k /\ (k..n) \ {k} = k + 1 .. n /\ k..n \in SUBSET (1..n)
      BY <1>0, LeastOfSuffix
    <3>2. k..n # {}
      BY <1>0
    <3> QED BY <1>5, <3>1, <3>2
  <2> QED BY <2>1, <2>2 DEF Downwards
<1>8. PICK X : IsRunBack(X, n, B, base, F) /\ X[1] = it[1..n]
  <2> HIDE DEF F, n
  <2> QED BY <1>0, <1>1, <1>3, <1>7, RunDown
<1>9. \A k \in 1..n : X[k] = Masking(q[k], X[k + 1], masked)
  <2>1. \A k \in 1..n : k + 1 \in 1 .. n + 1
    BY <1>0
  <2>2. \A k \in 1..n : X[k] = F[k][X[k + 1]] /\ X[k + 1] \in B
    <3> HIDE DEF F
    <3> QED BY <1>8, <2>1 DEF IsRunBack
  <2> QED BY <2>2
<1> QED BY <1>6, <1>8, <1>9 DEF IsRunBack, base, B

\* What need not be written before a packet is neither read by the packet, nor
\* kept unless it is masked behind it or the packet writes it.
LEMMA MaskHolds ==
  ASSUME NEW q, EntryList(q), NEW masked \in SUBSET Cells
  PROVE  /\ NextMask(q, masked) \in SUBSET Cells
         /\ \A c \in NextMask(q, masked) :
               /\ \A i \in 1 .. Len(q) : c \notin q[i].n.in
               /\ c \in masked \/ \E i \in 1 .. Len(q) : c \in q[i].out \ {"mem"}
<1> DEFINE n == Len(q)
           Holds(k, a) == /\ \A i \in k..n : q[i].n.in \subseteq a.in
                          /\ a.next \cap a.in = {}
                          /\ \A c \in a.next : c \in masked \/ \E i \in k..n : c \in q[i].out \ {"mem"}
<1>0. n \in Nat
  BY DEF EntryList
<1>1. PICK X \in [1 .. n + 1 -> [in : SUBSET Cells, next : SUBSET Cells]] :
         /\ X[n + 1] = [in |-> {}, next |-> masked]
         /\ \A i \in 1..n : X[i] = Masking(q[i], X[i + 1], masked)
         /\ NextMask(q, masked) = X[1].next
  BY MaskRun
<1> DEFINE S == {k \in 1 .. n + 1 : Holds(k, X[k])}
<1>2. n + 1 \in S
  <2>1. n + 1 .. n = {}
    BY <1>0
  <2> QED BY <1>0, <1>1, <2>1
<1>3. ASSUME NEW k \in 1..n, Holds(k + 1, X[k + 1]) PROVE Holds(k, X[k])
  <2>1. k..n = {k} \cup (k + 1 .. n)
    BY <1>0
  <2>2. X[k] = Masking(q[k], X[k + 1], masked)
    BY <1>1
  <2>3. /\ X[k].in = X[k + 1].in \cup q[k].n.in
        /\ X[k].next = (X[k + 1].next \cup (q[k].out \ (masked \cup {"mem"}))) \ X[k].in
    BY <2>2 DEF Masking
  <2>4. \A i \in k..n : q[i].n.in \subseteq X[k].in
    BY <1>3, <2>1, <2>3
  <2>5. \A c \in X[k].next : c \in masked \/ \E i \in k..n : c \in q[i].out \ {"mem"}
    BY <1>3, <2>1, <2>3
  <2> QED BY <2>3, <2>4, <2>5
<1>4. 1 \in S
  <2>1. \A k \in 1..n : k + 1 \in S => k \in S
    <3>1. \A k \in 1..n : k \in 1 .. n + 1
      BY <1>0
    <3> HIDE DEF Holds
    <3> QED BY <1>3, <3>1
  <2>2. 1 \in 1 .. n + 1
    BY <1>0
  <2> HIDE DEF S
  <2> QED BY <1>0, <1>2, <2>1, <2>2, DownTo
<1>5. Holds(1, X[1]) /\ X[1] \in [in : SUBSET Cells, next : SUBSET Cells]
  <2>1. 1 \in 1 .. n + 1
    BY <1>0
  <2> HIDE DEF Holds
  <2> QED BY <1>1, <1>4, <2>1
<1> QED BY <1>1, <1>5

\* The entries of the compiler's lists, with instructions of N.
EntriesOf(N) == [n : N, out : SUBSET Cells, dead : BOOLEAN]
ListsOf(N) == Seq(Seq(EntriesOf(N)))
ReadsCells(N) == \A n \in N : n.in \subseteq Cells

LEMMA ListEntries ==
  ASSUME NEW N, ReadsCells(N), NEW q \in Seq(EntriesOf(N))
  PROVE  EntryList(q) /\ \A i \in 1 .. Len(q) : q[i] \in EntriesOf(N)
<1>1. Len(q) \in Nat /\ DOMAIN q = 1 .. Len(q) /\ \A i \in 1 .. Len(q) : q[i] \in EntriesOf(N)
  OBVIOUS
<1> QED BY <1>1 DEF EntryList, Entry, EntriesOf, ReadsCells

LEMMA EliminatedType ==
  ASSUME NEW N, ReadsCells(N), NEW q \in Seq(EntriesOf(N)), NEW masked \in SUBSET Cells
  PROVE  /\ NextMask(q, masked) \in SUBSET Cells
         /\ [i \in DOMAIN q |-> Eliminated(q[i], masked)] \in Seq(EntriesOf(N))
<1>1. EntryList(q) /\ \A i \in 1 .. Len(q) : q[i] \in EntriesOf(N)
  BY ListEntries
<1>2. \A i \in 1 .. Len(q) : Eliminated(q[i], masked) \in EntriesOf(N)
  <2> SUFFICES ASSUME NEW i \in 1 .. Len(q) PROVE Eliminated(q[i], masked) \in EntriesOf(N)
    OBVIOUS
  <2> DEFINE e == q[i]
             out == e.out \ masked
             dead == Declared(e) \subseteq masked
  <2>1. e \in EntriesOf(N) /\ out \in SUBSET Cells /\ dead \in BOOLEAN
    BY <1>1 DEF EntriesOf
  <2>2. Eliminated(e, masked) = [e EXCEPT !.out = out, !.dead = dead]
    BY DEF Eliminated
  <2> HIDE DEF e, out, dead
  <2>3. Eliminated(e, masked) \in EntriesOf(N)
    BY <2>1, <2>2 DEF EntriesOf
  <2> QED BY <2>3 DEF e
<1>3. Len(q) \in Nat /\ DOMAIN q = 1 .. Len(q)
  BY <1>1 DEF EntryList
<1>4. [i \in DOMAIN q |-> Eliminated(q[i], masked)] \in [1 .. Len(q) -> EntriesOf(N)]
  BY <1>2, <1>3
<1>5. [i \in DOMAIN q |-> Eliminated(q[i], masked)] \in Seq(EntriesOf(N))
  <2> DEFINE t == [i \in DOMAIN q |-> Eliminated(q[i], masked)]
  <2>1. t \in [1 .. Len(q) -> EntriesOf(N)]
    BY <1>4
  <2> HIDE DEF t
  <2>2. t \in Seq(EntriesOf(N))
    BY <1>3, <2>1
  <2> QED BY <2>2 DEF t
<1> QED BY <1>1, <1>5, MaskHolds

LEMMA EliminationRun ==
  ASSUME NEW N, ReadsCells(N), NEW list \in ListsOf(N)
  PROVE  \E X \in [1 .. Len(list) + 1 -> [masked : SUBSET Cells, list : ListsOf(N)]] :
            /\ X[Len(list) + 1] = [masked |-> {}, list |-> <<>>]
            /\ \A i \in 1 .. Len(list) : X[i] = EliminateIn(list[i], X[i + 1])
            /\ PerformDeadCodeElimination(list) = X[1].list
<1> DEFINE n == Len(list)
           B == [masked : SUBSET Cells, list : ListsOf(N)]
           base == [masked |-> {}, list |-> <<>>]
           F == [k \in 1..n |-> [y \in B |-> EliminateIn(list[k], y)]]
           Is(it) == it = [s \in SUBSET (1..n) |->
                             IF s = {} THEN base ELSE EliminateIn(list[Min(s)], it[s \ {Min(s)}])]
           it == CHOOSE it : Is(it)
<1>0. n \in Nat
  BY DEF ListsOf
<1>1. base \in B
  <2>1. <<>> \in ListsOf(N)
    BY DEF ListsOf
  <2> QED BY <2>1
<1>2. ASSUME NEW k \in 1..n, NEW y \in B PROVE EliminateIn(list[k], y) \in B
  <2> DEFINE q == list[k]
             t == [i \in DOMAIN q |-> Eliminated(q[i], y.masked)]
  <2>1. q \in Seq(EntriesOf(N)) /\ y.masked \in SUBSET Cells /\ y.list \in ListsOf(N)
    BY DEF ListsOf
  <2>2. NextMask(q, y.masked) \in SUBSET Cells /\ t \in Seq(EntriesOf(N))
    BY <2>1, EliminatedType
  <2>3. EliminateIn(q, y) = [masked |-> NextMask(q, y.masked), list |-> <<t>> \o y.list]
    BY DEF EliminateIn
  <2> HIDE DEF q, t
  <2>4. <<t>> \o y.list \in ListsOf(N)
    BY <2>1, <2>2 DEF ListsOf
  <2> QED BY <2>2, <2>3, <2>4 DEF q
<1> HIDE DEF base, B
<1>3. F \in [1..n -> [B -> B]]
  BY <1>2
<1>4. \E g : Is(g)
  <2>1. PICK g : FoldsRight(g, n, B, base, F)
    <3> HIDE DEF F, n
    <3> QED BY <1>0, <1>1, <1>3, FoldRightExists
  <2>2. \A s \in SUBSET (1..n) : s # {} => Min(s) \in 1..n /\ g[s \ {Min(s)}] \in B
    BY <1>0, <2>1, LeastOf DEF FoldsRight
  <2>3. Is(g)
    BY <2>1, <2>2 DEF FoldsRight
  <2> QED BY <2>3
<1>5. Is(it)
  BY <1>4
<1>6. PerformDeadCodeElimination(list) = it[1..n].list
  BY <1>0, DOMAIN list = 1..n DEF PerformDeadCodeElimination, FoldRight, MapThenFoldSet, base
<1> HIDE DEF it
<1>7. Downwards(it, n, B, base, F)
  <2>1. it[n + 1 .. n] = base
    <3>1. n + 1 .. n = {} /\ {} \in SUBSET (1..n)
      BY <1>0
    <3> QED BY <1>5, <3>1
  <2>2. \A k \in 1..n : it[k..n] = EliminateIn(list[k], it[k + 1 .. n])
    <3> SUFFICES ASSUME NEW k \in 1..n PROVE it[k..n] = EliminateIn(list[k], it[k + 1 .. n])
      OBVIOUS
    <3>1. Min(k..n) = k /\ (k..n) \ {k} = k + 1 .. n /\ k..n \in SUBSET (1..n)
      BY <1>0, LeastOfSuffix
    <3> DEFINE s == k..n
    <3>2. s # {} /\ s \in SUBSET (1..n)
      BY <1>0
    <3> HIDE DEF s
    <3>3. it[s] = EliminateIn(list[Min(s)], it[s \ {Min(s)}])
      BY <1>5, <3>2
    <3> QED BY <3>1, <3>3 DEF s
  <2> QED BY <2>1, <2>2 DEF Downwards
<1>8. PICK X : IsRunBack(X, n, B, base, F) /\ X[1] = it[1..n]
  <2> HIDE DEF F, n
  <2> QED BY <1>0, <1>1, <1>3, <1>7, RunDown
<1>9. \A k \in 1..n : X[k] = EliminateIn(list[k], X[k + 1])
  <2>1. \A k \in 1..n : k + 1 \in 1 .. n + 1
    BY <1>0
  <2>2. \A k \in 1..n : X[k] = F[k][X[k + 1]] /\ X[k + 1] \in B
    <3> HIDE DEF F
    <3> QED BY <1>8, <2>1 DEF IsRunBack
  <2> QED BY <2>2
<1> QED BY <1>6, <1>8, <1>9 DEF IsRunBack, base, B

\* PerformDeadCodeElimination takes from the outputs of each packet those that
\* need not be written because of the packets behind it.
Elimination(list, K, result) ==
  /\ K \in [1 .. Len(list) + 1 -> SUBSET Cells] /\ K[Len(list) + 1] = {}
  /\ \A i \in 1 .. Len(list) :
        /\ K[i] = NextMask(list[i], K[i + 1])
        /\ result[i] = [j \in DOMAIN list[i] |-> Eliminated(list[i][j], K[i + 1])]
  /\ Len(result) = Len(list) /\ DOMAIN result = 1 .. Len(list)

LEMMA EliminationHolds ==
  ASSUME NEW N, ReadsCells(N), NEW list \in ListsOf(N)
  PROVE  \E K : Elimination(list, K, PerformDeadCodeElimination(list))
<1> DEFINE n == Len(list)
           result == PerformDeadCodeElimination(list)
<1>0. n \in Nat
  BY DEF ListsOf
<1>1. PICK X \in [1 .. n + 1 -> [masked : SUBSET Cells, list : ListsOf(N)]] :
         /\ X[n + 1] = [masked |-> {}, list |-> <<>>]
         /\ \A i \in 1..n : X[i] = EliminateIn(list[i], X[i + 1])
         /\ result = X[1].list
  BY EliminationRun
<1> DEFINE K == [k \in 1 .. n + 1 |-> X[k].masked]
           t(i) == [j \in DOMAIN list[i] |-> Eliminated(list[i][j], K[i + 1])]
           IsTail(k, s) == /\ Len(s) = (n + 1) - k
                          /\ \A j \in 1 .. (n + 1) - k : s[j] = t((k - 1) + j)
           S == {k \in 1 .. n + 1 : IsTail(k, X[k].list)}
<1>2. \A i \in 1..n : i + 1 \in 1 .. n + 1 /\ i \in 1 .. n + 1
  BY <1>0
<1>3. \A i \in 1..n : K[i] = NextMask(list[i], K[i + 1]) /\ X[i].list = <<t(i)>> \o X[i + 1].list
  <2> SUFFICES ASSUME NEW i \in 1..n
               PROVE  K[i] = NextMask(list[i], K[i + 1]) /\ X[i].list = <<t(i)>> \o X[i + 1].list
    OBVIOUS
  <2>1. K[i] = X[i].masked /\ K[i + 1] = X[i + 1].masked
    BY <1>2
  <2>2. X[i] = EliminateIn(list[i], X[i + 1])
    BY <1>1
  <2> HIDE DEF K
  <2>3. X[i].masked = NextMask(list[i], K[i + 1]) /\ X[i].list = <<t(i)>> \o X[i + 1].list
    BY <2>1, <2>2 DEF EliminateIn
  <2> QED BY <2>1, <2>3
<1> HIDE DEF K, t
<1>4. n + 1 \in S
  BY <1>0, <1>1
<1>5. ASSUME NEW k \in 1..n, IsTail(k + 1, X[k + 1].list) PROVE IsTail(k, X[k].list)
  <2> DEFINE s == X[k + 1].list
             r == X[k].list
             m == n - k
  <2>1. s \in ListsOf(N) /\ m \in Nat /\ (n + 1) - (k + 1) = m /\ (n + 1) - k = m + 1 /\ (k + 1) - 1 = k
    BY <1>0, <1>1, <1>2
  <2>2. s \in Seq(Seq(EntriesOf(N)))
    BY <2>1 DEF ListsOf
  <2>3. r = <<t(k)>> \o s /\ Len(s) = m /\ \A j \in 1..m : s[j] = t(k + j)
    BY <1>3, <1>5, <2>1
  <2> HIDE DEF s, r, m
  <2>4. Len(r) = m + 1 /\ r[1] = t(k) /\ \A j \in 1..m : r[j + 1] = s[j]
    BY <2>1, <2>2, <2>3
  <2>5. ASSUME NEW j \in 1 .. m + 1 PROVE r[j] = t((k - 1) + j)
    <3>1. CASE j = 1
      <4>1. (k - 1) + 1 = k
        OBVIOUS
      <4> QED BY <2>4, <3>1, <4>1
    <3>2. CASE j # 1
      <4>1. j - 1 \in 1..m /\ (j - 1) + 1 = j /\ k + (j - 1) = (k - 1) + j
        BY <2>1, <3>2
      <4>2. r[(j - 1) + 1] = s[j - 1] /\ s[j - 1] = t(k + (j - 1))
        BY <2>3, <2>4, <4>1
      <4> QED BY <4>1, <4>2
    <3> QED BY <3>1, <3>2
  <2> QED BY <2>1, <2>4, <2>5 DEF r
<1>6. 1 \in S
  <2>1. \A k \in 1..n : k + 1 \in S => k \in S
    <3> HIDE DEF IsTail
    <3> QED BY <1>2, <1>5
  <2>2. 1 .. n + 1 \subseteq S
    <3> HIDE DEF S
    <3> QED BY <1>0, <1>4, <2>1, DownTo
  <2>3. 1 \in 1 .. n + 1
    BY <1>0
  <2> HIDE DEF S
  <2> QED BY <2>2, <2>3
<1>7. Len(result) = n /\ \A j \in 1..n : result[j] = t(j)
  <2>1. (n + 1) - 1 = n /\ \A j \in 1..n : (1 - 1) + j = j
    BY <1>0
  <2> QED BY <1>1, <1>6, <2>1
<1>8. DOMAIN result = 1..n
  <2>1. 1 \in 1 .. n + 1
    BY <1>0
  <2>2. X[1].list \in ListsOf(N)
    BY <1>1, <2>1
  <2>3. result \in Seq(Seq(EntriesOf(N)))
    BY <1>1, <2>2 DEF ListsOf
  <2> HIDE DEF result
  <2> QED BY <1>7, <2>3
<1>9. K \in [1 .. n + 1 -> SUBSET Cells] /\ K[n + 1] = {}
  <2>1. n + 1 \in 1 .. n + 1
    BY <1>0
  <2> QED BY <1>1, <2>1 DEF K
<1>10. Elimination(list, K, result)
  BY <1>3, <1>7, <1>8, <1>9 DEF Elimination, t
<1> QED BY <1>10
=============================================================================
