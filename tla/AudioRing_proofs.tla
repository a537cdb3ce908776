-------------------------- MODULE AudioRing_proofs --------------------------
(***************************************************************************)
(* The two threads of AudioRing for any number of slots, any period and    *)
(* any width of the positions that is a multiple of the ring: the types,   *)
(* the absence of data races and, step by step, the FIFO of AudioFifo.     *)
(***************************************************************************)
EXTENDS AudioRing, SequenceTheorems, TLAPS

-----------------------------------------------------------------------------
(* Remainders                                                              *)

LEMMA Products ==
  /\ \A a, b, c \in Int : a * (b + c) = a * b + a * c /\ (a + b) * c = a * c + b * c
  /\ \A a, b, c \in Int : (a - b) * c = a * c - b * c
  /\ \A a, b, c \in Int : (a * b) * c = a * (b * c)
  /\ \A a, b \in Int : a * b = b * a /\ a * b \in Int
  OBVIOUS

\* A multiple of n that is less than n away from 0 is 0.
LEMMA SmallMultiple ==
  ASSUME NEW n \in Nat \ {0}, NEW d \in Int, - n < d * n, d * n < n
  PROVE  d = 0
<1>1. CASE d >= 1
  BY <1>1
<1>2. CASE d <= -1
  BY <1>2
<1>3. QED
  BY <1>1, <1>2

LEMMA ModDef ==
  ASSUME NEW n \in Nat \ {0}, NEW a \in Int
  PROVE  a % n \in 0 .. n - 1 /\ \E q \in Int : a = q * n + (a % n)
<1>1. a = n * (a \div n) + (a % n) /\ a \div n \in Int /\ a % n \in 0 .. n - 1
  OBVIOUS
<1>2. n * (a \div n) = (a \div n) * n
  BY <1>1
<1>3. QED
  BY <1>1, <1>2

LEMMA ModIs ==
  ASSUME NEW n \in Nat \ {0}, NEW a \in Int, NEW q \in Int, NEW r \in 0 .. n - 1,
         a = q * n + r
  PROVE  a % n = r
<1>1. PICK p \in Int : a = p * n + (a % n)
  BY ModDef
<1>2. a % n \in 0 .. n - 1
  BY ModDef
<1>3. (q - p) * n = (a % n) - r
  BY <1>1, <1>2, Products
<1>4. q - p = 0
  BY <1>2, <1>3, SmallMultiple
<1>5. QED
  BY <1>2, <1>3, <1>4

\* Whole turns change nothing.
LEMMA ModTurns ==
  ASSUME NEW n \in Nat \ {0}, NEW a \in Int, NEW m \in Int
  PROVE  (a + m * n) % n = a % n
<1>1. PICK p \in Int : a = p * n + (a % n)
  BY ModDef
<1>2. a % n \in 0 .. n - 1 /\ m * n \in Int /\ p * n \in Int
  BY ModDef
<1>3. a + m * n = (p + m) * n + (a % n)
  BY <1>1, <1>2, Products
<1>4. a + m * n \in Int /\ p + m \in Int
  BY <1>2
<1>5. QED
  BY <1>2, <1>3, <1>4, ModIs

\* Less than a turn changes everything.
LEMMA ModApart ==
  ASSUME NEW n \in Nat \ {0}, NEW a \in Int, NEW i \in Int, NEW j \in Int,
         i < j, j < i + n
  PROVE  (a + i) % n # (a + j) % n
<1>0. a + i \in Int /\ a + j \in Int
  OBVIOUS
<1>1. PICK p \in Int : a + i = p * n + ((a + i) % n)
  BY <1>0, ModDef
<1>2. PICK q \in Int : a + j = q * n + ((a + j) % n)
  BY <1>0, ModDef
<1>3. SUFFICES ASSUME (a + i) % n = (a + j) % n PROVE FALSE
  OBVIOUS
<1>4. (q - p) * n = j - i
  <2>1. (a + i) % n \in Int /\ p * n \in Int /\ q * n \in Int
    BY <1>0, ModDef
  <2>2. q * n - p * n = j - i
    BY <1>1, <1>2, <1>3, <2>1
  <2>3. QED
    BY <2>2, Products
<1>5. q - p = 0
  BY <1>4, SmallMultiple
<1>6. QED
  BY <1>4, <1>5

\* What begins at a multiple of p does not run over a multiple of p.
LEMMA ModWhole ==
  ASSUME NEW s \in Nat \ {0}, NEW p \in Nat \ {0}, NEW k \in Int, NEW j \in 0 .. p - 1
  PROVE  /\ ((k * p) % (s * p)) + j = (k * p + j) % (s * p)
         /\ ((k * p) % (s * p)) + j \in 0 .. s * p - 1
<1> DEFINE n == s * p
          r == (k * p) % n
<1>1. n \in Nat \ {0} /\ k * p \in Int
  OBVIOUS
<1> HIDE DEF n
<1>2. r \in 0 .. n - 1
  BY <1>1, ModDef
<1>3. PICK q \in Int : k * p = q * n + r
  BY <1>1, ModDef
<1> USE DEF n
<1>4. r = (k - q * s) * p
  BY <1>2, <1>3, Products
<1>5. k - q * s < s
  <2>1. (s - (k - q * s)) * p > 0
    BY <1>2, <1>4, Products
  <2>2. QED
    BY <2>1
<1>6. r + p <= n
  <2>1. (s - (k - q * s) - 1) * p >= 0
    BY <1>5
  <2>2. QED
    BY <1>4, <2>1, Products
<1>7. r + j \in 0 .. n - 1
  BY <1>2, <1>6
<1>8. k * p + j = q * n + (r + j) /\ k * p + j \in Int
  BY <1>1, <1>2, <1>3
<1> HIDE DEF n, r
<1>9. (k * p + j) % n = r + j
  BY <1>1, <1>7, <1>8, ModIs
<1>10. QED
  BY <1>7, <1>9 DEF n, r

-----------------------------------------------------------------------------
(* The invariant                                                           *)

\* The positions of an open ring; the writer's is at a boundary of a period.
PositionsOK ==
  /\ ringPeriod = 0 => /\ ring = << >> /\ deviceRate = 0
                       /\ writePos = 0 /\ readPos = 0
  /\ ringPeriod # 0 => ring # << >>
  /\ \E k \in Nat : writePos = k * ringPeriod

\* A push in progress has its room, and what it has written is there.
PushOK ==
  \/ emulation = RUNS
  \/ emulation \in [at : {"closing"}, next : {"restart", "reset", "reload"}]
  \/ /\ emulation \in [at : {"pushing"}, half : Half, done : 0 .. ringPeriod]
     /\ ringPeriod # 0 /\ HasRoom
     /\ \A k \in 0 .. emulation.done - 1 :
          ring[Cell(writePos) + k] = [half |-> emulation.half, at |-> k]

\* A callback in progress has an open device, drains from where the reader
\* is, and has copied what the ring holds there.
Copied(c) ==
  /\ c \in [need : 1 .. MaxFrames, frames : Seq(Frame \union {SILENCE, JUNK}),
            silent : SUBSET BOOLEAN, from : 0 .. Wrap - 1, take : 0 .. MaxFrames]
  /\ c.take <= c.need /\ Len(c.frames) <= c.take
  /\ \/ c.silent = {} /\ c.frames = << >>
     \/ c.silent = {TRUE} /\ c.frames = Silence(c.take)
     \/ /\ c.silent = {FALSE}
        /\ \A k \in 1 .. Len(c.frames) : c.frames[k] = ring[Cell(c.from + k - 1)]

CallbackOK ==
  callback # IDLE =>
    /\ deviceRate # 0
    /\ Copied(callback)
    /\ callback.from = readPos
    /\ callback.take <= Avail(writePos, readPos)

RingInv == TypeOK /\ PositionsOK /\ PushOK /\ CallbackOK

-----------------------------------------------------------------------------
(* Positions                                                               *)

LEMMA AvailIs ==
  ASSUME NEW w \in 0 .. Wrap - 1, NEW r \in 0 .. Wrap - 1, NEW d \in 0 .. Wrap - 1,
         NEW z \in Int, w = r + d + z * Wrap
  PROVE  Avail(w, r) = d
<1>1. Wrap \in Nat \ {0} /\ z * Wrap \in Int
  BY AudioAssumption
<1>2. w - r + Wrap = (z + 1) * Wrap + d
  BY <1>1, Products
<1>3. w - r + Wrap \in Int /\ z + 1 \in Int
  BY <1>1
<1>4. QED
  BY <1>1, <1>2, <1>3, ModIs DEF Avail

LEMMA AvailDef ==
  ASSUME NEW w \in 0 .. Wrap - 1, NEW r \in 0 .. Wrap - 1
  PROVE  /\ Avail(w, r) \in 0 .. Wrap - 1
         /\ \E z \in Int : w = r + Avail(w, r) + z * Wrap
<1>1. Wrap \in Nat \ {0} /\ w - r + Wrap \in Int
  BY AudioAssumption
<1>2. PICK q \in Int : w - r + Wrap = q * Wrap + Avail(w, r)
  BY <1>1, ModDef DEF Avail
<1>3. Avail(w, r) \in 0 .. Wrap - 1
  BY <1>1, ModDef DEF Avail
<1>4. w = r + Avail(w, r) + (q - 1) * Wrap
  BY <1>1, <1>2, <1>3, Products
<1>5. QED
  BY <1>3, <1>4

LEMMA LaterDef ==
  ASSUME NEW pos \in 0 .. Wrap - 1, NEW n \in Nat
  PROVE  /\ Later(pos, n) \in 0 .. Wrap - 1
         /\ \E z \in Int : Later(pos, n) = pos + n + z * Wrap
<1>1. Wrap \in Nat \ {0} /\ pos + n \in Int
  BY AudioAssumption
<1>2. PICK q \in Int : pos + n = q * Wrap + Later(pos, n)
  BY <1>1, ModDef DEF Later
<1>3. Later(pos, n) \in 0 .. Wrap - 1
  BY <1>1, ModDef DEF Later
<1>4. Later(pos, n) = pos + n + (- q) * Wrap
  BY <1>1, <1>2, <1>3, Products
<1>5. QED
  BY <1>3, <1>4

\* A later writer makes more available, a later reader less.
LEMMA AvailGrows ==
  ASSUME NEW w \in 0 .. Wrap - 1, NEW r \in 0 .. Wrap - 1, NEW n \in Nat,
         Avail(w, r) + n < Wrap
  PROVE  Avail(Later(w, n), r) = Avail(w, r) + n
<1>1. PICK z \in Int : w = r + Avail(w, r) + z * Wrap
  BY AvailDef
<1>2. PICK y \in Int : Later(w, n) = w + n + y * Wrap
  BY LaterDef
<1>3. Avail(w, r) \in 0 .. Wrap - 1 /\ Later(w, n) \in 0 .. Wrap - 1
  BY AvailDef, LaterDef
<1>4. Later(w, n) = r + (Avail(w, r) + n) + (z + y) * Wrap
  BY <1>1, <1>2, <1>3, Products, AudioAssumption
<1>5. Avail(w, r) + n \in 0 .. Wrap - 1 /\ z + y \in Int
  BY <1>3, AudioAssumption
<1>6. QED
  BY <1>3, <1>4, <1>5, AvailIs

LEMMA AvailShrinks ==
  ASSUME NEW w \in 0 .. Wrap - 1, NEW r \in 0 .. Wrap - 1, NEW n \in Nat,
         n <= Avail(w, r)
  PROVE  Avail(w, Later(r, n)) = Avail(w, r) - n
<1>1. PICK z \in Int : w = r + Avail(w, r) + z * Wrap
  BY AvailDef
<1>2. PICK y \in Int : Later(r, n) = r + n + y * Wrap
  BY LaterDef
<1>3. Avail(w, r) \in 0 .. Wrap - 1 /\ Later(r, n) \in 0 .. Wrap - 1
  BY AvailDef, LaterDef
<1>4. w = Later(r, n) + (Avail(w, r) - n) + (z - y) * Wrap
  BY <1>1, <1>2, <1>3, Products, AudioAssumption
<1>5. Avail(w, r) - n \in 0 .. Wrap - 1 /\ z - y \in Int
  BY <1>3, AudioAssumption
<1>6. QED
  BY <1>3, <1>4, <1>5, AvailIs

-----------------------------------------------------------------------------
(* Cells                                                                   *)

\* The positions wrap at a multiple of the ring, of two rings at least.
LEMMA RingSize ==
  ASSUME TypeOK, ringPeriod # 0
  PROVE  /\ Size \in Nat \ {0} /\ ringPeriod \in 1 .. Size
         /\ \E m \in Nat : Wrap = m * Size
         /\ Size + ringPeriod <= Wrap
<1>1. /\ AUDIO_RING_SLOTS \in Nat \ {0} /\ ringPeriod \in Nat \ {0}
      /\ \E k \in 2 .. Wrap : Wrap = k * Size
  BY AudioAssumption DEF TypeOK, Size
<1>2. Size \in Nat \ {0}
  BY <1>1 DEF Size
<1>3. ringPeriod <= Size
  <2>1. (AUDIO_RING_SLOTS - 1) * ringPeriod >= 0
    BY <1>1
  <2>2. QED
    BY <1>1, <2>1, Products DEF Size
<1>4. PICK m \in 2 .. Wrap : Wrap = m * Size
  BY <1>1
<1>5. m \in Nat /\ (m - 2) * Size >= 0 /\ Wrap \in Nat
  BY <1>2, AudioAssumption
<1> HIDE DEF Size
<1>6. m * Size >= Size + Size
  BY <1>2, <1>5, Products
<1>7. QED
  BY <1>1, <1>2, <1>3, <1>4, <1>5, <1>6

LEMMA CellTurns ==
  ASSUME TypeOK, ringPeriod # 0, NEW a \in Int, NEW z \in Int
  PROVE  Cell(a + z * Wrap) = Cell(a) /\ Cell(a) \in 0 .. Size - 1
<1>1. PICK m \in Nat : Wrap = m * Size
  BY RingSize
<1>2. Size \in Nat \ {0}
  BY RingSize
<1>3. z * Wrap = (z * m) * Size /\ z * m \in Int
  BY <1>1, <1>2, Products
<1>4. QED
  BY <1>2, <1>3, ModTurns, ModDef, ZenonT(60) DEF Cell

\* The cell of the writer and the period that follows it: behind what is
\* available, and inside the ring.
LEMMA WriterCells ==
  ASSUME TypeOK, PositionsOK, ringPeriod # 0, NEW k \in 0 .. ringPeriod - 1
  PROVE  /\ Cell(writePos) + k \in 0 .. Size - 1
         /\ Cell(writePos) + k = Cell(readPos + Avail(writePos, readPos) + k)
<1> DEFINE a == Avail(writePos, readPos)
<1>1. /\ ringPeriod \in Nat \ {0} /\ AUDIO_RING_SLOTS \in Nat \ {0}
      /\ writePos \in 0 .. Wrap - 1 /\ readPos \in 0 .. Wrap - 1
  BY AudioAssumption DEF TypeOK
<1>2. PICK i \in Nat : writePos = i * ringPeriod
  BY DEF PositionsOK
<1>3. /\ Cell(writePos) + k = Cell(writePos + k)
      /\ Cell(writePos) + k \in 0 .. Size - 1
  <2>1. /\ ((i * ringPeriod) % (AUDIO_RING_SLOTS * ringPeriod)) + k
              = (i * ringPeriod + k) % (AUDIO_RING_SLOTS * ringPeriod)
        /\ ((i * ringPeriod) % (AUDIO_RING_SLOTS * ringPeriod)) + k
              \in 0 .. AUDIO_RING_SLOTS * ringPeriod - 1
    <3>1. i \in Int
      OBVIOUS
    <3>2. QED
      BY <1>1, <3>1, ModWhole, Zenon
  <2>2. QED
    BY <1>2, <2>1, Zenon DEF Cell, Size
<1>4. PICK z \in Int : writePos = readPos + a + z * Wrap
  BY <1>1, AvailDef
<1>5. a \in Int /\ z * Wrap \in Int
  BY <1>1, AvailDef, AudioAssumption
<1> HIDE DEF a
<1>6. writePos + k = (readPos + a + k) + z * Wrap /\ readPos + a + k \in Int
  BY <1>1, <1>4, <1>5
<1>7. Cell(writePos + k) = Cell(readPos + a + k)
  BY <1>6, CellTurns
<1>8. QED
  BY <1>3, <1>7 DEF a

\* A push with room writes none of the cells that are available.
LEMMA WriterApart ==
  ASSUME TypeOK, PositionsOK, ringPeriod # 0, HasRoom,
         NEW k \in 0 .. ringPeriod - 1, NEW j \in Int,
         0 <= j, j < Avail(writePos, readPos)
  PROVE  Cell(writePos) + k # Cell(readPos + j)
<1> DEFINE a == Avail(writePos, readPos)
<1>1. /\ ringPeriod \in Nat \ {0} /\ readPos \in Int /\ a \in Nat /\ Size \in Nat \ {0}
      /\ a + ringPeriod <= Size
  <2>1. /\ writePos \in 0 .. Wrap - 1 /\ readPos \in 0 .. Wrap - 1
        /\ ringPeriod \in Nat \ {0} /\ Wrap \in Nat
    BY AudioAssumption DEF TypeOK
  <2>2. a \in 0 .. Wrap - 1
    BY <2>1, AvailDef
  <2>3. a + ringPeriod <= Size
    BY DEF HasRoom
  <2>4. QED
    BY <2>1, <2>2, <2>3, RingSize
<1>2. Cell(writePos) + k = Cell(readPos + (a + k))
  <2>1. readPos + a + k = readPos + (a + k)
    BY <1>1
  <2>2. QED
    BY <2>1, WriterCells
<1>3. j < a + k /\ a + k < j + Size /\ a + k \in Int
  BY <1>1
<1> HIDE DEF a
<1>4. QED
  BY <1>1, <1>2, <1>3, ModApart DEF Cell

-----------------------------------------------------------------------------
(* The invariant is kept                                                   *)

LEMMA SamePositions ==
  ASSUME PositionsOK, UNCHANGED <<host, writePos, readPos>>
  PROVE  PositionsOK'
BY DEF PositionsOK, host

LEMMA SamePush ==
  ASSUME PushOK, UNCHANGED <<host, writePos, readPos, emulation>>
  PROVE  PushOK'
BY DEF PushOK, host, HasRoom, Avail, Cell, Size

LEMMA SameCallback ==
  ASSUME CallbackOK, UNCHANGED <<host, writePos, readPos, callback>>
  PROVE  CallbackOK'
BY DEF CallbackOK, Copied, host, Avail, Cell, Size

LEMMA SameRing ==
  ASSUME TypeOK, UNCHANGED <<host, writePos, readPos>>
  PROVE  /\ (ring \in [0 .. Size - 1 -> Frame \union {JUNK}])'
         /\ (writePos \in 0 .. Wrap - 1)' /\ (readPos \in 0 .. Wrap - 1)'
         /\ (Avail(writePos, readPos) <= Size)'
         /\ deviceRate' \in Rates \union {0} /\ ringPeriod' \in Periods \union {0}
BY DEF TypeOK, host, Avail, Size

\* A closed ring.
LEMMA FreedOK ==
  ASSUME Freed
  PROVE  /\ (ring \in [0 .. Size - 1 -> Frame \union {JUNK}])'
         /\ (writePos \in 0 .. Wrap - 1)' /\ (readPos \in 0 .. Wrap - 1)'
         /\ (Avail(writePos, readPos) <= Size)' /\ PositionsOK'
         /\ deviceRate' \in Rates \union {0} /\ ringPeriod' \in Periods \union {0}
<1>1. Size' = 0 /\ Avail(0, 0) = 0 /\ Wrap \in Nat \ {0}
  <2>1. Wrap \in Nat \ {0} /\ 0 = 0 + 0 + 0 * Wrap
    BY AudioAssumption
  <2>2. Avail(0, 0) = 0
    BY <2>1, AvailIs
  <2>3. QED
    BY <2>1, <2>2, AudioAssumption DEF Freed, Size
<1>2. << >> \in [0 .. -1 -> Frame \union {JUNK}]
  OBVIOUS
<1>3. ring' \in [0 .. Size' - 1 -> Frame \union {JUNK}]
  BY <1>1, <1>2 DEF Freed
<1>4. PositionsOK'
  BY DEF PositionsOK, Freed
<1>5. Avail(writePos', readPos') = 0
  BY <1>1 DEF Freed
<1>6. QED
  BY <1>1, <1>3, <1>4, <1>5 DEF Freed, Avail

\* A ring that has just been allocated.
LEMMA OpenedOK ==
  ASSUME NEW r \in Rates, NEW p \in Periods, Opened(r, p)
  PROVE  /\ (ring \in [0 .. Size - 1 -> Frame \union {JUNK}])'
         /\ (writePos \in 0 .. Wrap - 1)' /\ (readPos \in 0 .. Wrap - 1)'
         /\ (Avail(writePos, readPos) <= Size)' /\ PositionsOK'
         /\ deviceRate' \in Rates \union {0} /\ ringPeriod' \in Periods \union {0}
         /\ ring' # << >>
<1>1. /\ Size' = AUDIO_RING_SLOTS * p /\ Size' \in Nat \ {0}
      /\ p \in Nat \ {0} /\ Wrap \in Nat \ {0}
  BY AudioAssumption DEF Opened, Size
<1>2. Avail(0, 0) = 0
  <2>1. 0 = 0 + 0 + 0 * Wrap
    BY <1>1
  <2>2. QED
    BY <1>1, <2>1, AvailIs
<1>3. ring' = [c \in 0 .. Size' - 1 |-> JUNK]
  BY <1>1 DEF Opened
<1> HIDE DEF Size
<1>4. ring' \in [0 .. Size' - 1 -> Frame \union {JUNK}] /\ ring' # << >>
  <2>1. DOMAIN ring' = 0 .. Size' - 1 /\ 0 \in 0 .. Size' - 1
    BY <1>1, <1>3
  <2>2. ring' # << >>
    <3>1. << >> \in [0 .. -1 -> Frame]
      OBVIOUS
    <3>2. 0 \notin DOMAIN << >>
      BY <3>1
    <3>3. QED
      BY <2>1, <3>2, Zenon
  <2>3. QED
    BY <1>3, <2>2
<1>5. PositionsOK'
  BY <1>1, <1>4 DEF Opened, PositionsOK
<1>6. Avail(writePos', readPos') = 0
  BY <1>2 DEF Opened
<1>7. QED
  BY <1>1, <1>4, <1>5, <1>6 DEF Opened, Avail

LEMMA NotEmpty ==
  ASSUME NEW X, NEW n \in Nat \ {0}, NEW f \in [0 .. n - 1 -> X]
  PROVE  f # << >>
<1>1. << >> \in [0 .. -1 -> X]
  OBVIOUS
<1>2. 0 \in DOMAIN f /\ 0 \notin DOMAIN << >>
  BY <1>1
<1>3. QED
  BY <1>2, Zenon

LEMMA PushBeginStep ==
  ASSUME RingInv, PushBegin
  PROVE  RingInv'
<1>1. TypeOK' /\ PositionsOK' /\ CallbackOK'
  <2>1. UNCHANGED <<title, host, writePos, readPos, muted, callback, output>>
    BY DEF PushBegin
  <2>2. TypeOK'
    BY <2>1 DEF RingInv, TypeOK, title, host, Avail, Size
  <2>3. QED
    BY <2>1, <2>2, SamePositions, SameCallback DEF RingInv
<1>2. ringPeriod \in Nat /\ ringPeriod # 0
  BY AudioAssumption DEF RingInv, TypeOK, PositionsOK, PushBegin
<1>3. PushOK'
  <2>1. emulation' \in [at : {"pushing"}, half : Half, done : 0 .. ringPeriod]
    BY <1>2 DEF PushBegin, Offset, Half
  <2>2. emulation'.done = 0 /\ UNCHANGED <<host, writePos, readPos>>
    BY DEF PushBegin
  <2>3. HasRoom' /\ ringPeriod' = ringPeriod
    BY <2>2 DEF PushBegin, HasRoom, host, Avail, Size
  <2>4. \A k \in 0 .. emulation'.done - 1 : FALSE
    BY <2>2
  <2>5. QED
    BY <1>2, <2>1, <2>3, <2>4 DEF PushOK
<1>4. QED
  BY <1>1, <1>3 DEF RingInv

LEMMA PushFrameStep ==
  ASSUME RingInv, PushFrame
  PROVE  RingInv'
<1> DEFINE c == Cell(writePos) + emulation.done
           f == [half |-> emulation.half, at |-> emulation.done]
<1>1. /\ emulation \in [at : {"pushing"}, half : Half, done : 0 .. ringPeriod]
      /\ ringPeriod # 0 /\ HasRoom
      /\ \A k \in 0 .. emulation.done - 1 :
           ring[Cell(writePos) + k] = [half |-> emulation.half, at |-> k]
  BY DEF RingInv, PushOK, PushFrame, RUNS
<1>2. /\ ring' = [ring EXCEPT ![c] = f]
      /\ emulation' = [emulation EXCEPT !.done = @ + 1]
      /\ UNCHANGED <<title, ringPeriod, deviceRate, writePos, readPos, muted, callback, output>>
      /\ Size' = Size /\ \A p : Cell(p)' = Cell(p)
  BY DEF PushFrame, Size, Cell
<1>3. /\ emulation.done \in 0 .. ringPeriod - 1 /\ ringPeriod \in Nat \ {0}
      /\ Size \in Nat \ {0} /\ ring \in [0 .. Size - 1 -> Frame \union {JUNK}]
      /\ c \in 0 .. Size - 1 /\ f \in Frame
  <2>1. ringPeriod \in Nat \ {0} /\ ring \in [0 .. Size - 1 -> Frame \union {JUNK}]
    BY <1>1, AudioAssumption DEF RingInv, TypeOK
  <2>2. emulation.done \in 0 .. ringPeriod - 1
    BY <1>1, <2>1 DEF PushFrame
  <2>3. c \in 0 .. Size - 1 /\ Size \in Nat \ {0}
    BY <1>1, <2>2, WriterCells, RingSize DEF RingInv
  <2>4. f \in Frame
    BY <1>1, <2>2 DEF Frame
  <2>5. QED
    BY <2>1, <2>2, <2>3, <2>4
<1>4. ring' \in [0 .. Size - 1 -> Frame \union {JUNK}] /\ ring' # << >>
  <2>1. ring' \in [0 .. Size - 1 -> Frame \union {JUNK}]
    BY <1>2, <1>3
  <2>2. QED
    BY <1>3, <2>1, NotEmpty
<1>5. TypeOK'
  BY <1>2, <1>4 DEF RingInv, TypeOK, title, Avail
<1>6. PositionsOK'
  BY <1>1, <1>2, <1>4 DEF RingInv, PositionsOK
<1>7. PushOK'
  <2>1. /\ emulation' \in [at : {"pushing"}, half : Half, done : 0 .. ringPeriod]
        /\ emulation'.half = emulation.half /\ emulation'.done = emulation.done + 1
    BY <1>1, <1>2, <1>3
  <2>2. HasRoom'
    BY <1>1, <1>2 DEF HasRoom, Avail
  <2>3. ASSUME NEW k \in 0 .. emulation'.done - 1
        PROVE  ring'[Cell(writePos) + k] = [half |-> emulation.half, at |-> k]
    <3>1. CASE k = emulation.done
      BY <1>2, <1>3, <3>1
    <3>2. CASE k # emulation.done
      <4>1. k \in 0 .. emulation.done - 1 /\ k \in 0 .. ringPeriod - 1
        BY <1>3, <2>1, <3>2
      <4>2. Cell(writePos) + k \in 0 .. Size - 1 /\ Cell(writePos) + k # c
        <5>1. /\ Cell(writePos) + k \in 0 .. Size - 1
              /\ Cell(writePos) \in 0 .. Size - 1
          <6>1. Cell(writePos) + k \in 0 .. Size - 1
            BY <1>1, <4>1, WriterCells DEF RingInv
          <6>2. writePos \in Int /\ writePos + 0 * Wrap = writePos
            BY AudioAssumption DEF RingInv, TypeOK
          <6>3. Cell(writePos) \in 0 .. Size - 1
            BY <1>1, <6>2, CellTurns DEF RingInv
          <6>4. QED
            BY <6>1, <6>3
        <5>2. QED
          BY <1>3, <3>2, <4>1, <5>1
      <4>3. QED
        BY <1>1, <1>2, <1>3, <4>1, <4>2
    <3>3. QED
      BY <3>1, <3>2
  <2>4. QED
    BY <1>1, <1>2, <2>1, <2>2, <2>3 DEF PushOK
<1>8. CallbackOK'
  <2>1. ASSUME callback # IDLE PROVE Copied(callback)'
    <3>1. /\ Copied(callback) /\ callback.from = readPos
          /\ callback.take <= Avail(writePos, readPos)
      BY <2>1 DEF RingInv, CallbackOK
    <3>2. ASSUME NEW k \in 1 .. Len(callback.frames)
          PROVE  ring'[Cell(callback.from + k - 1)] = ring[Cell(callback.from + k - 1)]
      <4>1. /\ callback.take \in Nat /\ Len(callback.frames) \in Nat
            /\ Len(callback.frames) <= callback.take /\ readPos \in Int
        BY <3>1, AudioAssumption DEF Copied, RingInv, TypeOK
      <4>2. /\ writePos \in 0 .. Wrap - 1 /\ readPos \in 0 .. Wrap - 1
            /\ Wrap \in Nat \ {0}
        BY AudioAssumption DEF RingInv, TypeOK
      <4>3. k - 1 \in Int /\ 0 <= k - 1 /\ k - 1 < Avail(writePos, readPos)
        <5>1. Avail(writePos, readPos) \in Int
          BY <4>2, AvailDef
        <5>2. k - 1 \in Int /\ 0 <= k - 1 /\ k - 1 < callback.take
          BY <4>1
        <5>3. QED
          BY <3>1, <4>1, <5>1, <5>2
      <4>4. c # Cell(readPos + (k - 1))
        BY <1>1, <1>3, <4>3, WriterApart DEF RingInv
      <4>5. /\ Cell(readPos + (k - 1)) \in 0 .. Size - 1
            /\ readPos + (k - 1) = callback.from + k - 1
        <5>1. readPos + (k - 1) \in Int /\ readPos + (k - 1) = callback.from + k - 1
          BY <3>1, <4>1
        <5>2. QED
          BY <1>1, <5>1, CellTurns DEF RingInv
      <4>6. QED
        BY <1>2, <1>3, <4>4, <4>5
    <3>3. QED
      BY <1>2, <3>1, <3>2 DEF Copied
  <2>2. QED
    BY <1>2, <2>1 DEF RingInv, CallbackOK, Avail
<1>9. QED
  BY <1>5, <1>6, <1>7, <1>8 DEF RingInv

LEMMA PushEndStep ==
  ASSUME RingInv, PushEnd
  PROVE  RingInv'
<1> DEFINE a == Avail(writePos, readPos)
<1>1. /\ ringPeriod \in Nat \ {0} /\ HasRoom
      /\ writePos \in 0 .. Wrap - 1 /\ readPos \in 0 .. Wrap - 1 /\ Wrap \in Nat \ {0}
      /\ ringPeriod # 0
  BY AudioAssumption DEF RingInv, TypeOK, PushOK, PushEnd, RUNS
<1>2. /\ writePos' = Later(writePos, ringPeriod) /\ readPos' = readPos
      /\ UNCHANGED <<host, callback>> /\ Size' = Size
  BY DEF PushEnd, host, Size
<1>3. a \in Nat /\ Size \in Nat \ {0} /\ a + ringPeriod <= Size /\ Size + ringPeriod <= Wrap
  BY <1>1, AvailDef, RingSize DEF RingInv, HasRoom
<1>4. writePos' \in 0 .. Wrap - 1 /\ Avail(writePos', readPos') = a + ringPeriod
  <2>1. a + ringPeriod < Wrap
    BY <1>1, <1>3
  <2>2. QED
    BY <1>1, <1>2, <2>1, LaterDef, AvailGrows
<1>5. Avail(writePos, readPos)' = a + ringPeriod
  BY <1>4 DEF Avail
<1> HIDE DEF a
<1>6. TypeOK'
  BY <1>1, <1>2, <1>3, <1>4, <1>5 DEF RingInv, TypeOK, host, PushEnd
<1>7. PositionsOK'
  <2>1. PICK k \in Nat : writePos = k * ringPeriod
    BY DEF RingInv, PositionsOK
  <2>2. PICK m \in Nat : Wrap = m * Size
    BY <1>1, RingSize DEF RingInv
  <2>3. PICK z \in Int : writePos' = writePos + ringPeriod + z * Wrap
    BY <1>1, <1>2, LaterDef
  <2> DEFINE i == k + 1 + z * (m * AUDIO_RING_SLOTS)
  <2>4. i \in Int /\ writePos' = i * ringPeriod
    <3>1. AUDIO_RING_SLOTS \in Nat
      BY AudioAssumption
    <3>2. z * Wrap = (z * (m * AUDIO_RING_SLOTS)) * ringPeriod
      BY <1>1, <2>2, <3>1, Products DEF Size
    <3>3. z * (m * AUDIO_RING_SLOTS) \in Int
      BY <3>1
    <3>4. ASSUME NEW y \in Int
          PROVE  (k + 1 + y) * ringPeriod = k * ringPeriod + ringPeriod + y * ringPeriod
      BY <1>1, Products
    <3>5. i * ringPeriod = writePos + ringPeriod + z * Wrap
      BY <2>1, <3>2, <3>3, <3>4
    <3>6. QED
      BY <2>3, <3>3, <3>5
  <2> HIDE DEF i
  <2>5. i >= 0
    <3>1. CASE i <= -1
      <4>1. (- i - 1) * ringPeriod >= 0
        BY <1>1, <2>4, <3>1
      <4>2. QED
        BY <1>1, <1>4, <2>4, <4>1, Products
    <3>2. QED
      BY <2>4, <3>1
  <2>6. \E j \in Nat : writePos' = j * ringPeriod
    BY <2>4, <2>5
  <2>7. QED
    BY <1>1, <1>2, <2>6 DEF RingInv, PositionsOK, host
<1>8. PushOK'
  BY DEF PushOK, PushEnd
<1>9. CallbackOK'
  <2>1. ASSUME callback # IDLE PROVE CallbackOK'
    <3>1. /\ Copied(callback) /\ callback.from = readPos /\ deviceRate # 0
          /\ callback.take <= a
      BY <2>1 DEF RingInv, CallbackOK, a
    <3>2. Copied(callback)'
      BY <1>2, <3>1 DEF Copied, host, Cell
    <3>3. callback.take <= a + ringPeriod
      BY <1>1, <1>3, <3>1 DEF Copied
    <3>4. QED
      BY <1>2, <1>5, <3>1, <3>2, <3>3 DEF CallbackOK, host
  <2>2. QED
    BY <1>2, <2>1 DEF CallbackOK
<1>10. QED
  BY <1>6, <1>7, <1>8, <1>9 DEF RingInv

\* CloseAudio begins; the rest of it follows the end of a callback.
LEMMA CloseStep ==
  ASSUME RingInv, NEW next \in {"restart", "reset", "reload"}, Close(next), TypeOK'
  PROVE  RingInv'
<1>1. PositionsOK' /\ CallbackOK'
  BY SamePositions, SameCallback DEF RingInv, Close
<1>2. PushOK'
  BY DEF PushOK, Close
<1>3. QED
  BY <1>1, <1>2 DEF RingInv

LEMMA SetStep ==
  ASSUME RingInv, UNCHANGED <<host, writePos, readPos, emulation, callback>>, TypeOK'
  PROVE  RingInv'
BY SamePositions, SamePush, SameCallback DEF RingInv

\* The ring is opened or given back when no callback runs.
LEMMA ReopenStep ==
  ASSUME RingInv, callback' = IDLE, emulation' = RUNS, TypeOK', PositionsOK'
  PROVE  RingInv'
BY DEF RingInv, PushOK, CallbackOK

LEMMA ReopenedOK ==
  ASSUME TypeOK, Reopened
  PROVE  /\ (ring \in [0 .. Size - 1 -> Frame \union {JUNK}])'
         /\ (writePos \in 0 .. Wrap - 1)' /\ (readPos \in 0 .. Wrap - 1)'
         /\ (Avail(writePos, readPos) <= Size)' /\ PositionsOK'
         /\ deviceRate' \in Rates \union {0} /\ ringPeriod' \in Periods \union {0}
<1>1. CASE rate = 0 \/ period = 0
  BY <1>1, FreedOK DEF Reopened
<1>2. CASE rate # 0 /\ period # 0
  <2>1. rate \in Rates /\ period \in Periods /\ Opened(rate, period)
    BY <1>2 DEF TypeOK, Reopened
  <2>2. QED
    BY <2>1, OpenedOK
<1>3. QED
  BY <1>1, <1>2

LEMMA RestartAudioStep ==
  ASSUME RingInv, RestartAudio
  PROVE  RingInv'
<1>1. TypeOK /\ Reopened /\ UNCHANGED title /\ callback' = IDLE /\ emulation' = RUNS
  BY DEF RingInv, RestartAudio, Joined
<1>2. muted' \in BOOLEAN
  BY DEF RingInv, TypeOK, RestartAudio, Unmuted
<1>3. TypeOK'
  BY <1>1, <1>2, ReopenedOK DEF TypeOK, title
<1>4. QED
  BY <1>1, <1>3, ReopenedOK, ReopenStep

LEMMA AudioWasResetStep ==
  ASSUME RingInv, AudioWasReset
  PROVE  RingInv'
<1>1. TypeOK /\ Reopened /\ callback' = IDLE /\ emulation' = RUNS
  BY DEF RingInv, AudioWasReset, Joined
<1>2. TypeOK'
  BY <1>1, ReopenedOK DEF TypeOK, AudioWasReset
<1>3. QED
  BY <1>1, <1>2, ReopenedOK, ReopenStep

LEMMA ReloadedStep ==
  ASSUME RingInv, Reloaded
  PROVE  RingInv'
<1>1. TypeOK /\ Freed /\ callback' = IDLE /\ emulation' = RUNS
  BY DEF RingInv, Reloaded, Joined
<1>2. TypeOK'
  BY <1>1, FreedOK DEF TypeOK, Reloaded
<1>3. QED
  BY <1>1, <1>2, FreedOK, ReopenStep

LEMMA AudioSetSampleRateStep ==
  ASSUME RingInv, AudioSetSampleRate
  PROVE  RingInv'
<1>1. PICK r \in Rates :
        /\ rate' = r
        /\ \/ /\ deviceRate = 0 /\ period # 0
              /\ Opened(r, period) /\ Unmuted
              /\ UNCHANGED <<emulation, callback, output>>
           \/ /\ deviceRate \notin {0, r}
              /\ Close("restart")
           \/ /\ deviceRate = r \/ (deviceRate = 0 /\ period = 0)
              /\ UNCHANGED <<host, writePos, readPos, muted, emulation, callback, output>>
  BY DEF AudioSetSampleRate
<1>2. UNCHANGED <<mode, oldMode, dma, period, interrupt>> /\ TypeOK /\ emulation = RUNS
  BY DEF AudioSetSampleRate, RingInv, Runs
<1>3. CASE /\ deviceRate = 0 /\ period # 0
           /\ Opened(r, period) /\ Unmuted
           /\ UNCHANGED <<emulation, callback, output>>
  <2>1. period \in Periods
    BY <1>2, <1>3 DEF TypeOK
  <2>2. callback' = IDLE /\ emulation' = RUNS
    BY <1>2, <1>3 DEF RingInv, CallbackOK
  <2>3. muted' \in BOOLEAN
    BY <1>2, <1>3 DEF TypeOK, Unmuted
  <2>4. TypeOK'
    BY <1>1, <1>2, <1>3, <2>1, <2>3, OpenedOK DEF TypeOK
  <2>5. PositionsOK'
    BY <1>3, <2>1, OpenedOK
  <2>6. QED
    BY <2>2, <2>4, <2>5, ReopenStep
<1>4. CASE deviceRate \notin {0, r} /\ Close("restart")
  <2>1. TypeOK'
    BY <1>1, <1>2, <1>4, SameRing DEF TypeOK, Close
  <2>2. QED
    BY <1>4, <2>1, CloseStep
<1>5. CASE /\ deviceRate = r \/ (deviceRate = 0 /\ period = 0)
           /\ UNCHANGED <<host, writePos, readPos, muted, emulation, callback, output>>
  <2>1. TypeOK'
    BY <1>1, <1>2, <1>5, SameRing DEF TypeOK
  <2>2. QED
    BY <1>5, <2>1, SetStep
<1>6. QED
  BY <1>1, <1>3, <1>4, <1>5

LEMMA CallsStep ==
  ASSUME RingInv, Calls
  PROVE  RingInv'
<1>1. CASE AudioSetSampleRate
  BY <1>1, AudioSetSampleRateStep
<1>2. CASE AudioSetChannelMode
  <2>1. TypeOK'
    BY <1>2, SameRing, AudioAssumption DEF RingInv, TypeOK, AudioSetChannelMode, Close
  <2>2. QED
    BY <1>2, <2>1, CloseStep DEF AudioSetChannelMode
<1>3. CASE AudioReset \/ ResetForReload
  <2>1. TypeOK'
    BY <1>3, SameRing DEF RingInv, TypeOK, AudioReset, ResetForReload, Close, title
  <2>2. QED
    BY <1>3, <2>1, CloseStep DEF AudioReset, ResetForReload
<1>4. CASE Arm \/ AudioSetDMABuffer \/ AudioMute \/ Acknowledge
  <2>1. Sets /\ mode' \in SUBSET Bit /\ dma' \in BOOLEAN /\ muted' \in BOOLEAN
             /\ interrupt' \in BOOLEAN
    BY <1>4, AudioAssumption
    DEF RingInv, TypeOK, Arm, AudioSetDMABuffer, AudioMute, Acknowledge
  <2>2. TypeOK'
    BY <2>1, SameRing DEF RingInv, TypeOK, Sets
  <2>3. QED
    BY <2>1, <2>2, SetStep DEF Sets
<1>5. QED
  BY <1>1, <1>2, <1>3, <1>4 DEF Calls

-----------------------------------------------------------------------------
(* The audio thread                                                        *)

LEMMA CallbackBeginStep ==
  ASSUME RingInv, CallbackBegin
  PROVE  RingInv'
<1> DEFINE a == Avail(writePos, readPos)
<1>1. /\ UNCHANGED <<title, host, writePos, readPos, muted, emulation>>
      /\ callback = IDLE /\ deviceRate # 0
  BY DEF CallbackBegin, Drains
<1>2. PICK need \in 1 .. MaxFrames :
        callback' = [need |-> need, frames |-> << >>, silent |-> {}, from |-> readPos,
                     take |-> IF need < a THEN need ELSE a]
  BY DEF CallbackBegin
<1>3. TypeOK'
  BY <1>1, SameRing DEF RingInv, TypeOK, title
<1>4. PositionsOK' /\ PushOK'
  BY <1>1, SamePositions, SamePush DEF RingInv
<1>5. a \in Nat /\ readPos \in 0 .. Wrap - 1 /\ MaxFrames \in Nat
  BY AvailDef, AudioAssumption DEF RingInv, TypeOK
<1>6. Avail(writePos, readPos)' = a
  BY <1>1 DEF Avail
<1> HIDE DEF a
<1> DEFINE t == IF need < a THEN need ELSE a
<1>7. t \in 0 .. MaxFrames /\ t <= need /\ t <= a
  BY <1>5
<1>8. /\ callback'.need = need /\ callback'.frames = << >> /\ callback'.silent = {}
      /\ callback'.from = readPos /\ callback'.take = t
      /\ callback' \in [need : 1 .. MaxFrames, frames : Seq(Frame \union {SILENCE, JUNK}),
            silent : SUBSET BOOLEAN, from : 0 .. Wrap - 1, take : 0 .. MaxFrames]
  BY <1>2, <1>5, <1>7
<1> HIDE DEF t
<1>9. Copied(callback)'
  BY <1>7, <1>8 DEF Copied
<1>10. CallbackOK'
  BY <1>1, <1>6, <1>7, <1>8, <1>9 DEF CallbackOK, host
<1>11. QED
  BY <1>3, <1>4, <1>10 DEF RingInv

LEMMA SilenceType ==
  ASSUME NEW n \in Nat
  PROVE  Silence(n) \in Seq(Frame \union {SILENCE, JUNK}) /\ Len(Silence(n)) = n
BY DEF Silence

LEMMA CallbackMuteStep ==
  ASSUME RingInv, CallbackMute
  PROVE  RingInv'
<1>1. /\ UNCHANGED <<title, host, writePos, readPos, muted, emulation>>
      /\ callback # IDLE /\ callback.silent = {}
  BY DEF CallbackMute, Drains
<1>2. /\ Copied(callback) /\ deviceRate # 0 /\ callback.from = readPos
      /\ callback.take <= Avail(writePos, readPos)
  BY <1>1 DEF RingInv, CallbackOK
<1>3. TypeOK' /\ PositionsOK' /\ PushOK' /\ muted \in BOOLEAN
  BY <1>1, SameRing, SamePositions, SamePush DEF RingInv, TypeOK, title
<1> DEFINE s == IF muted THEN Silence(callback.take) ELSE callback.frames
<1>4. /\ s \in Seq(Frame \union {SILENCE, JUNK}) /\ Len(s) <= callback.take
      /\ muted = TRUE => s = Silence(callback.take)
      /\ muted = FALSE => s = << >>
  <2>1. callback.take \in Nat /\ callback.frames = << >>
    <3>1. callback.take \in Nat
      BY <1>2, AudioAssumption DEF Copied
    <3>2. callback.frames = << >>
      <4>1. TRUE \notin callback.silent /\ FALSE \notin callback.silent
        BY <1>1
      <4>2. callback.silent # {TRUE} /\ callback.silent # {FALSE}
        BY <4>1
      <4>3. QED
        BY <1>2, <4>2 DEF Copied
    <3>3. QED
      BY <3>1, <3>2
  <2>2. /\ Silence(callback.take) \in Seq(Frame \union {SILENCE, JUNK})
        /\ Len(Silence(callback.take)) = callback.take
    BY <2>1, SilenceType
  <2>3. CASE muted = TRUE
    BY <2>1, <2>2, <2>3
  <2>4. CASE muted = FALSE
    BY <2>1, <2>4
  <2>5. QED
    BY <1>3, <2>3, <2>4
<1>5. callback' = [callback EXCEPT !.silent = {muted}, !.frames = s]
  BY DEF CallbackMute
<1> HIDE DEF s
<1>6. /\ callback'.need = callback.need /\ callback'.frames = s
      /\ callback'.silent = {muted}
      /\ callback'.from = callback.from /\ callback'.take = callback.take
      /\ callback' \in [need : 1 .. MaxFrames, frames : Seq(Frame \union {SILENCE, JUNK}),
            silent : SUBSET BOOLEAN, from : 0 .. Wrap - 1, take : 0 .. MaxFrames]
  BY <1>2, <1>3, <1>4, <1>5 DEF Copied
<1>7. Copied(callback)'
  <2>1. CASE muted = TRUE
    BY <1>2, <1>4, <1>6, <2>1 DEF Copied, Silence
  <2>2. CASE muted = FALSE
    <3>1. Len(s) = 0 /\ \A k \in 1 .. 0 : FALSE
      BY <1>4, <2>2
    <3>2. QED
      BY <1>2, <1>4, <1>6, <2>2, <3>1 DEF Copied
  <2>3. QED
    BY <1>3, <2>1, <2>2
<1>8. CallbackOK'
  BY <1>1, <1>2, <1>6, <1>7 DEF CallbackOK, host, Avail
<1>9. QED
  BY <1>3, <1>8 DEF RingInv

LEMMA CallbackFrameStep ==
  ASSUME RingInv, CallbackFrame
  PROVE  RingInv'
<1>1. /\ UNCHANGED <<title, host, writePos, readPos, muted, emulation>>
      /\ callback # IDLE /\ callback.silent = {FALSE}
      /\ Len(callback.frames) < callback.take
  BY DEF CallbackFrame, Drains
<1>2. /\ Copied(callback) /\ deviceRate # 0 /\ callback.from = readPos
      /\ callback.take <= Avail(writePos, readPos)
  BY <1>1 DEF RingInv, CallbackOK
<1>3. TypeOK' /\ PositionsOK' /\ PushOK' /\ ringPeriod # 0
  BY <1>1, <1>2, SameRing, SamePositions, SamePush DEF RingInv, TypeOK, title, PositionsOK
<1> DEFINE n == Len(callback.frames)
           x == ring[Cell(callback.from + n)]
<1>4. x \in Frame \union {SILENCE, JUNK}
  <2>1. n \in Nat /\ callback.from \in Int /\ callback.from + n \in Int
    BY <1>2, AudioAssumption DEF Copied
  <2>2. Cell(callback.from + n) \in 0 .. Size - 1
    BY <1>3, <2>1, CellTurns DEF RingInv
  <2>3. QED
    BY <2>2 DEF RingInv, TypeOK
<1>5. callback' = [callback EXCEPT !.frames = Append(@, x)]
  BY DEF CallbackFrame
<1>6. \A k \in 1 .. n + 1 :
        Append(callback.frames, x)[k] = ring[Cell(callback.from + k - 1)]
  <2>1. ASSUME NEW k \in 1 .. n + 1, k = n + 1
        PROVE  callback.from + k - 1 = callback.from + n
    BY <1>2, <2>1, AudioAssumption DEF Copied
  <2>2. \A k \in 1 .. n : callback.frames[k] = ring[Cell(callback.from + k - 1)]
    BY <1>1, <1>2 DEF Copied
  <2>3. callback.frames \in Seq(Frame \union {SILENCE, JUNK}) /\ n \in Nat
    BY <1>2 DEF Copied
  <2> HIDE DEF x
  <2>4. ASSUME NEW k \in 1 .. n + 1
        PROVE  Append(callback.frames, x)[k] = IF k = n + 1 THEN x ELSE callback.frames[k]
    BY <2>3
  <2>5. ASSUME NEW k \in 1 .. n + 1, k # n + 1 PROVE k \in 1 .. n
    BY <2>3, <2>5
  <2>6. QED
    BY <2>1, <2>2, <2>4, <2>5 DEF x
<1> HIDE DEF x
<1>7. /\ Append(callback.frames, x) \in Seq(Frame \union {SILENCE, JUNK})
      /\ Len(Append(callback.frames, x)) = n + 1 /\ n + 1 <= callback.take
  BY <1>1, <1>2, <1>4, AudioAssumption DEF Copied
<1>8. /\ callback'.need = callback.need /\ callback'.frames = Append(callback.frames, x)
      /\ callback'.silent = callback.silent
      /\ callback'.from = callback.from /\ callback'.take = callback.take
      /\ callback' \in [need : 1 .. MaxFrames, frames : Seq(Frame \union {SILENCE, JUNK}),
            silent : SUBSET BOOLEAN, from : 0 .. Wrap - 1, take : 0 .. MaxFrames]
  BY <1>2, <1>5, <1>7 DEF Copied
<1>9. Copied(callback)'
  BY <1>1, <1>2, <1>6, <1>7, <1>8 DEF Copied, host, Cell, Size
<1>10. CallbackOK'
  BY <1>1, <1>2, <1>8, <1>9 DEF CallbackOK, host, Avail
<1>11. QED
  BY <1>3, <1>10 DEF RingInv

LEMMA CallbackEndStep ==
  ASSUME RingInv, CallbackEnd
  PROVE  /\ RingInv'
         /\ Avail(writePos, readPos)' = Avail(writePos, readPos) - callback.take
<1>1. /\ UNCHANGED <<title, host, writePos, muted, emulation>>
      /\ callback # IDLE /\ callback' = IDLE /\ readPos' = Later(callback.from, callback.take)
  BY DEF CallbackEnd, Drains, Drained
<1>2. /\ Copied(callback) /\ deviceRate # 0 /\ callback.from = readPos
      /\ callback.take <= Avail(writePos, readPos) /\ ringPeriod # 0
  BY <1>1 DEF RingInv, CallbackOK, PositionsOK
<1>3. /\ writePos \in 0 .. Wrap - 1 /\ readPos \in 0 .. Wrap - 1 /\ callback.take \in Nat
      /\ ringPeriod \in Nat
  BY <1>2, AudioAssumption DEF RingInv, TypeOK, Copied
<1>4. /\ readPos' \in 0 .. Wrap - 1
      /\ Avail(writePos, readPos') = Avail(writePos, readPos) - callback.take
      /\ Avail(writePos, readPos) \in Nat
  <2>1. readPos' = Later(readPos, callback.take)
    BY <1>1, <1>2
  <2>2. readPos' \in 0 .. Wrap - 1
    BY <1>3, <2>1, LaterDef
  <2>3. Avail(writePos, readPos') = Avail(writePos, readPos) - callback.take
    BY <1>2, <1>3, <2>1, AvailShrinks
  <2>4. Avail(writePos, readPos) \in 0 .. Wrap - 1
    BY <1>3, AvailDef
  <2>5. QED
    BY <2>2, <2>3, <2>4, AudioAssumption
<1>5. Avail(writePos, readPos)' = Avail(writePos, readPos) - callback.take
  BY <1>1, <1>4 DEF Avail
<1>6. Size' = Size /\ Size \in Nat
  BY <1>1, <1>2, RingSize DEF host, Size, RingInv
<1>7. TypeOK'
  BY <1>1, <1>3, <1>4, <1>5, <1>6 DEF RingInv, TypeOK, title, host
<1>8. PositionsOK'
  BY <1>1, <1>2 DEF RingInv, PositionsOK, host
<1>9. HasRoom => HasRoom'
  BY <1>1, <1>3, <1>4, <1>5, <1>6 DEF HasRoom, host
<1>10. PushOK'
  BY <1>1, <1>6, <1>9 DEF RingInv, PushOK, host, Cell
<1>11. QED
  BY <1>1, <1>5, <1>7, <1>8, <1>10 DEF RingInv, CallbackOK

-----------------------------------------------------------------------------
(* The theorems                                                            *)

LEMMA InitOK == Init => RingInv
<1> SUFFICES ASSUME Init PROVE RingInv
  OBVIOUS
<1>1. Size = 0 /\ Wrap \in Nat \ {0}
  BY AudioAssumption DEF Init, Size
<1>2. Avail(0, 0) = 0
  <2>1. 0 = 0 + 0 + 0 * Wrap
    BY <1>1
  <2>2. QED
    BY <1>1, <2>1, AvailIs
<1>3. ring \in [0 .. Size - 1 -> Frame \union {JUNK}]
  <2>1. << >> \in [0 .. -1 -> Frame \union {JUNK}]
    OBVIOUS
  <2>2. QED
    BY <1>1, <2>1 DEF Init
<1>4. TypeOK
  <2>1. writePos = 0 /\ readPos = 0
    BY DEF Init
  <2>2. Avail(writePos, readPos) <= Size
    BY <1>1, <1>2, <2>1
  <2>3. writePos \in 0 .. Wrap - 1 /\ readPos \in 0 .. Wrap - 1
    BY <1>1, <2>1
  <2>4. /\ mode \in SUBSET Bit /\ oldMode \in SUBSET Bit
        /\ dma \in BOOLEAN /\ muted \in BOOLEAN /\ interrupt \in BOOLEAN
        /\ rate \in Rates \union {0} /\ deviceRate \in Rates \union {0}
        /\ period \in Periods \union {0} /\ ringPeriod \in Periods \union {0}
    BY DEF Init
  <2>5. QED
    BY <1>3, <2>2, <2>3, <2>4 DEF TypeOK
<1>5. PositionsOK /\ PushOK /\ CallbackOK
  BY DEF Init, PositionsOK, PushOK, CallbackOK
<1>6. QED
  BY <1>4, <1>5 DEF RingInv

LEMMA StepOK ==
  ASSUME RingInv, [Next]_vars
  PROVE  RingInv'
<1>1. CASE Push
  BY <1>1, PushBeginStep, PushFrameStep, PushEndStep DEF Push
<1>2. CASE Callback
  BY <1>2, CallbackBeginStep, CallbackMuteStep, CallbackFrameStep, CallbackEndStep DEF Callback
<1>3. CASE Calls
  BY <1>3, CallsStep
<1>4. CASE RestartAudio \/ AudioWasReset \/ Reloaded
  BY <1>4, RestartAudioStep, AudioWasResetStep, ReloadedStep
<1>5. CASE UNCHANGED vars
  <2>1. TypeOK'
    BY <1>5, SameRing DEF RingInv, TypeOK, vars, title
  <2>2. QED
    BY <1>5, <2>1, SetStep DEF vars
<1>6. QED
  BY <1>1, <1>2, <1>3, <1>4, <1>5 DEF Next

LEMMA Invariant == Spec => []RingInv
<1>1. QED
  BY InitOK, StepOK, PTL DEF Spec

\* The words of both threads keep their types, and the ring never holds
\* more than its size: for any number of slots, any period and any width of
\* the positions.
THEOREM TypeCorrect == Spec => []TypeOK
<1>1. RingInv => TypeOK
  BY DEF RingInv
<1>2. QED
  BY <1>1, Invariant, PTL

\* The cells a callback reads are available, those of a push are not.
LEMMA ApartOK ==
  ASSUME RingInv
  PROVE  NoDataRace
<1>1. ASSUME NEW x \in PushCells
      PROVE  /\ x \in 0 .. Size - 1 /\ ringPeriod # 0
             /\ HasRoom /\ \E k \in 0 .. ringPeriod - 1 : x = Cell(writePos) + k
  <2>1. emulation.at = "pushing"
    BY <1>1 DEF PushCells
  <2>2. PICK k \in emulation.done .. ringPeriod - 1 : x = Cell(writePos) + k
    BY <1>1, <2>1 DEF PushCells
  <2>3. /\ emulation.done \in 0 .. ringPeriod /\ ringPeriod # 0 /\ HasRoom
        /\ ringPeriod \in Nat
    BY <2>1, AudioAssumption DEF RingInv, PushOK, RUNS, TypeOK
  <2>4. k \in 0 .. ringPeriod - 1
    BY <2>3
  <2>5. QED
    BY <2>2, <2>3, <2>4, WriterCells DEF RingInv
<1>2. ASSUME NEW x \in CallbackCells
      PROVE  /\ x \in 0 .. Size - 1
             /\ \E j \in Int : 0 <= j /\ j < Avail(writePos, readPos) /\ x = Cell(readPos + j)
  <2>1. callback # IDLE /\ callback.silent # {TRUE}
    BY <1>2 DEF CallbackCells
  <2>2. PICK k \in Len(callback.frames) .. callback.take - 1 : x = Cell(callback.from + k)
    BY <1>2, <2>1 DEF CallbackCells
  <2>3. /\ Copied(callback) /\ callback.from = readPos /\ ringPeriod # 0
        /\ callback.take <= Avail(writePos, readPos)
    BY <2>1 DEF RingInv, CallbackOK, PositionsOK
  <2>4. /\ Len(callback.frames) \in Nat /\ callback.take \in Nat
        /\ readPos \in 0 .. Wrap - 1 /\ writePos \in 0 .. Wrap - 1
    BY <2>3, AudioAssumption DEF Copied, RingInv, TypeOK
  <2>5. Avail(writePos, readPos) \in 0 .. Wrap - 1
    BY <2>4, AvailDef
  <2>6. k \in Int /\ 0 <= k /\ k < Avail(writePos, readPos) /\ readPos + k \in Int
    BY <2>3, <2>4, <2>5, AudioAssumption
  <2>7. x \in 0 .. Size - 1
    BY <2>2, <2>3, <2>6, CellTurns DEF RingInv
  <2>8. QED
    BY <2>2, <2>3, <2>6, <2>7
<1>3. PushCells \intersect CallbackCells = {}
  BY <1>1, <1>2, WriterApart DEF RingInv
<1>4. DOMAIN ring = 0 .. Size - 1
  BY DEF RingInv, TypeOK
<1>5. callback # IDLE => ring # << >>
  BY DEF RingInv, CallbackOK, PositionsOK
<1>6. QED
  BY <1>1, <1>2, <1>3, <1>4, <1>5 DEF NoDataRace

\* The emulation thread and the audio thread never touch the same cell, and
\* CloseAudio frees no ring under a callback: for any number of slots, any
\* period and any width of the positions.
THEOREM NoRace == Spec => []NoDataRace
<1>1. QED
  BY ApartOK, Invariant, PTL

-----------------------------------------------------------------------------
(* The refinement                                                          *)

LEMMA Concatenated ==
  ASSUME NEW S, NEW s \in Seq(S), NEW t \in Seq(S), NEW u \in Seq(S),
         Len(u) = Len(s) + Len(t),
         \A i \in 1 .. Len(s) : u[i] = s[i],
         \A i \in 1 .. Len(t) : u[Len(s) + i] = t[i]
  PROVE  u = s \o t
<1>1. /\ s \o t \in Seq(S) /\ Len(s \o t) = Len(s) + Len(t)
      /\ \A i \in 1 .. Len(s) + Len(t) :
           (s \o t)[i] = IF i <= Len(s) THEN s[i] ELSE t[i - Len(s)]
  BY ConcatProperties
<1>2. ASSUME NEW i \in 1 .. Len(u) PROVE u[i] = (s \o t)[i]
  <2>1. Len(s) \in Nat /\ Len(t) \in Nat
    OBVIOUS
  <2>2. CASE i <= Len(s)
    BY <1>1, <2>1, <2>2
  <2>3. CASE i > Len(s)
    <3>1. i - Len(s) \in 1 .. Len(t) /\ Len(s) + (i - Len(s)) = i
      BY <2>1, <2>3
    <3>2. u[i] = t[i - Len(s)]
      BY <3>1
    <3>3. QED
      BY <1>1, <2>1, <2>3, <3>2
  <2>4. QED
    BY <2>1, <2>2, <2>3
<1>3. QED
  BY <1>1, <1>2, SeqEqual

\* What the ring holds: the queue of AudioFifo.
Queue == [k \in 1 .. Avail(writePos, readPos) |-> ring[Cell(readPos + k - 1)]]

LEMMA FifoState == Fifo!fvars = <<Size, Queue, output>>
BY DEF Fifo!fvars, Queue

QueueOK ==
  /\ Queue \in Seq(Frame \union {JUNK}) /\ Len(Queue) = Avail(writePos, readPos)
  /\ Avail(writePos, readPos) \in Nat /\ Size \in Nat
  /\ \A k \in 1 .. Len(Queue) : Queue[k] = ring[Cell(readPos + k - 1)]

LEMMA QueueType ==
  ASSUME RingInv
  PROVE  QueueOK
<1> DEFINE a == Avail(writePos, readPos)
<1>1. /\ writePos \in 0 .. Wrap - 1 /\ readPos \in 0 .. Wrap - 1
      /\ AUDIO_RING_SLOTS \in Nat /\ ringPeriod \in Nat /\ Wrap \in Nat
      /\ ring \in [0 .. Size - 1 -> Frame \union {JUNK}]
  BY AudioAssumption DEF RingInv, TypeOK
<1>2. a \in 0 .. Wrap - 1
  BY <1>1, AvailDef
<1>3. a \in Nat /\ Size \in Nat
  BY <1>1, <1>2 DEF Size
<1>4. ASSUME NEW k \in 1 .. a PROVE ring[Cell(readPos + k - 1)] \in Frame \union {JUNK}
  <2>1. ringPeriod # 0
    <3>1. SUFFICES ASSUME ringPeriod = 0 PROVE a = 0
      BY <1>3
    <3>2. a <= Size /\ Size = 0
      BY <1>1, <3>1 DEF RingInv, TypeOK, Size
    <3>3. QED
      BY <1>3, <3>2
  <2>2. readPos + k - 1 \in Int
    BY <1>1, <1>3
  <2>3. Cell(readPos + k - 1) \in 0 .. Size - 1
    BY <2>1, <2>2, CellTurns DEF RingInv
  <2>4. QED
    BY <1>1, <2>3
<1> HIDE DEF a
<1>5. Queue = [k \in 1 .. a |-> ring[Cell(readPos + k - 1)]]
  BY DEF Queue, a
<1>6. Queue \in Seq(Frame \union {JUNK}) /\ Len(Queue) = a
  BY <1>3, <1>4, <1>5
<1>7. QED
  BY <1>3, <1>5, <1>6 DEF a, QueueOK

LEMMA QueueTypeNext == RingInv' => QueueOK'
<1>1. RingInv => QueueOK
  BY QueueType
<1>2. QED
  BY <1>1, PTL

LEMMA QueueSame ==
  ASSUME RingInv, RingInv', Size' = Size, readPos' = readPos,
         Avail(writePos, readPos)' = Avail(writePos, readPos),
         \A k \in 1 .. Avail(writePos, readPos) :
           ring'[Cell(readPos + k - 1)] = ring[Cell(readPos + k - 1)]
  PROVE  Queue' = Queue
<1>1. \A p : Cell(p)' = Cell(p)
  BY DEF Cell
<1>2. QED
  BY <1>1 DEF Queue

\* Opening and closing drop the queue.
LEMMA OpenStep ==
  ASSUME RingInv', writePos' = 0, readPos' = 0, UNCHANGED output
  PROVE  Fifo!FifoNext
<1>1. Avail(writePos, readPos)' = 0
  <2>1. Wrap \in Nat \ {0} /\ 0 = 0 + 0 + 0 * Wrap
    BY AudioAssumption
  <2>2. Avail(0, 0) = 0
    BY <2>1, AvailIs
  <2>3. QED
    BY <2>2 DEF Avail
<1>2. Queue' = << >>
  BY <1>1 DEF Queue
<1>3. Size' \in Nat
  BY QueueTypeNext DEF QueueOK
<1>4. Fifo!Open
  BY <1>2, <1>3 DEF Fifo!Open, Queue
<1>5. QED
  BY <1>4 DEF Fifo!FifoNext

\* A push goes in as a whole when its position is stored.
LEMMA PushIn ==
  ASSUME RingInv, RingInv', PushEnd
  PROVE  Fifo!FifoNext
<1> DEFINE a == Avail(writePos, readPos)
           h == emulation.half
           p == [k \in 1 .. ringPeriod |-> [half |-> h, at |-> k - 1]]
<1>1. /\ ringPeriod \in Nat \ {0} /\ HasRoom /\ h \in Half
      /\ emulation.done = ringPeriod
      /\ \A k \in 0 .. ringPeriod - 1 : ring[Cell(writePos) + k] = [half |-> h, at |-> k]
      /\ writePos \in 0 .. Wrap - 1 /\ readPos \in 0 .. Wrap - 1 /\ ringPeriod # 0
  BY AudioAssumption DEF RingInv, TypeOK, PushOK, PushEnd, RUNS
<1>2. /\ writePos' = Later(writePos, ringPeriod) /\ readPos' = readPos
      /\ UNCHANGED <<ring, ringPeriod, output>> /\ Size' = Size /\ \A x : Cell(x)' = Cell(x)
  BY DEF PushEnd, host, Size, Cell
<1>3. /\ Queue \in Seq(Frame \union {JUNK}) /\ Len(Queue) = a /\ a \in Nat
      /\ \A k \in 1 .. a : Queue[k] = ring[Cell(readPos + k - 1)]
  BY QueueType DEF QueueOK
<1>4. Avail(writePos, readPos)' = a + ringPeriod
  <2>1. a + ringPeriod <= Size /\ Size + ringPeriod <= Wrap /\ Size \in Nat /\ Wrap \in Nat
    BY <1>1, RingSize, AudioAssumption DEF RingInv, HasRoom
  <2>2. a + ringPeriod < Wrap
    BY <1>1, <1>3, <2>1
  <2>3. Avail(Later(writePos, ringPeriod), readPos) = a + ringPeriod
    BY <1>1, <2>2, AvailGrows
  <2>4. QED
    BY <1>2, <2>3 DEF Avail
<1>5. /\ Queue' \in Seq(Frame \union {JUNK}) /\ Len(Queue') = a + ringPeriod
      /\ \A k \in 1 .. a + ringPeriod : Queue'[k] = ring[Cell(readPos + k - 1)]
  <2>1. /\ Queue' \in Seq(Frame \union {JUNK}) /\ Len(Queue') = Avail(writePos, readPos)'
        /\ \A k \in 1 .. Len(Queue') : Queue'[k] = ring'[(Cell(readPos + k - 1))']
    BY QueueTypeNext DEF QueueOK
  <2>2. ASSUME NEW k \in Int PROVE (Cell(readPos + k - 1))' = Cell(readPos + k - 1)
    BY <1>2 DEF Cell
  <2>3. QED
    BY <1>1, <1>2, <1>3, <1>4, <2>1, <2>2
<1>6. ASSUME NEW k \in 1 .. ringPeriod
      PROVE  Queue'[a + k] = [half |-> h, at |-> k - 1]
  <2>1. k - 1 \in 0 .. ringPeriod - 1 /\ a + k \in 1 .. a + ringPeriod
    BY <1>1, <1>3
  <2>2. Cell(writePos) + (k - 1) = Cell(readPos + a + (k - 1))
    BY <1>1, <2>1, WriterCells DEF RingInv
  <2>3. readPos + a + (k - 1) = readPos + (a + k) - 1
    BY <1>1, <1>3
  <2>4. QED
    BY <1>1, <1>5, <2>1, <2>2, <2>3, SMTT(30)
<1>7. p \in Seq(Frame \union {JUNK}) /\ Len(p) = ringPeriod
      /\ \A k \in 1 .. ringPeriod : p[k] = [half |-> h, at |-> k - 1]
  <2>1. \A k \in 1 .. ringPeriod : [half |-> h, at |-> k - 1] \in Frame \union {JUNK}
    BY <1>1 DEF Frame
  <2>2. QED
    BY <1>1, <2>1
<1> HIDE DEF p, h, a
<1>8. Queue' = Queue \o p
  <2>1. ASSUME NEW k \in 1 .. Len(Queue) PROVE Queue'[k] = Queue[k]
    <3>1. k \in 1 .. a /\ k \in 1 .. a + ringPeriod
      <4>1. ringPeriod \in Nat
        BY <1>1
      <4>2. QED
        BY <1>3, <4>1
    <3>2. Queue[k] = ring[Cell(readPos + k - 1)]
      BY <1>3, <3>1
    <3>3. Queue'[k] = ring[Cell(readPos + k - 1)]
      BY <1>5, <3>1
    <3>4. QED
      BY <3>2, <3>3
  <2>2. \A k \in 1 .. Len(p) : Queue'[Len(Queue) + k] = p[k]
    BY <1>3, <1>6, <1>7
  <2>3. Len(Queue') = Len(Queue) + Len(p)
    BY <1>3, <1>5, <1>7
  <2>4. QED
    BY <1>3, <1>5, <1>7, <2>1, <2>2, <2>3, Concatenated
<1>9. Fifo!Push(h, ringPeriod)
  <2>1. Len(Queue) + ringPeriod <= Size
    BY <1>1, <1>3 DEF HasRoom, a
  <2>2. QED
    BY <1>2, <1>8, <2>1 DEF Fifo!Push, Queue, p
<1>10. ringPeriod \in 1 .. Size
  BY <1>1, RingSize DEF RingInv
<1>11. QED
  BY <1>1, <1>9, <1>10 DEF Fifo!FifoNext

\* The end of a callback takes what it copied, or silence in its place.
LEMMA PullOut ==
  ASSUME RingInv, RingInv', CallbackEnd
  PROVE  Fifo!FifoNext
<1> DEFINE a == Avail(writePos, readPos)
           n == callback.take
           fill == callback.need - n
           S == Frame \union {SILENCE, JUNK}
<1>1. /\ UNCHANGED <<ring, ringPeriod>> /\ Size' = Size /\ \A x : Cell(x)' = Cell(x)
      /\ Len(callback.frames) = n /\ callback # IDLE
      /\ output' = callback.frames \o Silence(fill)
      /\ readPos' = Later(callback.from, n)
  BY DEF CallbackEnd, Drains, Drained, host, Size, Cell
<1>2. /\ Copied(callback) /\ callback.from = readPos /\ n <= a /\ ringPeriod # 0
  BY <1>1 DEF RingInv, CallbackOK, PositionsOK
<1>3. /\ n \in 0 .. MaxFrames /\ fill \in 0 .. MaxFrames /\ n \in Nat
      /\ readPos \in 0 .. Wrap - 1 /\ callback.frames \in Seq(S)
  <2>1. callback.need \in 1 .. MaxFrames /\ n \in 0 .. MaxFrames /\ n <= callback.need
        /\ callback.frames \in Seq(S) /\ MaxFrames \in Nat
    BY <1>2, AudioAssumption DEF Copied
  <2>2. readPos \in 0 .. Wrap - 1
    BY DEF RingInv, TypeOK
  <2> HIDE DEF n
  <2>3. QED
    BY <2>1, <2>2
<1>4. /\ Queue \in Seq(Frame \union {JUNK}) /\ Len(Queue) = a /\ a \in Nat
      /\ \A k \in 1 .. a : Queue[k] = ring[Cell(readPos + k - 1)]
  BY QueueType DEF QueueOK
<1>5. /\ Queue' \in Seq(Frame \union {JUNK}) /\ Len(Queue') = a - n
      /\ \A k \in 1 .. a - n : Queue'[k] = ring[Cell(readPos + (n + k) - 1)]
  <2>1. Avail(writePos, readPos)' = a - n
    BY CallbackEndStep
  <2>2. /\ Queue' \in Seq(Frame \union {JUNK}) /\ Len(Queue') = a - n
        /\ \A k \in 1 .. Len(Queue') : Queue'[k] = ring'[(Cell(readPos + k - 1))']
    BY <2>1, QueueTypeNext DEF QueueOK
  <2>3. ASSUME NEW k \in 1 .. a - n
        PROVE  (Cell(readPos + k - 1))' = Cell(readPos + (n + k) - 1)
    <3>1. (Cell(readPos + k - 1))' = Cell(readPos' + k - 1)
      BY <1>1 DEF Cell
    <3>2. PICK z \in Int : readPos' = readPos + n + z * Wrap
      BY <1>1, <1>2, <1>3, LaterDef
    <3>3. readPos' + k - 1 = (readPos + (n + k) - 1) + z * Wrap
          /\ readPos + (n + k) - 1 \in Int
      BY <1>3, <3>2, AudioAssumption, SMTT(30)
    <3>4. QED
      BY <1>2, <3>1, <3>3, CellTurns DEF RingInv
  <2>4. QED
    BY <1>1, <2>2, <2>3
<1> HIDE DEF a, n, fill
<1>6. Queue' = SubSeq(Queue, n + 1, Len(Queue))
  <2>1. /\ SubSeq(Queue, n + 1, a) \in Seq(Frame \union {JUNK})
        /\ Len(SubSeq(Queue, n + 1, a)) = a - n
        /\ \A k \in 1 .. a - n : SubSeq(Queue, n + 1, a)[k] = Queue[n + k]
    <3>1. n + 1 \in 1 .. Len(Queue) + 1 /\ a \in n .. Len(Queue) /\ n <= a
      BY <1>2, <1>3, <1>4 DEF a, n
    <3>2. /\ SubSeq(Queue, n + 1, a) \in Seq(Frame \union {JUNK})
          /\ Len(SubSeq(Queue, n + 1, a)) = IF n + 1 <= a THEN a - (n + 1) + 1 ELSE 0
          /\ \A k \in 1 .. a - (n + 1) + 1 :
               SubSeq(Queue, n + 1, a)[k] = Queue[(n + 1) + k - 1]
      BY <1>3, <1>4, <3>1, SubSeqProperties
    <3>3. a - (n + 1) + 1 = a - n /\ \A k \in Int : (n + 1) + k - 1 = n + k
      BY <1>3, <1>4
    <3>4. Len(SubSeq(Queue, n + 1, a)) = a - n
      BY <1>3, <1>4, <3>1, <3>2, <3>3
    <3>5. \A k \in 1 .. a - n : SubSeq(Queue, n + 1, a)[k] = Queue[n + k]
      <4>1. 1 .. a - (n + 1) + 1 = 1 .. a - n /\ \A k \in 1 .. a - n : k \in Int
        BY <3>3
      <4>2. QED
        BY <3>2, <3>3, <4>1
    <3>6. QED
      BY <3>2, <3>4, <3>5
  <2>2. \A k \in 1 .. a - n : Queue'[k] = SubSeq(Queue, n + 1, a)[k]
    <3>1. ASSUME NEW k \in 1 .. a - n PROVE n + k \in 1 .. a
      BY <1>3, <1>4
    <3>2. QED
      BY <1>4, <1>5, <2>1, <3>1
  <2>3. QED
    BY <1>4, <1>5, <2>1, <2>2, SeqEqual
<1>7. \/ output' = SubSeq(Queue, 1, n) \o Silence(fill)
      \/ output' = Silence(n + fill)
  <2>1. /\ SubSeq(Queue, 1, n) \in Seq(Frame \union {JUNK})
        /\ Len(SubSeq(Queue, 1, n)) = n
        /\ \A k \in 1 .. n : SubSeq(Queue, 1, n)[k] = Queue[k]
    BY <1>2, <1>3, <1>4 DEF a, n
  <2>2. CASE callback.silent = {} /\ callback.frames = << >>
    <3>1. n = 0
      BY <1>1, <2>2
    <3>2. SubSeq(Queue, 1, n) = << >>
      BY <2>1, <3>1
    <3>3. QED
      BY <1>1, <2>2, <3>2
  <2>3. CASE callback.silent = {TRUE} /\ callback.frames = Silence(n)
    <3>1. /\ Silence(n) \in Seq(S) /\ Len(Silence(n)) = n
          /\ Silence(fill) \in Seq(S) /\ Len(Silence(fill)) = fill
          /\ Silence(n + fill) \in Seq(S) /\ Len(Silence(n + fill)) = n + fill
      BY <1>3, AudioAssumption, SilenceType
    <3>2. /\ \A k \in 1 .. n : Silence(n + fill)[k] = Silence(n)[k]
          /\ \A k \in 1 .. fill : Silence(n + fill)[n + k] = Silence(fill)[k]
      BY <1>3, AudioAssumption DEF Silence
    <3> HIDE DEF S
    <3>3. Silence(n + fill) = Silence(n) \o Silence(fill)
      <4>1. /\ \A k \in 1 .. Len(Silence(n)) : Silence(n + fill)[k] = Silence(n)[k]
            /\ \A k \in 1 .. Len(Silence(fill)) :
                 Silence(n + fill)[Len(Silence(n)) + k] = Silence(fill)[k]
            /\ Len(Silence(n + fill)) = Len(Silence(n)) + Len(Silence(fill))
        BY <3>1, <3>2
      <4>2. QED
        BY <3>1, <4>1, Concatenated
    <3>4. QED
      BY <1>1, <2>3, <3>3
  <2>4. CASE /\ callback.silent = {FALSE}
             /\ \A k \in 1 .. Len(callback.frames) :
                  callback.frames[k] = ring[Cell(callback.from + k - 1)]
    <3>1. \A k \in 1 .. n : callback.frames[k] = SubSeq(Queue, 1, n)[k]
      <4>1. ASSUME NEW k \in 1 .. n PROVE k \in 1 .. a
        BY <1>2, <1>3, <1>4 DEF a, n
      <4>2. QED
        BY <1>1, <1>2, <1>4, <2>1, <2>4, <4>1, ZenonT(60)
    <3>2. SubSeq(Queue, 1, n) \in Seq(S)
      BY <2>1
    <3>3. callback.frames = SubSeq(Queue, 1, n)
      BY <1>1, <1>3, <2>1, <3>1, <3>2, SeqEqual
    <3>4. QED
      BY <1>1, <3>3
  <2>5. QED
    BY <1>2, <2>2, <2>3, <2>4 DEF Copied, n
<1>8. Fifo!Pull(n, fill)
  BY <1>1, <1>2, <1>4, <1>6, <1>7 DEF Fifo!Pull, Fifo!Silence, Silence, Queue, a, n
<1>9. QED
  BY <1>3, <1>8 DEF Fifo!FifoNext

LEMMA FifoStep ==
  ASSUME RingInv, RingInv', [Next]_vars
  PROVE  [Fifo!FifoNext]_(Fifo!fvars)
<1>1. ASSUME UNCHANGED <<host, writePos, readPos, output>>
      PROVE  UNCHANGED Fifo!fvars
  <2>1. Size' = Size /\ Avail(writePos, readPos)' = Avail(writePos, readPos)
    BY <1>1 DEF host, Size, Avail
  <2>2. Queue' = Queue
    BY <1>1, <2>1, QueueSame DEF host
  <2>3. QED
    BY <1>1, <2>1, <2>2 DEF Fifo!fvars, Queue
<1>2. CASE PushBegin
  BY <1>1, <1>2 DEF PushBegin
<1>3. CASE PushFrame
  <2>1. UNCHANGED <<ringPeriod, writePos, readPos, output>>
        /\ ring' = [ring EXCEPT ![Cell(writePos) + emulation.done] =
                      [half |-> emulation.half, at |-> emulation.done]]
        /\ Size' = Size /\ Avail(writePos, readPos)' = Avail(writePos, readPos)
    BY <1>3 DEF PushFrame, Size, Avail
  <2>2. /\ emulation.done \in 0 .. ringPeriod - 1 /\ ringPeriod # 0 /\ HasRoom
    BY <1>3, AudioAssumption DEF RingInv, TypeOK, PushOK, PushFrame, RUNS
  <2>3. ASSUME NEW k \in 1 .. Avail(writePos, readPos)
        PROVE  ring'[Cell(readPos + k - 1)] = ring[Cell(readPos + k - 1)]
    <3>1. Avail(writePos, readPos) \in Nat /\ readPos \in Nat
      BY QueueType, AudioAssumption DEF QueueOK, RingInv, TypeOK
    <3>2. k - 1 \in Int /\ 0 <= k - 1 /\ k - 1 < Avail(writePos, readPos)
      BY <3>1
    <3>3. Cell(writePos) + emulation.done # Cell(readPos + (k - 1))
      BY <2>2, <3>2, WriterApart DEF RingInv
    <3>4. /\ readPos + (k - 1) \in Int /\ readPos + (k - 1) = readPos + k - 1
      BY <3>1
    <3>5. Cell(readPos + (k - 1)) \in 0 .. Size - 1
      BY <2>2, <3>4, CellTurns DEF RingInv
    <3>6. QED
      BY <2>1, <3>3, <3>4, <3>5 DEF RingInv, TypeOK
  <2>4. Queue' = Queue
    BY <2>1, <2>3, QueueSame
  <2>5. QED
    BY <2>1, <2>4 DEF Fifo!fvars, Queue
<1>4. CASE PushEnd
  BY <1>4, PushIn
<1>5. CASE CallbackBegin
  <2>1. UNCHANGED <<host, writePos, readPos>> /\ output' = << >>
    BY <1>5 DEF CallbackBegin, Drains
  <2>2. Size' = Size /\ Avail(writePos, readPos)' = Avail(writePos, readPos)
    BY <2>1 DEF host, Size, Avail
  <2>3. Queue' = Queue
    BY <2>1, <2>2, QueueSame DEF host
  <2>4. Fifo!Ask
    BY <2>1, <2>2, <2>3 DEF Fifo!Ask, Queue
  <2>5. QED
    BY <2>4 DEF Fifo!FifoNext
<1>6. CASE CallbackMute \/ CallbackFrame
  BY <1>1, <1>6 DEF CallbackMute, CallbackFrame, Drains
<1>7. CASE CallbackEnd
  BY <1>7, PullOut
<1>8. CASE AudioSetSampleRate
  <2>1. PICK r \in Rates :
        \/ Opened(r, period) /\ UNCHANGED output
        \/ Close("restart")
        \/ UNCHANGED <<host, writePos, readPos, output>>
    BY <1>8 DEF AudioSetSampleRate
  <2>2. QED
    BY <1>1, <2>1, OpenStep DEF Opened, Close
<1>9. CASE AudioSetChannelMode \/ AudioReset \/ ResetForReload
  BY <1>1, <1>9 DEF AudioSetChannelMode, AudioReset, ResetForReload, Close
<1>10. CASE Arm \/ AudioSetDMABuffer \/ AudioMute \/ Acknowledge
  BY <1>1, <1>10 DEF Arm, AudioSetDMABuffer, AudioMute, Acknowledge, Sets
<1>11. CASE RestartAudio \/ AudioWasReset \/ Reloaded
  <2>1. writePos' = 0 /\ readPos' = 0 /\ UNCHANGED output
    BY <1>11 DEF RestartAudio, AudioWasReset, Reloaded, Joined, Reopened, Freed, Opened
  <2>2. QED
    BY <2>1, OpenStep
<1>12. CASE UNCHANGED vars
  BY <1>1, <1>12 DEF vars
<1>13. QED
  BY <1>2, <1>3, <1>4, <1>5, <1>6, <1>7, <1>8, <1>9, <1>10, <1>11, <1>12
  DEF Next, Push, Callback, Calls

LEMMA FifoBegins ==
  ASSUME Init
  PROVE  Fifo!FifoInit
<1>1. Size = 0 /\ Avail(writePos, readPos) = 0
  <2>1. Wrap \in Nat \ {0} /\ 0 = 0 + 0 + 0 * Wrap
    BY AudioAssumption
  <2>2. Avail(0, 0) = 0
    BY <2>1, AvailIs
  <2>3. QED
    BY <2>2, AudioAssumption DEF Init, Size
<1>2. Queue = << >>
  BY <1>1 DEF Queue
<1>3. QED
  BY <1>1, <1>2 DEF Init, Fifo!FifoInit, Queue

\* The ring and its two threads are the FIFO: what the program pushes comes
\* out once and in order, or as silence, across every wrap of the ring and
\* of the positions, however often the device is closed and opened.
THEOREM FifoImplemented == Spec => ImplementsFifo
<1>1. Init => Fifo!FifoInit
  BY FifoBegins
<1>2. RingInv /\ RingInv' /\ [Next]_vars => [Fifo!FifoNext]_(Fifo!fvars)
  BY FifoStep
<1>3. QED
  BY <1>1, <1>2, Invariant, PTL DEF Spec, ImplementsFifo, Fifo!FifoSpec
=============================================================================
