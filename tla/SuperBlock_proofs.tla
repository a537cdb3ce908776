------------------------- MODULE SuperBlock_proofs -------------------------
(***************************************************************************)
(* A block of packets does what its packets do one by one, however it is   *)
(* compiled and executed, if it meets none of the known defects.           *)
(***************************************************************************)
EXTENDS Packets_proofs

-----------------------------------------------------------------------------
(* FetchSuperBlock                                                         *)

\* The packets of a block as they are decoded for the compiler, the k-th from
\* the address a on if the t-th is a branch.
Fetchable == UNION {{Decoded(a, FALSE, TRUE), Decoded(a, TRUE, TRUE)} : a \in Int}
Inhibited(a, t, k) == k > t /\ ~EcuAt(a + t).cond
At(a, t, k) == Decoded(a + k, Inhibited(a, t, k), TRUE)

\* The place of the k-th packet in the list: it has none if it is empty.
Placed(a, t, k, packets, pos) ==
  LET d == At(a, t, k)
  IN /\ a + k \in DOMAIN program
     /\ d.ecu <=> k = t
     /\ d.ecu => ~d.never
     /\ pos[k] \in Nat
     /\ IsEmpty(d) => pos[k + 1] = pos[k]
     /\ ~IsEmpty(d) => pos[k + 1] = pos[k] + 1 /\ pos[k + 1] <= Len(packets) /\ packets[pos[k + 1]] = d
\* P packets have been taken.
Laid(a, t, P, packets, pos) ==
  /\ P \in Nat /\ t \in Nat /\ packets \in Seq(Fetchable)
  /\ pos \in [0..P -> Nat] /\ pos[0] = 0 /\ pos[P] = Len(packets)
  /\ \A k \in 0 .. P - 1 : Placed(a, t, k, packets, pos)

LEMMA PlaceOne ==
  ASSUME NEW a \in Int, NEW t, NEW P, NEW packets, NEW pos, Laid(a, t, P, packets, pos),
         a + P \in DOMAIN program, At(a, t, P).ecu <=> P = t, At(a, t, P).ecu => ~At(a, t, P).never
  PROVE  LET list == AddUnlessEmpty(packets, At(a, t, P))
         IN (\E to : Laid(a, t, P + 1, list, to)) /\ Len(list) \in Nat /\ Len(list) <= Len(packets) + 1
<1> DEFINE d == At(a, t, P)
           list == AddUnlessEmpty(packets, d)
           end == IF IsEmpty(d) THEN Len(packets) ELSE Len(packets) + 1
           to == [k \in 0 .. P + 1 |-> IF k = P + 1 THEN end ELSE pos[k]]
<1>1. P \in Nat /\ t \in Nat /\ packets \in Seq(Fetchable) /\ pos \in [0..P -> Nat] /\ pos[0] = 0 /\ pos[P] = Len(packets)
  BY DEF Laid
<1>2. d \in Fetchable
  <2>1. Inhibited(a, t, P) \in BOOLEAN /\ a + P \in Int
    BY <1>1 DEF Inhibited
  <2>2. PICK i \in BOOLEAN : i = Inhibited(a, t, P)
    BY <2>1
  <2>3. PICK c \in Int : c = a + P
    BY <2>1
  <2>4. d = Decoded(c, i, TRUE)
    BY <2>2, <2>3 DEF At
  <2>5. d \in {Decoded(c, FALSE, TRUE), Decoded(c, TRUE, TRUE)}
    <3>1. CASE i = TRUE
      BY <2>4, <3>1
    <3>2. CASE i = FALSE
      BY <2>4, <3>2
    <3> QED BY <3>1, <3>2
  <2> HIDE DEF d
  <2> QED BY <2>5 DEF Fetchable
<1>3. /\ list \in Seq(Fetchable) /\ Len(list) = end /\ end \in Nat /\ end >= Len(packets) /\ end <= Len(packets) + 1
      /\ \A i \in 1 .. Len(packets) : list[i] = packets[i]
      /\ ~IsEmpty(d) => list[end] = d /\ end = Len(packets) + 1
      /\ IsEmpty(d) => end = Len(packets)
  <2> HIDE DEF d
  <2>1. CASE IsEmpty(d)
    BY <1>1, <2>1 DEF AddUnlessEmpty
  <2>2. CASE ~IsEmpty(d)
    BY <1>1, <1>2, <2>2 DEF AddUnlessEmpty
  <2> QED BY <2>1, <2>2
<1>4. ASSUME NEW k \in 0..P PROVE Placed(a, t, k, list, to)
  <2>1. to[k] = pos[k] /\ to[k] \in Nat
    BY <1>1
  <2>2. CASE k = P
    <3>1. to[k + 1] = end
      BY <1>1, <2>2
    <3>2. a + k \in DOMAIN program /\ (At(a, t, k).ecu <=> k = t) /\ (At(a, t, k).ecu => ~At(a, t, k).never)
      BY <2>2
    <3>3. IsEmpty(d) => to[k + 1] = to[k]
      BY <1>1, <1>3, <2>1, <2>2, <3>1
    <3>4. ~IsEmpty(d) => to[k + 1] = to[k] + 1 /\ to[k + 1] <= Len(list) /\ list[to[k + 1]] = d
      BY <1>1, <1>3, <2>1, <2>2, <3>1
    <3>5. d = At(a, t, k)
      BY <2>2
    <3> HIDE DEF d, to, list, end
    <3> QED BY <2>1, <3>2, <3>3, <3>4, <3>5 DEF Placed
  <2>3. CASE k # P
    <3>1. k \in 0 .. P - 1 /\ k + 1 \in 0..P
      BY <1>1, <2>3
    <3>2. to[k + 1] = pos[k + 1]
      BY <1>1, <3>1
    <3>3. Placed(a, t, k, packets, pos)
      BY <3>1 DEF Laid
    <3> DEFINE e == At(a, t, k)
    <3>4. ~IsEmpty(e) => to[k + 1] = to[k] + 1 /\ to[k + 1] <= Len(list) /\ list[to[k + 1]] = e
      <4>1. ~IsEmpty(e) => pos[k + 1] = pos[k] + 1 /\ pos[k + 1] <= Len(packets) /\ packets[pos[k + 1]] = e
        BY <3>3 DEF Placed
      <4> HIDE DEF e, list, to, end
      <4> QED BY <1>1, <1>3, <2>1, <3>2, <4>1, SMTT(30)
    <3>5. /\ a + k \in DOMAIN program /\ (e.ecu <=> k = t) /\ (e.ecu => ~e.never)
          /\ IsEmpty(e) => to[k + 1] = to[k]
      BY <2>1, <3>2, <3>3 DEF Placed
    <3> HIDE DEF to, list, end
    <3> QED BY <2>1, <3>4, <3>5 DEF Placed
  <2> QED BY <2>2, <2>3
<1>5. Laid(a, t, P + 1, list, to)
  <2>1. to \in [0 .. P + 1 -> Nat] /\ to[0] = 0 /\ to[P + 1] = Len(list) /\ P + 1 \in Nat
    BY <1>1, <1>3
  <2>2. (P + 1) - 1 = P
    BY <1>1
  <2> HIDE DEF to, list
  <2> QED BY <1>1, <1>3, <1>4, <2>1, <2>2 DEF Laid
<1>6. \E g : Laid(a, t, P + 1, list, g)
  BY <1>5
<1> QED BY <1>1, <1>3, <1>6

\* Which packet is the branch does not matter for those before it.
LEMMA AtBefore ==
  ASSUME NEW a, NEW t \in Nat, NEW k \in 0..t
  PROVE  At(a, t, k) = Decoded(a + k, FALSE, TRUE)
<1>1. Inhibited(a, t, k) = FALSE
  BY DEF Inhibited
<1> QED BY <1>1 DEF At
LEMMA NoBranchYet ==
  ASSUME NEW a \in Int, NEW P, NEW packets, NEW pos, Laid(a, P, P, packets, pos)
  PROVE  Laid(a, P + 1, P, packets, pos)
<1>1. P \in Nat /\ P + 1 \in Nat
  BY DEF Laid
<1>2. ASSUME NEW k \in 0 .. P - 1 PROVE Placed(a, P + 1, k, packets, pos)
  <2>1. At(a, P, k) = At(a, P + 1, k)
    <3>1. k \in 0..P /\ k \in 0 .. P + 1
      BY <1>1
    <3> QED BY <1>1, <3>1, AtBefore
  <2>2. Placed(a, P, k, packets, pos)
    BY DEF Laid
  <2>3. k # P /\ k # P + 1
    BY <1>1
  <2> QED BY <2>1, <2>2, <2>3 DEF Placed
<1> QED BY <1>1, <1>2 DEF Laid

\* What FetchSuperBlock has found from the address a on.
FetchRecord ==
  [packets : Seq(Fetchable), next : Int, exit : Int, processed : Nat, branch : BOOLEAN, left : Nat]
Fetched(a, b, t, pos) ==
  /\ Laid(a, t, b.processed, b.packets, pos)
  /\ b.exit = a + b.processed
  /\ b.left # 0 => b.next = b.exit /\ t = b.processed /\ Len(b.packets) + b.left <= options.max
  /\ Len(b.packets) <= options.max + 2
  /\ t < b.processed => b.branch /\ b.processed = t + (IF EcuAt(a + t).nop THEN 1 ELSE 3)
FetchInv(a, b) == b \in FetchRecord /\ \E t, pos : Fetched(a, b, t, pos)

LEMMA FetchEnds ==
  ASSUME program \in Programs, options.max \in Nat, NEW a \in Int, NEW b, FetchInv(a, b), b.left # 0
  PROVE  FetchInv(a, EndBefore(b, Decoded(b.next, FALSE, TRUE)))
<1> DEFINE d == Decoded(b.next, FALSE, TRUE)
           e == EndBefore(b, d)
<1>1. PICK t, pos : Fetched(a, b, t, pos)
  BY DEF FetchInv
<1>2. b \in FetchRecord /\ b.next = b.exit
  BY <1>1 DEF FetchInv, Fetched
<1>3. d.pcexec = b.exit
  BY <1>2, PacketDecoded DEF IsDecoded, FetchRecord
<1> HIDE DEF d
<1>4. /\ e \in FetchRecord /\ e.packets = b.packets /\ e.exit = b.exit /\ e.processed = b.processed /\ e.left = 0
      /\ e.branch = b.branch
  BY <1>2, <1>3 DEF EndBefore, FetchRecord
<1> HIDE DEF e
<1>5. Fetched(a, e, t, pos)
  BY <1>1, <1>4 DEF Fetched
<1> QED BY <1>4, <1>5 DEF FetchInv, e, d

\* The packet that is fetched next.
LEMMA FetchNext ==
  ASSUME program \in Programs, options.max \in Nat, NEW a \in Int, NEW b, FetchInv(a, b), b.left # 0
  PROVE  LET P == b.processed  d == Decoded(b.next, FALSE, TRUE)
         IN /\ P \in Nat /\ b.next = a + P
            /\ IsDecoded(d, Packet(a + P), a + P, FALSE)
            /\ At(a, P, P) = d /\ At(a, P + 1, P) = d
            /\ ~d.never => a + P \in DOMAIN program
            /\ IsEmpty(d) => ~d.ecu /\ a + P \in DOMAIN program
            /\ d.ecu => Has(Packet(a + P), "ECU") /\ EcuOf(d) = BranchOf(Packet(a + P), a + P)
<1> DEFINE P == b.processed
           d == Decoded(b.next, FALSE, TRUE)
<1>1. P \in Nat /\ b.next = a + P /\ P + 1 \in Nat /\ P \in 0..P /\ P \in 0 .. P + 1 /\ a + P \in Int
  BY DEF FetchInv, Fetched, FetchRecord
<1>2. IsDecoded(d, Packet(a + P), a + P, FALSE)
  BY <1>1, PacketDecoded
<1>3. At(a, P, P) = d /\ At(a, P + 1, P) = d
  BY <1>1, AtBefore
<1>4. a + P \notin DOMAIN program => Packet(a + P) = Bios /\ Bios.never /\ Has(Bios, "ECU")
  BY DEF Packet, Bios, PacketOf, Has, Ecu
<1> HIDE DEF d, P
<1>5. ~d.never => a + P \in DOMAIN program
  BY <1>2, <1>4 DEF IsDecoded
<1>6. IsEmpty(d) => ~d.ecu /\ a + P \in DOMAIN program
  BY <1>2, <1>4 DEF IsDecoded, IsEmpty
<1>7. d.ecu => Has(Packet(a + P), "ECU") /\ EcuOf(d) = BranchOf(Packet(a + P), a + P)
  BY <1>2 DEF IsDecoded, EcuOf, Last
<1> QED BY <1>1, <1>2, <1>3, <1>5, <1>6, <1>7 DEF d, P

\* A packet that is empty, or no branch.
LEMMA FetchOne ==
  ASSUME program \in Programs, options.max \in Nat, NEW a \in Int, NEW b, FetchInv(a, b), b.left # 0,
         NEW d, d = Decoded(b.next, FALSE, TRUE), ~d.ecu, a + b.processed \in DOMAIN program
  PROVE  /\ IsEmpty(d) => FetchInv(a, SkipPacket(b, d))
         /\ ~IsEmpty(d) => FetchInv(a, AddPacket(b, d))
<1> DEFINE P == b.processed
           list == AddUnlessEmpty(b.packets, d)
           e == IF IsEmpty(d) THEN SkipPacket(b, d) ELSE AddPacket(b, d)
<1>1. PICK t, pos : Fetched(a, b, t, pos)
  BY DEF FetchInv
<1>0. P \in Nat /\ b.processed = P /\ a + P \in DOMAIN program /\ b.left \in Nat
  BY DEF FetchInv, FetchRecord
<1>2. /\ P \in Nat /\ b.next = a + P /\ d.pcroute = (a + P) + 1 /\ At(a, P + 1, P) = d
  BY FetchNext DEF IsDecoded
<1> HIDE DEF P, list, e
<1>3. b \in FetchRecord /\ t = P /\ b.exit = a + P /\ Len(b.packets) + b.left <= options.max
  BY <1>0, <1>1 DEF FetchInv, Fetched
<1>4. Laid(a, P + 1, P, b.packets, pos)
  BY <1>0, <1>1, <1>3, NoBranchYet DEF Fetched
<1>5. PICK to : Laid(a, P + 1, P + 1, list, to)
  <2>1. At(a, P + 1, P).ecu <=> P = P + 1
    <3>1. At(a, P + 1, P) = d
      BY <1>2
    <3>2. P # P + 1
      BY <1>0
    <3> QED BY ONLY <3>1, <3>2, ~d.ecu
  <2>2. At(a, P + 1, P).ecu => ~At(a, P + 1, P).never
    BY <1>0, <1>2
  <2> QED BY <1>0, <1>2, <1>4, <2>1, <2>2, PlaceOne DEF list
<1>6. Len(list) \in Nat /\ list \in Seq(Fetchable)
  BY <1>5 DEF Laid
<1>7. /\ e \in FetchRecord /\ e.packets = list /\ e.exit = a + (P + 1) /\ e.next = e.exit /\ e.processed = P + 1
      /\ e.branch = b.branch /\ e.left = (IF IsEmpty(d) THEN b.left ELSE b.left - 1)
      /\ Len(list) = (IF IsEmpty(d) THEN Len(b.packets) ELSE Len(b.packets) + 1)
  <2>1. CASE IsEmpty(d)
    <3>1. list = b.packets /\ e = SkipPacket(b, d)
      BY <2>1 DEF list, e, AddUnlessEmpty
    <3>2. e = [b EXCEPT !.next = d.pcroute, !.exit = d.pcroute, !.processed = P + 1]
      BY <1>0, <3>1 DEF SkipPacket
    <3>3. /\ e \in FetchRecord /\ e.packets = b.packets /\ e.exit = d.pcroute /\ e.next = d.pcroute
          /\ e.processed = P + 1 /\ e.branch = b.branch /\ e.left = b.left
      <4> DEFINE route == d.pcroute
                 Q == P + 1
      <4>1. route \in Int /\ Q \in Nat /\ b \in FetchRecord
        BY ONLY <1>0, <1>2, <1>3, a \in Int
      <4>2. e = [b EXCEPT !.next = route, !.exit = route, !.processed = Q]
        BY <3>2
      <4> HIDE DEF route, Q
      <4>3. /\ e \in FetchRecord /\ e.packets = b.packets /\ e.exit = route /\ e.next = route
            /\ e.processed = Q /\ e.branch = b.branch /\ e.left = b.left
        BY ONLY <4>1, <4>2 DEF FetchRecord
      <4> QED BY <4>3 DEF route, Q
    <3>4. a + (P + 1) = (a + P) + 1
      BY <1>0
    <3> QED BY ONLY <1>2, <2>1, <3>1, <3>3, <3>4
  <2>2. CASE ~IsEmpty(d)
    <3> DEFINE l == Append(b.packets, d)
               left == b.left - 1
    <3>1. list = l /\ e = AddPacket(b, d)
      BY <2>2 DEF list, e, AddUnlessEmpty
    <3>2. left \in Nat /\ l \in Seq(Fetchable) /\ Len(l) = Len(b.packets) + 1
      <4>1. b.left \in Nat /\ b.left # 0 /\ l \in Seq(Fetchable) /\ b.packets \in Seq(Fetchable)
        BY <1>0, <1>3, <1>6, <3>1 DEF FetchRecord
      <4> QED BY ONLY <4>1
    <3>3. e = [b EXCEPT !.packets = l, !.next = d.pcroute, !.exit = d.pcroute, !.processed = P + 1, !.left = left]
      BY <1>0, <3>1 DEF AddPacket
    <3>4. /\ e \in FetchRecord /\ e.packets = l /\ e.exit = d.pcroute /\ e.next = d.pcroute /\ e.processed = P + 1
          /\ e.branch = b.branch /\ e.left = left
      <4> DEFINE route == d.pcroute
                 Q == P + 1
      <4>1. route \in Int /\ Q \in Nat /\ b \in FetchRecord
        BY ONLY <1>0, <1>2, <1>3, a \in Int
      <4>2. e = [b EXCEPT !.packets = l, !.next = route, !.exit = route, !.processed = Q, !.left = left]
        BY <3>3
      <4> HIDE DEF route, Q, l, left
      <4>3. /\ e \in FetchRecord /\ e.packets = l /\ e.exit = route /\ e.next = route
            /\ e.processed = Q /\ e.branch = b.branch /\ e.left = left
        BY ONLY <3>2, <4>1, <4>2 DEF FetchRecord
      <4> QED BY <4>3 DEF route, Q
    <3>5. a + (P + 1) = (a + P) + 1
      BY <1>0
    <3> QED BY ONLY <1>2, <2>2, <3>1, <3>2, <3>4, <3>5
  <2> QED BY <2>1, <2>2
<1>8. Fetched(a, e, P + 1, to)
  <2>1. Laid(a, P + 1, e.processed, e.packets, to)
    BY ONLY <1>5, <1>7
  <2>2. Len(e.packets) + e.left <= options.max
    <3>1. Len(b.packets) \in Nat /\ b.left \in Nat
      BY <1>3 DEF FetchRecord
    <3> QED BY ONLY <1>3, <1>7, <3>1, options.max \in Nat
  <2>3. e.left \in Nat /\ Len(e.packets) \in Nat
    BY <1>6, <1>7 DEF FetchRecord
  <2>4. Len(e.packets) <= options.max + 2
    BY ONLY <2>2, <2>3, options.max \in Nat
  <2>5. ~(P + 1 < e.processed) /\ P + 1 = e.processed
    BY ONLY <1>0, <1>7
  <2> QED BY ONLY <1>7, <2>1, <2>2, <2>4, <2>5 DEF Fetched
<1> QED BY <1>0, <1>7, <1>8 DEF FetchInv, P, e

\* The delay slots of a branch that is the next packet.
SlotOf(a, P, i) == Decoded((a + P) + i, ~EcuAt(a + P).cond, TRUE)
LEMMA FetchSlot ==
  ASSUME program \in Programs, NEW a \in Int, NEW P \in Nat, EcuAt(a + P).cond \in BOOLEAN,
         NEW i \in 1..2, ~Uncompilable(SlotOf(a, P, i))
  PROVE  /\ At(a, P, P + i) = SlotOf(a, P, i) /\ a + (P + i) \in DOMAIN program
         /\ ~SlotOf(a, P, i).ecu /\ ~SlotOf(a, P, i).never /\ SlotOf(a, P, i).pcroute = a + (P + i) + 1
<1> DEFINE n == EcuAt(a + P)
           s == SlotOf(a, P, i)
<1>1. (a + P) + i = a + (P + i) /\ P + i \in Nat /\ a + (P + i) \in Int /\ P + i > P
  OBVIOUS
<1>2. Inhibited(a, P, P + i) = ~n.cond
  BY <1>1 DEF Inhibited
<1>3. At(a, P, P + i) = s
  BY <1>1, <1>2 DEF At, SlotOf
<1>4. ~s.never /\ ~s.ecu
  BY DEF Uncompilable
<1>5. IsDecoded(s, Packet(a + (P + i)), a + (P + i), ~n.cond)
  BY <1>1, PacketDecoded DEF SlotOf
<1> HIDE DEF s, n
<1>6. s.never = Packet(a + (P + i)).never /\ s.pcroute = a + (P + i) + 1
  BY <1>5 DEF IsDecoded
<1>7. Bios.never
  BY DEF Bios, PacketOf
<1>8. a + (P + i) \in DOMAIN program
  BY <1>4, <1>6, <1>7 DEF Packet
<1> QED BY <1>3, <1>4, <1>6, <1>8 DEF s

\* A block that ends behind a branch.
Closed(e) == [e EXCEPT !.branch = TRUE, !.left = 0]
Moved(b, l, next, exit, P, left, e) ==
  e = [b EXCEPT !.packets = l, !.next = next, !.exit = exit, !.processed = P, !.left = left]
LEMMA ClosedType ==
  ASSUME NEW b \in FetchRecord, NEW l \in Seq(Fetchable), NEW next \in Int, NEW exit \in Int, NEW P \in Nat, NEW left \in Int,
         NEW e, Moved(b, l, next, exit, P, left, e)
  PROVE  /\ Closed(e) \in FetchRecord /\ Closed(e).packets = l /\ Closed(e).exit = exit /\ Closed(e).processed = P
         /\ Closed(e).branch /\ Closed(e).left = 0
<1>1. /\ e \in [packets : Seq(Fetchable), next : Int, exit : Int, processed : Nat, branch : BOOLEAN, left : Int]
      /\ e.packets = l /\ e.exit = exit /\ e.processed = P
  BY DEF FetchRecord, Moved
<1> QED BY ONLY <1>1 DEF FetchRecord, Closed

LEMMA FetchBranch ==
  ASSUME program \in Programs, options.max \in Nat, NEW a \in Int, NEW b, FetchInv(a, b), b.left # 0,
         NEW d, d = Decoded(b.next, FALSE, TRUE), d.ecu, ~d.never
  PROVE  FetchInv(a, AddBranch(b, d))
<1> DEFINE P == b.processed
           n == EcuAt(a + P)
           s1 == SlotOf(a, P, 1)
           s2 == SlotOf(a, P, 2)
           e == AddBranchAndSlots(b, d, s1, s2)
           l == Append(b.packets, d)
<1>1. PICK t, pos : Fetched(a, b, t, pos)
  BY DEF FetchInv
<1>0. P \in Nat /\ b.processed = P /\ b.left \in Nat /\ b \in FetchRecord
  BY DEF FetchInv, FetchRecord
<1> HIDE DEF P
<1>2. /\ b.next = a + P /\ d.pcexec = a + P /\ d.pcroute = (a + P) + 1 /\ At(a, P, P) = d
      /\ a + P \in DOMAIN program /\ ~IsEmpty(d)
      /\ Has(Packet(a + P), "ECU") /\ EcuOf(d) = BranchOf(Packet(a + P), a + P)
  BY <1>0, FetchNext DEF IsDecoded
<1>3. t = P /\ b.exit = a + P /\ Len(b.packets) + b.left <= options.max /\ Len(b.packets) \in Nat /\ b.packets \in Seq(Fetchable)
  BY <1>0, <1>1 DEF Fetched, FetchRecord
<1>4. EcuOf(d).nop = n.nop /\ EcuOf(d).cond = n.cond /\ n.cond \in BOOLEAN
  <2>1. IsPacket(Packet(a + P)) /\ Decodable(Packet(a + P), Readable)
    BY PacketIsPacket, PacketIsDecodable
  <2>2. n \in Packet(a + P).units /\ n.unit = "ECU" /\ EcuOf(d).nop = n.nop /\ EcuOf(d).cond = n.cond
    BY <1>2, <2>1, BranchFields, ZenonT(60) DEF EcuAt
  <2>3. Nuance(n)
    BY <2>1, <2>2, InstructionIsNuance DEF IsPacket
  <2> QED BY <2>2, <2>3 DEF Nuance
<1>5. AddBranch(b, d) = Closed(e)
  BY <1>2, <1>4 DEF AddBranch, Closed, SlotOf
<1>6. Laid(a, P, P, b.packets, pos)
  BY <1>0, <1>1, <1>3 DEF Fetched
<1>7. /\ AddUnlessEmpty(b.packets, d) = l /\ l \in Seq(Fetchable) /\ Len(l) = Len(b.packets) + 1
      /\ \E to : Laid(a, P, P + 1, l, to)
  <2>1. AddUnlessEmpty(b.packets, d) = l
    BY <1>2 DEF AddUnlessEmpty
  <2>2. \E to : Laid(a, P, P + 1, l, to)
    <3> HIDE DEF l
    <3> QED BY ONLY <1>0, <1>2, <1>6, <2>1, d.ecu, ~d.never, a \in Int, PlaceOne
  <2>3. l \in Seq(Fetchable)
    BY <2>2 DEF Laid
  <2>4. Len(l) = Len(b.packets) + 1
    BY ONLY <1>3, <2>3
  <2> QED BY <2>1, <2>2, <2>3, <2>4
<1> HIDE DEF l
<1>8. a + P \in Int /\ (a + P) + 1 \in Int /\ (a + P) + 1 = a + (P + 1) /\ P + 1 \in Nat
  BY <1>0
<1>9. CASE n.nop
  <2>1. Moved(b, l, a + (P + 1), a + (P + 1), P + 1, b.left - 1, e)
    BY <1>0, <1>2, <1>4, <1>8, <1>9 DEF AddBranchAndSlots, AddPacket, l, Moved
  <2>2. /\ Closed(e) \in FetchRecord /\ Closed(e).packets = l /\ Closed(e).exit = a + (P + 1)
        /\ Closed(e).processed = P + 1 /\ Closed(e).branch /\ Closed(e).left = 0
    <3> DEFINE nx == a + (P + 1)
               ex == a + (P + 1)
               Q == P + 1
               lf == b.left - 1
    <3>1. nx \in Int /\ ex \in Int /\ Q \in Nat /\ lf \in Int
      BY <1>0, <1>2, <1>8
    <3>2. Moved(b, l, nx, ex, Q, lf, e) /\ l \in Seq(Fetchable) /\ b \in FetchRecord
      BY <1>0, <1>7, <2>1
    <3> HIDE DEF nx, ex, Q, lf, e
    <3>3. /\ Closed(e) \in FetchRecord /\ Closed(e).packets = l /\ Closed(e).exit = ex
          /\ Closed(e).processed = Q /\ Closed(e).branch /\ Closed(e).left = 0
      BY ONLY <3>1, <3>2, ClosedType
    <3> QED BY <3>3 DEF nx, ex, Q, lf
  <2>3. Len(l) <= options.max + 2
    BY ONLY <1>0, <1>3, <1>7, b.left # 0, options.max \in Nat, SMTT(30)
  <2>4. PICK to : Laid(a, P, P + 1, l, to)
    BY <1>7
  <2> HIDE DEF e
  <2>5. Fetched(a, Closed(e), P, to)
    BY ONLY <1>9, <2>2, <2>3, <2>4 DEF Fetched, n
  <2> QED BY <1>5, <2>2, <2>5 DEF FetchInv
<1>10. CASE ~n.nop /\ (Uncompilable(s1) \/ Uncompilable(s2))
  <2>1. e = EndBefore(b, d)
    BY <1>4, <1>10 DEF AddBranchAndSlots
  <2>2. Moved(b, b.packets, b.next, a + P, P, 0, e)
    BY <1>0, <1>2, <2>1 DEF EndBefore, FetchRecord, Moved
  <2>3. /\ Closed(e) \in FetchRecord /\ Closed(e).packets = b.packets /\ Closed(e).exit = a + P
        /\ Closed(e).processed = P /\ Closed(e).branch /\ Closed(e).left = 0
    <3> DEFINE nx == b.next
               ex == a + P
               Q == P
               lf == 0
    <3>1. nx \in Int /\ ex \in Int /\ Q \in Nat /\ lf \in Int
      BY <1>0, <1>2, <1>8
    <3>2. Moved(b, b.packets, nx, ex, Q, lf, e) /\ b.packets \in Seq(Fetchable) /\ b \in FetchRecord
      BY <1>0, <1>3, <2>2
    <3> HIDE DEF nx, ex, Q, lf, e
    <3>3. /\ Closed(e) \in FetchRecord /\ Closed(e).packets = b.packets /\ Closed(e).exit = ex
          /\ Closed(e).processed = Q /\ Closed(e).branch /\ Closed(e).left = 0
      BY ONLY <3>1, <3>2, ClosedType
    <3> QED BY <3>3 DEF nx, ex, Q, lf
  <2>4. Len(b.packets) <= options.max + 2
    BY ONLY <1>0, <1>3, options.max \in Nat
  <2> HIDE DEF e
  <2>5. Fetched(a, Closed(e), P, pos)
    BY ONLY <1>0, <1>6, <2>3, <2>4 DEF Fetched
  <2> QED BY <1>5, <2>3, <2>5 DEF FetchInv
<1>11. CASE ~n.nop /\ ~Uncompilable(s1) /\ ~Uncompilable(s2)
  <2> DEFINE l1 == AddUnlessEmpty(l, s1)
             l2 == AddUnlessEmpty(l1, s2)
  <2>0. 1 \in 1..2 /\ 2 \in 1..2 /\ P + 2 = (P + 1) + 1 /\ P + 3 = (P + 2) + 1 /\ P + 3 \in Nat /\ a + (P + 3) \in Int
        /\ a + (P + 2) + 1 = a + (P + 3) /\ P + 2 \in Nat
    BY <1>0
  <2>1. At(a, P, P + 1) = s1 /\ a + (P + 1) \in DOMAIN program /\ ~s1.ecu
    BY ONLY program \in Programs, a \in Int, <1>0, <1>4, <1>11, <2>0, FetchSlot
  <2>2. At(a, P, P + 2) = s2 /\ a + (P + 2) \in DOMAIN program /\ ~s2.ecu /\ s2.pcroute = a + (P + 3)
    BY ONLY program \in Programs, a \in Int, <1>0, <1>4, <1>11, <2>0, FetchSlot
  <2> HIDE DEF s1, s2
  <2>3. Moved(b, l2, a + (P + 1), a + (P + 3), P + 3, b.left - 1, e)
    <3>1. e = AddDelaySlots(AddPacket(b, d), s1, s2)
      BY <1>4, <1>11 DEF AddBranchAndSlots
    <3>2. AddPacket(b, d) = [b EXCEPT !.packets = l, !.next = a + (P + 1), !.exit = a + (P + 1), !.processed = P + 1, !.left = b.left - 1]
      BY <1>0, <1>2, <1>8 DEF AddPacket, l
    <3>3. (P + 1) + 2 = P + 3
      BY <1>0
    <3>4. e = [AddPacket(b, d) EXCEPT !.packets = l2, !.exit = a + (P + 3), !.processed = AddPacket(b, d).processed + 2]
      BY <2>2, <3>1, <3>2, ZenonT(60) DEF AddDelaySlots, FetchRecord
    <3> HIDE DEF e, l2
    <3> QED BY ONLY <1>0, <3>2, <3>3, <3>4 DEF FetchRecord, Moved
  <2>4. (\E to : Laid(a, P, P + 2, l1, to)) /\ Len(l1) \in Nat /\ Len(l1) <= Len(l) + 1
    <3>1. PICK to : Laid(a, P, P + 1, l, to)
      BY <1>7
    <3>2. At(a, P, P + 1).ecu <=> P + 1 = P
      BY ONLY <1>0, <2>1
    <3>3. At(a, P, P + 1).ecu => ~At(a, P, P + 1).never
      BY ONLY <2>1
    <3> QED BY ONLY a \in Int, <2>0, <2>1, <3>1, <3>2, <3>3, PlaceOne
  <2>5. (\E to : Laid(a, P, P + 3, l2, to)) /\ Len(l2) \in Nat /\ Len(l2) <= Len(l1) + 1
    <3>1. PICK to : Laid(a, P, P + 2, l1, to)
      BY <2>4
    <3>2. At(a, P, P + 2).ecu <=> P + 2 = P
      BY ONLY <1>0, <2>2
    <3>3. At(a, P, P + 2).ecu => ~At(a, P, P + 2).never
      BY ONLY <2>2
    <3> HIDE DEF l1
    <3> QED BY ONLY a \in Int, <2>0, <2>2, <3>1, <3>2, <3>3, PlaceOne
  <2> HIDE DEF l1, l2, e
  <2>6. l2 \in Seq(Fetchable)
    BY <2>5 DEF Laid
  <2>7. /\ Closed(e) \in FetchRecord /\ Closed(e).packets = l2 /\ Closed(e).exit = a + (P + 3)
        /\ Closed(e).processed = P + 3 /\ Closed(e).branch /\ Closed(e).left = 0
    <3> DEFINE nx == a + (P + 1)
               ex == a + (P + 3)
               Q == P + 3
               lf == b.left - 1
    <3>1. nx \in Int /\ ex \in Int /\ Q \in Nat /\ lf \in Int
      BY <1>0, <1>2, <1>8, <2>0
    <3>2. Moved(b, l2, nx, ex, Q, lf, e) /\ l2 \in Seq(Fetchable) /\ b \in FetchRecord
      BY <1>0, <2>3, <2>6
    <3> HIDE DEF nx, ex, Q, lf, e
    <3>3. /\ Closed(e) \in FetchRecord /\ Closed(e).packets = l2 /\ Closed(e).exit = ex
          /\ Closed(e).processed = Q /\ Closed(e).branch /\ Closed(e).left = 0
      BY ONLY <3>1, <3>2, ClosedType
    <3> QED BY <3>3 DEF nx, ex, Q, lf
  <2>8. Len(l2) <= options.max + 2
    <3>1. Len(l) <= options.max /\ Len(l) \in Nat
      BY ONLY <1>0, <1>3, <1>7, b.left # 0, options.max \in Nat
    <3> QED BY ONLY <2>4, <2>5, <3>1, options.max \in Nat
  <2>9. PICK to : Laid(a, P, P + 3, l2, to)
    BY <2>5
  <2>10. Fetched(a, Closed(e), P, to)
    BY ONLY <1>11, <2>7, <2>8, <2>9 DEF Fetched, n
  <2> QED BY <1>5, <2>7, <2>10 DEF FetchInv
<1> QED BY <1>9, <1>10, <1>11

LEMMA FetchPacketInv ==
  ASSUME program \in Programs, options.max \in Nat, NEW a \in Int, NEW b, FetchInv(a, b)
  PROVE  FetchInv(a, FetchPacket(b))
<1>1. CASE b.left = 0
  BY <1>1 DEF FetchPacket
<1>2. CASE b.left # 0
  <2> DEFINE d == Decoded(b.next, FALSE, TRUE)
  <2>1. FetchPacket(b) = AddFetched(b, d)
    BY <1>2 DEF FetchPacket
  <2>2. /\ ~d.never => a + b.processed \in DOMAIN program
        /\ IsEmpty(d) => ~d.ecu /\ a + b.processed \in DOMAIN program
    BY <1>2, FetchNext
  <2>3. FetchInv(a, EndBefore(b, d))
    BY <1>2, FetchEnds
  <2>4. CASE IsEmpty(d)
    <3>1. FetchInv(a, SkipPacket(b, d))
      BY <1>2, <2>2, <2>4, FetchOne
    <3> QED BY <2>1, <2>4, <3>1 DEF AddFetched
  <2>5. CASE ~IsEmpty(d) /\ (d.never \/ d.breakpoint)
    BY <2>1, <2>3, <2>5 DEF AddFetched
  <2>6. CASE ~IsEmpty(d) /\ ~(d.never \/ d.breakpoint) /\ d.ecu
    <3>1. FetchInv(a, AddBranch(b, d))
      BY <1>2, <2>6, FetchBranch
    <3> QED BY <2>1, <2>6, <3>1 DEF AddFetched
  <2>7. CASE ~IsEmpty(d) /\ ~(d.never \/ d.breakpoint) /\ ~d.ecu
    <3>1. FetchInv(a, AddPacket(b, d))
      BY <1>2, <2>2, <2>7, FetchOne
    <3> QED BY <2>1, <2>7, <3>1 DEF AddFetched
  <2> QED BY <2>4, <2>5, <2>6, <2>7
<1> QED BY <1>1, <1>2

LEMMA FetchBegins ==
  ASSUME options.max \in Nat, NEW a \in Int
  PROVE  FetchInv(a, Fetching(a, options.max))
<1> DEFINE b == Fetching(a, options.max)
           pos == [k \in 0..0 |-> 0]
<1>1. /\ b \in FetchRecord /\ b.packets = <<>> /\ b.next = a /\ b.exit = a /\ b.processed = 0 /\ b.left = options.max
  BY DEF Fetching, FetchRecord
<1> HIDE DEF b
<1>2. Laid(a, 0, 0, <<>>, pos)
  <2>1. 0 .. 0 - 1 = {} /\ pos \in [0..0 -> Nat] /\ pos[0] = 0 /\ Len(<<>>) = 0 /\ <<>> \in Seq(Fetchable)
    OBVIOUS
  <2> HIDE DEF pos
  <2> QED BY <2>1 DEF Laid
<1>3. Fetched(a, b, 0, pos)
  BY <1>1, <1>2 DEF Fetched
<1> QED BY <1>1, <1>3 DEF FetchInv, b

\* What it finds.
LEMMA FetchHolds ==
  ASSUME program \in Programs, options.max \in Nat, NEW a \in Int
  PROVE  FetchInv(a, FetchSuperBlock(a))
<1> DEFINE n == Len(program) + 2
           B == {b \in FetchRecord : FetchInv(a, b)}
           base == Fetching(a, options.max)
           F == [k \in 1..n |-> [y \in B |-> FetchPacket(y)]]
           Is(it) == it = [s \in SUBSET (1..n) |->
                             IF s = {} THEN base ELSE FetchPacket(it[s \ {Max(s)}])]
           it == CHOOSE it : Is(it)
<1>0. n \in Nat
  BY ProgramAssumption
<1>1. base \in B
  BY FetchBegins DEF FetchInv
<1>2. ASSUME NEW k \in 1..n, NEW y \in B PROVE FetchPacket(y) \in B
  BY <1>2, FetchPacketInv DEF FetchInv
<1> HIDE DEF base, B
<1>3. F \in [1..n -> [B -> B]]
  BY <1>2
<1>4. \E g : Is(g)
  <2>1. PICK g : FoldsLeft(g, n, B, base, F)
    <3> HIDE DEF F, n
    <3> QED BY <1>0, <1>1, <1>3, FoldLeftExists
  <2>2. \A s \in SUBSET (1..n) : s # {} => Max(s) \in 1..n /\ g[s \ {Max(s)}] \in B
    BY <1>0, <2>1, GreatestOf DEF FoldsLeft
  <2>3. Is(g)
    BY <2>1, <2>2 DEF FoldsLeft
  <2> QED BY <2>3
<1>5. Is(it)
  BY <1>4
<1>6. FetchSuperBlock(a) = it[1..n]
  BY <1>0 DEF FetchSuperBlock, FoldLeft, MapThenFoldSet, base
<1> HIDE DEF it
<1>7. Upwards(it, n, B, base, F)
  <2>1. it[1..0] = base
    <3>1. 1..0 = {} /\ {} \in SUBSET (1..n)
      OBVIOUS
    <3> QED BY <1>5, <3>1
  <2>2. \A k \in 1..n : it[1..k] = FetchPacket(it[1 .. k - 1])
    <3> SUFFICES ASSUME NEW k \in 1..n PROVE it[1..k] = FetchPacket(it[1 .. k - 1])
      OBVIOUS
    <3>1. Max(1..k) = k /\ (1..k) \ {k} = 1 .. k - 1 /\ 1..k \in SUBSET (1..n)
      BY <1>0, GreatestOfPrefix
    <3>2. 1..k # {}
      <4> HIDE DEF n
      <4> QED BY <1>0
    <3> QED BY <1>5, <3>1, <3>2
  <2> QED BY <2>1, <2>2 DEF Upwards
<1>8. PICK X : IsRun(X, n, B, base, F) /\ X[n] = it[1..n]
  <2> HIDE DEF F, n
  <2> QED BY <1>0, <1>1, <1>3, <1>7, RunUp
<1>9. \A k \in 1..n : X[k] = FetchPacket(X[k - 1])
  <2>1. \A k \in 1..n : k - 1 \in 0..n
    BY <1>0
  <2>2. \A k \in 1..n : X[k] = F[k][X[k - 1]] /\ X[k - 1] \in B
    <3> HIDE DEF F
    <3> QED BY <1>8, <2>1 DEF IsRun
  <2> QED BY <2>2
<1>10. X[n] \in B
  <2>1. n \in 0..n
    BY <1>0
  <2> QED BY <1>8, <2>1 DEF IsRun
<1> QED BY <1>6, <1>8, <1>10 DEF B

-----------------------------------------------------------------------------
(* CompileBlock                                                            *)

\* The instructions of the packets that may be fetched.
Compilable == UNION {{d.nuances[i] : i \in 1 .. Len(d.nuances)} : d \in Fetchable}

LEMMA FetchableIsDecoded ==
  ASSUME program \in Programs, NEW d \in Fetchable
  PROVE  /\ \E a \in Int : \E inhibit \in BOOLEAN : IsDecoded(d, Packet(a), a, inhibit)
         /\ Len(d.nuances) \in Nat /\ DOMAIN d.nuances = 1 .. Len(d.nuances)
         /\ \A i \in 1 .. Len(d.nuances) : Nuance(d.nuances[i]) /\ d.nuances[i].out \subseteq Cells
         /\ \A i, j \in 1 .. Len(d.nuances) : i # j => d.nuances[i].out \cap d.nuances[j].out = {}
         /\ \A i, j \in 1 .. Len(d.nuances) : i # j => d.nuances[i].unit # d.nuances[j].unit
         /\ \A i \in 1 .. Len(d.nuances) : d.nuances[i].unit = "ECU" <=> (d.ecu /\ i = Len(d.nuances))
         /\ MemoryFirst(d.nuances)
<1>1. PICK a \in Int : d \in {Decoded(a, FALSE, TRUE), Decoded(a, TRUE, TRUE)}
  BY DEF Fetchable
<1>2. PICK inhibit \in BOOLEAN : d = Decoded(a, inhibit, TRUE)
  BY <1>1
<1>3. IsDecoded(d, Packet(a), a, inhibit) /\ MemoryFirst(d.nuances)
  BY <1>2, PacketDecoded
<1>4. IsPacket(Packet(a))
  BY PacketIsPacket
<1>5. /\ \A i \in 1 .. Len(d.nuances) : Nuance(d.nuances[i])
      /\ \A i, j \in 1 .. Len(d.nuances) : i # j => d.nuances[i].out \cap d.nuances[j].out = {}
      /\ \A i \in 1 .. Len(d.nuances) : d.nuances[i].unit = "ECU" <=> (d.ecu /\ i = Len(d.nuances))
  BY <1>3, <1>4, DecodedNuances
<1>6. \A n : Nuance(n) => n.out \subseteq Cells
  BY DEF Nuance, Cells, Units, Registers
<1>7. /\ Len(d.nuances) \in Nat /\ DOMAIN d.nuances = 1 .. Len(d.nuances)
      /\ \A i, j \in 1 .. Len(d.nuances) : i # j => d.nuances[i].unit # d.nuances[j].unit
  BY <1>3 DEF IsDecoded
<1> QED BY <1>3, <1>5, <1>6, <1>7

LEMMA CompilableReads ==
  ASSUME program \in Programs
  PROVE  ReadsCells(Compilable)
<1> SUFFICES ASSUME NEW n \in Compilable PROVE n.in \subseteq Cells
  BY DEF ReadsCells
<1>1. PICK d \in Fetchable : n \in {d.nuances[i] : i \in 1 .. Len(d.nuances)}
  BY DEF Compilable
<1>2. PICK i \in 1 .. Len(d.nuances) : n = d.nuances[i]
  BY <1>1
<1>3. Nuance(n)
  BY <1>2, FetchableIsDecoded
<1> QED BY <1>3 DEF Nuance, Readable, Cells

\* A packet as it is compiled: what is in left need not be written.
CompiledTo(d, q, left) ==
  /\ Len(q) = Len(d.nuances) /\ Len(q) \in Nat /\ DOMAIN q = 1 .. Len(q)
  /\ \A j \in 1 .. Len(q) :
        /\ q[j].n = d.nuances[j] /\ q[j].out = d.nuances[j].out \ left
        /\ q[j].dead \in BOOLEAN /\ (q[j].dead => d.nuances[j].out \ {"mem"} \subseteq left)
\* What need not be written before a packet, and behind it.
MaskedBy(d, before, after) ==
  \A c \in before :
     /\ c # "mem" /\ \A j \in 1 .. Len(d.nuances) : c \notin d.nuances[j].in
     /\ c \in after \/ \E j \in 1 .. Len(d.nuances) : c \in d.nuances[j].out
IsCompiled(packets, list, K) ==
  /\ K \in [1 .. Len(packets) + 1 -> SUBSET Cells] /\ K[Len(packets) + 1] = {}
  /\ Len(list) = Len(packets) /\ DOMAIN list = 1 .. Len(list)
  /\ \A i \in 1 .. Len(packets) : CompiledTo(packets[i], list[i], K[i + 1]) /\ MaskedBy(packets[i], K[i], K[i + 1])

LEMMA EntriesType ==
  ASSUME program \in Programs, NEW d \in Fetchable
  PROVE  /\ Entries(d) \in Seq(EntriesOf(Compilable))
         /\ Len(Entries(d)) = Len(d.nuances) /\ DOMAIN Entries(d) = 1 .. Len(d.nuances)
         /\ \A j \in 1 .. Len(d.nuances) : Entries(d)[j] = [n |-> d.nuances[j], out |-> d.nuances[j].out, dead |-> FALSE]
<1> DEFINE n == Len(d.nuances)
           q == [i \in 1..n |-> [n |-> d.nuances[i], out |-> d.nuances[i].out, dead |-> FALSE]]
<1>1. /\ n \in Nat /\ DOMAIN d.nuances = 1..n
      /\ \A i \in 1..n : d.nuances[i].out \subseteq Cells
  BY FetchableIsDecoded
<1>2. Entries(d) = q
  BY <1>1 DEF Entries
<1>3. \A i \in 1..n : [n |-> d.nuances[i], out |-> d.nuances[i].out, dead |-> FALSE] \in EntriesOf(Compilable)
  <2>1. \A i \in 1..n : d.nuances[i] \in Compilable
    BY DEF Compilable
  <2> QED BY <1>1, <2>1 DEF EntriesOf
<1>4. q \in [1..n -> EntriesOf(Compilable)]
  BY <1>3
<1>5. q \in Seq(EntriesOf(Compilable)) /\ Len(q) = n /\ DOMAIN q = 1..n
  <2>1. DOMAIN q = 1..n
    OBVIOUS
  <2> HIDE DEF q
  <2>2. q \in Seq(EntriesOf(Compilable))
    BY <1>1, <1>4
  <2> QED BY <1>1, <2>1, <2>2
<1>6. \A j \in 1..n : q[j] = [n |-> d.nuances[j], out |-> d.nuances[j].out, dead |-> FALSE]
  OBVIOUS
<1> HIDE DEF q
<1> QED BY <1>2, <1>5, <1>6

LEMMA EntriesCompiled ==
  ASSUME program \in Programs, NEW d \in Fetchable
  PROVE  CompiledTo(d, Entries(d), {})
<1>1. Len(d.nuances) \in Nat
  BY FetchableIsDecoded
<1>2. /\ Len(Entries(d)) = Len(d.nuances) /\ DOMAIN Entries(d) = 1 .. Len(d.nuances)
      /\ \A j \in 1 .. Len(d.nuances) : Entries(d)[j] = [n |-> d.nuances[j], out |-> d.nuances[j].out, dead |-> FALSE]
  BY EntriesType
<1>3. ASSUME NEW j \in 1 .. Len(d.nuances)
      PROVE  /\ Entries(d)[j].n = d.nuances[j] /\ Entries(d)[j].out = d.nuances[j].out \ {}
             /\ Entries(d)[j].dead \in BOOLEAN /\ ~Entries(d)[j].dead
  <2>1. Entries(d)[j] = [n |-> d.nuances[j], out |-> d.nuances[j].out, dead |-> FALSE]
    BY <1>2
  <2> QED BY ONLY <2>1
<1> QED BY <1>1, <1>2, <1>3 DEF CompiledTo

LEMMA EliminatedCompiled ==
  ASSUME program \in Programs, NEW d \in Fetchable, NEW left, NEW q, q = [j \in DOMAIN Entries(d) |-> Eliminated(Entries(d)[j], left)]
  PROVE  CompiledTo(d, q, left)
<1>1. Len(d.nuances) \in Nat
  BY FetchableIsDecoded
<1>2. /\ DOMAIN Entries(d) = 1 .. Len(d.nuances)
      /\ \A j \in 1 .. Len(d.nuances) : Entries(d)[j] = [n |-> d.nuances[j], out |-> d.nuances[j].out, dead |-> FALSE]
  BY EntriesType
<1>3. ASSUME NEW j \in 1 .. Len(d.nuances)
      PROVE  /\ q[j].n = d.nuances[j] /\ q[j].out = d.nuances[j].out \ left
             /\ q[j].dead \in BOOLEAN /\ (q[j].dead => d.nuances[j].out \ {"mem"} \subseteq left)
  <2>1. q[j] = Eliminated([n |-> d.nuances[j], out |-> d.nuances[j].out, dead |-> FALSE], left)
    BY <1>2
  <2> QED BY <2>1 DEF Eliminated, Declared
<1>4. Len(q) = Len(d.nuances) /\ DOMAIN q = 1 .. Len(q)
  <2>1. q \in [1 .. Len(d.nuances) -> {q[j] : j \in 1 .. Len(d.nuances)}]
    BY <1>2
  <2>2. q \in Seq({q[j] : j \in 1 .. Len(d.nuances)})
    BY <1>1, <2>1
  <2> QED BY <1>1, <1>2, <2>2
<1> QED BY <1>1, <1>3, <1>4 DEF CompiledTo

LEMMA NotMemory ==
  ASSUME NEW packets, Len(packets) \in Nat, NEW K, K \in [1 .. Len(packets) + 1 -> SUBSET Cells], K[Len(packets) + 1] = {},
         \A i \in 1 .. Len(packets) : \A c \in K[i] : c \in K[i + 1] \/ c # "mem"
  PROVE  \A i \in 1 .. Len(packets) + 1 : "mem" \notin K[i]
<1> DEFINE n == Len(packets)
           S == {i \in 1 .. n + 1 : "mem" \notin K[i]}
<1>1. n + 1 \in S
  OBVIOUS
<1>2. \A i \in 1..n : i + 1 \in S => i \in S
  OBVIOUS
<1>3. 1 .. n + 1 \subseteq S
  <2> HIDE DEF S
  <2> QED BY <1>1, <1>2, DownTo
<1> QED BY <1>3

LEMMA EntriesMasked ==
  ASSUME program \in Programs, NEW d \in Fetchable, NEW after \in SUBSET Cells
  PROVE  /\ NextMask(Entries(d), after) \in SUBSET Cells
         /\ \A c \in NextMask(Entries(d), after) :
              /\ \A j \in 1 .. Len(d.nuances) : c \notin d.nuances[j].in
              /\ c \in after \/ (c # "mem" /\ \E j \in 1 .. Len(d.nuances) : c \in d.nuances[j].out)
<1> DEFINE q == Entries(d)
<1>1. /\ q \in Seq(EntriesOf(Compilable)) /\ Len(q) = Len(d.nuances)
      /\ \A j \in 1 .. Len(d.nuances) : q[j] = [n |-> d.nuances[j], out |-> d.nuances[j].out, dead |-> FALSE]
  BY EntriesType
<1> HIDE DEF q
<1>2. EntryList(q)
  BY <1>1, CompilableReads, ListEntries
<1>3. /\ NextMask(q, after) \in SUBSET Cells
      /\ \A c \in NextMask(q, after) :
           /\ \A i \in 1 .. Len(q) : c \notin q[i].n.in
           /\ c \in after \/ \E i \in 1 .. Len(q) : c \in q[i].out \ {"mem"}
  BY <1>2, MaskHolds
<1>4. ASSUME NEW j \in 1 .. Len(d.nuances) PROVE q[j].n = d.nuances[j] /\ q[j].out = d.nuances[j].out
  <2>1. q[j] = [n |-> d.nuances[j], out |-> d.nuances[j].out, dead |-> FALSE]
    BY <1>1
  <2> QED BY ONLY <2>1
<1> QED BY <1>1, <1>3, <1>4 DEF q

\* What CompileBlock makes of the packets.
LEMMA ListHolds ==
  ASSUME program \in Programs, options.deadCode \in BOOLEAN, NEW packets \in Seq(Fetchable)
  PROVE  \E K : IsCompiled(packets, ListOf([i \in DOMAIN packets |-> Entries(packets[i])]), K)
<1> DEFINE n == Len(packets)
           list == [i \in DOMAIN packets |-> Entries(packets[i])]
           result == ListOf(list)
<1>1. n \in Nat /\ DOMAIN packets = 1..n /\ \A i \in 1..n : packets[i] \in Fetchable
  OBVIOUS
<1>2. Len(list) = n /\ DOMAIN list = 1..n /\ (\A i \in 1..n : list[i] = Entries(packets[i])) /\ list \in ListsOf(Compilable)
  <2>1. \A i \in 1..n : Entries(packets[i]) \in Seq(EntriesOf(Compilable))
    BY <1>1, EntriesType
  <2>2. list \in [1..n -> Seq(EntriesOf(Compilable))] /\ DOMAIN list = 1..n /\ (\A i \in 1..n : list[i] = Entries(packets[i]))
    BY <1>1, <2>1
  <2> HIDE DEF list
  <2>3. list \in Seq(Seq(EntriesOf(Compilable)))
    BY <1>1, <2>2
  <2> QED BY <1>1, <2>2, <2>3 DEF ListsOf
<1> HIDE DEF list
<1>3. CASE options.deadCode
  <2>1. result = PerformDeadCodeElimination(list)
    BY <1>3 DEF ListOf
  <2>2. PICK K : Elimination(list, K, result)
    BY <1>2, <2>1, CompilableReads, EliminationHolds
  <2> HIDE DEF result
  <2>3. K \in [1 .. n + 1 -> SUBSET Cells] /\ K[n + 1] = {} /\ Len(result) = n /\ DOMAIN result = 1..n
    BY <1>2, <2>2 DEF Elimination
  <2>4. ASSUME NEW i \in 1..n
        PROVE  /\ CompiledTo(packets[i], result[i], K[i + 1])
               /\ \A c \in K[i] :
                    /\ \A j \in 1 .. Len(packets[i].nuances) : c \notin packets[i].nuances[j].in
                    /\ c \in K[i + 1] \/ (c # "mem" /\ \E j \in 1 .. Len(packets[i].nuances) : c \in packets[i].nuances[j].out)
    <3> DEFINE d == packets[i]
               after == K[i + 1]
    <3>1. d \in Fetchable /\ list[i] = Entries(d)
      BY <1>1, <1>2
    <3>2. K[i] = NextMask(Entries(d), after) /\ result[i] = [j \in DOMAIN Entries(d) |-> Eliminated(Entries(d)[j], after)]
      BY <1>2, <2>2, <3>1 DEF Elimination
    <3>3. after \in SUBSET Cells
      <4>1. i + 1 \in 1 .. n + 1
        BY <1>1
      <4> QED BY <2>3, <4>1
    <3> HIDE DEF d, after
    <3>4. CompiledTo(d, result[i], after)
      BY <3>1, <3>2, EliminatedCompiled
    <3>5. \A c \in K[i] :
            /\ \A j \in 1 .. Len(d.nuances) : c \notin d.nuances[j].in
            /\ c \in after \/ (c # "mem" /\ \E j \in 1 .. Len(d.nuances) : c \in d.nuances[j].out)
      BY <3>1, <3>2, <3>3, EntriesMasked
    <3> QED BY <3>4, <3>5 DEF d, after
  <2>5. \A i \in 1 .. n + 1 : "mem" \notin K[i]
    <3>1. \A i \in 1..n : \A c \in K[i] : c \in K[i + 1] \/ c # "mem"
      BY <2>4
    <3> QED BY <1>1, <2>3, <3>1, NotMemory
  <2>6. \A i \in 1..n : MaskedBy(packets[i], K[i], K[i + 1])
    <3>1. \A i \in 1..n : \A c \in K[i] : c # "mem"
      BY <1>1, <2>5
    <3> QED BY <2>4, <3>1 DEF MaskedBy
  <2>7. IsCompiled(packets, result, K)
    <3>1. \A i \in 1..n : CompiledTo(packets[i], result[i], K[i + 1])
      BY <2>4
    <3> QED BY ONLY <2>3, <2>6, <3>1 DEF IsCompiled
  <2> QED BY <2>7 DEF result, list
<1>4. CASE ~options.deadCode
  <2> DEFINE K == [i \in 1 .. n + 1 |-> {}]
  <2>1. result = list
    BY <1>4 DEF ListOf
  <2>2. K \in [1 .. n + 1 -> SUBSET Cells] /\ K[n + 1] = {} /\ \A i \in 1..n : K[i] = {} /\ K[i + 1] = {}
    BY <1>1
  <2> HIDE DEF K
  <2>3. \A i \in 1..n : CompiledTo(packets[i], list[i], K[i + 1])
    BY <1>1, <1>2, <2>2, EntriesCompiled
  <2>4. \A i \in 1..n : MaskedBy(packets[i], K[i], K[i + 1])
    BY <2>2 DEF MaskedBy
  <2>5. IsCompiled(packets, list, K)
    <3>1. Len(list) = n /\ DOMAIN list = 1..n
      BY <1>2
    <3>2. K \in [1 .. n + 1 -> SUBSET Cells] /\ K[n + 1] = {}
      BY <2>2
    <3> QED BY ONLY <2>3, <2>4, <3>1, <3>2 DEF IsCompiled
  <2> QED BY <2>1, <2>5 DEF list
<1> QED BY <1>3, <1>4 DEF list

\* A compiled block: its packets, where they are from the address a on, which
\* of them is a branch, and what need not be written before each.
IsBlock(a, b, packets, t, pos, K) ==
  /\ Laid(a, t, b.processed, packets, pos)
  /\ b.exit = a + b.processed
  /\ t < b.processed => b.branch /\ b.processed = t + (IF EcuAt(a + t).nop THEN 1 ELSE 3)
  /\ IsCompiled(packets, b.list, K)
  /\ Len(b.list) <= options.max + 2
  /\ b.at = [i \in DOMAIN packets |-> packets[i].pcexec]
  /\ b.branch \in BOOLEAN /\ b.native \in BOOLEAN

LEMMA CompileBlockHolds ==
  ASSUME program \in Programs, options \in Options, NEW a \in Int
  PROVE  \E packets, t, pos, K : IsBlock(a, CompileBlock(a), packets, t, pos, K)
<1> DEFINE f == FetchSuperBlock(a)
           b == CompileBlock(a)
<1>1. options.max \in Nat /\ options.deadCode \in BOOLEAN /\ options.native \in BOOLEAN
  BY SuperBlockAssumption
<1>2. f \in FetchRecord /\ \E t, pos : Fetched(a, f, t, pos)
  BY <1>1, FetchHolds DEF FetchInv
<1>3. PICK t, pos : Fetched(a, f, t, pos)
  BY <1>2
<1>4. f.packets \in Seq(Fetchable) /\ f.branch \in BOOLEAN
  BY <1>2 DEF FetchRecord
<1>5. PICK K : IsCompiled(f.packets, ListOf([i \in DOMAIN f.packets |-> Entries(f.packets[i])]), K)
  BY <1>1, <1>4, ListHolds
<1> HIDE DEF f
<1>6. /\ b.list = ListOf([i \in DOMAIN f.packets |-> Entries(f.packets[i])])
      /\ b.at = [i \in DOMAIN f.packets |-> f.packets[i].pcexec]
      /\ b.exit = f.exit /\ b.processed = f.processed /\ b.branch = f.branch /\ b.native \in BOOLEAN
  BY DEF CompileBlock, Compiled, f
<1> HIDE DEF b
<1>7. IsBlock(a, b, f.packets, t, pos, K)
  BY <1>3, <1>4, <1>5, <1>6 DEF IsBlock, Fetched, IsCompiled
<1> QED BY <1>7 DEF b

-----------------------------------------------------------------------------
(* What is written again before it is read                                 *)

\* The branch of a packet.
LEMMA EcuFields ==
  ASSUME program \in Programs, NEW a
  PROVE  /\ Has(Packet(a), "ECU") =>
               /\ EcuAt(a) \in Packet(a).units /\ EcuAt(a).unit = "ECU"
               /\ EcuAt(a).cond \in BOOLEAN /\ EcuAt(a).nop \in BOOLEAN /\ EcuAt(a).link \in BOOLEAN
               /\ EcuAt(a).to \in Int /\ (EcuAt(a).to = Nowhere => ~EcuAt(a).link)
               /\ EcuAt(a).loads = FALSE
               /\ EcuAt(a).in = (IF EcuAt(a).cond THEN {"z"} ELSE {}) \cup (IF EcuAt(a).to = InRz THEN {"rz"} ELSE {})
               /\ EcuAt(a).out = (IF EcuAt(a).link THEN {"rz"} ELSE {})
         /\ \A n \in Packet(a).units : n.unit = "ECU" => n = EcuAt(a) /\ Has(Packet(a), "ECU")
<1> DEFINE p == Packet(a)
           e == EcuAt(a)
<1>1. IsPacket(p)
  BY PacketIsPacket
<1>2. ASSUME Has(p, "ECU") PROVE e \in p.units /\ e.unit = "ECU"
  BY <1>2 DEF Has, EcuAt, Unit
<1>3. ASSUME NEW n \in p.units, n.unit = "ECU" PROVE n = e /\ Has(p, "ECU")
  <2>1. Has(p, "ECU")
    BY <1>3 DEF Has
  <2> QED BY <1>1, <1>2, <1>3, <2>1 DEF IsPacket
<1>4. ASSUME Has(p, "ECU") PROVE Nuance(e) /\ e = Ecu(e.cond, e.to, e.nop, e.link)
  BY <1>1, <1>2, <1>4, InstructionIsNuance DEF IsPacket
<1> HIDE DEF p, e
<1>5. ASSUME Has(p, "ECU")
      PROVE  /\ e.cond \in BOOLEAN /\ e.nop \in BOOLEAN /\ e.link \in BOOLEAN
             /\ e.to \in Int /\ (e.to = Nowhere => ~e.link)
             /\ e.in = (IF e.cond THEN {"z"} ELSE {}) \cup (IF e.to = InRz THEN {"rz"} ELSE {})
             /\ e.out = (IF e.link THEN {"rz"} ELSE {})
  BY <1>2, <1>4, <1>5 DEF Nuance
<1>6. ASSUME Has(p, "ECU") PROVE e.loads = FALSE
  <2>1. Ecu(e.cond, e.to, e.nop, e.link).loads = FALSE
    BY DEF Ecu
  <2> QED BY <1>4, <1>6, <2>1
<1> QED BY <1>2, <1>3, <1>5, <1>6 DEF p, e

LEMMA BranchKinds ==
  ASSUME program \in Programs, NEW a
  PROVE  /\ Branches(a) <=> Has(Packet(a), "ECU") /\ EcuAt(a).to # Nowhere
         /\ Jumps(a) <=> Has(Packet(a), "ECU") /\ EcuAt(a).to # Nowhere /\ ~EcuAt(a).cond
         /\ Delays(a) <=> (Has(Packet(a), "ECU") => ~EcuAt(a).nop)
         /\ Calls(a) <=> Has(Packet(a), "ECU") /\ EcuAt(a).link /\ ~EcuAt(a).cond
<1>1. /\ Has(Packet(a), "ECU") => EcuAt(a) \in Packet(a).units /\ EcuAt(a).unit = "ECU"
      /\ \A n \in Packet(a).units : n.unit = "ECU" => n = EcuAt(a) /\ Has(Packet(a), "ECU")
  BY EcuFields
<1>2. Branches(a) <=> Has(Packet(a), "ECU") /\ EcuAt(a).to # Nowhere
  BY <1>1 DEF Branches
<1>3. Jumps(a) <=> Has(Packet(a), "ECU") /\ EcuAt(a).to # Nowhere /\ ~EcuAt(a).cond
  BY <1>1 DEF Jumps
<1>4. Delays(a) <=> (Has(Packet(a), "ECU") => ~EcuAt(a).nop)
  BY <1>1 DEF Delays
<1>5. Calls(a) <=> Has(Packet(a), "ECU") /\ EcuAt(a).link /\ ~EcuAt(a).cond
  BY <1>1 DEF Calls
<1> QED BY <1>2, <1>3, <1>4, <1>5

\* Something that need not agree: it is written again, from where a processor is.
Hidden(c, a, skip) == \E j \in 0 .. Len(program) : Overwritten(c, a, skip, j)

LEMMA HiddenUnread ==
  ASSUME NEW a \in Int, NEW skip, NEW c, Hidden(c, a, skip), NEW n \in Packet(a).units, c \in Reads(n)
  PROVE  n.unit = "ECU" /\ skip # 0
<1>1. PICK j \in 0 .. Len(program) : Overwritten(c, a, skip, j)
  BY DEF Hidden
<1>2. Unread(c, a, skip, 0)
  <2>1. 0 \in 0..j
    BY <1>1
  <2> QED BY <1>1, <2>1 DEF Overwritten
<1>3. a + 0 = a /\ ~\E h \in 0 .. 0 - 1 : Jumps(a + h)
  OBVIOUS
<1> QED BY <1>2, <1>3 DEF Unread

\* The processor behind a packet: it has taken the branch of the packet, or
\* counts the delay slots of an earlier one.
SkipAfter(a, skip, takes) ==
  IF takes THEN (IF EcuAt(a).nop THEN 0 ELSE 2) ELSE IF skip = 0 THEN 0 ELSE skip - 1
\* It has not gone somewhere else.
GoesOn(a, skip, takes) == IF takes THEN ~EcuAt(a).nop ELSE skip # 1
Certainly(c, a, takes) == c \in WrittenAt(a) \/ (c = "rz" /\ takes /\ EcuAt(a).link)
MayTake(a, skip, takes) ==
  /\ takes \in BOOLEAN
  /\ takes => Has(Packet(a), "ECU") /\ skip = 0 /\ EcuAt(a).to # Nowhere
  /\ Has(Packet(a), "ECU") /\ skip = 0 /\ EcuAt(a).to # Nowhere /\ ~EcuAt(a).cond => takes

LEMMA HiddenStep ==
  ASSUME program \in Programs, NEW a \in Int, NEW skip \in 0..3, NEW c, Hidden(c, a, skip), NEW takes, MayTake(a, skip, takes)
  PROVE  \/ Certainly(c, a, takes)
         \/ GoesOn(a, skip, takes) /\ Hidden(c, a + 1, SkipAfter(a, skip, takes))
<1> DEFINE after == SkipAfter(a, skip, takes)
<1>1. PICK j \in 0 .. Len(program) : Overwritten(c, a, skip, j)
  BY DEF Hidden
<1>2. Len(program) \in Nat /\ j \in Nat
  BY ProgramAssumption
<1>3. /\ Branches(a) <=> Has(Packet(a), "ECU") /\ EcuAt(a).to # Nowhere
      /\ Jumps(a) <=> Has(Packet(a), "ECU") /\ EcuAt(a).to # Nowhere /\ ~EcuAt(a).cond
      /\ Delays(a) <=> (Has(Packet(a), "ECU") => ~EcuAt(a).nop)
      /\ Calls(a) <=> Has(Packet(a), "ECU") /\ EcuAt(a).link /\ ~EcuAt(a).cond
  BY BranchKinds
<1>4. Has(Packet(a), "ECU") => EcuAt(a).cond \in BOOLEAN /\ EcuAt(a).nop \in BOOLEAN /\ (EcuAt(a).to = Nowhere => ~EcuAt(a).link)
  BY EcuFields
<1>5. CASE j = 0
  <2>1. \/ c \in WrittenAt(a + 0)
        \/ c = "rz" /\ Calls(a + 0) /\ skip = 0
    BY <1>1, <1>5 DEF Overwritten
  <2>2. a + 0 = a
    OBVIOUS
  <2>3. Certainly(c, a, takes)
    BY <1>3, <1>4, <2>1, <2>2 DEF Certainly, MayTake
  <2> QED BY <2>3
<1>6. CASE j # 0
  <2> DEFINE m == j - 1
  <2>1. m \in Nat /\ m \in 0 .. Len(program) /\ m + 1 = j
    BY <1>1, <1>2, <1>6
  <2>2. \A i \in 0..m : i + 1 \in 0..j /\ (a + 1) + i = a + (i + 1) /\ a + 0 = a
    BY <1>2, <2>1
  <2>3. Reached(a, skip, j)
    BY <1>1 DEF Overwritten
  <2>4. \A i \in 0..m : Unread(c, a, skip, i + 1)
    BY <1>1, <2>2 DEF Overwritten
  <2> HIDE DEF m
  <2>5. CASE skip # 0
    <3>1. ~takes
      BY <2>5 DEF MayTake
    <3>2. j < skip
      BY <2>3, <2>5 DEF Reached
    <3>3. after = skip - 1 /\ after # 0 /\ GoesOn(a, skip, takes) /\ m < after /\ after \in Int
      BY <1>2, <2>1, <2>5, <1>6, <3>1, <3>2 DEF SkipAfter, GoesOn
    <3> HIDE DEF after
    <3>4. Reached(a + 1, after, m)
      BY <3>3 DEF Reached
    <3>5. ASSUME NEW i \in 0..m PROVE Unread(c, a + 1, after, i)
      <4>1. Unread(c, a, skip, i + 1) /\ (a + 1) + i = a + (i + 1)
        BY <2>2, <2>4
      <4> QED BY <3>3, <4>1 DEF Unread
    <3>6. c \in WrittenAt((a + 1) + m)
      <4>1. a + j = (a + 1) + m
        BY <1>2, <2>1
      <4> QED BY <1>1, <2>5, <4>1 DEF Overwritten
    <3>7. Overwritten(c, a + 1, after, m)
      BY <3>4, <3>5, <3>6 DEF Overwritten
    <3> QED BY <2>1, <3>3, <3>7 DEF Hidden, after
  <2>6. CASE skip = 0 /\ takes
    <3>1. Branches(a) /\ ~EcuAt(a).nop /\ j <= 2
      <4>1. Has(Packet(a), "ECU") /\ Branches(a)
        BY <1>3, <2>6 DEF MayTake
      <4>2. 0 \in 0 .. j - 1 /\ ~\E h \in 0 .. 0 - 1 : Jumps(a + h)
        BY <1>2, <1>6
      <4>3. Branches(a + 0) => (Delays(a + 0) /\ j <= 0 + 2) \/ \E h \in 0 .. 0 - 1 : Jumps(a + h)
        BY <2>3, <2>6, <4>2 DEF Reached
      <4>4. a + 0 = a
        OBVIOUS
      <4>5. Delays(a) /\ j <= 2
        BY <4>1, <4>2, <4>3, <4>4
      <4> QED BY <1>3, <4>1, <4>5
    <3>2. after = 2 /\ GoesOn(a, skip, takes) /\ m < 2
      BY <1>2, <2>1, <2>6, <3>1 DEF SkipAfter, GoesOn
    <3> HIDE DEF after
    <3>3. Reached(a + 1, after, m)
      BY <3>2 DEF Reached
    <3>4. ASSUME NEW i \in 0..m PROVE Unread(c, a + 1, after, i)
      <4>1. Unread(c, a, skip, i + 1) /\ (a + 1) + i = a + (i + 1)
        BY <2>2, <2>4
      <4> QED BY <3>2, <4>1 DEF Unread
    <3>5. c \in WrittenAt((a + 1) + m)
      <4>1. a + j = (a + 1) + m /\ a + 0 = a /\ 0 \in 0 .. j - 1
        BY <1>2, <1>6, <2>1
      <4>2. ~\A i \in 0 .. j - 1 : ~Branches(a + i)
        BY <3>1, <4>1
      <4> QED BY <1>1, <4>1, <4>2 DEF Overwritten
    <3>6. Overwritten(c, a + 1, after, m)
      BY <3>3, <3>4, <3>5 DEF Overwritten
    <3> QED BY <2>1, <3>2, <3>6 DEF Hidden, after
  <2>7. CASE skip = 0 /\ ~takes
    <3>1. after = 0 /\ GoesOn(a, skip, takes)
      BY <2>7 DEF SkipAfter, GoesOn
    <3>2. ~Jumps(a) /\ ~Jumps(a + 0)
      <4>1. a + 0 = a
        OBVIOUS
      <4> QED BY <1>3, <2>7, <4>1 DEF MayTake
    <3>3. ASSUME NEW i \in 0..m, \E h \in 0 .. i : Jumps(a + h) PROVE \E h \in 0 .. i - 1 : Jumps((a + 1) + h)
      <4>1. PICK h \in 0 .. i : Jumps(a + h)
        BY <3>3
      <4>2. h # 0
        BY <3>2, <4>1
      <4>3. h - 1 \in 0 .. i - 1 /\ (a + 1) + (h - 1) = a + h
        BY <4>2
      <4> QED BY <4>1, <4>3
    <3> HIDE DEF after
    <3>4. Reached(a + 1, after, m)
      <4> SUFFICES ASSUME NEW i \in 0 .. m - 1, Branches((a + 1) + i)
                   PROVE  \/ Delays((a + 1) + i) /\ m <= i + 2
                          \/ \E h \in 0 .. i - 1 : Jumps((a + 1) + h)
        BY <3>1 DEF Reached
      <4>1. i \in 0..m /\ i + 1 \in 0 .. j - 1 /\ (a + 1) + i = a + (i + 1) /\ (i + 1) - 1 = i
        BY <2>1
      <4>2. \/ Delays(a + (i + 1)) /\ j <= (i + 1) + 2
            \/ \E h \in 0 .. (i + 1) - 1 : Jumps(a + h)
        BY <2>3, <2>7, <4>1 DEF Reached
      <4>3. j <= (i + 1) + 2 => m <= i + 2
        BY <1>2, <2>1, <4>1
      <4>4. CASE Delays(a + (i + 1)) /\ j <= (i + 1) + 2
        BY <4>1, <4>3, <4>4
      <4>5. CASE \E h \in 0 .. (i + 1) - 1 : Jumps(a + h)
        BY <3>3, <4>1, <4>5
      <4> QED BY <4>2, <4>4, <4>5
    <3>5. ASSUME NEW i \in 0..m PROVE Unread(c, a + 1, after, i)
      <4>1. Unread(c, a, skip, i + 1) /\ (a + 1) + i = a + (i + 1) /\ (i + 1) - 1 = i
        BY <2>2, <2>4
      <4>2. ASSUME NEW n \in Packet((a + 1) + i).units, c \in Reads(n)
            PROVE  n.unit = "ECU" /\ \E h \in 0 .. i - 1 : Jumps((a + 1) + h)
        <5>1. n.unit = "ECU" /\ (skip # 0 \/ \E h \in 0 .. (i + 1) - 1 : Jumps(a + h))
          BY <4>1, <4>2 DEF Unread
        <5> QED BY <2>7, <3>3, <4>1, <5>1
      <4> QED BY <4>2 DEF Unread
    <3>6. \/ c \in WrittenAt((a + 1) + m)
          \/ c = "rz" /\ Calls((a + 1) + m) /\ after = 0 /\ \A i \in 0 .. m - 1 : ~Branches((a + 1) + i)
      <4>1. a + j = (a + 1) + m
        BY <1>2, <2>1
      <4>2. CASE c \in WrittenAt(a + j)
        BY <4>1, <4>2
      <4>3. CASE c = "rz" /\ Calls(a + j) /\ skip = 0 /\ \A i \in 0 .. j - 1 : ~Branches(a + i)
        <5>1. ASSUME NEW i \in 0 .. m - 1 PROVE ~Branches((a + 1) + i)
          <6>1. i + 1 \in 0 .. j - 1 /\ (a + 1) + i = a + (i + 1)
            BY <2>1
          <6> QED BY <4>3, <6>1
        <5> QED BY <3>1, <4>1, <4>3, <5>1
      <4> QED BY <1>1, <4>2, <4>3 DEF Overwritten
    <3>7. Overwritten(c, a + 1, after, m)
      BY <3>4, <3>5, <3>6 DEF Overwritten
    <3> QED BY <2>1, <3>1, <3>7 DEF Hidden, after
  <2> QED BY <2>5, <2>6, <2>7 DEF MayTake
<1> QED BY <1>5, <1>6

-----------------------------------------------------------------------------
(* A processor and its reference                                           *)

LEMMA TakesMayTake ==
  ASSUME program \in Programs, NEW a, NEW x
  PROVE  MayTake(a, x.ecuSkipCounter, TakesAt(a, x))
<1>1. Has(Packet(a), "ECU") => EcuAt(a).cond \in BOOLEAN
  BY EcuFields
<1>2. TakesAt(a, x) \in BOOLEAN
  BY DEF TakesAt
<1>3. TakesAt(a, x) => Has(Packet(a), "ECU") /\ x.ecuSkipCounter = 0 /\ EcuAt(a).to # Nowhere
  BY DEF TakesAt, Taken
<1>4. Has(Packet(a), "ECU") /\ x.ecuSkipCounter = 0 /\ EcuAt(a).to # Nowhere /\ ~EcuAt(a).cond => TakesAt(a, x)
  BY <1>1 DEF TakesAt, Taken
<1> HIDE DEF TakesAt
<1> QED BY <1>2, <1>3, <1>4 DEF MayTake

\* An execution of one packet by the reference: where it goes.
Moves(r, takes, r2) ==
  /\ r2 \in State
  /\ r2.ecuSkipCounter = SkipAfter(r.pcexec, r.ecuSkipCounter, takes)
  /\ r2.pcexec = (IF GoesOn(r.pcexec, r.ecuSkipCounter, takes) THEN r.pcexec + 1 ELSE r2.pcfetchnext)
  /\ ~takes => r2.pcfetchnext = r.pcfetchnext

LEMMA ReferenceStep ==
  ASSUME program \in Programs, NEW r \in State
  PROVE  /\ Moves(r, TakesAt(r.pcexec, Beginning(r)), Interpreted(r))
         /\ Interpreted(r).interpretNextPacket = 0
         /\ \E y : Executes(r.pcexec, {}, 3, Beginning(r), y) /\ Interpreted(r).f = y.f /\ Interpreted(r).pcfetchnext = y.pcfetchnext
<1> DEFINE a == r.pcexec
           x == Beginning(r)
           r2 == Interpreted(r)
           takes == TakesAt(a, x)
<1>1. PICK y : Executes(a, {}, 3, x, y) /\ y.pcexec = a + 1 /\ y.interpretNextPacket = 0 /\ r2 = Retired(y)
  BY InterpretedExecutes
<1>2. y \in State
  BY <1>1 DEF Executes
<1>3. /\ r2 \in State /\ r2.f = y.f /\ r2.pcfetchnext = y.pcfetchnext /\ r2.interpretNextPacket = y.interpretNextPacket
      /\ r2.ecuSkipCounter = (IF y.ecuSkipCounter = 0 THEN 0 ELSE y.ecuSkipCounter - 1)
      /\ r2.pcexec = (IF y.ecuSkipCounter = 1 THEN y.pcfetchnext ELSE y.pcexec)
  BY <1>1, <1>2, RetiredType
<1>4. x.ecuSkipCounter = r.ecuSkipCounter /\ x.pcfetchnext = r.pcfetchnext
  BY BeginningType
<1>5. IF takes THEN y.ecuSkipCounter = (IF EcuAt(a).nop THEN 1 ELSE 3)
      ELSE y.pcfetchnext = r.pcfetchnext /\ y.ecuSkipCounter = r.ecuSkipCounter
  BY <1>1, <1>4 DEF Executes
<1>6. takes => Has(Packet(a), "ECU")
  BY DEF TakesAt
<1>7. takes => EcuAt(a).nop \in BOOLEAN
  BY <1>6, EcuFields
<1>8. r.ecuSkipCounter \in 0..3
  BY DEF State
<1> HIDE DEF takes, a, r2, x
<1>9. r2.ecuSkipCounter = SkipAfter(a, r.ecuSkipCounter, takes)
  BY <1>3, <1>5, <1>7, <1>8 DEF SkipAfter
<1>10. r2.pcexec = (IF GoesOn(a, r.ecuSkipCounter, takes) THEN a + 1 ELSE r2.pcfetchnext)
  BY <1>1, <1>3, <1>5, <1>7, <1>8 DEF GoesOn
<1>11. Moves(r, takes, r2)
  BY <1>3, <1>5, <1>9, <1>10 DEF Moves, a
<1> QED BY <1>1, <1>3, <1>11 DEF takes, a, r2, x

\* Where they are apart, and what may become of it.
Concealed(x, r, a, skip) == \A c \in Cells : x.f[c] # r.f[c] => Hidden(c, a, skip)

LEMMA SameReads ==
  ASSUME program \in Programs, NEW a \in Int, NEW x \in State, NEW r \in State, NEW skip, Concealed(x, r, a, skip)
  PROVE  /\ \A n \in Scheduling(Packet(a)) : \A c \in Cells : Result(n, c, x.f) = Result(n, c, r.f)
         /\ Has(Packet(a), "ECU") /\ skip = 0 => Agree(EcuAt(a), x.f, r.f)
<1>1. IsPacket(Packet(a))
  BY PacketIsPacket
<1>2. ASSUME NEW n \in Packet(a).units, n.unit # "ECU" \/ skip = 0, NEW c \in Reads(n) PROVE x.f[c] = r.f[c]
  <2>1. c \in Cells
    <3>1. Nuance(n)
      BY <1>1, InstructionIsNuance DEF IsPacket
    <3> QED BY <3>1 DEF Nuance, Reads, Readable, Cells
  <2> QED BY <1>2, <2>1, HiddenUnread DEF Concealed
<1>3. \A n \in Scheduling(Packet(a)) : \A c \in Cells : Result(n, c, x.f) = Result(n, c, r.f)
  <2> SUFFICES ASSUME NEW n \in Scheduling(Packet(a)), NEW c \in Cells PROVE Result(n, c, x.f) = Result(n, c, r.f)
    OBVIOUS
  <2>1. n \in Packet(a).units /\ n.unit # "ECU"
    BY DEF Scheduling
  <2>2. \A d \in Reads(n) : x.f[d] = r.f[d]
    BY <1>2, <2>1
  <2> QED BY <2>2, SameResult
<1>4. ASSUME Has(Packet(a), "ECU"), skip = 0 PROVE Agree(EcuAt(a), x.f, r.f)
  <2>1. EcuAt(a) \in Packet(a).units
    BY <1>4, EcuFields
  <2>2. \A c \in EcuAt(a).in : c \in Reads(EcuAt(a))
    BY DEF Reads
  <2> QED BY <1>2, <1>4, <2>1, <2>2 DEF Agree
<1> QED BY <1>3, <1>4

LEMMA SameTakes ==
  ASSUME program \in Programs, NEW a \in Int, NEW x \in State, NEW r \in State, Concealed(x, r, a, r.ecuSkipCounter),
         x.ecuSkipCounter = 0 <=> r.ecuSkipCounter = 0
  PROVE  /\ TakesAt(a, x) = TakesAt(a, r)
         /\ TakesAt(a, r) => Target(EcuAt(a), x.f) = Target(EcuAt(a), r.f)
<1>1. CASE Has(Packet(a), "ECU") /\ r.ecuSkipCounter = 0
  <2> DEFINE e == EcuAt(a)
  <2>1. Agree(e, x.f, r.f)
    BY <1>1, SameReads
  <2>2. e.in = (IF e.cond THEN {"z"} ELSE {}) \cup (IF e.to = InRz THEN {"rz"} ELSE {})
    BY <1>1, EcuFields
  <2> HIDE DEF e
  <2>3. (e.cond => x.f["z"] = r.f["z"]) /\ (e.to = InRz => x.f["rz"] = r.f["rz"])
    BY <2>1, <2>2 DEF Agree
  <2>4. Target(e, x.f) = Target(e, r.f)
    BY <2>3 DEF Target
  <2>5. Taken(e, x, x.f) <=> Taken(e, r, r.f)
    BY <1>1, <2>3 DEF Taken
  <2> QED BY <1>1, <2>4, <2>5 DEF TakesAt, e
<1>2. CASE ~(Has(Packet(a), "ECU") /\ r.ecuSkipCounter = 0)
  <2>1. ~TakesAt(a, x) /\ ~TakesAt(a, r)
    BY <1>2 DEF TakesAt, Taken
  <2>2. TakesAt(a, x) \in BOOLEAN /\ TakesAt(a, r) \in BOOLEAN
    BY DEF TakesAt
  <2> HIDE DEF TakesAt
  <2> QED BY <2>1, <2>2
<1> QED BY <1>1, <1>2

\* Both have executed a packet.
LEMMA SameExecution ==
  ASSUME program \in Programs, NEW a \in Int, NEW x \in State, NEW r \in State, Concealed(x, r, a, r.ecuSkipCounter),
         x.ecuSkipCounter = 0 <=> r.ecuSkipCounter = 0,
         NEW left, NEW s, NEW y, Executes(a, left, s, x, y), NEW s2, NEW r2, Executes(a, {}, s2, r, r2)
  PROVE  /\ TakesAt(a, r) => y.pcfetchnext = r2.pcfetchnext
         /\ \A c \in Cells : y.f[c] # r2.f[c] =>
               \/ c \in left /\ c \in WrittenAt(a)
               \/ x.f[c] # r.f[c] /\ ~Certainly(c, a, TakesAt(a, r))
<1>1. TakesAt(a, x) = TakesAt(a, r) /\ (TakesAt(a, r) => Target(EcuAt(a), x.f) = Target(EcuAt(a), r.f))
  BY SameTakes
<1>2. CallsAt(a, x) <=> CallsAt(a, r)
  BY <1>1 DEF CallsAt
<1>3. TakesAt(a, r) => y.pcfetchnext = r2.pcfetchnext
  BY <1>1 DEF Executes
<1>4. \A n \in Scheduling(Packet(a)) : \A c \in Cells : Result(n, c, x.f) = Result(n, c, r.f)
  BY SameReads
<1>5. ASSUME NEW c \in Cells, y.f[c] # r2.f[c], ~(c \in left /\ c \in WrittenAt(a))
      PROVE  x.f[c] # r.f[c] /\ ~Certainly(c, a, TakesAt(a, r))
  <2>1. c \notin WrittenAt(a)
    <3> SUFFICES ASSUME c \in WrittenAt(a) PROVE FALSE
      OBVIOUS
    <3>1. PICK n \in Scheduling(Packet(a)) : c \in n.out
      BY DEF WrittenAt, Scheduling
    <3>2. y.f[c] = Result(n, c, x.f)
      BY <1>5, <3>1 DEF Executes
    <3>3. r2.f[c] = Result(n, c, r.f)
      BY <3>1 DEF Executes
    <3> QED BY <1>4, <1>5, <3>2, <3>3
  <2>2. ~(c = "rz" /\ CallsAt(a, r))
    <3> SUFFICES ASSUME c = "rz", CallsAt(a, r) PROVE FALSE
      OBVIOUS
    <3>1. y.f["rz"] = ReturnOf(a) /\ r2.f["rz"] = ReturnOf(a)
      BY <1>2 DEF Executes
    <3> QED BY <1>5, <3>1
  <2>3. y.f[c] = x.f[c] /\ r2.f[c] = r.f[c]
    BY <1>2, <2>1, <2>2 DEF Executes
  <2> QED BY <1>5, <2>1, <2>2, <2>3 DEF Certainly, CallsAt
<1> QED BY <1>3, <1>5

\* The reference interprets a packet that a processor has executed, from x to y.
FollowsTo(x, y, left, r, takes, r2) ==
  /\ TakesAt(r.pcexec, x) = takes /\ Moves(r, takes, r2) /\ MayTake(r.pcexec, r.ecuSkipCounter, takes)
  /\ takes => y.pcfetchnext = r2.pcfetchnext
  /\ \A c \in Cells : y.f[c] # r2.f[c] =>
        \/ c \in left /\ c \in WrittenAt(r.pcexec)
        \/ /\ x.f[c] # Beginning(r).f[c] /\ ~Certainly(c, r.pcexec, takes)
           /\ Hidden(c, r2.pcexec, r2.ecuSkipCounter)

LEMMA TogetherStep ==
  ASSUME program \in Programs, NEW x \in State, NEW r \in State, Concealed(x, Beginning(r), r.pcexec, r.ecuSkipCounter),
         x.ecuSkipCounter = 0 <=> r.ecuSkipCounter = 0,
         NEW left, NEW s, NEW y, Executes(r.pcexec, left, s, x, y)
  PROVE  FollowsTo(x, y, left, r, TakesAt(r.pcexec, Beginning(r)), Interpreted(r))
<1> DEFINE r2 == Interpreted(r)
           a == r.pcexec
           b == Beginning(r)
           takes == TakesAt(a, b)
<1>1. b \in State /\ b.ecuSkipCounter = r.ecuSkipCounter /\ a \in Int /\ r.ecuSkipCounter \in 0..3
  BY BeginningType DEF State
<1>2. /\ Moves(r, takes, r2)
      /\ \E z : Executes(a, {}, 3, b, z) /\ r2.f = z.f /\ r2.pcfetchnext = z.pcfetchnext
  BY ReferenceStep
<1>3. PICK z : Executes(a, {}, 3, b, z) /\ r2.f = z.f /\ r2.pcfetchnext = z.pcfetchnext
  BY <1>2
<1>4. TakesAt(a, x) = takes
  BY <1>1, SameTakes
<1>5. /\ takes => y.pcfetchnext = z.pcfetchnext
      /\ \A c \in Cells : y.f[c] # z.f[c] =>
               \/ c \in left /\ c \in WrittenAt(a)
               \/ x.f[c] # b.f[c] /\ ~Certainly(c, a, takes)
  BY <1>1, <1>3, SameExecution
<1>6. MayTake(a, r.ecuSkipCounter, takes)
  BY <1>1, TakesMayTake
<1> HIDE DEF a, b, takes, r2
<1>7. ASSUME NEW c \in Cells, x.f[c] # b.f[c], ~Certainly(c, a, takes) PROVE Hidden(c, r2.pcexec, r2.ecuSkipCounter)
  <2>1. Hidden(c, a, r.ecuSkipCounter)
    BY <1>7 DEF Concealed, a, b
  <2>2. GoesOn(a, r.ecuSkipCounter, takes) /\ Hidden(c, a + 1, SkipAfter(a, r.ecuSkipCounter, takes))
    BY <1>1, <1>6, <1>7, <2>1, HiddenStep
  <2> QED BY <1>2, <2>2 DEF Moves, a
<1>8. \A c \in Cells : y.f[c] # r2.f[c] =>
               \/ c \in left /\ c \in WrittenAt(a)
               \/ x.f[c] # b.f[c] /\ ~Certainly(c, a, takes) /\ Hidden(c, r2.pcexec, r2.ecuSkipCounter)
  BY <1>3, <1>5, <1>7
<1> QED BY <1>2, <1>3, <1>4, <1>5, <1>6, <1>8 DEF a, b, takes, r2, FollowsTo

\* The two after a packet was interpreted by both, and they agree as Lockstep
\* and LateIsUnseen say; unseen are the cells that may differ.
Together(x, r, unseen) ==
  /\ x \in State /\ r \in State
  /\ x.pcexec = r.pcexec /\ x.ecuSkipCounter = r.ecuSkipCounter
  /\ x.ecuSkipCounter # 0 => x.pcfetchnext = r.pcfetchnext
  /\ \A c \in Cells : x.f[c] # r.f[c] => c \in unseen /\ Hidden(c, r.pcexec, r.ecuSkipCounter)

LEMMA BeginningApart ==
  ASSUME NEW x \in State, NEW r \in State, x.pcexec = r.pcexec, NEW c \in Cells, Beginning(x).f[c] # Beginning(r).f[c]
  PROVE  x.f[c] # r.f[c]
<1>1. CASE Packet(r.pcexec).breakpoint
  <2>1. c # "excepsrc"
    BY <1>1, BeginningType
  <2>2. Beginning(x).f[c] = x.f[c] /\ Beginning(r).f[c] = r.f[c]
    BY <2>1, BeginningType
  <2> QED BY <2>2
<1>2. CASE ~Packet(r.pcexec).breakpoint
  BY <1>2, BeginningType
<1> QED BY <1>1, <1>2

LEMMA InterpretTogether ==
  ASSUME program \in Programs, NEW x, NEW r, NEW unseen, Together(x, r, unseen)
  PROVE  Together(Interpreted(x), Interpreted(r), unseen)
<1> DEFINE a == r.pcexec
           bx == Beginning(x)
           br == Beginning(r)
           x2 == Interpreted(x)
           r2 == Interpreted(r)
           takes == TakesAt(a, br)
<1>1. x \in State /\ r \in State /\ x.pcexec = a /\ x.ecuSkipCounter = r.ecuSkipCounter
      /\ (x.ecuSkipCounter # 0 => x.pcfetchnext = r.pcfetchnext)
  BY DEF Together
<1>2. bx \in State /\ bx.ecuSkipCounter = r.ecuSkipCounter
  BY <1>1, BeginningType
<1>3. \A c \in Cells : bx.f[c] # br.f[c] => x.f[c] # r.f[c]
  BY <1>1, BeginningApart
<1>4. Concealed(bx, br, a, r.ecuSkipCounter)
  BY <1>3 DEF Concealed, Together
<1>5. PICK y : Executes(a, {}, 3, bx, y) /\ x2.f = y.f /\ x2.pcfetchnext = y.pcfetchnext
  BY <1>1, ReferenceStep
<1>6. Moves(x, TakesAt(a, bx), x2)
  BY <1>1, ReferenceStep
<1>7. /\ TakesAt(a, bx) = takes /\ Moves(r, takes, r2)
      /\ takes => y.pcfetchnext = r2.pcfetchnext
      /\ \A c \in Cells : y.f[c] # r2.f[c] => bx.f[c] # br.f[c] /\ Hidden(c, r2.pcexec, r2.ecuSkipCounter)
  <2>1. bx.ecuSkipCounter = 0 <=> r.ecuSkipCounter = 0
    BY <1>2
  <2>2. FollowsTo(bx, y, {}, r, takes, r2)
    BY <1>1, <1>2, <1>4, <1>5, <2>1, TogetherStep
  <2> QED BY <2>2 DEF FollowsTo
<1>8. TakesAt(a, bx) => bx.ecuSkipCounter = 0
  BY DEF TakesAt, Taken
<1> HIDE DEF bx, br, x2, r2, takes
<1>9. /\ x2 \in State /\ r2 \in State /\ x2.ecuSkipCounter = r2.ecuSkipCounter
      /\ x2.ecuSkipCounter = SkipAfter(a, r.ecuSkipCounter, takes)
      /\ x2.pcexec = (IF GoesOn(a, r.ecuSkipCounter, takes) THEN a + 1 ELSE x2.pcfetchnext)
      /\ r2.pcexec = (IF GoesOn(a, r.ecuSkipCounter, takes) THEN a + 1 ELSE r2.pcfetchnext)
  BY <1>1, <1>6, <1>7 DEF Moves
<1>10. takes \/ r.ecuSkipCounter # 0 => x2.pcfetchnext = r2.pcfetchnext
  BY <1>1, <1>2, <1>5, <1>6, <1>7, <1>8 DEF Moves
<1>11. x2.pcexec = r2.pcexec
  BY <1>9, <1>10 DEF GoesOn
<1>12. x2.ecuSkipCounter # 0 => x2.pcfetchnext = r2.pcfetchnext
  BY <1>9, <1>10 DEF SkipAfter
<1>13. \A c \in Cells : x2.f[c] # r2.f[c] => c \in unseen /\ Hidden(c, r2.pcexec, r2.ecuSkipCounter)
  BY <1>3, <1>5, <1>7 DEF Together
<1>14. Together(x2, r2, unseen)
  BY <1>9, <1>11, <1>12, <1>13 DEF Together
<1> QED BY <1>14 DEF x2, r2

-----------------------------------------------------------------------------
(* The packets of a block, executed                                        *)

\* No instruction reads what an earlier one of the packet writes needlessly.
NoStray(q) ==
  \A i, j \in 1 .. Len(q) : i < j /\ ~q[i].dead /\ ~q[j].dead => (q[i].n.out \ q[i].out) \cap q[j].n.in = {}
\* No branch and no store is eliminated.
NoneLost(q) == \A i \in 1 .. Len(q) : q[i].dead => q[i].n.unit # "ECU" /\ "mem" \notin q[i].n.out
\* Instructions that may be performed.
Performable(q) ==
  /\ Len(q) \in Nat /\ DOMAIN q = 1 .. Len(q)
  /\ \A i \in 1 .. Len(q) : Nuance(q[i].n) /\ q[i].out \subseteq q[i].n.out /\ q[i].dead \in BOOLEAN
  /\ \A i \in 1 .. Len(q) : q[i].n.unit = "MEM" => i = 1
  /\ EntryList(q)

LEMMA CompiledIsPerformable ==
  ASSUME program \in Programs, NEW d \in Fetchable, NEW q, NEW left, CompiledTo(d, q, left)
  PROVE  Performable(q)
<1>1. /\ Len(q) = Len(d.nuances) /\ Len(q) \in Nat /\ DOMAIN q = 1 .. Len(q)
      /\ \A j \in 1 .. Len(q) : q[j].n = d.nuances[j] /\ q[j].out = d.nuances[j].out \ left /\ q[j].dead \in BOOLEAN
  BY DEF CompiledTo
<1>2. /\ \A i \in 1 .. Len(q) : Nuance(d.nuances[i]) /\ d.nuances[i].out \subseteq Cells
      /\ \A i \in 1 .. Len(q) : d.nuances[i].unit = "MEM" => i = 1
  BY <1>1, FetchableIsDecoded DEF MemoryFirst
<1>3. EntryList(q)
  <2>1. ASSUME NEW i \in 1 .. Len(q) PROVE Entry(q[i])
    <3>1. q[i].n.in \subseteq Cells
      BY <1>1, <1>2 DEF Nuance, Readable, Cells
    <3>2. q[i].out \subseteq Cells
      BY <1>1, <1>2
    <3> QED BY <3>1, <3>2 DEF Entry
  <2> QED BY <1>1, <2>1 DEF EntryList
<1>4. \A i \in 1 .. Len(q) : Nuance(q[i].n) /\ q[i].out \subseteq q[i].n.out /\ q[i].dead \in BOOLEAN
  BY <1>1, <1>2
<1>5. \A i \in 1 .. Len(q) : q[i].n.unit = "MEM" => i = 1
  BY <1>1, <1>2
<1> QED BY <1>1, <1>3, <1>4, <1>5 DEF Performable

LEMMA ExecuteILType ==
  ASSUME NEW x \in State, NEW saved \in BOOLEAN, NEW y \in State, NEW e, Nuance(e.n), e.dead \in BOOLEAN
  PROVE  ExecuteIL(x, saved, y, e) \in State
<1>1. x.f \in Contents /\ y.f \in Contents
  BY DEF State
<1>2. CASE e.dead
  BY <1>2 DEF ExecuteIL
<1>3. CASE ~e.dead /\ saved
  <2>1. ExecuteIL(x, saved, y, e) = Perform(e.n, e.n.out, x.f, x.f, 3, y)
    BY <1>3 DEF ExecuteIL
  <2>2. Perform(e.n, e.n.out, x.f, x.f, 3, y) \in State
    <3>1. e.n.out \in SUBSET e.n.out /\ 3 \in 1..3
      OBVIOUS
    <3> QED BY <1>1, <3>1, PerformType
  <2> QED BY <2>1, <2>2
<1>4. CASE ~e.dead /\ ~saved
  <2>1. ExecuteIL(x, saved, y, e) = Perform(e.n, e.n.out, y.f, x.f, 3, y)
    BY <1>4 DEF ExecuteIL
  <2>2. Perform(e.n, e.n.out, y.f, x.f, 3, y) \in State
    <3>1. e.n.out \in SUBSET e.n.out /\ 3 \in 1..3
      OBVIOUS
    <3> QED BY <1>1, <3>1, PerformType
  <2> QED BY <2>1, <2>2
<1> QED BY <1>2, <1>3, <1>4

LEMMA PacketILRun ==
  ASSUME NEW q, Performable(q), NEW x \in State
  PROVE  \E X \in [0 .. Len(q) -> State] :
            /\ X[0] = x /\ \A i \in 1 .. Len(q) : X[i] = ExecuteIL(x, OpDependencies(q) # {}, X[i - 1], q[i])
            /\ RunPacketIL(q, x) = X[Len(q)]
<1> DEFINE n == Len(q)
           B == State
           base == x
           F == [k \in 1..n |-> [y \in B |-> ExecuteIL(x, OpDependencies(q) # {}, y, q[k])]]
           Is(it) == it = [s \in SUBSET (1..n) |->
                             IF s = {} THEN base ELSE ExecuteIL(x, OpDependencies(q) # {}, it[s \ {Max(s)}], q[Max(s)])]
           it == CHOOSE it : Is(it)
<1>0. n \in Nat
  BY DEF Performable
<1>1. base \in B
  OBVIOUS
<1>2. ASSUME NEW k \in 1..n, NEW y \in B PROVE ExecuteIL(x, OpDependencies(q) # {}, y, q[k]) \in B
  <2>1. Nuance(q[k].n) /\ q[k].dead \in BOOLEAN
    BY DEF Performable
  <2> DEFINE saved == OpDependencies(q) # {}
  <2>2. saved \in BOOLEAN
    OBVIOUS
  <2> HIDE DEF saved
  <2>3. ExecuteIL(x, saved, y, q[k]) \in State
    BY <2>1, <2>2, ExecuteILType
  <2> QED BY <2>3 DEF saved
<1> HIDE DEF base, B
<1>3. F \in [1..n -> [B -> B]]
  BY <1>2
<1>4. \E g : Is(g)
  <2>1. PICK g : FoldsLeft(g, n, B, base, F)
    <3> HIDE DEF F, n
    <3> QED BY <1>0, <1>1, <1>3, FoldLeftExists
  <2>2. \A s \in SUBSET (1..n) : s # {} => Max(s) \in 1..n /\ g[s \ {Max(s)}] \in B
    BY <1>0, <2>1, GreatestOf DEF FoldsLeft
  <2>3. Is(g)
    BY <2>1, <2>2 DEF FoldsLeft
  <2> QED BY <2>3
<1>5. Is(it)
  BY <1>4
<1>6. RunPacketIL(q, x) = it[1..n]
  BY <1>0, DOMAIN q = 1..n DEF RunPacketIL, FoldLeft, MapThenFoldSet, base
<1> HIDE DEF it
<1>7. Upwards(it, n, B, base, F)
  <2>1. it[1..0] = base
    <3>1. 1..0 = {} /\ {} \in SUBSET (1..n)
      OBVIOUS
    <3> QED BY <1>5, <3>1
  <2>2. \A k \in 1..n : it[1..k] = ExecuteIL(x, OpDependencies(q) # {}, it[1 .. k - 1], q[k])
    <3> SUFFICES ASSUME NEW k \in 1..n PROVE it[1..k] = ExecuteIL(x, OpDependencies(q) # {}, it[1 .. k - 1], q[k])
      OBVIOUS
    <3>1. Max(1..k) = k /\ (1..k) \ {k} = 1 .. k - 1 /\ 1..k \in SUBSET (1..n)
      BY <1>0, GreatestOfPrefix
    <3>2. 1..k # {}
      BY <1>0
    <3> QED BY <1>5, <3>1, <3>2
  <2> QED BY <2>1, <2>2 DEF Upwards
<1>8. PICK X : IsRun(X, n, B, base, F) /\ X[n] = it[1..n]
  <2> HIDE DEF F, n
  <2> QED BY <1>0, <1>1, <1>3, <1>7, RunUp
<1>9. \A k \in 1..n : X[k] = ExecuteIL(x, OpDependencies(q) # {}, X[k - 1], q[k])
  <2>1. \A k \in 1..n : k - 1 \in 0..n
    BY <1>0
  <2>2. \A k \in 1..n : X[k] = F[k][X[k - 1]] /\ X[k - 1] \in B
    <3> HIDE DEF F
    <3> QED BY <1>8, <2>1 DEF IsRun
  <2> QED BY <2>2
<1> QED BY <1>6, <1>8, <1>9 DEF IsRun, base, B

\* What instruction j reads of an earlier one, both executed, is in the list of
\* OpDependencies, whether the earlier writes all of its outputs or not.
LEMMA NothingStray ==
  ASSUME NEW q, Performable(q), NoStray(q), NEW i \in 1 .. Len(q), NEW j \in 1 .. Len(q), i < j, ~q[i].dead, ~q[j].dead
  PROVE  q[j].n.in \cap q[i].n.out \subseteq OpDependencies(q)
<1>1. q[j].n.in \cap q[i].out \subseteq OpDependencies(q)
  BY DependenciesFound DEF Performable
<1>2. (q[i].n.out \ q[i].out) \cap q[j].n.in = {}
  BY DEF NoStray
<1> QED BY <1>1, <1>2

\* The instructions of a list, those that are dead, and what is written.
Live(q) == {i \in 1 .. Len(q) : ~q[i].dead}
Written(q, all) == [i \in 1 .. Len(q) |-> IF all THEN q[i].n.out ELSE q[i].out]

LEMMA CompiledOmits ==
  ASSUME program \in Programs, NEW d \in Fetchable, NEW q, NEW left, CompiledTo(d, q, left), NoneLost(q), NEW all \in BOOLEAN
  PROVE  Omits(d.nuances, Written(q, all), Live(q), left)
<1>1. /\ Len(q) = Len(d.nuances) /\ Len(q) \in Nat
      /\ \A j \in 1 .. Len(q) : /\ q[j].n = d.nuances[j] /\ q[j].out = d.nuances[j].out \ left
                                /\ q[j].dead \in BOOLEAN /\ (q[j].dead => d.nuances[j].out \ {"mem"} \subseteq left)
  BY DEF CompiledTo
<1>2. ASSUME NEW i \in 1 .. Len(d.nuances)
      PROVE  /\ Written(q, all)[i] \subseteq d.nuances[i].out
             /\ i \in Live(q) /\ d.nuances[i].unit # "ECU" => d.nuances[i].out \ Written(q, all)[i] \subseteq left
             /\ i \notin Live(q) => d.nuances[i].unit # "ECU" /\ d.nuances[i].out \subseteq left
  <2>1. i \in 1 .. Len(q) /\ q[i].n = d.nuances[i] /\ q[i].out = d.nuances[i].out \ left
        /\ (q[i].dead => d.nuances[i].out \ {"mem"} \subseteq left)
    BY <1>1
  <2>2. Written(q, all)[i] = IF all THEN d.nuances[i].out ELSE d.nuances[i].out \ left
    BY <2>1 DEF Written
  <2>3. i \in Live(q) <=> ~q[i].dead
    BY <2>1 DEF Live
  <2>4. i \notin Live(q) => d.nuances[i].unit # "ECU" /\ "mem" \notin d.nuances[i].out
    BY <2>1, <2>3 DEF NoneLost
  <2>5. i \notin Live(q) => d.nuances[i].out \subseteq left
    BY <2>1, <2>3, <2>4
  <2> QED BY <2>1, <2>2, <2>3, <2>4, <2>5
<1> QED BY <1>2 DEF Omits

LEMMA PacketILPass ==
  ASSUME NEW d, NEW q, Performable(q), NoStray(q), Len(d.nuances) = Len(q), \A i \in 1 .. Len(q) : q[i].n = d.nuances[i],
         NEW x \in State, NEW X, X \in [0 .. Len(q) -> State], X[0] = x,
         \A i \in 1 .. Len(q) : X[i] = ExecuteIL(x, OpDependencies(q) # {}, X[i - 1], q[i])
  PROVE  Pass(d.nuances, Written(q, TRUE), Live(q), 3, x, X)
<1> DEFINE W == Written(q, TRUE)
           saved == OpDependencies(q) # {}
<1>1. ASSUME NEW i \in 1 .. Len(q), ~q[i].dead PROVE StepOfPass(d.nuances, W, Live(q), 3, x, X, i)
  <2> DEFINE from == IF saved THEN x.f ELSE X[i - 1].f
  <2>1. i - 1 \in 0 .. Len(q)
    BY DEF Performable
  <2>2. x.f \in Contents /\ X[i - 1].f \in Contents
    BY <2>1 DEF State
  <2>3. from \in Contents
    BY <2>2
  <2>4. X[i] = Perform(d.nuances[i], W[i], from, x.f, 3, X[i - 1])
    <3>1. W[i] = q[i].n.out /\ q[i].n = d.nuances[i]
      BY DEF Written
    <3>2. X[i] = Perform(q[i].n, q[i].n.out, from, x.f, 3, X[i - 1])
      BY <1>1 DEF ExecuteIL
    <3> HIDE DEF W, from
    <3> QED BY <3>1, <3>2
  <2>5. ASSUME NEW c \in d.nuances[i].in
        PROVE  \/ from[c] = x.f[c]
               \/ from[c] = X[i - 1].f[c] /\ \A j \in 1 .. i - 1 : j \in Live(q) => c \notin W[j]
    <3>1. CASE saved
      BY <3>1
    <3>2. CASE ~saved
      <4>1. from[c] = X[i - 1].f[c]
        BY <3>2
      <4>2. ASSUME NEW j \in 1 .. i - 1, j \in Live(q) PROVE c \notin W[j]
        <5>1. j \in 1 .. Len(q) /\ j < i /\ ~q[j].dead
          BY <4>2 DEF Live, Performable
        <5>2. q[i].n.in \cap q[j].n.out \subseteq OpDependencies(q)
          BY <1>1, <5>1, NothingStray
        <5>3. W[j] = q[j].n.out /\ q[i].n = d.nuances[i]
          BY <5>1 DEF Written
        <5> HIDE DEF W
        <5> QED BY <2>5, <3>2, <5>2, <5>3
      <4> QED BY <4>1, <4>2
    <3> QED BY <3>1, <3>2
  <2> HIDE DEF from, W
  <2> QED BY <2>2, <2>3, <2>4, <2>5 DEF StepOfPass
<1>2. ASSUME NEW i \in 1 .. Len(q), q[i].dead PROVE X[i] = X[i - 1]
  BY <1>2 DEF ExecuteIL
<1>3. \A i \in 1 .. Len(q) : i \in Live(q) <=> ~q[i].dead
  BY DEF Live
<1> HIDE DEF W
<1> QED BY <1>1, <1>2, <1>3 DEF Pass, W

\* A packet that is executed as IL.
LEMMA PacketILHolds ==
  ASSUME program \in Programs, NEW d \in Fetchable, NEW a \in Int,
         NEW q, NEW left, CompiledTo(d, q, left), NoStray(q), NoneLost(q),
         NEW x \in State, DecodedFor(d, a, x)
  PROVE  /\ Executes(a, left, 3, x, RunPacketIL(q, x))
         /\ RunPacketIL(q, x).pcexec = x.pcexec /\ RunPacketIL(q, x).interpretNextPacket = x.interpretNextPacket
<1>1. Performable(q)
  BY CompiledIsPerformable
<1>2. Len(q) = Len(d.nuances) /\ \A i \in 1 .. Len(q) : q[i].n = d.nuances[i]
  BY DEF CompiledTo
<1>3. PICK X \in [0 .. Len(q) -> State] :
         /\ X[0] = x /\ \A i \in 1 .. Len(q) : X[i] = ExecuteIL(x, OpDependencies(q) # {}, X[i - 1], q[i])
         /\ RunPacketIL(q, x) = X[Len(q)]
  BY <1>1, PacketILRun
<1>4. Pass(d.nuances, Written(q, TRUE), Live(q), 3, x, X)
  BY <1>1, <1>2, <1>3, PacketILPass
<1>5. Omits(d.nuances, Written(q, TRUE), Live(q), left)
  BY CompiledOmits
<1>6. /\ Executes(a, left, 3, x, X[Len(d.nuances)])
      /\ X[Len(d.nuances)].pcexec = x.pcexec /\ X[Len(d.nuances)].interpretNextPacket = x.interpretNextPacket
  <2>1. 3 \in 1..3
    OBVIOUS
  <2> DEFINE W == Written(q, TRUE)
             live == Live(q)
  <2>2. Pass(d.nuances, W, live, 3, x, X) /\ Omits(d.nuances, W, live, left)
    BY <1>4, <1>5
  <2> HIDE DEF W, live
  <2> QED BY <2>1, <2>2, PassExecutes
<1> QED BY <1>2, <1>3, <1>6

\* An instruction does not change whether the interpreter comes next.
LEMMA PerformKeeps ==
  ASSUME NEW n, Nuance(n), NEW W \in SUBSET n.out, NEW from \in Contents, NEW tempCC \in Contents,
         NEW skip \in 1..3, NEW x \in State
  PROVE  Perform(n, W, from, tempCC, skip, x).interpretNextPacket = x.interpretNextPacket
<1>1. CASE n.unit = "ECU"
  <2>1. Perform(n, W, from, tempCC, skip, x) = Branch(n, from, tempCC, skip, x)
    BY <1>1 DEF Perform
  <2>2. CASE Taken(n, x, tempCC)
    <3> DEFINE to == IF n.to = InRz THEN from["rz"] ELSE n.to
               rz == IF n.link THEN n.return ELSE x.f["rz"]
               s == IF n.nop THEN 1 ELSE skip
    <3>1. Branch(n, from, tempCC, skip, x) = [x EXCEPT !.pcfetchnext = to, !.f["rz"] = rz, !.ecuSkipCounter = s]
      BY <2>2 DEF Branch, State
    <3> HIDE DEF to, rz, s
    <3> QED BY <2>1, <3>1 DEF State
  <2>3. CASE ~Taken(n, x, tempCC)
    BY <2>1, <2>3 DEF Branch
  <2> QED BY <2>2, <2>3
<1>2. CASE n.unit # "ECU"
  <2>1. Perform(n, W, from, tempCC, skip, x) = Compute(n, W, from, x)
    BY <1>2 DEF Perform
  <2>2. Agree(n, from, [from EXCEPT !["mem"] = x.f["mem"]])
    BY DEF Agree, Nuance, Readable, Registers, Contents
  <2>3. Compute(n, W, from, x).interpretNextPacket = x.interpretNextPacket
    BY DEF Compute, State
  <2> QED BY <2>1, <2>3
<1> QED BY <1>1, <1>2

LEMMA ReadingType ==
  ASSUME NEW op, NEW x \in State, NEW y \in State
  PROVE  /\ Reading(op, x, y) \in Contents
         /\ \A c \in Cells : Reading(op, x, y)[c] = IF c \in op THEN x.f[c] ELSE y.f[c]
<1>1. x.f \in Contents /\ y.f \in Contents
  BY DEF State
<1>2. \A c \in Registers \cup {"mem"} : c \in Cells
  BY DEF Cells
<1> QED BY <1>1, <1>2 DEF Reading, Contents

LEMMA LeaveBlockType ==
  ASSUME NEW y \in State, NEW i, NEW b, b.at[i] \in Int
  PROVE  /\ LeaveBlock(y, i, b) \in State /\ Left(LeaveBlock(y, i, b)) /\ LeaveBlock(y, i, b).f = y.f
         /\ LeaveBlock(y, i, b).pcexec = b.at[i] /\ LeaveBlock(y, i, b).pcfetchnext = y.pcfetchnext
         /\ LeaveBlock(y, i, b).ecuSkipCounter = y.ecuSkipCounter
<1>1. LeaveBlock(y, i, b) = [y EXCEPT !.pcexec = b.at[i], !.interpretNextPacket = 1]
  BY DEF LeaveBlock
<1> QED BY <1>1 DEF State, Left

LEMMA ExecuteNativeType ==
  ASSUME NEW b, NEW i, b.at[i] \in Int, NEW all \in BOOLEAN, NEW x \in State, NEW from \in Contents, NEW y \in State,
         NEW e, Nuance(e.n), e.dead \in BOOLEAN, e.out \subseteq e.n.out
  PROVE  ExecuteNative(b, i, all, x, from, y, e) \in State
<1>1. CASE Left(y) \/ e.dead
  BY <1>1 DEF ExecuteNative
<1>2. CASE ~(Left(y) \/ e.dead) /\ e.n.indirect /\ from["r0"] = ControlRegister
  BY <1>2, LeaveBlockType DEF ExecuteNative
<1>3. CASE ~(Left(y) \/ e.dead) /\ ~(e.n.indirect /\ from["r0"] = ControlRegister)
  <2> DEFINE W == IF all THEN e.n.out ELSE e.out
  <2>1. W \in SUBSET e.n.out /\ 1 \in 1..3
    OBVIOUS
  <2>2. ExecuteNative(b, i, all, x, from, y, e) = Perform(e.n, W, from, from, 1, y)
    BY <1>3 DEF ExecuteNative
  <2> HIDE DEF W
  <2> QED BY <2>1, <2>2, PerformType
<1> QED BY <1>1, <1>2, <1>3

LEMMA PacketNativeRun ==
  ASSUME NEW b, NEW i, b.at[i] \in Int, Performable(b.list[i]), NEW all \in BOOLEAN, NEW x \in State
  PROVE  \E X \in [0 .. Len(b.list[i]) -> State] :
            /\ X[0] = x
            /\ \A j \in 1 .. Len(b.list[i]) :
                  X[j] = ExecuteNative(b, i, all, x, Reading(OpDependencies(b.list[i]), x, X[j - 1]), X[j - 1], b.list[i][j])
            /\ RunPacketNative(b, i, all, x) = X[Len(b.list[i])]
<1> DEFINE n == Len(b.list[i])
           B == State
           base == x
           F == [k \in 1..n |-> [y \in B |-> ExecuteNative(b, i, all, x, Reading(OpDependencies(b.list[i]), x, y), y, b.list[i][k])]]
           Is(it) == it = [s \in SUBSET (1..n) |->
                             IF s = {} THEN base ELSE ExecuteNative(b, i, all, x, Reading(OpDependencies(b.list[i]), x, it[s \ {Max(s)}]), it[s \ {Max(s)}], b.list[i][Max(s)])]
           it == CHOOSE it : Is(it)
<1>0. n \in Nat
  BY DEF Performable
<1>1. base \in B
  OBVIOUS
<1>2. ASSUME NEW k \in 1..n, NEW y \in B PROVE ExecuteNative(b, i, all, x, Reading(OpDependencies(b.list[i]), x, y), y, b.list[i][k]) \in B
  <2>1. Nuance(b.list[i][k].n) /\ b.list[i][k].dead \in BOOLEAN /\ b.list[i][k].out \subseteq b.list[i][k].n.out
    BY DEF Performable
  <2> DEFINE op == OpDependencies(b.list[i])
             from == Reading(op, x, y)
  <2>2. from \in Contents
    <3> HIDE DEF op
    <3> QED BY ReadingType
  <2> HIDE DEF from
  <2>3. ExecuteNative(b, i, all, x, from, y, b.list[i][k]) \in State
    BY <2>1, <2>2, ExecuteNativeType
  <2> QED BY <2>3 DEF from
<1> HIDE DEF base, B
<1>3. F \in [1..n -> [B -> B]]
  BY <1>2
<1>4. \E g : Is(g)
  <2>1. PICK g : FoldsLeft(g, n, B, base, F)
    <3> HIDE DEF F, n
    <3> QED BY <1>0, <1>1, <1>3, FoldLeftExists
  <2>2. \A s \in SUBSET (1..n) : s # {} => Max(s) \in 1..n /\ g[s \ {Max(s)}] \in B
    BY <1>0, <2>1, GreatestOf DEF FoldsLeft
  <2>3. Is(g)
    BY <2>1, <2>2 DEF FoldsLeft
  <2> QED BY <2>3
<1>5. Is(it)
  BY <1>4
<1>6. RunPacketNative(b, i, all, x) = it[1..n]
  BY <1>0, DOMAIN b.list[i] = 1..n DEF Performable, RunPacketNative, FoldLeft, MapThenFoldSet, base
<1> HIDE DEF it
<1>7. Upwards(it, n, B, base, F)
  <2>1. it[1..0] = base
    <3>1. 1..0 = {} /\ {} \in SUBSET (1..n)
      OBVIOUS
    <3> QED BY <1>5, <3>1
  <2>2. \A k \in 1..n : it[1..k] = ExecuteNative(b, i, all, x, Reading(OpDependencies(b.list[i]), x, it[1 .. k - 1]), it[1 .. k - 1], b.list[i][k])
    <3> SUFFICES ASSUME NEW k \in 1..n PROVE it[1..k] = ExecuteNative(b, i, all, x, Reading(OpDependencies(b.list[i]), x, it[1 .. k - 1]), it[1 .. k - 1], b.list[i][k])
      OBVIOUS
    <3>1. Max(1..k) = k /\ (1..k) \ {k} = 1 .. k - 1 /\ 1..k \in SUBSET (1..n)
      BY <1>0, GreatestOfPrefix
    <3>2. 1..k # {}
      BY <1>0, SMTT(30)
    <3> QED BY <1>5, <3>1, <3>2
  <2> QED BY <2>1, <2>2 DEF Upwards
<1>8. PICK X : IsRun(X, n, B, base, F) /\ X[n] = it[1..n]
  <2> HIDE DEF F, n
  <2> QED BY ONLY <1>0, <1>1, <1>3, <1>7, RunUp
<1>9. \A k \in 1..n : X[k] = ExecuteNative(b, i, all, x, Reading(OpDependencies(b.list[i]), x, X[k - 1]), X[k - 1], b.list[i][k])
  <2>1. \A k \in 1..n : k - 1 \in 0..n
    BY <1>0
  <2>2. \A k \in 1..n : X[k] = F[k][X[k - 1]] /\ X[k - 1] \in B
    <3> HIDE DEF F
    <3> QED BY <1>8, <2>1 DEF IsRun
  <2> QED BY <2>2
<1> QED BY <1>6, <1>8, <1>9 DEF IsRun, base, B

\* A packet that is executed as native code, its instructions one by one.
NativeRun(b, i, all, x, X) ==
  /\ X \in [0 .. Len(b.list[i]) -> State] /\ X[0] = x
  /\ \A j \in 1 .. Len(b.list[i]) :
        X[j] = ExecuteNative(b, i, all, x, Reading(OpDependencies(b.list[i]), x, X[j - 1]), X[j - 1], b.list[i][j])
\* It starts with a load of a control register.
Indirect(q, x) == Len(q) # 0 /\ ~q[1].dead /\ q[1].n.indirect /\ x.f["r0"] = ControlRegister
NativeSteps(q, all, x, X) ==
  \A j \in 1 .. Len(q) :
     IF q[j].dead THEN X[j] = X[j - 1]
     ELSE \E from \in Contents :
             /\ \A c \in Cells : from[c] = IF c \in OpDependencies(q) THEN x.f[c] ELSE X[j - 1].f[c]
             /\ X[j] = Perform(q[j].n, Written(q, all)[j], from, from, 1, X[j - 1])

LEMMA PacketNativeLeft ==
  ASSUME NEW b, NEW i, Performable(b.list[i]), NEW all, NEW x, NEW X, NativeRun(b, i, all, x, X),
         NEW k \in 0 .. Len(b.list[i]), Left(X[k])
  PROVE  X[Len(b.list[i])] = X[k]
<1> DEFINE n == Len(b.list[i])
           S == {j \in 0..n : j >= k => X[j] = X[k]}
<1>1. n \in Nat /\ k \in 0..n
  BY DEF Performable
<1>2. 0 \in S
  BY <1>1
<1>3. ASSUME NEW j \in 0 .. n - 1, j \in S PROVE j + 1 \in S
  <2>1. j + 1 \in 1..n /\ (j + 1) - 1 = j /\ j + 1 \in 0..n
    BY <1>1
  <2>2. CASE j >= k
    <3>1. X[j + 1] = X[j]
      BY <1>3, <2>1, <2>2 DEF NativeRun, ExecuteNative
    <3> QED BY <1>3, <2>1, <2>2, <3>1
  <2>3. CASE ~(j >= k)
    <3>1. j + 1 >= k => j + 1 = k
      BY <1>1, <2>3
    <3> QED BY <2>1, <3>1
  <2> QED BY <2>2, <2>3
<1>4. 0..n \subseteq S
  <2> HIDE DEF S
  <2> QED BY <1>1, <1>2, <1>3, UpTo
<1>5. n \in S
  BY <1>1, <1>4
<1> QED BY <1>1, <1>5

LEMMA PacketNativeLeaves ==
  ASSUME NEW b, NEW i, b.at[i] \in Int, Performable(b.list[i]), NEW all, NEW x \in State, NEW X, NativeRun(b, i, all, x, X),
         ~Left(x), Indirect(b.list[i], x)
  PROVE  X[Len(b.list[i])] = LeaveBlock(x, i, b)
<1> DEFINE q == b.list[i]
           from == Reading(OpDependencies(q), x, x)
<1>1. Len(q) \in Nat /\ 1 \in 1 .. Len(q) /\ 1 - 1 = 0 /\ 1 \in 0 .. Len(q)
  BY DEF Performable, Indirect
<1>2. X[1] = ExecuteNative(b, i, all, x, from, x, q[1])
  BY <1>1 DEF NativeRun
<1>3. from["r0"] = x.f["r0"]
  BY DEF Reading, Cells, Registers
<1>4. X[1] = LeaveBlock(x, i, b)
  BY <1>2, <1>3 DEF ExecuteNative, Indirect
<1>5. Left(X[1])
  BY <1>4, LeaveBlockType
<1> QED BY <1>1, <1>4, <1>5, PacketNativeLeft

LEMMA PacketNativeStays ==
  ASSUME NEW b, NEW i, b.at[i] \in Int, Performable(b.list[i]), NEW all \in BOOLEAN, NEW x \in State,
         NEW X, NativeRun(b, i, all, x, X), ~Left(x), ~Indirect(b.list[i], x)
  PROVE  NativeSteps(b.list[i], all, x, X) /\ X[Len(b.list[i])].interpretNextPacket = 0
<1> DEFINE q == b.list[i]
           n == Len(q)
           op == OpDependencies(q)
           S == {k \in 0..n : X[k].interpretNextPacket = 0}
<1>1. n \in Nat /\ n \in 0..n /\ 0 \in 0..n
  BY DEF Performable
<1>2. ASSUME NEW j \in 1..n, j - 1 \in S, q[j].dead PROVE X[j] = X[j - 1] /\ j \in S
  <2>1. X[j] = X[j - 1]
    BY <1>2 DEF NativeRun, ExecuteNative
  <2>2. j \in 0..n
    BY <1>1
  <2> QED BY <1>2, <2>1, <2>2
<1>3. ASSUME NEW j \in 1..n, j - 1 \in S, ~q[j].dead
      PROVE  /\ \E from \in Contents :
                  /\ \A c \in Cells : from[c] = IF c \in op THEN x.f[c] ELSE X[j - 1].f[c]
                  /\ X[j] = Perform(q[j].n, Written(q, all)[j], from, from, 1, X[j - 1])
             /\ j \in S
  <2> DEFINE y == X[j - 1]
             from == Reading(op, x, y)
             W == Written(q, all)[j]
  <2>1. y \in State /\ y.interpretNextPacket = 0 /\ Nuance(q[j].n) /\ q[j].out \subseteq q[j].n.out /\ j \in 0..n
    BY <1>1, <1>3 DEF NativeRun, Performable
  <2>2. from \in Contents /\ \A c \in Cells : from[c] = IF c \in op THEN x.f[c] ELSE y.f[c]
    <3>1. x \in State
      OBVIOUS
    <3> HIDE DEF op, y
    <3> QED BY ONLY <2>1, <3>1, ReadingType
  <2>3. ~(q[j].n.indirect /\ from["r0"] = ControlRegister)
    <3> SUFFICES ASSUME q[j].n.indirect, from["r0"] = ControlRegister PROVE FALSE
      OBVIOUS
    <3>1. j = 1 /\ n # 0
      <4> DEFINE m == q[j].n
      <4>1. Nuance(m) /\ m.indirect
        BY <2>1
      <4>2. m.unit = "MEM"
        <5> HIDE DEF m
        <5> QED BY ONLY <4>1 DEF Nuance
      <4>3. j = 1
        BY <4>2 DEF Performable
      <4> QED BY <1>1, <4>3
    <3>2. y = x
      BY <3>1 DEF NativeRun
    <3>3. "r0" \in Cells
      BY DEF Cells, Registers
    <3>4. x.f["r0"] = ControlRegister
      BY <2>2, <3>2, <3>3
    <3> QED BY <1>3, <3>1, <3>4 DEF Indirect
  <2>4. W = (IF all THEN q[j].n.out ELSE q[j].out) /\ W \in SUBSET q[j].n.out
    BY <2>1 DEF Written
  <2>5. X[j] = Perform(q[j].n, W, from, from, 1, y)
    <3>1. ~Left(y)
      BY <2>1 DEF Left
    <3>2. X[j] = ExecuteNative(b, i, all, x, from, y, q[j])
      BY DEF NativeRun
    <3> HIDE DEF from, W, y, q
    <3> QED BY <1>3, <2>3, <2>4, <3>1, <3>2 DEF ExecuteNative
  <2>6. X[j].interpretNextPacket = 0
    <3> DEFINE m == q[j].n
    <3>1. 1 \in 1..3 /\ Nuance(m) /\ W \in SUBSET m.out /\ X[j] = Perform(m, W, from, from, 1, y)
      BY <2>1, <2>4, <2>5
    <3> HIDE DEF from, W, y, m
    <3>2. Perform(m, W, from, from, 1, y).interpretNextPacket = y.interpretNextPacket
      <4>1. y \in State /\ from \in Contents
        BY <2>1, <2>2
      <4> QED BY ONLY <3>1, <4>1, PerformKeeps
    <3> QED BY <2>1, <3>1, <3>2
  <2>7. j \in S
    BY <2>1, <2>6
  <2> HIDE DEF from, S
  <2> QED BY <2>2, <2>5, <2>7
<1>4. 0 \in S
  BY <1>1 DEF NativeRun, Left, State
<1>5. \A k \in 0 .. n - 1 : k \in S => k + 1 \in S
  <2> SUFFICES ASSUME NEW k \in 0 .. n - 1, k \in S PROVE k + 1 \in S
    OBVIOUS
  <2>1. k + 1 \in 1..n /\ (k + 1) - 1 = k
    BY <1>1
  <2> HIDE DEF S
  <2> QED BY <1>2, <1>3, <2>1
<1>6. 0..n \subseteq S
  <2> HIDE DEF S
  <2> QED BY <1>1, <1>4, <1>5, UpTo
<1>7. \A j \in 1..n : j - 1 \in S
  BY <1>1, <1>6
<1>8. X[n].interpretNextPacket = 0
  BY <1>1, <1>6
<1> HIDE DEF S
<1> QED BY <1>2, <1>3, <1>7, <1>8 DEF NativeSteps

LEMMA PacketNativePass ==
  ASSUME NEW d, NEW q, Performable(q), NoStray(q), Len(d.nuances) = Len(q), \A i \in 1 .. Len(q) : q[i].n = d.nuances[i],
         NEW all \in BOOLEAN, NEW x \in State, NEW X, X[0] = x, NativeSteps(q, all, x, X)
  PROVE  Pass(d.nuances, Written(q, all), Live(q), 1, x, X)
<1> DEFINE W == Written(q, all)
           op == OpDependencies(q)
<1>1. ASSUME NEW i \in 1 .. Len(q), ~q[i].dead PROVE StepOfPass(d.nuances, W, Live(q), 1, x, X, i)
  <2>1. PICK from \in Contents : /\ \A c \in Cells : from[c] = IF c \in op THEN x.f[c] ELSE X[i - 1].f[c]
                                 /\ X[i] = Perform(q[i].n, W[i], from, from, 1, X[i - 1])
    BY <1>1 DEF NativeSteps
  <2>2. X[i] = Perform(d.nuances[i], W[i], from, from, 1, X[i - 1])
    BY <2>1
  <2>3. ASSUME NEW c \in d.nuances[i].in
        PROVE  \/ from[c] = x.f[c]
               \/ from[c] = X[i - 1].f[c] /\ \A j \in 1 .. i - 1 : j \in Live(q) => c \notin W[j]
    <3>0. c \in q[i].n.in /\ c \in Cells
      BY <2>3 DEF Performable, Nuance, Readable, Cells
    <3>1. CASE c \in op
      BY <2>1, <3>0, <3>1
    <3>2. CASE c \notin op
      <4>1. from[c] = X[i - 1].f[c]
        BY <2>1, <3>0, <3>2
      <4>2. ASSUME NEW j \in 1 .. i - 1, j \in Live(q) PROVE c \notin W[j]
        <5>1. j \in 1 .. Len(q) /\ j < i /\ ~q[j].dead
          BY <4>2 DEF Live, Performable
        <5>2. q[i].n.in \cap q[j].n.out \subseteq op
          BY <1>1, <5>1, NothingStray
        <5>3. W[j] \subseteq q[j].n.out
          BY <5>1 DEF Written, Performable
        <5> HIDE DEF W, op
        <5> QED BY <3>0, <3>2, <5>2, <5>3
      <4> QED BY <4>1, <4>2
    <3> QED BY <3>1, <3>2
  <2> HIDE DEF W
  <2> QED BY <2>2, <2>3 DEF StepOfPass
<1>2. ASSUME NEW i \in 1 .. Len(q), q[i].dead PROVE X[i] = X[i - 1]
  BY <1>2 DEF NativeSteps
<1>3. \A i \in 1 .. Len(q) : i \in Live(q) <=> ~q[i].dead
  BY DEF Live
<1> HIDE DEF W
<1> QED BY <1>1, <1>2, <1>3 DEF Pass, W

\* A packet that is executed as native code: the block is left before it, or it
\* is executed.
LEMMA PacketNativeHolds ==
  ASSUME program \in Programs, NEW d \in Fetchable, NEW a \in Int,
         NEW b, NEW i, b.at[i] \in Int, NEW left, CompiledTo(d, b.list[i], left), NoStray(b.list[i]), NoneLost(b.list[i]),
         NEW all \in BOOLEAN, NEW x \in State, ~Left(x), DecodedFor(d, a, x)
  PROVE  IF Indirect(b.list[i], x) THEN RunPacketNative(b, i, all, x) = LeaveBlock(x, i, b)
         ELSE /\ Executes(a, left, 1, x, RunPacketNative(b, i, all, x))
              /\ RunPacketNative(b, i, all, x).pcexec = x.pcexec /\ ~Left(RunPacketNative(b, i, all, x))
<1> DEFINE q == b.list[i]
<1>1. Performable(q)
  BY CompiledIsPerformable
<1>2. Len(q) = Len(d.nuances) /\ \A j \in 1 .. Len(q) : q[j].n = d.nuances[j]
  BY DEF CompiledTo
<1>3. PICK X \in [0 .. Len(q) -> State] :
         /\ X[0] = x
         /\ \A j \in 1 .. Len(q) :
               X[j] = ExecuteNative(b, i, all, x, Reading(OpDependencies(q), x, X[j - 1]), X[j - 1], q[j])
         /\ RunPacketNative(b, i, all, x) = X[Len(q)]
  BY <1>1, PacketNativeRun
<1>4. NativeRun(b, i, all, x, X)
  BY <1>3 DEF NativeRun
<1>5. CASE Indirect(q, x)
  BY <1>1, <1>3, <1>4, <1>5, PacketNativeLeaves
<1>6. CASE ~Indirect(q, x)
  <2>1. NativeSteps(q, all, x, X) /\ X[Len(q)].interpretNextPacket = 0
    BY <1>1, <1>4, <1>6, PacketNativeStays
  <2>2. Pass(d.nuances, Written(q, all), Live(q), 1, x, X)
    <3> HIDE DEF q
    <3> QED BY <1>1, <1>2, <1>3, <2>1, PacketNativePass DEF q
  <2>3. Omits(d.nuances, Written(q, all), Live(q), left)
    BY CompiledOmits
  <2>4. /\ Executes(a, left, 1, x, X[Len(d.nuances)])
        /\ X[Len(d.nuances)].pcexec = x.pcexec
    <3>1. 1 \in 1..3
      OBVIOUS
    <3> DEFINE W == Written(q, all)
               live == Live(q)
    <3>2. Pass(d.nuances, W, live, 1, x, X) /\ Omits(d.nuances, W, live, left)
      BY <2>2, <2>3
    <3> HIDE DEF W, live
    <3> QED BY <3>1, <3>2, PassExecutes
  <2> QED BY <1>2, <1>3, <1>6, <2>1, <2>4 DEF Left
<1> QED BY <1>5, <1>6

LEMMA PacketNativeSkipped ==
  ASSUME NEW b, NEW i, b.at[i] \in Int, Performable(b.list[i]), NEW all \in BOOLEAN, NEW x \in State, Left(x)
  PROVE  RunPacketNative(b, i, all, x) = x
<1> DEFINE q == b.list[i]
<1>1. PICK X \in [0 .. Len(q) -> State] :
         /\ X[0] = x
         /\ \A j \in 1 .. Len(q) :
               X[j] = ExecuteNative(b, i, all, x, Reading(OpDependencies(q), x, X[j - 1]), X[j - 1], q[j])
         /\ RunPacketNative(b, i, all, x) = X[Len(q)]
  BY PacketNativeRun
<1>2. NativeRun(b, i, all, x, X) /\ 0 \in 0 .. Len(q)
  BY <1>1 DEF NativeRun, Performable
<1>3. X[Len(q)] = X[0]
  BY <1>1, <1>2, PacketNativeLeft
<1> QED BY <1>1, <1>3

-----------------------------------------------------------------------------
(* The execution of a block, packet by packet                              *)

\* A block whose packets may be executed, from its list.
Runnable(b) ==
  /\ Len(b.list) \in Nat /\ DOMAIN b.list = 1 .. Len(b.list) /\ b.exit \in Int /\ b.branch \in BOOLEAN
  /\ \A i \in 1 .. Len(b.list) : Performable(b.list[i]) /\ b.at[i] \in Int

LEMMA CountedIsRetired ==
  ASSUME NEW y
  PROVE  CheckECUSkipCounter(y) = Retired(y)
<1>1. CASE y.ecuSkipCounter = 0
  <2>1. CheckECUSkipCounter(y) = y
    BY <1>1 DEF CheckECUSkipCounter
  <2>2. Retired(y) = y
    BY <1>1 DEF Retired
  <2> QED BY <2>1, <2>2
<1>2. CASE y.ecuSkipCounter = 1
  BY <1>2 DEF CheckECUSkipCounter, Retired
<1>3. CASE y.ecuSkipCounter \notin {0, 1}
  BY <1>3 DEF CheckECUSkipCounter, Retired
<1> QED BY <1>1, <1>2, <1>3

\* As IL: the processor, and whether a branch was taken to the end.
StateIL == [x : State, taken : BOOLEAN]
EntryIL(b, x) == [x |-> [x EXCEPT !.pcexec = b.exit], taken |-> FALSE]

LEMMA EntryILType ==
  ASSUME NEW b, Runnable(b), NEW x \in State
  PROVE  /\ EntryIL(b, x) \in StateIL /\ ~EntryIL(b, x).taken
         /\ EntryIL(b, x).x.f = x.f /\ EntryIL(b, x).x.pcexec = b.exit /\ EntryIL(b, x).x.pcfetchnext = x.pcfetchnext
         /\ EntryIL(b, x).x.ecuSkipCounter = x.ecuSkipCounter
         /\ EntryIL(b, x).x.interpretNextPacket = x.interpretNextPacket
<1> DEFINE y == [x EXCEPT !.pcexec = b.exit]
<1>1. y \in State /\ y.f = x.f /\ y.pcexec = b.exit /\ y.pcfetchnext = x.pcfetchnext
      /\ y.ecuSkipCounter = x.ecuSkipCounter /\ y.interpretNextPacket = x.interpretNextPacket
  BY DEF Runnable, State
<1>2. EntryIL(b, x) = [x |-> y, taken |-> FALSE]
  BY DEF EntryIL
<1> HIDE DEF y
<1> QED BY <1>1, <1>2 DEF StateIL

LEMMA NextPacketILType ==
  ASSUME NEW q, Performable(q), NEW z \in StateIL
  PROVE  /\ NextPacketIL(q, z) \in StateIL
         /\ z.taken => NextPacketIL(q, z) = z
         /\ ~z.taken => /\ NextPacketIL(q, z).x = Retired(RunPacketIL(q, z.x))
                        /\ NextPacketIL(q, z).taken <=> RunPacketIL(q, z.x).ecuSkipCounter = 1
<1>1. z.x \in State /\ z.taken \in BOOLEAN
  BY DEF StateIL
<1>2. CASE z.taken
  BY <1>2 DEF NextPacketIL
<1>3. CASE ~z.taken
  <2> DEFINE y == RunPacketIL(q, z.x)
             taken == y.ecuSkipCounter = 1
             w == Retired(y)
  <2>1. y \in State
    <3>1. PICK X \in [0 .. Len(q) -> State] : y = X[Len(q)]
      BY <1>1, PacketILRun
    <3>2. Len(q) \in 0 .. Len(q)
      BY DEF Performable
    <3> QED BY <3>1, <3>2
  <2>2. NextPacketIL(q, z) = [x |-> w, taken |-> taken]
    BY <1>3, CountedIsRetired DEF NextPacketIL
  <2>3. w \in State
    <3> HIDE DEF y
    <3> QED BY <2>1, RetiredType
  <2>4. taken \in BOOLEAN /\ (taken <=> y.ecuSkipCounter = 1)
    OBVIOUS
  <2> HIDE DEF taken, w
  <2>5. NextPacketIL(q, z) \in StateIL /\ NextPacketIL(q, z).x = w /\ (NextPacketIL(q, z).taken <=> taken)
    BY <2>2, <2>3, <2>4 DEF StateIL
  <2> QED BY <1>3, <2>4, <2>5 DEF w
<1> QED BY <1>1, <1>2, <1>3

LEMMA ILRun ==
  ASSUME NEW b, Runnable(b), NEW x \in State
  PROVE  \E Z \in [0 .. Len(b.list) -> StateIL] :
            /\ Z[0] = EntryIL(b, x) /\ \A i \in 1 .. Len(b.list) : Z[i] = NextPacketIL(b.list[i], Z[i - 1])
            /\ RunIL(b, x) = Z[Len(b.list)].x
<1> DEFINE n == Len(b.list)
           B == StateIL
           base == EntryIL(b, x)
           F == [k \in 1..n |-> [y \in B |-> NextPacketIL(b.list[k], y)]]
           Is(it) == it = [s \in SUBSET (1..n) |->
                             IF s = {} THEN base ELSE NextPacketIL(b.list[Max(s)], it[s \ {Max(s)}])]
           it == CHOOSE it : Is(it)
<1>0. n \in Nat
  BY DEF Runnable
<1>1. base \in B
  BY EntryILType
<1>2. ASSUME NEW k \in 1..n, NEW y \in B PROVE NextPacketIL(b.list[k], y) \in B
  BY NextPacketILType DEF Runnable
<1> HIDE DEF base, B
<1>3. F \in [1..n -> [B -> B]]
  BY <1>2
<1>4. \E g : Is(g)
  <2>1. PICK g : FoldsLeft(g, n, B, base, F)
    <3> HIDE DEF F, n
    <3> QED BY <1>0, <1>1, <1>3, FoldLeftExists
  <2>2. \A s \in SUBSET (1..n) : s # {} => Max(s) \in 1..n /\ g[s \ {Max(s)}] \in B
    BY <1>0, <2>1, GreatestOf DEF FoldsLeft
  <2>3. Is(g)
    BY <2>1, <2>2 DEF FoldsLeft
  <2> QED BY <2>3
<1>5. Is(it)
  BY <1>4
<1>6. RunIL(b, x) = it[1..n].x
  BY <1>0, DOMAIN b.list = 1..n DEF Runnable, RunIL, EntryIL, FoldLeft, MapThenFoldSet, base
<1> HIDE DEF it
<1>7. Upwards(it, n, B, base, F)
  <2>1. it[1..0] = base
    <3>1. 1..0 = {} /\ {} \in SUBSET (1..n)
      OBVIOUS
    <3> QED BY <1>5, <3>1
  <2>2. \A k \in 1..n : it[1..k] = NextPacketIL(b.list[k], it[1 .. k - 1])
    <3> SUFFICES ASSUME NEW k \in 1..n PROVE it[1..k] = NextPacketIL(b.list[k], it[1 .. k - 1])
      OBVIOUS
    <3>1. Max(1..k) = k /\ (1..k) \ {k} = 1 .. k - 1 /\ 1..k \in SUBSET (1..n)
      BY <1>0, GreatestOfPrefix
    <3>2. 1..k # {}
      BY <1>0, SMTT(30)
    <3> QED BY <1>5, <3>1, <3>2
  <2> QED BY <2>1, <2>2 DEF Upwards
<1>8. PICK X : IsRun(X, n, B, base, F) /\ X[n] = it[1..n]
  <2> HIDE DEF F, n
  <2> QED BY ONLY <1>0, <1>1, <1>3, <1>7, RunUp, SMTT(30)
<1>9. \A k \in 1..n : X[k] = NextPacketIL(b.list[k], X[k - 1])
  <2>1. \A k \in 1..n : k - 1 \in 0..n
    BY <1>0
  <2>2. \A k \in 1..n : X[k] = F[k][X[k - 1]] /\ X[k - 1] \in B
    <3> HIDE DEF F
    <3> QED BY <1>8, <2>1 DEF IsRun
  <2> QED BY <2>2
<1> QED BY <1>6, <1>8, <1>9 DEF IsRun, base, B

\* As native code.
EntryNative(b, x) == [x EXCEPT !.pcexec = b.exit, !.pcfetchnext = IF b.branch /\ b.list # <<>> THEN b.exit ELSE @]

LEMMA EntryNativeType ==
  ASSUME NEW b, Runnable(b), NEW x \in State
  PROVE  /\ EntryNative(b, x) \in State
         /\ EntryNative(b, x).f = x.f /\ EntryNative(b, x).pcexec = b.exit
         /\ EntryNative(b, x).pcfetchnext = (IF b.branch /\ b.list # <<>> THEN b.exit ELSE x.pcfetchnext)
         /\ EntryNative(b, x).ecuSkipCounter = x.ecuSkipCounter
         /\ EntryNative(b, x).interpretNextPacket = x.interpretNextPacket
<1> DEFINE to == IF b.branch /\ b.list # <<>> THEN b.exit ELSE x.pcfetchnext
<1>1. to \in Int /\ b.exit \in Int
  BY DEF State, Runnable
<1>2. EntryNative(b, x) = [x EXCEPT !.pcexec = b.exit, !.pcfetchnext = to]
  BY DEF EntryNative, State
<1>3. to = IF b.branch /\ b.list # <<>> THEN b.exit ELSE x.pcfetchnext
  OBVIOUS
<1> HIDE DEF to
<1> QED BY <1>1, <1>2, <1>3 DEF State

LEMMA PacketNativeType ==
  ASSUME NEW b, NEW i, b.at[i] \in Int, Performable(b.list[i]), NEW all \in BOOLEAN, NEW x \in State
  PROVE  RunPacketNative(b, i, all, x) \in State
<1>1. PICK X \in [0 .. Len(b.list[i]) -> State] : RunPacketNative(b, i, all, x) = X[Len(b.list[i])]
  BY PacketNativeRun
<1>2. Len(b.list[i]) \in 0 .. Len(b.list[i])
  BY DEF Performable
<1> QED BY <1>1, <1>2

LEMMA NativeRunOfBlock ==
  ASSUME NEW b, Runnable(b), NEW all \in BOOLEAN, NEW x \in State
  PROVE  \E Z \in [0 .. Len(b.list) -> State] :
            /\ Z[0] = EntryNative(b, x)
            /\ \A i \in 1 .. Len(b.list) : Z[i] = RunPacketNative(b, [j \in DOMAIN b.list |-> j][i], all, Z[i - 1])
            /\ RunNative(b, all, x) = Z[Len(b.list)]
<1> DEFINE n == Len(b.list)
           B == State
           base == EntryNative(b, x)
           F == [k \in 1..n |-> [y \in B |-> RunPacketNative(b, [j \in DOMAIN b.list |-> j][k], all, y)]]
           Is(it) == it = [s \in SUBSET (1..n) |->
                             IF s = {} THEN base ELSE RunPacketNative(b, [j \in DOMAIN b.list |-> j][Max(s)], all, it[s \ {Max(s)}])]
           it == CHOOSE it : Is(it)
<1>0. n \in Nat
  BY DEF Runnable
<1>1. base \in B
  BY EntryNativeType
<1>2. ASSUME NEW k \in 1..n, NEW y \in B PROVE RunPacketNative(b, [j \in DOMAIN b.list |-> j][k], all, y) \in B
  <2>1. [j \in DOMAIN b.list |-> j][k] = k /\ b.at[k] \in Int /\ Performable(b.list[k])
    BY DEF Runnable
  <2> QED BY <2>1, PacketNativeType
<1> HIDE DEF base, B
<1>3. F \in [1..n -> [B -> B]]
  BY <1>2
<1>4. \E g : Is(g)
  <2>1. PICK g : FoldsLeft(g, n, B, base, F)
    <3> HIDE DEF F, n
    <3> QED BY <1>0, <1>1, <1>3, FoldLeftExists
  <2>2. \A s \in SUBSET (1..n) : s # {} => Max(s) \in 1..n /\ g[s \ {Max(s)}] \in B
    BY <1>0, <2>1, GreatestOf DEF FoldsLeft
  <2>3. Is(g)
    BY <2>1, <2>2 DEF FoldsLeft
  <2> QED BY <2>3
<1>5. Is(it)
  BY <1>4
<1>6. RunNative(b, all, x) = it[1..n]
  BY <1>0, DOMAIN b.list = 1..n DEF Runnable, RunNative, EntryNative, FoldLeft, MapThenFoldSet, base
<1> HIDE DEF it
<1>7. Upwards(it, n, B, base, F)
  <2>1. it[1..0] = base
    <3>1. 1..0 = {} /\ {} \in SUBSET (1..n)
      OBVIOUS
    <3> QED BY <1>5, <3>1
  <2>2. \A k \in 1..n : it[1..k] = RunPacketNative(b, [j \in DOMAIN b.list |-> j][k], all, it[1 .. k - 1])
    <3> SUFFICES ASSUME NEW k \in 1..n PROVE it[1..k] = RunPacketNative(b, [j \in DOMAIN b.list |-> j][k], all, it[1 .. k - 1])
      OBVIOUS
    <3>1. Max(1..k) = k /\ (1..k) \ {k} = 1 .. k - 1 /\ 1..k \in SUBSET (1..n)
      BY <1>0, GreatestOfPrefix
    <3>2. 1..k # {}
      BY <1>0, SMTT(30)
    <3> QED BY <1>5, <3>1, <3>2
  <2> QED BY <2>1, <2>2 DEF Upwards
<1>8. PICK X : IsRun(X, n, B, base, F) /\ X[n] = it[1..n]
  <2> HIDE DEF F, n
  <2> QED BY ONLY <1>0, <1>1, <1>3, <1>7, RunUp
<1>9. \A k \in 1..n : X[k] = RunPacketNative(b, [j \in DOMAIN b.list |-> j][k], all, X[k - 1])
  <2>1. \A k \in 1..n : k - 1 \in 0..n
    BY <1>0
  <2>2. \A k \in 1..n : X[k] = F[k][X[k - 1]] /\ X[k - 1] \in B
    <3> HIDE DEF F
    <3> QED BY <1>8, <2>1 DEF IsRun
  <2> QED BY <2>2
<1> QED BY <1>6, <1>8, <1>9 DEF IsRun, base, B

LEMMA BlockIsRunnable ==
  ASSUME program \in Programs, NEW a \in Int, NEW b, NEW packets, NEW t, NEW pos, NEW K, IsBlock(a, b, packets, t, pos, K)
  PROVE  Runnable(b) /\ Len(b.list) = Len(packets) /\ b.processed \in Nat
<1>1. /\ Len(b.list) = Len(packets) /\ DOMAIN b.list = 1 .. Len(b.list)
      /\ b.at = [i \in DOMAIN packets |-> packets[i].pcexec] /\ packets \in Seq(Fetchable) /\ b.processed \in Nat
      /\ b.exit = a + b.processed /\ b.branch \in BOOLEAN
      /\ \A i \in 1 .. Len(packets) : CompiledTo(packets[i], b.list[i], K[i + 1])
  BY DEF IsBlock, IsCompiled, Laid
<1>2. Len(packets) \in Nat /\ DOMAIN packets = 1 .. Len(packets) /\ b.exit \in Int
  BY <1>1
<1>3. ASSUME NEW i \in 1 .. Len(b.list) PROVE Performable(b.list[i]) /\ b.at[i] \in Int
  <2>1. packets[i] \in Fetchable /\ CompiledTo(packets[i], b.list[i], K[i + 1]) /\ b.at[i] = packets[i].pcexec
    BY <1>1, <1>2
  <2>2. Performable(b.list[i])
    BY <2>1, CompiledIsPerformable
  <2>3. packets[i].pcexec \in Int
    BY <2>1, FetchableIsDecoded DEF IsDecoded
  <2> QED BY <2>1, <2>2, <2>3
<1> QED BY <1>1, <1>2, <1>3 DEF Runnable

\* Where the packets of the list are.
LEMMA AddressOf ==
  ASSUME program \in Programs, NEW a \in Int, NEW b, NEW packets, NEW t, NEW pos, NEW K, IsBlock(a, b, packets, t, pos, K),
         NEW k \in 0 .. b.processed - 1, ~IsEmpty(At(a, t, k))
  PROVE  /\ pos[k] \in Nat /\ pos[k] < Len(b.list) /\ pos[k + 1] = pos[k] + 1 /\ pos[k + 1] \in 1 .. Len(b.list)
         /\ packets[pos[k + 1]] = At(a, t, k) /\ b.at[pos[k + 1]] = a + k
<1>1. Laid(a, t, b.processed, packets, pos) /\ Len(b.list) = Len(packets) /\ DOMAIN packets = 1 .. Len(packets)
      /\ b.at = [i \in DOMAIN packets |-> packets[i].pcexec] /\ Len(packets) \in Nat /\ b.processed \in Nat
  BY DEF IsBlock, IsCompiled, Laid
<1>2. /\ pos[k] \in Nat /\ pos[k + 1] = pos[k] + 1 /\ pos[k + 1] <= Len(packets) /\ packets[pos[k + 1]] = At(a, t, k)
  BY <1>1 DEF Laid, Placed
<1>3. pos[k + 1] \in 1 .. Len(b.list) /\ pos[k] < Len(b.list)
  BY <1>1, <1>2
<1>4. At(a, t, k).pcexec = a + k
  <2> DEFINE h == a + k
  <2>1. h \in Int
    OBVIOUS
  <2> HIDE DEF h
  <2>2. Decoded(h, TRUE, TRUE).pcexec = h /\ Decoded(h, FALSE, TRUE).pcexec = h
    <3>1. TRUE \in BOOLEAN /\ FALSE \in BOOLEAN
      OBVIOUS
    <3>2. IsDecoded(Decoded(h, TRUE, TRUE), Packet(h), h, TRUE) /\ IsDecoded(Decoded(h, FALSE, TRUE), Packet(h), h, FALSE)
      BY <2>1, <3>1, PacketDecoded
    <3> QED BY <3>2 DEF IsDecoded
  <2>3. At(a, t, k) = Decoded(h, TRUE, TRUE) \/ At(a, t, k) = Decoded(h, FALSE, TRUE)
    <3>1. Inhibited(a, t, k) = TRUE \/ Inhibited(a, t, k) = FALSE
      BY DEF Inhibited
    <3> QED BY <3>1 DEF At, h
  <2> QED BY <2>2, <2>3 DEF h
<1> QED BY <1>1, <1>2, <1>3, <1>4

\* Native code, at the packet k of the block.
NativeAt(b, all, x, Z) ==
  /\ Z \in [0 .. Len(b.list) -> State] /\ Z[0] = EntryNative(b, x)
  /\ \A i \in 1 .. Len(b.list) : Z[i] = RunPacketNative(b, i, all, Z[i - 1])
  /\ RunNative(b, all, x) = Z[Len(b.list)]

LEMMA NativeAtExists ==
  ASSUME NEW b, Runnable(b), NEW all \in BOOLEAN, NEW x \in State
  PROVE  \E Z : NativeAt(b, all, x, Z)
<1>1. PICK Z \in [0 .. Len(b.list) -> State] :
        /\ Z[0] = EntryNative(b, x)
        /\ \A i \in 1 .. Len(b.list) : Z[i] = RunPacketNative(b, [j \in DOMAIN b.list |-> j][i], all, Z[i - 1])
        /\ RunNative(b, all, x) = Z[Len(b.list)]
  BY NativeRunOfBlock
<1>2. \A i \in 1 .. Len(b.list) : [j \in DOMAIN b.list |-> j][i] = i
  BY DEF Runnable
<1>3. ASSUME NEW i \in 1 .. Len(b.list) PROVE Z[i] = RunPacketNative(b, i, all, Z[i - 1])
  <2>1. Z[i] = RunPacketNative(b, [j \in DOMAIN b.list |-> j][i], all, Z[i - 1])
    BY <1>1
  <2> QED BY <1>2, <2>1
<1> QED BY <1>1, <1>3 DEF NativeAt

LEMMA NativeLeft ==
  ASSUME program \in Programs, NEW a \in Int, NEW b, NEW packets, NEW t, NEW pos, NEW K, IsBlock(a, b, packets, t, pos, K),
         NEW all \in BOOLEAN, NEW x \in State, ~Left(x)
  PROVE  LET y == RunNative(b, all, x)
         IN y \in State /\ (Left(y) => y.pcexec - a \in 0 .. b.processed)
<1> DEFINE P == b.processed
<1>1. Runnable(b) /\ Len(b.list) = Len(packets) /\ P \in Nat
  BY BlockIsRunnable
<1>2. PICK Z : NativeAt(b, all, x, Z)
  BY <1>1, NativeAtExists
<1> DEFINE Good(z) == Left(z) => z.pcexec - a \in 0..P
           S == {k \in 0..P : Good(Z[pos[k]])}
<1>3. pos \in [0..P -> Nat] /\ pos[0] = 0 /\ pos[P] = Len(packets) /\ \A k \in 0 .. P - 1 : Placed(a, t, k, packets, pos)
  BY DEF IsBlock, Laid
<1>4. 0 \in S
  <2>1. ~Left(EntryNative(b, x))
    BY <1>1, EntryNativeType DEF Left
  <2> QED BY <1>1, <1>2, <1>3, <2>1 DEF NativeAt
<1>5. ASSUME NEW k \in 0 .. P - 1, k \in S PROVE k + 1 \in S
  <2>0. k + 1 \in 0..P /\ k \in 0..P /\ k \in Int
    BY <1>1
  <2>1. CASE IsEmpty(At(a, t, k))
    <3>1. pos[k + 1] = pos[k]
      BY <1>3, <2>1 DEF Placed
    <3> QED BY <1>5, <2>0, <3>1
  <2>2. CASE ~IsEmpty(At(a, t, k))
    <3> DEFINE i == pos[k + 1]
               z == Z[pos[k]]
    <3>1. pos[k] \in Nat /\ pos[k] < Len(b.list) /\ i = pos[k] + 1 /\ i \in 1 .. Len(b.list) /\ b.at[i] = a + k
      BY <2>2, AddressOf
    <3>2. z \in State /\ Z[i] = RunPacketNative(b, i, all, z) /\ Performable(b.list[i]) /\ b.at[i] \in Int
      <4>1. pos[k] \in 0 .. Len(b.list) /\ i - 1 = pos[k]
        BY <1>1, <3>1, SMTT(30)
      <4> QED BY <1>1, <1>2, <3>1, <4>1 DEF NativeAt, Runnable
    <3> HIDE DEF i, z
    <3>3. CASE Left(z)
      <4>1. Z[i] = z
        BY <3>2, <3>3, PacketNativeSkipped
      <4> QED BY <1>5, <2>0, <4>1 DEF i, z
    <3>4. CASE ~Left(z)
      <4> DEFINE q == b.list[i]
      <4>1. PICK X \in [0 .. Len(q) -> State] :
               /\ X[0] = z
               /\ \A j \in 1 .. Len(q) :
                     X[j] = ExecuteNative(b, i, all, z, Reading(OpDependencies(q), z, X[j - 1]), X[j - 1], q[j])
               /\ RunPacketNative(b, i, all, z) = X[Len(q)]
        BY <3>2, PacketNativeRun
      <4>2. NativeRun(b, i, all, z, X)
        BY <4>1 DEF NativeRun
      <4>3. CASE Indirect(q, z)
        <5>1. Z[i] = LeaveBlock(z, i, b)
          BY <3>2, <3>4, <4>1, <4>2, <4>3, PacketNativeLeaves
        <5>2. Z[i].pcexec = a + k
          BY <3>1, <3>2, <5>1, LeaveBlockType
        <5>3. (a + k) - a \in 0..P
          BY <1>1, <2>0
        <5> QED BY <2>0, <5>2, <5>3 DEF i
      <4>4. CASE ~Indirect(q, z)
        <5>1. ~Left(Z[i])
          BY <3>2, <3>4, <4>1, <4>2, <4>4, PacketNativeStays DEF Left
        <5> QED BY <2>0, <5>1 DEF i
      <4> QED BY <4>3, <4>4
    <3> QED BY <3>3, <3>4
  <2> QED BY <2>1, <2>2
<1>6. 0..P \subseteq S
  <2> HIDE DEF S
  <2> QED BY <1>1, <1>4, <1>5, UpTo
<1>7. P \in S
  BY <1>1, <1>6
<1>8. RunNative(b, all, x) = Z[Len(b.list)] /\ Z[Len(b.list)] \in State
  BY <1>1, <1>2 DEF NativeAt, Runnable
<1> QED BY <1>1, <1>3, <1>7, <1>8

LEMMA ILType ==
  ASSUME NEW b, Runnable(b), NEW x \in State
  PROVE  RunIL(b, x) \in State
<1>1. PICK Z \in [0 .. Len(b.list) -> StateIL] : RunIL(b, x) = Z[Len(b.list)].x
  BY ILRun
<1>2. Len(b.list) \in 0 .. Len(b.list)
  BY DEF Runnable
<1> QED BY <1>1, <1>2 DEF StateIL

-----------------------------------------------------------------------------
(* The states of a run                                                     *)

\* Every state has a program, a processor and its reference.
Typed ==
  /\ program \in Programs /\ options \in Options
  /\ cpu \in State /\ reference \in State
  /\ numPackets \in Nat /\ numPackets <= options.max + 2

LEMMA TypedInit == Init => Typed
<1> SUFFICES ASSUME Init PROVE Typed
  OBVIOUS
<1>1. PICK f \in Starts : cpu = [f |-> f, pcexec |-> 1, pcfetchnext |-> 0, ecuSkipCounter |-> 0, interpretNextPacket |-> 0]
  BY DEF Init
<1>2. f \in Contents
  BY SuperBlockAssumption DEF Contents
<1>3. cpu \in State
  BY <1>1, <1>2 DEF State
<1>4. options.max \in Nat
  BY SuperBlockAssumption DEF Init
<1> QED BY <1>3, <1>4 DEF Init, Typed

LEMMA OptionsType ==
  ASSUME options \in Options
  PROVE  options.max \in Nat /\ options.deadCode \in BOOLEAN /\ options.native \in BOOLEAN
BY SuperBlockAssumption

LEMMA RunBlockTyped ==
  ASSUME Typed, RunBlock
  PROVE  Typed'
<1> DEFINE a == cpu.pcexec
           b == CompileBlock(a)
<1>0. a \in Int /\ program \in Programs /\ options \in Options /\ cpu \in State /\ reference \in State /\ ~Left(cpu)
  BY DEF Typed, State, RunBlock, Left
<1>1. PICK packets, t, pos, K : IsBlock(a, b, packets, t, pos, K)
  BY <1>0, CompileBlockHolds
<1>2. Runnable(b) /\ b.processed \in Nat /\ Len(b.list) \in Nat /\ Len(b.list) <= options.max + 2
  <2>1. Len(b.list) <= options.max + 2
    BY <1>1 DEF IsBlock
  <2>2. Runnable(b) /\ b.processed \in Nat
    <3> HIDE DEF b, a
    <3> QED BY <1>0, <1>1, BlockIsRunnable
  <2> QED BY <2>1, <2>2 DEF Runnable
<1>3. numPackets' = Len(b.list) /\ (RunAsIL(b) \/ RunAsNative(b)) /\ UNCHANGED <<program, options>>
  BY DEF RunBlock
<1> HIDE DEF b, a
<1>4. CASE RunAsIL(b)
  <2>1. cpu' \in State
    BY <1>0, <1>2, <1>4, ILType DEF RunAsIL
  <2>2. reference' \in State
    BY <1>0, <1>2, <1>4, ManyInterpretedSteps DEF RunAsIL
  <2> QED BY <1>0, <1>2, <1>3, <2>1, <2>2 DEF Typed
<1>5. CASE RunAsNative(b)
  <2>1. PICK all \in BOOLEAN : /\ cpu' = Retired(RunNative(b, all, cpu))
                               /\ reference' = ManyInterpreted(reference, Executed(b, RunNative(b, all, cpu), cpu.pcexec))
    BY <1>5 DEF RunAsNative
  <2> DEFINE y == RunNative(b, all, cpu)
  <2>2. y \in State /\ (Left(y) => y.pcexec - a \in 0 .. b.processed)
    BY <1>0, <1>1, NativeLeft
  <2>3. Executed(b, y, a) \in Nat
    BY <1>2, <2>2 DEF Executed
  <2> HIDE DEF y
  <2>4. cpu' \in State
    BY <2>1, <2>2, RetiredType DEF y
  <2>5. reference' \in State
    BY <1>0, <2>1, <2>3, ManyInterpretedSteps DEF y, a
  <2> QED BY <1>0, <1>2, <1>3, <2>4, <2>5 DEF Typed
<1> QED BY <1>3, <1>4, <1>5

LEMMA TypedNext == Typed /\ [Next]_vars => Typed'
<1> SUFFICES ASSUME Typed, [Next]_vars PROVE Typed'
  OBVIOUS
<1>1. CASE Interpret
  <2>1. options.max \in Nat /\ program' = program /\ options' = options /\ numPackets' = 0
    BY <1>1, OptionsType DEF Typed, Interpret
  <2>2. cpu' \in State /\ reference' \in State
    BY <1>1, InterpretedType DEF Typed, Interpret
  <2> QED BY <2>1, <2>2 DEF Typed
<1>2. CASE RunBlock
  BY <1>2, RunBlockTyped
<1>3. CASE UNCHANGED vars
  BY <1>3 DEF Typed, vars
<1> QED BY <1>1, <1>2, <1>3 DEF Next

LEMMA AlwaysTyped == Spec => []Typed
<1> QED BY TypedInit, TypedNext, PTL DEF Spec

\* Every processor holds values that fit its registers, and counts at most
\* three packets until a branch is taken, whatever the defects a block may meet.
THEOREM TypeCorrect == Spec => []TypeOK
<1>1. Typed => TypeOK
  BY DEF Typed, TypeOK, State, Contents
<1> QED BY <1>1, AlwaysTyped, PTL

\* No block is longer than the lists that the compiler copies it to.
THEOREM BlocksFit == Spec => []BlockFits
<1>1. Typed => BlockFits
  BY DEF Typed, BlockFits
<1> QED BY <1>1, AlwaysTyped, PTL

-----------------------------------------------------------------------------
(* A block without the known defects                                       *)

NoLostReturn(q, s) ==
  \A m \in 1 .. Len(q) : \A n \in 1 .. Len(s) :
     "rz" \in q[m].n.out \ q[m].out /\ s[n].n.unit = "ECU" /\ s[n].n.link => ~s[n].n.cond
NoLeftSlot(q, s) == \A m \in 1 .. Len(q) : \A n \in 1 .. Len(s) : q[m].n.unit = "ECU" => ~s[n].n.indirect
NoEmptySlot(q, i, l) == \A m \in 1 .. Len(q) : q[m].n.unit = "ECU" /\ ~q[m].n.nop => i <= l - 2
Sound(a, b) ==
  /\ \A i \in 1 .. Len(b.list) : NoStray(b.list[i]) /\ NoneLost(b.list[i])
  /\ \A i, j \in 1 .. Len(b.list) : i < j => NoLostReturn(b.list[i], b.list[j]) /\ NoLeftSlot(b.list[i], b.list[j])
  /\ ~b.native => \A i \in 1 .. Len(b.list) : NoEmptySlot(b.list[i], i, Len(b.list))
  /\ \A k \in 0 .. b.processed - 1 : ~Packet(a + k).breakpoint

LEMMA NothingMet ==
  ASSUME NEW a, NEW b, Met(a, b) = {}
  PROVE  /\ ~DeadBranch(b) /\ ~LostStore(b) /\ ~EmptySlot(b) /\ ~StrayOutput(b) /\ ~LostReturn(b) /\ ~LeftSlot(b)
         /\ ~LostBreakpoint(a, b)
<1>1. DeadBranch(b) => "DeadBranch" \in Met(a, b)
  BY DEF Met
<1>2. EmptySlot(b) => "EmptySlot" \in Met(a, b)
  BY DEF Met
<1>3. StrayOutput(b) => "StrayOutput" \in Met(a, b)
  BY DEF Met
<1>4. LostReturn(b) => "LostReturn" \in Met(a, b)
  BY DEF Met
<1>5. LeftSlot(b) => "LeftSlot" \in Met(a, b)
  BY DEF Met
<1>6. LostBreakpoint(a, b) => "LostBreakpoint" \in Met(a, b)
  BY DEF Met
<1>7. LostStore(b) => "LostStore" \in Met(a, b)
  BY DEF Met
<1> QED BY <1>1, <1>2, <1>3, <1>4, <1>5, <1>6, <1>7

LEMMA SoundBlock ==
  ASSUME NEW a \in Int, NEW b, Runnable(b), b.processed \in Nat, Met(a, b) = {}
  PROVE  Sound(a, b)
<1>1. DOMAIN b.list = 1 .. Len(b.list) /\ \A i \in 1 .. Len(b.list) : DOMAIN b.list[i] = 1 .. Len(b.list[i])
  BY DEF Runnable, Performable
<1>2. ASSUME NEW i \in 1 .. Len(b.list) PROVE NoStray(b.list[i])
  BY <1>1, NothingMet DEF StrayOutput, NoStray
<1>3. \A i \in 1 .. Len(b.list) : \A m \in 1 .. Len(b.list[i]) : b.list[i][m] \in Range(b.list[i])
  BY <1>1 DEF Range
<1>4. ASSUME NEW i \in 1 .. Len(b.list) PROVE NoneLost(b.list[i])
  BY <1>1, <1>3, NothingMet DEF DeadBranch, LostStore, NoneLost
<1>5. ASSUME NEW i \in 1 .. Len(b.list), NEW j \in 1 .. Len(b.list), i < j PROVE NoLostReturn(b.list[i], b.list[j])
  BY <1>1, <1>3, <1>5, NothingMet DEF LostReturn, NoLostReturn
<1>6. ASSUME NEW i \in 1 .. Len(b.list), NEW j \in 1 .. Len(b.list), i < j PROVE NoLeftSlot(b.list[i], b.list[j])
  BY <1>1, <1>3, <1>6, NothingMet DEF LeftSlot, NoLeftSlot
<1>7. ASSUME ~b.native, NEW i \in 1 .. Len(b.list) PROVE NoEmptySlot(b.list[i], i, Len(b.list))
  <2> SUFFICES ASSUME NEW m \in 1 .. Len(b.list[i]), b.list[i][m].n.unit = "ECU", ~b.list[i][m].n.nop
               PROVE  i <= Len(b.list) - 2
    BY DEF NoEmptySlot
  <2>1. ~(i > Len(b.list) - 2)
    BY <1>1, <1>3, <1>7, NothingMet DEF EmptySlot
  <2>2. Len(b.list) \in Nat
    BY DEF Runnable
  <2> QED BY <2>1, <2>2
<1>8. ASSUME NEW k \in 0 .. b.processed - 1 PROVE ~Packet(a + k).breakpoint
  <2>1. a + k \in a .. a + b.processed - 1
    OBVIOUS
  <2> QED BY <2>1, NothingMet DEF LostBreakpoint
<1> QED BY <1>2, <1>4, <1>5, <1>6, <1>7, <1>8 DEF Sound

\* A block by the packets at its addresses, those that are empty included: M[k]
\* are the cells that need not be written before the k-th.
InBlock(a, b, t, pos, M, k) ==
  /\ a + k \in DOMAIN program /\ pos[k] \in Nat
  /\ At(a, t, k) \in Fetchable
  /\ At(a, t, k).ecu <=> k = t
  /\ At(a, t, k).ecu => ~At(a, t, k).never
  /\ IF IsEmpty(At(a, t, k)) THEN pos[k + 1] = pos[k] /\ M[k + 1] = M[k]
     ELSE /\ pos[k + 1] = pos[k] + 1 /\ pos[k + 1] \in 1 .. Len(b.list) /\ b.at[pos[k + 1]] = a + k
          /\ CompiledTo(At(a, t, k), b.list[pos[k + 1]], M[k + 1]) /\ MaskedBy(At(a, t, k), M[k], M[k + 1])
Layout(a, b, t, pos, M) ==
  /\ b.processed \in Nat /\ t \in Nat /\ b.exit = a + b.processed /\ Runnable(b)
  /\ pos \in [0 .. b.processed -> Nat] /\ pos[0] = 0 /\ pos[b.processed] = Len(b.list)
  /\ M \in [0 .. b.processed -> SUBSET Cells] /\ M[b.processed] = {}
  /\ t < b.processed => b.processed = t + (IF EcuAt(a + t).nop THEN 1 ELSE 3)
  /\ \A k \in 0 .. b.processed - 1 : InBlock(a, b, t, pos, M, k)

LEMMA BlockLayout ==
  ASSUME program \in Programs, NEW a \in Int, NEW b, NEW packets, NEW t, NEW pos, NEW K, IsBlock(a, b, packets, t, pos, K)
  PROVE  \E M : Layout(a, b, t, pos, M)
<1> DEFINE P == b.processed
           M == [k \in 0..P |-> K[pos[k] + 1]]
<1>1. Runnable(b) /\ Len(b.list) = Len(packets) /\ P \in Nat
  BY BlockIsRunnable
<1>2. /\ P \in Nat /\ t \in Nat /\ packets \in Seq(Fetchable)
      /\ pos \in [0..P -> Nat] /\ pos[0] = 0 /\ pos[P] = Len(packets)
      /\ \A k \in 0 .. P - 1 : Placed(a, t, k, packets, pos)
  BY DEF IsBlock, Laid
<1>3. /\ K \in [1 .. Len(packets) + 1 -> SUBSET Cells] /\ K[Len(packets) + 1] = {}
      /\ \A i \in 1 .. Len(packets) : CompiledTo(packets[i], b.list[i], K[i + 1]) /\ MaskedBy(packets[i], K[i], K[i + 1])
  BY DEF IsBlock, IsCompiled
<1>4. \A k \in 0..P : pos[k] <= Len(packets)
  <2> DEFINE S == {k \in 0..P : pos[k] <= Len(packets)}
  <2>1. 0 \in S
    BY <1>2
  <2>2. ASSUME NEW k \in 0 .. P - 1, k \in S PROVE k + 1 \in S
    <3>1. k + 1 \in 0..P
      BY <1>2
    <3>2. pos[k + 1] <= Len(packets)
      BY <1>2, <2>2 DEF Placed
    <3> QED BY <3>1, <3>2
  <2>3. 0..P \subseteq S
    <3> HIDE DEF S
    <3> QED BY <1>1, <2>1, <2>2, UpTo
  <2> QED BY <2>3
<1>5. M \in [0..P -> SUBSET Cells] /\ M[P] = {} /\ \A k \in 0..P : M[k] = K[pos[k] + 1]
  <2>1. \A k \in 0..P : pos[k] + 1 \in 1 .. Len(packets) + 1
    BY <1>2, <1>4
  <2>2. P \in 0..P
    BY <1>1
  <2> QED BY <1>2, <1>3, <2>1, <2>2
<1> HIDE DEF M
<1>6. ASSUME NEW k \in 0 .. P - 1 PROVE InBlock(a, b, t, pos, M, k)
  <2> DEFINE d == At(a, t, k)
  <2>1. /\ a + k \in DOMAIN program /\ (d.ecu <=> k = t) /\ (d.ecu => ~d.never) /\ pos[k] \in Nat
        /\ IsEmpty(d) => pos[k + 1] = pos[k]
    BY <1>2 DEF Placed
  <2>2. M[k] = K[pos[k] + 1] /\ M[k + 1] = K[pos[k + 1] + 1]
    <3>1. k \in 0..P /\ k + 1 \in 0..P
      BY <1>1
    <3> QED BY <1>5, <3>1
  <2>3. d \in Fetchable
    <3> DEFINE h == a + k
    <3>1. h \in Int
      OBVIOUS
    <3> HIDE DEF h
    <3>2. Decoded(h, TRUE, TRUE) \in Fetchable /\ Decoded(h, FALSE, TRUE) \in Fetchable
      BY <3>1, ZenonT(60) DEF Fetchable
    <3>3. Inhibited(a, t, k) = TRUE \/ Inhibited(a, t, k) = FALSE
      BY DEF Inhibited
    <3> QED BY <3>2, <3>3 DEF At, h
  <2>4. CASE IsEmpty(d)
    BY <2>1, <2>2, <2>3, <2>4 DEF InBlock
  <2>5. CASE ~IsEmpty(d)
    <3> DEFINE i == pos[k + 1]
    <3>1. pos[k] \in Nat /\ i = pos[k] + 1 /\ i \in 1 .. Len(b.list) /\ packets[i] = d /\ b.at[i] = a + k
      <4> HIDE DEF d
      <4> QED BY <2>5, AddressOf DEF d
    <3>2. CompiledTo(d, b.list[i], M[k + 1]) /\ MaskedBy(d, M[k], M[k + 1])
      <4>1. i \in 1 .. Len(packets)
        BY <1>1, <3>1
      <4>2. CompiledTo(packets[i], b.list[i], K[i + 1]) /\ MaskedBy(packets[i], K[i], K[i + 1])
        BY <1>3, <4>1
      <4> HIDE DEF d, i
      <4>3. M[k] = K[i]
        BY <2>2, <3>1
      <4>4. M[k + 1] = K[i + 1]
        BY <2>2 DEF i
      <4> QED BY <3>1, <4>2, <4>3, <4>4
    <3> HIDE DEF d
    <3> QED BY <2>1, <2>3, <2>5, <3>1, <3>2 DEF InBlock, d
  <2> QED BY <2>4, <2>5
<1>7. b.exit = a + P /\ (t < P => P = t + (IF EcuAt(a + t).nop THEN 1 ELSE 3))
  BY DEF IsBlock
<1>8. pos[P] = Len(b.list)
  BY <1>1, <1>2
<1>9. Layout(a, b, t, pos, M)
  BY <1>1, <1>2, <1>5, <1>6, <1>7, <1>8 DEF Layout
<1> QED BY <1>9

\* The branches in a block: the t-th packet has one, and those in its delay slots
\* are left out if it is always taken.
Straight(a, t, k) ==
  /\ k < t \/ (k > t /\ EcuAt(a + t).cond) => ~Has(Packet(a + k), "ECU")
  /\ k = t => Has(Packet(a + k), "ECU") /\ EcuAt(a + k).to # Nowhere
  /\ k <= t \/ EcuAt(a + t).cond => IsDecoded(At(a, t, k), Packet(a + k), a + k, FALSE)
  /\ k > t /\ ~EcuAt(a + t).cond => IsDecoded(At(a, t, k), Packet(a + k), a + k, TRUE)

LEMMA PacketInBlock ==
  ASSUME program \in Programs, NEW a \in Int, NEW b, NEW t, NEW pos, NEW M, Layout(a, b, t, pos, M),
         NEW k \in 0 .. b.processed - 1
  PROVE  Straight(a, t, k)
<1> DEFINE d == At(a, t, k)
           h == a + k
<1>1. InBlock(a, b, t, pos, M, k) /\ t \in Nat /\ k \in Int /\ h \in Int
  BY DEF Layout
<1>2. IsDecoded(Decoded(h, TRUE, TRUE), Packet(h), h, TRUE) /\ IsDecoded(Decoded(h, FALSE, TRUE), Packet(h), h, FALSE)
  <2>1. TRUE \in BOOLEAN /\ FALSE \in BOOLEAN
    OBVIOUS
  <2> HIDE DEF h
  <2> QED BY <1>1, <2>1, PacketDecoded
<1>3. k <= t \/ EcuAt(a + t).cond => d = Decoded(h, FALSE, TRUE)
  <2> SUFFICES ASSUME k <= t \/ EcuAt(a + t).cond PROVE d = Decoded(h, FALSE, TRUE)
    OBVIOUS
  <2>1. Inhibited(a, t, k) = FALSE
    BY <1>1 DEF Inhibited
  <2> QED BY <2>1 DEF At
<1>4. k > t /\ ~EcuAt(a + t).cond => d = Decoded(h, TRUE, TRUE)
  <2> SUFFICES ASSUME k > t /\ ~EcuAt(a + t).cond PROVE d = Decoded(h, TRUE, TRUE)
    OBVIOUS
  <2>1. Inhibited(a, t, k) = TRUE
    BY <1>1 DEF Inhibited
  <2> QED BY <2>1 DEF At
<1> HIDE DEF d, h
<1>5. k <= t \/ EcuAt(a + t).cond => IsDecoded(d, Packet(h), h, FALSE)
  BY <1>2, <1>3
<1>9. k <= t \/ EcuAt(a + t).cond => (d.ecu <=> Has(Packet(h), "ECU"))
  <2>1. IsDecoded(d, Packet(h), h, FALSE) => (d.ecu <=> Has(Packet(h), "ECU"))
    BY DEF IsDecoded
  <2> QED BY <1>5, <2>1
<1>6. k > t /\ ~EcuAt(a + t).cond => IsDecoded(d, Packet(h), h, TRUE)
  BY <1>2, <1>4
<1>7. d.ecu <=> k = t
  BY <1>1 DEF InBlock, d
<1>8. k < t \/ (k > t /\ EcuAt(a + t).cond) => ~Has(Packet(h), "ECU")
  <2>1. k < t \/ k > t => k # t
    BY <1>1
  <2>2. k < t => k <= t
    BY <1>1
  <2> QED BY <1>7, <1>9, <2>1, <2>2
<1>10. ASSUME k = t PROVE Has(Packet(h), "ECU") /\ EcuAt(h).to # Nowhere
  <2>1. Has(Packet(h), "ECU")
    <3>1. k <= t
      BY <1>1, <1>10
    <3> QED BY <1>7, <1>9, <1>10, <3>1
  <2>2. EcuAt(h) \in Packet(h).units /\ EcuAt(h).unit = "ECU"
    BY <2>1, EcuFields
  <2>3. ~Packet(h).never
    <3>1. ~d.never
      BY <1>1, <1>7, <1>10 DEF InBlock, d
    <3>2. IsDecoded(d, Packet(h), h, FALSE)
      <4>1. k <= t
        BY <1>1, <1>10
      <4> QED BY <1>5, <4>1
    <3> QED BY <3>1, <3>2 DEF IsDecoded
  <2>4. IsPacket(Packet(h))
    BY PacketIsPacket
  <2> QED BY <2>1, <2>2, <2>3, <2>4 DEF IsPacket
<1> QED BY <1>5, <1>6, <1>8, <1>10 DEF Straight, d, h

\* The reference in the packets of a block.
RefRun(a, b, R) ==
  /\ R \in [0 .. b.processed -> State] /\ R[0].pcexec = a /\ R[0].ecuSkipCounter = 0
  /\ \A k \in 0 .. b.processed - 1 : R[k + 1] = Interpreted(R[k])
\* It takes the branch of the block.
TakesBranch(a, b, t, R) == t < b.processed /\ TakesAt(a + t, Beginning(R[t]))
Progress(a, b, t, R, k) ==
  /\ R[k] \in State
  /\ IF TakesBranch(a, b, t, R) /\ k > t
     THEN /\ R[k].ecuSkipCounter = b.processed - k /\ R[k].pcfetchnext = R[t + 1].pcfetchnext
          /\ R[k].pcexec = (IF k < b.processed THEN a + k ELSE R[t + 1].pcfetchnext)
     ELSE R[k].ecuSkipCounter = 0 /\ R[k].pcexec = a + k

LEMMA ReferenceProgress ==
  ASSUME program \in Programs, NEW a \in Int, NEW b, NEW t, NEW pos, NEW M, Layout(a, b, t, pos, M), NEW R, RefRun(a, b, R)
  PROVE  /\ \A k \in 0 .. b.processed : Progress(a, b, t, R, k)
         /\ t < b.processed /\ ~TakesBranch(a, b, t, R) => EcuAt(a + t).cond
<1> DEFINE P == b.processed
           T == TakesBranch(a, b, t, R)
           S == {k \in 0..P : Progress(a, b, t, R, k) /\ (k > t /\ ~T => EcuAt(a + t).cond)}
<1>1. P \in Nat /\ t \in Nat /\ (t < P => P = t + (IF EcuAt(a + t).nop THEN 1 ELSE 3))
  BY DEF Layout
<1>2. 0 \in S
  BY <1>1 DEF RefRun, Progress
<1>3. ASSUME NEW k \in 0 .. P - 1, k \in S PROVE k + 1 \in S
  <2> DEFINE r == R[k]
             r2 == R[k + 1]
             takes == TakesAt(r.pcexec, Beginning(r))
  <2>1. k \in 0..P /\ k + 1 \in 0..P /\ k \in Int /\ k < P /\ r \in State /\ r2 \in State /\ r2 = Interpreted(r)
    BY <1>1 DEF RefRun
  <2>2. Progress(a, b, t, R, k) /\ (k > t /\ ~T => EcuAt(a + t).cond)
    BY <1>3
  <2>3. r.pcexec = a + k
    BY <1>1, <2>1, <2>2 DEF Progress
  <2>4. Moves(r, takes, r2) /\ MayTake(a + k, r.ecuSkipCounter, takes)
    <3>1. Moves(r, takes, r2)
      <4> HIDE DEF r, r2
      <4> QED BY <2>1, ReferenceStep
    <3>2. MayTake(r.pcexec, Beginning(r).ecuSkipCounter, takes)
      <4> DEFINE h == r.pcexec
                 x == Beginning(r)
      <4> HIDE DEF h, x
      <4>1. MayTake(h, x.ecuSkipCounter, TakesAt(h, x))
        BY TakesMayTake
      <4> QED BY <4>1 DEF h, x
    <3>3. Beginning(r).ecuSkipCounter = r.ecuSkipCounter
      <4> HIDE DEF r
      <4> QED BY <2>1, BeginningType
    <3> QED BY <2>3, <3>1, <3>2, <3>3
  <2>5. Straight(a, t, k)
    BY PacketInBlock
  <2>6. takes \in BOOLEAN /\ (k = t => (takes <=> T))
    <3>1. takes \in BOOLEAN
      BY <2>4 DEF MayTake
    <3>2. k = t => (TakesAt(a + k, Beginning(r)) <=> T)
      BY <2>1 DEF TakesBranch
    <3> QED BY <2>3, <3>1, <3>2
  <2> HIDE DEF takes, T, r, r2
  <2>7. CASE k < t \/ (k > t /\ ~T)
    <3>1. ~takes
      BY <2>2, <2>4, <2>5, <2>7 DEF MayTake, Straight
    <3>2. r.ecuSkipCounter = 0
      BY <1>1, <2>1, <2>2, <2>7 DEF Progress, T, r
    <3>3. r2.ecuSkipCounter = 0 /\ r2.pcexec = a + (k + 1)
      BY <2>1, <2>3, <2>4, <3>1, <3>2 DEF Moves, SkipAfter, GoesOn
    <3>4. ~(T /\ k + 1 > t)
      BY <1>1, <2>1, <2>7
    <3>5. Progress(a, b, t, R, k + 1)
      BY <2>1, <3>3, <3>4 DEF Progress, T, r2
    <3>6. k + 1 > t /\ ~T => EcuAt(a + t).cond
      BY <1>1, <2>1, <2>2, <2>7, <3>1 DEF T
    <3> QED BY <2>1, <3>5, <3>6
  <2>8. CASE k = t
    <3>1. Has(Packet(a + k), "ECU") /\ EcuAt(a + k).to # Nowhere /\ r.ecuSkipCounter = 0
      BY <1>1, <2>1, <2>2, <2>5, <2>8 DEF Progress, T, r, Straight
    <3>2. EcuAt(a + k).nop \in BOOLEAN /\ EcuAt(a + k).cond \in BOOLEAN
      BY <3>1, EcuFields
    <3>3. ~takes => EcuAt(a + k).cond
      BY <2>4, <3>1, <3>2 DEF MayTake
    <3>4. CASE takes
      <4>1. r2.ecuSkipCounter = (IF EcuAt(a + k).nop THEN 0 ELSE 2)
            /\ r2.pcexec = (IF EcuAt(a + k).nop THEN r2.pcfetchnext ELSE a + (k + 1))
        BY <2>1, <2>3, <2>4, <3>4 DEF Moves, SkipAfter, GoesOn
      <4>2. r2.ecuSkipCounter = P - (k + 1) /\ (EcuAt(a + k).nop <=> ~(k + 1 < P))
        BY <1>1, <2>1, <2>8, <3>2, <4>1
      <4>3. T /\ k + 1 > t /\ r2 = R[t + 1]
        BY <1>1, <2>1, <2>6, <2>8, <3>4 DEF r2
      <4>4. Progress(a, b, t, R, k + 1)
        BY <2>1, <4>1, <4>2, <4>3 DEF Progress, T, r2
      <4> QED BY <2>1, <4>3, <4>4
    <3>5. CASE ~takes
      <4>1. r2.ecuSkipCounter = 0 /\ r2.pcexec = a + (k + 1)
        BY <2>1, <2>3, <2>4, <3>1, <3>5 DEF Moves, SkipAfter, GoesOn
      <4>2. ~T
        BY <2>6, <2>8, <3>5
      <4>3. Progress(a, b, t, R, k + 1)
        BY <2>1, <4>1, <4>2 DEF Progress, T, r2
      <4> QED BY <2>1, <2>8, <3>3, <3>5, <4>3
    <3> QED BY <2>6, <3>4, <3>5
  <2>9. CASE k > t /\ T
    <3>1. r.ecuSkipCounter = P - k /\ r.pcfetchnext = R[t + 1].pcfetchnext
      BY <2>2, <2>9 DEF Progress, T, r
    <3>2. ~takes
      BY <1>1, <2>1, <2>4, <3>1 DEF MayTake
    <3>3. r2.pcfetchnext = R[t + 1].pcfetchnext
      BY <2>4, <3>1, <3>2 DEF Moves
    <3>4. r2.ecuSkipCounter = P - (k + 1)
      BY <1>1, <2>1, <2>4, <3>1, <3>2 DEF Moves, SkipAfter
    <3>5. r2.pcexec = IF k + 1 < P THEN a + (k + 1) ELSE R[t + 1].pcfetchnext
      BY <1>1, <2>1, <2>3, <2>4, <3>1, <3>2, <3>3 DEF Moves, GoesOn
    <3>6. k + 1 > t
      BY <1>1, <2>1, <2>9
    <3>7. Progress(a, b, t, R, k + 1)
      BY <2>1, <2>9, <3>3, <3>4, <3>5, <3>6 DEF Progress, T, r2
    <3> QED BY <2>1, <2>9, <3>7
  <2> QED BY <1>1, <2>1, <2>7, <2>8, <2>9
<1>4. 0..P \subseteq S
  <2> HIDE DEF S
  <2> QED BY <1>1, <1>2, <1>3, UpTo
<1>5. t < P /\ ~T => EcuAt(a + t).cond
  <2> SUFFICES ASSUME t < P, ~T PROVE EcuAt(a + t).cond
    OBVIOUS
  <2>1. t + 1 \in 0..P /\ t + 1 > t
    BY <1>1
  <2>2. t + 1 \in S
    BY <1>4, <2>1
  <2> QED BY <2>1, <2>2
<1> QED BY <1>4, <1>5

\* A cell that the packets from k on write before they read it: the k2-th does.
ReadIn(d, c) == \E j \in 1 .. Len(d.nuances) : c \in d.nuances[j].in
WrittenIn(d, c) == \E j \in 1 .. Len(d.nuances) : c \in d.nuances[j].out
WrittenBy(a, t, c, k, k2) == (\A h \in k..k2 : ~ReadIn(At(a, t, h), c)) /\ WrittenIn(At(a, t, k2), c)

LEMMA MaskedIsWritten ==
  ASSUME NEW a \in Int, NEW b, NEW t, NEW pos, NEW M, Layout(a, b, t, pos, M), NEW k \in 0 .. b.processed, NEW c \in M[k]
  PROVE  c # "mem" /\ \E k2 \in k .. b.processed - 1 : WrittenBy(a, t, c, k, k2)
<1> DEFINE P == b.processed
           Good(h) == \A e \in M[h] : e # "mem" /\ \E k2 \in h .. P - 1 : WrittenBy(a, t, e, h, k2)
           S == {m \in 0..P : Good(P - m)}
<1>1. P \in Nat /\ M[P] = {}
  BY DEF Layout
<1>2. 0 \in S
  <2>1. P - 0 = P
    BY <1>1
  <2> QED BY <1>1, <2>1
<1>3. ASSUME NEW m \in 0 .. P - 1, m \in S PROVE m + 1 \in S
  <2> DEFINE h == P - (m + 1)
             d == At(a, t, h)
  <2>1. m + 1 \in 0..P /\ h \in 0 .. P - 1 /\ h + 1 = P - m /\ h \in Int
    BY <1>1
  <2>2. Good(h + 1)
    BY <1>3, <2>1
  <2>3. InBlock(a, b, t, pos, M, h)
    BY <2>1 DEF Layout
  <2>4. ASSUME NEW e \in M[h] PROVE e # "mem" /\ \E k2 \in h .. P - 1 : WrittenBy(a, t, e, h, k2)
    <3>1. /\ ~ReadIn(d, e)
          /\ e \in M[h + 1] \/ (e # "mem" /\ WrittenIn(d, e))
      <4>1. CASE IsEmpty(d)
        BY <2>3, <2>4, <4>1 DEF InBlock, IsEmpty, ReadIn
      <4>2. CASE ~IsEmpty(d)
        <5> HIDE DEF d, h
        <5>1. MaskedBy(d, M[h], M[h + 1])
          BY <2>3, <4>2 DEF InBlock, d
        <5> QED BY <2>4, <5>1 DEF MaskedBy, ReadIn, WrittenIn
      <4> QED BY <4>1, <4>2
    <3> HIDE DEF d
    <3>2. CASE e \in M[h + 1]
      <4>1. PICK k2 \in h + 1 .. P - 1 : e # "mem" /\ WrittenBy(a, t, e, h + 1, k2)
        BY <2>2, <3>2
      <4>2. k2 \in h .. P - 1 /\ h..k2 = {h} \cup (h + 1 .. k2)
        BY <1>1, <2>1
      <4> HIDE DEF h
      <4>3. WrittenBy(a, t, e, h, k2)
        BY <3>1, <4>1, <4>2 DEF WrittenBy, d
      <4> QED BY <4>1, <4>2, <4>3
    <3>3. CASE e # "mem" /\ WrittenIn(d, e)
      <4>1. h \in h .. P - 1 /\ h..h = {h}
        BY <1>1, <2>1
      <4> HIDE DEF h
      <4>2. WrittenBy(a, t, e, h, h)
        BY <3>1, <3>3, <4>1 DEF WrittenBy, d
      <4> QED BY <3>3, <4>1, <4>2
    <3> QED BY <3>1, <3>2, <3>3
  <2>5. Good(h)
    BY <2>4
  <2> HIDE DEF Good
  <2> QED BY <2>1, <2>5
<1>4. 0..P \subseteq S
  <2> HIDE DEF S
  <2> QED BY <1>1, <1>2, <1>3, UpTo
<1>5. P - k \in 0..P /\ P - (P - k) = k
  BY <1>1
<1>6. Good(k)
  <2>1. P - k \in S
    BY <1>4, <1>5
  <2>2. Good(P - (P - k))
    BY <2>1
  <2> HIDE DEF Good
  <2> QED BY <1>5, <2>2
<1> QED BY <1>6

\* The branches of the packets of a block.
LEMMA BranchesIn ==
  ASSUME program \in Programs, NEW a \in Int, NEW b, NEW t, NEW pos, NEW M, Layout(a, b, t, pos, M)
  PROVE  /\ \A h \in 0 .. b.processed - 1 : Has(Packet(a + h), "ECU") => h = t \/ (h > t /\ ~EcuAt(a + t).cond)
         /\ \A h \in 0 .. b.processed - 1 : Branches(a + h) => h = t \/ (h > t /\ ~EcuAt(a + t).cond)
         /\ t < b.processed => /\ Has(Packet(a + t), "ECU") /\ EcuAt(a + t).cond \in BOOLEAN /\ EcuAt(a + t).nop \in BOOLEAN
                               /\ Jumps(a + t) <=> ~EcuAt(a + t).cond
                               /\ Delays(a + t) <=> ~EcuAt(a + t).nop
<1> DEFINE P == b.processed
<1>1. P \in Nat /\ t \in Nat
  BY DEF Layout
<1>2. ASSUME NEW h \in 0 .. P - 1, Has(Packet(a + h), "ECU") PROVE h = t \/ (h > t /\ ~EcuAt(a + t).cond)
  <2>1. Straight(a, t, h)
    BY PacketInBlock
  <2>2. h < t \/ h = t \/ h > t
    BY <1>1
  <2> QED BY <1>2, <2>1, <2>2 DEF Straight
<1>3. ASSUME NEW h \in 0 .. P - 1, Branches(a + h) PROVE Has(Packet(a + h), "ECU")
  BY <1>3, BranchKinds
<1>4. ASSUME t < P
      PROVE  /\ Has(Packet(a + t), "ECU") /\ EcuAt(a + t).cond \in BOOLEAN /\ EcuAt(a + t).nop \in BOOLEAN
             /\ Jumps(a + t) <=> ~EcuAt(a + t).cond
             /\ Delays(a + t) <=> ~EcuAt(a + t).nop
  <2>1. t \in 0 .. P - 1
    BY <1>1, <1>4
  <2>2. Straight(a, t, t)
    BY <2>1, PacketInBlock
  <2>3. Has(Packet(a + t), "ECU") /\ EcuAt(a + t).to # Nowhere
    BY <2>2 DEF Straight
  <2> QED BY <2>3, BranchKinds, EcuFields
<1> QED BY <1>2, <1>3, <1>4

\* The nuances that a packet of a block is decoded to.
LEMMA NuancesIn ==
  ASSUME program \in Programs, NEW a \in Int, NEW b, NEW t, NEW pos, NEW M, Layout(a, b, t, pos, M),
         NEW h \in 0 .. b.processed - 1
  PROVE  LET d == At(a, t, h)
         IN /\ \A n \in Scheduling(Packet(a + h)) : \E j \in 1 .. Len(d.nuances) : d.nuances[j] = n
            /\ \A j \in 1 .. Len(d.nuances) : d.nuances[j] \in Scheduling(Packet(a + h)) \/ (h = t /\ j = Len(d.nuances))
            /\ h = t => /\ Len(d.nuances) \in 1 .. Len(d.nuances) /\ d.nuances[Len(d.nuances)].in = EcuAt(a + h).in
                        /\ d.nuances[Len(d.nuances)].out = EcuAt(a + h).out
                        /\ d.nuances[Len(d.nuances)].unit = "ECU"
                        /\ d.nuances[Len(d.nuances)].cond = EcuAt(a + h).cond
                        /\ d.nuances[Len(d.nuances)].nop = EcuAt(a + h).nop
                        /\ d.nuances[Len(d.nuances)].link = EcuAt(a + h).link
<1> DEFINE d == At(a, t, h)
           p == Packet(a + h)
<1>0. Straight(a, t, h)
  BY PacketInBlock
<1>1. (d.ecu <=> h = t) /\ t \in Nat /\ h \in Int
  <2>1. InBlock(a, b, t, pos, M, h) /\ t \in Nat /\ b.processed \in Nat
    BY DEF Layout
  <2> QED BY <2>1 DEF InBlock
<1> HIDE DEF d, p
<1>6. /\ h <= t \/ EcuAt(a + t).cond => IsDecoded(d, p, a + h, FALSE)
      /\ h > t /\ ~EcuAt(a + t).cond => IsDecoded(d, p, a + h, TRUE)
  BY <1>0 DEF Straight, d, p
<1>2. IsDecoded(d, p, a + h, FALSE) \/ IsDecoded(d, p, a + h, TRUE)
  <2>1. h <= t \/ h > t
    BY <1>1
  <2> QED BY <1>6, <2>1
<1>3. h = t => IsDecoded(d, p, a + h, FALSE) /\ Has(p, "ECU")
  <2>1. h = t => Has(p, "ECU")
    BY <1>0 DEF Straight, p
  <2>2. h = t => h <= t
    BY <1>1
  <2> QED BY <1>6, <2>1, <2>2
<1>4. /\ \A n \in Scheduling(p) : \E j \in 1 .. Len(d.nuances) : d.nuances[j] = n
      /\ \A j \in 1 .. Len(d.nuances) : d.nuances[j] \in Scheduling(p) \/ (h = t /\ j = Len(d.nuances))
  BY <1>1, <1>2 DEF IsDecoded
<1>5. ASSUME h = t
      PROVE  LET n == d.nuances[Len(d.nuances)]  e == EcuAt(a + h)
             IN Len(d.nuances) \in 1 .. Len(d.nuances) /\ n.in = e.in /\ n.out = e.out /\ n.unit = "ECU" /\ n.cond = e.cond
                /\ n.nop = e.nop /\ n.link = e.link
  <2>1. Len(d.nuances) \in Nat /\ Len(d.nuances) # 0 /\ d.nuances[Len(d.nuances)] = BranchOf(p, a + h)
    BY <1>1, <1>3, <1>5 DEF IsDecoded
  <2>2. EcuAt(a + h) = Unit(p, "ECU")
    BY DEF EcuAt, p
  <2>3. Decodable(p, Readable)
    BY PacketIsPacket, PacketIsDecodable DEF p
  <2>4. LET n == BranchOf(p, a + h)  e == EcuAt(a + h)
        IN n.in = e.in /\ n.out = e.out /\ n.unit = "ECU" /\ n.cond = e.cond /\ n.nop = e.nop /\ n.link = e.link
    <3> DEFINE c == a + h
               e == EcuAt(c)
    <3>1. Has(p, "ECU") /\ e = Unit(p, "ECU")
      BY <1>3, <1>5, <2>2
    <3> HIDE DEF p, c, e
    <3>2. LET n == BranchOf(p, c)
          IN n.in = e.in /\ n.out = e.out /\ n.unit = "ECU" /\ n.cond = e.cond /\ n.nop = e.nop /\ n.link = e.link
      BY ONLY <2>3, <3>1, BranchFields
    <3> QED BY <3>2 DEF e, c
  <2> QED BY <2>1, <2>4
<1> QED BY <1>4, <1>5 DEF d, p

\* What a packet of a block reads.
LEMMA ReadsIn ==
  ASSUME program \in Programs, NEW a \in Int, NEW b, NEW t, NEW pos, NEW M, Layout(a, b, t, pos, M),
         NEW h \in 0 .. b.processed - 1, NEW c, c # "mem", ~ReadIn(At(a, t, h), c), NEW n \in Packet(a + h).units, c \in Reads(n)
  PROVE  n.unit = "ECU" /\ h > t /\ ~EcuAt(a + t).cond
<1> DEFINE d == At(a, t, h)
<1>1. /\ \A m \in Scheduling(Packet(a + h)) : \E j \in 1 .. Len(d.nuances) : d.nuances[j] = m
      /\ h = t => Len(d.nuances) \in 1 .. Len(d.nuances) /\ d.nuances[Len(d.nuances)].in = EcuAt(a + h).in
  BY NuancesIn
<1>2. c \in n.in
  BY DEF Reads
<1>3. n.unit = "ECU"
  <2> SUFFICES ASSUME n.unit # "ECU" PROVE FALSE
    OBVIOUS
  <2>1. n \in Scheduling(Packet(a + h))
    BY DEF Scheduling
  <2> HIDE DEF d
  <2> QED BY <1>1, <1>2, <2>1 DEF ReadIn, d
<1>4. n = EcuAt(a + h) /\ Has(Packet(a + h), "ECU")
  BY <1>3, EcuFields
<1>5. h # t
  <2> HIDE DEF d
  <2> QED BY <1>1, <1>2, <1>4 DEF ReadIn, d
<1>6. h = t \/ (h > t /\ ~EcuAt(a + t).cond)
  BY <1>4, BranchesIn
<1> QED BY <1>3, <1>5, <1>6

LEMMA MaskedIsHidden ==
  ASSUME program \in Programs, NEW a \in Int, NEW b, NEW t, NEW pos, NEW M, Layout(a, b, t, pos, M), NEW R, RefRun(a, b, R),
         NEW k \in 0 .. b.processed, NEW c \in M[k], c = "rz" /\ t \in k .. b.processed - 1 /\ EcuAt(a + t).link => ~EcuAt(a + t).cond
  PROVE  Hidden(c, R[k].pcexec, R[k].ecuSkipCounter)
<1> DEFINE P == b.processed
           T == TakesBranch(a, b, t, R)
           s == R[k].ecuSkipCounter
<1>1. P \in Nat /\ t \in Nat /\ (t < P => P = t + (IF EcuAt(a + t).nop THEN 1 ELSE 3))
  BY DEF Layout
<1>2. k # P /\ k \in 0 .. P - 1
  BY <1>1 DEF Layout
<1>3. R[k].pcexec = a + k /\ s = (IF T /\ k > t THEN P - k ELSE 0) /\ (t < P /\ ~T => EcuAt(a + t).cond)
  <2>1. Progress(a, b, t, R, k) /\ (t < P /\ ~T => EcuAt(a + t).cond)
    BY ReferenceProgress
  <2> QED BY <1>1, <1>2, <2>1 DEF Progress
<1>4. PICK k2 \in k .. P - 1 : c # "mem" /\ WrittenBy(a, t, c, k, k2)
  BY MaskedIsWritten
<1> HIDE DEF T, s
<1> DEFINE j == k2 - k
<1>5. j \in Nat /\ k2 = k + j /\ (a + k) + j = a + k2 /\ k2 \in 0 .. P - 1
  BY <1>1, <1>2
<1>6. j \in 0 .. Len(program)
  <2>1. a + k \in DOMAIN program /\ a + k2 \in DOMAIN program
    BY <1>2, <1>5 DEF Layout, InBlock
  <2>2. DOMAIN program = 1 .. Len(program) /\ Len(program) \in Nat
    BY ProgramAssumption
  <2> QED BY <1>5, <2>1, <2>2
<1> HIDE DEF j
<1>7. /\ \A h \in 0 .. P - 1 : Branches(a + h) => h = t \/ (h > t /\ ~EcuAt(a + t).cond)
      /\ t < P => /\ Has(Packet(a + t), "ECU") /\ EcuAt(a + t).cond \in BOOLEAN /\ EcuAt(a + t).nop \in BOOLEAN
                  /\ Jumps(a + t) <=> ~EcuAt(a + t).cond
                  /\ Delays(a + t) <=> ~EcuAt(a + t).nop
  BY BranchesIn
<1>8. ASSUME NEW i \in 0..j PROVE k + i \in 0 .. P - 1 /\ k + i \in k..k2 /\ (a + k) + i = a + (k + i) /\ i \in Int
  BY <1>1, <1>2, <1>5
\* Behind a branch that is always taken.
<1>9. ASSUME NEW i \in 0..j, k + i > t, ~EcuAt(a + t).cond
      PROVE  s # 0 \/ \E h \in 0 .. i - 1 : Jumps((a + k) + h)
  <2>1. t < P /\ k + i \in Int /\ i \in Int
    BY <1>1, <1>8, <1>9
  <2>2. CASE k > t
    BY <1>1, <1>2, <1>3, <1>9, <2>1, <2>2
  <2>3. CASE k <= t
    <3>1. t - k \in 0 .. i - 1 /\ (a + k) + (t - k) = a + t
      BY <1>1, <1>2, <1>9, <2>1, <2>3
    <3>2. Jumps((a + k) + (t - k))
      BY <1>7, <1>9, <2>1, <3>1
    <3> QED BY <3>1, <3>2
  <2> QED BY <1>1, <1>2, <2>2, <2>3
<1>10. Reached(a + k, s, j)
  <2>1. CASE s # 0
    <3>1. j < s
      BY <1>1, <1>2, <1>3, <1>5, <2>1
    <3> QED BY <2>1, <3>1 DEF Reached
  <2>2. CASE s = 0
    <3> SUFFICES ASSUME NEW i \in 0 .. j - 1, Branches((a + k) + i)
                 PROVE  \/ Delays((a + k) + i) /\ j <= i + 2
                        \/ \E h \in 0 .. i - 1 : Jumps((a + k) + h)
      BY <2>2 DEF Reached
    <3>1. i \in 0..j /\ i < j
      BY <1>5
    <3>2. k + i \in 0 .. P - 1 /\ (a + k) + i = a + (k + i)
      BY <1>8, <3>1
    <3>3. k + i = t \/ (k + i > t /\ ~EcuAt(a + t).cond)
      BY <1>7, <3>2
    <3>4. CASE k + i = t
      <4>1. t < P /\ t < k2 /\ k2 <= P - 1
        BY <1>1, <1>2, <1>5, <3>1, <3>4
      <4>2. ~EcuAt(a + t).nop
        BY <1>1, <1>5, <4>1
      <4>3. j <= i + 2
        BY <1>1, <1>2, <1>5, <3>1, <3>4, <4>1, <4>2
      <4>4. Delays((a + k) + i)
        BY <1>7, <3>2, <3>4, <4>1, <4>2
      <4> QED BY <4>3, <4>4
    <3>5. CASE k + i > t /\ ~EcuAt(a + t).cond
      BY <1>9, <2>2, <3>1, <3>5
    <3> QED BY <3>3, <3>4, <3>5
  <2> QED BY <2>1, <2>2
<1>11. ASSUME NEW i \in 0..j PROVE Unread(c, a + k, s, i)
  <2> SUFFICES ASSUME NEW n \in Packet((a + k) + i).units, c \in Reads(n)
               PROVE  n.unit = "ECU" /\ (s # 0 \/ \E h \in 0 .. i - 1 : Jumps((a + k) + h))
    BY DEF Unread
  <2> DEFINE h == k + i
  <2>1. h \in 0 .. P - 1 /\ h \in k..k2 /\ (a + k) + i = a + h
    BY <1>8
  <2>2. ~ReadIn(At(a, t, h), c) /\ c # "mem" /\ n \in Packet(a + h).units
    BY <1>4, <2>1 DEF WrittenBy
  <2> HIDE DEF h
  <2>3. n.unit = "ECU" /\ h > t /\ ~EcuAt(a + t).cond
    BY <2>1, <2>2, ReadsIn
  <2> QED BY <1>9, <2>3 DEF h
<1>12. \/ c \in WrittenAt((a + k) + j)
       \/ c = "rz" /\ Calls((a + k) + j) /\ s = 0 /\ \A i \in 0 .. j - 1 : ~Branches((a + k) + i)
  <2> DEFINE d == At(a, t, k2)
  <2>1. PICK i \in 1 .. Len(d.nuances) : c \in d.nuances[i].out
    BY <1>4 DEF WrittenBy, WrittenIn
  <2>2. /\ d.nuances[i] \in Scheduling(Packet(a + k2)) \/ (k2 = t /\ i = Len(d.nuances))
        /\ k2 = t => d.nuances[Len(d.nuances)].out = EcuAt(a + k2).out
    BY <1>5, NuancesIn
  <2> HIDE DEF d
  <2>3. CASE d.nuances[i] \in Scheduling(Packet(a + k2))
    <3>1. c \in WrittenAt(a + k2)
      BY <2>1, <2>3 DEF WrittenAt, Scheduling
    <3> QED BY <1>5, <3>1
  <2>4. CASE k2 = t /\ i = Len(d.nuances)
    <3>1. c \in EcuAt(a + t).out /\ t < P /\ t \in k .. P - 1
      BY <1>1, <1>5, <2>1, <2>2, <2>4, SMTT(30)
    <3>2. Has(Packet(a + t), "ECU")
      BY <1>7, <3>1
    <3>3. c = "rz" /\ EcuAt(a + t).link
      BY <3>1, <3>2, EcuFields
    <3>4. ~EcuAt(a + t).cond
      BY <3>1, <3>3
    <3>5. Calls(a + t)
      BY <3>2, <3>3, <3>4, BranchKinds
    <3>6. s = 0
      BY <1>1, <1>2, <1>3, <3>1
    <3>7. ASSUME NEW i0 \in 0 .. j - 1 PROVE ~Branches((a + k) + i0)
      <4>1. i0 \in 0..j /\ i0 < j
        BY <1>5
      <4>2. k + i0 \in 0 .. P - 1 /\ (a + k) + i0 = a + (k + i0) /\ k + i0 < t
        BY <1>1, <1>2, <1>5, <1>8, <2>4, <4>1
      <4>3. ~(k + i0 = t \/ k + i0 > t)
        BY <1>1, <4>2, SMTT(30)
      <4> QED BY <1>7, <4>2, <4>3
    <3> QED BY <1>5, <2>4, <3>3, <3>5, <3>6, <3>7
  <2> QED BY <2>2, <2>3, <2>4
<1>13. Overwritten(c, a + k, s, j)
  BY <1>10, <1>11, <1>12 DEF Overwritten
<1> QED BY <1>3, <1>6, <1>13 DEF Hidden, s

LEMMA Monotone ==
  ASSUME NEW a, NEW b, NEW t, NEW pos, NEW M, Layout(a, b, t, pos, M), NEW h \in 0 .. b.processed, NEW k \in h .. b.processed
  PROVE  pos[h] <= pos[k] /\ k \in 0 .. b.processed
<1> DEFINE P == b.processed
           S == {m \in 0..P : m >= h => pos[h] <= pos[m]}
<1>1. P \in Nat /\ pos \in [0..P -> Nat] /\ h \in 0..P
  BY DEF Layout
<1>2. 0 \in S
  BY <1>1
<1>3. ASSUME NEW m \in 0 .. P - 1, m \in S PROVE m + 1 \in S
  <2>1. m + 1 \in 0..P /\ m \in 0..P
    BY <1>1
  <2>2. pos[m + 1] = pos[m] \/ pos[m + 1] = pos[m] + 1
    BY DEF Layout, InBlock
  <2>3. CASE m >= h
    <3>1. pos[h] <= pos[m] /\ pos[h] \in Nat /\ pos[m] \in Nat
      BY <1>1, <1>3, <2>1, <2>3
    <3> QED BY <2>1, <2>2, <3>1
  <2>4. CASE ~(m >= h)
    <3>1. m + 1 >= h => m + 1 = h
      BY <1>1, <2>1, <2>4
    <3>2. pos[h] <= pos[h]
      BY <1>1
    <3> QED BY <2>1, <3>1, <3>2
  <2> QED BY <2>3, <2>4
<1>4. 0..P \subseteq S
  <2> HIDE DEF S
  <2> QED BY <1>1, <1>2, <1>3, UpTo
<1>5. k \in 0..P /\ k >= h
  BY <1>1
<1> QED BY <1>4, <1>5

\* The branch in the compiler's list.
HasBranch(a, t, q) ==
  \E n \in 1 .. Len(q) :
     /\ q[n].n.unit = "ECU" /\ q[n].n.cond = EcuAt(a + t).cond
     /\ q[n].n.nop = EcuAt(a + t).nop /\ q[n].n.link = EcuAt(a + t).link

LEMMA BranchInList ==
  ASSUME program \in Programs, NEW a \in Int, NEW b, NEW t, NEW pos, NEW M, Layout(a, b, t, pos, M), t < b.processed
  PROVE  /\ t \in 0 .. b.processed - 1 /\ pos[t + 1] = pos[t] + 1 /\ pos[t + 1] \in 1 .. Len(b.list)
         /\ HasBranch(a, t, b.list[pos[t + 1]])
<1> DEFINE d == At(a, t, t)
           i == pos[t + 1]
           n == Len(d.nuances)
<1>1. t \in 0 .. b.processed - 1
  BY DEF Layout
<1>2. InBlock(a, b, t, pos, M, t)
  BY <1>1 DEF Layout
<1>3. n \in 1..n /\ d.nuances[n].unit = "ECU" /\ d.nuances[n].cond = EcuAt(a + t).cond
      /\ d.nuances[n].nop = EcuAt(a + t).nop /\ d.nuances[n].link = EcuAt(a + t).link
  BY <1>1, NuancesIn
<1>4. ~IsEmpty(d)
  <2> HIDE DEF d
  <2>1. d.nuances = <<>> => n = 0
    OBVIOUS
  <2>2. n # 0
    BY <1>3
  <2> QED BY <2>1, <2>2 DEF IsEmpty
<1>5. i = pos[t] + 1 /\ i \in 1 .. Len(b.list) /\ CompiledTo(d, b.list[i], M[t + 1])
  BY <1>2, <1>4 DEF InBlock
<1> HIDE DEF d, i
<1>6. n \in 1 .. Len(b.list[i]) /\ b.list[i][n].n = d.nuances[n]
  BY <1>3, <1>5 DEF CompiledTo
<1> QED BY <1>1, <1>3, <1>5, <1>6 DEF i, HasBranch

\* A cell that a packet before the k-th does not write any more.
Omitted(a, b, pos, k, c) ==
  \E h \in 0 .. k - 1 : \E i \in 1 .. Len(b.list) : \E m \in 1 .. Len(b.list[i]) :
     i = pos[h + 1] /\ b.at[i] = a + h /\ c \in b.list[i][m].n.out \ b.list[i][m].out

LEMMA OmittedReturn ==
  ASSUME program \in Programs, NEW a \in Int, NEW b, NEW t, NEW pos, NEW M, Layout(a, b, t, pos, M), Sound(a, b),
         NEW k \in 0 .. b.processed, Omitted(a, b, pos, k, "rz"), t \in k .. b.processed - 1, EcuAt(a + t).link
  PROVE  ~EcuAt(a + t).cond
<1> DEFINE P == b.processed
           j == pos[t + 1]
<1>1. P \in Nat /\ t \in Nat /\ t < P /\ pos \in [0..P -> Nat] /\ Len(b.list) \in Nat
  BY DEF Layout, Runnable
<1>2. PICK h \in 0 .. k - 1 : \E i \in 1 .. Len(b.list) : \E m \in 1 .. Len(b.list[i]) :
        i = pos[h + 1] /\ "rz" \in b.list[i][m].n.out \ b.list[i][m].out
  BY DEF Omitted
<1>3. PICK i \in 1 .. Len(b.list) : \E m \in 1 .. Len(b.list[i]) :
        i = pos[h + 1] /\ "rz" \in b.list[i][m].n.out \ b.list[i][m].out
  BY <1>2
<1>4. PICK m \in 1 .. Len(b.list[i]) : i = pos[h + 1] /\ "rz" \in b.list[i][m].n.out \ b.list[i][m].out
  BY <1>3
<1>5. j = pos[t] + 1 /\ j \in 1 .. Len(b.list) /\ HasBranch(a, t, b.list[j])
  <2>1. program \in Programs /\ a \in Int /\ Layout(a, b, t, pos, M) /\ t < b.processed
    BY <1>1
  <2>2. pos[t + 1] = pos[t] + 1 /\ pos[t + 1] \in 1 .. Len(b.list) /\ HasBranch(a, t, b.list[pos[t + 1]])
    BY ONLY <2>1, BranchInList
  <2> QED BY <2>2
<1>6. PICK n \in 1 .. Len(b.list[j]) :
        b.list[j][n].n.unit = "ECU" /\ b.list[j][n].n.cond = EcuAt(a + t).cond /\ b.list[j][n].n.link = EcuAt(a + t).link
  BY <1>5 DEF HasBranch
<1>7. pos[h + 1] <= pos[t]
  <2> DEFINE g == h + 1
  <2>1. g \in 0..P /\ t \in g..P
    BY <1>1
  <2> HIDE DEF g
  <2>2. pos[g] <= pos[t]
    BY <2>1, Monotone
  <2> QED BY <2>2 DEF g
<1>8. i < j
  <2>0. t \in 0..P
    BY <1>1
  <2>1. pos[t] \in Nat /\ i \in Nat
    BY <1>1, <2>0, SMTT(30)
  <2> QED BY <1>4, <1>5, <1>7, <2>1
<1> HIDE DEF j
<1>9. NoLostReturn(b.list[i], b.list[j])
  BY <1>5, <1>8 DEF Sound
<1> QED BY <1>4, <1>6, <1>9 DEF NoLostReturn

\* The cells of a processor and of its reference at the k-th packet of a block:
\* unseen are those that are apart from before.
CellsAt(a, b, pos, M, R, unseen, k, x) ==
  \A c \in Cells : x.f[c] # R[k].f[c] =>
     /\ Hidden(c, R[k].pcexec, R[k].ecuSkipCounter)
     /\ c \in unseen \/ (c \in M[k] /\ Omitted(a, b, pos, k, c))

LEMMA OmittedNext ==
  ASSUME NEW a, NEW b, NEW pos, NEW k \in Nat, NEW c, Omitted(a, b, pos, k, c)
  PROVE  Omitted(a, b, pos, k + 1, c)
<1>1. \A h \in 0 .. k - 1 : h \in 0 .. (k + 1) - 1
  OBVIOUS
<1> QED BY <1>1 DEF Omitted

\* What a packet of the list does not write any more.
LEMMA OmittedAt ==
  ASSUME program \in Programs, NEW a \in Int, NEW b, NEW t, NEW pos, NEW M, Layout(a, b, t, pos, M),
         NEW k \in 0 .. b.processed - 1, ~IsEmpty(At(a, t, k)), NEW c \in M[k + 1], c \in WrittenAt(a + k)
  PROVE  Omitted(a, b, pos, k + 1, c)
<1> DEFINE d == At(a, t, k)
           i == pos[k + 1]
<1>1. i \in 1 .. Len(b.list) /\ b.at[i] = a + k /\ CompiledTo(d, b.list[i], M[k + 1])
  BY DEF Layout, InBlock
<1>2. PICK n \in Packet(a + k).units : n.unit # "ECU" /\ c \in n.out
  BY DEF WrittenAt
<1>3. PICK m \in 1 .. Len(d.nuances) : d.nuances[m] = n
  <2>1. n \in Scheduling(Packet(a + k))
    BY <1>2 DEF Scheduling
  <2> QED BY <2>1, NuancesIn, SMTT(30)
<1> HIDE DEF d
<1>4. m \in 1 .. Len(b.list[i]) /\ c \in b.list[i][m].n.out \ b.list[i][m].out
  <2> HIDE DEF i
  <2> QED BY <1>1, <1>2, <1>3 DEF CompiledTo
<1>5. k \in 0 .. (k + 1) - 1
  BY DEF Layout
<1>6. \E m0 \in 1 .. Len(b.list[i]) : i = pos[k + 1] /\ b.at[i] = a + k /\ c \in b.list[i][m0].n.out \ b.list[i][m0].out
  BY <1>1, <1>4
<1> HIDE DEF i
<1> QED BY <1>1, <1>5, <1>6 DEF Omitted

\* What need not be written before a packet need not be written behind it, or
\* the packet writes it.
LEMMA MaskedNext ==
  ASSUME program \in Programs, NEW a \in Int, NEW b, NEW t, NEW pos, NEW M, Layout(a, b, t, pos, M), Sound(a, b),
         NEW k \in 0 .. b.processed - 1, NEW c \in M[k], Omitted(a, b, pos, k, c),
         NEW takes, MayTake(a + k, 0, takes) \/ k # t
  PROVE  c \in M[k + 1] \/ Certainly(c, a + k, takes)
<1> DEFINE d == At(a, t, k)
<1>1. InBlock(a, b, t, pos, M, k)
  BY DEF Layout
<1>2. CASE IsEmpty(d)
  BY <1>1, <1>2 DEF InBlock
<1>3. CASE ~IsEmpty(d) /\ c \notin M[k + 1]
  <2>1. MaskedBy(d, M[k], M[k + 1])
    BY <1>1, <1>3 DEF InBlock
  <2>2. PICK j \in 1 .. Len(d.nuances) : c \in d.nuances[j].out
    BY <1>3, <2>1 DEF MaskedBy
  <2>3. /\ d.nuances[j] \in Scheduling(Packet(a + k)) \/ (k = t /\ j = Len(d.nuances))
        /\ k = t => d.nuances[Len(d.nuances)].out = EcuAt(a + k).out
    BY NuancesIn
  <2> HIDE DEF d
  <2>4. CASE d.nuances[j] \in Scheduling(Packet(a + k))
    BY <2>2, <2>4 DEF Certainly, WrittenAt, Scheduling
  <2>5. CASE k = t /\ j = Len(d.nuances)
    <3>1. Straight(a, t, k)
      BY PacketInBlock
    <3>2. Has(Packet(a + k), "ECU") /\ EcuAt(a + k).to # Nowhere
      BY <2>5, <3>1 DEF Straight
    <3>3. c \in EcuAt(a + k).out
      BY <2>2, <2>3, <2>5
    <3>4. c = "rz" /\ EcuAt(a + k).link
      <4> DEFINE h == a + k
      <4>1. Has(Packet(h), "ECU")
        BY <3>2
      <4> HIDE DEF h
      <4>2. EcuAt(h).out = (IF EcuAt(h).link THEN {"rz"} ELSE {})
        BY <4>1, EcuFields
      <4> QED BY <3>3, <4>2 DEF h
    <3>5. ~EcuAt(a + k).cond
      <4>1. k \in 0 .. b.processed /\ t \in k .. b.processed - 1
        BY <2>5 DEF Layout
      <4> QED BY <2>5, <3>4, <4>1, OmittedReturn
    <3>6. takes
      BY <2>5, <3>2, <3>5 DEF MayTake
    <3> QED BY <3>4, <3>6 DEF Certainly
  <2> QED BY <2>3, <2>4, <2>5
<1> QED BY <1>2, <1>3

\* A packet of a block has been executed, and by the reference too.
StepOfBlock(a, b, pos, M, R, unseen, k, x, y) ==
  /\ CellsAt(a, b, pos, M, R, unseen, k + 1, y)
  /\ TakesAt(a + k, x) = TakesAt(a + k, Beginning(R[k]))
  /\ TakesAt(a + k, x) => y.pcfetchnext = R[k + 1].pcfetchnext

LEMMA StepCells ==
  ASSUME program \in Programs, NEW a \in Int, NEW b, NEW t, NEW pos, NEW M, Layout(a, b, t, pos, M), Sound(a, b),
         NEW R, RefRun(a, b, R), NEW k \in 0 .. b.processed - 1, NEW x \in State, NEW unseen,
         CellsAt(a, b, pos, M, R, unseen, k, x), x.ecuSkipCounter = 0 <=> R[k].ecuSkipCounter = 0,
         NEW left, NEW s, NEW y, Executes(a + k, left, s, x, y), left \subseteq M[k + 1], IsEmpty(At(a, t, k)) => left = {}
  PROVE  StepOfBlock(a, b, pos, M, R, unseen, k, x, y)
<1> DEFINE P == b.processed
           r == R[k]
           r2 == R[k + 1]
           takes == TakesAt(r.pcexec, Beginning(r))
<1>1. /\ P \in Nat /\ t \in Nat /\ k \in 0..P /\ k < P /\ k \in Nat /\ k + 1 \in 0..P
      /\ r \in State /\ r2 = Interpreted(r)
  <2>1. P \in Nat /\ t \in Nat
    BY DEF Layout
  <2>2. k \in 0..P /\ k < P /\ k \in Nat /\ k + 1 \in 0..P
    BY <2>1
  <2>3. R \in [0..P -> State] /\ r2 = Interpreted(r)
    BY DEF RefRun
  <2> QED BY <2>1, <2>2, <2>3
<1>2. r.pcexec = a + k /\ (k = t => r.ecuSkipCounter = 0)
  <2>1. Progress(a, b, t, R, k)
    BY <1>1, ReferenceProgress
  <2> QED BY <1>1, <2>1 DEF Progress
<1> HIDE DEF r, r2
<1>3. Beginning(r).f = r.f
  <2>1. ~Packet(r.pcexec).breakpoint
    BY <1>2 DEF Sound
  <2> QED BY <1>1, <2>1, BeginningType
<1>4. Concealed(x, Beginning(r), r.pcexec, r.ecuSkipCounter)
  BY <1>3 DEF Concealed, CellsAt, r
<1>5. FollowsTo(x, y, left, r, takes, r2)
  <2>1. Executes(r.pcexec, left, s, x, y) /\ (x.ecuSkipCounter = 0 <=> r.ecuSkipCounter = 0)
    BY <1>2 DEF r
  <2>2. FollowsTo(x, y, left, r, takes, Interpreted(r))
    BY <1>1, <1>4, <2>1, TogetherStep
  <2> QED BY <1>1, <2>2
<1> HIDE DEF takes
<1>6. ASSUME NEW c \in Cells, y.f[c] # r2.f[c]
      PROVE  /\ Hidden(c, r2.pcexec, r2.ecuSkipCounter)
             /\ c \in unseen \/ (c \in M[k + 1] /\ Omitted(a, b, pos, k + 1, c))
  <2>1. \/ c \in left /\ c \in WrittenAt(a + k)
        \/ x.f[c] # r.f[c] /\ ~Certainly(c, a + k, takes) /\ Hidden(c, r2.pcexec, r2.ecuSkipCounter)
    BY <1>2, <1>3, <1>5, <1>6 DEF FollowsTo
  <2>2. CASE c \in left /\ c \in WrittenAt(a + k)
    <3>1. c \in M[k + 1] /\ ~IsEmpty(At(a, t, k))
      BY <2>2
    <3>2. Omitted(a, b, pos, k + 1, c)
      BY <2>2, <3>1, OmittedAt
    <3> DEFINE g == k + 1
    <3>3. g \in 0..P /\ c \in M[g] /\ Omitted(a, b, pos, g, c)
      BY <1>1, <3>1, <3>2
    <3> HIDE DEF g
    <3>4. c = "rz" /\ t \in g .. P - 1 /\ EcuAt(a + t).link => ~EcuAt(a + t).cond
      BY <3>3, OmittedReturn
    <3>5. Hidden(c, R[g].pcexec, R[g].ecuSkipCounter)
      BY <3>3, <3>4, MaskedIsHidden
    <3> QED BY <3>1, <3>2, <3>5 DEF g, r2
  <2>3. CASE x.f[c] # r.f[c] /\ ~Certainly(c, a + k, takes) /\ Hidden(c, r2.pcexec, r2.ecuSkipCounter)
    <3>1. c \in unseen \/ (c \in M[k] /\ Omitted(a, b, pos, k, c))
      BY <2>3 DEF CellsAt, r
    <3>2. CASE c \in M[k] /\ Omitted(a, b, pos, k, c)
      <4>1. MayTake(a + k, 0, takes) \/ k # t
        BY <1>2, <1>5 DEF FollowsTo
      <4>2. c \in M[k + 1]
        BY <2>3, <3>2, <4>1, MaskedNext
      <4>3. Omitted(a, b, pos, k + 1, c)
        BY <1>1, <3>2, OmittedNext
      <4> QED BY <2>3, <4>2, <4>3
    <3> QED BY <2>3, <3>1, <3>2
  <2> QED BY <2>1, <2>2, <2>3
<1>7. CellsAt(a, b, pos, M, R, unseen, k + 1, y)
  BY <1>6 DEF CellsAt, r2
<1>8. TakesAt(a + k, x) = takes /\ (takes => y.pcfetchnext = r2.pcfetchnext)
  BY <1>2, <1>5 DEF FollowsTo
<1>9. takes = TakesAt(a + k, Beginning(R[k]))
  BY <1>2 DEF takes, r
<1> QED BY <1>7, <1>8, <1>9 DEF StepOfBlock, r2

LEMMA DecodedInBlock ==
  ASSUME program \in Programs, NEW a \in Int, NEW b, NEW t, NEW pos, NEW M, Layout(a, b, t, pos, M), NEW R, RefRun(a, b, R),
         NEW k \in 0 .. b.processed - 1, NEW x, x.ecuSkipCounter = 0 <=> R[k].ecuSkipCounter = 0
  PROVE  DecodedFor(At(a, t, k), a + k, x)
<1> DEFINE P == b.processed
           T == TakesBranch(a, b, t, R)
<1>1. P \in Nat /\ t \in Nat /\ k \in 0..P /\ k < P
  <2>1. P \in Nat /\ t \in Nat
    BY DEF Layout
  <2> QED BY <2>1
<1>2. Straight(a, t, k)
  BY PacketInBlock
<1>3. Progress(a, b, t, R, k) /\ (t < P /\ ~T => EcuAt(a + t).cond)
  BY <1>1, ReferenceProgress
<1>4. CASE k <= t \/ EcuAt(a + t).cond
  BY <1>2, <1>4 DEF Straight, DecodedFor
<1>5. CASE ~(k <= t \/ EcuAt(a + t).cond)
  <2>1. k > t /\ t < P
    BY <1>1, <1>5
  <2>2. T
    BY <1>3, <1>5, <2>1
  <2>3. R[k].ecuSkipCounter = P - k
    BY <1>3, <2>1, <2>2 DEF Progress
  <2>4. x.ecuSkipCounter # 0
    BY <1>1, <2>3
  <2>5. IsDecoded(At(a, t, k), Packet(a + k), a + k, TRUE)
    BY <1>2, <1>5, <2>1 DEF Straight
  <2> QED BY <2>4, <2>5 DEF DecodedFor
<1> QED BY <1>4, <1>5

\* A packet without instructions.
LEMMA EmptyExecutes ==
  ASSUME program \in Programs, NEW a \in Int, NEW x \in State, NEW d, DecodedFor(d, a, x), IsEmpty(d)
  PROVE  Executes(a, {}, 1, x, x)
<1> DEFINE X == [i \in {0} |-> x]
           live == {}
           left == {}
           W == <<>>
           ns == d.nuances
<1>1. Len(ns) = 0
  BY DEF IsEmpty
<1>2. X[0] = x /\ 1 \in 1..3 /\ 1 .. Len(ns) = {}
  BY <1>1
<1> HIDE DEF X, live, W
<1>3. Omits(ns, W, live, left)
  BY <1>2 DEF Omits
<1>4. Pass(ns, W, live, 1, x, X)
  BY <1>2 DEF Pass
<1> HIDE DEF left
<1>5. Executes(a, left, 1, x, X[Len(ns)])
  BY <1>2, <1>3, <1>4, PassExecutes
<1>6. X[Len(ns)] = x
  BY <1>1, <1>2
<1> QED BY <1>5, <1>6 DEF left

\* Delay slots that are executed as IL are not empty.
LEMMA SlotsFilled ==
  ASSUME program \in Programs, NEW a \in Int, NEW b, NEW t, NEW pos, NEW M, Layout(a, b, t, pos, M), Sound(a, b), ~b.native,
         NEW k \in 0 .. b.processed - 1, k >= t
  PROVE  ~IsEmpty(At(a, t, k))
<1> DEFINE P == b.processed
<1>1. P \in Nat /\ t \in Nat /\ t < P /\ P = t + (IF EcuAt(a + t).nop THEN 1 ELSE 3) /\ Len(b.list) \in Nat
      /\ pos \in [0..P -> Nat] /\ pos[P] = Len(b.list)
  BY DEF Layout, Runnable
<1>2. t \in 0 .. P - 1 /\ pos[t + 1] = pos[t] + 1 /\ pos[t + 1] \in 1 .. Len(b.list) /\ HasBranch(a, t, b.list[pos[t + 1]])
  BY <1>1, BranchInList
<1>3. CASE k = t
  <2>1. InBlock(a, b, t, pos, M, t)
    BY <1>2 DEF Layout
  <2>2. pos[t] \in Nat
    BY <2>1 DEF InBlock
  <2>3. pos[t + 1] # pos[t]
    BY <1>2, <2>2
  <2> QED BY <1>3, <2>1, <2>3 DEF InBlock
<1>4. CASE k # t
  <2>1. P = t + 3 /\ ~EcuAt(a + t).nop /\ (k = t + 1 \/ k = t + 2)
    BY <1>1, <1>4
  <2>2. pos[t + 1] <= Len(b.list) - 2
    <3> DEFINE i == pos[t + 1]
    <3>1. NoEmptySlot(b.list[i], i, Len(b.list))
      BY <1>2 DEF Sound
    <3> HIDE DEF i
    <3> QED BY <1>2, <2>1, <3>1 DEF NoEmptySlot, HasBranch, i
  <2>3. t + 1 \in 0 .. P - 1 /\ t + 2 \in 0 .. P - 1 /\ (t + 1) + 1 = t + 2 /\ (t + 2) + 1 = P
    BY <1>1, <2>1
  <2>4. /\ IF IsEmpty(At(a, t, t + 1)) THEN pos[t + 2] = pos[t + 1] ELSE pos[t + 2] = pos[t + 1] + 1
        /\ IF IsEmpty(At(a, t, t + 2)) THEN pos[P] = pos[t + 2] ELSE pos[P] = pos[t + 2] + 1
    <3>1. InBlock(a, b, t, pos, M, t + 1) /\ InBlock(a, b, t, pos, M, t + 2)
      BY <2>3 DEF Layout
    <3> QED BY <2>3, <3>1 DEF InBlock
  <2>5. pos[t + 1] \in Nat /\ pos[t + 2] \in Nat
    <3>1. t + 1 \in 0..P /\ t + 2 \in 0..P
      BY <1>1, <2>1
    <3> QED BY <1>1, <3>1
  <2>6. ~IsEmpty(At(a, t, t + 1)) /\ ~IsEmpty(At(a, t, t + 2))
    BY <1>1, <2>2, <2>4, <2>5, SMTT(30)
  <2> QED BY <2>1, <2>6
<1> QED BY <1>3, <1>4

-----------------------------------------------------------------------------
(* A block that is executed as IL                                          *)

ILAt(a, b, t, pos, M, R, unseen, k, z) ==
  /\ z \in StateIL
  /\ CellsAt(a, b, pos, M, R, unseen, k, z.x)
  /\ z.x.ecuSkipCounter = R[k].ecuSkipCounter
  /\ IF TakesBranch(a, b, t, R) /\ k > t
     THEN /\ z.x.pcfetchnext = R[t + 1].pcfetchnext
          /\ z.taken <=> k = b.processed
          /\ z.x.pcexec = (IF k < b.processed THEN b.exit ELSE R[t + 1].pcfetchnext)
     ELSE ~z.taken /\ z.x.pcexec = b.exit

LEMMA ILEmpty ==
  ASSUME program \in Programs, NEW a \in Int, NEW b, NEW t, NEW pos, NEW M, Layout(a, b, t, pos, M), Sound(a, b), ~b.native,
         NEW R, RefRun(a, b, R), NEW k \in 0 .. b.processed - 1, NEW unseen, NEW z, ILAt(a, b, t, pos, M, R, unseen, k, z),
         IsEmpty(At(a, t, k))
  PROVE  ILAt(a, b, t, pos, M, R, unseen, k + 1, z)
<1> DEFINE P == b.processed
           T == TakesBranch(a, b, t, R)
           x == z.x
<1>1. P \in Nat /\ t \in Nat /\ k \in 0..P /\ k + 1 \in 0..P /\ k \in Int
  <2>1. P \in Nat /\ t \in Nat
    BY DEF Layout
  <2> QED BY <2>1
<1>2. ~(k >= t)
  BY SlotsFilled
<1>3. ~(T /\ k > t) /\ ~(T /\ k + 1 > t)
  BY <1>1, <1>2
<1>4. Progress(a, b, t, R, k) /\ Progress(a, b, t, R, k + 1)
  BY <1>1, ReferenceProgress
<1>5. R[k].ecuSkipCounter = 0 /\ R[k + 1].ecuSkipCounter = 0
  BY <1>3, <1>4 DEF Progress
<1>6. x \in State /\ x.ecuSkipCounter = 0 /\ z \in StateIL /\ ~z.taken /\ x.pcexec = b.exit
      /\ CellsAt(a, b, pos, M, R, unseen, k, x)
  BY <1>3, <1>5 DEF ILAt, StateIL
<1>7. CellsAt(a, b, pos, M, R, unseen, k + 1, x)
  <2> DEFINE left == {}
             h == a + k
  <2>1. DecodedFor(At(a, t, k), h, x)
    BY <1>5, <1>6, DecodedInBlock
  <2>2. h \in Int
    BY <1>1
  <2>3. Executes(h, {}, 1, x, x)
    <3> HIDE DEF h, x
    <3> QED BY <1>6, <2>1, <2>2, EmptyExecutes
  <2>4. Executes(a + k, left, 1, x, x) /\ left \subseteq M[k + 1] /\ (IsEmpty(At(a, t, k)) => left = {})
    BY <2>3
  <2>5. x.ecuSkipCounter = 0 <=> R[k].ecuSkipCounter = 0
    BY <1>5, <1>6
  <2> HIDE DEF left, h, x
  <2>6. StepOfBlock(a, b, pos, M, R, unseen, k, x, x)
    BY <1>6, <2>4, <2>5, StepCells
  <2> QED BY <2>6 DEF StepOfBlock
<1> HIDE DEF T
<1> QED BY <1>3, <1>5, <1>6, <1>7 DEF ILAt, T

LEMMA ILNext ==
  ASSUME program \in Programs, NEW a \in Int, NEW b, NEW t, NEW pos, NEW M, Layout(a, b, t, pos, M), Sound(a, b), ~b.native,
         NEW R, RefRun(a, b, R), NEW k \in 0 .. b.processed - 1, NEW unseen, NEW z, ILAt(a, b, t, pos, M, R, unseen, k, z),
         ~IsEmpty(At(a, t, k))
  PROVE  ILAt(a, b, t, pos, M, R, unseen, k + 1, NextPacketIL(b.list[pos[k + 1]], z))
<1> DEFINE P == b.processed
           T == TakesBranch(a, b, t, R)
           x == z.x
           q == b.list[pos[k + 1]]
           d == At(a, t, k)
           left == M[k + 1]
           h == a + k
           y == RunPacketIL(q, x)
           z2 == NextPacketIL(q, z)
<1>1. P \in Nat /\ t \in Nat /\ (t < P => P = t + (IF EcuAt(a + t).nop THEN 1 ELSE 3))
      /\ k \in 0..P /\ k + 1 \in 0..P /\ k \in Int /\ k < P /\ h \in Int
  <2>1. P \in Nat /\ t \in Nat /\ (t < P => P = t + (IF EcuAt(a + t).nop THEN 1 ELSE 3))
    BY DEF Layout
  <2> QED BY <2>1
<1>2. d \in Fetchable /\ pos[k + 1] \in 1 .. Len(b.list) /\ CompiledTo(d, q, left)
  BY DEF Layout, InBlock
<1>3. NoStray(q) /\ NoneLost(q) /\ Performable(q)
  BY <1>2 DEF Sound, Layout, Runnable
<1>4. Progress(a, b, t, R, k) /\ Progress(a, b, t, R, k + 1)
  BY <1>1, ReferenceProgress
<1>5. z \in StateIL /\ x \in State /\ x.ecuSkipCounter = R[k].ecuSkipCounter /\ CellsAt(a, b, pos, M, R, unseen, k, x)
  BY DEF ILAt, StateIL
<1>6. ~z.taken /\ x.pcexec = b.exit /\ (T /\ k > t => x.pcfetchnext = R[t + 1].pcfetchnext)
  BY <1>1 DEF ILAt
<1> HIDE DEF x, q
<1>7. DecodedFor(d, h, x)
  BY <1>5, DecodedInBlock
<1> HIDE DEF d, left, h
<1>8. Executes(h, left, 3, x, y) /\ y.pcexec = x.pcexec
  BY <1>1, <1>2, <1>3, <1>5, <1>7, PacketILHolds
<1>9. y \in State
  BY <1>8 DEF Executes
<1> HIDE DEF y
<1>10. StepOfBlock(a, b, pos, M, R, unseen, k, x, y)
  <2>1. Executes(a + k, left, 3, x, y) /\ left \subseteq M[k + 1] /\ (IsEmpty(At(a, t, k)) => left = {})
    BY <1>8 DEF h, left
  <2>2. x.ecuSkipCounter = 0 <=> R[k].ecuSkipCounter = 0
    BY <1>5
  <2> QED BY <1>5, <2>1, <2>2, StepCells
<1>11. z2 \in StateIL /\ z2.x = Retired(y) /\ (z2.taken <=> y.ecuSkipCounter = 1)
  BY <1>3, <1>5, <1>6, NextPacketILType DEF x, y
<1>12. Retired(y).f = y.f /\ Retired(y).pcfetchnext = y.pcfetchnext
       /\ Retired(y).ecuSkipCounter = (IF y.ecuSkipCounter = 0 THEN 0 ELSE y.ecuSkipCounter - 1)
       /\ Retired(y).pcexec = (IF y.ecuSkipCounter = 1 THEN y.pcfetchnext ELSE y.pcexec)
  BY <1>9, RetiredType
<1> HIDE DEF z2
<1>13. CellsAt(a, b, pos, M, R, unseen, k + 1, z2.x)
  BY <1>10, <1>11, <1>12 DEF StepOfBlock, CellsAt
<1>14. Straight(a, t, k)
  BY PacketInBlock
<1>15. IF TakesAt(h, x) THEN y.ecuSkipCounter = (IF EcuAt(h).nop THEN 1 ELSE 3) /\ y.pcfetchnext = R[k + 1].pcfetchnext
       ELSE y.ecuSkipCounter = x.ecuSkipCounter /\ y.pcfetchnext = x.pcfetchnext
  BY <1>8, <1>10 DEF Executes, StepOfBlock, h
<1>16. k = t => (TakesAt(h, x) <=> T)
  <2>1. TakesAt(h, x) = TakesAt(h, Beginning(R[k]))
    BY <1>10 DEF StepOfBlock, h
  <2> QED BY <1>1, <2>1 DEF TakesBranch, h
<1> HIDE DEF T
<1>17. ASSUME k < t \/ (k > t /\ ~T) \/ (k = t /\ ~T)
       PROVE  ILAt(a, b, t, pos, M, R, unseen, k + 1, z2)
  <2>1. ~TakesAt(h, x)
    <3>1. CASE k = t
      BY <1>1, <1>16, <1>17, <3>1
    <3>2. CASE k < t
      BY <1>14, <3>2 DEF Straight, TakesAt, h
    <3>3. CASE k > t /\ ~T
      <4>1. t < P /\ ~T => EcuAt(a + t).cond
        BY ReferenceProgress DEF T
      <4>2. t < P
        BY <1>1, <3>3
      <4> QED BY <1>14, <3>3, <4>1, <4>2 DEF Straight, TakesAt, h
    <3> QED BY <1>1, <1>17, <3>1, <3>2, <3>3
  <2>2. x.ecuSkipCounter = 0 /\ ~(T /\ k + 1 > t)
    <3>1. ~(T /\ k > t) /\ ~(T /\ k + 1 > t)
      BY <1>1, <1>17
    <3> QED BY <1>4, <1>5, <3>1 DEF Progress, T
  <2>3. R[k + 1].ecuSkipCounter = 0
    BY <1>4, <2>2 DEF Progress, T
  <2>4. y.ecuSkipCounter = 0
    BY <1>15, <2>1, <2>2
  <2>5. z2.x.ecuSkipCounter = 0 /\ z2.x.pcexec = b.exit /\ ~z2.taken
    BY <1>6, <1>8, <1>11, <1>12, <2>4
  <2>6. ~(TakesBranch(a, b, t, R) /\ k + 1 > t)
    BY <2>2 DEF T
  <2> QED BY ONLY <1>11, <1>13, <2>3, <2>5, <2>6 DEF ILAt
<1>18. ASSUME k = t /\ T
       PROVE  ILAt(a, b, t, pos, M, R, unseen, k + 1, z2)
  <2>1. TakesAt(h, x) /\ h = a + t
    BY <1>16, <1>18 DEF h
  <2>2. y.ecuSkipCounter = (IF EcuAt(a + t).nop THEN 1 ELSE 3) /\ y.pcfetchnext = R[t + 1].pcfetchnext
    BY <1>15, <1>18, <2>1
  <2>3. T /\ k + 1 > t
    BY <1>1, <1>18
  <2>4. R[k + 1].ecuSkipCounter = P - (k + 1)
    BY <1>4, <2>3 DEF Progress, T
  <2>5. z2.x.ecuSkipCounter = P - (k + 1) /\ (z2.taken <=> k + 1 = P)
    BY <1>1, <1>11, <1>12, <1>18, <2>2
  <2>6. z2.x.pcfetchnext = R[t + 1].pcfetchnext
    BY <1>11, <1>12, <2>2
  <2>7. z2.x.pcexec = IF k + 1 < P THEN b.exit ELSE R[t + 1].pcfetchnext
    BY <1>1, <1>6, <1>8, <1>11, <1>12, <1>18, <2>2
  <2>8. TakesBranch(a, b, t, R) /\ k + 1 > t
    BY <2>3 DEF T
  <2>9. z2.x.ecuSkipCounter = R[k + 1].ecuSkipCounter
    BY <2>4, <2>5
  <2> QED BY ONLY <1>11, <1>13, <2>5, <2>6, <2>7, <2>8, <2>9 DEF ILAt
<1>19. ASSUME k > t /\ T
       PROVE  ILAt(a, b, t, pos, M, R, unseen, k + 1, z2)
  <2>1. x.ecuSkipCounter = P - k /\ x.pcfetchnext = R[t + 1].pcfetchnext
    BY <1>4, <1>5, <1>6, <1>19 DEF Progress, T
  <2>2. ~TakesAt(h, x)
    <3>1. x.ecuSkipCounter # 0
      BY <1>1, <2>1
    <3> QED BY <3>1 DEF TakesAt, Taken
  <2>3. y.ecuSkipCounter = P - k /\ y.pcfetchnext = R[t + 1].pcfetchnext
    BY <1>15, <2>1, <2>2
  <2>4. T /\ k + 1 > t
    BY <1>1, <1>19
  <2>5. R[k + 1].ecuSkipCounter = P - (k + 1)
    BY <1>4, <2>4 DEF Progress, T
  <2>6. z2.x.ecuSkipCounter = P - (k + 1) /\ (z2.taken <=> k + 1 = P)
    BY <1>1, <1>11, <1>12, <2>3
  <2>7. z2.x.pcexec = IF k + 1 < P THEN b.exit ELSE R[t + 1].pcfetchnext
    BY <1>1, <1>6, <1>8, <1>11, <1>12, <2>3
  <2>8. z2.x.pcfetchnext = R[t + 1].pcfetchnext
    BY <1>11, <1>12, <2>3
  <2>9. TakesBranch(a, b, t, R) /\ k + 1 > t
    BY <2>4 DEF T
  <2>10. z2.x.ecuSkipCounter = R[k + 1].ecuSkipCounter
    BY <2>5, <2>6
  <2> QED BY ONLY <1>11, <1>13, <2>6, <2>7, <2>8, <2>9, <2>10 DEF ILAt
<1>20. ILAt(a, b, t, pos, M, R, unseen, k + 1, z2)
  <2>1. k < t \/ k = t \/ k > t
    BY <1>1
  <2> QED BY ONLY <1>17, <1>18, <1>19, <2>1
<1> QED BY <1>20 DEF z2, q

LEMMA ILReached ==
  ASSUME program \in Programs, NEW a \in Int, NEW b, NEW t, NEW pos, NEW M, Layout(a, b, t, pos, M), Sound(a, b), ~b.native,
         NEW R, RefRun(a, b, R), NEW unseen, NEW x \in State, x.ecuSkipCounter = 0, CellsAt(a, b, pos, M, R, unseen, 0, x),
         NEW Z, Z[0] = EntryIL(b, x), \A i \in 1 .. Len(b.list) : Z[i] = NextPacketIL(b.list[i], Z[i - 1])
  PROVE  ILAt(a, b, t, pos, M, R, unseen, b.processed, Z[Len(b.list)])
<1> DEFINE P == b.processed
           S == {k \in 0..P : ILAt(a, b, t, pos, M, R, unseen, k, Z[pos[k]])}
<1>1. P \in Nat /\ t \in Nat /\ pos[0] = 0 /\ pos[P] = Len(b.list) /\ Runnable(b)
  BY DEF Layout
<1>2. 0 \in S
  <2> DEFINE z == EntryIL(b, x)
  <2>1. z \in StateIL /\ ~z.taken /\ z.x.f = x.f /\ z.x.pcexec = b.exit /\ z.x.ecuSkipCounter = 0
    BY <1>1, EntryILType
  <2>2. Z[pos[0]] = z
    BY <1>1
  <2> HIDE DEF z
  <2>3. R[0].ecuSkipCounter = 0 /\ ~(TakesBranch(a, b, t, R) /\ 0 > t)
    BY <1>1 DEF RefRun
  <2>4. CellsAt(a, b, pos, M, R, unseen, 0, z.x)
    BY <2>1 DEF CellsAt
  <2>5. ILAt(a, b, t, pos, M, R, unseen, 0, z)
    BY <2>1, <2>3, <2>4 DEF ILAt
  <2> QED BY <1>1, <2>2, <2>5
<1>3. ASSUME NEW k \in 0 .. P - 1, k \in S PROVE k + 1 \in S
  <2> DEFINE z == Z[pos[k]]
  <2>1. k + 1 \in 0..P
    BY <1>1
  <2>2. ILAt(a, b, t, pos, M, R, unseen, k, z)
    BY <1>3
  <2>3. InBlock(a, b, t, pos, M, k)
    BY DEF Layout
  <2> HIDE DEF z
  <2>4. CASE IsEmpty(At(a, t, k))
    <3>1. Z[pos[k + 1]] = z
      BY <2>3, <2>4 DEF InBlock, z
    <3>2. ILAt(a, b, t, pos, M, R, unseen, k + 1, z)
      BY <2>2, <2>4, ILEmpty
    <3> QED BY <2>1, <3>1, <3>2
  <2>5. CASE ~IsEmpty(At(a, t, k))
    <3>1. pos[k] \in Nat /\ pos[k + 1] = pos[k] + 1 /\ pos[k + 1] \in 1 .. Len(b.list)
      BY <2>3, <2>5 DEF InBlock
    <3>2. Z[pos[k + 1]] = NextPacketIL(b.list[pos[k + 1]], Z[pos[k + 1] - 1]) /\ pos[k + 1] - 1 = pos[k]
      BY <3>1, SMTT(30)
    <3>3. Z[pos[k + 1]] = NextPacketIL(b.list[pos[k + 1]], z)
      BY <3>2 DEF z
    <3>4. ILAt(a, b, t, pos, M, R, unseen, k + 1, NextPacketIL(b.list[pos[k + 1]], z))
      BY <2>2, <2>5, ILNext
    <3> QED BY <2>1, <3>3, <3>4
  <2> QED BY <2>4, <2>5
<1> HIDE DEF P, S
<1>4. 0 .. P \subseteq S
  BY <1>1, <1>2, <1>3, UpTo
<1>5. P \in S
  BY <1>1, <1>4
<1> QED BY <1>1, <1>5 DEF S, P

\* At the end of a block, and not before a branch that is executed twice.
LEMMA BlockEnd ==
  ASSUME program \in Programs, NEW a \in Int, NEW b, NEW t, NEW pos, NEW M, Layout(a, b, t, pos, M),
         NEW R, RefRun(a, b, R), NEW unseen, NEW x \in State, CellsAt(a, b, pos, M, R, unseen, b.processed, x),
         x.ecuSkipCounter = 0,
         x.pcexec = IF TakesBranch(a, b, t, R) THEN R[t + 1].pcfetchnext ELSE b.exit
  PROVE  Together(x, R[b.processed], unseen)
<1> DEFINE P == b.processed
           r == R[P]
<1>1. P \in Nat /\ t \in Nat /\ M[P] = {} /\ b.exit = a + P
  BY DEF Layout
<1>2. Progress(a, b, t, R, P)
  BY <1>1, ReferenceProgress
<1>3. TakesBranch(a, b, t, R) => P > t
  BY <1>1 DEF TakesBranch
<1>4. r \in State /\ r.ecuSkipCounter = 0 /\ r.pcexec = x.pcexec
  BY <1>1, <1>2, <1>3 DEF Progress
<1>5. \A c \in Cells : x.f[c] # r.f[c] => c \in unseen /\ Hidden(c, r.pcexec, r.ecuSkipCounter)
  BY <1>1 DEF CellsAt
<1> HIDE DEF r
<1>6. Together(x, r, unseen)
  BY <1>4, <1>5 DEF Together
<1> QED BY <1>6 DEF r

LEMMA ILTogether ==
  ASSUME program \in Programs, NEW a \in Int, NEW b, NEW t, NEW pos, NEW M, Layout(a, b, t, pos, M), Sound(a, b), ~b.native,
         NEW R, RefRun(a, b, R), NEW unseen, NEW x \in State, x.ecuSkipCounter = 0, CellsAt(a, b, pos, M, R, unseen, 0, x)
  PROVE  Together(RunIL(b, x), R[b.processed], unseen)
<1> DEFINE P == b.processed
           T == TakesBranch(a, b, t, R)
           y == RunIL(b, x)
<1>1. P \in Nat /\ t \in Nat /\ Runnable(b) /\ b.exit = a + P
  BY DEF Layout
<1>2. PICK Z \in [0 .. Len(b.list) -> StateIL] :
            /\ Z[0] = EntryIL(b, x) /\ \A i \in 1 .. Len(b.list) : Z[i] = NextPacketIL(b.list[i], Z[i - 1])
            /\ RunIL(b, x) = Z[Len(b.list)].x
  BY <1>1, ILRun
<1> DEFINE z == Z[Len(b.list)]
<1>3. ILAt(a, b, t, pos, M, R, unseen, P, z)
  BY <1>2, ILReached
<1>4. y = z.x
  BY <1>2
<1>5. T => P > t
  BY <1>1 DEF TakesBranch
<1>6. Progress(a, b, t, R, P)
  BY <1>1, ReferenceProgress
<1>7. R[P].ecuSkipCounter = 0
  BY <1>1, <1>6 DEF Progress
<1> HIDE DEF z, y, T
<1>8. y \in State /\ CellsAt(a, b, pos, M, R, unseen, P, y) /\ y.ecuSkipCounter = 0
  BY <1>3, <1>4, <1>7 DEF ILAt, StateIL
<1>9. y.pcexec = IF TakesBranch(a, b, t, R) THEN R[t + 1].pcfetchnext ELSE b.exit
  BY <1>1, <1>3, <1>4, <1>5 DEF ILAt, T
<1>10. Together(y, R[P], unseen)
  BY <1>8, <1>9, BlockEnd
<1> QED BY <1>10 DEF y

-----------------------------------------------------------------------------
(* A block that is executed as native code                                 *)

LeftAt(a, b, t, pos, M, R, unseen, k0, z) ==
  z.pcexec = a + k0 /\ z.ecuSkipCounter = 0 /\ k0 <= t /\ CellsAt(a, b, pos, M, R, unseen, k0, z)
StaysAt(a, b, t, pos, M, R, unseen, k, z) ==
  /\ z.pcexec = b.exit /\ CellsAt(a, b, pos, M, R, unseen, k, z)
  /\ IF TakesBranch(a, b, t, R) /\ k > t THEN z.ecuSkipCounter = 1 /\ z.pcfetchnext = R[t + 1].pcfetchnext
     ELSE z.ecuSkipCounter = 0
CodeAt(a, b, t, pos, M, R, unseen, k, z) ==
  /\ z \in State
  /\ Left(z) => \E k0 \in 0..k : LeftAt(a, b, t, pos, M, R, unseen, k0, z)
  /\ ~Left(z) => StaysAt(a, b, t, pos, M, R, unseen, k, z)

LEMMA LeftBefore ==
  ASSUME NEW a, NEW b, NEW t, NEW pos, NEW M, NEW R, NEW unseen, NEW k \in Nat, NEW z,
         CodeAt(a, b, t, pos, M, R, unseen, k, z), Left(z)
  PROVE  CodeAt(a, b, t, pos, M, R, unseen, k + 1, z)
<1>1. PICK k0 \in 0..k : LeftAt(a, b, t, pos, M, R, unseen, k0, z)
  BY DEF CodeAt
<1>2. k0 \in 0 .. k + 1
  OBVIOUS
<1> QED BY <1>1, <1>2 DEF CodeAt

\* A packet was executed, and the block was not left.
LEMMA CodeStep ==
  ASSUME program \in Programs, NEW a \in Int, NEW b, NEW t, NEW pos, NEW M, Layout(a, b, t, pos, M), Sound(a, b),
         NEW R, RefRun(a, b, R), NEW k \in 0 .. b.processed - 1, NEW unseen, NEW x \in State,
         StaysAt(a, b, t, pos, M, R, unseen, k, x),
         NEW left, NEW y, Executes(a + k, left, 1, x, y), left \subseteq M[k + 1], IsEmpty(At(a, t, k)) => left = {},
         y.pcexec = x.pcexec, ~Left(y)
  PROVE  CodeAt(a, b, t, pos, M, R, unseen, k + 1, y)
<1> DEFINE P == b.processed
           T == TakesBranch(a, b, t, R)
           h == a + k
<1>1. P \in Nat /\ t \in Nat /\ k \in 0..P /\ k + 1 \in 0..P /\ k \in Int /\ k < P
  <2>1. P \in Nat /\ t \in Nat
    BY DEF Layout
  <2> QED BY <2>1
<1>2. Progress(a, b, t, R, k)
  BY <1>1, ReferenceProgress
<1>3. x.ecuSkipCounter = 0 <=> R[k].ecuSkipCounter = 0
  BY <1>1, <1>2 DEF Progress, StaysAt
<1>4. CellsAt(a, b, pos, M, R, unseen, k, x) /\ x.pcexec = b.exit
  BY DEF StaysAt
<1>5. StepOfBlock(a, b, pos, M, R, unseen, k, x, y)
  BY <1>3, <1>4, StepCells
<1>6. Straight(a, t, k)
  BY PacketInBlock
<1>7. y \in State /\ IF TakesAt(h, x) THEN y.ecuSkipCounter = 1 /\ y.pcfetchnext = R[k + 1].pcfetchnext
                     ELSE y.ecuSkipCounter = x.ecuSkipCounter /\ y.pcfetchnext = x.pcfetchnext
  BY <1>5 DEF Executes, StepOfBlock, h
<1>8. k = t => (TakesAt(h, x) <=> T)
  <2>1. TakesAt(h, x) = TakesAt(h, Beginning(R[k]))
    BY <1>5 DEF StepOfBlock, h
  <2> QED BY <1>1, <2>1 DEF TakesBranch, h
<1>9. CellsAt(a, b, pos, M, R, unseen, k + 1, y)
  BY <1>5 DEF StepOfBlock
<1>10. T /\ k > t => x.ecuSkipCounter = 1 /\ x.pcfetchnext = R[t + 1].pcfetchnext
  BY DEF StaysAt
<1>11. t < P /\ ~T => EcuAt(a + t).cond
  BY ReferenceProgress DEF T
<1> HIDE DEF T, h
<1>12. ASSUME k < t \/ (k > t /\ ~T) \/ (k = t /\ ~T)
       PROVE  y.ecuSkipCounter = 0
  <2>1. ~TakesAt(h, x)
    <3>1. CASE k = t
      BY <1>1, <1>8, <1>12, <3>1
    <3>2. CASE k < t
      BY <1>6, <3>2 DEF Straight, TakesAt, h
    <3>3. CASE k > t /\ ~T
      <4>1. t < P
        BY <1>1, <3>3
      <4> QED BY <1>6, <1>11, <3>3, <4>1 DEF Straight, TakesAt, h
    <3> QED BY <1>1, <1>12, <3>1, <3>2, <3>3
  <2>2. ~(T /\ k > t)
    BY <1>1, <1>12
  <2>3. x.ecuSkipCounter = 0
    BY <2>2 DEF StaysAt, T
  <2> QED BY <1>7, <2>1, <2>3
<1>13. ASSUME T, k >= t
       PROVE  y.ecuSkipCounter = 1 /\ y.pcfetchnext = R[t + 1].pcfetchnext
  <2>1. CASE k = t
    BY <1>7, <1>8, <1>13, <2>1
  <2>2. CASE k > t
    <3>1. x.ecuSkipCounter = 1 /\ x.pcfetchnext = R[t + 1].pcfetchnext
      BY <1>10, <1>13, <2>2
    <3>2. ~TakesAt(h, x)
      BY <3>1 DEF TakesAt, Taken
    <3> QED BY <1>7, <3>1, <3>2
  <2> QED BY <1>1, <1>13, <2>1, <2>2
<1>14. StaysAt(a, b, t, pos, M, R, unseen, k + 1, y)
  <2>1. CASE T /\ k + 1 > t
    <3>1. k >= t
      BY <1>1, <2>1
    <3> QED BY <1>4, <1>9, <1>13, <2>1, <3>1 DEF StaysAt, T
  <2>2. CASE ~(T /\ k + 1 > t)
    <3>1. k < t \/ (k > t /\ ~T) \/ (k = t /\ ~T)
      BY <1>1, <2>2
    <3> QED BY <1>4, <1>9, <1>12, <2>2, <3>1 DEF StaysAt, T
  <2> QED BY <2>1, <2>2
<1> QED BY <1>7, <1>14 DEF CodeAt

LEMMA CodeEmpty ==
  ASSUME program \in Programs, NEW a \in Int, NEW b, NEW t, NEW pos, NEW M, Layout(a, b, t, pos, M), Sound(a, b),
         NEW R, RefRun(a, b, R), NEW k \in 0 .. b.processed - 1, NEW unseen, NEW z, CodeAt(a, b, t, pos, M, R, unseen, k, z),
         ~Left(z), IsEmpty(At(a, t, k))
  PROVE  CodeAt(a, b, t, pos, M, R, unseen, k + 1, z)
<1> DEFINE P == b.processed
           h == a + k
           left == {}
<1>1. P \in Nat /\ t \in Nat /\ k \in 0..P /\ k \in Int /\ h \in Int /\ k < P
  <2>1. P \in Nat /\ t \in Nat
    BY DEF Layout
  <2> QED BY <2>1
<1>2. z \in State /\ StaysAt(a, b, t, pos, M, R, unseen, k, z)
  BY DEF CodeAt
<1>3. Progress(a, b, t, R, k)
  BY <1>1, ReferenceProgress
<1>4. z.ecuSkipCounter = 0 <=> R[k].ecuSkipCounter = 0
  BY <1>1, <1>2, <1>3 DEF Progress, StaysAt
<1>5. DecodedFor(At(a, t, k), h, z)
  BY <1>4, DecodedInBlock
<1>6. Executes(h, {}, 1, z, z)
  <2> HIDE DEF h
  <2> QED BY <1>1, <1>2, <1>5, EmptyExecutes
<1>7. Executes(a + k, left, 1, z, z) /\ left \subseteq M[k + 1] /\ (IsEmpty(At(a, t, k)) => left = {}) /\ z.pcexec = z.pcexec
  BY <1>6
<1> HIDE DEF left, h
<1> QED BY <1>2, <1>7, CodeStep

\* Behind the branch of a block nothing leaves it.
LEMMA LeavesBefore ==
  ASSUME program \in Programs, NEW a \in Int, NEW b, NEW t, NEW pos, NEW M, Layout(a, b, t, pos, M), Sound(a, b),
         NEW k \in 0 .. b.processed - 1, ~IsEmpty(At(a, t, k)), NEW x, Indirect(b.list[pos[k + 1]], x)
  PROVE  k <= t
<1> SUFFICES ASSUME k > t PROVE FALSE
  <2>1. t \in Nat /\ b.processed \in Nat
    BY DEF Layout
  <2> QED BY <2>1
<1>1. b.processed \in Nat /\ t \in Nat /\ k \in Int /\ k < b.processed /\ t < b.processed /\ k \in 0 .. b.processed
      /\ pos \in [0 .. b.processed -> Nat] /\ Runnable(b)
  <2>1. t \in Nat /\ b.processed \in Nat /\ pos \in [0 .. b.processed -> Nat] /\ Runnable(b)
    BY DEF Layout
  <2> QED BY <2>1
<1>2. pos[t + 1] \in 1 .. Len(b.list) /\ HasBranch(a, t, b.list[pos[t + 1]])
  BY <1>1, BranchInList
<1>3. pos[k + 1] = pos[k] + 1 /\ pos[k + 1] \in 1 .. Len(b.list) /\ pos[k] \in Nat
  BY DEF Layout, InBlock
<1>4. pos[t + 1] <= pos[k]
  <2>1. t + 1 \in 0 .. b.processed /\ k \in t + 1 .. b.processed
    BY <1>1
  <2> DEFINE h == t + 1
  <2>2. h \in 0 .. b.processed /\ k \in h .. b.processed
    BY <2>1
  <2> HIDE DEF h
  <2>3. pos[h] <= pos[k]
    BY <2>2, Monotone
  <2> QED BY <2>3 DEF h
<1> DEFINE i == pos[t + 1]
           j == pos[k + 1]
<1>5. i \in 1 .. Len(b.list) /\ j \in 1 .. Len(b.list) /\ i < j
  BY <1>2, <1>3, <1>4
<1>6. NoLeftSlot(b.list[i], b.list[j])
  <2> HIDE DEF i, j
  <2> QED BY <1>5 DEF Sound
<1>7. PICK m \in 1 .. Len(b.list[i]) : b.list[i][m].n.unit = "ECU"
  BY <1>2 DEF HasBranch
<1>8. 1 \in 1 .. Len(b.list[j]) /\ b.list[j][1].n.indirect
  <2>1. Performable(b.list[j])
    BY <1>1, <1>3 DEF Runnable
  <2> QED BY <2>1 DEF Performable, Indirect
<1> HIDE DEF i, j
<1> QED BY <1>6, <1>7, <1>8 DEF NoLeftSlot

LEMMA CodeNext ==
  ASSUME program \in Programs, NEW a \in Int, NEW b, NEW t, NEW pos, NEW M, Layout(a, b, t, pos, M), Sound(a, b),
         NEW R, RefRun(a, b, R), NEW k \in 0 .. b.processed - 1, NEW unseen, NEW z, CodeAt(a, b, t, pos, M, R, unseen, k, z),
         ~Left(z), ~IsEmpty(At(a, t, k)), NEW all \in BOOLEAN
  PROVE  CodeAt(a, b, t, pos, M, R, unseen, k + 1, RunPacketNative(b, pos[k + 1], all, z))
<1> DEFINE P == b.processed
           i == pos[k + 1]
           d == At(a, t, k)
           left == M[k + 1]
           h == a + k
           y == RunPacketNative(b, i, all, z)
<1>1. P \in Nat /\ t \in Nat /\ k \in 0..P /\ k \in 0 .. k + 1 /\ k \in Int /\ h \in Int /\ k < P
  <2>1. P \in Nat /\ t \in Nat
    BY DEF Layout
  <2> QED BY <2>1
<1>2. z \in State /\ StaysAt(a, b, t, pos, M, R, unseen, k, z)
  BY DEF CodeAt
<1>3. Progress(a, b, t, R, k)
  BY <1>1, ReferenceProgress
<1>4. z.ecuSkipCounter = 0 <=> R[k].ecuSkipCounter = 0
  BY <1>1, <1>2, <1>3 DEF Progress, StaysAt
<1>5. DecodedFor(d, h, z)
  BY <1>4, DecodedInBlock
<1>6. d \in Fetchable /\ i \in 1 .. Len(b.list) /\ CompiledTo(d, b.list[i], left) /\ b.at[i] = a + k
  BY DEF Layout, InBlock
<1>7. NoStray(b.list[i]) /\ NoneLost(b.list[i]) /\ b.at[i] \in Int
  BY <1>6 DEF Sound, Layout, Runnable
<1> HIDE DEF i, d, left, h
<1>8. IF Indirect(b.list[i], z) THEN y = LeaveBlock(z, i, b)
      ELSE Executes(h, left, 1, z, y) /\ y.pcexec = z.pcexec /\ ~Left(y)
  <2>1. program \in Programs /\ d \in Fetchable /\ h \in Int /\ b.at[i] \in Int /\ CompiledTo(d, b.list[i], left)
        /\ NoStray(b.list[i]) /\ NoneLost(b.list[i]) /\ all \in BOOLEAN /\ z \in State /\ ~Left(z) /\ DecodedFor(d, h, z)
    BY <1>1, <1>2, <1>5, <1>6, <1>7
  <2>2. IF Indirect(b.list[i], z) THEN RunPacketNative(b, i, all, z) = LeaveBlock(z, i, b)
        ELSE /\ Executes(h, left, 1, z, RunPacketNative(b, i, all, z))
             /\ RunPacketNative(b, i, all, z).pcexec = z.pcexec /\ ~Left(RunPacketNative(b, i, all, z))
    BY ONLY <2>1, PacketNativeHolds
  <2> QED BY <2>2
<1> HIDE DEF y
<1>9. CASE Indirect(b.list[i], z)
  <2>1. y \in State /\ Left(y) /\ y.f = z.f /\ y.pcexec = a + k /\ y.ecuSkipCounter = z.ecuSkipCounter
    BY <1>2, <1>6, <1>7, <1>8, <1>9, LeaveBlockType
  <2>2. k <= t
    BY <1>9, LeavesBefore DEF i
  <2>3. z.ecuSkipCounter = 0 /\ CellsAt(a, b, pos, M, R, unseen, k, z)
    BY <1>1, <1>2, <2>2 DEF StaysAt
  <2>4. CellsAt(a, b, pos, M, R, unseen, k, y)
    BY <2>1, <2>3 DEF CellsAt
  <2>5. LeftAt(a, b, t, pos, M, R, unseen, k, y)
    BY <2>1, <2>2, <2>3, <2>4 DEF LeftAt
  <2>6. CodeAt(a, b, t, pos, M, R, unseen, k + 1, y)
    BY <1>1, <2>1, <2>5 DEF CodeAt
  <2> QED BY <2>6 DEF y, i
<1>10. CASE ~Indirect(b.list[i], z)
  <2>1. Executes(a + k, left, 1, z, y) /\ y.pcexec = z.pcexec /\ ~Left(y)
    BY <1>8, <1>10 DEF h
  <2>2. left \subseteq M[k + 1] /\ (IsEmpty(At(a, t, k)) => left = {})
    BY DEF left
  <2>3. CodeAt(a, b, t, pos, M, R, unseen, k + 1, y)
    BY <1>2, <2>1, <2>2, CodeStep
  <2> QED BY <2>3 DEF y, i
<1> QED BY <1>9, <1>10

LEMMA CodeReached ==
  ASSUME program \in Programs, NEW a \in Int, NEW b, NEW t, NEW pos, NEW M, Layout(a, b, t, pos, M), Sound(a, b),
         NEW R, RefRun(a, b, R), NEW unseen, NEW x \in State, ~Left(x), x.ecuSkipCounter = 0,
         CellsAt(a, b, pos, M, R, unseen, 0, x), NEW all \in BOOLEAN, NEW Z, NativeAt(b, all, x, Z)
  PROVE  CodeAt(a, b, t, pos, M, R, unseen, b.processed, Z[Len(b.list)])
<1> DEFINE P == b.processed
           S == {k \in 0..P : CodeAt(a, b, t, pos, M, R, unseen, k, Z[pos[k]])}
<1>1. P \in Nat /\ t \in Nat /\ pos[0] = 0 /\ pos[P] = Len(b.list) /\ Runnable(b)
  BY DEF Layout
<1>2. 0 \in S
  <2> DEFINE z == EntryNative(b, x)
  <2>1. z \in State /\ z.f = x.f /\ z.pcexec = b.exit /\ z.ecuSkipCounter = 0 /\ ~Left(z)
    BY <1>1, EntryNativeType DEF Left
  <2>2. Z[pos[0]] = z
    BY <1>1 DEF NativeAt
  <2> HIDE DEF z
  <2>3. ~(TakesBranch(a, b, t, R) /\ 0 > t)
    BY <1>1
  <2>4. CellsAt(a, b, pos, M, R, unseen, 0, z)
    BY <2>1 DEF CellsAt
  <2>5. StaysAt(a, b, t, pos, M, R, unseen, 0, z)
    BY <2>1, <2>3, <2>4 DEF StaysAt
  <2>6. CodeAt(a, b, t, pos, M, R, unseen, 0, z)
    BY <2>1, <2>5 DEF CodeAt
  <2> QED BY <1>1, <2>2, <2>6
<1>3. ASSUME NEW k \in 0 .. P - 1, k \in S PROVE k + 1 \in S
  <2> DEFINE z == Z[pos[k]]
  <2>1. k + 1 \in 0..P /\ k \in Nat
    BY <1>1
  <2>2. CodeAt(a, b, t, pos, M, R, unseen, k, z)
    BY <1>3
  <2>3. InBlock(a, b, t, pos, M, k)
    BY DEF Layout
  <2> HIDE DEF z
  <2>4. CASE IsEmpty(At(a, t, k))
    <3>1. Z[pos[k + 1]] = z
      BY <2>3, <2>4 DEF InBlock, z
    <3>2. CodeAt(a, b, t, pos, M, R, unseen, k + 1, z)
      <4>1. CASE Left(z)
        BY <2>1, <2>2, <4>1, LeftBefore
      <4>2. CASE ~Left(z)
        BY <2>2, <2>4, <4>2, CodeEmpty
      <4> QED BY <4>1, <4>2
    <3> QED BY <2>1, <3>1, <3>2
  <2>5. CASE ~IsEmpty(At(a, t, k))
    <3> DEFINE i == pos[k + 1]
    <3>1. pos[k] \in Nat /\ pos[k + 1] = pos[k] + 1 /\ i \in 1 .. Len(b.list)
      BY <2>3, <2>5 DEF InBlock
    <3>2. Z[i] = RunPacketNative(b, i, all, Z[i - 1]) /\ i - 1 = pos[k]
      BY <3>1, SMTT(30) DEF NativeAt
    <3>3. Z[i] = RunPacketNative(b, i, all, z)
      BY <3>2 DEF z
    <3>4. z \in State /\ Performable(b.list[i]) /\ b.at[i] \in Int
      BY <1>1, <2>2, <3>1 DEF CodeAt, Runnable
    <3>5. CodeAt(a, b, t, pos, M, R, unseen, k + 1, RunPacketNative(b, i, all, z))
      <4>1. CASE Left(z)
        <5>1. RunPacketNative(b, i, all, z) = z
          <6> HIDE DEF i
          <6> QED BY <3>4, <4>1, PacketNativeSkipped
        <5> QED BY <2>1, <2>2, <4>1, <5>1, LeftBefore
      <4>2. CASE ~Left(z)
        BY <2>2, <2>5, <4>2, CodeNext
      <4> QED BY <4>1, <4>2
    <3> QED BY <2>1, <3>3, <3>5
  <2> QED BY <2>4, <2>5
<1> HIDE DEF P, S
<1>4. 0 .. P \subseteq S
  BY <1>1, <1>2, <1>3, UpTo
<1>5. P \in S
  BY <1>1, <1>4
<1> QED BY <1>1, <1>5 DEF S, P

LEMMA OmittedIsLeftOut ==
  ASSUME NEW a \in Int, NEW b, Runnable(b), NEW pos, NEW k0 \in Nat, NEW c, Omitted(a, b, pos, k0, c),
         NEW y, Left(y), y.pcexec = a + k0
  PROVE  c \in LeftOut(b, y)
<1>1. PICK h \in 0 .. k0 - 1 : \E i \in 1 .. Len(b.list) : \E m \in 1 .. Len(b.list[i]) :
             i = pos[h + 1] /\ b.at[i] = a + h /\ c \in b.list[i][m].n.out \ b.list[i][m].out
  BY DEF Omitted
<1>2. PICK i \in 1 .. Len(b.list) : \E m \in 1 .. Len(b.list[i]) :
             b.at[i] = a + h /\ c \in b.list[i][m].n.out \ b.list[i][m].out
  BY <1>1
<1>3. PICK m \in 1 .. Len(b.list[i]) : b.at[i] = a + h /\ c \in b.list[i][m].n.out \ b.list[i][m].out
  BY <1>2
<1>4. b.at[i] < y.pcexec /\ i \in DOMAIN b.list
  BY <1>1, <1>3 DEF Runnable
<1>5. DOMAIN b.list[i] = 1 .. Len(b.list[i])
  BY DEF Runnable, Performable
<1> DEFINE e == b.list[i][m]
<1>6. e \in Range(b.list[i])
  BY <1>5 DEF Range
<1>7. c \in e.n.out \ e.out
  BY <1>3
<1> HIDE DEF e
<1>8. e \in UNION {Range(b.list[j]) : j \in {g \in DOMAIN b.list : b.at[g] < y.pcexec}}
  BY <1>4, <1>6
<1> QED BY <1>7, <1>8 DEF LeftOut

LEMMA CodeTogether ==
  ASSUME program \in Programs, NEW a \in Int, NEW b, NEW t, NEW pos, NEW M, Layout(a, b, t, pos, M), Sound(a, b),
         NEW R, RefRun(a, b, R), NEW unseen, NEW x \in State, ~Left(x), x.ecuSkipCounter = 0,
         CellsAt(a, b, pos, M, R, unseen, 0, x), NEW all \in BOOLEAN
  PROVE  LET y == RunNative(b, all, x)
         IN  /\ Executed(b, y, a) \in 0 .. b.processed
             /\ Together(Retired(y), R[Executed(b, y, a)], unseen \cup LeftOut(b, y))
<1> DEFINE P == b.processed
           T == TakesBranch(a, b, t, R)
           y == RunNative(b, all, x)
           u == unseen \cup LeftOut(b, y)
<1>1. P \in Nat /\ t \in Nat /\ Runnable(b) /\ b.exit = a + P
  BY DEF Layout
<1>2. PICK Z : NativeAt(b, all, x, Z)
  BY <1>1, NativeAtExists
<1>3. CodeAt(a, b, t, pos, M, R, unseen, P, y)
  <2>1. CodeAt(a, b, t, pos, M, R, unseen, P, Z[Len(b.list)])
    BY <1>2, CodeReached
  <2> QED BY <1>2, <2>1 DEF NativeAt
<1>4. T => P > t
  BY <1>1 DEF TakesBranch
<1> HIDE DEF y, T
<1>5. y \in State
  BY <1>3 DEF CodeAt
<1>6. CASE Left(y)
  <2>1. PICK k0 \in 0..P : LeftAt(a, b, t, pos, M, R, unseen, k0, y)
    BY <1>3, <1>6 DEF CodeAt
  <2>2. y.pcexec = a + k0 /\ y.ecuSkipCounter = 0 /\ k0 <= t /\ CellsAt(a, b, pos, M, R, unseen, k0, y) /\ k0 \in Nat
    BY <1>1, <2>1 DEF LeftAt
  <2>3. Executed(b, y, a) = k0
    BY <1>6, <2>2 DEF Executed
  <2>4. Retired(y) = y
    BY <2>2 DEF Retired
  <2>5. Progress(a, b, t, R, k0)
    BY ReferenceProgress
  <2> DEFINE r == R[k0]
  <2>6. r \in State /\ r.ecuSkipCounter = 0 /\ r.pcexec = a + k0
    BY <1>1, <2>2, <2>5 DEF Progress
  <2>7. ASSUME NEW c \in Cells, y.f[c] # r.f[c] PROVE c \in u /\ Hidden(c, r.pcexec, r.ecuSkipCounter)
    <3>1. Hidden(c, r.pcexec, r.ecuSkipCounter) /\ (c \in unseen \/ Omitted(a, b, pos, k0, c))
      BY <2>2, <2>7 DEF CellsAt
    <3>2. Omitted(a, b, pos, k0, c) => c \in LeftOut(b, y)
      BY <1>1, <1>6, <2>2, OmittedIsLeftOut
    <3> QED BY <3>1, <3>2
  <2> HIDE DEF u, r
  <2>8. Together(y, r, u)
    BY <1>5, <2>2, <2>6, <2>7 DEF Together
  <2> QED BY <2>3, <2>4, <2>8 DEF r, u, y
<1>7. CASE ~Left(y)
  <2>1. Executed(b, y, a) = P /\ LeftOut(b, y) = {}
    BY <1>7 DEF Executed, LeftOut
  <2>2. StaysAt(a, b, t, pos, M, R, unseen, P, y)
    BY <1>3, <1>7 DEF CodeAt
  <2>3. Retired(y) \in State /\ Retired(y).f = y.f
        /\ Retired(y).ecuSkipCounter = (IF y.ecuSkipCounter = 0 THEN 0 ELSE y.ecuSkipCounter - 1)
        /\ Retired(y).pcexec = (IF y.ecuSkipCounter = 1 THEN y.pcfetchnext ELSE y.pcexec)
    BY <1>5, RetiredType
  <2> DEFINE w == Retired(y)
  <2>4. CellsAt(a, b, pos, M, R, unseen, P, w)
    BY <2>2, <2>3 DEF StaysAt, CellsAt
  <2>5. w.ecuSkipCounter = 0 /\ w.pcexec = IF TakesBranch(a, b, t, R) THEN R[t + 1].pcfetchnext ELSE b.exit
    BY <1>4, <2>2, <2>3 DEF StaysAt, T
  <2>6. w \in State
    BY <2>3
  <2> HIDE DEF w
  <2>7. Together(w, R[P], unseen)
    BY <2>4, <2>5, <2>6, BlockEnd
  <2>8. P \in 0..P /\ unseen \cup LeftOut(b, y) = unseen
    BY <1>1, <2>1
  <2> QED BY <2>1, <2>7, <2>8 DEF w, y
<1> QED BY <1>6, <1>7

-----------------------------------------------------------------------------
(* Blocks do what their packets do one by one                              *)

\* The reference, as many packets on as the block has.
LEMMA ReferenceRuns ==
  ASSUME program \in Programs, NEW a \in Int, NEW b, b.processed \in Nat, NEW r \in State, r.pcexec = a, r.ecuSkipCounter = 0
  PROVE  RefRun(a, b, [k \in 0 .. b.processed |-> ManyInterpreted(r, k)])
<1> DEFINE P == b.processed
           R == [k \in 0..P |-> ManyInterpreted(r, k)]
<1>1. /\ ManyInterpreted(r, 0) = r
      /\ \A k \in Nat : /\ ManyInterpreted(r, k) \in State
                        /\ ManyInterpreted(r, k + 1) = Interpreted(ManyInterpreted(r, k))
  BY ManyInterpretedSteps
<1>2. R \in [0..P -> State] /\ R[0] = r
  BY <1>1
<1>3. \A k \in 0 .. P - 1 : R[k + 1] = Interpreted(R[k])
  <2> TAKE k \in 0 .. P - 1
  <2>1. k \in Nat /\ k \in 0..P /\ k + 1 \in 0..P
    OBVIOUS
  <2>2. ManyInterpreted(r, k + 1) = Interpreted(ManyInterpreted(r, k))
    BY <1>1, <2>1
  <2> QED BY <2>1, <2>2
<1> HIDE DEF R
<1>4. RefRun(a, b, R)
  BY <1>2, <1>3 DEF RefRun
<1> QED BY <1>4 DEF R

\* A block, executed as IL or as native code, until it ends or it is left.
LEMMA BlockTogether ==
  ASSUME program \in Programs, options \in Options, NEW x, NEW r, NEW unseen, Together(x, r, unseen), ~Left(x), x.ecuSkipCounter = 0,
         Met(x.pcexec, CompileBlock(x.pcexec)) = {}, NEW all \in BOOLEAN
  PROVE  LET b == CompileBlock(x.pcexec)
             y == RunNative(b, all, x)
         IN  /\ ~b.native => Together(RunIL(b, x), ManyInterpreted(r, b.processed), unseen)
             /\ b.native => Together(Retired(y), ManyInterpreted(r, Executed(b, y, x.pcexec)), unseen \cup LeftOut(b, y))
<1> DEFINE a == x.pcexec
           b == CompileBlock(a)
           R == [k \in 0 .. b.processed |-> ManyInterpreted(r, k)]
<1>1. a \in Int /\ x \in State /\ r \in State /\ r.pcexec = a /\ r.ecuSkipCounter = 0
  BY DEF Together, State
<1>2. PICK packets, t, pos, K : IsBlock(a, b, packets, t, pos, K)
  BY <1>1, CompileBlockHolds
<1> HIDE DEF b
<1>3. PICK M : Layout(a, b, t, pos, M)
  <2> HIDE DEF a
  <2> QED BY <1>1, <1>2, BlockLayout
<1>4. Runnable(b) /\ b.processed \in Nat
  BY <1>3 DEF Layout
<1>5. Sound(a, b)
  <2>1. Met(a, b) = {}
    BY DEF b
  <2> HIDE DEF a
  <2> QED BY <1>1, <1>4, <2>1, SoundBlock
<1>6. RefRun(a, b, R)
  <2> HIDE DEF a
  <2> QED BY <1>1, <1>4, ReferenceRuns
<1>7. CellsAt(a, b, pos, M, R, unseen, 0, x)
  <2>1. R[0] = r
    BY <1>1, <1>4, ManyInterpretedSteps
  <2> HIDE DEF R
  <2> QED BY <2>1 DEF Together, CellsAt
<1>8. \A k \in 0 .. b.processed : R[k] = ManyInterpreted(r, k)
  OBVIOUS
<1> HIDE DEF R, a
<1>9. ~b.native => Together(RunIL(b, x), ManyInterpreted(r, b.processed), unseen)
  <2> HAVE ~b.native
  <2>1. Together(RunIL(b, x), R[b.processed], unseen)
    BY <1>1, <1>3, <1>5, <1>6, <1>7, ILTogether
  <2> QED BY <1>4, <1>8, <2>1
<1> DEFINE y == RunNative(b, all, x)
<1>10. Together(Retired(y), ManyInterpreted(r, Executed(b, y, a)), unseen \cup LeftOut(b, y))
  <2>1. Executed(b, y, a) \in 0 .. b.processed /\ Together(Retired(y), R[Executed(b, y, a)], unseen \cup LeftOut(b, y))
    BY <1>1, <1>3, <1>5, <1>6, <1>7, CodeTogether
  <2> HIDE DEF y
  <2> QED BY <1>8, <2>1
<1> QED BY <1>9, <1>10 DEF b, a

\* The two agree but for the cells of late, which are apart and are hidden.
IInv == Typed /\ Together(cpu, reference, late) /\ late \subseteq Apart

LEMMA IInvInit == Init => IInv
<1> SUFFICES ASSUME Init PROVE IInv
  OBVIOUS
<1>1. Typed
  BY TypedInit
<1>2. reference = cpu /\ late = {} /\ cpu \in State
  BY <1>1 DEF Init, Typed
<1> QED BY <1>1, <1>2 DEF IInv, Together

\* What the next state makes of late.
LEMMA IInvAfter ==
  ASSUME Typed', program' = program, NEW unseen, Together(cpu', reference', unseen), late' = unseen \cap Apart'
  PROVE  IInv'
<1>1. Apart' = {c \in Cells : cpu'.f[c] # reference'.f[c]}
  BY DEF Apart
<1>2. Together(cpu', reference', late')
  BY <1>1 DEF Together
<1>3. Together(cpu, reference, late)'
  BY <1>2, SMTT(30) DEF Together, Hidden, Overwritten, Reached, Unread, Branches, Jumps, Delays, WrittenAt, Calls, Packet
<1> QED BY <1>3 DEF IInv

LEMMA IInvNext ==
  ASSUME Defects = {}, IInv, [Next]_vars
  PROVE  IInv'
<1>1. Typed' /\ Typed
  BY TypedNext DEF IInv
<1>2. program \in Programs /\ options \in Options /\ Together(cpu, reference, late)
  BY DEF IInv, Typed
<1>3. CASE Interpret
  <2>1. Together(cpu', reference', late)
    BY <1>2, <1>3, InterpretTogether DEF Interpret
  <2>2. program' = program /\ late' = late \cap Apart'
    BY <1>3 DEF Interpret
  <2> QED BY <1>1, <2>1, <2>2, IInvAfter
<1>4. CASE RunBlock
  <2> DEFINE b == CompileBlock(cpu.pcexec)
  <2>1. /\ ~Left(cpu) /\ cpu.ecuSkipCounter = 0 /\ Met(cpu.pcexec, b) = {}
        /\ (RunAsIL(b) \/ RunAsNative(b)) /\ program' = program
    <3>1. cpu.interpretNextPacket = 0 /\ cpu.ecuSkipCounter = 0 /\ Met(cpu.pcexec, b) \subseteq Defects
          /\ (RunAsIL(b) \/ RunAsNative(b)) /\ program' = program
      BY <1>4 DEF RunBlock
    <3> HIDE DEF b
    <3> QED BY <3>1 DEF Left
  <2>2. ASSUME NEW all \in BOOLEAN
        PROVE  /\ ~b.native => Together(RunIL(b, cpu), ManyInterpreted(reference, b.processed), late)
               /\ b.native => Together(Retired(RunNative(b, all, cpu)),
                                       ManyInterpreted(reference, Executed(b, RunNative(b, all, cpu), cpu.pcexec)),
                                       late \cup LeftOut(b, RunNative(b, all, cpu)))
    BY <1>2, <2>1, BlockTogether
  <2> HIDE DEF b
  <2>3. CASE RunAsIL(b)
    <3>1. Together(cpu', reference', late) /\ late' = late \cap Apart'
      BY <2>2, <2>3 DEF RunAsIL
    <3> QED BY <1>1, <2>1, <3>1, IInvAfter
  <2>4. CASE RunAsNative(b)
    <3>1. PICK all \in BOOLEAN :
              /\ cpu' = Retired(RunNative(b, all, cpu))
              /\ reference' = ManyInterpreted(reference, Executed(b, RunNative(b, all, cpu), cpu.pcexec))
              /\ late' = (late \cup LeftOut(b, RunNative(b, all, cpu))) \cap Apart'
      BY <2>4 DEF RunAsNative
    <3> DEFINE u == late \cup LeftOut(b, RunNative(b, all, cpu))
    <3>2. Together(cpu', reference', u) /\ late' = u \cap Apart'
      BY <2>2, <2>4, <3>1 DEF RunAsNative
    <3> HIDE DEF u
    <3> QED BY <1>1, <2>1, <3>2, IInvAfter
  <2> QED BY <2>1, <2>3, <2>4
<1>5. CASE UNCHANGED vars
  <2>1. program' = program /\ cpu' = cpu /\ reference' = reference /\ late' = late
    BY <1>5 DEF vars
  <2>2. late' = late \cap Apart'
    BY <2>1 DEF IInv, Apart
  <2> QED BY <1>1, <1>2, <2>1, <2>2, IInvAfter
<1> QED BY <1>3, <1>4, <1>5 DEF Next

LEMMA AlwaysIInv ==
  ASSUME Defects = {}
  PROVE  Spec => []IInv
<1>1. IInv /\ [Next]_vars => IInv'
  BY IInvNext
<1> QED BY <1>1, IInvInit, PTL DEF Spec

LEMMA IInvImplies ==
  ASSUME IInv
  PROVE  Lockstep /\ LateIsUnseen
<1>1. Together(cpu, reference, late) /\ late \subseteq Apart
  BY DEF IInv
<1>2. Lockstep
  BY <1>1 DEF Together, Lockstep, Apart
<1>3. ASSUME NEW c \in late PROVE Hidden(c, cpu.pcexec, cpu.ecuSkipCounter)
  <2>1. c \in Cells /\ cpu.f[c] # reference.f[c]
    BY <1>1 DEF Apart
  <2> QED BY <1>1, <2>1 DEF Together
<1>4. LateIsUnseen
  BY <1>3 DEF LateIsUnseen, Hidden
<1> QED BY <1>2, <1>4

\* When blocks meet none of the known defects, a processor that runs blocks is
\* where it would be without them, with the same registers, flags and memory,
\* whatever the program and however its blocks are compiled and executed.
THEOREM BlocksInLockstep ==
  ASSUME Defects = {}
  PROVE  Spec => []Lockstep
<1>1. IInv => Lockstep
  BY IInvImplies
<1>2. Spec => []IInv
  BY AlwaysIInv
<1> QED BY <1>1, <1>2, PTL

\* What a block that was left in the middle has not written, a packet writes
\* from where the processor stands before any reads it.
THEOREM LateIsNeverSeen ==
  ASSUME Defects = {}
  PROVE  Spec => []LateIsUnseen
<1>1. IInv => LateIsUnseen
  BY IInvImplies
<1>2. Spec => []IInv
  BY AlwaysIInv
<1> QED BY <1>1, <1>2, PTL
=============================================================================
