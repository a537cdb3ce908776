--------------------------- MODULE CommBus_proofs ---------------------------
(***************************************************************************)
(* Proofs about the communication bus, for any number of MPEs, any packets *)
(* and any programs; and that it implements the abstract channel, when the *)
(* programs poll before they send.                                         *)
(***************************************************************************)
EXTENDS CommBus, FiniteSetTheorems, TLAPS

LEMMA Numbers ==
  0 \in MPE /\ 0 \in Target /\ MPE \subseteq Int /\ IsFiniteSet(MPE)
<1>1. NMPE \in Nat /\ NMPE # 0 /\ NMPE - 1 \in Int
  BY CommBusAssumption
<1>2. IsFiniteSet(0 .. NMPE - 1)
  BY <1>1, FS_Interval
<1>3. QED
  BY <1>1, <1>2 DEF MPE, Target

LEMMA ResetTypes == CommReset \in CommCtl /\ ZeroPacket \in Packet
<1>1. 0 \in Target /\ 0 \in MPE /\ ZERO \in Word
  BY Numbers, CommBusAssumption
<1>2. QED
  BY <1>1 DEF CommReset, CommCtl, ZeroPacket, Packet

-----------------------------------------------------------------------------
(* The comm registers stay well typed.                                     *)

CtlRegs == [MPE -> CommCtl]

LEMMA CtlFields ==
  ASSUME NEW f \in CtlRegs, NEW i \in MPE, NEW b \in BOOLEAN,
         NEW s \in MPE, NEW t \in Target
  PROVE  /\ [f EXCEPT ![i].recvFull = b] \in CtlRegs
         /\ [f EXCEPT ![i].recvDisable = b] \in CtlRegs
         /\ [f EXCEPT ![i].sourceId = s] \in CtlRegs
         /\ [f EXCEPT ![i].xmitFull = b] \in CtlRegs
         /\ [f EXCEPT ![i].xmitFailed = b] \in CtlRegs
         /\ [f EXCEPT ![i].retry = b] \in CtlRegs
         /\ [f EXCEPT ![i].lock = b] \in CtlRegs
         /\ [f EXCEPT ![i].target = t] \in CtlRegs
<1>1. f[i] \in CommCtl
  BY DEF CtlRegs
<1>2. /\ [f[i] EXCEPT !.recvFull = b] \in CommCtl
      /\ [f[i] EXCEPT !.recvDisable = b] \in CommCtl
      /\ [f[i] EXCEPT !.sourceId = s] \in CommCtl
      /\ [f[i] EXCEPT !.xmitFull = b] \in CommCtl
  BY <1>1 DEF CommCtl
<1>3. /\ [f[i] EXCEPT !.xmitFailed = b] \in CommCtl
      /\ [f[i] EXCEPT !.retry = b] \in CommCtl
      /\ [f[i] EXCEPT !.lock = b] \in CommCtl
      /\ [f[i] EXCEPT !.target = t] \in CommCtl
  BY <1>1 DEF CommCtl
<1>4. ASSUME NEW c \in CommCtl PROVE [f EXCEPT ![i] = c] \in CtlRegs
  BY DEF CtlRegs
<1>5. QED
  BY <1>2, <1>3, <1>4

\* The bus controller, in the four ways a selected packet can go.
Handles(i) ==
  /\ Selected(i)
  /\ Deliver(i) \/ RetryLater(i) \/ Fail(i) \/ ToDevice(i)
  /\ currentTransmitID' = Advance(i)

LEMMA BusType ==
  ASSUME CommTypeOK, pendingCommRequests # 0, NEW i \in MPE, Handles(i),
         UNCHANGED <<commxmit, queued>>
  PROVE  CommTypeOK'
<1> USE DEF CommTypeOK
<1> DEFINE f == [commctl EXCEPT ![i].xmitFull = FALSE]
<1>1. commctl \in CtlRegs /\ f \in CtlRegs /\ commctl[i] \in CommCtl
  BY CtlFields, Numbers DEF CtlRegs
<1>2. currentTransmitID' \in MPE
  <2>1. ASSUME NEW n \in Int PROVE n % NMPE \in MPE
    BY <2>1, CommBusAssumption DEF MPE
  <2>2. i + 1 \in Int
    BY Numbers
  <2>3. QED
    BY <2>1, <2>2 DEF Handles, Advance
<1>3. pendingCommRequests - 1 \in Nat
  OBVIOUS
<1>4. CASE Deliver(i)
  <2> DEFINE t == commctl[i].target
             g == [f EXCEPT ![t].recvFull = TRUE]
  <2>1. t \in MPE
    BY <1>4 DEF Deliver
  <2>2. g \in CtlRegs
    BY <1>1, <2>1, CtlFields, Numbers
  <2>3. [g EXCEPT ![t].sourceId = i] \in CtlRegs
    BY <2>1, <2>2, CtlFields, Numbers
  <2>4. commctl' = [g EXCEPT ![t].sourceId = i]
    BY <1>4 DEF Deliver
  <2>5. comminfo' \in [MPE -> [own : CommInfo, from : CommInfo]]
    BY <1>4, <2>1 DEF Deliver
  <2>6. commrecv' \in [MPE -> Packet]
    BY <1>4, <2>1 DEF Deliver
  <2>7. QED
    BY <1>2, <1>3, <1>4, <2>3, <2>4, <2>5, <2>6 DEF Deliver, CtlRegs
<1>5. CASE RetryLater(i)
  BY <1>2, <1>5 DEF RetryLater
<1>6. CASE Fail(i)
  <2> DEFINE g == [commctl EXCEPT ![i].xmitFailed = TRUE]
  <2>1. g \in CtlRegs
    BY <1>1, CtlFields, Numbers
  <2>2. [g EXCEPT ![i].xmitFull = FALSE] \in CtlRegs
    BY <2>1, CtlFields, Numbers
  <2>3. QED
    BY <1>2, <1>3, <1>6, <2>2 DEF Fail, CtlRegs
<1>7. CASE ToDevice(i)
  <2>1. commctl[i].target \in Devices
    BY <1>1, <1>7 DEF ToDevice, CommCtl, Target
  <2>2. deviceRegister' \in [Devices -> Packet]
    BY <1>7, <2>1 DEF ToDevice
  <2>3. QED
    BY <1>1, <1>2, <1>3, <1>7, <2>2 DEF ToDevice, CtlRegs
<1>8. QED
  BY <1>4, <1>5, <1>6, <1>7 DEF Handles

LEMMA ProgramType ==
  ASSUME CommTypeOK, NEW i \in MPE, CommProgram(i)
  PROVE  CommTypeOK'
<1> USE DEF CommTypeOK
<1>1. commctl \in CtlRegs
  BY DEF CtlRegs
<1>2. CASE WriteCommctl(i)
  <2>1. PICK w \in CtlWords :
          commctl' = [commctl EXCEPT ![i].recvDisable = w.recvDisable,
                                     ![i].retry = w.retry,
                                     ![i].lock = w.lock,
                                     ![i].target = w.target]
    BY <1>2 DEF WriteCommctl
  <2>2. /\ w.recvDisable \in BOOLEAN /\ w.retry \in BOOLEAN
        /\ w.lock \in BOOLEAN /\ w.target \in Target
    BY CommBusAssumption DEF CtlWord
  <2> DEFINE c1 == [commctl EXCEPT ![i].recvDisable = w.recvDisable]
             c2 == [c1 EXCEPT ![i].retry = w.retry]
             c3 == [c2 EXCEPT ![i].lock = w.lock]
             c4 == [c3 EXCEPT ![i].target = w.target]
  <2>3. c1 \in CtlRegs
    BY <1>1, <2>2, CtlFields, Numbers
  <2>4. c2 \in CtlRegs
    BY <2>2, <2>3, CtlFields, Numbers
  <2>5. c3 \in CtlRegs
    BY <2>2, <2>4, CtlFields, Numbers
  <2>6. c4 \in CtlRegs
    BY <2>2, <2>5, CtlFields, Numbers
  <2>7. commctl' = c4
    BY <2>1
  <2>8. QED
    BY <1>2, <2>6, <2>7 DEF WriteCommctl, CtlRegs
<1>3. CASE WriteComminfo(i)
  BY <1>3 DEF WriteComminfo
<1>4. CASE WriteCommxmit(i)
  BY <1>4, SMTT(30) DEF WriteCommxmit, Packet
<1>5. CASE WriteCommxmit3(i)
  <2> DEFINE f == [commctl EXCEPT ![i].xmitFailed = FALSE]
  <2>1. f \in CtlRegs
    BY <1>1, CtlFields, Numbers
  <2>2. [f EXCEPT ![i].xmitFull = TRUE] \in CtlRegs
    BY <2>1, CtlFields, Numbers
  <2>3. QED
    BY <1>5, <2>2 DEF WriteCommxmit3, CtlRegs
<1>6. CASE ReadCommrecv3(i)
  <2>1. [commctl EXCEPT ![i].recvFull = FALSE] \in CtlRegs
    BY <1>1, CtlFields, Numbers
  <2>2. QED
    BY <1>6, <2>1 DEF ReadCommrecv3, CtlRegs
<1>7. CASE TakeQueued(i)
  BY <1>7 DEF TakeQueued
<1>8. CASE WaitForCommPacket(i)
  BY <1>8 DEF WaitForCommPacket, commVars
<1>9. QED
  BY <1>2, <1>3, <1>4, <1>5, <1>6, <1>7, <1>8 DEF CommProgram

LEMMA ResetType ==
  ASSUME CommTypeOK, NEW R \in SUBSET MPE, ResetComm(R),
         pendingCommRequests' \in Nat
  PROVE  CommTypeOK'
BY ResetTypes DEF ResetComm, CommTypeOK

(* The registers and the counter of the bus stay well typed: in particular *)
(* the unsigned counter of requests is never decremented below zero.       *)
LEMMA CommTypeInvariant == Spec => []CommTypeOK
<1>1. Init => CommTypeOK
  BY ResetTypes, Numbers DEF Init, CommTypeOK
<1>2. CommTypeOK /\ [Next]_vars => CommTypeOK'
  <2> SUFFICES ASSUME CommTypeOK, [Next]_vars PROVE CommTypeOK'
    OBVIOUS
  <2>1. CASE DoCommBusController
    BY <2>1, BusType DEF DoCommBusController, Handles
  <2>2. CASE \E i \in MPE : CommProgram(i)
    BY <2>2, ProgramType
  <2>3. CASE UNCHANGED commVars
    BY <2>3 DEF commVars, CommTypeOK
  <2>4. CASE \E j, i \in MPE : ResetMpe(j, i)
    BY <2>4, ResetType DEF ResetMpe, CommTypeOK
  <2>5. CASE ResetForReload
    BY <2>5, ResetType DEF ResetForReload
  <2>6. QED
    BY <2>1, <2>2, <2>3, <2>4, <2>5 DEF Next, vars
<1>3. QED
  BY <1>1, <1>2, PTL DEF Spec
-----------------------------------------------------------------------------
(* The counter of requests covers the full transmit buffers.               *)

FullBuffers == {i \in MPE : Full(i)}

LEMMA FullFinite ==
  /\ IsFiniteSet(FullBuffers) /\ Cardinality(FullBuffers) \in Nat
  /\ IsFiniteSet(FullBuffers') /\ Cardinality(FullBuffers') \in Nat
BY Numbers, FS_Subset, FS_CardinalityType DEF FullBuffers

LEMMA BusCovers ==
  ASSUME CommTypeOK, PendingCoversFull, NEW i \in MPE, Handles(i)
  PROVE  PendingCoversFull'
<1> USE DEF CommTypeOK
<1>1. i \in FullBuffers
  BY DEF Handles, Selected, FullBuffers
<1>2. PendingCoversFull <=> Cardinality(FullBuffers) <= pendingCommRequests
  BY DEF PendingCoversFull, FullBuffers
<1>3. PendingCoversFull' <=> Cardinality(FullBuffers') <= pendingCommRequests'
  BY DEF PendingCoversFull, FullBuffers
<1>4. CASE RetryLater(i)
  BY <1>2, <1>3, <1>4 DEF RetryLater, FullBuffers, Full, PendingCoversFull
<1>5. CASE Deliver(i) \/ Fail(i) \/ ToDevice(i)
  <2>1. pendingCommRequests' = pendingCommRequests - 1
    BY <1>5 DEF Deliver, Fail, ToDevice
  <2>2. FullBuffers' = FullBuffers \ {i}
    <3>1. commctl \in CtlRegs
      BY DEF CtlRegs
    <3>2. ASSUME NEW k \in MPE
          PROVE  commctl'[k].xmitFull
                   = IF k = i THEN FALSE ELSE commctl[k].xmitFull
      <4>1. CASE Deliver(i)
        <5>1. PICK t \in MPE :
                commctl' = [commctl EXCEPT ![i].xmitFull = FALSE,
                              ![t].recvFull = TRUE, ![t].sourceId = i]
          BY <4>1 DEF Deliver
        <5>2. CASE i = t
          BY <3>1, <5>1, <5>2 DEF CtlRegs, CommCtl
        <5>3. CASE i # t /\ k = i
          BY <3>1, <5>1, <5>3 DEF CtlRegs, CommCtl
        <5>4. CASE i # t /\ k # i
          BY <3>1, <5>1, <5>4 DEF CtlRegs, CommCtl
        <5>5. QED
          BY <5>2, <5>3, <5>4
      <4>2. CASE Fail(i)
        <5>1. commctl' = [commctl EXCEPT ![i].xmitFailed = TRUE,
                                         ![i].xmitFull = FALSE]
          BY <4>2 DEF Fail
        <5>2. CASE k = i
          BY <5>1, <5>2 DEF CommCtl
        <5>3. CASE k # i
          BY <5>1, <5>3 DEF CommCtl
        <5>4. QED
          BY <5>2, <5>3
      <4>3. CASE ToDevice(i)
        <5>1. commctl' = [commctl EXCEPT ![i].xmitFull = FALSE]
          BY <4>3 DEF ToDevice
        <5>2. QED
          BY <3>1, <5>1 DEF CtlRegs, CommCtl
      <4>4. QED
        BY <1>5, <4>1, <4>2, <4>3
    <3>3. QED
      BY <3>2 DEF FullBuffers, Full
  <2>3. Cardinality(FullBuffers') = Cardinality(FullBuffers) - 1
    BY <1>1, <2>2, FullFinite, FS_RemoveElement
  <2>4. QED
    BY <1>2, <1>3, <2>1, <2>3, FullFinite
<1>6. QED
  BY <1>4, <1>5 DEF Handles

LEMMA ProgramCovers ==
  ASSUME CommTypeOK, PendingCoversFull, NEW i \in MPE, CommProgram(i)
  PROVE  PendingCoversFull'
<1> USE DEF CommTypeOK
<1>2. PendingCoversFull <=> Cardinality(FullBuffers) <= pendingCommRequests
  BY DEF PendingCoversFull, FullBuffers
<1>3. PendingCoversFull' <=> Cardinality(FullBuffers') <= pendingCommRequests'
  BY DEF PendingCoversFull, FullBuffers
<1>4. CASE WriteCommxmit3(i)
  <2>1. FullBuffers' = FullBuffers \union {i}
    <3>1. commctl' = [commctl EXCEPT ![i].xmitFailed = FALSE,
                                     ![i].xmitFull = TRUE]
      BY <1>4 DEF WriteCommxmit3
    <3>2. ASSUME NEW k \in MPE
          PROVE  commctl'[k].xmitFull
                   = IF k = i THEN TRUE ELSE commctl[k].xmitFull
      <4>1. CASE k = i
        BY <3>1, <4>1 DEF CommCtl
      <4>2. CASE k # i
        BY <3>1, <4>2 DEF CommCtl
      <4>3. QED
        BY <4>1, <4>2
    <3>3. QED
      BY <3>2 DEF FullBuffers, Full
  <2>2. Cardinality(FullBuffers') <= Cardinality(FullBuffers) + 1
    BY <2>1, FullFinite, FS_AddElement, SMTT(30)
  <2>3. QED
    BY <1>2, <1>3, <1>4, <2>2, FullFinite DEF WriteCommxmit3
<1>5. CASE ~WriteCommxmit3(i)
  <2>1. pendingCommRequests' = pendingCommRequests
    BY <1>5 DEF CommProgram, WriteCommctl, WriteComminfo, WriteCommxmit,
                ReadCommrecv3, TakeQueued, WaitForCommPacket, commVars
  <2>2. ASSUME NEW k \in MPE
        PROVE  commctl'[k].xmitFull = commctl[k].xmitFull
    <3>2. CASE WriteCommctl(i)
      <4>1. PICK w \in CtlWords :
              commctl' = [commctl EXCEPT ![i].recvDisable = w.recvDisable,
                                         ![i].retry = w.retry,
                                         ![i].lock = w.lock,
                                         ![i].target = w.target]
        BY <3>2 DEF WriteCommctl
      <4>2. CASE k = i
        BY <4>1, <4>2 DEF CommCtl
      <4>3. CASE k # i
        BY <4>1, <4>3 DEF CommCtl
      <4>4. QED
        BY <4>2, <4>3
    <3>3. CASE ReadCommrecv3(i)
      <4>1. commctl' = [commctl EXCEPT ![i].recvFull = FALSE]
        BY <3>3 DEF ReadCommrecv3
      <4>2. QED
        BY <4>1 DEF CommCtl
    <3>4. CASE UNCHANGED commctl
      BY <3>4
    <3>5. QED
      BY <1>5, <3>2, <3>3, <3>4
         DEF CommProgram, WriteComminfo, WriteCommxmit, TakeQueued,
             WaitForCommPacket, commVars
  <2>3. FullBuffers' = FullBuffers
    BY <2>2 DEF FullBuffers, Full
  <2>4. QED
    BY <1>2, <1>3, <2>1, <2>3
<1>6. QED
  BY <1>4, <1>5

LEMMA ResetCovers ==
  ASSUME CommTypeOK, PendingCoversFull, NEW R \in SUBSET MPE, ResetComm(R),
         \/ pendingCommRequests' = pendingCommRequests
         \/ R = MPE /\ pendingCommRequests' = 0
  PROVE  PendingCoversFull'
<1>1. FullBuffers' = FullBuffers \ R
  BY DEF FullBuffers, Full, ResetComm, CommReset
<1>2. Cardinality(FullBuffers') <= Cardinality(FullBuffers)
  BY <1>1, FullFinite, FS_Subset
<1>3. CASE pendingCommRequests' = pendingCommRequests
  BY <1>2, <1>3, FullFinite DEF PendingCoversFull, FullBuffers, CommTypeOK
<1>4. CASE R = MPE /\ pendingCommRequests' = 0
  <2>1. FullBuffers' = {}
    BY <1>1, <1>4 DEF FullBuffers
  <2>2. QED
    BY <1>4, <2>1, FS_EmptySet DEF PendingCoversFull, FullBuffers
<1>5. QED
  BY <1>3, <1>4

(* Every full transmit buffer is covered by a pending request, whatever    *)
(* the programs write and in whatever order MPEs are reset and reloaded:   *)
(* the main loop never leaves a packet behind because the counter is zero. *)
THEOREM PendingCorrect == Spec => []PendingCoversFull
<1>1. Init => PendingCoversFull
  <2> SUFFICES ASSUME Init PROVE PendingCoversFull
    OBVIOUS
  <2>1. {i \in MPE : Full(i)} = {}
    BY DEF Init, Full, CommReset
  <2>2. QED
    BY <2>1, FS_EmptySet DEF Init, PendingCoversFull
<1>2. CommTypeOK /\ PendingCoversFull /\ [Next]_vars => PendingCoversFull'
  <2> SUFFICES ASSUME CommTypeOK, PendingCoversFull, [Next]_vars
               PROVE  PendingCoversFull'
    OBVIOUS
  <2>1. CASE DoCommBusController
    BY <2>1, BusCovers DEF DoCommBusController, Handles
  <2>2. CASE \E i \in MPE : CommProgram(i)
    BY <2>2, ProgramCovers
  <2>3. CASE UNCHANGED commVars
    <3>1. FullBuffers' = FullBuffers
      BY <2>3 DEF commVars, FullBuffers, Full
    <3>2. QED
      BY <2>3, <3>1 DEF commVars, PendingCoversFull, FullBuffers
  <2>4. CASE \E j, i \in MPE : ResetMpe(j, i)
    <3>1. PICK j, i \in MPE : ResetMpe(j, i)
      BY <2>4
    <3> DEFINE R == {i}
    <3>2. R \in SUBSET MPE
      OBVIOUS
    <3>3. ResetComm(R) /\ pendingCommRequests' = pendingCommRequests
      BY <3>1 DEF ResetMpe
    <3> HIDE DEF R
    <3>4. QED
      BY <3>2, <3>3, ResetCovers
  <2>5. CASE ResetForReload
    BY <2>5, ResetCovers DEF ResetForReload
  <2>6. QED
    BY <2>1, <2>2, <2>3, <2>4, <2>5 DEF Next, vars
<1>3. QED
  BY <1>1, <1>2, CommTypeInvariant, PTL DEF Spec
-----------------------------------------------------------------------------
(* The bus composed with the interrupt unit.                               *)

(* Every step of the bus and of the programs that use it is a step of the  *)
(* interrupt unit's specification, or leaves the interrupt unit alone.     *)
THEOREM InterruptsImplemented == Spec => ImplementsInterrupts
<1>1. Init => Int0!Init
  BY DEF Init
<1>2. [Next]_vars => [Int0!Next]_<<mpe, schedule_intsrc, sleeping>>
  <2> SUFFICES ASSUME [Next]_vars
               PROVE  Int0!Next \/ UNCHANGED intVars
    BY DEF intVars
  <2>1. ASSUME NEW i \in MPE, Accesses(i) PROVE Int0!Next
    BY <2>1 DEF Accesses, Int0!Next, Int0!Program, Int0!Plain
  <2>2. CASE DoCommBusController
    <3>1. PICK i \in MPE : Deliver(i) \/ RetryLater(i) \/ Fail(i) \/ ToDevice(i)
      BY <2>2 DEF DoCommBusController
    <3>2. ASSUME NEW f \in [MPE -> SUBSET Source], Raise(f)
          PROVE  Int0!Next
      BY <3>2 DEF Raise, Int0!Next, Int0!TriggerInterrupt
    <3>3. INT_COMMRECV \in Source /\ INT_COMMXMIT \in Source
      BY CommBusAssumption
    <3>4. CASE Deliver(i)
      <4> DEFINE f == [j \in MPE |-> {s \in {INT_COMMXMIT, INT_COMMRECV} :
                         \/ j = i /\ s = INT_COMMXMIT
                         \/ j = commctl[i].target /\ s = INT_COMMRECV}]
      <4>1. f \in [MPE -> SUBSET Source]
        BY <3>3
      <4>2. Raise(f)
        BY <3>4 DEF Deliver
      <4> HIDE DEF f
      <4>3. QED
        BY <3>2, <4>1, <4>2
    <3>5. CASE ToDevice(i)
      <4> DEFINE f == [j \in MPE |-> IF j = i THEN {INT_COMMXMIT} ELSE {}]
      <4>1. f \in [MPE -> SUBSET Source]
        BY <3>3
      <4>2. Raise(f)
        BY <3>5 DEF ToDevice
      <4> HIDE DEF f
      <4>3. QED
        BY <3>2, <4>1, <4>2
    <3>6. CASE RetryLater(i) \/ Fail(i)
      BY <3>6 DEF RetryLater, Fail, intVars
    <3>7. QED
      BY <3>1, <3>4, <3>5, <3>6
  <2>3. CASE \E i \in MPE : CommProgram(i)
    BY <2>1, <2>3
       DEF CommProgram, WriteCommctl, WriteComminfo, WriteCommxmit,
           WriteCommxmit3, ReadCommrecv3, TakeQueued, WaitForCommPacket,
           Int0!Next
  <2>4. CASE \E i \in MPE : Int0!Program(i)
    BY <2>4 DEF Int0!Next
  <2>5. CASE \E j, i \in MPE : Int0!Control(j, i) \/ ResetMpe(j, i)
    BY <2>5 DEF ResetMpe, Int0!Next
  <2>6. CASE ResetForReload
    BY <2>6 DEF ResetForReload, Int0!Next
  <2>7. QED
    BY <2>2, <2>3, <2>4, <2>5, <2>6 DEF Next, vars, intVars
<1>3. QED
  BY <1>1, <1>2, PTL DEF Spec, ImplementsInterrupts, Int0!Spec, Int0!vars

IntP == INSTANCE Interrupts_proofs

(* Interrupts_proofs has a copy of the interrupt unit's definitions; they  *)
(* are expanded here, once, to show that it is the same unit.              *)
LEMMA SameUnit == Int0!Spec <=> IntP!Spec
<1>1. Int0!Init <=> IntP!Init
  BY DEF Int0!Init, IntP!Init
<1>2. Int0!Next <=> IntP!Next
  BY Zenon
     DEF Int0!Enabled, IntP!Enabled, Int0!PendingFor, IntP!PendingFor,
         Int0!Woken, IntP!Woken, Int0!Triggered, IntP!Triggered,
         Int0!WaitStops, IntP!WaitStops, Int0!Waiting, IntP!Waiting,
         Int0!WasReset, IntP!WasReset, Int0!Restarted, IntP!Restarted,
         Int0!ThreadStarted, IntP!ThreadStarted, Int0!Booting,
         IntP!Booting, Int0!TakesLevel2, IntP!TakesLevel2,
         Int0!TakesLevel1, IntP!TakesLevel1, Int0!Serviced, IntP!Serviced,
         Int0!Retired, IntP!Retired, Int0!Branched, IntP!Branched,
         Int0!Now, IntP!Now, Int0!Runs, IntP!Runs, Int0!Plain, IntP!Plain,
         Int0!TakenBranch, IntP!TakenBranch, Int0!Rti1, IntP!Rti1,
         Int0!Rti2, IntP!Rti2, Int0!WriteIntclr, IntP!WriteIntclr,
         Int0!WriteIntsrc, IntP!WriteIntsrc, Int0!WriteInten1,
         IntP!WriteInten1, Int0!WriteInten2sel, IntP!WriteInten2sel,
         Int0!WriteIntctl, IntP!WriteIntctl, Int0!WaitForInterrupt,
         IntP!WaitForInterrupt, Int0!WaitForCommPacket,
         IntP!WaitForCommPacket, Int0!Halt, IntP!Halt, Int0!Changes,
         IntP!Changes, Int0!Controls, IntP!Controls, Int0!Enabling,
         IntP!Enabling, Int0!WritesEnables, IntP!WritesEnables,
         Int0!WritesIntsrc, IntP!WritesIntsrc, Int0!WritesIntclr,
         IntP!WritesIntclr, Int0!WritesIntctl, IntP!WritesIntctl,
         Int0!MPEWriteRegister, IntP!MPEWriteRegister, Int0!MPERun, IntP!MPERun, Int0!MPERunMedia,
         IntP!MPERunMedia, Int0!MPERunThread, IntP!MPERunThread,
         Int0!MPEStop, IntP!MPEStop, Int0!ResetMpe, IntP!ResetMpe,
         Int0!Raise, IntP!Raise, Int0!TriggerInterrupt,
         IntP!TriggerInterrupt, Int0!ScheduleInterrupt,
         IntP!ScheduleInterrupt, Int0!TriggerScheduledInterrupts,
         IntP!TriggerScheduledInterrupts, Int0!ResetForReload,
         IntP!ResetForReload, Int0!Program, IntP!Program, Int0!Control,
         IntP!Control, Int0!Next, IntP!Next
<1>3. Int0!vars = IntP!vars
  BY DEF Int0!vars, IntP!vars
<1>4. [Int0!Next]_(Int0!vars) <=> [IntP!Next]_(IntP!vars)
  BY <1>2, <1>3 DEF Int0!vars, IntP!vars
<1>5. QED
  BY <1>1, <1>4, PTL DEF Int0!Spec, IntP!Spec

(* So the theorems about the interrupt unit hold of the composition: types *)
(* are kept, handlers nest, and a delivery never leaves its receiver       *)
(* asleep.                                                                 *)
THEOREM ComposedCorrect ==
  Spec => [](TypeOK /\ Int0!HandlersNest /\ Int0!NoLostWakeup)
<1>1. IntP!InterruptsConstants
  BY CommBusAssumption DEF Int0!InterruptsConstants, IntP!InterruptsConstants
<1>2. IntP!Spec => []IntP!TypeOK
  BY <1>1, IntP!TypeCorrect
<1>3. IntP!Spec => []IntP!HandlersNest
  BY <1>1, IntP!NestingCorrect
<1>4. IntP!Spec => []IntP!NoLostWakeup
  BY <1>1, IntP!WakeupCorrect
<1>5. IntP!TypeOK => Int0!TypeOK
  BY DEF IntP!TypeOK, Int0!TypeOK, IntP!MpeRegisters, Int0!MpeRegisters,
         IntP!Routine, Int0!Routine, IntP!MaskBit, Int0!MaskBit
<1>6. IntP!HandlersNest => Int0!HandlersNest
  BY DEF IntP!HandlersNest, Int0!HandlersNest, IntP!Nested, Int0!Nested,
         IntP!Destination, Int0!Destination
<1>7. IntP!NoLostWakeup => Int0!NoLostWakeup
  BY DEF IntP!NoLostWakeup, Int0!NoLostWakeup, IntP!PendingFor,
         Int0!PendingFor, IntP!Enabled, Int0!Enabled
<1>8. QED
  BY <1>2, <1>3, <1>4, <1>5, <1>6, <1>7, SameUnit, InterruptsImplemented,
     CommTypeInvariant, PTL
     DEF TypeOK, ImplementsInterrupts

(* The registers of the bus and of the interrupt unit keep their types     *)
(* together; in particular the unsigned count of requests never wraps.     *)
THEOREM TypeCorrect == Spec => []TypeOK
<1>1. [](TypeOK /\ Int0!HandlersNest /\ Int0!NoLostWakeup) => []TypeOK
  BY PTL
<1>2. QED
  BY <1>1, ComposedCorrect
-----------------------------------------------------------------------------
(* What a sleeping MPE has not received.                                   *)

\* Programs sleep in WaitForCommPacket only: the mask of the other call may
\* leave out the receive interrupt, and then nothing wakes for a packet.
OnlyWaitsForPackets == WaitMasks \subseteq {{}}

\* A sleeper waits for all it had enabled, before it slept.
Asleep(k) ==
  /\ ~mpe[k].mpego
  /\ EnabledInTime(k) \subseteq mpe[k].waitList
  /\ INT_COMMRECV \in EnabledInTime(k) => ~HasPacket(k)
SleepInv == \A k \in sleeping : Asleep(k)

\* Nobody but the sleeper reads or queues its packets.
LEMMA SamePackets ==
  ASSUME CommTypeOK, NEW i \in MPE, CommProgram(i), NEW k \in MPE, k # i
  PROVE  HasPacket(k)' = HasPacket(k)
<1>1. commctl'[k].recvFull = commctl[k].recvFull /\ queued'[k] = queued[k]
  BY DEF CommProgram, WriteCommctl, WriteComminfo, WriteCommxmit,
         WriteCommxmit3, ReadCommrecv3, TakeQueued, WaitForCommPacket,
         commVars, CommTypeOK
<1>2. QED
  BY <1>1 DEF HasPacket

\* A program that runs is not asleep, and leaves the sleepers alone.
LEMMA RunsAsleep ==
  ASSUME Int0!TypeOK, SleepInv, NEW i \in MPE, NEW m, Int0!Runs(i, m),
         sleeping' = sleeping,
         \A k \in MPE \ {i} : HasPacket(k)' = HasPacket(k)
  PROVE  SleepInv'
<1> SUFFICES ASSUME NEW k \in sleeping PROVE Asleep(k)'
  BY DEF SleepInv
<1>1. k \in MPE /\ Asleep(k) /\ k # i
  BY DEF SleepInv, Asleep, Int0!TypeOK, Int0!Runs
<1>2. mpe'[k] = mpe[k]
  BY <1>1 DEF Int0!Runs, Int0!TypeOK
<1>3. QED
  BY <1>1, <1>2 DEF Asleep, EnabledInTime, Int0!Enabled

\* WaitForCommPacket stops its MPE with all it has enabled as wait list, when
\* there is no packet.
LEMMA WaitAsleep ==
  ASSUME Int0!TypeOK, SleepInv, NEW i \in MPE, ~HasPacket(i),
         Int0!WaitForCommPacket(i), UNCHANGED commVars
  PROVE  SleepInv'
<1>1. mpe[i] \in Int0!MpeRegisters
  BY DEF Int0!TypeOK
<1>2. UNCHANGED <<commctl, queued>>
  BY DEF commVars
<1> DEFINE n == Int0!Now(i)
           w == Int0!Waiting(n, Int0!Enabled(n))
<1>3. n \in Int0!MpeRegisters
  BY <1>1 DEF Int0!Now, Int0!Serviced, Int0!MpeRegisters, Int0!Routine,
              Int0!MaskBit
<1> HIDE DEF n
<1>4. /\ ~w.mpego /\ w.waitList = Int0!Enabled(n)
      /\ w.inten1 = n.inten1 /\ w.inten2sel = n.inten2sel
      /\ Int0!Retired(w).mpego = w.mpego
      /\ Int0!Retired(w).waitList = w.waitList
      /\ Int0!Retired(w).inten1 = w.inten1
      /\ Int0!Retired(w).inten2sel = w.inten2sel
  BY <1>3 DEF Int0!Waiting, Int0!Retired, Int0!MpeRegisters
<1>5. mpe' = [mpe EXCEPT ![i] = Int0!Retired(w)]
  BY DEF Int0!WaitForCommPacket, Int0!Runs, n
<1>6. sleeping' = sleeping \union {i}
  BY DEF Int0!WaitForCommPacket
<1>7. ASSUME NEW k \in sleeping' PROVE Asleep(k)'
  <2>1. k \in MPE /\ HasPacket(k)' = HasPacket(k)
    BY <1>2, <1>6 DEF HasPacket, Int0!TypeOK
  <2>2. CASE k = i
    <3>1. mpe'[k] = Int0!Retired(w)
      BY <1>5, <2>2 DEF Int0!TypeOK
    <3>2. EnabledInTime(k)' \subseteq Int0!Enabled(n)
      BY <1>4, <3>1 DEF EnabledInTime, Int0!Enabled
    <3>3. mpe'[k].waitList = Int0!Enabled(n) /\ ~mpe'[k].mpego
      BY <1>4, <3>1
    <3> HIDE DEF w
    <3>4. QED
      BY <2>1, <2>2, <3>2, <3>3 DEF Asleep
  <2>3. CASE k # i
    <3>1. mpe'[k] = mpe[k] /\ Asleep(k)
      BY <1>5, <1>6, <2>1, <2>3 DEF Int0!TypeOK, SleepInv
    <3>2. QED
      BY <2>1, <3>1 DEF Asleep, EnabledInTime, Int0!Enabled
  <2>4. QED
    BY <2>2, <2>3
<1>8. QED
  BY <1>7 DEF SleepInv

\* An interrupt that does not wake a sleeper is one it has not enabled.
LEMMA RaiseAsleep ==
  ASSUME Int0!TypeOK, SleepInv, NEW f \in [MPE -> SUBSET Source], Int0!Raise(f),
         \A k \in MPE : HasPacket(k)' => HasPacket(k) \/ INT_COMMRECV \in f[k]
  PROVE  SleepInv'
<1> SUFFICES ASSUME NEW k \in sleeping' PROVE Asleep(k)'
  BY DEF SleepInv
<1>1. k \in MPE /\ Asleep(k) /\ ~mpe'[k].mpego
  BY DEF SleepInv, Int0!TypeOK, Int0!Raise
<1>2. mpe[k] \in Int0!MpeRegisters
  BY <1>1 DEF Int0!TypeOK
<1>3. mpe'[k] = IF f[k] = {} THEN mpe[k] ELSE Int0!Triggered(mpe[k], f[k])
  BY <1>1 DEF Int0!Raise
<1>4. CASE f[k] = {}
  BY <1>1, <1>3, <1>4 DEF Asleep, EnabledInTime, Int0!Enabled
<1>5. CASE f[k] # {}
  <2> DEFINE m == [mpe[k] EXCEPT !.intsrc = @ \union f[k]]
  <2>1. /\ m \in Int0!MpeRegisters /\ m.waitList = mpe[k].waitList
        /\ m.inten1 = mpe[k].inten1 /\ m.inten2sel = mpe[k].inten2sel
        /\ m.enabledLate = mpe[k].enabledLate
        /\ f[k] \subseteq m.intsrc
    BY <1>1, <1>2 DEF Int0!MpeRegisters
  <2>2. mpe'[k] = Int0!Woken(m)
    BY <1>3, <1>5 DEF Int0!Triggered
  <2> HIDE DEF m
  <2> DEFINE e == EnabledInTime(k)
  <2>3. e = Int0!Enabled(m) \ m.enabledLate
    BY <2>1 DEF EnabledInTime, Int0!Enabled
  <2> HIDE DEF e
  <2>7. e \subseteq m.waitList /\ (INT_COMMRECV \in e => ~HasPacket(k))
    BY <1>1, <2>1 DEF Asleep, e
  <2>4. CASE Int0!PendingFor(m, m.waitList) # {}
    <3>1. mpe'[k].mpego
      BY <2>1, <2>2, <2>4 DEF Int0!Woken, Int0!MpeRegisters
    <3>2. QED
      BY <1>1, <3>1
  <2>5. CASE Int0!PendingFor(m, m.waitList) = {}
    <3>1. mpe'[k] = m
      BY <2>2, <2>5 DEF Int0!Woken
    <3>2. INT_COMMRECV \in e => INT_COMMRECV \notin f[k]
      BY <2>1, <2>3, <2>5, <2>7 DEF Int0!PendingFor
    <3>3. INT_COMMRECV \in e => ~HasPacket(k)'
      BY <1>1, <2>7, <3>2
    <3>4. EnabledInTime(k)' = e
      BY <2>3, <3>1 DEF EnabledInTime, Int0!Enabled
    <3>5. ~m.mpego
      BY <1>1, <3>1
    <3>6. QED
      BY <2>7, <3>1, <3>3, <3>4, <3>5 DEF Asleep
  <2>6. QED
    BY <2>4, <2>5
<1>6. QED
  BY <1>4, <1>5

\* What one MPE does to another takes the other off the sleepers.
LEMMA ControlsAsleep ==
  ASSUME Int0!TypeOK, SleepInv, NEW j \in MPE, NEW i \in MPE, NEW m,
         Int0!Controls(j, i, m), sleeping' = sleeping \ {i},
         \A k \in MPE \ {i} : HasPacket(k)' = HasPacket(k)
  PROVE  SleepInv'
<1> SUFFICES ASSUME NEW k \in sleeping \ {i} PROVE Asleep(k)'
  BY DEF SleepInv
<1>1. k \in MPE /\ Asleep(k) /\ k # j /\ k # i
  BY DEF SleepInv, Asleep, Int0!TypeOK, Int0!Controls, Int0!Changes
<1>2. mpe'[k] = mpe[k]
  BY <1>1 DEF Int0!Controls, Int0!Changes, Int0!TypeOK
<1>3. QED
  BY <1>1, <1>2 DEF Asleep, EnabledInTime, Int0!Enabled

\* What MPE j writes into a sleeper wakes it, or it still waits for all that
\* it had enabled.
LEMMA WritesAsleep ==
  ASSUME Int0!TypeOK, SleepInv, NEW j \in MPE, NEW i \in MPE,
         Int0!MPEWriteRegister(j, i), UNCHANGED commVars
  PROVE  SleepInv'
<1> DEFINE m == mpe[i]
<1>1. m \in Int0!MpeRegisters
  BY DEF Int0!TypeOK
<1>2. ASSUME NEW k PROVE HasPacket(k)' = HasPacket(k)
  BY DEF commVars, HasPacket
<1>3. ASSUME NEW n, Int0!Changes(j, i, n)
      PROVE  /\ mpe[j].mpego /\ j # i /\ mpe'[i] = n
             /\ \A k \in MPE \ {i, j} : mpe'[k] = mpe[k]
  BY <1>3 DEF Int0!Changes, Int0!TypeOK
<1> HIDE DEF m
<1>4. ASSUME NEW n, Int0!Changes(j, i, n), sleeping' \subseteq sleeping,
             i \in sleeping' =>
               /\ ~n.mpego
               /\ n.waitList = m.waitList
               /\ Int0!Enabled(n) \ n.enabledLate \subseteq EnabledInTime(i)
      PROVE  SleepInv'
  <2> SUFFICES ASSUME NEW k \in sleeping' PROVE Asleep(k)'
    BY DEF SleepInv
  <2>1. k \in MPE /\ k \in sleeping /\ Asleep(k) /\ k # j
    BY <1>3, <1>4 DEF SleepInv, Asleep, Int0!TypeOK
  <2>2. CASE k # i
    <3>1. mpe'[k] = mpe[k]
      BY <1>3, <1>4, <2>1, <2>2
    <3>2. QED
      BY <1>2, <2>1, <3>1 DEF Asleep, EnabledInTime, Int0!Enabled
  <2>3. CASE k = i
    <3>1. mpe'[k] = n
      BY <1>3, <1>4, <2>3
    <3>2. EnabledInTime(k)' = Int0!Enabled(n) \ n.enabledLate
      BY <3>1 DEF EnabledInTime, Int0!Enabled
    <3>3. QED
      BY <1>2, <1>4, <2>1, <2>3, <3>1, <3>2 DEF Asleep, m
  <2>4. QED
    BY <2>2, <2>3
<1>5. i \in sleeping => ~m.mpego
  BY DEF SleepInv, Asleep, m
<1>6. EnabledInTime(i) = Int0!Enabled(m) \ m.enabledLate
  BY DEF EnabledInTime, m
<1>7. ASSUME NEW r, r \in Int0!MpeRegisters, r.mpego = m.mpego,
             r.waitList = m.waitList, r.enabledLate = m.enabledLate,
             Int0!Changes(j, i, Int0!Enabling(i, r)), UNCHANGED sleeping
      PROVE  SleepInv'
  <2> DEFINE n == Int0!Enabling(i, r)
  <2>1. /\ n.mpego = m.mpego /\ n.waitList = m.waitList
        /\ n.inten1 = r.inten1 /\ n.inten2sel = r.inten2sel
        /\ i \in sleeping => n.enabledLate = m.enabledLate \union
                               (Int0!Enabled(r) \ Int0!Enabled(m))
    BY <1>7 DEF Int0!Enabling, Int0!MpeRegisters, m
  <2>2. Int0!Changes(j, i, n)
    BY <1>7
  <2> HIDE DEF n
  <2>3. Int0!Enabled(n) = Int0!Enabled(r)
    BY <2>1 DEF Int0!Enabled
  <2>4. i \in sleeping =>
          Int0!Enabled(n) \ n.enabledLate \subseteq EnabledInTime(i)
    BY <1>6, <2>1, <2>3
  <2>5. QED
    BY <1>4, <1>5, <1>7, <2>1, <2>2, <2>4
<1>8. CASE Int0!WritesEnables(j, i)
  <2>1. PICK r : /\ \/ \E mask \in EnableMasks : r = [m EXCEPT !.inten1 = mask]
                    \/ \E s \in Level2 : r = [m EXCEPT !.inten2sel = s]
                 /\ Int0!Changes(j, i, Int0!Enabling(i, r))
    BY <1>8 DEF Int0!WritesEnables, m
  <2>2. /\ \A mask \in EnableMasks : mask \in SUBSET Source
        /\ \A s \in Level2 : s \in Source
    BY CommBusAssumption DEF Int0!InterruptsConstants
  <2>3. /\ r \in Int0!MpeRegisters /\ r.mpego = m.mpego
        /\ r.waitList = m.waitList /\ r.enabledLate = m.enabledLate
    BY <1>1, <2>1, <2>2 DEF Int0!MpeRegisters
  <2>4. QED
    BY <1>7, <1>8, <2>1, <2>3 DEF Int0!WritesEnables
<1>9. CASE Int0!WritesIntsrc(j, i)
  <2>1. PICK s \in Source :
          /\ Int0!Changes(j, i, Int0!Triggered(m, {s}))
          /\ sleeping' = IF Int0!Triggered(m, {s}).mpego THEN sleeping \ {i}
                                                        ELSE sleeping
    BY <1>9 DEF Int0!WritesIntsrc, m
  <2> DEFINE a == [m EXCEPT !.intsrc = @ \union {s}]
             n == Int0!Triggered(m, {s})
  <2>2. /\ a \in Int0!MpeRegisters /\ a.mpego = m.mpego
        /\ a.waitList = m.waitList /\ a.enabledLate = m.enabledLate
        /\ a.inten1 = m.inten1 /\ a.inten2sel = m.inten2sel
    BY <1>1 DEF Int0!MpeRegisters
  <2>3. n = Int0!Woken(a)
    BY DEF Int0!Triggered
  <2>4. /\ Int0!Changes(j, i, n)
        /\ sleeping' = IF n.mpego THEN sleeping \ {i} ELSE sleeping
    BY <2>1
  <2> HIDE DEF a, n
  <2>5. n = a \/ n.mpego
    BY <2>2, <2>3 DEF Int0!Woken, Int0!MpeRegisters
  <2>6. i \in sleeping' => n = a /\ ~n.mpego
    BY <2>4, <2>5
  <2>7. Int0!Enabled(a) = Int0!Enabled(m)
    BY <2>2 DEF Int0!Enabled
  <2>8. sleeping' \subseteq sleeping
    BY <2>4
  <2>9. QED
    BY <1>4, <1>6, <2>2, <2>4, <2>6, <2>7, <2>8
<1>10. ASSUME NEW n, n.mpego = m.mpego, n.waitList = m.waitList,
              n.enabledLate = m.enabledLate, n.inten1 = m.inten1,
              n.inten2sel = m.inten2sel, Int0!Changes(j, i, n),
              UNCHANGED sleeping
       PROVE  SleepInv'
  <2>1. Int0!Enabled(n) = Int0!Enabled(m)
    BY <1>10 DEF Int0!Enabled
  <2>2. QED
    BY <1>4, <1>5, <1>6, <1>10, <2>1
<1>11. CASE Int0!WritesIntclr(j, i)
  <2>1. PICK s : Int0!Changes(j, i, [m EXCEPT !.intsrc = @ \ {s}])
    BY <1>11 DEF Int0!WritesIntclr, m
  <2> DEFINE n == [m EXCEPT !.intsrc = @ \ {s}]
  <2>2. /\ n.mpego = m.mpego /\ n.waitList = m.waitList
        /\ n.enabledLate = m.enabledLate /\ n.inten1 = m.inten1
        /\ n.inten2sel = m.inten2sel
    BY <1>1 DEF Int0!MpeRegisters
  <2>3. Int0!Changes(j, i, n) /\ UNCHANGED sleeping
    BY <1>11, <2>1 DEF Int0!WritesIntclr
  <2> HIDE DEF n
  <2>4. QED
    BY <1>10, <2>2, <2>3
<1>12. CASE Int0!WritesIntctl(j, i)
  <2>1. PICK ctl : Int0!Changes(j, i, [m EXCEPT !.intctl = ctl])
    BY <1>12 DEF Int0!WritesIntctl, m
  <2> DEFINE n == [m EXCEPT !.intctl = ctl]
  <2>2. /\ n.mpego = m.mpego /\ n.waitList = m.waitList
        /\ n.enabledLate = m.enabledLate /\ n.inten1 = m.inten1
        /\ n.inten2sel = m.inten2sel
    BY <1>1 DEF Int0!MpeRegisters
  <2>3. Int0!Changes(j, i, n) /\ UNCHANGED sleeping
    BY <1>12, <2>1 DEF Int0!WritesIntctl
  <2> HIDE DEF n
  <2>4. QED
    BY <1>10, <2>2, <2>3
<1>13. QED
  BY <1>8, <1>9, <1>11, <1>12 DEF Int0!MPEWriteRegister

\* The packet of a delivery comes with the receive interrupt.
LEMMA BusAsleep ==
  ASSUME TypeOK, SleepInv, NEW i \in MPE, Handles(i), UNCHANGED <<commxmit, queued>>
  PROVE  SleepInv'
<1> USE DEF TypeOK
<1>1. INT_COMMRECV \in Source /\ INT_COMMXMIT \in Source
  BY CommBusAssumption
<1>2. CASE Deliver(i)
  <2> DEFINE t == commctl[i].target
             f == [j \in MPE |-> {s \in {INT_COMMXMIT, INT_COMMRECV} :
                     \/ j = i /\ s = INT_COMMXMIT
                     \/ j = t /\ s = INT_COMMRECV}]
  <2>1. f \in [MPE -> SUBSET Source] /\ Int0!Raise(f)
    BY <1>1, <1>2 DEF Deliver, Raise
  <2>2. ASSUME NEW k \in MPE, HasPacket(k)'
        PROVE  HasPacket(k) \/ INT_COMMRECV \in f[k]
    <3>1. CASE k = t
      BY <3>1
    <3>2. CASE k # t
      <4>1. commctl'[k].recvFull = commctl[k].recvFull
        BY <1>2, <3>2 DEF Deliver, CommTypeOK, CommCtl
      <4>2. QED
        BY <2>2, <4>1 DEF HasPacket
    <3>3. QED
      BY <3>1, <3>2
  <2> HIDE DEF f
  <2>3. QED
    BY <2>1, <2>2, RaiseAsleep
<1>3. CASE ToDevice(i)
  <2> DEFINE f == [j \in MPE |-> IF j = i THEN {INT_COMMXMIT} ELSE {}]
  <2>1. f \in [MPE -> SUBSET Source] /\ Int0!Raise(f)
    BY <1>1, <1>3 DEF ToDevice, Raise
  <2>2. \A k \in MPE : commctl'[k].recvFull = commctl[k].recvFull
    BY <1>3 DEF ToDevice, CommTypeOK, CommCtl
  <2>3. \A k \in MPE : HasPacket(k)' => HasPacket(k)
    BY <2>2 DEF HasPacket
  <2> HIDE DEF f
  <2>4. QED
    BY <2>1, <2>3, RaiseAsleep
<1>4. CASE RetryLater(i) \/ Fail(i)
  <2>1. \A k \in MPE : commctl'[k].recvFull = commctl[k].recvFull
    BY <1>4, SMTT(30) DEF RetryLater, Fail, CommTypeOK, CommCtl
  <2>2. UNCHANGED <<mpe, sleeping>>
    BY <1>4 DEF RetryLater, Fail, intVars
  <2>3. \A k \in sleeping : HasPacket(k)' = HasPacket(k)
    BY <2>1 DEF HasPacket, Int0!TypeOK
  <2>4. QED
    BY <2>2, <2>3 DEF SleepInv, Asleep, EnabledInTime, Int0!Enabled
<1>5. QED
  BY <1>2, <1>3, <1>4 DEF Handles

LEMMA StepAsleep ==
  ASSUME OnlyWaitsForPackets, TypeOK, SleepInv, [Next]_vars
  PROVE  SleepInv'
<1> USE DEF TypeOK
<1>1. CASE DoCommBusController
  BY <1>1, BusAsleep DEF DoCommBusController, Handles
<1>2. ASSUME NEW i \in MPE, CommProgram(i) PROVE SleepInv'
  <2>1. \A k \in MPE \ {i} : HasPacket(k)' = HasPacket(k)
    BY <1>2, SamePackets
  <2>2. CASE Accesses(i)
    BY <2>1, <2>2, RunsAsleep DEF Accesses
  <2>3. CASE ~HasPacket(i) /\ Int0!WaitForCommPacket(i) /\ UNCHANGED commVars
    BY <2>3, WaitAsleep
  <2>4. QED
    BY <1>2, <2>2, <2>3
       DEF CommProgram, WriteCommctl, WriteComminfo, WriteCommxmit,
           WriteCommxmit3, ReadCommrecv3, TakeQueued, WaitForCommPacket
<1>3. ASSUME UNCHANGED commVars, NEW k PROVE HasPacket(k)' = HasPacket(k)
  BY <1>3 DEF commVars, HasPacket
<1>4. ASSUME NEW i \in MPE, Int0!Program(i), UNCHANGED commVars PROVE SleepInv'
  <2>1. ASSUME NEW m, Int0!Runs(i, m), UNCHANGED sleeping PROVE SleepInv'
    BY <1>3, <1>4, <2>1, RunsAsleep
  <2>2. CASE Int0!WaitForInterrupt(i)
    <3>1. ~Int0!WaitStops(Int0!Now(i), {})
      BY DEF Int0!WaitStops
    <3>2. Int0!Runs(i, Int0!Now(i)) /\ UNCHANGED sleeping
      BY <2>2, <3>1 DEF Int0!WaitForInterrupt, OnlyWaitsForPackets
    <3>3. QED
      BY <2>1, <3>2
  <2>3. CASE ~Int0!WaitForInterrupt(i)
    BY <1>4, <2>1, <2>3
       DEF Int0!Program, Int0!Plain, Int0!TakenBranch, Int0!Rti1, Int0!Rti2,
           Int0!WriteIntclr, Int0!WriteIntsrc, Int0!WriteInten1,
           Int0!WriteInten2sel, Int0!WriteIntctl, Int0!Halt
  <2>4. QED
    BY <2>2, <2>3
<1>5. ASSUME NEW j \in MPE, NEW i \in MPE, Int0!Control(j, i), UNCHANGED commVars
      PROVE  SleepInv'
  BY <1>3, <1>5, ControlsAsleep, WritesAsleep
     DEF Int0!Control, Int0!MPERun, Int0!MPERunMedia, Int0!MPERunThread,
         Int0!MPEStop
<1>6. ASSUME NEW j \in MPE, NEW i \in MPE, ResetMpe(j, i) PROVE SleepInv'
  <2>1. \A k \in MPE \ {i} : HasPacket(k)' = HasPacket(k)
    BY <1>6 DEF ResetMpe, ResetComm, HasPacket
  <2>2. QED
    BY <1>6, <2>1, ControlsAsleep DEF ResetMpe, Int0!ResetMpe
<1>7. CASE ResetForReload
  BY <1>7 DEF ResetForReload, Int0!ResetForReload, SleepInv
<1>8. CASE UNCHANGED vars
  BY <1>3, <1>8 DEF vars, intVars, SleepInv, Asleep, EnabledInTime, Int0!Enabled
<1>9. QED
  BY <1>1, <1>2, <1>4, <1>5, <1>6, <1>7, <1>8 DEF Next

(* The check for a packet and the sleep are not torn apart by a delivery,  *)
(* and every delivery wakes its receiver: where programs sleep only in     *)
(* WaitForCommPacket, no sleeper that has enabled the receive interrupt    *)
(* has a packet, whatever is sent, reset or loaded meanwhile.              *)
THEOREM SleepersCorrect == OnlyWaitsForPackets => (Spec => []SleepersHaveNoPacket)
<1> SUFFICES ASSUME OnlyWaitsForPackets PROVE Spec => []SleepersHaveNoPacket
  OBVIOUS
<1>1. Init => SleepInv
  BY DEF Init, Int0!Init, SleepInv
<1>2. TypeOK /\ SleepInv /\ [Next]_vars => SleepInv'
  BY StepAsleep
<1>3. SleepInv => SleepersHaveNoPacket
  BY DEF SleepInv, Asleep, SleepersHaveNoPacket
<1>4. QED
  BY <1>1, <1>2, <1>3, TypeCorrect, PTL DEF Spec

-----------------------------------------------------------------------------
(* The bus implements the abstract channel.                                *)

\* The channel's view of the registers.
View == <<Outbox, Inbox, Address, Closed, Failed>>

LEMMA ViewUnchanged ==
  ASSUME UNCHANGED <<commctl, commxmit, commrecv>>
  PROVE  UNCHANGED View
  BY DEF View, Outbox, Inbox, Address, Closed, Failed, Full

LEMMA FullOutbox ==
  ASSUME CommTypeOK, NEW i \in MPE
  PROVE  /\ Full(i) => Outbox[i] = commxmit[i] /\ Outbox[i] # NoPacket
         /\ ~Full(i) => Outbox[i] = NoPacket
  BY CommBusAssumption DEF CommTypeOK, Outbox

LEMMA AcceptsReceives ==
  ASSUME CommTypeOK, NEW t \in MPE
  PROVE  Channel!Accepts(t) <=> CanReceive(t)
<1>1. commctl[t] \in CommCtl /\ commrecv[t] \in Packet
  BY DEF CommTypeOK
<1>2. [from |-> commctl[t].sourceId, packet |-> commrecv[t]] # NoPacket
  <2>1. commctl[t].sourceId \in MPE
    BY <1>1 DEF CommCtl
  <2>2. [from |-> commctl[t].sourceId, packet |-> commrecv[t]]
          \in [from : MPE, packet : Packet]
    BY <1>1, <2>1
  <2>3. QED
    BY <2>2, CommBusAssumption
<1>3. Inbox[t] = NoPacket <=> ~commctl[t].recvFull
  BY <1>1, <1>2 DEF Inbox, CommCtl
<1>4. t \in Closed <=> commctl[t].recvDisable
  BY DEF Closed
<1>5. QED
  BY <1>3, <1>4 DEF Channel!Accepts, CanReceive

-----------------------------------------------------------------------------
(* The bus controller.                                                     *)

LEMMA DeliverStep ==
  ASSUME CommTypeOK, NEW i \in MPE, Full(i), Deliver(i), UNCHANGED commxmit
  PROVE  Channel!Deliver(i)
<1> DEFINE t == commctl[i].target
<1>1. t \in MPE /\ CanReceive(t)
  BY DEF Deliver
<1>2. commctl' = [commctl EXCEPT ![i].xmitFull = FALSE,
                                 ![t].recvFull = TRUE, ![t].sourceId = i]
  BY DEF Deliver
<1>3. commrecv' = [commrecv EXCEPT ![t] = commxmit[i]]
  BY DEF Deliver
<1>4. Address[i] = t
  BY DEF Address
<1> HIDE DEF t
<1>5. ASSUME NEW k \in MPE
      PROVE  /\ commctl'[k].xmitFull =
                  IF k = i THEN FALSE ELSE commctl[k].xmitFull
             /\ commctl'[k].recvFull =
                  IF k = t THEN TRUE ELSE commctl[k].recvFull
             /\ commctl'[k].sourceId =
                  IF k = t THEN i ELSE commctl[k].sourceId
             /\ commctl'[k].target = commctl[k].target
             /\ commctl'[k].recvDisable = commctl[k].recvDisable
             /\ commctl'[k].xmitFailed = commctl[k].xmitFailed
  <2>1. commctl \in [MPE -> CommCtl]
    BY DEF CommTypeOK
  <2>2. CASE k = i /\ k = t
    BY <1>1, <1>2, <2>1, <2>2 DEF CommCtl
  <2>3. CASE k = i /\ k # t
    <3>1. commctl'[k] = [commctl[k] EXCEPT !.xmitFull = FALSE]
      BY <1>1, <1>2, <2>1, <2>3
    <3>2. QED
      BY <2>1, <2>3, <3>1 DEF CommCtl
  <2>4. CASE k # i /\ k = t
    BY <1>1, <1>2, <2>1, <2>4 DEF CommCtl
  <2>5. CASE k # i /\ k # t
    BY <1>1, <1>2, <2>1, <2>5 DEF CommCtl
  <2>6. QED
    BY <2>2, <2>3, <2>4, <2>5
<1>6. commrecv \in [MPE -> Packet]
  BY DEF CommTypeOK
<1>7. Outbox' = [Outbox EXCEPT ![i] = NoPacket]
  BY <1>5 DEF Outbox, Full
<1>8. Outbox[i] = commxmit[i] /\ Outbox[i] # NoPacket
  BY FullOutbox
<1>9. Inbox' = [Inbox EXCEPT ![t] = [from |-> i, packet |-> Outbox[i]]]
  BY <1>1, <1>3, <1>5, <1>6, <1>8 DEF Inbox
<1>10. Address' = Address /\ Closed' = Closed /\ Failed' = Failed
  BY <1>5 DEF Address, Closed, Failed
<1>11. QED
  BY <1>1, <1>4, <1>7, <1>8, <1>9, <1>10, AcceptsReceives
     DEF Channel!Deliver

LEMMA FailStep ==
  ASSUME CommTypeOK, NEW i \in MPE, Full(i), Fail(i), UNCHANGED commxmit
  PROVE  Channel!Drop(i)
<1>1. commctl' = [commctl EXCEPT ![i].xmitFailed = TRUE,
                                 ![i].xmitFull = FALSE]
  BY DEF Fail
<1>2. ASSUME NEW k \in MPE
      PROVE  /\ commctl'[k].xmitFull =
                  IF k = i THEN FALSE ELSE commctl[k].xmitFull
             /\ commctl'[k].xmitFailed =
                  IF k = i THEN TRUE ELSE commctl[k].xmitFailed
             /\ commctl'[k].recvFull = commctl[k].recvFull
             /\ commctl'[k].sourceId = commctl[k].sourceId
             /\ commctl'[k].target = commctl[k].target
             /\ commctl'[k].recvDisable = commctl[k].recvDisable
  <2>1. commctl \in [MPE -> CommCtl]
    BY DEF CommTypeOK
  <2>2. CASE k = i
    BY <1>1, <2>1, <2>2 DEF CommCtl
  <2>3. CASE k # i
    BY <1>1, <2>1, <2>3 DEF CommCtl
  <2>4. QED
    BY <2>2, <2>3
<1>3. Outbox' = [Outbox EXCEPT ![i] = NoPacket]
  BY <1>2 DEF Outbox, Full
<1>4. Inbox' = Inbox /\ Address' = Address /\ Closed' = Closed
  BY <1>2, ZenonT(60) DEF Inbox, Address, Closed, Fail
<1>5. Failed' = Failed \union {i}
  BY <1>2 DEF Failed
<1>6. Address[i] \in MPE /\ ~CanReceive(Address[i])
  BY DEF Fail, Address
<1>7. Outbox[i] # NoPacket
  BY FullOutbox
<1>8. QED
  BY <1>3, <1>4, <1>5, <1>6, <1>7, AcceptsReceives DEF Channel!Drop

LEMMA ToDeviceStep ==
  ASSUME CommTypeOK, NEW i \in MPE, Full(i), ToDevice(i), UNCHANGED commxmit
  PROVE  Channel!Absorb(i)
<1>1. commctl' = [commctl EXCEPT ![i].xmitFull = FALSE]
  BY DEF ToDevice
<1>2. ASSUME NEW k \in MPE
      PROVE  /\ commctl'[k].xmitFull =
                  IF k = i THEN FALSE ELSE commctl[k].xmitFull
             /\ commctl'[k].xmitFailed = commctl[k].xmitFailed
             /\ commctl'[k].recvFull = commctl[k].recvFull
             /\ commctl'[k].sourceId = commctl[k].sourceId
             /\ commctl'[k].target = commctl[k].target
             /\ commctl'[k].recvDisable = commctl[k].recvDisable
  BY <1>1 DEF CommTypeOK, CommCtl
<1>3. Outbox' = [Outbox EXCEPT ![i] = NoPacket]
  BY <1>2 DEF Outbox, Full
<1>4. Inbox' = Inbox /\ Address' = Address /\ Closed' = Closed
      /\ Failed' = Failed
  BY <1>2 DEF Inbox, Address, Closed, Failed, ToDevice
<1>5. Address[i] \notin MPE
  BY DEF ToDevice, Address
<1>6. Outbox[i] # NoPacket
  BY FullOutbox
<1>7. QED
  BY <1>3, <1>4, <1>5, <1>6 DEF Channel!Absorb

-----------------------------------------------------------------------------
(* Packets that access the comm registers.                                 *)

LEMMA ConfigureStep ==
  ASSUME CommTypeOK, NEW i \in MPE, WriteCommctl(i)
  PROVE  Channel!Configure(i)
<1>1. PICK w \in CtlWords :
        commctl' = [commctl EXCEPT ![i].recvDisable = w.recvDisable,
                                   ![i].retry = w.retry,
                                   ![i].lock = w.lock,
                                   ![i].target = w.target]
  BY DEF WriteCommctl
<1>2. w.recvDisable \in BOOLEAN /\ w.target \in Target
  BY CommBusAssumption DEF CtlWord
<1>3. ASSUME NEW k \in MPE
      PROVE  /\ commctl'[k].target =
                  IF k = i THEN w.target ELSE commctl[k].target
             /\ commctl'[k].recvDisable =
                  IF k = i THEN w.recvDisable ELSE commctl[k].recvDisable
             /\ commctl'[k].xmitFull = commctl[k].xmitFull
             /\ commctl'[k].xmitFailed = commctl[k].xmitFailed
             /\ commctl'[k].recvFull = commctl[k].recvFull
             /\ commctl'[k].sourceId = commctl[k].sourceId
  <2>1. commctl \in [MPE -> CommCtl]
    BY DEF CommTypeOK
  <2>2. CASE k = i
    BY <1>1, <2>1, <2>2 DEF CommCtl
  <2>3. CASE k # i
    BY <1>1, <2>1, <2>3 DEF CommCtl
  <2>4. QED
    BY <2>2, <2>3
<1>4. Outbox' = Outbox /\ Inbox' = Inbox /\ Failed' = Failed
  BY <1>3 DEF Outbox, Inbox, Failed, Full, WriteCommctl
<1>5. Address' = [Address EXCEPT ![i] = w.target]
  BY <1>3 DEF Address
<1>6. Closed' \in {Closed \union {i}, Closed \ {i}}
  <2>1. CASE w.recvDisable = TRUE
    BY <1>3, <2>1 DEF Closed
  <2>2. CASE w.recvDisable = FALSE
    BY <1>3, <2>2 DEF Closed
  <2>3. QED
    BY <1>2, <2>1, <2>2
<1>7. QED
  BY <1>2, <1>4, <1>5, <1>6 DEF Channel!Configure

\* The words of a packet change only while it is not on its way.
LEMMA XmitStep ==
  ASSUME CommTypeOK, Polls, NEW i \in MPE, WriteCommxmit(i)
  PROVE  UNCHANGED View
<1>1. ~Full(i)
  BY DEF WriteCommxmit, MayWriteXmit
<1>2. \A k \in MPE : k # i => commxmit'[k] = commxmit[k]
  BY DEF WriteCommxmit, CommTypeOK
<1>3. UNCHANGED <<commctl, commrecv>>
  BY DEF WriteCommxmit
<1>4. Outbox' = Outbox
  BY <1>1, <1>2, <1>3 DEF Outbox, Full
<1>5. QED
  BY <1>3, <1>4 DEF View, Inbox, Address, Closed, Failed

LEMMA SendStep ==
  ASSUME CommTypeOK, Polls, NEW i \in MPE, WriteCommxmit3(i)
  PROVE  \E p \in Packet : Channel!Send(i, p)
<1>1. PICK p \in Packet : commxmit' = [commxmit EXCEPT ![i] = p]
  BY DEF WriteCommxmit3
<1>2. commctl' = [commctl EXCEPT ![i].xmitFailed = FALSE,
                                 ![i].xmitFull = TRUE]
  BY DEF WriteCommxmit3
<1>3. ASSUME NEW k \in MPE
      PROVE  /\ commctl'[k].xmitFull =
                  IF k = i THEN TRUE ELSE commctl[k].xmitFull
             /\ commctl'[k].xmitFailed =
                  IF k = i THEN FALSE ELSE commctl[k].xmitFailed
             /\ commctl'[k].recvFull = commctl[k].recvFull
             /\ commctl'[k].sourceId = commctl[k].sourceId
             /\ commctl'[k].target = commctl[k].target
             /\ commctl'[k].recvDisable = commctl[k].recvDisable
  <2>1. commctl \in [MPE -> CommCtl]
    BY DEF CommTypeOK
  <2>2. CASE k = i
    BY <1>2, <2>1, <2>2 DEF CommCtl
  <2>3. CASE k # i
    BY <1>2, <2>1, <2>3 DEF CommCtl
  <2>4. QED
    BY <2>2, <2>3
<1>4. commxmit \in [MPE -> Packet]
  BY DEF CommTypeOK
<1>5. Outbox' = [Outbox EXCEPT ![i] = p]
  BY <1>1, <1>3, <1>4 DEF Outbox, Full
<1>6. Failed' = Failed \ {i}
  BY <1>3 DEF Failed
<1>7. Inbox' = Inbox /\ Address' = Address /\ Closed' = Closed
  <2>1. commrecv' = commrecv
    BY DEF WriteCommxmit3
  <2>2. QED
    BY <1>3, <2>1 DEF Inbox, Address, Closed
<1>8. Outbox[i] = NoPacket
  BY FullOutbox DEF WriteCommxmit3, MayWriteXmit
<1>9. QED
  BY <1>5, <1>6, <1>7, <1>8 DEF Channel!Send

LEMMA ReceiveStep ==
  ASSUME CommTypeOK, NEW i \in MPE, ReadCommrecv3(i)
  PROVE  Channel!Receive(i)
<1>1. commctl' = [commctl EXCEPT ![i].recvFull = FALSE]
  BY DEF ReadCommrecv3
<1>2. ASSUME NEW k \in MPE
      PROVE  /\ commctl'[k].recvFull =
                  IF k = i THEN FALSE ELSE commctl[k].recvFull
             /\ commctl'[k].sourceId = commctl[k].sourceId
             /\ commctl'[k].xmitFull = commctl[k].xmitFull
             /\ commctl'[k].xmitFailed = commctl[k].xmitFailed
             /\ commctl'[k].target = commctl[k].target
             /\ commctl'[k].recvDisable = commctl[k].recvDisable
  BY <1>1 DEF CommTypeOK, CommCtl
<1>3. Inbox' = [Inbox EXCEPT ![i] = NoPacket]
  BY <1>2, ZenonT(60) DEF Inbox, ReadCommrecv3
<1>4. Outbox' = Outbox /\ Address' = Address /\ Closed' = Closed
      /\ Failed' = Failed
  BY <1>2 DEF Outbox, Address, Closed, Failed, Full, ReadCommrecv3
<1>5. QED
  BY <1>3, <1>4 DEF Channel!Receive

-----------------------------------------------------------------------------
(* Resets.                                                                 *)

LEMMA ResetStep ==
  ASSUME NEW R \in SUBSET MPE, ResetComm(R)
  PROVE  Channel!Reset(R)
<1>1. \A k \in MPE :
        commctl'[k] = IF k \in R THEN CommReset ELSE commctl[k]
  BY DEF ResetComm
<1>2. \A k \in MPE : k \notin R => /\ commxmit'[k] = commxmit[k]
                                 /\ commrecv'[k] = commrecv[k]
  BY DEF ResetComm
<1>3. Outbox' = [k \in MPE |-> IF k \in R THEN NoPacket ELSE Outbox[k]]
  BY <1>1, <1>2 DEF Outbox, Full, CommReset
<1>4. Inbox' = [k \in MPE |-> IF k \in R THEN NoPacket ELSE Inbox[k]]
  BY <1>1, <1>2 DEF Inbox, CommReset
<1>5. Address' = [k \in MPE |-> IF k \in R THEN 0 ELSE Address[k]]
  BY <1>1 DEF Address, CommReset
<1>6. Closed' = Closed \ R /\ Failed' = Failed \ R
  BY <1>1 DEF Closed, Failed, CommReset
<1>7. 0 \in Target
  BY Numbers
<1>8. QED
  BY <1>3, <1>4, <1>5, <1>6, <1>7 DEF Channel!Reset

-----------------------------------------------------------------------------
(* When senders poll, the registers implement the abstract channel: every  *)
(* packet is delivered whole, taken by a device, or dropped with its       *)
(* sender told, exactly once, whatever the arbitration, the retries, the   *)
(* locks and the resets.                                                   *)
THEOREM ChannelImplemented == ASSUME Polls PROVE Spec => ImplementsChannel
<1>1. Init => Channel!ChannelInit
  <2> SUFFICES ASSUME Init PROVE Channel!ChannelInit
    OBVIOUS
  <2>1. \A k \in MPE : commctl[k] = CommReset
    BY DEF Init
  <2>2. Outbox = [k \in MPE |-> NoPacket] /\ Inbox = [k \in MPE |-> NoPacket]
    BY <2>1 DEF Outbox, Inbox, Full, CommReset
  <2>3. Address = [k \in MPE |-> 0] /\ Closed = {} /\ Failed = {}
    BY <2>1 DEF Address, Closed, Failed, CommReset
  <2>4. QED
    BY <2>2, <2>3, Numbers DEF Channel!ChannelInit
<1>2. CommTypeOK /\ [Next]_vars => [Channel!ChannelNext]_(Channel!cvars)
  <2> SUFFICES ASSUME CommTypeOK, [Next]_vars
               PROVE  Channel!ChannelNext \/ UNCHANGED View
    BY DEF View, Channel!cvars
  <2>1. ASSUME UNCHANGED <<commctl, commxmit, commrecv>>
        PROVE  UNCHANGED View
    BY <2>1, ViewUnchanged
  <2>2. CASE DoCommBusController
    <3>1. PICK i \in MPE :
            /\ Full(i)
            /\ Deliver(i) \/ RetryLater(i) \/ Fail(i) \/ ToDevice(i)
      BY <2>2 DEF DoCommBusController, Selected
    <3>2. UNCHANGED commxmit
      BY <2>2 DEF DoCommBusController
    <3>3. CASE RetryLater(i)
      BY <2>1, <3>2, <3>3 DEF RetryLater
    <3>4. QED
      BY <3>1, <3>2, <3>3, DeliverStep, FailStep, ToDeviceStep
         DEF Channel!ChannelNext
  <2>3. ASSUME NEW i \in MPE, CommProgram(i)
        PROVE  Channel!ChannelNext \/ UNCHANGED View
    <3>1. CASE WriteCommctl(i)
      BY <3>1, ConfigureStep DEF Channel!ChannelNext
    <3>2. CASE WriteCommxmit(i)
      BY <3>2, XmitStep
    <3>3. CASE WriteCommxmit3(i)
      BY <3>3, SendStep DEF Channel!ChannelNext
    <3>4. CASE ReadCommrecv3(i)
      BY <3>4, ReceiveStep DEF Channel!ChannelNext
    <3>5. CASE WriteComminfo(i) \/ TakeQueued(i) \/ WaitForCommPacket(i)
      BY <2>1, <3>5
         DEF WriteComminfo, TakeQueued, WaitForCommPacket, commVars
    <3>6. QED
      BY <2>3, <3>1, <3>2, <3>3, <3>4, <3>5 DEF CommProgram
  <2>4. CASE \E j, i \in MPE : ResetMpe(j, i)
    <3>1. PICK i \in MPE : ResetComm({i})
      BY <2>4 DEF ResetMpe
    <3>2. {i} \in SUBSET MPE
      OBVIOUS
    <3>3. QED
      BY <3>1, <3>2, ResetStep DEF Channel!ChannelNext
  <2>5. CASE ResetForReload
    <3>1. ResetComm(MPE) /\ MPE \in SUBSET MPE
      BY <2>5 DEF ResetForReload
    <3>2. QED
      BY <3>1, ResetStep DEF Channel!ChannelNext
  <2>6. CASE UNCHANGED commVars
    BY <2>1, <2>6 DEF commVars
  <2>7. QED
    BY <2>2, <2>3, <2>4, <2>5, <2>6 DEF Next, vars
<1>3. QED
  BY <1>1, <1>2, CommTypeInvariant, PTL
     DEF Spec, ImplementsChannel, Channel!ChannelSpec
=============================================================================
