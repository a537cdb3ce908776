------------------------- MODULE Interrupts_proofs -------------------------
(***************************************************************************)
(* Proofs about the interrupt unit, for every set of MPEs and sources and  *)
(* every program.                                                          *)
(***************************************************************************)
EXTENDS Interrupts, TLAPS

USE DEF InterruptsConstants

-----------------------------------------------------------------------------
(* Register transformers keep registers well typed.                        *)

LEMMA WokenType ==
  ASSUME NEW m \in MpeRegisters
  PROVE  Woken(m) \in MpeRegisters
BY DEF Woken, MpeRegisters

LEMMA TriggeredType ==
  ASSUME NEW m \in MpeRegisters, NEW which \in SUBSET Source
  PROVE  Triggered(m, which) \in MpeRegisters
<1>1. [m EXCEPT !.intsrc = @ \union which] \in MpeRegisters
  BY DEF MpeRegisters
<1>2. QED
  BY <1>1, WokenType DEF Triggered

LEMMA ServicedType ==
  ASSUME NEW m \in MpeRegisters
  PROVE  Serviced(m) \in MpeRegisters
<1>1. [m EXCEPT !.rzi2 = m.pcexec, !.pcexec = "isr2",
                !.intctl = @ \union {"imaskHw2"}] \in MpeRegisters
  BY DEF MpeRegisters, Routine, MaskBit
<1>2. [m EXCEPT !.rzi1 = m.pcexec, !.pcexec = "isr1",
                !.intctl = @ \union {"imaskHw1"}] \in MpeRegisters
  BY DEF MpeRegisters, Routine, MaskBit
<1>3. CASE TakesLevel2(m)
  BY <1>1, <1>3 DEF Serviced, TakesLevel1, TakesLevel2
<1>4. CASE ~TakesLevel2(m) /\ TakesLevel1(m)
  BY <1>2, <1>4 DEF Serviced
<1>5. CASE ~TakesLevel2(m) /\ ~TakesLevel1(m)
  BY <1>5 DEF Serviced
<1>6. QED
  BY <1>3, <1>4, <1>5

LEMMA RetiredType ==
  ASSUME NEW m \in MpeRegisters
  PROVE  Retired(m) \in MpeRegisters
<1>1. CASE m.ecuSkip = 0
  BY <1>1 DEF Retired
<1>2. CASE m.ecuSkip # 0
  <2>1. m.ecuSkip - 1 \in 0 .. 3
    BY <1>2 DEF MpeRegisters
  <2>2. (IF m.ecuSkip = 1 THEN m.pcfetchnext ELSE m.pcexec) \in Routine
    BY DEF MpeRegisters
  <2>3. QED
    BY <1>2, <2>1, <2>2 DEF Retired, MpeRegisters
<1>3. QED
  BY <1>1, <1>2
-----------------------------------------------------------------------------
(* Register transformers keep the handlers nested.                         *)

\* Delay slots that user code runs lead back to user code: with it, the
\* nesting of the handlers is inductive.
UserStays(m) == m.ecuSkip > 0 /\ m.pcexec = "user" => m.pcfetchnext = "user"

Orderly(m) == m \in MpeRegisters /\ Nested(m) /\ UserStays(m)

LEMMA RetiredOrderly ==
  ASSUME NEW m, Orderly(m)
  PROVE  Orderly(Retired(m))
<1>1. Retired(m) \in MpeRegisters
  BY RetiredType DEF Orderly
<1>2. CASE m.ecuSkip = 0
  BY <1>2 DEF Retired
<1>3. CASE m.ecuSkip # 0
  <2>1. m \in MpeRegisters
    BY DEF Orderly
  <2>2. /\ Retired(m).ecuSkip = m.ecuSkip - 1
        /\ Retired(m).pcexec = IF m.ecuSkip = 1 THEN m.pcfetchnext
                                               ELSE m.pcexec
        /\ Retired(m).pcfetchnext = m.pcfetchnext
        /\ Retired(m).intctl = m.intctl
        /\ Retired(m).rzi1 = m.rzi1 /\ Retired(m).rzi2 = m.rzi2
    BY <1>3, <2>1 DEF Retired, MpeRegisters
  <2>3. m.ecuSkip \in 1 .. 3
    BY <1>3, <2>1 DEF MpeRegisters
  <2>4. Destination(Retired(m)) = Destination(m)
    BY <2>2, <2>3 DEF Destination
  <2>5. QED
    BY <1>1, <2>2, <2>3, <2>4 DEF Orderly, Nested, UserStays
<1>4. QED
  BY <1>2, <1>3

\* What keeps the fields the nesting depends on, keeps the nesting.
LEMMA SameRoutine ==
  ASSUME NEW m, Orderly(m), NEW n \in MpeRegisters,
         n.ecuSkip = m.ecuSkip, n.pcexec = m.pcexec,
         n.pcfetchnext = m.pcfetchnext, n.rzi1 = m.rzi1, n.rzi2 = m.rzi2,
         "imaskHw1" \in n.intctl <=> "imaskHw1" \in m.intctl,
         "imaskHw2" \in n.intctl <=> "imaskHw2" \in m.intctl
  PROVE  Orderly(n)
BY DEF Orderly, Nested, UserStays, Destination

LEMMA TriggeredOrderly ==
  ASSUME NEW m, Orderly(m), NEW which \in SUBSET Source
  PROVE  Orderly(Triggered(m, which))
<1>1. Triggered(m, which) \in MpeRegisters
  BY TriggeredType DEF Orderly
<1>2. LET n == Triggered(m, which)
      IN /\ n.ecuSkip = m.ecuSkip /\ n.pcexec = m.pcexec
         /\ n.pcfetchnext = m.pcfetchnext
         /\ n.rzi1 = m.rzi1 /\ n.rzi2 = m.rzi2 /\ n.intctl = m.intctl
  BY DEF Triggered, Woken, Orderly, MpeRegisters
<1>3. QED
  BY <1>1, <1>2, SameRoutine

LEMMA ServicedOrderly ==
  ASSUME NEW m, Orderly(m)
  PROVE  Orderly(Serviced(m))
<1>1. m \in MpeRegisters /\ Serviced(m) \in MpeRegisters
  BY ServicedType DEF Orderly
<1>2. CASE TakesLevel2(m)
  <2>1. LET n == Serviced(m)
        IN /\ n.rzi2 = m.pcexec /\ n.pcexec = "isr2" /\ n.ecuSkip = 0
           /\ n.intctl = m.intctl \union {"imaskHw2"} /\ n.rzi1 = m.rzi1
    BY <1>1, <1>2 DEF Serviced, TakesLevel1, TakesLevel2, MpeRegisters
  <2>2. m.ecuSkip = 0 /\ "imaskHw2" \notin m.intctl
    BY <1>2 DEF TakesLevel2
  <2>3. QED
    BY <1>1, <2>1, <2>2 DEF Orderly, Nested, UserStays, Destination
<1>3. CASE ~TakesLevel2(m) /\ TakesLevel1(m)
  <2>1. LET n == Serviced(m)
        IN /\ n.rzi1 = m.pcexec /\ n.pcexec = "isr1" /\ n.ecuSkip = 0
           /\ n.intctl = m.intctl \union {"imaskHw1"} /\ n.rzi2 = m.rzi2
    BY <1>1, <1>3 DEF Serviced, TakesLevel1, MpeRegisters
  <2>2. /\ m.ecuSkip = 0
        /\ "imaskHw2" \notin m.intctl /\ "imaskHw1" \notin m.intctl
    BY <1>3 DEF TakesLevel1
  <2>3. m.pcexec = "user"
    BY <1>1, <2>2 DEF Orderly, Nested, Destination, MpeRegisters, Routine
  <2>4. QED
    BY <1>1, <2>1, <2>2, <2>3 DEF Orderly, Nested, UserStays, Destination
<1>4. CASE ~TakesLevel2(m) /\ ~TakesLevel1(m)
  BY <1>4 DEF Serviced
<1>5. QED
  BY <1>2, <1>3, <1>4
-----------------------------------------------------------------------------
(* Every step keeps the registers orderly.                                 *)

OrderlyInv ==
  /\ \A i \in MPE : Orderly(mpe[i])
  /\ mpe \in [MPE -> MpeRegisters]
  /\ schedule_intsrc \in SUBSET Source
  /\ sleeping \in SUBSET MPE

LEMMA NowOrderly ==
  ASSUME OrderlyInv, NEW i \in MPE
  PROVE  Orderly(Now(i)) /\ Now(i) \in MpeRegisters
BY ServicedOrderly DEF OrderlyInv, Now, Orderly

LEMMA RunsOrderly ==
  ASSUME OrderlyInv, NEW i \in MPE, NEW m, Orderly(m), Runs(i, m),
         sleeping' \in SUBSET MPE
  PROVE  OrderlyInv'
<1>1. Orderly(Retired(m)) /\ Retired(m) \in MpeRegisters
  BY RetiredOrderly DEF Orderly
<1>2. QED
  BY <1>1 DEF Runs, OrderlyInv

LEMMA ChangesOrderly ==
  ASSUME OrderlyInv, NEW i \in MPE, NEW j \in MPE, NEW m, Orderly(m),
         Changes(j, i, m), sleeping' \in SUBSET MPE
  PROVE  OrderlyInv'
<1>1. Orderly(Retired(Now(j))) /\ Retired(Now(j)) \in MpeRegisters
  BY NowOrderly, RetiredOrderly DEF Orderly
<1>2. m \in MpeRegisters /\ i # j
  BY DEF Orderly, Changes
<1>3. QED
  BY <1>1, <1>2 DEF Changes, OrderlyInv

\* A branch taken outside delay slots, to the routine the mask bits name.
LEMMA BranchedOrderly ==
  ASSUME NEW m \in MpeRegisters, NEW n \in DelaySlots,
         NEW target \in Routine, NEW ctl \in SUBSET MaskBit,
         m.pcexec = "user" => target = "user",
         Nested([m EXCEPT !.intctl = ctl, !.pcexec = target, !.ecuSkip = 0])
  PROVE  Orderly(Branched([m EXCEPT !.intctl = ctl], target, n))
<1> DEFINE b == Branched([m EXCEPT !.intctl = ctl], target, n)
           a == [m EXCEPT !.intctl = ctl, !.pcexec = target, !.ecuSkip = 0]
<1>1. n \in 1 .. 3 /\ n \in 0 .. 3
  BY InterruptsAssumption
<1>2. /\ b.pcexec = m.pcexec /\ b.pcfetchnext = target /\ b.ecuSkip = n
      /\ b.intctl = ctl /\ b.rzi1 = m.rzi1 /\ b.rzi2 = m.rzi2
  BY DEF Branched, MpeRegisters
<1>3. b \in MpeRegisters
  <2>1. [m EXCEPT !.intctl = ctl] \in MpeRegisters
    BY DEF MpeRegisters
  <2>2. QED
    BY <1>1, <2>1 DEF Branched, MpeRegisters
<1>4. /\ a.pcexec = target /\ a.ecuSkip = 0 /\ a.intctl = ctl
      /\ a.rzi1 = m.rzi1 /\ a.rzi2 = m.rzi2
  BY DEF MpeRegisters
<1>5. Nested(b)
  BY <1>1, <1>2, <1>4 DEF Nested, Destination
<1>6. QED
  BY <1>2, <1>3, <1>5 DEF Orderly, UserStays

LEMMA WaitingOrderly ==
  ASSUME NEW m, Orderly(m), m.pcexec = "user", NEW mask \in SUBSET Source
  PROVE  Orderly(Waiting(m, mask))
<1>1. m \in MpeRegisters
  BY DEF Orderly
<1>2. Waiting(m, mask) \in MpeRegisters
  BY <1>1 DEF Waiting, MpeRegisters
<1>3. LET n == Waiting(m, mask)
      IN /\ n.intctl = {} /\ n.pcexec = "user" /\ n.ecuSkip = m.ecuSkip
         /\ n.pcfetchnext = m.pcfetchnext
  BY <1>1 DEF Waiting, MpeRegisters
<1>4. m.ecuSkip > 0 => m.pcfetchnext = "user"
  BY DEF Orderly, UserStays
<1>5. QED
  BY <1>2, <1>3, <1>4 DEF Orderly, Nested, UserStays, Destination

LEMMA EnabledType ==
  ASSUME NEW m \in MpeRegisters
  PROVE  Enabled(m) \in SUBSET Source
BY DEF Enabled, MpeRegisters

LEMMA ProgramOrderly ==
  ASSUME OrderlyInv, NEW i \in MPE, Program(i) \/ WaitForCommPacket(i)
  PROVE  OrderlyInv'
<1> DEFINE m == Now(i)
<1>1. Orderly(m) /\ m \in MpeRegisters
  BY NowOrderly
<1>2. sleeping' \in SUBSET MPE
  BY DEF Program, Plain, TakenBranch, Rti1, Rti2, WriteIntclr, WriteIntsrc,
         WriteInten1, WriteInten2sel, WriteIntctl, WaitForInterrupt, Halt,
         WaitForCommPacket, OrderlyInv
<1>3. ASSUME NEW n, Orderly(n), Runs(i, n) PROVE OrderlyInv'
  BY <1>2, <1>3, RunsOrderly
<1> HIDE DEF m
<1>4. CASE Plain(i)
  BY <1>1, <1>3, <1>4 DEF Plain, m
<1>5. CASE TakenBranch(i)
  <2>1. PICK n \in DelaySlots : Runs(i, Branched(m, m.pcexec, n))
    BY <1>5 DEF TakenBranch, m
  <2>2. m.ecuSkip = 0
    BY <1>5 DEF TakenBranch, m
  <2>3. /\ [m EXCEPT !.intctl = m.intctl] = m
        /\ [m EXCEPT !.intctl = m.intctl, !.pcexec = m.pcexec,
                     !.ecuSkip = 0] = m
        /\ m.pcexec \in Routine /\ m.intctl \in SUBSET MaskBit
    BY <1>1, <2>2 DEF MpeRegisters
  <2>4. Nested(m)
    BY <1>1 DEF Orderly
  <2>5. Orderly(Branched([m EXCEPT !.intctl = m.intctl], m.pcexec, n))
    BY <1>1, <2>3, <2>4, BranchedOrderly
  <2>6. QED
    BY <1>3, <2>1, <2>3, <2>5
<1>6. CASE Rti1(i)
  <2> DEFINE ctl == m.intctl \ {"imaskHw1"}
  <2>1. PICK n \in DelaySlots :
          Runs(i, Branched([m EXCEPT !.intctl = ctl], m.rzi1, n))
    BY <1>6 DEF Rti1, m
  <2>2. m.pcexec = "isr1" /\ m.ecuSkip = 0
    BY <1>6 DEF Rti1, m
  <2>3. /\ "imaskHw1" \in m.intctl /\ "imaskHw2" \notin m.intctl
        /\ m.rzi1 = "user" /\ ctl \in SUBSET MaskBit
    BY <1>1, <2>2 DEF Orderly, Nested, Destination, MpeRegisters
  <2>4. LET a == [m EXCEPT !.intctl = ctl, !.pcexec = m.rzi1, !.ecuSkip = 0]
        IN a.pcexec = "user" /\ a.ecuSkip = 0 /\ a.intctl = ctl
    BY <1>1, <2>3 DEF MpeRegisters
  <2>5. Nested([m EXCEPT !.intctl = ctl, !.pcexec = m.rzi1, !.ecuSkip = 0])
    BY <2>3, <2>4 DEF Nested, Destination
  <2>6. m.rzi1 \in Routine
    BY <2>3 DEF Routine
  <2>7. Orderly(Branched([m EXCEPT !.intctl = ctl], m.rzi1, n))
    BY <1>1, <2>2, <2>3, <2>5, <2>6, BranchedOrderly
  <2>8. QED
    BY <1>3, <2>1, <2>7
<1>7. CASE Rti2(i)
  <2> DEFINE ctl == m.intctl \ {"imaskHw2"}
  <2>1. PICK n \in DelaySlots :
          Runs(i, Branched([m EXCEPT !.intctl = ctl], m.rzi2, n))
    BY <1>7 DEF Rti2, m
  <2>2. m.pcexec = "isr2" /\ m.ecuSkip = 0
    BY <1>7 DEF Rti2, m
  <2>3. /\ m.rzi2 \in {"user", "isr1"} /\ ctl \in SUBSET MaskBit
        /\ "imaskHw1" \in m.intctl <=> m.rzi2 = "isr1"
        /\ "imaskHw1" \in m.intctl => m.rzi1 = "user"
    BY <1>1, <2>2 DEF Orderly, Nested, Destination, MpeRegisters, Routine
  <2>4. LET a == [m EXCEPT !.intctl = ctl, !.pcexec = m.rzi2, !.ecuSkip = 0]
        IN /\ a.pcexec = m.rzi2 /\ a.ecuSkip = 0 /\ a.intctl = ctl
           /\ a.rzi1 = m.rzi1 /\ a.rzi2 = m.rzi2
    BY <1>1 DEF MpeRegisters
  <2>5. Nested([m EXCEPT !.intctl = ctl, !.pcexec = m.rzi2, !.ecuSkip = 0])
    BY <2>3, <2>4 DEF Nested, Destination
  <2>6. m.rzi2 \in Routine
    BY <2>3 DEF Routine
  <2>7. Orderly(Branched([m EXCEPT !.intctl = ctl], m.rzi2, n))
    BY <1>1, <2>2, <2>5, <2>6, <2>3, BranchedOrderly
  <2>8. QED
    BY <1>3, <2>1, <2>7
<1>8. CASE WriteIntclr(i)
  <2>1. PICK s \in m.intsrc : Runs(i, [m EXCEPT !.intsrc = @ \ {s}])
    BY <1>8 DEF WriteIntclr, m
  <2>2. Orderly([m EXCEPT !.intsrc = @ \ {s}])
    BY <1>1, SameRoutine DEF MpeRegisters
  <2>3. QED
    BY <1>3, <2>1, <2>2
<1>9. CASE WriteIntsrc(i)
  <2>1. PICK s \in Source : Runs(i, Triggered(m, {s}))
    BY <1>9 DEF WriteIntsrc, m
  <2>2. Orderly(Triggered(m, {s}))
    BY <1>1, TriggeredOrderly
  <2>3. QED
    BY <1>3, <2>1, <2>2
<1>10. CASE WriteInten1(i)
  <2>1. PICK mask \in EnableMasks : Runs(i, [m EXCEPT !.inten1 = mask])
    BY <1>10 DEF WriteInten1, m
  <2>2. mask \in SUBSET Source
    BY InterruptsAssumption
  <2>3. Orderly([m EXCEPT !.inten1 = mask])
    BY <1>1, <2>2, SameRoutine DEF MpeRegisters
  <2>4. QED
    BY <1>3, <2>1, <2>3
<1>11. CASE WriteInten2sel(i)
  <2>1. PICK s \in Level2 : Runs(i, [m EXCEPT !.inten2sel = s])
    BY <1>11 DEF WriteInten2sel, m
  <2>2. s \in Source
    BY InterruptsAssumption
  <2>3. Orderly([m EXCEPT !.inten2sel = s])
    BY <1>1, <2>2, SameRoutine DEF MpeRegisters
  <2>4. QED
    BY <1>3, <2>1, <2>3
<1>12. CASE WriteIntctl(i)
  <2>1. PICK b \in {"imaskSw1", "imaskSw2"} :
          \/ Runs(i, [m EXCEPT !.intctl = @ \union {b}])
          \/ Runs(i, [m EXCEPT !.intctl = @ \ {b}])
    BY <1>12 DEF WriteIntctl, m
  <2>2. b \in MaskBit /\ b # "imaskHw1" /\ b # "imaskHw2"
    BY DEF MaskBit
  <2>3. Orderly([m EXCEPT !.intctl = @ \union {b}])
    BY <1>1, <2>2, SameRoutine DEF MpeRegisters
  <2>4. Orderly([m EXCEPT !.intctl = @ \ {b}])
    BY <1>1, <2>2, SameRoutine DEF MpeRegisters
  <2>5. QED
    BY <1>3, <2>1, <2>3, <2>4
<1>13. CASE WaitForInterrupt(i)
  <2>1. m.pcexec = "user"
    BY <1>13 DEF WaitForInterrupt, m
  <2>2. PICK mask \in WaitMasks : Runs(i, Waiting(m, mask)) \/ Runs(i, m)
    BY <1>13 DEF WaitForInterrupt, m
  <2>3. mask \in SUBSET Source
    BY InterruptsAssumption
  <2>4. QED
    BY <1>1, <1>3, <2>1, <2>2, <2>3, WaitingOrderly
<1>14. CASE Halt(i)
  <2>1. Orderly([m EXCEPT !.mpego = FALSE])
    BY <1>1, SameRoutine DEF MpeRegisters
  <2>2. QED
    BY <1>3, <1>14, <2>1 DEF Halt, m
<1>15. CASE WaitForCommPacket(i)
  <2>1. m.pcexec = "user" /\ Runs(i, Waiting(m, Enabled(m)))
    BY <1>15 DEF WaitForCommPacket, m
  <2>2. QED
    BY <1>1, <1>3, <2>1, WaitingOrderly, EnabledType
<1>16. QED
  BY <1>4, <1>5, <1>6, <1>7, <1>8, <1>9, <1>10, <1>11, <1>12, <1>13, <1>14,
     <1>15 DEF Program, Plain

LEMMA RestartedOrderly ==
  ASSUME NEW m \in MpeRegisters
  PROVE  Orderly(Restarted(m))
<1>1. LET n == Restarted(m)
      IN /\ n.intctl = {"imaskSw1", "imaskSw2"}
         /\ n.pcexec = "user" /\ n.ecuSkip = 0
  BY DEF Restarted, MpeRegisters
<1>2. /\ {"imaskSw1", "imaskSw2"} \in SUBSET MaskBit /\ "user" \in Routine
      /\ TRUE \in BOOLEAN /\ 0 \in 0 .. 3
  BY DEF MaskBit, Routine
<1>3. Restarted(m) \in MpeRegisters
  BY <1>2 DEF Restarted, MpeRegisters
<1>4. QED
  BY <1>1, <1>3 DEF Orderly, Nested, UserStays, Destination

LEMMA ResetOrderly ==
  ASSUME NEW m \in MpeRegisters
  PROVE  Orderly(WasReset(m))
<1>1. LET n == WasReset(m)
      IN n.intctl = {} /\ n.pcexec = "user" /\ n.ecuSkip = 0
  BY DEF WasReset, MpeRegisters
<1>2. /\ "user" \in Routine /\ INT_SOFTWARE \in Source
      /\ FALSE \in BOOLEAN /\ 0 \in 0 .. 3
      /\ {} \in SUBSET Source /\ {} \in SUBSET MaskBit
  BY InterruptsAssumption DEF Routine
<1>3. WasReset(m) \in MpeRegisters
  BY <1>2 DEF WasReset, MpeRegisters
<1>4. QED
  BY <1>1, <1>3 DEF Orderly, Nested, UserStays, Destination

\* Both ways of raising interrupts are instances of Raise.
LEMMA RaisesSome ==
  ASSUME OrderlyInv, TriggerInterrupt \/ TriggerScheduledInterrupts
  PROVE  /\ \E which \in [MPE -> SUBSET Source] : Raise(which)
         /\ schedule_intsrc' \in SUBSET Source
<1>1. [i \in MPE |-> schedule_intsrc] \in [MPE -> SUBSET Source]
  BY DEF OrderlyInv
<1>2. QED
  BY <1>1 DEF TriggerInterrupt, TriggerScheduledInterrupts, OrderlyInv

LEMMA RaiseOrderly ==
  ASSUME OrderlyInv, NEW which \in [MPE -> SUBSET Source], Raise(which),
         schedule_intsrc' \in SUBSET Source
  PROVE  OrderlyInv'
<1>1. ASSUME NEW i \in MPE
      PROVE  Orderly(mpe'[i]) /\ mpe'[i] \in MpeRegisters
  BY TriggeredOrderly DEF Raise, OrderlyInv, Orderly
<1>2. mpe' \in [MPE -> MpeRegisters]
  BY <1>1 DEF Raise
<1>3. QED
  BY <1>1, <1>2 DEF Raise, OrderlyInv

\* What another MPE writes into the registers of MPE i leaves them orderly.
LEMMA WritesOrderly ==
  ASSUME OrderlyInv, NEW j \in MPE, NEW i \in MPE, MPEWriteRegister(j, i)
  PROVE  OrderlyInv'
<1> DEFINE m == mpe[i]
<1>1. Orderly(m) /\ m \in MpeRegisters
  BY DEF OrderlyInv
<1>2. sleeping' \in SUBSET MPE
  BY DEF MPEWriteRegister, WritesEnables, WritesIntsrc, WritesIntclr,
         WritesIntctl, OrderlyInv
<1>3. ASSUME NEW n, Orderly(n), Changes(j, i, n) PROVE OrderlyInv'
  BY <1>2, <1>3, ChangesOrderly
<1> HIDE DEF m
<1>4. ASSUME NEW n, Orderly(n) PROVE Orderly(Enabling(i, n))
  <2>1. n \in MpeRegisters
    BY <1>4 DEF Orderly
  <2>2. Enabled(n) \ Enabled(mpe[i]) \in SUBSET Source
    BY <2>1, EnabledType
  <2>3. Enabling(i, n) \in MpeRegisters
    BY <2>1, <2>2 DEF Enabling, MpeRegisters
  <2>4. LET e == Enabling(i, n)
        IN /\ e.ecuSkip = n.ecuSkip /\ e.pcexec = n.pcexec
           /\ e.pcfetchnext = n.pcfetchnext /\ e.rzi1 = n.rzi1
           /\ e.rzi2 = n.rzi2 /\ e.intctl = n.intctl
    BY <2>1 DEF Enabling, MpeRegisters
  <2>5. QED
    BY <1>4, <2>3, <2>4, SameRoutine
<1>5. CASE WritesEnables(j, i)
  <2>1. ASSUME NEW mask \in EnableMasks
        PROVE  Orderly([m EXCEPT !.inten1 = mask])
    <3>1. mask \in SUBSET Source
      BY InterruptsAssumption
    <3>2. QED
      BY <1>1, <3>1, SameRoutine DEF MpeRegisters
  <2>2. ASSUME NEW s \in Level2 PROVE Orderly([m EXCEPT !.inten2sel = s])
    <3>1. s \in Source
      BY InterruptsAssumption
    <3>2. QED
      BY <1>1, <3>1, SameRoutine DEF MpeRegisters
  <2>3. \/ \E mask \in EnableMasks :
             Changes(j, i, Enabling(i, [m EXCEPT !.inten1 = mask]))
        \/ \E s \in Level2 :
             Changes(j, i, Enabling(i, [m EXCEPT !.inten2sel = s]))
    BY <1>5 DEF WritesEnables, m
  <2>4. QED
    BY <1>3, <1>4, <2>1, <2>2, <2>3
<1>6. CASE WritesIntsrc(j, i)
  <2>1. PICK s \in Source : Changes(j, i, Triggered(m, {s}))
    BY <1>6 DEF WritesIntsrc, m
  <2>2. Orderly(Triggered(m, {s}))
    BY <1>1, TriggeredOrderly
  <2>3. QED
    BY <1>3, <2>1, <2>2
<1>7. CASE WritesIntclr(j, i)
  <2>1. PICK s \in m.intsrc : Changes(j, i, [m EXCEPT !.intsrc = @ \ {s}])
    BY <1>7 DEF WritesIntclr, m
  <2>2. Orderly([m EXCEPT !.intsrc = @ \ {s}])
    BY <1>1, SameRoutine DEF MpeRegisters
  <2>3. QED
    BY <1>3, <2>1, <2>2
<1>8. CASE WritesIntctl(j, i)
  <2>1. PICK b \in {"imaskSw1", "imaskSw2"} :
          \/ Changes(j, i, [m EXCEPT !.intctl = @ \union {b}])
          \/ Changes(j, i, [m EXCEPT !.intctl = @ \ {b}])
    BY <1>8 DEF WritesIntctl, m
  <2>2. b \in MaskBit /\ b # "imaskHw1" /\ b # "imaskHw2"
    BY DEF MaskBit
  <2>3. Orderly([m EXCEPT !.intctl = @ \union {b}])
    BY <1>1, <2>2, SameRoutine DEF MpeRegisters
  <2>4. Orderly([m EXCEPT !.intctl = @ \ {b}])
    BY <1>1, <2>2, SameRoutine DEF MpeRegisters
  <2>5. QED
    BY <1>3, <2>1, <2>3, <2>4
<1>9. QED
  BY <1>5, <1>6, <1>7, <1>8 DEF MPEWriteRegister

\* The calls that run, stop or reset MPE i.
StartsOrStops(j, i) ==
  \/ MPERun(j, i) \/ MPERunMedia(j, i) \/ MPERunThread(j, i)
  \/ MPEStop(j, i) \/ ResetMpe(j, i)

LEMMA ControlOrderly ==
  ASSUME OrderlyInv, NEW j \in MPE, NEW i \in MPE, StartsOrStops(j, i)
  PROVE  OrderlyInv'
<1> DEFINE m == mpe[i]
<1>1. Orderly(m) /\ m \in MpeRegisters
  BY DEF OrderlyInv
<1>2. sleeping' \in SUBSET MPE
  BY DEF StartsOrStops, MPERun, MPERunMedia, MPERunThread, MPEStop, ResetMpe,
         OrderlyInv
<1>3. ASSUME NEW n, Orderly(n), Controls(j, i, n) PROVE OrderlyInv'
  BY <1>2, <1>3, ChangesOrderly DEF Controls
<1> HIDE DEF m
<1>4. Orderly(Restarted(m))
  BY <1>1, RestartedOrderly
<1>5. Orderly(ThreadStarted(m))
  <2>1. Restarted(m) \in MpeRegisters
    BY <1>4 DEF Orderly
  <2>2. QED
    BY <1>4, <2>1, SameRoutine DEF ThreadStarted, MpeRegisters
<1>6. Orderly(WasReset(m))
  BY <1>1, ResetOrderly
<1>7. ASSUME NEW go \in BOOLEAN PROVE Orderly([m EXCEPT !.mpego = go])
  BY <1>1, SameRoutine DEF MpeRegisters
<1>8. QED
  BY <1>3, <1>4, <1>5, <1>6, <1>7
     DEF StartsOrStops, MPERun, MPERunMedia, MPERunThread, MPEStop, ResetMpe,
         m

LEMMA OrderlyInvariant == Spec => []OrderlyInv
<1>1. Init => OrderlyInv
  BY InterruptsAssumption
     DEF Init, OrderlyInv, Orderly, Nested, UserStays, Destination,
         MpeRegisters, Routine
<1>2. OrderlyInv /\ [Next]_vars => OrderlyInv'
  <2> SUFFICES ASSUME OrderlyInv, [Next]_vars PROVE OrderlyInv'
    OBVIOUS
  <2>1. CASE \E i \in MPE : Program(i) \/ WaitForCommPacket(i)
    BY <2>1, ProgramOrderly
  <2>2. CASE \E j, i \in MPE : Control(j, i) \/ ResetMpe(j, i)
    BY <2>2, ControlOrderly, WritesOrderly DEF Control, StartsOrStops
  <2>3. CASE ResetForReload
    <3>1. ASSUME NEW i \in MPE PROVE Orderly(Booting(mpe[i], i))
      <4>1. Orderly(WasReset(mpe[i])) /\ WasReset(mpe[i]) \in MpeRegisters
        BY ResetOrderly DEF OrderlyInv, Orderly
      <4>2. /\ (i \in Booted) \in BOOLEAN /\ BootSelect[i] \in Source
            /\ WasReset(mpe[i]) \in MpeRegisters
        BY <4>1, InterruptsAssumption
      <4>3. ASSUME NEW g \in BOOLEAN, NEW s \in Source,
                   NEW m \in MpeRegisters
            PROVE  [m EXCEPT !.mpego = g, !.inten2sel = s] \in MpeRegisters
        BY DEF MpeRegisters
      <4>4. Booting(mpe[i], i) \in MpeRegisters
        BY <4>2, <4>3 DEF Booting
      <4>5. QED
        BY <4>1, <4>4, SameRoutine DEF Booting, MpeRegisters
    <3>2. QED
      BY <2>3, <3>1 DEF ResetForReload, OrderlyInv, Orderly
  <2>4. CASE ScheduleInterrupt
    BY <2>4 DEF ScheduleInterrupt, OrderlyInv
  <2>5. CASE TriggerInterrupt \/ TriggerScheduledInterrupts
    BY <2>5, RaisesSome, RaiseOrderly
  <2>6. CASE UNCHANGED vars
    BY <2>6 DEF vars, OrderlyInv
  <2>7. QED
    BY <2>1, <2>2, <2>3, <2>4, <2>5, <2>6 DEF Next
<1>3. QED
  BY <1>1, <1>2, PTL DEF Spec

(* The registers stay well typed.                                          *)
THEOREM TypeCorrect == Spec => []TypeOK
<1>1. OrderlyInv => TypeOK
  BY DEF OrderlyInv, TypeOK
<1>2. QED
  BY <1>1, OrderlyInvariant, PTL

(* Interrupt handlers nest properly, and rzi1 and rzi2 lead back, whatever *)
(* packets the programs run and whoever starts, stops or resets an MPE.    *)
THEOREM NestingCorrect == Spec => []HandlersNest
<1>1. OrderlyInv => HandlersNest
  BY DEF OrderlyInv, Orderly, HandlersNest
<1>2. QED
  BY <1>1, OrderlyInvariant, PTL

-----------------------------------------------------------------------------
(* Sleep and wake-up.                                                      *)

\* What a program step does to an MPE's sleep.
LEMMA ProgramSleep ==
  ASSUME OrderlyInv, NEW i \in MPE, Program(i) \/ WaitForCommPacket(i)
  PROVE  /\ mpe[i].mpego
         /\ \A k \in MPE \ {i} : mpe'[k] = mpe[k]
         /\ \/ sleeping' = sleeping
            \/ /\ sleeping' = sleeping \union {i}
               /\ ~mpe'[i].mpego /\ mpe'[i].waitList # {}
               /\ PendingFor(mpe'[i], mpe'[i].waitList) = {}
<1>1. PICK m : Runs(i, m)
  BY DEF Program, Plain, TakenBranch, Rti1, Rti2, WriteIntclr, WriteIntsrc,
         WriteInten1, WriteInten2sel, WriteIntctl, WaitForInterrupt, Halt,
         WaitForCommPacket
<1>2. mpe[i].mpego /\ \A k \in MPE \ {i} : mpe'[k] = mpe[k]
  BY <1>1 DEF Runs, OrderlyInv
<1>3. ASSUME NEW mask \in SUBSET Source, WaitStops(Now(i), mask),
             Runs(i, Waiting(Now(i), mask))
      PROVE  /\ ~mpe'[i].mpego /\ mpe'[i].waitList # {}
             /\ PendingFor(mpe'[i], mpe'[i].waitList) = {}
  <2> DEFINE w == Waiting(Now(i), mask)
  <2>1. Now(i) \in MpeRegisters
    BY NowOrderly
  <2>2. /\ w \in MpeRegisters /\ ~w.mpego /\ w.waitList = mask
        /\ w.intsrc = Now(i).intsrc /\ w.inten1 = Now(i).inten1
        /\ w.inten2sel = Now(i).inten2sel
    BY <1>3, <2>1 DEF Waiting, MpeRegisters
  <2> HIDE DEF w
  <2>3. LET r == Retired(w)
        IN /\ ~r.mpego /\ r.waitList = mask /\ r.intsrc = w.intsrc
           /\ r.inten1 = w.inten1 /\ r.inten2sel = w.inten2sel
    BY <2>2 DEF Retired, MpeRegisters
  <2>4. mpe'[i] = Retired(w)
    BY <1>3 DEF Runs, OrderlyInv, w
  <2>5. QED
    BY <1>3, <2>2, <2>3, <2>4 DEF WaitStops, PendingFor, Enabled
<1>4. CASE WaitForInterrupt(i)
  BY <1>2, <1>3, <1>4, InterruptsAssumption DEF WaitForInterrupt
<1>5. CASE WaitForCommPacket(i)
  BY <1>2, <1>3, <1>5, NowOrderly, EnabledType DEF WaitForCommPacket
<1>6. CASE Program(i) /\ ~WaitForInterrupt(i)
  BY <1>2, <1>6
     DEF Program, Plain, TakenBranch, Rti1, Rti2, WriteIntclr, WriteIntsrc,
         WriteInten1, WriteInten2sel, WriteIntctl, Halt
<1>7. QED
  BY <1>4, <1>5, <1>6

LEMMA TriggeredSleep ==
  ASSUME NEW m \in MpeRegisters, NEW which \in SUBSET Source, ~m.mpego
  PROVE  LET n == Triggered(m, which)
         IN \/ /\ ~n.mpego /\ n.waitList = m.waitList
               /\ PendingFor(n, n.waitList) = {}
            \/ n.mpego /\ n.waitList = {} /\ m.waitList # {}
<1> DEFINE r == [m EXCEPT !.intsrc = @ \union which]
<1>1. r \in MpeRegisters /\ ~r.mpego /\ r.waitList = m.waitList
  BY DEF MpeRegisters
<1> HIDE DEF r
<1>2. Triggered(m, which) = Woken(r)
  BY DEF Triggered, r
<1>3. CASE PendingFor(r, r.waitList) = {}
  BY <1>1, <1>2, <1>3 DEF Woken
<1>4. CASE PendingFor(r, r.waitList) # {}
  <2>1. r.waitList # {}
    BY <1>4 DEF PendingFor
  <2>2. Woken(r) = [r EXCEPT !.mpego = TRUE, !.waitList = {},
                             !.enabledLate = {}]
    BY <1>4 DEF Woken
  <2>3. QED
    BY <1>1, <1>2, <2>1, <2>2 DEF MpeRegisters
<1>5. QED
  BY <1>3, <1>4

\* What running, stopping or resetting MPE i does to its sleep.
LEMMA ControlSleep ==
  ASSUME OrderlyInv, NEW j \in MPE, NEW i \in MPE, StartsOrStops(j, i)
  PROVE  /\ mpe[j].mpego /\ j # i /\ (i \in sleeping => StopSleepers)
         /\ sleeping' = sleeping \ {i}
         /\ mpe'[j] = Retired(Now(j))
         /\ mpe'[i].waitList = mpe[i].waitList
         /\ \A k \in MPE \ {i, j} : mpe'[k] = mpe[k]
<1>1. ASSUME NEW m \in MpeRegisters, m.waitList = mpe[i].waitList,
             Controls(j, i, m)
      PROVE  /\ mpe[j].mpego /\ j # i /\ (i \in sleeping => StopSleepers)
             /\ mpe'[j] = Retired(Now(j))
             /\ mpe'[i].waitList = mpe[i].waitList
             /\ \A k \in MPE \ {i, j} : mpe'[k] = mpe[k]
  BY <1>1 DEF Controls, Changes, OrderlyInv
<1> DEFINE m == mpe[i]
<1>2. m \in MpeRegisters
  BY DEF OrderlyInv
<1> HIDE DEF m
<1>3. /\ Restarted(m) \in MpeRegisters /\ WasReset(m) \in MpeRegisters
  BY <1>2, RestartedOrderly, ResetOrderly DEF Orderly
<1>4. Restarted(m).waitList = m.waitList /\ WasReset(m).waitList = m.waitList
  BY <1>2 DEF Restarted, WasReset, MpeRegisters
<1>5. /\ ThreadStarted(m) \in MpeRegisters
      /\ ThreadStarted(m).waitList = m.waitList
  BY <1>3, <1>4 DEF ThreadStarted, MpeRegisters
<1>6. ASSUME NEW go \in BOOLEAN
      PROVE  /\ [m EXCEPT !.mpego = go] \in MpeRegisters
             /\ [m EXCEPT !.mpego = go].waitList = m.waitList
  BY <1>2 DEF MpeRegisters
<1>7. CASE MPERun(j, i)
  BY <1>1, <1>3, <1>4, <1>7 DEF MPERun, m
<1>8. CASE MPERunMedia(j, i)
  BY <1>1, <1>6, <1>8 DEF MPERunMedia, m
<1>9. CASE MPERunThread(j, i)
  BY <1>1, <1>5, <1>9 DEF MPERunThread, m
<1>10. CASE MPEStop(j, i)
  BY <1>1, <1>6, <1>10 DEF MPEStop, m
<1>11. CASE ResetMpe(j, i)
  BY <1>1, <1>3, <1>4, <1>11 DEF ResetMpe, m
<1>12. QED
  BY <1>7, <1>8, <1>9, <1>10, <1>11 DEF StartsOrStops

\* An MPE that sleeps as NoLostWakeup says.
SleepsSoundly(m) ==
  /\ ~m.mpego
  /\ m.waitList # {}
  /\ PendingFor(m, m.waitList) \subseteq m.enabledLate

\* What MPE j's writes into the registers of MPE i do to its sleep: they
\* wake it, or they leave it soundly asleep.
LEMMA WriteSleep ==
  ASSUME OrderlyInv, NoLostWakeup, NEW j \in MPE, NEW i \in MPE,
         MPEWriteRegister(j, i)
  PROVE  /\ mpe[j].mpego /\ j # i
         /\ mpe'[j] = Retired(Now(j))
         /\ \A k \in MPE \ {i, j} : mpe'[k] = mpe[k]
         /\ sleeping' \subseteq sleeping /\ sleeping \ {i} \subseteq sleeping'
         /\ mpe'[i].waitList \in {mpe[i].waitList, {}}
         /\ i \in sleeping =>
              \/ i \in sleeping' /\ SleepsSoundly(mpe'[i])
              \/ i \notin sleeping' /\ mpe'[i].waitList = {}
<1> DEFINE m == mpe[i]
<1>1. m \in MpeRegisters
  BY DEF OrderlyInv
<1>2. i \in sleeping => SleepsSoundly(m)
  BY DEF NoLostWakeup, SleepsSoundly
<1>3. ASSUME NEW n, Changes(j, i, n)
      PROVE  /\ mpe[j].mpego /\ j # i /\ mpe'[i] = n
             /\ mpe'[j] = Retired(Now(j))
             /\ \A k \in MPE \ {i, j} : mpe'[k] = mpe[k]
  BY <1>3 DEF Changes, OrderlyInv
<1> HIDE DEF m
<1>4. ASSUME NEW n \in MpeRegisters, Changes(j, i, n),
             UNCHANGED sleeping, n.waitList = m.waitList, n.mpego = m.mpego,
             i \in sleeping =>
               PendingFor(n, m.waitList) \subseteq n.enabledLate
      PROVE  /\ mpe[j].mpego /\ j # i
             /\ mpe'[j] = Retired(Now(j))
             /\ \A k \in MPE \ {i, j} : mpe'[k] = mpe[k]
             /\ sleeping' = sleeping
             /\ mpe'[i].waitList = mpe[i].waitList
             /\ i \in sleeping => SleepsSoundly(mpe'[i])
  BY <1>2, <1>3, <1>4 DEF SleepsSoundly, m
<1>5. CASE WritesEnables(j, i)
  <2>1. ASSUME NEW r \in MpeRegisters, r.waitList = m.waitList,
               r.mpego = m.mpego, r.intsrc = m.intsrc,
               r.enabledLate = m.enabledLate
        PROVE  LET n == Enabling(i, r)
               IN /\ n \in MpeRegisters /\ n.waitList = m.waitList
                  /\ n.mpego = m.mpego
                  /\ i \in sleeping =>
                       PendingFor(n, m.waitList) \subseteq n.enabledLate
    <3> DEFINE n == Enabling(i, r)
    <3>1. Enabled(r) \ Enabled(m) \in SUBSET Source
      BY <2>1, EnabledType
    <3>2. /\ n \in MpeRegisters /\ n.waitList = m.waitList
          /\ n.mpego = m.mpego /\ n.intsrc = m.intsrc
          /\ n.inten1 = r.inten1 /\ n.inten2sel = r.inten2sel
          /\ i \in sleeping =>
               n.enabledLate = m.enabledLate \union (Enabled(r) \ Enabled(m))
      BY <2>1, <3>1 DEF Enabling, MpeRegisters, m
    <3> HIDE DEF n
    <3>3. Enabled(n) = Enabled(r)
      BY <3>2 DEF Enabled
    <3>4. i \in sleeping =>
            PendingFor(n, m.waitList) \subseteq n.enabledLate
      BY <1>2, <3>2, <3>3 DEF SleepsSoundly, PendingFor
    <3>5. QED
      BY <3>2, <3>4 DEF n
  <2>2. ASSUME NEW mask \in SUBSET Source, NEW s \in Source
        PROVE  LET a == [m EXCEPT !.inten1 = mask]
                   b == [m EXCEPT !.inten2sel = s]
               IN /\ a \in MpeRegisters /\ a.waitList = m.waitList
                  /\ a.mpego = m.mpego /\ a.intsrc = m.intsrc
                  /\ a.enabledLate = m.enabledLate
                  /\ b \in MpeRegisters /\ b.waitList = m.waitList
                  /\ b.mpego = m.mpego /\ b.intsrc = m.intsrc
                  /\ b.enabledLate = m.enabledLate
    BY <1>1 DEF MpeRegisters
  <2>3. CASE \E mask \in EnableMasks :
               Changes(j, i, Enabling(i, [m EXCEPT !.inten1 = mask]))
    <3>1. PICK mask \in EnableMasks :
            Changes(j, i, Enabling(i, [m EXCEPT !.inten1 = mask]))
      BY <2>3
    <3>2. mask \in SUBSET Source /\ INT_SOFTWARE \in Source
      BY InterruptsAssumption
    <3>3. UNCHANGED sleeping
      BY <1>5 DEF WritesEnables
    <3> DEFINE a == [m EXCEPT !.inten1 = mask]
    <3>4. /\ a \in MpeRegisters /\ a.waitList = m.waitList
          /\ a.mpego = m.mpego /\ a.intsrc = m.intsrc
          /\ a.enabledLate = m.enabledLate
      BY <2>2, <3>2
    <3> HIDE DEF a
    <3>5. LET n == Enabling(i, a)
          IN /\ n \in MpeRegisters /\ n.waitList = m.waitList
             /\ n.mpego = m.mpego
             /\ i \in sleeping =>
                  PendingFor(n, m.waitList) \subseteq n.enabledLate
      BY <2>1, <3>4
    <3>6. QED
      BY <1>4, <3>1, <3>3, <3>5 DEF a
  <2>4. CASE \E s \in Level2 :
               Changes(j, i, Enabling(i, [m EXCEPT !.inten2sel = s]))
    <3>1. PICK s \in Level2 :
            Changes(j, i, Enabling(i, [m EXCEPT !.inten2sel = s]))
      BY <2>4
    <3>2. s \in Source /\ {} \in SUBSET Source
      BY InterruptsAssumption
    <3>3. UNCHANGED sleeping
      BY <1>5 DEF WritesEnables
    <3> DEFINE b == [m EXCEPT !.inten2sel = s]
    <3>4. /\ b \in MpeRegisters /\ b.waitList = m.waitList
          /\ b.mpego = m.mpego /\ b.intsrc = m.intsrc
          /\ b.enabledLate = m.enabledLate
      BY <2>2, <3>2
    <3> HIDE DEF b
    <3>5. LET n == Enabling(i, b)
          IN /\ n \in MpeRegisters /\ n.waitList = m.waitList
             /\ n.mpego = m.mpego
             /\ i \in sleeping =>
                  PendingFor(n, m.waitList) \subseteq n.enabledLate
      BY <2>1, <3>4
    <3>6. QED
      BY <1>4, <3>1, <3>3, <3>5 DEF b
  <2>5. QED
    BY <1>5, <2>3, <2>4 DEF WritesEnables, m
<1>6. CASE WritesIntsrc(j, i)
  <2>1. PICK s \in Source :
          /\ Changes(j, i, Triggered(m, {s}))
          /\ sleeping' = IF Triggered(m, {s}).mpego THEN sleeping \ {i}
                                                    ELSE sleeping
    BY <1>6 DEF WritesIntsrc, m
  <2> DEFINE n == Triggered(m, {s})
  <2>2. n.waitList \in {m.waitList, {}}
    BY <1>1 DEF Triggered, Woken, MpeRegisters
  <2>3. ASSUME ~m.mpego
        PROVE  \/ ~n.mpego /\ n.waitList = m.waitList
                  /\ PendingFor(n, n.waitList) = {}
               \/ n.mpego /\ n.waitList = {}
    BY <1>1, <2>3, TriggeredSleep
  <2>4. /\ Changes(j, i, n)
        /\ sleeping' = IF n.mpego THEN sleeping \ {i} ELSE sleeping
    BY <2>1
  <2> HIDE DEF n
  <2>5. mpe'[i] = n
    BY <1>3, <2>4
  <2>6. i \in sleeping => \/ i \in sleeping' /\ SleepsSoundly(mpe'[i])
                          \/ i \notin sleeping' /\ mpe'[i].waitList = {}
    <3>1. SUFFICES ASSUME i \in sleeping
                   PROVE  \/ i \in sleeping' /\ SleepsSoundly(n)
                          \/ i \notin sleeping' /\ n.waitList = {}
      BY <2>5
    <3>2. ~m.mpego /\ m.waitList # {}
      BY <1>2, <3>1 DEF SleepsSoundly
    <3>3. CASE /\ ~n.mpego /\ n.waitList = m.waitList
               /\ PendingFor(n, n.waitList) = {}
      BY <2>4, <3>1, <3>2, <3>3 DEF SleepsSoundly
    <3>4. CASE n.mpego /\ n.waitList = {}
      BY <2>4, <3>4
    <3>5. QED
      BY <2>3, <3>2, <3>3, <3>4
  <2>7. QED
    BY <1>3, <2>2, <2>4, <2>5, <2>6 DEF m
<1>7. CASE WritesIntclr(j, i)
  <2>1. PICK s \in m.intsrc : Changes(j, i, [m EXCEPT !.intsrc = @ \ {s}])
    BY <1>7 DEF WritesIntclr, m
  <2> DEFINE n == [m EXCEPT !.intsrc = @ \ {s}]
  <2>2. /\ n \in MpeRegisters /\ n.waitList = m.waitList
        /\ n.mpego = m.mpego /\ n.enabledLate = m.enabledLate
        /\ PendingFor(n, m.waitList) \subseteq PendingFor(m, m.waitList)
    BY <1>1 DEF MpeRegisters, PendingFor, Enabled
  <2>3. Changes(j, i, n) /\ UNCHANGED sleeping
    BY <1>7, <2>1 DEF WritesIntclr
  <2> HIDE DEF n
  <2>4. QED
    BY <1>2, <1>4, <2>2, <2>3 DEF SleepsSoundly
<1>8. CASE WritesIntctl(j, i)
  <2>1. ASSUME NEW ctl \in SUBSET MaskBit
        PROVE  LET n == [m EXCEPT !.intctl = ctl]
               IN /\ n \in MpeRegisters /\ n.waitList = m.waitList
                  /\ n.mpego = m.mpego /\ n.enabledLate = m.enabledLate
                  /\ PendingFor(n, m.waitList) = PendingFor(m, m.waitList)
    BY <1>1 DEF MpeRegisters, PendingFor, Enabled
  <2>2. m.intctl \in SUBSET MaskBit
    BY <1>1 DEF MpeRegisters
  <2>3. PICK ctl \in SUBSET MaskBit : Changes(j, i, [m EXCEPT !.intctl = ctl])
    BY <1>8, <2>2 DEF WritesIntctl, MaskBit, m
  <2> DEFINE n == [m EXCEPT !.intctl = ctl]
  <2>4. /\ n \in MpeRegisters /\ n.waitList = m.waitList
        /\ n.mpego = m.mpego /\ n.enabledLate = m.enabledLate
        /\ PendingFor(n, m.waitList) = PendingFor(m, m.waitList)
    BY <2>1
  <2>5. Changes(j, i, n) /\ UNCHANGED sleeping
    BY <1>8, <2>3 DEF WritesIntctl
  <2> HIDE DEF n
  <2>6. QED
    BY <1>2, <1>4, <2>4, <2>5 DEF SleepsSoundly
<1>9. QED
  BY <1>5, <1>6, <1>7, <1>8 DEF MPEWriteRegister

LEMMA SleepInvariant == Spec => [](OrderlyInv /\ NoLostWakeup)
<1>1. Init => NoLostWakeup
  BY DEF Init, NoLostWakeup
<1>2. OrderlyInv /\ NoLostWakeup /\ [Next]_vars => NoLostWakeup'
  <2> SUFFICES ASSUME OrderlyInv, NoLostWakeup, [Next]_vars
               PROVE  NoLostWakeup'
    OBVIOUS
  <2>1. CASE \E i \in MPE : Program(i) \/ WaitForCommPacket(i)
    <3>1. PICK i \in MPE : Program(i) \/ WaitForCommPacket(i)
      BY <2>1
    <3>2. i \notin sleeping
      BY <3>1, ProgramSleep DEF NoLostWakeup
    <3>3. SUFFICES ASSUME NEW k \in sleeping'
                   PROVE  SleepsSoundly(mpe'[k])
      BY DEF NoLostWakeup, SleepsSoundly
    <3>4. CASE k = i
      BY <3>1, <3>2, <3>3, <3>4, ProgramSleep DEF SleepsSoundly
    <3>5. CASE k # i
      <4>1. k \in sleeping /\ k \in MPE
        BY <3>1, <3>3, <3>5, ProgramSleep DEF OrderlyInv
      <4>2. mpe'[k] = mpe[k]
        BY <3>1, <3>5, <4>1, ProgramSleep
      <4>3. QED
        BY <4>1, <4>2 DEF NoLostWakeup, SleepsSoundly
    <3>6. QED
      BY <3>4, <3>5
  <2>2. CASE \E j, i \in MPE : StartsOrStops(j, i)
    <3>1. PICK j, i \in MPE : StartsOrStops(j, i)
      BY <2>2
    <3>2. j \notin sleeping
      BY <3>1, ControlSleep DEF NoLostWakeup
    <3>3. SUFFICES ASSUME NEW k \in sleeping'
                   PROVE  SleepsSoundly(mpe'[k])
      BY DEF NoLostWakeup, SleepsSoundly
    <3>4. k \in sleeping /\ k \in MPE /\ k # i /\ k # j
      BY <3>1, <3>2, <3>3, ControlSleep DEF OrderlyInv
    <3>5. mpe'[k] = mpe[k]
      BY <3>1, <3>4, ControlSleep
    <3>6. QED
      BY <3>4, <3>5 DEF NoLostWakeup, SleepsSoundly
  <2>7. CASE \E j, i \in MPE : MPEWriteRegister(j, i)
    <3>1. PICK j, i \in MPE : MPEWriteRegister(j, i)
      BY <2>7
    <3>2. j \notin sleeping
      BY <3>1, WriteSleep DEF NoLostWakeup
    <3>3. SUFFICES ASSUME NEW k \in sleeping'
                   PROVE  SleepsSoundly(mpe'[k])
      BY DEF NoLostWakeup, SleepsSoundly
    <3>4. k \in sleeping /\ k \in MPE /\ k # j
      BY <3>1, <3>2, <3>3, WriteSleep DEF OrderlyInv
    <3>5. CASE k = i
      BY <3>1, <3>3, <3>4, <3>5, WriteSleep
    <3>6. CASE k # i
      <4>1. mpe'[k] = mpe[k]
        BY <3>1, <3>4, <3>6, WriteSleep
      <4>2. QED
        BY <3>4, <4>1 DEF NoLostWakeup, SleepsSoundly
    <3>7. QED
      BY <3>5, <3>6
  <2>3. CASE ResetForReload
    BY <2>3 DEF ResetForReload, NoLostWakeup
  <2>4. CASE ScheduleInterrupt
    BY <2>4 DEF ScheduleInterrupt, NoLostWakeup
  <2>5. CASE TriggerInterrupt \/ TriggerScheduledInterrupts
    <3>1. SUFFICES ASSUME NEW k \in sleeping'
                   PROVE  SleepsSoundly(mpe'[k])
      BY DEF NoLostWakeup, SleepsSoundly
    <3>2. PICK which \in [MPE -> SUBSET Source] : Raise(which)
      BY <2>5, RaisesSome
    <3>3. k \in sleeping /\ k \in MPE /\ ~mpe'[k].mpego
      BY <3>1, <3>2 DEF Raise, OrderlyInv
    <3>4. mpe'[k] = mpe[k] \/ mpe'[k] = Triggered(mpe[k], which[k])
      BY <3>2, <3>3 DEF Raise
    <3>5. SleepsSoundly(mpe[k])
      BY <3>3 DEF NoLostWakeup, SleepsSoundly
    <3>6. CASE mpe'[k] = mpe[k]
      BY <3>3, <3>5, <3>6
    <3>7. CASE mpe'[k] = Triggered(mpe[k], which[k])
      <4>1. mpe[k] \in MpeRegisters /\ which[k] \in SUBSET Source
        BY <3>3 DEF OrderlyInv
      <4> DEFINE n == Triggered(mpe[k], which[k])
      <4>2. \/ ~n.mpego /\ n.waitList = mpe[k].waitList
                /\ PendingFor(n, n.waitList) = {}
            \/ n.mpego
        BY <3>5, <4>1, TriggeredSleep DEF SleepsSoundly
      <4>3. mpe'[k] = n /\ ~n.mpego
        BY <3>3, <3>7
      <4> HIDE DEF n
      <4>4. QED
        BY <3>5, <4>2, <4>3 DEF SleepsSoundly
    <3>8. QED
      BY <3>4, <3>6, <3>7
  <2>6. CASE UNCHANGED vars
    BY <2>6 DEF vars, NoLostWakeup
  <2>8. QED
    BY <2>1, <2>2, <2>3, <2>4, <2>5, <2>6, <2>7
       DEF Next, Control, StartsOrStops
<1>3. QED
  BY <1>1, <1>2, OrderlyInvariant, PTL DEF Spec

(* A sleeping MPE has no interrupt of its wait mask pending but one that   *)
(* another MPE enabled while it slept, for any number of MPEs and sources  *)
(* and any interleaving of them.                                           *)
THEOREM WakeupCorrect == Spec => []NoLostWakeup
BY SleepInvariant, PTL

-----------------------------------------------------------------------------
(* Nobody waits but sleepers, as long as sleepers are not stopped.         *)

WaitersSleep == \A i \in MPE : mpe[i].waitList # {} => i \in sleeping

LEMMA ServicedWaits ==
  ASSUME NEW m \in MpeRegisters
  PROVE  /\ Serviced(m).waitList = m.waitList
         /\ Retired(m).waitList = m.waitList
<1>1. Serviced(m).waitList = m.waitList
  <2>1. CASE TakesLevel2(m)
    BY <2>1 DEF Serviced, TakesLevel1, TakesLevel2, MpeRegisters
  <2>2. CASE ~TakesLevel2(m) /\ TakesLevel1(m)
    BY <2>2 DEF Serviced, MpeRegisters
  <2>3. CASE ~TakesLevel2(m) /\ ~TakesLevel1(m)
    BY <2>3 DEF Serviced
  <2>4. QED
    BY <2>1, <2>2, <2>3
<1>2. Retired(m).waitList = m.waitList
  BY DEF Retired, MpeRegisters
<1>3. QED
  BY <1>1, <1>2

\* A step of an MPE that is not waiting leaves it asleep or not waiting.
LEMMA ProgramWaits ==
  ASSUME OrderlyInv, NEW i \in MPE, mpe[i].waitList = {},
         Program(i) \/ WaitForCommPacket(i)
  PROVE  mpe'[i].waitList = {} \/ i \in sleeping'
<1> DEFINE m == Now(i)
<1>1. m \in MpeRegisters /\ m.waitList = {}
  BY NowOrderly, ServicedWaits DEF OrderlyInv, Now
<1>2. ASSUME NEW n \in MpeRegisters, n.waitList = {}, Runs(i, n)
      PROVE  mpe'[i].waitList = {}
  BY <1>2, ServicedWaits DEF Runs, OrderlyInv
<1>3. ASSUME NEW n \in MpeRegisters, n.waitList = {},
             NEW target \in Routine, NEW k \in DelaySlots,
             Runs(i, Branched(n, target, k))
      PROVE  mpe'[i].waitList = {}
  <2>1. k \in 0 .. 3
    BY InterruptsAssumption
  <2>2. Branched(n, target, k) \in MpeRegisters
    BY <1>3, <2>1 DEF Branched, MpeRegisters
  <2>3. Branched(n, target, k).waitList = {}
    BY <1>3 DEF Branched, MpeRegisters
  <2>4. QED
    BY <1>2, <1>3, <2>2, <2>3
<1> HIDE DEF m
<1>4. CASE Plain(i)
  BY <1>1, <1>2, <1>4 DEF Plain, m
<1>5. CASE TakenBranch(i)
  <2>1. m.pcexec \in Routine
    BY <1>1 DEF MpeRegisters
  <2>2. QED
    BY <1>1, <1>3, <1>5, <2>1 DEF TakenBranch, m
<1>6. CASE Rti1(i)
  <2> DEFINE n == [m EXCEPT !.intctl = @ \ {"imaskHw1"}]
  <2>1. n \in MpeRegisters /\ n.waitList = {} /\ m.rzi1 \in Routine
    BY <1>1 DEF MpeRegisters
  <2>2. \E k \in DelaySlots : Runs(i, Branched(n, m.rzi1, k))
    BY <1>6 DEF Rti1, m
  <2>3. QED
    BY <1>3, <2>1, <2>2
<1>7. CASE Rti2(i)
  <2> DEFINE n == [m EXCEPT !.intctl = @ \ {"imaskHw2"}]
  <2>1. n \in MpeRegisters /\ n.waitList = {} /\ m.rzi2 \in Routine
    BY <1>1 DEF MpeRegisters
  <2>2. \E k \in DelaySlots : Runs(i, Branched(n, m.rzi2, k))
    BY <1>7 DEF Rti2, m
  <2>3. QED
    BY <1>3, <2>1, <2>2
<1>8. CASE WriteIntclr(i)
  <2>1. ASSUME NEW s PROVE /\ [m EXCEPT !.intsrc = @ \ {s}] \in MpeRegisters
                           /\ [m EXCEPT !.intsrc = @ \ {s}].waitList = {}
    BY <1>1 DEF MpeRegisters
  <2>2. QED
    BY <1>2, <1>8, <2>1 DEF WriteIntclr, m
<1>9. CASE WriteIntsrc(i)
  <2>1. PICK s \in Source : Runs(i, Triggered(m, {s}))
    BY <1>9 DEF WriteIntsrc, m
  <2>2. Triggered(m, {s}) \in MpeRegisters
    BY <1>1, TriggeredType
  <2>3. Triggered(m, {s}).waitList = {}
    BY <1>1 DEF Triggered, Woken, MpeRegisters
  <2>4. QED
    BY <1>2, <2>1, <2>2, <2>3
<1>10. CASE WriteInten1(i)
  <2>1. ASSUME NEW mask \in SUBSET Source
        PROVE  /\ [m EXCEPT !.inten1 = mask] \in MpeRegisters
               /\ [m EXCEPT !.inten1 = mask].waitList = {}
    BY <1>1 DEF MpeRegisters
  <2>2. QED
    BY <1>2, <1>10, <2>1, InterruptsAssumption DEF WriteInten1, m
<1>11. CASE WriteInten2sel(i)
  <2>1. ASSUME NEW s \in Source
        PROVE  /\ [m EXCEPT !.inten2sel = s] \in MpeRegisters
               /\ [m EXCEPT !.inten2sel = s].waitList = {}
    BY <1>1 DEF MpeRegisters
  <2>2. QED
    BY <1>2, <1>11, <2>1, InterruptsAssumption DEF WriteInten2sel, m
<1>12. CASE WriteIntctl(i)
  <2>1. ASSUME NEW ctl \in SUBSET MaskBit
        PROVE  /\ [m EXCEPT !.intctl = ctl] \in MpeRegisters
               /\ [m EXCEPT !.intctl = ctl].waitList = {}
    BY <1>1 DEF MpeRegisters
  <2>2. m.intctl \in SUBSET MaskBit
    BY <1>1 DEF MpeRegisters
  <2>3. \E ctl \in SUBSET MaskBit : Runs(i, [m EXCEPT !.intctl = ctl])
    BY <1>12, <2>2 DEF WriteIntctl, MaskBit, m
  <2>4. QED
    BY <1>2, <2>1, <2>3
<1>13. CASE WaitForInterrupt(i)
  BY <1>1, <1>2, <1>13 DEF WaitForInterrupt, m
<1>14. CASE Halt(i)
  <2>1. /\ [m EXCEPT !.mpego = FALSE] \in MpeRegisters
        /\ [m EXCEPT !.mpego = FALSE].waitList = {}
    BY <1>1 DEF MpeRegisters
  <2>2. QED
    BY <1>2, <1>14, <2>1 DEF Halt, m
<1>15. CASE WaitForCommPacket(i)
  BY <1>15 DEF WaitForCommPacket
<1>16. QED
  BY <1>4, <1>5, <1>6, <1>7, <1>8, <1>9, <1>10, <1>11, <1>12, <1>13, <1>14,
     <1>15 DEF Program

LEMMA WaitersInvariant ==
  ASSUME ~StopSleepers
  PROVE  Spec => []WaitersSleep
<1>1. Init => WaitersSleep
  BY DEF Init, WaitersSleep
<1>2. OrderlyInv /\ NoLostWakeup /\ WaitersSleep /\ [Next]_vars => WaitersSleep'
  <2> SUFFICES ASSUME OrderlyInv, NoLostWakeup, WaitersSleep, [Next]_vars
               PROVE  WaitersSleep'
    OBVIOUS
  <2>1. CASE \E i \in MPE : Program(i) \/ WaitForCommPacket(i)
    <3>1. PICK i \in MPE : Program(i) \/ WaitForCommPacket(i)
      BY <2>1
    <3>2. mpe[i].waitList = {}
      BY <3>1, ProgramSleep DEF NoLostWakeup, WaitersSleep
    <3>3. QED
      BY <3>1, <3>2, ProgramSleep, ProgramWaits DEF WaitersSleep
  <2>2. CASE \E j, i \in MPE : StartsOrStops(j, i)
    <3>1. PICK j, i \in MPE : StartsOrStops(j, i)
      BY <2>2
    <3>2. i \notin sleeping /\ mpe[j].mpego
      BY <3>1, ControlSleep
    <3>3. mpe[j].waitList = {} /\ mpe[i].waitList = {}
      BY <3>2 DEF NoLostWakeup, WaitersSleep
    <3>4. mpe'[j].waitList = {}
      BY <3>1, <3>3, ControlSleep, NowOrderly, ServicedWaits
         DEF Now, OrderlyInv
    <3>5. QED
      BY <3>1, <3>2, <3>3, <3>4, ControlSleep DEF WaitersSleep
  <2>7. CASE \E j, i \in MPE : MPEWriteRegister(j, i)
    <3>1. PICK j, i \in MPE : MPEWriteRegister(j, i)
      BY <2>7
    <3>2. mpe[j].waitList = {}
      BY <3>1, WriteSleep DEF NoLostWakeup, WaitersSleep
    <3>3. mpe'[j].waitList = {}
      BY <3>1, <3>2, WriteSleep, NowOrderly, ServicedWaits
         DEF Now, OrderlyInv
    <3>4. mpe'[i].waitList # {} => i \in sleeping'
      BY <3>1, WriteSleep DEF WaitersSleep
    <3>5. QED
      BY <3>1, <3>3, <3>4, WriteSleep DEF WaitersSleep
  <2>3. CASE ResetForReload
    <3>1. \A i \in MPE : mpe[i].waitList = {}
      BY <2>3 DEF ResetForReload, WaitersSleep
    <3>2. \A i \in MPE : mpe'[i].waitList = {}
      BY <2>3, <3>1 DEF ResetForReload, Booting, WasReset, OrderlyInv,
                        MpeRegisters, Woken
    <3>3. QED
      BY <3>2 DEF WaitersSleep
  <2>4. CASE ScheduleInterrupt
    BY <2>4 DEF ScheduleInterrupt, WaitersSleep
  <2>5. CASE TriggerInterrupt \/ TriggerScheduledInterrupts
    <3>1. SUFFICES ASSUME NEW i \in MPE, mpe'[i].waitList # {}
                   PROVE  i \in sleeping'
      BY DEF WaitersSleep
    <3>2. PICK which \in [MPE -> SUBSET Source] : Raise(which)
      BY <2>5, RaisesSome
    <3>3. mpe'[i] = mpe[i] \/ mpe'[i] = Triggered(mpe[i], which[i])
      BY <3>2 DEF Raise
    <3>4. mpe[i].waitList # {}
      BY <3>1, <3>3 DEF Triggered, Woken, OrderlyInv, MpeRegisters
    <3>5. i \in sleeping /\ ~mpe[i].mpego
      BY <3>4 DEF WaitersSleep, NoLostWakeup
    <3>6. ~mpe'[i].mpego
      BY <3>1, <3>3, <3>5, TriggeredSleep DEF OrderlyInv
    <3>7. QED
      BY <3>2, <3>5, <3>6 DEF Raise
  <2>6. CASE UNCHANGED vars
    BY <2>6 DEF vars, WaitersSleep
  <2>8. QED
    BY <2>1, <2>2, <2>3, <2>4, <2>5, <2>6, <2>7
       DEF Next, Control, StartsOrStops
<1>3. QED
  BY <1>1, <1>2, SleepInvariant, PTL DEF Spec

(* While no sleeper is stopped, run or reset from outside, an interrupt    *)
(* starts only an MPE that its own WaitForInterrupt call stopped.          *)
THEOREM WakingCorrect ==
  ASSUME ~StopSleepers
  PROVE  Spec => OnlySleepersWake
<1>1. ASSUME OrderlyInv, WaitersSleep,
             TriggerInterrupt \/ TriggerScheduledInterrupts,
             NEW i \in MPE, ~mpe[i].mpego, mpe'[i].mpego
      PROVE  i \in sleeping
  <2>1. PICK which \in [MPE -> SUBSET Source] : Raise(which)
    BY <1>1, RaisesSome
  <2>2. mpe'[i] = mpe[i] \/ mpe'[i] = Triggered(mpe[i], which[i])
    BY <2>1 DEF Raise
  <2>3. mpe[i].waitList # {}
    BY <1>1, <2>2, TriggeredSleep DEF OrderlyInv
  <2>4. QED
    BY <1>1, <2>3 DEF WaitersSleep
<1>2. ASSUME OrderlyInv, WaitersSleep, NEW i \in MPE, NEW j \in MPE,
             WritesIntsrc(j, i), ~mpe[i].mpego, mpe'[i].mpego
      PROVE  i \in sleeping
  <2>1. PICK s \in Source : Changes(j, i, Triggered(mpe[i], {s}))
    BY <1>2 DEF WritesIntsrc
  <2> DEFINE n == Triggered(mpe[i], {s})
  <2>2. mpe'[i] = n
    <3>1. Changes(j, i, n)
      BY <2>1
    <3> HIDE DEF n
    <3>2. QED
      BY <1>2, <3>1 DEF Changes, OrderlyInv
  <2>3. mpe[i].waitList # {}
    BY <1>2, <2>2, TriggeredSleep DEF OrderlyInv
  <2>4. QED
    BY <1>2, <2>3 DEF WaitersSleep
<1>3. OrderlyInv /\ WaitersSleep =>
        \A i \in MPE :
          /\ \/ TriggerInterrupt \/ TriggerScheduledInterrupts
             \/ \E j \in MPE : WritesIntsrc(j, i)
          /\ ~mpe[i].mpego /\ mpe'[i].mpego
          => i \in sleeping
  BY <1>1, <1>2
<1>4. QED
  BY <1>3, SleepInvariant, WaitersInvariant, PTL DEF OnlySleepersWake
=============================================================================
