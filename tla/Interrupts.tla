---------------------------- MODULE Interrupts ----------------------------
(***************************************************************************)
(* The interrupt unit of the emulated MPEs: the source, enable and mask    *)
(* registers, the check FetchDecodeExecute makes before it runs a packet,  *)
(* the return-from-interrupt packets with their delay slots, and the       *)
(* WaitForInterrupt system call that puts an MPE to sleep.                 *)
(*                                                                         *)
(* One call of MPE::FetchDecodeExecute is one step: it services a pending  *)
(* interrupt, runs one packet and resolves the delay slots.  A program     *)
(* is any sequence of packets its current routine may contain; routines    *)
(* are "user" code and the handlers "isr1" and "isr2" of the two levels.   *)
(***************************************************************************)
EXTENDS Integers, FiniteSets

CONSTANTS
  MPE,          \* the processors
  Booted,       \* the ones that run when the model starts
  Source,       \* bits of intsrc
  INT_SOFTWARE, \* the source inten2sel selects after a reset
  BootSelect,   \* the source InitBios selects for each MPE after that
  EnableMasks,  \* the values programs write to inten1
  Level2,       \* the values programs write to inten2sel
  WaitMasks,    \* the masks programs pass to WaitForInterrupt
  DelaySlots,   \* 3 for a branch with delay slots, 1 for its NOP form
  Programmed,   \* the MPEs that run any program; the others only Plain packets
  Controllers,  \* the MPEs that start and stop others and write their registers
  StopSleepers, \* whether an MPE that WaitForInterrupt stopped is run,
                \* stopped or reset, by them or by a reload
  Reloads       \* whether another title is loaded while the program runs

InterruptsConstants ==
  /\ Booted \subseteq MPE
  /\ Programmed \subseteq MPE
  /\ Controllers \subseteq MPE
  /\ INT_SOFTWARE \in Source
  /\ BootSelect \in [MPE -> Source]
  /\ EnableMasks \subseteq SUBSET Source
  /\ Level2 \subseteq Source
  /\ WaitMasks \subseteq SUBSET Source
  /\ DelaySlots \subseteq {1, 3}
  /\ StopSleepers \in BOOLEAN /\ Reloads \in BOOLEAN

ASSUME InterruptsAssumption == InterruptsConstants

VARIABLES
  mpe,              \* the registers of each MPE
  schedule_intsrc,  \* NuonEnvironment::schedule_intsrc
  sleeping          \* history: the MPEs a WaitForInterrupt call stopped

vars == <<mpe, schedule_intsrc, sleeping>>

Routine == {"user", "isr1", "isr2"}
MaskBit == {"imaskHw1", "imaskSw1", "imaskHw2", "imaskSw2"}

MpeRegisters ==
  [ mpego       : BOOLEAN,
    intsrc      : SUBSET Source,
    inten1      : SUBSET Source,
    inten2sel   : Source,
    intctl      : SUBSET MaskBit,
    waitList    : SUBSET Source,       \* WaitForInterruptList[mpeIndex]
    enabledLate : SUBSET Source,       \* history: see Enabling
    pcexec      : Routine,
    pcfetchnext : Routine,
    rzi1        : Routine,
    rzi2        : Routine,
    ecuSkip     : 0 .. 3 ]             \* ecuSkipCounter

TypeOK ==
  /\ mpe \in [MPE -> MpeRegisters]
  /\ schedule_intsrc \in SUBSET Source
  /\ sleeping \in SUBSET MPE

-----------------------------------------------------------------------------
(* Registers to registers: what the C++ methods do to one MPE.             *)

\* A source is enabled at level 1 by inten1 and at level 2 by inten2sel.
Enabled(m) == m.inten1 \union {m.inten2sel}

PendingFor(m, mask) == m.intsrc \intersect Enabled(m) \intersect mask

\* Mutant: the wake-up leaves WaitForInterruptList set.
WokenStillWaiting(m) ==
  IF PendingFor(m, m.waitList) # {} THEN [m EXCEPT !.mpego = TRUE] ELSE m

\* Syscall_InterruptTriggered
Woken(m) ==
  IF PendingFor(m, m.waitList) # {}
  THEN [m EXCEPT !.mpego = TRUE, !.waitList = {}, !.enabledLate = {}]
  ELSE m

\* Mutant: a raised source wakes nobody.
TriggeredQuietly(m, which) == [m EXCEPT !.intsrc = @ \union which]

\* MPE::TriggerInterrupt
Triggered(m, which) == Woken([m EXCEPT !.intsrc = @ \union which])

\* Mutant: what is already pending is not looked at.
WaitStopsAlways(m, mask) == mask # {}

\* Syscall_WaitForInterruptCommon
WaitStops(m, mask) == mask # {} /\ PendingFor(m, mask) = {}
Waiting(m, mask) ==
  [m EXCEPT !.mpego = FALSE, !.intctl = {}, !.waitList = mask,
            !.enabledLate = {}]

\* MPE::Reset, which leaves WaitForInterruptList alone.
WasReset(m) ==
  [m EXCEPT !.mpego = FALSE, !.intsrc = {}, !.inten1 = {},
            !.inten2sel = INT_SOFTWARE, !.intctl = {},
            !.pcexec = "user", !.pcfetchnext = "user", !.ecuSkip = 0]

\* Mutant: the delay-slot counter survives MPERun.
RestartedMidBranch(m) ==
  [m EXCEPT !.mpego = TRUE, !.intctl = {"imaskSw1", "imaskSw2"},
            !.pcexec = "user"]

\* MPERun on an MPE that is not the media MPE.
Restarted(m) ==
  [m EXCEPT !.mpego = TRUE, !.intctl = {"imaskSw1", "imaskSw2"},
            !.pcexec = "user", !.ecuSkip = 0]

\* MPERunThread also forgets what was enabled and pending.
ThreadStarted(m) == [Restarted(m) EXCEPT !.inten1 = {}, !.intsrc = {}]

\* A reset followed by InitBios; the boot code it starts has unmasked.
Booting(m, i) ==
  [WasReset(m) EXCEPT !.mpego = i \in Booted, !.inten2sel = BootSelect[i]]

\* Mutant: level 2 interrupts the delay slots of a branch.
TakesLevel2InDelaySlots(m) ==
  /\ "imaskHw2" \notin m.intctl
  /\ m.inten2sel \in m.intsrc
  /\ "imaskSw2" \notin m.intctl

\* The check for interrupts at the top of FetchDecodeExecute.
TakesLevel2(m) ==
  /\ m.ecuSkip = 0
  /\ "imaskHw2" \notin m.intctl
  /\ m.inten2sel \in m.intsrc
  /\ "imaskSw2" \notin m.intctl

TakesLevel1(m) ==
  /\ m.ecuSkip = 0
  /\ "imaskHw2" \notin m.intctl
  /\ m.inten2sel \notin m.intsrc
  /\ {"imaskSw1", "imaskHw1"} \intersect m.intctl = {}
  /\ m.intsrc \intersect m.inten1 # {}

Serviced(m) ==
  CASE TakesLevel2(m) -> [m EXCEPT !.rzi2 = m.pcexec, !.pcexec = "isr2",
                                   !.intctl = @ \union {"imaskHw2"}]
    [] TakesLevel1(m) -> [m EXCEPT !.rzi1 = m.pcexec, !.pcexec = "isr1",
                                   !.intctl = @ \union {"imaskHw1"}]
    [] OTHER          -> m

\* Mutant: the counter is decremented whether or not a branch is pending.
RetiredAlways(m) ==
  [m EXCEPT !.ecuSkip = @ - 1,
            !.pcexec = IF m.ecuSkip = 1 THEN m.pcfetchnext ELSE @]

\* The delay slots: when the last one has run, the branch is taken.
Retired(m) ==
  IF m.ecuSkip = 0 THEN m
  ELSE [m EXCEPT !.ecuSkip = @ - 1,
                 !.pcexec = IF m.ecuSkip = 1 THEN m.pcfetchnext ELSE @]

\* A taken branch: the target is fetched after n packets.
Branched(m, target, n) == [m EXCEPT !.pcfetchnext = target, !.ecuSkip = n]

Now(i) == Serviced(mpe[i])

-----------------------------------------------------------------------------
(* One FetchDecodeExecute of MPE i, by the packet it runs.                 *)

\* MPE i runs a packet that leaves its registers as m.
Runs(i, m) ==
  /\ mpe[i].mpego
  /\ mpe' = [mpe EXCEPT ![i] = Retired(m)]
  /\ UNCHANGED schedule_intsrc

Plain(i) == Runs(i, Now(i)) /\ UNCHANGED sleeping

TakenBranch(i) ==
  /\ Now(i).ecuSkip = 0
  /\ \E n \in DelaySlots : Runs(i, Branched(Now(i), Now(i).pcexec, n))
  /\ UNCHANGED sleeping

\* Execute_RTI1Conditional and Execute_RTI2Conditional, condition true.
Rti1(i) ==
  /\ Now(i).pcexec = "isr1" /\ Now(i).ecuSkip = 0
  /\ \E n \in DelaySlots :
       Runs(i, Branched([Now(i) EXCEPT !.intctl = @ \ {"imaskHw1"}],
                        Now(i).rzi1, n))
  /\ UNCHANGED sleeping

Rti2(i) ==
  /\ Now(i).pcexec = "isr2" /\ Now(i).ecuSkip = 0
  /\ \E n \in DelaySlots :
       Runs(i, Branched([Now(i) EXCEPT !.intctl = @ \ {"imaskHw2"}],
                        Now(i).rzi2, n))
  /\ UNCHANGED sleeping

\* A handler acknowledges what it serves; user code may poll and clear.
WriteIntclr(i) ==
  /\ \E s \in Now(i).intsrc :
       Runs(i, [Now(i) EXCEPT !.intsrc = @ \ {s}])
  /\ UNCHANGED sleeping

\* intsrc is written with ones to raise an interrupt in software.
WriteIntsrc(i) ==
  /\ \E s \in Source : Runs(i, Triggered(Now(i), {s}))
  /\ UNCHANGED sleeping

WriteInten1(i) ==
  /\ \E mask \in EnableMasks : Runs(i, [Now(i) EXCEPT !.inten1 = mask])
  /\ UNCHANGED sleeping

WriteInten2sel(i) ==
  /\ \E s \in Level2 : Runs(i, [Now(i) EXCEPT !.inten2sel = s])
  /\ UNCHANGED sleeping

\* intctl: programs write the software mask bits, each set or cleared.
WriteIntctl(i) ==
  /\ \E b \in {"imaskSw1", "imaskSw2"} :
       \/ Runs(i, [Now(i) EXCEPT !.intctl = @ \union {b}])
       \/ Runs(i, [Now(i) EXCEPT !.intctl = @ \ {b}])
  /\ UNCHANGED sleeping

\* configa written with category 1, function 0: called from user code.
WaitForInterrupt(i) ==
  /\ Now(i).pcexec = "user"
  /\ \E mask \in WaitMasks :
       IF WaitStops(Now(i), mask)
       THEN Runs(i, Waiting(Now(i), mask)) /\ sleeping' = sleeping \union {i}
       ELSE Runs(i, Now(i)) /\ UNCHANGED sleeping

\* Category 1, function 1, when it finds no packet and stops MPE i.
WaitForCommPacket(i) ==
  LET mask == Enabled(Now(i)) IN
  /\ Now(i).pcexec = "user"
  /\ WaitStops(Now(i), mask)
  /\ Runs(i, Waiting(Now(i), mask))
  /\ sleeping' = sleeping \union {i}

\* mpectl written with the go bit cleared: a program stops its own MPE.
Halt(i) ==
  /\ Runs(i, [Now(i) EXCEPT !.mpego = FALSE])
  /\ UNCHANGED sleeping

-----------------------------------------------------------------------------
(* BIOS calls and control-register writes by which MPE j changes MPE i.    *)

\* MPE j runs a packet, and MPE i's registers become m.
Changes(j, i, m) ==
  /\ j \in Controllers /\ j # i
  /\ mpe[j].mpego
  /\ mpe' = [mpe EXCEPT ![j] = Retired(Now(j)), ![i] = m]
  /\ UNCHANGED schedule_intsrc

\* The same, to run or stop MPE i.
Controls(j, i, m) == Changes(j, i, m) /\ (i \in sleeping => StopSleepers)

MPERun(j, i) ==
  /\ Controls(j, i, Restarted(mpe[i]))
  /\ sleeping' = sleeping \ {i}

\* MPERun on the media MPE, the minibios runs the entry point later; or mpectl
\* written with the go bit set, through MPEWriteRegister.
MPERunMedia(j, i) ==
  /\ Controls(j, i, [mpe[i] EXCEPT !.mpego = TRUE])
  /\ sleeping' = sleeping \ {i}

MPERunThread(j, i) ==
  /\ Controls(j, i, ThreadStarted(mpe[i]))
  /\ sleeping' = sleeping \ {i}

\* MPEStop, or mpectl written with the go bit cleared.
MPEStop(j, i) ==
  /\ Controls(j, i, [mpe[i] EXCEPT !.mpego = FALSE])
  /\ sleeping' = sleeping \ {i}

\* The reset bit of mpectl, written through MPEWriteRegister.
ResetMpe(j, i) ==
  /\ Controls(j, i, WasReset(mpe[i]))
  /\ sleeping' = sleeping \ {i}

\* History: the sources that are enabled from outside while MPE i sleeps.
Enabling(i, m) ==
  [m EXCEPT !.enabledLate = IF i \in sleeping
                            THEN @ \union (Enabled(m) \ Enabled(mpe[i])) ELSE @]

\* inten1 (through inten1set and inten1clr, too) and inten2sel: unlike intsrc,
\* a write of these does not look whether a waiting MPE has to wake.
WritesEnables(j, i) ==
  /\ \/ \E mask \in EnableMasks :
          Changes(j, i, Enabling(i, [mpe[i] EXCEPT !.inten1 = mask]))
     \/ \E s \in Level2 :
          Changes(j, i, Enabling(i, [mpe[i] EXCEPT !.inten2sel = s]))
  /\ UNCHANGED sleeping

WritesIntsrc(j, i) ==
  \E s \in Source : LET m == Triggered(mpe[i], {s}) IN
    /\ Changes(j, i, m)
    /\ sleeping' = IF m.mpego THEN sleeping \ {i} ELSE sleeping

WritesIntclr(j, i) ==
  /\ \E s \in mpe[i].intsrc : Changes(j, i, [mpe[i] EXCEPT !.intsrc = @ \ {s}])
  /\ UNCHANGED sleeping

WritesIntctl(j, i) ==
  /\ \E b \in {"imaskSw1", "imaskSw2"} :
       \/ Changes(j, i, [mpe[i] EXCEPT !.intctl = @ \union {b}])
       \/ Changes(j, i, [mpe[i] EXCEPT !.intctl = @ \ {b}])
  /\ UNCHANGED sleeping

\* MPEWriteRegister of the interrupt registers, asleep or not; DMA to the
\* control registers of an MPE ends in the same method.  Writes that would
\* take a running handler's return address or its mask bits away are left out.
MPEWriteRegister(j, i) ==
  WritesEnables(j, i) \/ WritesIntsrc(j, i) \/ WritesIntclr(j, i) \/ WritesIntctl(j, i)

-----------------------------------------------------------------------------
(* The main loop: sources raised by the bus, timers, video and audio.      *)

\* MPE::TriggerInterrupt, called for some of the MPEs.
Raise(which) ==
  /\ mpe' = [i \in MPE |-> IF which[i] = {} THEN mpe[i]
                           ELSE Triggered(mpe[i], which[i])]
  /\ sleeping' = {i \in sleeping : ~mpe'[i].mpego}

TriggerInterrupt ==
  /\ \E which \in [MPE -> SUBSET Source] : Raise(which)
  /\ UNCHANGED schedule_intsrc

ScheduleInterrupt ==
  /\ \E s \in Source : schedule_intsrc' = schedule_intsrc \union {s}
  /\ UNCHANGED <<mpe, sleeping>>

\* Mutant: one scheduled source is raised and all are forgotten.
TriggerOneScheduled ==
  /\ \E s \in schedule_intsrc : Raise([i \in MPE |-> {s}])
  /\ schedule_intsrc' = {}

TriggerScheduledInterrupts ==
  /\ schedule_intsrc # {}
  /\ Raise([i \in MPE |-> schedule_intsrc])
  /\ schedule_intsrc' = {}

\* Load of another title: every MPE is reset, and the BIOS set up again.
ResetForReload ==
  /\ Reloads /\ (StopSleepers \/ sleeping = {})
  /\ mpe' = [i \in MPE |-> Booting(mpe[i], i)]
  /\ sleeping' = {}
  /\ UNCHANGED schedule_intsrc

Init ==
  /\ mpe = [i \in MPE |->
       [ mpego |-> i \in Booted, intsrc |-> {}, inten1 |-> {},
         inten2sel |-> BootSelect[i], intctl |-> {}, waitList |-> {},
         enabledLate |-> {}, pcexec |-> "user", pcfetchnext |-> "user", rzi1 |-> "user",
         rzi2 |-> "user", ecuSkip |-> 0 ]]
  /\ schedule_intsrc = {}
  /\ sleeping = {}

Program(i) ==
  \/ Plain(i)
  \/ /\ i \in Programmed
     /\ \/ TakenBranch(i) \/ Rti1(i) \/ Rti2(i)
        \/ WriteIntclr(i) \/ WriteIntsrc(i) \/ WriteInten1(i)
        \/ WriteInten2sel(i) \/ WriteIntctl(i) \/ WaitForInterrupt(i)
        \/ Halt(i)

Control(j, i) ==
  \/ MPERun(j, i) \/ MPERunMedia(j, i) \/ MPERunThread(j, i) \/ MPEStop(j, i)
  \/ MPEWriteRegister(j, i)

Next ==
  \/ \E i \in MPE : Program(i) \/ WaitForCommPacket(i)
  \/ \E j, i \in MPE : Control(j, i) \/ ResetMpe(j, i)
  \/ ResetForReload
  \/ TriggerInterrupt
  \/ ScheduleInterrupt
  \/ TriggerScheduledInterrupts

Spec == Init /\ [][Next]_vars

\* The main loop calls FetchDecodeExecute for every MPE and ends each
\* iteration with TriggerScheduledInterrupts.
Fairness ==
  /\ \A i \in MPE : WF_vars(Program(i))
  /\ WF_vars(TriggerScheduledInterrupts)

FairSpec == Spec /\ Fairness

-----------------------------------------------------------------------------
\* The routine an MPE is in once the delay slots it is executing are over.
Destination(m) == IF m.ecuSkip > 0 THEN m.pcfetchnext ELSE m.pcexec

\* The mask bits of intctl tell which handlers are active.
Nested(m) ==
  LET d == Destination(m)
  IN /\ "imaskHw2" \in m.intctl <=> d = "isr2"
     /\ "imaskHw1" \in m.intctl <=>
          (d = "isr1" \/ (d = "isr2" /\ m.rzi2 = "isr1"))
     /\ "imaskHw1" \in m.intctl => m.rzi1 = "user"
     /\ "imaskHw2" \in m.intctl => m.rzi2 # "isr2"

(* The return addresses survive nesting: the hardware mask bits say        *)
(* exactly which handlers are active, a level-1 handler interrupted by     *)
(* level 2 is returned to, and rzi1 always leads back to user code.  It    *)
(* rests on the dispatch masks, on the delay-slot check and on             *)
(* WaitForInterrupt clearing intctl only in user code.                     *)
HandlersNest == \A i \in MPE : Nested(mpe[i])

(* No wake-up is lost: an MPE that sleeps in WaitForInterrupt has no       *)
(* enabled interrupt of its wait mask pending, in whatever order sources   *)
(* were raised and cleared, on it or from outside, before and while it     *)
(* sleeps.  Only a source that another MPE enabled while it slept may be   *)
(* pending: the write does not wake it.                                    *)
NoLostWakeup ==
  \A i \in sleeping :
    /\ ~mpe[i].mpego
    /\ mpe[i].waitList # {}
    /\ PendingFor(mpe[i], mpe[i].waitList) \subseteq mpe[i].enabledLate

(* An interrupt, raised by the main loop or from another MPE, starts only  *)
(* MPEs that WaitForInterrupt had put to sleep: one that was stopped or    *)
(* reset stays stopped until it is run again.                              *)
OnlySleepersWake ==
  [][\A i \in MPE :
       /\ \/ TriggerInterrupt \/ TriggerScheduledInterrupts
          \/ \E j \in MPE : WritesIntsrc(j, i)
       /\ ~mpe[i].mpego /\ mpe'[i].mpego
       => i \in sleeping]_vars

(* A source that is scheduled while an MPE sleeps on it, enabled, is       *)
(* served: the MPE wakes and enters a handler.  The delay slots of a       *)
(* branch, if the call was made in one, run first.                         *)
SleeperIsServed ==
  \A i \in MPE :
    (i \in sleeping /\ mpe[i].ecuSkip = 0 /\ schedule_intsrc \intersect mpe[i].waitList
                         \intersect Enabled(mpe[i]) # {})
      ~> mpe[i].pcexec \in {"isr1", "isr2"}
=============================================================================
