------------------------------ MODULE CommBus ------------------------------
(***************************************************************************)
(* The communication bus: the comm registers of each MPE, the control-     *)
(* register accesses by which programs send and receive four-word packets, *)
(* and DoCommBusController, which the main loop calls whenever             *)
(* pendingCommRequests is not zero.  The interrupts the bus raises, and    *)
(* the MPEs they wake, are those of module Interrupts.                     *)
(***************************************************************************)
EXTENDS Integers, FiniteSets

CONSTANTS
  NMPE,            \* the number of MPEs: 4 in the code
  Devices,         \* the other targets: audio, video, reserved IDs
  Word,            \* values of packet words
  ZERO,            \* the word a reset leaves in the packet registers
  WriteCommands,   \* the packets a device takes as a register write
  CommInfo,        \* values of the low byte of comminfo
  CtlWords,        \* what programs write to commctl
  BiosMPE,         \* the MPEs whose BIOS handler queues packets in memory
  Senders,         \* the MPEs that send packets
  Polls,           \* whether senders wait for the transmit buffer to empty
  NoPacket,        \* no packet, for the abstract channel
  MaxPending,      \* bound: packets requested and not yet processed
  INT_COMMRECV, INT_COMMXMIT,
  Booted, Source, INT_SOFTWARE, BootSelect, EnableMasks, Level2,
  WaitMasks, DelaySlots, Programmed, Controllers, StopSleepers,
  Reloads           \* see Interrupts

MPE == 0 .. NMPE - 1
Target == MPE \union Devices
Packet == [words : Word, last : Word]   \* commxmit0-2, and commxmit3
CtlWord == [recvDisable : BOOLEAN, retry : BOOLEAN, lock : BOOLEAN,
            target : Target]

VARIABLES
  commctl, commxmit, commrecv, comminfo,  \* the registers of each MPE
  currentTransmitID,    \* static in DoCommBusController
  pendingCommRequests,  \* NuonEnvironment::pendingCommRequests
  deviceRegister,       \* what the last register write left in a device
  queued,               \* whether the BIOS queue of an MPE holds a packet
  mpe, schedule_intsrc, sleeping          \* see Interrupts

commVars == <<commctl, commxmit, commrecv, comminfo, currentTransmitID,
              pendingCommRequests, deviceRegister, queued>>
intVars == <<mpe, schedule_intsrc, sleeping>>
vars == <<commVars, intVars>>

Int0 == INSTANCE Interrupts

ASSUME CommBusAssumption ==
  /\ NMPE \in Nat \ {0}
  /\ Devices \intersect MPE = {}
  /\ ZERO \in Word
  /\ WriteCommands \subseteq Packet
  /\ CommInfo # {}
  /\ CtlWords \subseteq CtlWord
  /\ BiosMPE \subseteq MPE /\ Senders \subseteq MPE
  /\ Polls \in BOOLEAN
  /\ NoPacket \notin Packet \union [from : MPE, packet : Packet]
  /\ MaxPending \in Nat
  /\ Int0!InterruptsConstants
  /\ {INT_COMMRECV, INT_COMMXMIT} \subseteq Source

CommCtl ==
  [ recvFull    : BOOLEAN,   \* COMM_RECV_BUFFER_FULL_BIT
    recvDisable : BOOLEAN,
    sourceId    : MPE,
    xmitFull    : BOOLEAN,   \* COMM_XMIT_BUFFER_FULL_BIT
    xmitFailed  : BOOLEAN,
    retry       : BOOLEAN,
    lock        : BOOLEAN,
    target      : Target ]

CommTypeOK ==
  /\ commctl \in [MPE -> CommCtl]
  /\ commxmit \in [MPE -> Packet]
  /\ commrecv \in [MPE -> Packet]
  /\ comminfo \in [MPE -> [own : CommInfo, from : CommInfo]]
  /\ currentTransmitID \in MPE
  /\ pendingCommRequests \in Nat
  /\ deviceRegister \in [Devices -> Packet]
  /\ queued \in [MPE -> BOOLEAN]

TypeOK == CommTypeOK /\ Int0!TypeOK

-----------------------------------------------------------------------------
(* DoCommBusController                                                     *)

Full(i) == commctl[i].xmitFull

\* How far the scan has to go, from currentTransmitID, to reach MPE i.
Offset(i) == (i - currentTransmitID + NMPE) % NMPE

\* Mutant: no scan, only the MPE whose turn it is.
SelectedInTurn(i) == Full(i) /\ i = currentTransmitID

\* The locked MPE keeps the bus; otherwise the first full buffer is served.
Selected(i) ==
  /\ Full(i)
  /\ IF commctl[currentTransmitID].lock
     THEN i = currentTransmitID
     ELSE \A j \in MPE : Full(j) => Offset(i) <= Offset(j)

\* Mutant: receivers cannot refuse packets.
CanReceiveClosed(t) == ~commctl[t].recvFull

CanReceive(t) == ~commctl[t].recvFull /\ ~commctl[t].recvDisable

\* Mutant: the bus sets intsrc itself, without MPE::TriggerInterrupt.
RaiseQuietly(f) ==
  /\ mpe' = [j \in MPE |-> [mpe[j] EXCEPT !.intsrc = @ \union f[j]]]
  /\ UNCHANGED <<schedule_intsrc, sleeping>>

\* The bus interrupts its users: f says with which sources.
Raise(f) == Int0!Raise(f) /\ UNCHANGED schedule_intsrc

\* Mutant: the receiver is not interrupted.
DeliverUnannounced(i) ==
  LET t == commctl[i].target IN
  /\ t \in MPE /\ CanReceive(t)
  /\ commctl' = [commctl EXCEPT ![i].xmitFull = FALSE,
                                ![t].recvFull = TRUE, ![t].sourceId = i]
  /\ commrecv' = [commrecv EXCEPT ![t] = commxmit[i]]
  /\ comminfo' = [comminfo EXCEPT ![t].from = comminfo[i].own]
  /\ pendingCommRequests' = pendingCommRequests - 1
  /\ Raise([j \in MPE |-> IF j = i THEN {INT_COMMXMIT} ELSE {}])
  /\ UNCHANGED deviceRegister

Deliver(i) ==
  LET t == commctl[i].target IN
  /\ t \in MPE /\ CanReceive(t)
  /\ commctl' = [commctl EXCEPT ![i].xmitFull = FALSE,
                                ![t].recvFull = TRUE, ![t].sourceId = i]
  /\ commrecv' = [commrecv EXCEPT ![t] = commxmit[i]]
  /\ comminfo' = [comminfo EXCEPT ![t].from = comminfo[i].own]
  /\ pendingCommRequests' = pendingCommRequests - 1
  /\ Raise([j \in MPE |-> {s \in {INT_COMMXMIT, INT_COMMRECV} :
                             \/ j = i /\ s = INT_COMMXMIT
                             \/ j = t /\ s = INT_COMMRECV}])
  /\ UNCHANGED deviceRegister

\* Mutant: a packet that is tried again later is counted as done.
RetryUncounted(i) ==
  /\ commctl[i].target \in MPE /\ ~CanReceive(commctl[i].target)
  /\ commctl[i].retry
  /\ pendingCommRequests' = pendingCommRequests - 1
  /\ UNCHANGED <<commctl, commrecv, comminfo, deviceRegister, intVars>>

RetryLater(i) ==
  /\ commctl[i].target \in MPE /\ ~CanReceive(commctl[i].target)
  /\ commctl[i].retry
  /\ UNCHANGED <<commctl, commrecv, comminfo, pendingCommRequests,
                 deviceRegister, intVars>>

Fail(i) ==
  /\ commctl[i].target \in MPE /\ ~CanReceive(commctl[i].target)
  /\ ~commctl[i].retry
  /\ commctl' = [commctl EXCEPT ![i].xmitFailed = TRUE,
                                ![i].xmitFull = FALSE]
  /\ pendingCommRequests' = pendingCommRequests - 1
  /\ UNCHANGED <<commrecv, comminfo, deviceRegister, intVars>>

ToDevice(i) ==
  LET t == commctl[i].target IN
  /\ t \notin MPE
  /\ commctl' = [commctl EXCEPT ![i].xmitFull = FALSE]
  /\ deviceRegister' = IF commxmit[i] \in WriteCommands
                       THEN [deviceRegister EXCEPT ![t] = commxmit[i]]
                       ELSE deviceRegister
  /\ pendingCommRequests' = pendingCommRequests - 1
  /\ Raise([j \in MPE |-> IF j = i THEN {INT_COMMXMIT} ELSE {}])
  /\ UNCHANGED <<commrecv, comminfo>>

\* Mutants: the scan runs past the last MPE, or always starts in one place.
AdvancePast(i) == IF commctl[currentTransmitID].lock
                  THEN currentTransmitID ELSE i + 1
AdvanceNowhere(i) == currentTransmitID

\* Where the scan starts next time.
Advance(i) == IF commctl[currentTransmitID].lock
              THEN currentTransmitID ELSE (i + 1) % NMPE

DoCommBusController ==
  /\ pendingCommRequests # 0
  /\ \E i \in MPE :
       /\ Selected(i)
       /\ Deliver(i) \/ RetryLater(i) \/ Fail(i) \/ ToDevice(i)
       /\ currentTransmitID' = Advance(i)
  /\ UNCHANGED <<commxmit, queued>>

-----------------------------------------------------------------------------
(* Packets that access the comm registers of their own MPE.                *)

\* MPE i runs a packet whose effect is on the comm registers only.
Accesses(i) == Int0!Runs(i, Int0!Now(i)) /\ UNCHANGED sleeping

MayWriteXmit(i) == i \in Senders /\ (Polls => ~Full(i))

WriteCommctl(i) ==
  /\ Accesses(i)
  /\ \E w \in CtlWords :
       commctl' = [commctl EXCEPT ![i].recvDisable = w.recvDisable,
                                  ![i].retry = w.retry,
                                  ![i].lock = w.lock,
                                  ![i].target = w.target]
  /\ UNCHANGED <<commxmit, commrecv, comminfo, currentTransmitID,
                 pendingCommRequests, deviceRegister, queued>>

WriteComminfo(i) ==
  /\ Accesses(i)
  /\ \E c \in CommInfo : comminfo' = [comminfo EXCEPT ![i].own = c]
  /\ UNCHANGED <<commctl, commxmit, commrecv, currentTransmitID,
                 pendingCommRequests, deviceRegister, queued>>

\* commxmit0 to commxmit2
WriteCommxmit(i) ==
  /\ Accesses(i) /\ MayWriteXmit(i)
  /\ \E w \in Word : commxmit' = [commxmit EXCEPT ![i].words = w]
  /\ UNCHANGED <<commctl, commrecv, comminfo, currentTransmitID,
                 pendingCommRequests, deviceRegister, queued>>

\* commxmit3, alone or as the end of a four-word store
WriteCommxmit3(i) ==
  /\ Accesses(i) /\ MayWriteXmit(i)
  /\ pendingCommRequests < MaxPending
  /\ \E p \in Packet : commxmit' = [commxmit EXCEPT ![i] = p]
  /\ commctl' = [commctl EXCEPT ![i].xmitFailed = FALSE,
                                ![i].xmitFull = TRUE]
  /\ pendingCommRequests' = pendingCommRequests + 1
  /\ UNCHANGED <<commrecv, comminfo, currentTransmitID, deviceRegister,
                 queued>>

\* Reading commrecv3 frees the buffer; a BIOS handler may queue the packet.
ReadCommrecv3(i) ==
  /\ Accesses(i)
  /\ commctl[i].recvFull
  /\ commctl' = [commctl EXCEPT ![i].recvFull = FALSE]
  /\ \/ UNCHANGED queued
     \/ i \in BiosMPE /\ queued' = [queued EXCEPT ![i] = TRUE]
  /\ UNCHANGED <<commxmit, commrecv, comminfo, currentTransmitID,
                 pendingCommRequests, deviceRegister>>

\* The program on a BIOS MPE takes the packet its handler queued.
TakeQueued(i) ==
  /\ Accesses(i)
  /\ queued[i]
  /\ queued' = [queued EXCEPT ![i] = FALSE]
  /\ UNCHANGED <<commctl, commxmit, commrecv, comminfo, currentTransmitID,
                 pendingCommRequests, deviceRegister>>

HasPacket(i) == IF i \in BiosMPE THEN queued[i] ELSE commctl[i].recvFull

\* configa written with category 1, function 1: called from user code.
WaitForCommPacket(i) ==
  /\ \/ ~HasPacket(i) /\ Int0!WaitForCommPacket(i)
     \/ /\ \/ HasPacket(i)
           \/ ~Int0!WaitStops(Int0!Now(i), Int0!Enabled(Int0!Now(i)))
        /\ Accesses(i)
  /\ UNCHANGED commVars

-----------------------------------------------------------------------------
(* Resets                                                                  *)

CommReset ==
  [ recvFull |-> FALSE, recvDisable |-> FALSE, sourceId |-> 0,
    xmitFull |-> FALSE, xmitFailed |-> FALSE, retry |-> FALSE,
    lock |-> FALSE, target |-> 0 ]

ZeroPacket == [words |-> ZERO, last |-> ZERO]

\* MPE::Reset of the processors in R, the comm registers; comminfo stays.
ResetComm(R) ==
  /\ commctl' = [i \in MPE |-> IF i \in R THEN CommReset ELSE commctl[i]]
  /\ commxmit' = [i \in MPE |-> IF i \in R THEN ZeroPacket ELSE commxmit[i]]
  /\ commrecv' = [i \in MPE |-> IF i \in R THEN ZeroPacket ELSE commrecv[i]]
  /\ UNCHANGED <<comminfo, currentTransmitID, deviceRegister, queued>>

\* MPE j writes the reset bit of MPE i's mpectl.
ResetMpe(j, i) ==
  /\ Int0!ResetMpe(j, i)
  /\ ResetComm({i})
  /\ UNCHANGED pendingCommRequests

\* A new title is loaded: every MPE is reset, and the count of requests.
ResetForReload ==
  /\ Int0!ResetForReload
  /\ ResetComm(MPE)
  /\ pendingCommRequests' = 0

Init ==
  /\ Int0!Init
  /\ commctl = [i \in MPE |-> CommReset]
  /\ commxmit = [i \in MPE |-> ZeroPacket]
  /\ commrecv = [i \in MPE |-> ZeroPacket]
  /\ \E c \in CommInfo : comminfo = [i \in MPE |-> [own |-> c, from |-> c]]
  /\ currentTransmitID = 0
  /\ pendingCommRequests = 0
  /\ deviceRegister = [d \in Devices |-> ZeroPacket]
  /\ queued = [i \in MPE |-> FALSE]

CommProgram(i) ==
  \/ WriteCommctl(i) \/ WriteComminfo(i) \/ WriteCommxmit(i)
  \/ WriteCommxmit3(i) \/ ReadCommrecv3(i) \/ TakeQueued(i)
  \/ WaitForCommPacket(i)

Next ==
  \/ DoCommBusController
  \/ \E i \in MPE : CommProgram(i)
  \/ \E i \in MPE : Int0!Program(i) /\ UNCHANGED commVars
  \/ \E j, i \in MPE : Int0!Control(j, i) /\ UNCHANGED commVars
  \/ \E j, i \in MPE : ResetMpe(j, i)
  \/ ResetForReload

Spec == Init /\ [][Next]_vars

\* The main loop calls the bus controller in every iteration.
FairSpec == Spec /\ WF_vars(DoCommBusController)

-----------------------------------------------------------------------------
(* The main loop runs the bus only while pendingCommRequests is not zero,  *)
(* so a request must never be uncounted: there are at least as many        *)
(* pending requests as full transmit buffers, through retries, failures,   *)
(* overwritten packets and resets.  The decrement never wraps either.      *)
PendingCoversFull ==
  Cardinality({i \in MPE : Full(i)}) <= pendingCommRequests

\* The sources that have been enabled since before MPE i fell asleep.
EnabledInTime(i) == Int0!Enabled(mpe[i]) \ mpe[i].enabledLate

(* An MPE that WaitForCommPacket stopped, with the receive interrupt       *)
(* enabled, has no packet: the check and the sleep are not torn apart by   *)
(* a delivery, and every delivery wakes its receiver.  Only an MPE whose   *)
(* receive interrupt another MPE enabled while it slept is not woken.      *)
SleepersHaveNoPacket ==
  \A i \in sleeping : INT_COMMRECV \in EnabledInTime(i) => ~HasPacket(i)

(* Round robin starves no sender: a packet that may not be retried leaves  *)
(* the transmit buffer, unless another sender locks the bus.               *)
TransmitDrains ==
  \A i \in MPE :
    (Full(i) /\ ~commctl[i].retry)
      ~> \/ ~Full(i) \/ commctl[i].retry
         \/ \E j \in MPE \ {i} : commctl[j].lock

(* A packet on its way to a sleeping MPE that accepts packets reaches it   *)
(* and wakes it, unless its sender changes its mind.                       *)
Awaited(i, t) ==
  /\ t \in sleeping /\ INT_COMMRECV \in EnabledInTime(t)
  /\ Full(i) /\ commctl[i].target = t /\ ~commctl[t].recvDisable
PacketWakesReceiver == \A i, t \in MPE : Awaited(i, t) ~> ~Awaited(i, t)

(* The bus uses the interrupt unit as its specification says: composed     *)
(* with it, every property of the interrupt unit stays.                    *)
ImplementsInterrupts == Int0!Spec

(* The registers implement the abstract channel when senders poll: a       *)
(* packet is never torn, duplicated, overwritten or lost without its       *)
(* sender being told, through arbitration, retries and resets.             *)
Outbox  == [i \in MPE |-> IF Full(i) THEN commxmit[i] ELSE NoPacket]
Inbox   == [i \in MPE |-> IF commctl[i].recvFull
                          THEN [from |-> commctl[i].sourceId,
                                packet |-> commrecv[i]]
                          ELSE NoPacket]
Address == [i \in MPE |-> commctl[i].target]
Closed  == {i \in MPE : commctl[i].recvDisable}
Failed  == {i \in MPE : commctl[i].xmitFailed}

Channel == INSTANCE CommChannel WITH
  outbox <- Outbox, inbox <- Inbox, address <- Address,
  closed <- Closed, failed <- Failed

ImplementsChannel == Channel!ChannelSpec
=============================================================================
