----------------------------- MODULE AudioRing -----------------------------
(***************************************************************************)
(* The ring between the emulation thread, which pushes one half of the     *)
(* Nuon's DMA buffer at a time, and the audio thread of the host, whose    *)
(* callback drains whatever the device asks for.  The positions are the    *)
(* only words both threads write and read; they count frames and wrap      *)
(* around.  The BIOS calls that open and close the device run on the       *)
(* emulation thread and wait for a callback that is running.               *)
(*                                                                         *)
(* A step of a thread is one access to what they share: a position, the    *)
(* mute flag or one cell of the ring.  Stores and loads of the positions   *)
(* are release and acquire, so a thread that sees a position also sees     *)
(* what was written before it.                                             *)
(***************************************************************************)
EXTENDS Integers, Sequences

CONSTANTS
  AUDIO_RING_SLOTS,
  Periods,   \* half the values of GetBufferSize, in frames
  Rates,     \* the playback rates
  Modes,     \* the values programs give to the two interrupt bits
  MaxFrames, \* bound: frames the device asks for at once
  Wrap,      \* 2^32 bytes, in frames: where the positions wrap
  SILENCE, JUNK, IDLE

Bit == {"half", "wrap"}        \* ENABLE_HALF_INT, ENABLE_WRAP_INT
Half == {"first", "second"}
Frame == [half : Half, at : Nat]   \* a frame of the DMA buffer

ASSUME AudioAssumption ==
  /\ AUDIO_RING_SLOTS \in Nat \ {0}
  /\ Periods \subseteq Nat \ {0}
  /\ Rates \subseteq Nat \ {0}
  /\ Modes \subseteq SUBSET Bit
  /\ MaxFrames \in Nat
  /\ Wrap \in Nat \ {0}
  /\ \A p \in Periods : \E k \in 2 .. Wrap : Wrap = k * (AUDIO_RING_SLOTS * p)
  /\ \A x \in {SILENCE, JUNK, IDLE} : x \notin Frame

VARIABLES
  mode, oldMode, \* the interrupt bits of (old)nuonAudioChannelMode
  dma,           \* whether pNuonAudioBuffer is set
  rate,          \* nuonAudioPlaybackRate, 0 at first
  period,        \* nuonAudioBufferSize >> 1
  ring,          \* audioRing: its cells, none when it is null
  ringPeriod,    \* audioRingPeriodBytes
  writePos, readPos,
  deviceRate,    \* audioDeviceRate, 0 when there is no audioDevice
  muted,
  interrupt,     \* whether INT_AUDIO is pending, enabled, in some MPE
  emulation,     \* where the emulation thread is
  callback,      \* where the audio thread is
  output         \* what the device was given last

title == <<mode, oldMode, dma, rate, period, interrupt>>
host == <<ring, ringPeriod, deviceRate>>
vars == <<title, host, writePos, readPos, muted, emulation, callback, output>>

RUNS == [at |-> "runs"]

-----------------------------------------------------------------------------
(* Positions                                                               *)

\* audioRingSize
Size == AUDIO_RING_SLOTS * ringPeriod

Avail(w, r) == (w - r + Wrap) % Wrap
Later(pos, n) == (pos + n) % Wrap
Cell(pos) == pos % Size

\* Mutant: a push begins when anything is free.
HasRoomForMore == Avail(writePos, readPos) <= Size

HasRoom == Avail(writePos, readPos) + ringPeriod <= Size

-----------------------------------------------------------------------------
(* The emulation thread: TryPushAudioPeriod                                *)

\* The emulation thread is in the main loop, or runs a packet.
Runs == emulation = RUNS

\* The main loop's condition for a push, apart from the timer.
Armed == Runs /\ dma /\ mode # oldMode /\ ~interrupt

\* The half of the DMA buffer that is pushed.
Offset == IF "half" \in mode THEN "first" ELSE "second"

PushBegin ==
  /\ Armed /\ ring # << >> /\ HasRoom
  /\ emulation' = [at |-> "pushing", half |-> Offset, done |-> 0]
  /\ UNCHANGED <<title, host, writePos, readPos, muted, callback, output>>

\* ConvertNuonAudioData writes one frame.
PushFrame ==
  /\ emulation.at = "pushing" /\ emulation.done < ringPeriod
  /\ ring' = [ring EXCEPT ![Cell(writePos) + emulation.done] =
                [half |-> emulation.half, at |-> emulation.done]]
  /\ emulation' = [emulation EXCEPT !.done = @ + 1]
  /\ UNCHANGED <<title, ringPeriod, deviceRate, writePos, readPos, muted,
                 callback, output>>

\* The interrupt is raised unless the user has switched it off.
PushEnd ==
  /\ emulation.at = "pushing" /\ emulation.done = ringPeriod
  /\ writePos' = Later(writePos, ringPeriod)
  /\ oldMode' = mode
  /\ interrupt' \in {interrupt, TRUE}
  /\ emulation' = RUNS
  /\ UNCHANGED <<mode, dma, rate, period, host, readPos, muted, callback,
                 output>>

-----------------------------------------------------------------------------
(* The emulation thread: opening and closing the device                    *)

\* The wait for the audio thread in CloseAudio; next says what follows.
Close(next) ==
  /\ emulation' = [at |-> "closing", next |-> next]
  /\ muted' = (muted \/ deviceRate # 0)
  /\ UNCHANGED <<host, writePos, readPos, callback, output>>

\* Mutant: the device is stopped without a wait for its callback.
JoinedAtOnce(next) ==
  /\ emulation.at = "closing" /\ emulation.next = next
  /\ emulation' = RUNS
  /\ UNCHANGED <<callback, output>>

\* The audio thread has been joined.
Joined(next) ==
  /\ emulation.at = "closing" /\ emulation.next = next
  /\ callback = IDLE
  /\ emulation' = RUNS
  /\ UNCHANGED <<callback, output>>

\* CloseAudio gives the ring back.
Freed ==
  /\ ring' = << >> /\ ringPeriod' = 0 /\ deviceRate' = 0
  /\ writePos' = 0 /\ readPos' = 0

\* InitAudio with everything set: the device may fail to open.
Opened(r, p) ==
  /\ ring' = [c \in 0 .. AUDIO_RING_SLOTS * p - 1 |-> JUNK]
  /\ ringPeriod' = p /\ deviceRate' \in {0, r}
  /\ writePos' = 0 /\ readPos' = 0

\* It ends a mute when it opens the device, even if that does not start.
Unmuted == muted' \in {FALSE} \union {m \in {muted} : deviceRate' = 0}

\* RestartAudio, from where the audio thread has been joined.
Reopened == IF rate = 0 \/ period = 0 THEN Freed ELSE Opened(rate, period)

RestartAudio ==
  /\ Joined("restart")
  /\ Reopened
  /\ IF ring' = << >> THEN UNCHANGED muted ELSE Unmuted
  /\ UNCHANGED title

\* AudioSetSampleRate of a supported rate: the device is opened, opened
\* again at another rate, or left alone.
AudioSetSampleRate ==
  /\ Runs
  /\ \E r \in Rates :
       /\ rate' = r
       /\ \/ /\ deviceRate = 0 /\ period # 0
             /\ Opened(r, period) /\ Unmuted
             /\ UNCHANGED <<emulation, callback, output>>
          \/ /\ deviceRate \notin {0, r}
             /\ Close("restart")
          \/ /\ deviceRate = r \/ (deviceRate = 0 /\ period = 0)
             /\ UNCHANGED <<host, writePos, readPos, muted, emulation,
                            callback, output>>
  /\ UNCHANGED <<mode, oldMode, dma, period, interrupt>>

\* AudioSetChannelMode when more than the interrupt bits change.
AudioSetChannelMode ==
  /\ Runs
  /\ mode' \in Modes /\ period' \in Periods \union {0}
  /\ Close("restart")
  /\ UNCHANGED <<oldMode, dma, rate, interrupt>>

AudioReset == Runs /\ Close("reset") /\ UNCHANGED title

AudioWasReset ==
  /\ Joined("reset")
  /\ Reopened
  /\ muted' = TRUE /\ dma' = FALSE
  /\ UNCHANGED <<mode, oldMode, rate, period, interrupt>>

ResetForReload == Runs /\ Close("reload") /\ UNCHANGED title

Reloaded ==
  /\ Joined("reload")
  /\ Freed
  /\ muted' = FALSE /\ dma' = FALSE /\ interrupt' = FALSE
  /\ mode' = {} /\ oldMode' = {}
  /\ rate' = 0 /\ period' = 0

-----------------------------------------------------------------------------
(* The emulation thread: what a program sets                               *)

Sets == Runs /\ UNCHANGED <<host, writePos, readPos, emulation, callback,
                            output, oldMode, rate, period>>

\* AudioSetChannelMode, or a packet to the audio device, that changes the
\* interrupt bits only.
Arm ==
  /\ Sets
  /\ mode' \in Modes
  /\ UNCHANGED <<dma, interrupt, muted>>

AudioSetDMABuffer ==
  /\ Sets
  /\ dma' = TRUE
  /\ UNCHANGED <<mode, interrupt, muted>>

AudioMute ==
  /\ Sets
  /\ muted' \in BOOLEAN
  /\ UNCHANGED <<mode, dma, interrupt>>

\* The handler of INT_AUDIO clears it.
Acknowledge ==
  /\ Sets
  /\ interrupt' = FALSE
  /\ UNCHANGED <<mode, dma, muted>>

-----------------------------------------------------------------------------
(* The audio thread: MiniAudioDataCallback                                 *)

Silence(n) == [k \in 1 .. n |-> SILENCE]

Drains == UNCHANGED <<title, host, writePos, muted, emulation>>

\* The two positions are loaded.
CallbackBegin ==
  /\ callback = IDLE /\ deviceRate # 0
  /\ \E need \in 1 .. MaxFrames :
       LET avail == Avail(writePos, readPos)
       IN callback' = [need |-> need, frames |-> << >>, silent |-> {},
                       from |-> readPos,
                       take |-> IF need < avail THEN need ELSE avail]
  /\ output' = << >>
  /\ Drains /\ UNCHANGED readPos

\* The mute flag is loaded.
CallbackMute ==
  /\ callback # IDLE /\ callback.take > 0 /\ callback.silent = {}
  /\ callback' = [callback EXCEPT
                    !.silent = {muted},
                    !.frames = IF muted THEN Silence(callback.take) ELSE @]
  /\ Drains /\ UNCHANGED <<readPos, output>>

\* memcpy reads one frame.
CallbackFrame ==
  /\ callback # IDLE /\ callback.silent = {FALSE}
  /\ Len(callback.frames) < callback.take
  /\ callback' = [callback EXCEPT !.frames =
       Append(@, ring[Cell(callback.from + Len(callback.frames))])]
  /\ Drains /\ UNCHANGED <<readPos, output>>

\* Mutants: what is muted is not drained; the position is taken from the
\* writer, not from what was copied.
DrainedUnlessMuted == IF callback.silent = {TRUE} THEN readPos
                      ELSE Later(callback.from, callback.take)
DrainedToLatest == writePos

Drained == Later(callback.from, callback.take)

CallbackEnd ==
  /\ callback # IDLE /\ Len(callback.frames) = callback.take
  /\ readPos' = Drained
  /\ output' = callback.frames \o Silence(callback.need - callback.take)
  /\ callback' = IDLE
  /\ Drains

-----------------------------------------------------------------------------
Init ==
  /\ mode = {} /\ oldMode = {} /\ dma = FALSE /\ interrupt = FALSE
  /\ rate = 0 /\ period = 0
  /\ ring = << >> /\ ringPeriod = 0 /\ deviceRate = 0
  /\ writePos = 0 /\ readPos = 0
  /\ muted = FALSE
  /\ emulation = RUNS /\ callback = IDLE /\ output = << >>

Push == PushBegin \/ PushFrame \/ PushEnd
Callback == CallbackBegin \/ CallbackMute \/ CallbackFrame \/ CallbackEnd
Calls ==
  \/ AudioSetSampleRate \/ AudioSetChannelMode \/ AudioReset
  \/ ResetForReload \/ Arm \/ AudioSetDMABuffer \/ AudioMute \/ Acknowledge

Next ==
  \/ Push \/ Callback \/ Calls
  \/ RestartAudio \/ AudioWasReset \/ Reloaded

Spec == Init /\ [][Next]_vars

\* The main loop tries to push in every iteration, and the host calls the
\* callback while the device is open.
FairSpec == Spec /\ WF_vars(Push) /\ WF_vars(Callback)

-----------------------------------------------------------------------------
\* The cells of the ring a push has still to write, and those a callback
\* has still to read.
PushCells ==
  IF emulation.at = "pushing"
  THEN {Cell(writePos) + k : k \in emulation.done .. ringPeriod - 1} ELSE {}
CallbackCells ==
  IF callback = IDLE \/ callback.silent = {TRUE} THEN {}
  ELSE {Cell(callback.from + k) :
          k \in Len(callback.frames) .. callback.take - 1}

TypeOK ==
  /\ mode \in SUBSET Bit /\ oldMode \in SUBSET Bit
  /\ dma \in BOOLEAN /\ muted \in BOOLEAN /\ interrupt \in BOOLEAN
  /\ rate \in Rates \union {0} /\ deviceRate \in Rates \union {0}
  /\ period \in Periods \union {0} /\ ringPeriod \in Periods \union {0}
  /\ ring \in [0 .. Size - 1 -> Frame \union {JUNK}]
  /\ writePos \in 0 .. Wrap - 1 /\ readPos \in 0 .. Wrap - 1
  /\ Avail(writePos, readPos) <= Size

(* The two threads never touch the same cell, and a callback only runs     *)
(* while its ring exists: no frame is torn, and CloseAudio frees nothing   *)
(* that is in use.                                                         *)
NoDataRace ==
  /\ PushCells \intersect CallbackCells = {}
  /\ PushCells \union CallbackCells \subseteq DOMAIN ring
  /\ callback # IDLE => ring # << >>

(* The ring is the FIFO that AudioFifo describes, across the wrap of the   *)
(* ring and of the positions, and when the device is closed and opened     *)
(* again under a callback.                                                 *)
Fifo == INSTANCE AudioFifo WITH
  capacity <- Size,
  queue <- [k \in 1 .. Avail(writePos, readPos) |->
              ring[Cell(readPos + k - 1)]],
  heard <- output
ImplementsFifo == Fifo!FifoSpec

(* Back-pressure ends: when a program has armed the next boundary and the  *)
(* device is open, room is made and the half is pushed.                    *)
ArmedIsPushed == (Armed /\ deviceRate # 0) ~> ~(Armed /\ deviceRate # 0)
=============================================================================
