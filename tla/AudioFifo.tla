----------------------------- MODULE AudioFifo -----------------------------
(***************************************************************************)
(* What the audio path promises: the frames of the Nuon's DMA buffer come  *)
(* out in the order they went in, each exactly once or, while the sound is *)
(* muted, as silence.  A half of the buffer goes in as a whole and only    *)
(* when there is room; an output buffer is filled up with silence when     *)
(* there is nothing left.  Opening or closing the device drops the rest.   *)
(***************************************************************************)
EXTENDS Naturals, Sequences

CONSTANTS
  Half,     \* the halves of the DMA buffer
  Frame,    \* [half, at]: a frame of the DMA buffer
  SILENCE,  \* a frame of zeros
  MaxFrames \* bound: frames of one output buffer

VARIABLES
  capacity, \* how many frames the path holds, 0 when it is closed
  queue,    \* the frames that went in and have not come out
  heard     \* the output buffer the host has got last

fvars == <<capacity, queue, heard>>

FifoTypeOK ==
  /\ capacity \in Nat
  /\ queue \in Seq(Frame)
  /\ heard \in Seq(Frame \union {SILENCE})

Silence(n) == [k \in 1 .. n |-> SILENCE]

Open == capacity' \in Nat /\ queue' = << >> /\ UNCHANGED heard

Push(half, n) ==
  /\ Len(queue) + n <= capacity
  /\ queue' = queue \o [k \in 1 .. n |-> [half |-> half, at |-> k - 1]]
  /\ UNCHANGED <<capacity, heard>>

\* The host asks for frames.
Ask == heard' = << >> /\ UNCHANGED <<capacity, queue>>

\* It gets some of the queue, or silence in its place, then silence.
Pull(n, fill) ==
  /\ n <= Len(queue)
  /\ queue' = SubSeq(queue, n + 1, Len(queue))
  /\ \/ heard' = SubSeq(queue, 1, n) \o Silence(fill)
     \/ heard' = Silence(n + fill)
  /\ UNCHANGED capacity

FifoInit == capacity = 0 /\ queue = << >> /\ heard = << >>

FifoNext ==
  \/ Open
  \/ \E half \in Half, n \in 1 .. capacity : Push(half, n)
  \/ Ask
  \/ \E n, fill \in 0 .. MaxFrames : Pull(n, fill)

FifoSpec == FifoInit /\ [][FifoNext]_fvars
=============================================================================
