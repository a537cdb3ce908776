--------------------------- MODULE MediaCallbacks ---------------------------
(***************************************************************************)
(* The callbacks of MediaRead and MediaWrite.  A read queues its blocks on *)
(* the FIFO of the calling MPE; TickMediaCallbacks, at the end of every    *)
(* FetchDecodeExecute, copies the blocks that are due and interrupts the   *)
(* program to run a callback.  A write runs its callback at once, inside   *)
(* the BIOS call.  Both kinds return through one shim, which finds in two  *)
(* global slots, shared by all MPEs, where to resume.                      *)
(*                                                                         *)
(* Where an MPE is (its registers, stack pointer and pc) is abstracted to  *)
(* whose code it runs and how many callbacks deep.  One FetchDecodeExecute *)
(* is a packet followed by TickMediaCallbacks, with nothing in between.    *)
(***************************************************************************)
EXTENDS Naturals, Sequences, FiniteSets

CONSTANTS
  MPE,        \* the processors
  Users,      \* the ones whose programs read and write media
  Booted,     \* the ones that run after a boot
  MINIBIOS,   \* the MPE that InitBios gives to the minibios
  BLOCK,      \* MEDIA_CYCLES_PER_BLOCK
  MaxBlocks,  \* bound: blocks of one read
  Requests,   \* bound: the reads and writes that are made
  MaxDepth,   \* bound: callbacks under which a write is made
  Overlaps,   \* what happens while a callback is running: calls, a reload
  SHIM,       \* MEDIA_CB_SHIM_ADDRESS
  NONE        \* no branch, no tick

MediaConstants ==
  /\ Users \subseteq MPE /\ Booted \subseteq MPE
  /\ MINIBIOS \in MPE
  /\ BLOCK \in Nat \ {0} /\ MaxBlocks \in Nat \ {0} /\ MaxDepth \in Nat
  /\ Overlaps \subseteq {"write", "shutdown", "reload"}
  /\ NONE \notin MPE
  /\ {SHIM, NONE} \intersect [mpe : MPE, depth : Nat] = {}
  /\ SHIM # NONE

ASSUME MediaAssumption == MediaConstants

VARIABLES
  pc,        \* where each MPE is: pcexec, reg_union and sp
  branch,    \* pcfetchnext while ecuSkipCounter is not zero, or NONE
  mpego,     \* the go bit of each MPE
  fifo,      \* s_cbFifo
  async,     \* s_asyncCbActive and the s_asyncSaved variables
  sync,      \* s_cbReturnPending and s_cbSavedRz
  media_mpe, \* the MPE that ran the minibios last
  media_mpe_allocated, \* whether it still does
  ticking,   \* the MPE whose packet has run and whose tick has not
  frames,    \* history: where each MPE's callbacks have to return to
  unmade,    \* the requests not made yet
  arrived,   \* history: blocks of each read that are in memory
  told       \* history: blocks of each read that callbacks were told of

cpu == <<pc, branch, mpego>>
slots == <<async, sync>>
history == <<unmade, arrived, told>>
media == <<media_mpe, media_mpe_allocated>>
vars == <<cpu, fifo, slots, media, ticking, frames, history>>

Code == [mpe : MPE, depth : 0 .. MaxDepth + 1]
UserCode(i) == [mpe |-> i, depth |-> 0]

\* A block of a read, or a notification without data.  callback is FALSE
\* for a delivery only; covers is what the callback is told has arrived.
Entry == [read : Requests, data : BOOLEAN, callback : BOOLEAN,
          covers : 0 .. MaxBlocks, wait : 0 .. MaxBlocks * BLOCK]

TypeOK ==
  /\ pc \in [MPE -> Code \union {SHIM}]
  /\ branch \in [MPE -> Code \union {SHIM, NONE}]
  /\ mpego \in [MPE -> BOOLEAN]
  /\ DOMAIN fifo = MPE
  /\ \A i \in MPE : \A n \in DOMAIN fifo[i] : fifo[i][n] \in Entry
  /\ async \in [active : BOOLEAN, saved : Code \union {SHIM}]
  /\ sync \in [pending : BOOLEAN, savedRz : Code \union {SHIM}]
  /\ media_mpe \in MPE /\ media_mpe_allocated \in BOOLEAN
  /\ ticking \in MPE \union {NONE}
  /\ unmade \in SUBSET Requests
  /\ arrived \in [Requests -> 0 .. MaxBlocks]
  /\ told \in [Requests -> 0 .. MaxBlocks]

-----------------------------------------------------------------------------
(* Packets: the first half of a FetchDecodeExecute.                        *)

\* MPE i runs a packet, outside of the delay slots of a branch.
Runs(i) ==
  /\ ticking = NONE
  /\ mpego[i]
  /\ branch[i] = NONE
  /\ ticking' = i

Plain(i) ==
  /\ Runs(i) /\ pc[i] # SHIM
  /\ UNCHANGED <<cpu, fifo, slots, media, frames, history>>

TakenBranch(i) ==
  /\ Runs(i) /\ pc[i] # SHIM
  /\ branch' = [branch EXCEPT ![i] = pc[i]]
  /\ UNCHANGED <<pc, mpego, fifo, slots, media, frames, history>>

\* The last delay slot: the branch is resolved before the tick.
Retire(i) ==
  /\ ticking = NONE
  /\ mpego[i]
  /\ branch[i] # NONE
  /\ pc' = [pc EXCEPT ![i] = branch[i]]
  /\ branch' = [branch EXCEPT ![i] = NONE]
  /\ ticking' = i
  /\ UNCHANGED <<mpego, fifo, slots, media, frames, history>>

\* The callback MPE i is running returns to rz, with delay slots or not.
Return(i) ==
  /\ Runs(i) /\ pc[i] # SHIM /\ pc[i].depth > 0
  /\ \/ pc' = [pc EXCEPT ![i] = SHIM] /\ UNCHANGED branch
     \/ branch' = [branch EXCEPT ![i] = SHIM] /\ UNCHANGED pc
  /\ UNCHANGED <<mpego, fifo, slots, media, frames, history>>

\* A call from MPE i's program into the media BIOS.
InFlight == async.active \/ sync.pending
Calls(i) == i \in Users /\ Runs(i) /\ pc[i] # SHIM

\* Mutant: the notification of the end is queued before the blocks.
QueuedEndFirst(r, n, every, end) ==
  << [read |-> r, data |-> FALSE, callback |-> TRUE,
      covers |-> n, wait |-> n * BLOCK] >>
  \o [b \in 1 .. n |-> [read |-> r, data |-> TRUE, callback |-> every,
                        covers |-> IF every THEN b ELSE 0, wait |-> b * BLOCK]]

\* The entries a successful read of n blocks queues, with MCB_EVERY or not
\* and with MCB_END or not; neither means MCB_END.
Queued(r, n, every, end) ==
  [b \in 1 .. n |-> [read |-> r, data |-> TRUE, callback |-> every,
                     covers |-> IF every THEN b ELSE 0, wait |-> b * BLOCK]]
  \o IF end \/ ~every
     THEN << [read |-> r, data |-> FALSE, callback |-> TRUE,
              covers |-> n, wait |-> n * BLOCK] >>
     ELSE << >>

\* What MCB_ERROR reports after n blocks have been copied, due at once.
Error(r, n) == [read |-> r, data |-> FALSE, callback |-> TRUE,
                covers |-> n, wait |-> 0]

\* MediaRead of n > 0 blocks with a callback: all of them can be read, or
\* some, or none.
MediaRead(i) ==
  /\ Calls(i)
  /\ \E r \in unmade, n \in 1 .. MaxBlocks :
       /\ unmade' = unmade \ {r}
       /\ \/ /\ \E every, end \in BOOLEAN :
                  fifo' = [fifo EXCEPT ![i] = @ \o Queued(r, n, every, end)]
             /\ UNCHANGED arrived
          \/ \E short \in 0 .. n - 1 :
               /\ arrived' = [arrived EXCEPT ![r] = short]
               /\ fifo' = [fifo EXCEPT ![i] = Append(@, Error(r, short))]
  /\ UNCHANGED <<cpu, slots, media, frames, told>>

\* InvokeMediaCallback: MediaWrite, or MediaRead of no blocks, with a
\* callback.  The call returns, later, to where it was made.
MediaWrite(i) ==
  /\ Calls(i)
  /\ InFlight => "write" \in Overlaps
  /\ pc[i].depth <= MaxDepth
  /\ \E r \in unmade : unmade' = unmade \ {r}
  /\ sync' = [pending |-> TRUE, savedRz |-> pc[i]]
  /\ pc' = [pc EXCEPT ![i] = [mpe |-> i, depth |-> pc[i].depth + 1]]
  /\ frames' = [frames EXCEPT ![i] = <<pc[i]>> \o @]
  /\ UNCHANGED <<branch, mpego, fifo, async, media, arrived, told>>

\* MediaCallbackReturnShim.  When neither slot is in use the dispatcher
\* jumps to rz, which is the shim itself.
Shim(i) ==
  /\ Runs(i) /\ pc[i] = SHIM
  /\ \/ /\ async.active
        /\ pc' = [pc EXCEPT ![i] = async.saved]
        /\ async' = [async EXCEPT !.active = FALSE]
        /\ UNCHANGED sync
     \/ /\ ~async.active /\ sync.pending
        /\ pc' = [pc EXCEPT ![i] = sync.savedRz]
        /\ sync' = [sync EXCEPT !.pending = FALSE]
        /\ UNCHANGED async
     \/ /\ ~InFlight
        /\ UNCHANGED <<pc, slots>>
  /\ frames' = [frames EXCEPT ![i] = IF @ = << >> THEN @ ELSE Tail(@)]
  /\ UNCHANGED <<branch, mpego, fifo, media, history>>

-----------------------------------------------------------------------------
(* TickMediaCallbacks: the second half of a FetchDecodeExecute.            *)

\* Mutant: the distance to fireAtCycle is taken without a comparison.
AgedForever(q) == [n \in DOMAIN q |-> [q[n] EXCEPT !.wait = @ - 1]]

\* One tick brings every entry of a queue closer to its fireAtCycle.
Aged(q) == [n \in DOMAIN q |-> [q[n] EXCEPT !.wait = IF @ = 0 THEN 0 ELSE @ - 1]]

Due(e) == e.wait = 0

\* The deliveries without a callback at the head of queue q that are due.
Deliveries(q) ==
  CHOOSE k \in 0 .. Len(q) :
    /\ \A n \in 1 .. k : Due(q[n]) /\ ~q[n].callback
    /\ k < Len(q) => ~Due(q[k + 1]) \/ q[k + 1].callback

\* The blocks among the first k entries of q are in memory.
Copied(q, k) ==
  [r \in Requests |->
     arrived[r] + Cardinality({n \in 1 .. k : q[n].read = r /\ q[n].data})]

\* Mutants: the re-entry guard looks at one slot only; the delay slots of a
\* branch are not respected.
MayInterruptWrites(i) == ~async.active /\ branch[i] = NONE
MayInterruptDelaySlots(i) == ~InFlight

MayInterrupt(i) == ~InFlight /\ branch[i] = NONE

Tick(i) ==
  /\ ticking = i
  /\ ticking' = NONE
  /\ UNCHANGED <<branch, mpego, sync, media, unmade>>
  /\ IF ~mpego[i] \/ ~MayInterrupt(i)
     THEN /\ fifo' = IF mpego[i] THEN [fifo EXCEPT ![i] = Aged(@)] ELSE fifo
          /\ UNCHANGED <<pc, async, frames, arrived, told>>
     ELSE LET q == Aged(fifo[i])
              k == Deliveries(q)
              fires == k < Len(q) /\ Due(q[k + 1])
          IN IF fires
             THEN /\ fifo' = [fifo EXCEPT ![i] = SubSeq(q, k + 2, Len(q))]
                  /\ arrived' = Copied(q, k + 1)
                  /\ told' = [told EXCEPT ![q[k + 1].read] = q[k + 1].covers]
                  /\ async' = [active |-> TRUE, saved |-> pc[i]]
                  /\ pc' = [pc EXCEPT ![i] =
                              [mpe |-> i, depth |-> Len(frames[i]) + 1]]
                  /\ frames' = [frames EXCEPT ![i] = <<pc[i]>> \o @]
             ELSE /\ fifo' = [fifo EXCEPT ![i] = SubSeq(q, k + 1, Len(q))]
                  /\ arrived' = Copied(q, k)
                  /\ UNCHANGED <<pc, async, frames, told>>

-----------------------------------------------------------------------------
(* The media MPE, and loading another title.                               *)

\* MediaShutdownMPE empties the queue of the media MPE and both slots,
\* allocated or not.
MediaShutdownMPE(i) ==
  /\ Calls(i)
  /\ InFlight => "shutdown" \in Overlaps
  /\ mpego' = [mpego EXCEPT ![media_mpe] = @ /\ ~media_mpe_allocated]
  /\ fifo' = [fifo EXCEPT ![media_mpe] = << >>]
  /\ async' = [async EXCEPT !.active = FALSE]
  /\ sync' = [sync EXCEPT !.pending = FALSE]
  /\ media_mpe_allocated' = FALSE
  /\ UNCHANGED <<pc, branch, media_mpe, frames, history>>

\* MediaInitMPE(k): the minibios starts from its entry point.
StartsMinibios(k) ==
  /\ media_mpe' = k /\ media_mpe_allocated' = TRUE
  /\ pc' = [pc EXCEPT ![k] = UserCode(k)]
  /\ mpego' = [mpego EXCEPT ![k] = TRUE]
  /\ frames' = [frames EXCEPT ![k] = << >>]

\* An MPE that nobody has allocated, and that runs nothing, is taken.
MediaInitMPE(i) ==
  /\ Calls(i)
  /\ ~media_mpe_allocated
  /\ \E k \in MPE : ~mpego[k] /\ StartsMinibios(k)
  /\ UNCHANGED <<branch, fifo, slots, history>>

\* ResetForReload: the MPEs are reset, and InitBios starts the minibios.
\* A program that was not told of its data never will be.
ResetForReload ==
  /\ InFlight => "reload" \in Overlaps
  /\ ticking = NONE
  /\ pc' = [i \in MPE |-> UserCode(i)]
  /\ branch' = [i \in MPE |-> NONE]
  /\ mpego' = [i \in MPE |-> i \in Booted]
  /\ frames' = [i \in MPE |-> << >>]
  /\ media_mpe' = MINIBIOS /\ media_mpe_allocated' = TRUE
  /\ UNCHANGED <<fifo, slots, ticking, history>>

Init ==
  /\ pc = [i \in MPE |-> UserCode(i)]
  /\ branch = [i \in MPE |-> NONE]
  /\ mpego = [i \in MPE |-> i \in Booted]
  /\ fifo = [i \in MPE |-> << >>]
  /\ async = [active |-> FALSE, saved |-> SHIM]
  /\ sync = [pending |-> FALSE, savedRz |-> SHIM]
  /\ media_mpe = MINIBIOS /\ media_mpe_allocated = TRUE
  /\ ticking = NONE
  /\ frames = [i \in MPE |-> << >>]
  /\ unmade = Requests
  /\ arrived = [r \in Requests |-> 0]
  /\ told = [r \in Requests |-> 0]

Packet(i) ==
  \/ Plain(i) \/ TakenBranch(i) \/ Retire(i) \/ Return(i) \/ Shim(i)
  \/ MediaRead(i) \/ MediaWrite(i) \/ MediaShutdownMPE(i) \/ MediaInitMPE(i)

Next ==
  \/ \E i \in MPE : Packet(i) \/ Tick(i)
  \/ ResetForReload

Spec == Init /\ [][Next]_vars

\* The main loop runs every MPE in turn, whatever the others do, the
\* callbacks of a program return, and one title is the last.
Fairness ==
  /\ \A i \in MPE : SF_vars(Packet(i)) /\ WF_vars(Tick(i)) /\ SF_vars(Return(i))
  /\ <>[][~ResetForReload]_vars

FairSpec == Spec /\ Fairness

-----------------------------------------------------------------------------
(* The shim resumes the interrupted code exactly where it left off: what   *)
(* it restores is what the callback that returns had interrupted, on the   *)
(* MPE that runs it, although the saved state is shared by all MPEs.       *)
ResumesExactly ==
  [][\A i \in MPE :
       (Shim(i) /\ ticking' = i) =>
          frames[i] # << >> /\ pc'[i] = Head(frames[i])]_vars

(* A callback is told only of blocks that are in memory, whatever mix of   *)
(* notifications the reads asked for and however late they are.            *)
ToldHasArrived == \A r \in Requests : told[r] <= arrived[r]

(* Every notification is given in the end, and every callback that runs    *)
(* gives its slot back: no queue stays blocked behind a slot that is never *)
(* freed ("leave s_asyncCbActive stuck forever, hanging the app/game").    *)
NotificationsArrive ==
  /\ InFlight ~> ~InFlight
  /\ \A i \in MPE : fifo[i] # << >> ~> fifo[i] = << >>
=============================================================================
