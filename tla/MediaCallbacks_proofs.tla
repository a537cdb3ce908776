------------------------ MODULE MediaCallbacks_proofs ------------------------
(***************************************************************************)
(* The shim of media.cpp resumes what was interrupted, for any number of   *)
(* MPEs, requests and blocks, as long as no program calls into the media   *)
(* BIOS for a callback, or shuts the minibios down, while a callback runs  *)
(* anywhere, and none is running when another title is loaded.             *)
(*                                                                         *)
(* The two slots are global, so the invariant has to say more than what is *)
(* in them: one callback at a time, on one MPE, with what it interrupted   *)
(* in the slot in use and every other MPE in its own program.              *)
(*                                                                         *)
(* What callbacks are told needs none of that: notifications are queued    *)
(* after the blocks they speak of, and QueuesOK relates the two.           *)
(***************************************************************************)
EXTENDS MediaCallbacks, FunctionTheorems, FiniteSetTheorems, SequenceTheorems, TLAPS

USE DEF MediaConstants

Place == [mpe : MPE, depth : Nat]

CallbackCode(i) == [mpe |-> i, depth |-> 1]

\* The functions and records that control is kept in.
Shape ==
  /\ pc \in [MPE -> Place \union {SHIM}]
  /\ branch \in [MPE -> Place \union {SHIM, NONE}]
  /\ mpego \in [MPE -> BOOLEAN]
  /\ frames \in [MPE -> Seq(Place \union {SHIM})]
  /\ async \in [active : BOOLEAN, saved : Place \union {SHIM}]
  /\ sync \in [pending : BOOLEAN, savedRz : Place \union {SHIM}]

\* An MPE is in its program, or in a callback of it.
Placed ==
  \A i \in MPE :
    \/ /\ frames[i] = << >>
       /\ pc[i] = UserCode(i) /\ branch[i] \in {NONE, UserCode(i)}
    \/ /\ frames[i] = <<UserCode(i)>>
       /\ mpego[i]
       /\ \/ pc[i] = SHIM /\ branch[i] = NONE
          \/ pc[i] = CallbackCode(i) /\ branch[i] \in {NONE, SHIM, CallbackCode(i)}

\* The callback that runs is the one of MPE i, and saved is what it left.
OnlyCallback(i, saved) ==
  /\ saved = UserCode(i)
  /\ frames[i] = <<UserCode(i)>>
  /\ \A j \in MPE \ {i} : frames[j] = << >>

\* At most one callback runs, and the slot in use is the one of its kind.
OneCallback ==
  /\ ~(async.active /\ sync.pending)
  /\ ~InFlight => \A i \in MPE : frames[i] = << >>
  /\ async.active => \E i \in MPE : OnlyCallback(i, async.saved)
  /\ sync.pending => \E i \in MPE : OnlyCallback(i, sync.savedRz)

IInv == Shape /\ Placed /\ OneCallback

-----------------------------------------------------------------------------
(* Facts about the invariant.                                              *)

LEMMA CodeIsNoMark ==
  ASSUME NEW i \in MPE
  PROVE  /\ UserCode(i) \in Place /\ CallbackCode(i) \in Place
         /\ UserCode(i).depth = 0 /\ CallbackCode(i).depth = 1
         /\ UserCode(i) # SHIM /\ UserCode(i) # NONE
         /\ CallbackCode(i) # SHIM /\ CallbackCode(i) # NONE
         /\ SHIM # NONE /\ UserCode(i) # CallbackCode(i)
<1>1. UserCode(i) \in Place /\ CallbackCode(i) \in Place
  BY DEF UserCode, CallbackCode, Place
<1>2. SHIM \notin Place /\ NONE \notin Place /\ SHIM # NONE
  BY MediaAssumption DEF Place
<1>3. UserCode(i).depth = 0 /\ CallbackCode(i).depth = 1
  BY DEF UserCode, CallbackCode
<1>4. QED
  BY <1>1, <1>2, <1>3

\* Outside of callbacks every MPE is in its own program.
LEMMA QuietWithoutCallback ==
  ASSUME IInv, ~InFlight, NEW i \in MPE
  PROVE  /\ frames[i] = << >> /\ pc[i] = UserCode(i)
         /\ branch[i] \in {NONE, UserCode(i)}
BY DEF IInv, Placed, OneCallback

\* The MPE that runs the shim is the one whose callback runs.
LEMMA ShimRunsOnItsMPE ==
  ASSUME IInv, NEW i \in MPE, pc[i] = SHIM
  PROVE  /\ InFlight
         /\ frames[i] = <<UserCode(i)>>
         /\ async.active => OnlyCallback(i, async.saved)
         /\ sync.pending => OnlyCallback(i, sync.savedRz)
<1>1. frames[i] = <<UserCode(i)>> /\ frames[i] # << >>
  BY CodeIsNoMark DEF IInv, Placed
<1>2. InFlight
  BY <1>1 DEF IInv, OneCallback
<1>3. ASSUME NEW saved, NEW k \in MPE, OnlyCallback(k, saved)
      PROVE  OnlyCallback(i, saved)
  BY <1>1, <1>3 DEF OnlyCallback
<1>4. QED
  BY <1>1, <1>2, <1>3 DEF IInv, OneCallback

-----------------------------------------------------------------------------
(* The invariant holds, and every operation keeps it.                      *)

LEMMA InitInvariant == Init => IInv
BY CodeIsNoMark
   DEF Init, IInv, Shape, Placed, OneCallback, InFlight, Place, UserCode

LEMMA UnchangedInvariant ==
  IInv /\ UNCHANGED <<cpu, slots, frames>> => IInv'
BY SMTT(30) DEF IInv, Shape, Placed, OneCallback, OnlyCallback, InFlight, cpu, slots

\* What a branch in the code of an MPE does to the invariant: nothing.
LEMMA BranchInvariant ==
  ASSUME IInv, NEW i \in MPE,
         TakenBranch(i) \/ Retire(i) \/ Return(i)
  PROVE  IInv'
<1>1. UNCHANGED <<mpego, frames, slots>>
  BY DEF TakenBranch, Retire, Return, slots
<1>2. /\ UserCode(i) \in Place /\ CallbackCode(i) \in Place
      /\ pc \in [MPE -> Place \union {SHIM}]
      /\ branch \in [MPE -> Place \union {SHIM, NONE}]
  BY CodeIsNoMark DEF IInv, Shape
<1>3. /\ pc' \in [MPE -> Place \union {SHIM}]
      /\ branch' \in [MPE -> Place \union {SHIM, NONE}]
  BY <1>2 DEF TakenBranch, Retire, Return
<1>4. Shape'
  BY <1>1, <1>3 DEF IInv, Shape, slots
<1>5. OneCallback'
  BY <1>1 DEF IInv, OneCallback, OnlyCallback, InFlight, slots
<1>6. \A j \in MPE \ {i} : pc'[j] = pc[j] /\ branch'[j] = branch[j]
  BY <1>2 DEF TakenBranch, Retire, Return
<1>7. CASE frames[i] = << >>
  <2>1. pc[i] = UserCode(i) /\ branch[i] \in {NONE, UserCode(i)}
    BY <1>7 DEF IInv, Placed
  <2>2. ~Return(i)
    BY <2>1, CodeIsNoMark DEF Return
  <2>3. pc'[i] = UserCode(i) /\ branch'[i] \in {NONE, UserCode(i)}
    BY <1>2, <2>1, <2>2 DEF TakenBranch, Retire
  <2>4. Placed'
    BY <1>1, <1>6, <1>7, <2>3 DEF IInv, Placed, UserCode, CallbackCode
  <2>5. QED
    BY <1>4, <1>5, <2>4 DEF IInv
<1>8. CASE frames[i] # << >>
  <2>1. /\ frames[i] = <<UserCode(i)>> /\ mpego[i]
        /\ \/ pc[i] = SHIM /\ branch[i] = NONE
           \/ pc[i] = CallbackCode(i) /\ branch[i] \in {NONE, SHIM, CallbackCode(i)}
    BY <1>8 DEF IInv, Placed
  <2>2. \/ pc'[i] = SHIM /\ branch'[i] = NONE
        \/ pc'[i] = CallbackCode(i) /\ branch'[i] \in {NONE, SHIM, CallbackCode(i)}
    <3>1. CASE TakenBranch(i)
      BY <1>2, <2>1, <3>1 DEF TakenBranch, Runs
    <3>2. CASE Retire(i)
      BY <1>2, <2>1, <3>2, CodeIsNoMark DEF Retire
    <3>3. CASE Return(i)
      BY <1>2, <2>1, <3>3 DEF Return, Runs
    <3>4. QED
      BY <3>1, <3>2, <3>3
  <2>3. Placed'
    BY <1>1, <1>6, <2>1, <2>2 DEF IInv, Placed, UserCode, CallbackCode
  <2>4. QED
    BY <1>4, <1>5, <2>3 DEF IInv
<1>9. QED
  BY <1>7, <1>8

\* A callback starts on MPE i, which was in its program.
LEMMA StartInvariant ==
  ASSUME IInv, NEW i \in MPE, ~InFlight, mpego[i], branch[i] = NONE,
         pc' = [pc EXCEPT ![i] = CallbackCode(i)],
         frames' = [frames EXCEPT ![i] = <<pc[i]>> \o @],
         UNCHANGED <<branch, mpego>>,
         \/ async' = [active |-> TRUE, saved |-> pc[i]] /\ UNCHANGED sync
         \/ sync' = [pending |-> TRUE, savedRz |-> pc[i]] /\ UNCHANGED async
  PROVE  IInv'
<1>1. \A j \in MPE : /\ frames[j] = << >> /\ pc[j] = UserCode(j)
                     /\ branch[j] \in {NONE, UserCode(j)}
  BY QuietWithoutCallback
<1>2. UserCode(i) \in Place /\ CallbackCode(i) \in Place /\ pc[i] = UserCode(i)
  BY <1>1, CodeIsNoMark
<1>3. frames' = [frames EXCEPT ![i] = <<UserCode(i)>>]
  <2>1. <<UserCode(i)>> \o << >> = <<UserCode(i)>>
    <3>1. <<UserCode(i)>> \in Seq(Place)
      BY <1>2
    <3>2. QED
      BY <3>1
  <2>2. <<pc[i]>> \o frames[i] = <<UserCode(i)>>
    BY <1>1, <1>2, <2>1, Zenon
  <2>3. QED
    BY <2>2, Zenon
<1>4. Shape'
  <2>1. <<UserCode(i)>> \in Seq(Place \union {SHIM})
    BY <1>2
  <2>2. frames' \in [MPE -> Seq(Place \union {SHIM})]
    BY <1>3, <2>1 DEF IInv, Shape
  <2>3. pc' \in [MPE -> Place \union {SHIM}]
    BY <1>2 DEF IInv, Shape
  <2>4. /\ async' \in [active : BOOLEAN, saved : Place \union {SHIM}]
        /\ sync' \in [pending : BOOLEAN, savedRz : Place \union {SHIM}]
    <3>1. pc[i] \in Place \union {SHIM}
      BY <1>2
    <3>2. /\ async \in [active : BOOLEAN, saved : Place \union {SHIM}]
          /\ sync \in [pending : BOOLEAN, savedRz : Place \union {SHIM}]
      BY DEF IInv, Shape
    <3>3. /\ [active |-> TRUE, saved |-> pc[i]]
               \in [active : BOOLEAN, saved : Place \union {SHIM}]
          /\ [pending |-> TRUE, savedRz |-> pc[i]]
               \in [pending : BOOLEAN, savedRz : Place \union {SHIM}]
      BY <3>1
    <3>4. QED
      BY <3>2, <3>3
  <2>5. QED
    BY <2>2, <2>3, <2>4 DEF IInv, Shape
<1>5. frames'[i] = <<UserCode(i)>> /\ \A j \in MPE \ {i} : frames'[j] = << >>
  BY <1>1, <1>3 DEF IInv, Shape
<1>6. Placed'
  <2>1. pc'[i] = CallbackCode(i) /\ \A j \in MPE \ {i} : pc'[j] = pc[j]
    BY DEF IInv, Shape
  <2>2. QED
    BY <1>1, <1>5, <2>1 DEF IInv, Placed, UserCode, CallbackCode
<1>7. OneCallback'
  <2>1. ~async.active /\ ~sync.pending
    BY DEF InFlight
  <2>2. UserCode(i)' = UserCode(i)
    BY DEF UserCode
  <2>3. CASE async' = [active |-> TRUE, saved |-> pc[i]] /\ UNCHANGED sync
    <3>1. async'.active /\ ~sync'.pending /\ async'.saved = UserCode(i)
      BY <1>2, <2>1, <2>3
    <3>2. OnlyCallback(i, async.saved)'
      BY <1>5, <2>2, <3>1 DEF OnlyCallback
    <3>3. QED
      BY <3>1, <3>2 DEF OneCallback, InFlight
  <2>4. CASE sync' = [pending |-> TRUE, savedRz |-> pc[i]] /\ UNCHANGED async
    <3>1. sync'.pending /\ ~async'.active /\ sync'.savedRz = UserCode(i)
      BY <1>2, <2>1, <2>4
    <3>2. OnlyCallback(i, sync.savedRz)'
      BY <1>5, <2>2, <3>1 DEF OnlyCallback
    <3>3. QED
      BY <3>1, <3>2 DEF OneCallback, InFlight
  <2>5. QED
    BY <2>3, <2>4
<1>8. QED
  BY <1>4, <1>6, <1>7 DEF IInv

\* The shim empties the slot in use, and its MPE is in its program again.
LEMMA ShimInvariant ==
  ASSUME IInv, NEW i \in MPE, Shim(i)
  PROVE  IInv' /\ pc'[i] = Head(frames[i]) /\ frames[i] # << >>
<1>1. pc[i] = SHIM
  BY DEF Shim
<1>2. /\ InFlight /\ frames[i] = <<UserCode(i)>>
      /\ async.active => OnlyCallback(i, async.saved)
      /\ sync.pending => OnlyCallback(i, sync.savedRz)
  BY <1>1, ShimRunsOnItsMPE
<1>3. /\ UserCode(i) \in Place
      /\ Head(<<UserCode(i)>>) = UserCode(i) /\ Tail(<<UserCode(i)>>) = << >>
      /\ << >> # <<UserCode(i)>>
  BY CodeIsNoMark
<1>4. \A j \in MPE \ {i} : frames[j] = << >>
  BY <1>2 DEF OnlyCallback, InFlight
<1>5. pc' = [pc EXCEPT ![i] = UserCode(i)]
  BY <1>2 DEF Shim, OnlyCallback, InFlight
<1>6. frames' = [frames EXCEPT ![i] = << >>]
  BY <1>2, <1>3, Zenon DEF Shim
<1>7. UNCHANGED <<branch, mpego>>
  BY DEF Shim
<1>8. /\ async' \in [active : BOOLEAN, saved : Place \union {SHIM}]
      /\ sync' \in [pending : BOOLEAN, savedRz : Place \union {SHIM}]
      /\ ~InFlight'
  BY <1>2 DEF IInv, Shape, OneCallback, Shim, InFlight
<1>9. Shape'
  <2>1. << >> \in Seq(Place \union {SHIM})
    OBVIOUS
  <2>2. QED
    BY <1>3, <1>5, <1>6, <1>7, <1>8, <2>1 DEF IInv, Shape
<1>10. \A j \in MPE : frames'[j] = << >>
  BY <1>4, <1>6 DEF IInv, Shape
<1>11. Placed'
  <2>1. pc'[i] = UserCode(i) /\ \A j \in MPE \ {i} : pc'[j] = pc[j]
    BY <1>5 DEF IInv, Shape
  <2>2. branch[i] = NONE
    BY DEF Shim, Runs
  <2>3. QED
    BY <1>4, <1>7, <1>10, <2>1, <2>2, ZenonT(60) DEF IInv, Placed, UserCode, CallbackCode
<1>12. OneCallback'
  BY <1>8, <1>10 DEF OneCallback, InFlight
<1>13. pc'[i] = UserCode(i)
  BY <1>5 DEF IInv, Shape
<1>14. QED
  BY <1>2, <1>3, <1>9, <1>11, <1>12, <1>13 DEF IInv

\* The minibios stops between callbacks, and starts on a halted MPE.
LEMMA MinibiosInvariant ==
  ASSUME Overlaps = {}, IInv, NEW i \in MPE,
         MediaShutdownMPE(i) \/ MediaInitMPE(i)
  PROVE  IInv'
<1>1. CASE MediaShutdownMPE(i)
  <2>1. ~InFlight /\ UNCHANGED <<pc, branch, frames>>
    BY <1>1 DEF MediaShutdownMPE
  <2>2. \A j \in MPE : frames[j] = << >>
    BY <2>1, QuietWithoutCallback
  <2>3. /\ async' = [async EXCEPT !.active = FALSE]
        /\ sync' = [sync EXCEPT !.pending = FALSE]
        /\ mpego' = [mpego EXCEPT ![media_mpe] = @ /\ ~media_mpe_allocated]
    BY <1>1 DEF MediaShutdownMPE
  <2>4. Shape'
    <3>1. \A j \in MPE : (mpego[j] /\ ~media_mpe_allocated) \in BOOLEAN
      OBVIOUS
    <3>2. mpego' \in [MPE -> BOOLEAN]
      BY <2>3, <3>1 DEF IInv, Shape
    <3>3. QED
      BY <2>1, <2>3, <3>2 DEF IInv, Shape
  <2>5. ~async'.active /\ ~sync'.pending
    BY <2>3 DEF IInv, Shape
  <2>6. Placed' /\ OneCallback'
    <3>1. \A j \in MPE : pc[j] = UserCode(j) /\ branch[j] \in {NONE, UserCode(j)}
      BY <2>1, QuietWithoutCallback
    <3>2. QED
      BY <2>1, <2>2, <2>5, <3>1 DEF Placed, OneCallback, InFlight, UserCode
  <2>7. QED
    BY <2>4, <2>6 DEF IInv
<1>2. CASE MediaInitMPE(i)
  <2>1. PICK k \in MPE : ~mpego[k] /\ StartsMinibios(k)
    BY <1>2 DEF MediaInitMPE
  <2>2. frames[k] = << >> /\ pc[k] = UserCode(k)
    BY <2>1 DEF IInv, Placed
  <2>3. UNCHANGED <<branch, async, sync>>
    BY <1>2 DEF MediaInitMPE, slots
  <2>4. pc' = pc /\ frames' = frames /\ mpego' = [mpego EXCEPT ![k] = TRUE]
    BY <2>1, <2>2 DEF StartsMinibios, IInv, Shape
  <2>5. Shape' /\ \A j \in MPE : mpego[j] => mpego'[j]
    BY <2>3, <2>4 DEF IInv, Shape
  <2>6. Placed' /\ OneCallback'
    BY <2>3, <2>4, <2>5
       DEF IInv, Placed, OneCallback, OnlyCallback, InFlight, UserCode, CallbackCode
  <2>7. QED
    BY <2>5, <2>6 DEF IInv
<1>3. QED
  BY <1>1, <1>2

\* A tick leaves control alone, or starts a callback.
LEMMA TickInvariant ==
  ASSUME IInv, NEW i \in MPE, Tick(i)
  PROVE  IInv'
<1>1. UNCHANGED <<branch, mpego, sync>>
  BY DEF Tick
<1>2. CASE UNCHANGED <<pc, async, frames>>
  BY <1>1, <1>2, UnchangedInvariant DEF cpu, slots
<1>3. CASE ~UNCHANGED <<pc, async, frames>>
  <2>1. /\ mpego[i] /\ MayInterrupt(i)
        /\ async' = [active |-> TRUE, saved |-> pc[i]]
        /\ pc' = [pc EXCEPT ![i] = [mpe |-> i, depth |-> Len(frames[i]) + 1]]
        /\ frames' = [frames EXCEPT ![i] = <<pc[i]>> \o @]
    BY <1>3 DEF Tick
  <2>2. ~InFlight /\ branch[i] = NONE
    BY <2>1 DEF MayInterrupt
  <2>3. [mpe |-> i, depth |-> Len(frames[i]) + 1] = CallbackCode(i)
    <3>1. frames[i] = << >>
      BY <2>2, QuietWithoutCallback
    <3>2. Len(frames[i]) + 1 = 1
      BY <3>1
    <3>3. QED
      BY <3>2, Zenon DEF CallbackCode
  <2>4. pc' = [pc EXCEPT ![i] = CallbackCode(i)]
    BY <2>1, <2>3, Zenon
  <2>5. QED
    BY <1>1, <2>1, <2>2, <2>4, StartInvariant
<1>4. QED
  BY <1>2, <1>3

LEMMA WriteInvariant ==
  ASSUME Overlaps = {}, IInv, NEW i \in MPE, MediaWrite(i)
  PROVE  IInv'
<1>1. ~InFlight /\ mpego[i] /\ branch[i] = NONE
  BY DEF MediaWrite, Calls, Runs
<1>2. pc[i].depth + 1 = 1
  BY <1>1, QuietWithoutCallback, CodeIsNoMark
<1>3. [mpe |-> i, depth |-> pc[i].depth + 1] = CallbackCode(i)
  BY <1>2, Zenon DEF CallbackCode
<1>4. pc' = [pc EXCEPT ![i] = CallbackCode(i)]
  BY <1>3, Zenon DEF MediaWrite
<1>5. /\ frames' = [frames EXCEPT ![i] = <<pc[i]>> \o @]
      /\ sync' = [pending |-> TRUE, savedRz |-> pc[i]]
      /\ UNCHANGED <<branch, mpego, async>>
  BY DEF MediaWrite
<1>6. QED
  BY <1>1, <1>4, <1>5, StartInvariant

\* A reload while no callback runs starts from user code everywhere.
LEMMA ReloadInvariant ==
  ASSUME Overlaps = {}, IInv, ResetForReload
  PROVE  IInv'
<1>1. /\ ~InFlight /\ UNCHANGED <<async, sync>>
      /\ pc' = [i \in MPE |-> UserCode(i)]
      /\ branch' = [i \in MPE |-> NONE]
      /\ mpego' = [i \in MPE |-> i \in Booted]
      /\ frames' = [i \in MPE |-> << >>]
  BY DEF ResetForReload, slots
<1>2. Shape'
  BY <1>1, CodeIsNoMark DEF IInv, Shape
<1>3. Placed'
  BY <1>1 DEF Placed, UserCode
<1>4. OneCallback'
  BY <1>1 DEF OneCallback, InFlight
<1>5. QED
  BY <1>2, <1>3, <1>4 DEF IInv

LEMMA StepInvariant ==
  ASSUME Overlaps = {}, IInv, [Next]_vars
  PROVE  IInv'
<1>1. ASSUME NEW i \in MPE, Packet(i)
      PROVE  IInv'
  <2>1. CASE Plain(i) \/ MediaRead(i)
    BY <2>1, UnchangedInvariant DEF Plain, MediaRead
  <2>2. CASE TakenBranch(i) \/ Retire(i) \/ Return(i)
    BY <2>2, BranchInvariant
  <2>3. CASE Shim(i)
    BY <2>3, ShimInvariant
  <2>4. CASE MediaWrite(i)
    BY <2>4, WriteInvariant
  <2>5. CASE MediaShutdownMPE(i) \/ MediaInitMPE(i)
    BY <2>5, MinibiosInvariant
  <2>6. QED
    BY <1>1, <2>1, <2>2, <2>3, <2>4, <2>5 DEF Packet
<1>2. ASSUME NEW i \in MPE, Tick(i)
      PROVE  IInv'
  BY <1>2, TickInvariant
<1>3. CASE UNCHANGED vars
  BY <1>3, UnchangedInvariant DEF vars
<1>4. CASE ResetForReload
  BY <1>4, ReloadInvariant
<1>5. QED
  BY <1>1, <1>2, <1>3, <1>4 DEF Next

(* At any time at most one callback runs, and the slot of its kind, and no *)
(* other, holds what it interrupted (media.cpp:67-70 and 94-103).          *)
THEOREM CallbacksTakeTurns ==
  ASSUME Overlaps = {}
  PROVE  Spec => []IInv
<1>1. Init => IInv
  BY InitInvariant
<1>2. IInv /\ [Next]_vars => IInv'
  BY StepInvariant
<1>3. QED
  BY <1>1, <1>2, PTL DEF Spec

(* The shim resumes the interrupted code exactly where it left off         *)
(* (MediaCallbackReturnShim, media.cpp:106-133), on the MPE that was       *)
(* interrupted, when no call is made while a callback runs.                *)
THEOREM ShimResumesInterrupted ==
  ASSUME Overlaps = {}
  PROVE  Spec => ResumesExactly
<1>1. IInv => [\A i \in MPE : (Shim(i) /\ ticking' = i) =>
                 frames[i] # << >> /\ pc'[i] = Head(frames[i])]_vars
  BY ShimInvariant
<1>2. QED
  BY CallbacksTakeTurns, <1>1, PTL DEF ResumesExactly
-----------------------------------------------------------------------------
(* What callbacks are told.  A queue is judged against the blocks that     *)
(* are in memory: what an entry covers has arrived, or is queued before    *)
(* it, and all of a read together is at most MaxBlocks.                    *)

Blocks(q, k, r) == {n \in 1 .. k : q[n].read = r /\ q[n].data}

Count(q, k, r) == Cardinality(Blocks(q, k, r))

QueueOK(q, arr) ==
  /\ \A r \in Requests : arr[r] + Count(q, Len(q), r) <= MaxBlocks
  /\ \A n \in 1 .. Len(q) : q[n].covers <= arr[q[n].read] + Count(q, n, q[n].read)

\* The queue of an MPE has entries of the reads it has made only.
Absent(r, q) == \A n \in 1 .. Len(q) : q[n].read # r

\* Reads are made once, so that no two queues have entries of one of them.
QueuesOK ==
  /\ fifo \in [MPE -> Seq(Entry)]
  /\ unmade \in SUBSET Requests
  /\ arrived \in [Requests -> 0 .. MaxBlocks]
  /\ told \in [Requests -> 0 .. MaxBlocks]
  /\ \A i \in MPE : QueueOK(fifo[i], arrived)
  /\ \A i, j \in MPE : \A r \in Requests :
       i # j => Absent(r, fifo[i]) \/ Absent(r, fifo[j])
  /\ \A r \in unmade : /\ arrived[r] = 0 /\ told[r] = 0
                       /\ \A i \in MPE : Absent(r, fifo[i])
  /\ ToldHasArrived

\* Every set of naturals has a least element: intervals are well founded.
LEMMA LeastNatural ==
  ASSUME NEW T \in SUBSET Nat, T # {}
  PROVE  \E m \in T : \A k \in T : m <= k
<1> DEFINE R == StrictSubsetOrdering(Nat)
           S == FiniteSubsetsOf(Nat)
           I == {0 .. k : k \in T}
<1>1. \A k \in T : 0 .. k \in S
  BY FS_Interval DEF FiniteSubsetsOf
<1>2. IsWellFoundedOn(R, S)
  BY FS_StrictSubsetOrderingWellFounded
<1>3. I \subseteq S /\ I # {}
  BY <1>1
<1> HIDE DEF R, S
<1>4. PICK x \in I : \A y \in I : <<y, x>> \notin R
  BY <1>2, <1>3, WFMin
<1>5. PICK m \in T : x = 0 .. m
  BY <1>4
<1>6. ASSUME NEW k \in T, k < m PROVE FALSE
  <2>1. 0 .. k \subseteq 0 .. m /\ m \in 0 .. m /\ m \notin 0 .. k
    BY <1>6
  <2>2. <<0 .. k, 0 .. m>> \in R
    BY <2>1 DEF StrictSubsetOrdering, R
  <2>3. QED
    BY <1>4, <1>5, <2>2
<1>7. QED
  BY <1>6

\* The loop of TickMediaCallbacks over deliveries ends within the queue.
LEMMA DeliveriesInQueue ==
  ASSUME NEW q, Len(q) \in Nat
  PROVE  Deliveries(q) \in 0 .. Len(q)
<1> DEFINE Passes(k) == \A n \in 1 .. k : Due(q[n]) /\ ~q[n].callback
           Left == {Len(q) - k : k \in {k \in 0 .. Len(q) : Passes(k)}}
<1>1. Passes(0)
  OBVIOUS
<1>2. Left \in SUBSET Nat /\ Left # {}
  BY <1>1
<1>3. PICK m \in Left : \A l \in Left : m <= l
  BY <1>2, LeastNatural
<1>4. PICK k \in 0 .. Len(q) : Passes(k) /\ m = Len(q) - k
  BY <1>3
<1>5. ASSUME k < Len(q), Due(q[k + 1]), ~q[k + 1].callback PROVE FALSE
  <2>1. Passes(k + 1) /\ k + 1 \in 0 .. Len(q)
    BY <1>4, <1>5
  <2>2. Len(q) - (k + 1) \in Left
    BY <2>1
  <2> HIDE DEF Left
  <2>3. m <= Len(q) - (k + 1)
    BY <1>3, <2>2
  <2>4. QED
    BY <1>4, <2>3
<1> DEFINE Stops(l) == /\ \A n \in 1 .. l : Due(q[n]) /\ ~q[n].callback
                       /\ l < Len(q) => ~Due(q[l + 1]) \/ q[l + 1].callback
           Lengths == 0 .. Len(q)
<1>6. \E l \in Lengths : Stops(l)
  BY <1>4, <1>5
<1>7. Deliveries(q) = CHOOSE l \in Lengths : Stops(l)
  BY DEF Deliveries
<1>8. Deliveries(q) \in Lengths
  <2> HIDE DEF Stops, Lengths
  <2>1. QED
    BY <1>6, <1>7, Zenon
<1>9. QED
  BY <1>8

LEMMA CountType ==
  ASSUME NEW q, NEW k \in Nat, NEW r
  PROVE  /\ IsFiniteSet(Blocks(q, k, r)) /\ Count(q, k, r) \in Nat
         /\ Blocks(q, k, r) = {} => Count(q, k, r) = 0
<1>1. IsFiniteSet(1 .. k) /\ Blocks(q, k, r) \in SUBSET (1 .. k)
  BY FS_Interval DEF Blocks
<1>2. IsFiniteSet(Blocks(q, k, r))
  BY <1>1, FS_Subset
<1>3. QED
  BY <1>2, FS_CardinalityType, FS_EmptySet DEF Count

LEMMA CountGrows ==
  ASSUME NEW q, NEW k \in Nat, NEW l \in Nat, k <= l, NEW r
  PROVE  Count(q, k, r) <= Count(q, l, r)
<1>1. Blocks(q, k, r) \in SUBSET Blocks(q, l, r)
  BY DEF Blocks
<1>2. QED
  BY <1>1, CountType, FS_Subset DEF Count

\* The blocks behind the first k entries are those of what is left.
LEMMA CountSplits ==
  ASSUME NEW q, NEW p, NEW k \in Nat, NEW l \in Nat, NEW r,
         \A n \in 1 .. l : p[n] = q[k + n]
  PROVE  Count(q, k + l, r) = Count(q, k, r) + Count(p, l, r)
<1> DEFINE Before == Blocks(q, k, r)
           After == {n \in k + 1 .. k + l : q[n].read = r /\ q[n].data}
           shift == [n \in Blocks(p, l, r) |-> k + n]
<1>1. Before \cup After = Blocks(q, k + l, r) /\ Before \cap After = {}
  BY DEF Blocks
<1>2. shift \in Bijection(Blocks(p, l, r), After)
  <2>1. ASSUME NEW n \in Blocks(p, l, r) PROVE k + n \in After
    BY <2>1 DEF Blocks
  <2>2. ASSUME NEW n \in After PROVE \E m \in Blocks(p, l, r) : n = k + m
    <3>1. n - k \in 1 .. l /\ n = k + (n - k)
      OBVIOUS
    <3>2. p[n - k] = q[n]
      BY <3>1
    <3>3. n - k \in Blocks(p, l, r)
      BY <3>1, <3>2 DEF Blocks
    <3>4. QED
      BY <3>1, <3>3
  <2>3. \A m, n \in Blocks(p, l, r) : k + m = k + n => m = n
    BY DEF Blocks
  <2>4. shift \in [Blocks(p, l, r) -> After]
    BY <2>1
  <2>5. shift \in Injection(Blocks(p, l, r), After)
    BY <2>3, <2>4, Fun_IsInj
  <2>6. shift \in Surjection(Blocks(p, l, r), After)
    BY <2>2, <2>4, Fun_IsSurj
  <2>7. QED
    BY <2>5, <2>6 DEF Bijection
<1>3. IsFiniteSet(After) /\ Cardinality(After) = Count(p, l, r)
  BY <1>2, CountType, FS_Bijection DEF ExistsBijection, Count
<1>4. IsFiniteSet(Before) /\ Cardinality(Before) = Count(q, k, r)
  BY CountType DEF Count
<1> HIDE DEF Before, After
<1>5. Cardinality(Before \cup After)
        = Cardinality(Before) + Cardinality(After) - Cardinality(Before \cap After)
  BY <1>3, <1>4, FS_Union
<1>6. Cardinality(Before \cap After) = 0
  BY <1>1, FS_EmptySet
<1>7. Count(q, k, r) \in Nat /\ Count(p, l, r) \in Nat
  BY CountType
<1>8. QED
  BY <1>1, <1>3, <1>4, <1>5, <1>6, <1>7 DEF Count

LEMMA AsSequence ==
  ASSUME NEW S, NEW n \in Nat, NEW f \in [1 .. n -> S]
  PROVE  f \in Seq(S) /\ Len(f) = n
<1>1. f \in Seq(S)
  BY SeqDef
<1>2. Len(f) \in Nat /\ 1 .. Len(f) = 1 .. n
  BY <1>1, LenProperties
<1>3. QED
  BY <1>1, <1>2

\* Time brings entries closer; it does not change what they are.
LEMMA AgedQueue ==
  ASSUME NEW q \in Seq(Entry)
  PROVE  /\ Aged(q) \in Seq(Entry) /\ Len(Aged(q)) = Len(q)
         /\ \A n \in 1 .. Len(q) : /\ Aged(q)[n].read = q[n].read
                                  /\ Aged(q)[n].data = q[n].data
                                  /\ Aged(q)[n].covers = q[n].covers
<1>1. Len(q) \in Nat /\ DOMAIN q = 1 .. Len(q) /\ \A n \in 1 .. Len(q) : q[n] \in Entry
  BY LenProperties
<1>2. MaxBlocks * BLOCK \in Nat
  BY MediaAssumption
<1>3. ASSUME NEW e \in Entry
      PROVE  [e EXCEPT !.wait = IF @ = 0 THEN 0 ELSE @ - 1] \in Entry
  <2> DEFINE Longest == MaxBlocks * BLOCK
  <2>1. Longest \in Nat
    BY <1>2
  <2>2. Entry = [read : Requests, data : BOOLEAN, callback : BOOLEAN,
                 covers : 0 .. MaxBlocks, wait : 0 .. Longest]
    BY DEF Entry
  <2> HIDE DEF Longest
  <2>3. (IF e.wait = 0 THEN 0 ELSE e.wait - 1) \in 0 .. Longest
    BY <2>1, <2>2
  <2>4. QED
    BY <2>2, <2>3
<1>4. Aged(q) = [n \in 1 .. Len(q) |-> [q[n] EXCEPT !.wait = IF @ = 0 THEN 0 ELSE @ - 1]]
  BY <1>1 DEF Aged
<1>5. Aged(q) \in [1 .. Len(q) -> Entry]
  BY <1>1, <1>3, <1>4
<1>6. QED
  BY <1>1, <1>4, <1>5, AsSequence DEF Entry

LEMMA AgedQueueOK ==
  ASSUME NEW q \in Seq(Entry), NEW arr
  PROVE  /\ QueueOK(q, arr) => QueueOK(Aged(q), arr)
         /\ \A r : Absent(r, q) => Absent(r, Aged(q))
         /\ \A r : \A k \in 0 .. Len(q) : Count(Aged(q), k, r) = Count(q, k, r)
<1>1. Len(Aged(q)) = Len(q) /\ Len(q) \in Nat
  BY AgedQueue, LenProperties
<1>2. ASSUME NEW r, NEW k \in 0 .. Len(q)
      PROVE  Count(Aged(q), k, r) = Count(q, k, r)
  <2>1. Blocks(Aged(q), k, r) = Blocks(q, k, r)
    BY <1>1, AgedQueue DEF Blocks
  <2>2. QED
    BY <2>1 DEF Count
<1>3. ASSUME QueueOK(q, arr) PROVE QueueOK(Aged(q), arr)
  <2>1. Len(q) \in 0 .. Len(q) /\ \A n \in 1 .. Len(q) : n \in 0 .. Len(q)
    BY <1>1
  <2>2. \A r \in Requests : arr[r] + Count(Aged(q), Len(Aged(q)), r) <= MaxBlocks
    BY <1>1, <1>2, <1>3, <2>1 DEF QueueOK
  <2>3. ASSUME NEW n \in 1 .. Len(q)
        PROVE  Aged(q)[n].covers <= arr[Aged(q)[n].read] + Count(Aged(q), n, Aged(q)[n].read)
    BY <1>2, <1>3, <2>1, AgedQueue DEF QueueOK
  <2>4. QED
    BY <1>1, <2>2, <2>3 DEF QueueOK
<1>4. \A r : Absent(r, q) => Absent(r, Aged(q))
  BY <1>1, AgedQueue DEF Absent
<1>5. QED
  BY <1>2, <1>3, <1>4

LEMMA AbsentCount ==
  ASSUME NEW q, NEW r, Absent(r, q), NEW k \in Nat, Len(q) \in Nat, k <= Len(q)
  PROVE  Count(q, k, r) = 0
<1>1. Blocks(q, k, r) = {}
  BY DEF Absent, Blocks
<1>2. QED
  BY <1>1, CountType

\* The first k entries of a queue are handled: their blocks have arrived, what
\* they cover has arrived, and the rest of the queue is still in order.
LEMMA CutQueue ==
  ASSUME NEW q \in Seq(Entry), NEW arr \in [Requests -> 0 .. MaxBlocks], QueueOK(q, arr),
         NEW k \in 0 .. Len(q), NEW after,
         after = [r \in Requests |-> arr[r] + Count(q, k, r)]
  PROVE  /\ SubSeq(q, k + 1, Len(q)) \in Seq(Entry)
         /\ after \in [Requests -> 0 .. MaxBlocks]
         /\ QueueOK(SubSeq(q, k + 1, Len(q)), after)
         /\ \A r \in Requests : arr[r] <= after[r]
         /\ \A n \in 1 .. k : q[n].covers <= after[q[n].read]
         /\ \A r : Absent(r, q) => Absent(r, SubSeq(q, k + 1, Len(q)))
<1> DEFINE p == SubSeq(q, k + 1, Len(q))
<1>1. Len(q) \in Nat /\ \A n \in 1 .. Len(q) : q[n] \in Entry
  BY LenProperties
<1>2. MaxBlocks \in Nat
  BY MediaAssumption
<1>3. p \in Seq(Entry) /\ Len(p) = Len(q) - k /\ \A n \in 1 .. Len(p) : p[n] = q[k + n]
  <2>1. k + 1 \in Int /\ \A n \in k + 1 .. Len(q) : q[n] \in Entry
    BY <1>1
  <2>2. /\ p \in Seq(Entry)
        /\ Len(p) = IF k + 1 <= Len(q) THEN Len(q) - (k + 1) + 1 ELSE 0
        /\ \A n \in 1 .. Len(q) - (k + 1) + 1 : p[n] = q[k + 1 + n - 1]
    BY <1>1, <2>1, SubSeqProperties
  <2>3. QED
    BY <1>1, <2>2
<1> HIDE DEF p
<1>4. ASSUME NEW r, NEW l \in 0 .. Len(p)
      PROVE  /\ Count(q, k + l, r) = Count(q, k, r) + Count(p, l, r)
             /\ Count(q, k, r) \in Nat /\ Count(p, l, r) \in Nat
  <2>1. k \in Nat /\ l \in Nat /\ \A n \in 1 .. l : p[n] = q[k + n]
    BY <1>1, <1>3
  <2>2. Count(q, k, r) \in Nat /\ Count(p, l, r) \in Nat
    BY <2>1, CountType
  <2>3. Count(q, k + l, r) = Count(q, k, r) + Count(p, l, r)
    BY <2>1, CountSplits
  <2>4. QED
    BY <2>2, <2>3
<1>5. ASSUME NEW r \in Requests
      PROVE  /\ after[r] = arr[r] + Count(q, k, r) /\ arr[r] \in Nat
             /\ after[r] \in 0 .. MaxBlocks /\ arr[r] <= after[r]
             /\ after[r] + Count(p, Len(p), r) <= MaxBlocks
  <2>1. Len(p) \in 0 .. Len(p) /\ k + Len(p) = Len(q)
    BY <1>1, <1>3
  <2>2. arr[r] + Count(q, Len(q), r) <= MaxBlocks
    BY DEF QueueOK
  <2>3. arr[r] \in 0 .. MaxBlocks /\ after[r] = arr[r] + Count(q, k, r)
    OBVIOUS
  <2>4. /\ Count(q, Len(q), r) = Count(q, k, r) + Count(p, Len(p), r)
        /\ Count(q, k, r) \in Nat /\ Count(p, Len(p), r) \in Nat
    BY <1>4, <2>1
  <2>5. QED
    BY <1>2, <2>2, <2>3, <2>4
<1>6. ASSUME NEW n \in 1 .. Len(p)
      PROVE  p[n].covers <= after[p[n].read] + Count(p, n, p[n].read)
  <2> DEFINE r == q[k + n].read
  <2>1. k + n \in 1 .. Len(q) /\ n \in 0 .. Len(p) /\ p[n] = q[k + n]
    BY <1>1, <1>3
  <2>2. q[k + n].covers \in Nat /\ r \in Requests
    BY <1>1, <2>1, SMTT(30) DEF Entry
  <2>3. q[k + n].covers <= arr[r] + Count(q, k + n, r)
    BY <2>1 DEF QueueOK
  <2> HIDE DEF r
  <2>4. q[k + n].covers <= after[r] + Count(p, n, r)
    BY <1>4, <1>5, <2>1, <2>2, <2>3
  <2>5. QED
    BY <2>1, <2>4 DEF r
<1>7. ASSUME NEW n \in 1 .. k PROVE q[n].covers <= after[q[n].read]
  <2> DEFINE r == q[n].read
  <2>1. n \in 1 .. Len(q) /\ q[n].covers \in Nat /\ r \in Requests
    BY <1>1, SMTT(30) DEF Entry
  <2>2. q[n].covers <= arr[r] + Count(q, n, r)
    BY <2>1 DEF QueueOK
  <2> HIDE DEF r
  <2>3. Count(q, n, r) <= Count(q, k, r) /\ Count(q, n, r) \in Nat /\ Count(q, k, r) \in Nat
    BY CountGrows, CountType
  <2>4. q[n].covers <= after[r]
    BY <1>5, <2>1, <2>2, <2>3
  <2>5. QED
    BY <2>4 DEF r
<1>8. \A r : Absent(r, q) => Absent(r, p)
  BY <1>1, <1>3 DEF Absent
<1>9. QED
  BY <1>3, <1>5, <1>6, <1>7, <1>8 DEF QueueOK, p

\* A queue does not care about the blocks of reads it has no entries of.
LEMMA OtherQueueOK ==
  ASSUME NEW q \in Seq(Entry), NEW arr \in [Requests -> 0 .. MaxBlocks], QueueOK(q, arr),
         NEW after \in [Requests -> 0 .. MaxBlocks],
         \A r \in Requests : after[r] = arr[r] \/ Absent(r, q)
  PROVE  QueueOK(q, after)
<1>1. Len(q) \in Nat /\ \A n \in 1 .. Len(q) : q[n].read \in Requests
  <2>1. Len(q) \in Nat /\ \A n \in 1 .. Len(q) : q[n] \in Entry
    BY LenProperties
  <2>2. QED
    BY <2>1 DEF Entry
<1>2. ASSUME NEW r \in Requests PROVE after[r] + Count(q, Len(q), r) <= MaxBlocks
  <2>1. CASE after[r] = arr[r]
    BY <2>1 DEF QueueOK
  <2>2. CASE Absent(r, q)
    <3>1. Count(q, Len(q), r) = 0
      BY <1>1, <2>2, AbsentCount
    <3>2. after[r] \in 0 .. MaxBlocks
      OBVIOUS
    <3>3. QED
      BY <3>1, <3>2, MediaAssumption
  <2>3. QED
    BY <2>1, <2>2
<1>3. ASSUME NEW n \in 1 .. Len(q) PROVE after[q[n].read] = arr[q[n].read]
  BY <1>1 DEF Absent
<1>4. QED
  BY <1>2, <1>3 DEF QueueOK

\* The entries s of read r, of which a blocks have arrived.
EntriesOf(r, s, a) ==
  /\ a + Count(s, Len(s), r) <= MaxBlocks
  /\ \A m \in 1 .. Len(s) : s[m].read = r /\ s[m].covers <= a + Count(s, m, r)

SameBut(r, arr, after) == \A x \in Requests \ {r} : after[x] = arr[x]

\* The entries of a read that is made are put behind those of others.
LEMMA AddToQueue ==
  ASSUME NEW q \in Seq(Entry), NEW s \in Seq(Entry),
         NEW arr \in [Requests -> 0 .. MaxBlocks], QueueOK(q, arr),
         NEW after \in [Requests -> 0 .. MaxBlocks],
         NEW r \in Requests, Absent(r, q),
         SameBut(r, arr, after), EntriesOf(r, s, after[r])
  PROVE  /\ q \o s \in Seq(Entry)
         /\ QueueOK(q \o s, after)
         /\ \A x \in Requests \ {r} : Absent(x, q) => Absent(x, q \o s)
<1> DEFINE p == q \o s
<1>1. /\ Len(q) \in Nat /\ Len(s) \in Nat
      /\ \A n \in 1 .. Len(q) : q[n] \in Entry
  BY LenProperties
<1>2. /\ p \in Seq(Entry) /\ Len(p) = Len(q) + Len(s)
      /\ \A n \in 1 .. Len(q) : p[n] = q[n]
      /\ \A n \in 1 .. Len(s) : p[Len(q) + n] = s[n]
  BY <1>1, ConcatProperties
<1> HIDE DEF p
<1>3. ASSUME NEW x, NEW n \in 0 .. Len(q) PROVE Count(p, n, x) = Count(q, n, x)
  <2>1. Blocks(p, n, x) = Blocks(q, n, x)
    BY <1>1, <1>2 DEF Blocks
  <2>2. QED
    BY <2>1 DEF Count
<1>4. ASSUME NEW x, NEW n \in 0 .. Len(s)
      PROVE  /\ Count(p, Len(q) + n, x) = Count(q, Len(q), x) + Count(s, n, x)
             /\ Count(s, n, x) \in Nat /\ Count(q, Len(q), x) \in Nat
  <2>1. n \in Nat /\ Len(q) \in 0 .. Len(q) /\ \A m \in 1 .. n : s[m] = p[Len(q) + m]
    BY <1>1, <1>2, SMTT(30)
  <2>2. Count(p, Len(q) + n, x) = Count(p, Len(q), x) + Count(s, n, x)
    BY <1>1, <2>1, CountSplits, SMTT(30)
  <2>3. Count(s, n, x) \in Nat /\ Count(q, Len(q), x) \in Nat
    BY <1>1, <2>1, CountType
  <2>4. QED
    BY <1>3, <2>1, <2>2, <2>3
<1>5. Count(q, Len(q), r) = 0
  BY <1>1, AbsentCount
<1>6. ASSUME NEW x \in Requests PROVE after[x] + Count(p, Len(p), x) <= MaxBlocks
  <2>1. Len(s) \in 0 .. Len(s)
    BY <1>1
  <2>2. /\ Count(p, Len(p), x) = Count(q, Len(q), x) + Count(s, Len(s), x)
        /\ Count(s, Len(s), x) \in Nat /\ Count(q, Len(q), x) \in Nat
    BY <1>2, <1>4, <2>1
  <2>3. CASE x = r
    BY <1>5, <2>2, <2>3 DEF EntriesOf
  <2>4. CASE x # r
    <3>1. Absent(x, s)
      BY <2>4 DEF Absent, EntriesOf
    <3>2. Count(s, Len(s), x) = 0
      BY <1>1, <3>1, AbsentCount
    <3>3. after[x] = arr[x] /\ arr[x] + Count(q, Len(q), x) <= MaxBlocks
      BY <2>4 DEF QueueOK, SameBut
    <3>4. QED
      BY <2>2, <3>2, <3>3
  <2>5. QED
    BY <2>3, <2>4
<1>7. ASSUME NEW n \in 1 .. Len(p)
      PROVE  p[n].covers <= after[p[n].read] + Count(p, n, p[n].read)
  <2>1. CASE n <= Len(q)
    <3>1. n \in 1 .. Len(q) /\ n \in 0 .. Len(q) /\ p[n] = q[n]
      BY <1>1, <1>2, <2>1
    <3>2. q[n].read \in Requests \ {r}
      BY <1>1, <3>1 DEF Entry, Absent
    <3>3. q[n].covers <= arr[q[n].read] + Count(q, n, q[n].read)
      BY <3>1 DEF QueueOK
    <3>4. Count(p, n, q[n].read) = Count(q, n, q[n].read)
      BY <1>3, <3>1
    <3>5. QED
      BY <3>1, <3>2, <3>3, <3>4 DEF SameBut
  <2>2. CASE ~(n <= Len(q))
    <3> DEFINE m == n - Len(q)
    <3>1. m \in 1 .. Len(s) /\ m \in 0 .. Len(s) /\ n = Len(q) + m
      BY <1>1, <1>2, <2>2
    <3> HIDE DEF m
    <3>2. p[n] = s[m] /\ s[m].read = r /\ s[m].covers <= after[r] + Count(s, m, r)
      BY <1>2, <3>1 DEF EntriesOf
    <3>3. Count(p, n, r) = Count(s, m, r)
      BY <1>4, <1>5, <3>1
    <3>4. QED
      BY <3>2, <3>3
  <2>3. QED
    BY <2>1, <2>2
<1>8. ASSUME NEW x \in Requests \ {r}, Absent(x, q) PROVE Absent(x, p)
  <2>1. ASSUME NEW n \in 1 .. Len(p) PROVE p[n].read # x
    <3>1. CASE n \in 1 .. Len(q)
      BY <1>2, <1>8, <3>1 DEF Absent
    <3>2. ASSUME NEW m \in 1 .. Len(s), n = Len(q) + m PROVE p[n].read # x
      BY <1>2, <3>2 DEF EntriesOf
    <3>3. n \in 1 .. Len(q) \/ n - Len(q) \in 1 .. Len(s)
      BY <1>1, <1>2
    <3>4. n = Len(q) + (n - Len(q))
      BY <1>1
    <3>5. QED
      BY <3>1, <3>2, <3>3, <3>4
  <2>2. QED
    BY <2>1 DEF Absent
<1>9. QED
  BY <1>2, <1>6, <1>7, <1>8 DEF QueueOK, p

\* The entries of one read: each covers the blocks queued up to it.
LEMMA QueuedEntries ==
  ASSUME NEW r \in Requests, NEW n \in 1 .. MaxBlocks, NEW every \in BOOLEAN, NEW end \in BOOLEAN
  PROVE  LET s == Queued(r, n, every, end)
         IN s \in Seq(Entry) /\ EntriesOf(r, s, 0)
<1> DEFINE Longest == MaxBlocks * BLOCK
           block(b) == [read |-> r, data |-> TRUE, callback |-> every,
                        covers |-> IF every THEN b ELSE 0, wait |-> b * BLOCK]
           last == [read |-> r, data |-> FALSE, callback |-> TRUE,
                    covers |-> n, wait |-> n * BLOCK]
           data == [b \in 1 .. n |-> block(b)]
           rest == IF end \/ ~every THEN <<last>> ELSE << >>
           s == Queued(r, n, every, end)
<1>1. Longest \in Nat /\ MaxBlocks \in Nat /\ n \in Nat
  BY MediaAssumption
<1>2. ASSUME NEW b \in 1 .. n PROVE b * BLOCK \in 0 .. Longest
  <2>1. b \in Nat /\ BLOCK \in Nat /\ MaxBlocks \in Nat /\ b <= MaxBlocks
    BY <1>1, MediaAssumption
  <2>2. b * BLOCK <= MaxBlocks * BLOCK /\ b * BLOCK \in Nat
    BY <2>1
  <2>3. QED
    BY <1>1, <2>2
<1>3. Entry = [read : Requests, data : BOOLEAN, callback : BOOLEAN,
               covers : 0 .. MaxBlocks, wait : 0 .. Longest]
  BY DEF Entry
<1> HIDE DEF Longest
<1>4. \A b \in 1 .. n : block(b) \in Entry
  BY <1>1, <1>2, <1>3
<1>5. last \in Entry
  <2>1. n * BLOCK \in 0 .. Longest
    BY <1>1, <1>2
  <2>2. QED
    BY <1>1, <1>3, <2>1
<1>6. /\ \A b \in 1 .. n : /\ block(b).read = r /\ block(b).data
                          /\ block(b).covers = IF every THEN b ELSE 0
      /\ last.read = r /\ ~last.data /\ last.covers = n
  OBVIOUS
<1>7. s = data \o rest
  BY DEF Queued
<1> HIDE DEF block, last
<1>8. data \in Seq(Entry) /\ Len(data) = n
  <2>1. data \in [1 .. n -> Entry]
    BY <1>4
  <2> HIDE DEF data
  <2>2. QED
    BY <1>1, <2>1, AsSequence
<1>9. rest \in Seq(Entry) /\ Len(rest) \in {0, 1} /\ \A m \in 1 .. Len(rest) : rest[m] = last
  <2>1. <<last>> \in Seq(Entry) /\ Len(<<last>>) = 1 /\ <<last>>[1] = last
    BY <1>5
  <2>2. << >> \in Seq(Entry) /\ Len(<< >>) = 0
    OBVIOUS
  <2>3. QED
    BY <2>1, <2>2
<1>10. /\ s \in Seq(Entry) /\ Len(s) = n + Len(rest)
       /\ \A m \in 1 .. Len(s) : s[m] = IF m <= n THEN block(m) ELSE last
  <2>1. \A m \in 1 .. n : data[m] = block(m)
    OBVIOUS
  <2> HIDE DEF data, rest, s
  <2>2. /\ s \in Seq(Entry) /\ Len(s) = n + Len(rest)
        /\ \A m \in 1 .. n + Len(rest) : s[m] = IF m <= n THEN data[m] ELSE rest[m - n]
    BY <1>7, <1>8, <1>9, ConcatProperties
  <2>3. \A m \in 1 .. n + Len(rest) : ~(m <= n) => m - n \in 1 .. Len(rest)
    BY <1>1, <1>9
  <2>4. QED
    BY <1>1, <1>9, <2>1, <2>2, <2>3
<1> HIDE DEF data, rest, s
<1>11. ASSUME NEW m \in 1 .. Len(s) PROVE Count(s, m, r) = IF m <= n THEN m ELSE n
  <2>1. Blocks(s, m, r) = 1 .. IF m <= n THEN m ELSE n
    BY <1>1, <1>6, <1>9, <1>10 DEF Blocks
  <2>2. (IF m <= n THEN m ELSE n) \in Nat
    BY <1>1
  <2>3. QED
    BY <2>1, <2>2, FS_Interval DEF Count
<1>12. Len(s) \in 1 .. Len(s) /\ Len(s) >= n
  BY <1>1, <1>9, <1>10
<1>13. Count(s, Len(s), r) = n
  BY <1>1, <1>11, <1>12
<1>14. ASSUME NEW m \in 1 .. Len(s) PROVE s[m].read = r /\ s[m].covers <= 0 + Count(s, m, r)
  BY <1>1, <1>6, <1>10, <1>11, <1>12
<1>15. EntriesOf(r, s, 0)
  BY <1>1, <1>13, <1>14 DEF EntriesOf
<1>16. QED
  BY <1>10, <1>15 DEF s

LEMMA EmptyQueue ==
  ASSUME NEW arr \in [Requests -> 0 .. MaxBlocks]
  PROVE  << >> \in Seq(Entry) /\ QueueOK(<< >>, arr) /\ \A r : Absent(r, << >>)
<1>1. << >> \in Seq(Entry) /\ Len(<< >>) = 0
  OBVIOUS
<1>2. \A r : Absent(r, << >>)
  BY <1>1 DEF Absent
<1>3. \A r : Count(<< >>, 0, r) = 0
  BY <1>1, <1>2, AbsentCount
<1>4. \A r \in Requests : arr[r] + 0 <= MaxBlocks
  BY MediaAssumption
<1>5. QED
  BY <1>1, <1>2, <1>3, <1>4 DEF QueueOK

LEMMA InitQueues == Init => QueuesOK
<1> SUFFICES ASSUME Init PROVE QueuesOK
  OBVIOUS
<1>1. arrived \in [Requests -> 0 .. MaxBlocks] /\ told \in [Requests -> 0 .. MaxBlocks]
  BY MediaAssumption DEF Init
<1>2. QED
  BY <1>1, EmptyQueue DEF Init, QueuesOK, ToldHasArrived

\* One queue changes; it loses entries or gets those of one read.
LEMMA OneQueueChanges ==
  ASSUME QueuesOK, NEW i \in MPE, NEW p \in Seq(Entry), fifo' = [fifo EXCEPT ![i] = p],
         \A x \in Requests : \/ Absent(x, fifo[i]) => Absent(x, p)
                            \/ \A j \in MPE \ {i} : Absent(x, fifo[j])
  PROVE  /\ fifo' \in [MPE -> Seq(Entry)]
         /\ fifo'[i] = p /\ \A j \in MPE \ {i} : fifo'[j] = fifo[j]
         /\ \A j, k \in MPE : \A x \in Requests :
               j # k => Absent(x, fifo'[j]) \/ Absent(x, fifo'[k])
<1>1. /\ fifo' \in [MPE -> Seq(Entry)]
      /\ fifo'[i] = p /\ \A j \in MPE \ {i} : fifo'[j] = fifo[j]
  BY DEF QueuesOK
<1>2. ASSUME NEW j \in MPE \ {i}, NEW x \in Requests PROVE Absent(x, fifo[j]) \/ Absent(x, p)
  BY DEF QueuesOK
<1>3. QED
  BY <1>1, <1>2 DEF QueuesOK

\* The entries up to the c-th of an MPE's queue q are handled.
LEMMA HandledQueues ==
  ASSUME QueuesOK, NEW i \in MPE, NEW q \in Seq(Entry), QueueOK(q, arrived),
         \A r : Absent(r, fifo[i]) => Absent(r, q),
         NEW c \in 0 .. Len(q),
         fifo' = [fifo EXCEPT ![i] = SubSeq(q, c + 1, Len(q))],
         arrived' = Copied(q, c), unmade' = unmade,
         told' \in [Requests -> 0 .. MaxBlocks],
         \A r \in Requests : \/ told'[r] = told[r]
                            \/ \E n \in 1 .. c : q[n].read = r /\ told'[r] = q[n].covers
  PROVE  QueuesOK'
<1> DEFINE p == SubSeq(q, c + 1, Len(q))
<1>1. /\ arrived \in [Requests -> 0 .. MaxBlocks] /\ told \in [Requests -> 0 .. MaxBlocks]
      /\ Len(q) \in Nat /\ c \in Nat
  BY LenProperties DEF QueuesOK
<1>2. arrived' = [r \in Requests |-> arrived[r] + Count(q, c, r)]
  BY DEF Copied, Count, Blocks
<1>3. /\ p \in Seq(Entry) /\ arrived' \in [Requests -> 0 .. MaxBlocks]
      /\ QueueOK(p, arrived')
      /\ \A r \in Requests : arrived[r] <= arrived'[r]
      /\ \A n \in 1 .. c : q[n].covers <= arrived'[q[n].read]
      /\ \A r : Absent(r, q) => Absent(r, p)
  BY <1>1, <1>2, CutQueue, ZenonT(60)
<1>4. fifo' = [fifo EXCEPT ![i] = p]
  OBVIOUS
<1> HIDE DEF p
<1>5. /\ fifo' \in [MPE -> Seq(Entry)]
      /\ fifo'[i] = p /\ \A j \in MPE \ {i} : fifo'[j] = fifo[j]
      /\ \A j, k \in MPE : \A x \in Requests :
            j # k => Absent(x, fifo'[j]) \/ Absent(x, fifo'[k])
  <2>1. \A r : Absent(r, fifo[i]) => Absent(r, p)
    BY <1>3
  <2>2. QED
    BY <1>3, <1>4, <2>1, OneQueueChanges
<1>6. ASSUME NEW r \in Requests, Absent(r, q) PROVE arrived'[r] = arrived[r]
  <2>1. Count(q, c, r) = 0
    BY <1>1, <1>6, AbsentCount
  <2>2. QED
    BY <1>1, <1>2, <2>1
<1>7. ASSUME NEW j \in MPE PROVE QueueOK(fifo'[j], arrived')
  <2>1. CASE j = i
    BY <1>3, <1>5, <2>1
  <2>2. CASE j # i
    <3>1. fifo[j] \in Seq(Entry) /\ QueueOK(fifo[j], arrived)
      BY DEF QueuesOK
    <3>2. ASSUME NEW r \in Requests PROVE arrived'[r] = arrived[r] \/ Absent(r, fifo[j])
      <4>1. Absent(r, fifo[i]) \/ Absent(r, fifo[j])
        BY <2>2 DEF QueuesOK
      <4>2. ASSUME Absent(r, fifo[i]) PROVE arrived'[r] = arrived[r]
        <5>1. Absent(r, q)
          BY <4>2
        <5>2. QED
          BY <1>6, <5>1
      <4>3. QED
        BY <4>1, <4>2
    <3>3. QueueOK(fifo[j], arrived')
      BY <1>1, <1>3, <3>1, <3>2, OtherQueueOK, ZenonT(60)
    <3>4. QED
      BY <1>5, <2>2, <3>3
  <2>3. QED
    BY <2>1, <2>2
<1>8. ASSUME NEW r \in unmade
      PROVE  arrived'[r] = 0 /\ told'[r] = 0 /\ \A j \in MPE : Absent(r, fifo'[j])
  <2>1. /\ r \in Requests /\ arrived[r] = 0 /\ told[r] = 0
        /\ \A j \in MPE : Absent(r, fifo[j])
    BY DEF QueuesOK
  <2>2. Absent(r, q) /\ Absent(r, p)
    BY <1>3, <2>1
  <2>3. \A n \in 1 .. c : q[n].read # r
    BY <1>1, <2>2 DEF Absent
  <2>4. told'[r] = told[r]
    BY <2>1, <2>3
  <2>5. QED
    BY <1>5, <1>6, <2>1, <2>2, <2>4
<1>9. ASSUME NEW r \in Requests PROVE told'[r] <= arrived'[r]
  <2>1. told[r] <= arrived[r] /\ arrived[r] <= arrived'[r]
    BY <1>3 DEF QueuesOK, ToldHasArrived
  <2>2. told[r] \in 0 .. MaxBlocks /\ arrived[r] \in 0 .. MaxBlocks /\ arrived'[r] \in 0 .. MaxBlocks
    BY <1>1, <1>3
  <2>3. CASE told'[r] = told[r]
    BY <2>1, <2>2, <2>3, MediaAssumption
  <2>4. CASE \E n \in 1 .. c : q[n].read = r /\ told'[r] = q[n].covers
    BY <1>3, <2>4
  <2>5. QED
    BY <2>3, <2>4
<1>10. unmade' \in SUBSET Requests /\ told' \in [Requests -> 0 .. MaxBlocks]
  BY DEF QueuesOK
<1>11. ToldHasArrived'
  BY <1>9 DEF ToldHasArrived
<1>12. \A r \in unmade' : /\ arrived'[r] = 0 /\ told'[r] = 0
                         /\ \A j \in MPE : Absent(r, fifo'[j])
  BY <1>8
<1>13. QED
  BY <1>3, <1>5, <1>7, <1>10, <1>11, <1>12 DEF QueuesOK

LEMMA TickQueues ==
  ASSUME QueuesOK, NEW i \in MPE, Tick(i)
  PROVE  QueuesOK'
<1> DEFINE q == Aged(fifo[i])
           k == Deliveries(q)
           fires == k < Len(q) /\ Due(q[k + 1])
<1>1. /\ fifo[i] \in Seq(Entry) /\ QueueOK(fifo[i], arrived) /\ unmade' = unmade
      /\ arrived \in [Requests -> 0 .. MaxBlocks] /\ told \in [Requests -> 0 .. MaxBlocks]
  BY DEF QueuesOK, Tick
<1>2. /\ q \in Seq(Entry) /\ QueueOK(q, arrived)
      /\ \A r : Absent(r, fifo[i]) => Absent(r, q)
  BY <1>1, AgedQueue, AgedQueueOK
<1>3. Len(q) \in Nat /\ k \in 0 .. Len(q) /\ \A n \in 1 .. Len(q) : q[n] \in Entry
  BY <1>2, LenProperties, DeliveriesInQueue
<1>4. CASE UNCHANGED <<fifo, arrived, told>>
  BY <1>1, <1>4 DEF QueuesOK, ToldHasArrived
<1>5. CASE fifo' = [fifo EXCEPT ![i] = q] /\ UNCHANGED <<arrived, told>>
  <2> HIDE DEF q
  <2>1. /\ fifo' \in [MPE -> Seq(Entry)]
        /\ fifo'[i] = q /\ \A j \in MPE \ {i} : fifo'[j] = fifo[j]
        /\ \A j, l \in MPE : \A x \in Requests :
              j # l => Absent(x, fifo'[j]) \/ Absent(x, fifo'[l])
    BY <1>2, <1>5, OneQueueChanges
  <2>2. \A j \in MPE : /\ QueueOK(fifo'[j], arrived)
                      /\ \A r : Absent(r, fifo[j]) => Absent(r, fifo'[j])
    BY <1>2, <2>1 DEF QueuesOK
  <2>3. QED
    BY <1>1, <1>5, <2>1, <2>2 DEF QueuesOK, ToldHasArrived
<1>6. CASE /\ fires
           /\ fifo' = [fifo EXCEPT ![i] = SubSeq(q, k + 2, Len(q))]
           /\ arrived' = Copied(q, k + 1)
           /\ told' = [told EXCEPT ![q[k + 1].read] = q[k + 1].covers]
  <2> DEFINE c == k + 1
  <2>1. c \in 1 .. c /\ c \in 0 .. Len(q) /\ c \in 1 .. Len(q) /\ c + 1 = k + 2
    BY <1>3, <1>6
  <2>2. q[c].covers \in 0 .. MaxBlocks /\ q[c].read \in Requests
    BY <1>3, <2>1 DEF Entry
  <2>3. /\ fifo' = [fifo EXCEPT ![i] = SubSeq(q, c + 1, Len(q))]
        /\ arrived' = Copied(q, c)
        /\ told' = [told EXCEPT ![q[c].read] = q[c].covers]
    BY <1>6, <2>1, Zenon
  <2> HIDE DEF q, k, c
  <2>4. /\ told' \in [Requests -> 0 .. MaxBlocks]
        /\ \A r \in Requests : told'[r] = IF r = q[c].read THEN q[c].covers ELSE told[r]
    BY <1>1, <2>2, <2>3
  <2>5. \A r \in Requests : \/ told'[r] = told[r]
                           \/ \E n \in 1 .. c : q[n].read = r /\ told'[r] = q[n].covers
    BY <2>1, <2>4
  <2>6. QED
    BY <1>1, <1>2, <2>1, <2>3, <2>4, <2>5, HandledQueues
<1>7. CASE /\ fifo' = [fifo EXCEPT ![i] = SubSeq(q, k + 1, Len(q))]
           /\ arrived' = Copied(q, k)
           /\ told' = told
  <2> HIDE DEF q, k
  <2>1. QED
    BY <1>1, <1>2, <1>3, <1>7, HandledQueues
<1>8. QED
  BY <1>4, <1>5, <1>6, <1>7, Zenon DEF Tick

\* A read that is made puts its entries on one queue.
LEMMA ReadQueues ==
  ASSUME QueuesOK, NEW i \in MPE, NEW r \in unmade, NEW s \in Seq(Entry),
         arrived' \in [Requests -> 0 .. MaxBlocks], SameBut(r, arrived, arrived'),
         EntriesOf(r, s, arrived'[r]),
         fifo' = [fifo EXCEPT ![i] = @ \o s], unmade' = unmade \ {r}, told' = told
  PROVE  QueuesOK'
<1> DEFINE p == fifo[i] \o s
<1>1. /\ r \in Requests /\ arrived[r] = 0 /\ told[r] = 0
      /\ \A j \in MPE : Absent(r, fifo[j])
      /\ arrived \in [Requests -> 0 .. MaxBlocks] /\ told \in [Requests -> 0 .. MaxBlocks]
      /\ \A j \in MPE : fifo[j] \in Seq(Entry) /\ QueueOK(fifo[j], arrived)
  BY DEF QueuesOK
<1>2. /\ p \in Seq(Entry) /\ QueueOK(p, arrived')
      /\ \A x \in Requests \ {r} : Absent(x, fifo[i]) => Absent(x, p)
  BY <1>1, AddToQueue
<1>3. fifo' = [fifo EXCEPT ![i] = p]
  OBVIOUS
<1> HIDE DEF p
<1>4. /\ fifo' \in [MPE -> Seq(Entry)]
      /\ fifo'[i] = p /\ \A j \in MPE \ {i} : fifo'[j] = fifo[j]
      /\ \A j, k \in MPE : \A x \in Requests :
            j # k => Absent(x, fifo'[j]) \/ Absent(x, fifo'[k])
  <2>1. \A x \in Requests : \/ Absent(x, fifo[i]) => Absent(x, p)
                           \/ \A j \in MPE \ {i} : Absent(x, fifo[j])
    BY <1>1, <1>2
  <2>2. QED
    BY <1>2, <1>3, <2>1, OneQueueChanges
<1>5. ASSUME NEW j \in MPE PROVE QueueOK(fifo'[j], arrived')
  <2>1. CASE j = i
    BY <1>2, <1>4, <2>1
  <2>2. CASE j # i
    <3>1. \A x \in Requests : arrived'[x] = arrived[x] \/ Absent(x, fifo[j])
      BY <1>1 DEF SameBut
    <3>2. QueueOK(fifo[j], arrived')
      BY <1>1, <3>1, OtherQueueOK
    <3>3. QED
      BY <1>4, <2>2, <3>2
  <2>3. QED
    BY <2>1, <2>2
<1>6. ASSUME NEW x \in unmade'
      PROVE  arrived'[x] = 0 /\ told'[x] = 0 /\ \A j \in MPE : Absent(x, fifo'[j])
  <2>1. x \in unmade /\ x \in Requests \ {r}
    BY DEF QueuesOK
  <2>2. /\ arrived[x] = 0 /\ told[x] = 0 /\ \A j \in MPE : Absent(x, fifo[j])
    BY <2>1 DEF QueuesOK
  <2>3. arrived'[x] = arrived[x] /\ Absent(x, p)
    BY <1>2, <2>1, <2>2 DEF SameBut
  <2>4. QED
    BY <1>4, <2>2, <2>3
<1>7. ASSUME NEW x \in Requests PROVE told'[x] <= arrived'[x]
  <2>1. CASE x = r
    <3>1. arrived'[r] \in 0 .. MaxBlocks
      BY <1>1
    <3>2. QED
      BY <1>1, <2>1, <3>1, MediaAssumption
  <2>2. CASE x # r
    BY <2>2 DEF QueuesOK, ToldHasArrived, SameBut
  <2>3. QED
    BY <2>1, <2>2
<1>8. unmade' \in SUBSET Requests /\ told' \in [Requests -> 0 .. MaxBlocks]
  BY DEF QueuesOK
<1>9. QED
  BY <1>4, <1>5, <1>6, <1>7, <1>8 DEF QueuesOK, ToldHasArrived

LEMMA MediaReadQueues ==
  ASSUME QueuesOK, NEW i \in MPE, MediaRead(i)
  PROVE  QueuesOK'
<1>1. PICK r \in unmade, n \in 1 .. MaxBlocks :
        /\ unmade' = unmade \ {r}
        /\ \/ /\ \E every, end \in BOOLEAN :
                   fifo' = [fifo EXCEPT ![i] = @ \o Queued(r, n, every, end)]
              /\ UNCHANGED arrived
           \/ \E short \in 0 .. n - 1 :
                /\ arrived' = [arrived EXCEPT ![r] = short]
                /\ fifo' = [fifo EXCEPT ![i] = Append(@, Error(r, short))]
  BY DEF MediaRead
<1>2. /\ r \in Requests /\ arrived[r] = 0 /\ told' = told
      /\ arrived \in [Requests -> 0 .. MaxBlocks] /\ fifo[i] \in Seq(Entry)
      /\ MaxBlocks \in Nat /\ n \in Nat
  BY MediaAssumption DEF QueuesOK, MediaRead
<1>3. ASSUME NEW every \in BOOLEAN, NEW end \in BOOLEAN,
             fifo' = [fifo EXCEPT ![i] = @ \o Queued(r, n, every, end)], UNCHANGED arrived
      PROVE  QueuesOK'
  <2> DEFINE s == Queued(r, n, every, end)
  <2>1. s \in Seq(Entry) /\ EntriesOf(r, s, 0)
    BY <1>2, QueuedEntries
  <2>2. fifo' = [fifo EXCEPT ![i] = @ \o s]
    BY <1>3
  <2> HIDE DEF s
  <2>3. arrived' \in [Requests -> 0 .. MaxBlocks] /\ SameBut(r, arrived, arrived') /\ arrived'[r] = 0
    BY <1>2, <1>3 DEF SameBut
  <2>4. QED
    BY <1>1, <1>2, <2>1, <2>2, <2>3, ReadQueues
<1>4. ASSUME NEW short \in 0 .. n - 1,
             arrived' = [arrived EXCEPT ![r] = short],
             fifo' = [fifo EXCEPT ![i] = Append(@, Error(r, short))]
      PROVE  QueuesOK'
  <2> DEFINE e == Error(r, short)
  <2>1. short \in 0 .. MaxBlocks /\ 0 \in 0 .. MaxBlocks * BLOCK
    BY <1>2, MediaAssumption
  <2>2. e \in Entry /\ e.read = r /\ e.covers = short /\ ~e.data
    BY <1>2, <2>1 DEF Error, Entry
  <2>3. fifo' = [fifo EXCEPT ![i] = Append(@, e)]
    BY <1>4
  <2> HIDE DEF e
  <2>4. <<e>> \in Seq(Entry) /\ Len(<<e>>) = 1 /\ <<e>>[1] = e
    BY <2>2
  <2>5. Append(fifo[i], e) = fifo[i] \o <<e>>
    BY <1>2, <2>2, AppendIsConcat
  <2>6. fifo' = [fifo EXCEPT ![i] = @ \o <<e>>]
    BY <2>3, <2>5
  <2>7. /\ arrived' \in [Requests -> 0 .. MaxBlocks] /\ SameBut(r, arrived, arrived')
        /\ arrived'[r] = short
    BY <1>2, <1>4, <2>1 DEF SameBut
  <2>8. Count(<<e>>, 1, r) = 0
    <3>1. Blocks(<<e>>, 1, r) = {}
      BY <2>2, <2>4 DEF Blocks
    <3>2. QED
      BY <3>1, CountType
  <2>9. EntriesOf(r, <<e>>, short)
    <3>1. \A m \in 1 .. 1 : m = 1
      OBVIOUS
    <3>2. QED
      BY <2>1, <2>2, <2>4, <2>8, <3>1, MediaAssumption DEF EntriesOf
  <2>10. QED
    BY <1>1, <1>2, <2>4, <2>6, <2>7, <2>9, ReadQueues
<1>5. QED
  BY <1>1, <1>3, <1>4

LEMMA StepQueues ==
  ASSUME QueuesOK, [Next]_vars
  PROVE  QueuesOK'
<1>1. ASSUME NEW i \in MPE, Packet(i) PROVE QueuesOK'
  <2>1. CASE MediaRead(i)
    BY <2>1, MediaReadQueues
  <2>2. CASE MediaShutdownMPE(i)
    <3>1. fifo' = [fifo EXCEPT ![media_mpe] = << >>] /\ UNCHANGED <<unmade, arrived, told>>
      BY <2>2 DEF MediaShutdownMPE, history
    <3>2. \A r : Absent(r, << >>)
      BY EmptyQueue DEF QueuesOK
    <3>3. /\ fifo' \in [MPE -> Seq(Entry)]
          /\ \A j \in MPE : fifo'[j] = << >> \/ fifo'[j] = fifo[j]
      <4> DEFINE none == << >>
      <4>1. none \in Seq(Entry) /\ fifo \in [MPE -> Seq(Entry)]
        BY DEF QueuesOK
      <4>2. fifo' = [fifo EXCEPT ![media_mpe] = none]
        BY <3>1
      <4> HIDE DEF none
      <4>3. /\ fifo' \in [MPE -> Seq(Entry)]
            /\ \A j \in MPE : fifo'[j] = none \/ fifo'[j] = fifo[j]
        BY <4>1, <4>2
      <4>4. QED
        BY <4>3 DEF none
    <3>4. \A j \in MPE : /\ QueueOK(fifo'[j], arrived)
                        /\ \A r : Absent(r, fifo[j]) => Absent(r, fifo'[j])
      BY <3>2, <3>3, EmptyQueue DEF QueuesOK
    <3>5. \A j, k \in MPE : \A r \in Requests :
            j # k => Absent(r, fifo'[j]) \/ Absent(r, fifo'[k])
      BY <3>4 DEF QueuesOK
    <3>6. QED
      BY <3>1, <3>3, <3>4, <3>5 DEF QueuesOK, ToldHasArrived
  <2>3. CASE MediaWrite(i)
    BY <2>3 DEF MediaWrite, QueuesOK, ToldHasArrived
  <2>4. CASE ~(MediaRead(i) \/ MediaShutdownMPE(i) \/ MediaWrite(i))
    <3>1. UNCHANGED <<fifo, unmade, arrived, told>>
      BY <1>1, <2>4
         DEF Packet, Plain, TakenBranch, Retire, Return, Shim, MediaInitMPE, history
    <3>2. QED
      BY <3>1 DEF QueuesOK, ToldHasArrived
  <2>5. QED
    BY <2>1, <2>2, <2>3, <2>4
<1>2. ASSUME NEW i \in MPE, Tick(i) PROVE QueuesOK'
  BY <1>2, TickQueues
<1>3. CASE ResetForReload \/ UNCHANGED vars
  BY <1>3 DEF ResetForReload, vars, history, QueuesOK, ToldHasArrived
<1>4. QED
  BY <1>1, <1>2, <1>3 DEF Next

LEMMA QueuesCorrect == Spec => []QueuesOK
<1>1. QueuesOK /\ [Next]_vars => QueuesOK'
  BY StepQueues
<1>2. QED
  BY InitQueues, <1>1, PTL DEF Spec

(* What a callback is told of has been copied (MediaRead queues the blocks *)
(* before the notifications that cover them, and TickMediaCallbacks never  *)
(* takes one before the other, media.cpp:135-216), for any reads, errors   *)
(* and mixes of notifications, and whatever is called, shut down or loaded *)
(* while callbacks run.                                                    *)
THEOREM ToldCorrect == Spec => []ToldHasArrived
<1>1. QueuesOK => ToldHasArrived
  BY DEF QueuesOK
<1>2. QED
  BY QueuesCorrect, <1>1, PTL

-----------------------------------------------------------------------------
(* Types.                                                                  *)

\* What the other invariants leave open.
RestOK ==
  /\ async.saved \in Code \union {SHIM} /\ sync.savedRz \in Code \union {SHIM}
  /\ media_mpe \in MPE /\ media_mpe_allocated \in BOOLEAN
  /\ ticking \in MPE \union {NONE}

LEMMA PlacesAreCode ==
  ASSUME IInv, NEW i \in MPE
  PROVE  pc[i] \in Code \union {SHIM} /\ branch[i] \in Code \union {SHIM, NONE}
<1>1. UserCode(i) \in Code /\ CallbackCode(i) \in Code
  BY MediaAssumption DEF UserCode, CallbackCode, Code
<1>2. QED
  BY <1>1 DEF IInv, Placed

LEMMA StepRest ==
  ASSUME IInv, RestOK, [Next]_vars
  PROVE  RestOK'
<1>1. /\ async \in [active : BOOLEAN, saved : Place \union {SHIM}]
      /\ sync \in [pending : BOOLEAN, savedRz : Place \union {SHIM}]
  BY DEF IInv, Shape
<1>2. ASSUME NEW i \in MPE, Packet(i) PROVE RestOK'
  <2>1. ticking' \in MPE \union {NONE}
    BY <1>2 DEF Packet, Plain, TakenBranch, Retire, Return, Shim, MediaRead, MediaWrite,
                MediaShutdownMPE, MediaInitMPE, Runs, Calls
  <2>2. media_mpe' \in MPE /\ media_mpe_allocated' \in BOOLEAN
    BY <1>2 DEF RestOK, Packet, Plain, TakenBranch, Retire, Return, Shim, MediaRead, MediaWrite,
                MediaShutdownMPE, MediaInitMPE, StartsMinibios, media
  <2>3. async'.saved \in Code \union {SHIM} /\ sync'.savedRz \in Code \union {SHIM}
    <3>1. CASE MediaWrite(i)
      BY <3>1, PlacesAreCode DEF RestOK, MediaWrite
    <3>2. CASE Shim(i) \/ MediaShutdownMPE(i)
      BY <1>1, <3>2 DEF RestOK, Shim, MediaShutdownMPE, slots
    <3>3. CASE UNCHANGED slots
      BY <3>3 DEF RestOK, slots
    <3>4. QED
      BY <1>2, <3>1, <3>2, <3>3
         DEF Packet, Plain, TakenBranch, Retire, Return, MediaRead, MediaInitMPE
  <2>4. QED
    BY <2>1, <2>2, <2>3 DEF RestOK
<1>3. ASSUME NEW i \in MPE, Tick(i) PROVE RestOK'
  BY <1>3, PlacesAreCode DEF Tick, RestOK, media
<1>4. CASE ResetForReload
  BY <1>4, MediaAssumption DEF ResetForReload, RestOK, slots
<1>5. CASE UNCHANGED vars
  BY <1>5 DEF vars, slots, media, RestOK
<1>6. QED
  BY <1>2, <1>3, <1>4, <1>5 DEF Next

(* Every MPE is in its program, one callback deep or in the shim, never    *)
(* deeper, and no read has more than MaxBlocks blocks copied or reported,  *)
(* when no call is made while a callback runs.                             *)
THEOREM TypeCorrect ==
  ASSUME Overlaps = {}
  PROVE  Spec => []TypeOK
<1>1. Init => RestOK
  BY MediaAssumption DEF Init, RestOK
<1>2. IInv /\ RestOK /\ [Next]_vars => RestOK'
  BY StepRest
<1>3. IInv /\ QueuesOK /\ RestOK => TypeOK
  <2> SUFFICES ASSUME IInv, QueuesOK, RestOK PROVE TypeOK
    OBVIOUS
  <2>1. /\ pc \in [MPE -> Code \union {SHIM}]
        /\ branch \in [MPE -> Code \union {SHIM, NONE}]
    BY PlacesAreCode DEF IInv, Shape
  <2>2. /\ async \in [active : BOOLEAN, saved : Code \union {SHIM}]
        /\ sync \in [pending : BOOLEAN, savedRz : Code \union {SHIM}]
    BY DEF IInv, Shape, RestOK
  <2>3. DOMAIN fifo = MPE /\ \A i \in MPE : \A n \in DOMAIN fifo[i] : fifo[i][n] \in Entry
    BY LenProperties DEF QueuesOK
  <2>4. QED
    BY <2>1, <2>2, <2>3 DEF TypeOK, IInv, Shape, QueuesOK, RestOK
<1>4. QED
  BY <1>1, <1>2, <1>3, CallbacksTakeTurns, QueuesCorrect, PTL DEF Spec
=============================================================================
