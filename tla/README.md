# A verification of the core of Nuance

Nuance emulates the Nuon: four processors (MPEs) that share memory, talk over a
communication bus, wait for interrupts and call a BIOS.  This directory holds
TLA+ modules of the parts of it whose correctness depends on order, and of the
compiler that replaces its interpreter, model-checked with TLC on small instances
and, for the most important properties, proved with TLAPS for every instance.

File names without a directory are those of `src/src/`.

## 1. Inventory

Almost everything runs on one thread, the *main loop* (`NuanceMain_linux.cpp:203`):
it executes one packet on each MPE from 3 down to 0, runs the communication bus
if a request is pending, looks at the timers every 500 iterations, and hands the
scheduled interrupts to the MPEs.  Concurrency in this program is therefore of
two sorts: the four emulated programs and the devices interleave at packet
granularity, in an order that no code controls; and the audio callback of the
host runs on a real second thread.

A packet, up to five instructions that execute at once, is either interpreted or
part of a *superblock* that was compiled, to x86 code or to a list of instructions for the
interpreter (IL).  Every instruction exists several times in this program: its decoder
declares what it reads and writes, its interpreter executes it, its constant propagator
computes it at compile time, its emitter writes the x86 code for it.  They must agree
on every flag of every form, and nothing but the games tests that they do.

| Component | State | Operations | Talks to |
|---|---|---|---|
| Interrupt unit (`mpe.cpp`, `mpe.h`, `Syscall.cpp`, `MPEControlRegisters.cpp`) | `intsrc`, `inten1`, `inten2sel`, `intctl`, `rzi1`, `rzi2`, `mpego` of each MPE; `WaitForInterruptList`; `schedule_intsrc` | service check and packet, `rti`, register writes, WaitForInterrupt, WaitForCommPacket, TriggerInterrupt, ScheduleInterrupt | bus, timers, audio, MPE control |
| Communication bus (`comm.cpp`) | `commctl`, `commxmit`, `commrecv`, `comminfo` of each MPE; `currentTransmitID`, `pendingCommRequests` | register reads and writes, DoCommBusController | interrupt unit, audio, video |
| MPE control (`mpe_alloc.cpp`) | allocation flags; registers of the MPE that is started | MPEAlloc, MPEFree, MPERun, MPERunThread, MPEStop, MPEReadRegister, MPEWriteRegister | interrupt unit, media |
| Media (`media.cpp`) | `s_cbFifo`, two global return slots, the minibios' MPE, file handles | MediaRead, MediaWrite, TickMediaCallbacks, the return shim, MediaInitMPE, MediaShutdownMPE | processors, host files |
| Audio (`NuonEnvironment.cpp`, `audio.cpp`) | ring, two atomic positions, mute flag, device; channel mode and its last pushed value | TryPushAudioPeriod, the host's callback, InitAudio, CloseAudio, the Audio* calls | interrupt unit, host thread |
| Reload (`ResetForReload`, `InitBios`) | all of the above | loading another title | everything |
| Main loop, timers, VidSync | cycle counts, timer rates, `MPE3wait_fieldCounter`, `trigger_render_video` | the iteration | everything |
| DMA (`dma.cpp`, `bdma_*.cpp`) | command registers, done counters, memory | main-bus, other-bus and bilinear transfers | memory, flash |
| Memory allocator (`MemoryManager.cpp`, `NuonMemoryManager.cpp`, `memory.cpp`) | ordered lists of free and allocated blocks | MemAlloc, MemFree, MemInit | programs |
| Flash EEPROM (`FlashEEPROM.cpp`) | mode, bus cycle, error mode, sector locks, bytes | WriteData, ReadData | DMA |
| Decoder (`Decode*.cpp`), interpreter (`Execute*.cpp`) | the 48 register cells, flags, memory | one handler per instruction form | everything |
| Constant propagation (`PropagateConstants_*.cpp`, `SuperBlockConstants.*`) | constants known before and after a packet | one handler per instruction form | block compiler |
| Emitters (`Emit*.cpp`, `nativecodecache.cpp`, `asmjit_emit.*`) | the code, the dependencies of the packet | one emitter per instruction form | block compiler |
| Block compiler (`SuperBlock.cpp`) | packets and instructions of a block, their dependencies | FetchSuperBlock, dead code elimination, CompileBlock | all of the above |
| Code caches (`InstructionCache.cpp`, `PageMap.cpp`, `OverlayManager.h`) | decoded packets, compiled blocks, written ranges, hashes of overlays | look up, flush, find the overlay | processors, DMA |
| Video, input, loaders, front ends | host objects | drawing, reading | host |

### What is hard, and what would make it correct

* **Interrupts.** A source may arrive between any two packets, in a delay slot, in
  a handler of the other level, or just before its program goes to sleep.  There
  is one return address per level and one bit per mask.  Correct: handlers nest,
  a wake-up is never lost, nothing but a sleeper is woken, what is scheduled is
  served.
* **Bus.** The controller moves packets between registers that programs write at
  any time, and it is only called while a counter kept in four places is not
  zero.  Correct: a packet is never torn, duplicated, overwritten or lost without
  its sender being told; no full buffer is uncounted; nobody starves.
* **Media callbacks.** The return of a callback goes through two slots shared by
  four MPEs.  Correct: what was interrupted is resumed, everything queued is
  delivered, no callback hears of data that is not there.
* **Audio.** Two threads, no lock.  Correct: no race, and a FIFO to the ear.
* **Allocator, flash.** Long sequences of legal calls.  Correct: blocks are
  disjoint and conserved; a locked sector does not change.
* **Instructions.** Carry and overflow of every form, shift counts beyond the word,
  operands read before or after another instruction of the packet wrote them.  Correct:
  emitted code and known constants are what the interpreter computes, declared
  dependencies are what it touches.
* **Blocks.** Delay slots, empty packets, dead code, blocks that are left in the
  middle.  Correct: after any block the processor is where interpreting would have
  brought it.
* **Code caches.** Code is overwritten while it is cached in three forms, and
  nothing is flushed at the time.  Correct: what is executed is what memory holds.

The full list, each at its line, is under `hazards` in `PROJECT.json`; those with
no property carry the reason.

## 2. Modules

| Module | What it is |
|---|---|
| `Interrupts` | interrupt unit, sleeping syscalls, MPE control |
| `CommBus` | bus registers and controller, composed with `Interrupts` (`Int0`) |
| `CommChannel` | abstract specification of the bus |
| `MediaCallbacks` | notification queues, return slots, shim |
| `AudioRing` | ring buffer, device, two threads |
| `AudioFifo` | abstract specification of the audio path |
| `MemoryManager` | free and allocated blocks, the BIOS' memory calls |
| `Words`, `Nuance` | machine words; register cells, flags, dependencies, decoded instructions |
| `DecodeALU`, `DecodeMUL`, `DecodeECU` (with the RCU) | what the decoder makes of the instructions of a unit |
| `ExecuteALU`, ... `ExecuteECU` | the interpreter's handlers |
| `PropagateConstants`, `PropagateConstants_ALU`, `_MUL`, `_Control` (ECU and RCU) | what is known at compile time; the handlers of a unit |
| `X86`, `NativeCodeCache` | the host machine; the functions that emit one of its instructions |
| `EmitMisc`, `EmitALU`, ... `EmitECU` | the emitters: the code for one instruction |
| `Handlers` | the tables that name the handlers of each instruction |
| `EmittedCode` | one instruction, propagated, emitted, run beside its interpreter |
| `Packets` | the order of the instructions of a packet |
| `SuperBlock` | which packets a block takes, and its execution beside the interpreter's |
| `CodeCache` | instruction memory, overlays, decoded packets, compiled blocks |
| `MC*` | values for TLC |
| `*_proofs` | theorems; `Packets_proofs` has the lemmas on folds and on one packet that `SuperBlock_proofs` uses |

    CommChannel <--refines-- CommBus --instance, refines--> Interrupts
    AudioFifo   <--refines-- AudioRing          MediaCallbacks      MemoryManager

    Words <- Nuance <- Execute*, Decode*, PropagateConstants_*, X86 <- NativeCodeCache <- Emit*
    EmittedCode: Handlers (all of these)      SuperBlock: Packets      CodeCache

The last three split the compiler by question: `EmittedCode` is about the data of one
instruction, `SuperBlock` about the control of many with abstract data, `CodeCache` about
which of them are still those of memory.

### Interrupts

`mpe[i]` is a record of the registers, with the source's names.  A step is one call
of `FetchDecodeExecute`: `Now(i)` is the MPE after the service check
(`mpe.cpp:1860`, level 2 first, never between delay slots), then one packet, then
`Retired` (`mpe.cpp:2180`, the delay-slot counter).  Program counters are
abstracted to the routine they are in: user code or one of the two handlers.  A
program is *any* sequence of packets its routine may contain (register writes,
branches with and without delay slots, `rti`, syscalls), limited by
`Programmed`, `EnableMasks`, `Level2` and `WaitMasks`.  `sleeping` is a history
variable: who was stopped by a WaitForInterrupt call.

Decisions a reader should know:

* `rti` is executed only by the handler of its level, and a handler leaves its
  own hardware mask bit alone; a program that does otherwise destroys its own
  return address, in hardware as well.
* The boot code in assembly unmasks interrupts (`intctl` as after a write of
  0xAA); `Booting` starts from there.
* `Controls` is by another MPE: an MPE does not run or stop itself.
* `StopSleepers = FALSE` is a restriction of the input: no MPE is run, stopped,
  reset or reloaded while it sleeps.  Without it, the entry of
  `WaitForInterruptList` that each of these leaves behind restarts an MPE that
  nobody ran, and `OnlySleepersWake` is false; this is listed as a hazard.  All other
  properties are proved without the restriction.
* `MPEWriteRegister(j, i)`: MPE `j` writes the interrupt registers of MPE `i`, awake or
  asleep, through MPEWriteRegister (`mpe_alloc.cpp:339`) or by DMA to its control
  registers; both end in WriteControlRegister.  A write of `intsrc` looks whether `i` has
  to wake, a write of `inten1`, `inten1set` or `inten2sel` does not
  (`MPEControlRegisters.cpp:338-353`).  So a sleeper may have an enabled source
  pending, if it was enabled from outside while it slept; the history field `enabledLate` holds
  these sources, and `NoLostWakeup` allows them and no other.  The writes of `mpectl` are `MPERunMedia`,
  `MPEStop` and `ResetMpe`.
* Left out: outside writes of `rzi1`, `rzi2`, the program counters and the hardware mask
  bits, which take a running handler's way back from it; and in `CommBus` outside accesses to the
  comm registers.

### CommBus

`commctl` is a record of its bits, the four words of a packet are `words` and
`last` (the word whose write requests transmission).  `DoCommBusController` is one
action, as in the code, where it is not interrupted: `Selected` searches from
`currentTransmitID`, `Deliver`, `RetryLater`, `Fail` and `ToDevice` are its four
outcomes, each followed by `Advance`.  The interrupts it raises are `Interrupts`'
`Raise`, so a delivery wakes a sleeper in the same step.  `Accesses(i)` ties
every register access to a packet of MPE `i`.  `HasPacket` is the check of
WaitForCommPacket: the receive buffer, or the queue in memory where the BIOS'
handler puts what it received (external: `queued`, `TakeQueued`).
`SleepersHaveNoPacket` and `PacketWakesReceiver` are about receivers whose interrupt is
enabled in time (`EnabledInTime`): one whose interrupt another MPE enables while it sleeps is
not woken, as in `Interrupts`.

`Polls` says that a sender waits for its buffer to empty, as the BIOS' sending
routine does.  `ImplementsChannel` needs that: without it a second write of
`commxmit3` replaces a packet, in the code and in hardware.

### MediaCallbacks

The build with `MEDIA_ASYNC_CALLBACKS` (`media.cpp:29`).  An MPE's registers,
stack pointer and program counter are abstracted to `[mpe, depth]`: whose code it
runs, and how many callbacks deep.  `async` and `sync` are the two global slots,
`frames` the history of what each callback really interrupted.  `ticking`
separates the packet from the `TickMediaCallbacks` that ends the same
FetchDecodeExecute.  The data of a read is a count of blocks, `arrived` in
memory and `told` to callbacks.  MPERun, MPEStop and resets of an MPE with a callback in flight
are left out here, and MediaInitMPE takes a halted MPE.

`Overlaps` restricts what may happen while a callback is in flight.  Between
callbacks nothing is restricted, a reload neither.  The three things it can
allow each break `ResumesExactly` (put them in `MediaCallbacksResume.cfg` to see how):
`"write"`, because a MediaWrite from a read's callback takes the second slot and the shim
always empties the first one first; `"shutdown"`, because MediaShutdownMPE empties both;
`"reload"`, because ResetForReload empties neither.

### AudioRing

The standalone build (not `LIBRETRO`).  Every access to what the threads share is
a step of its own: the pushing thread writes one frame at a time and then its
position; the callback loads both positions, then the mute flag, copies frame by
frame and stores its position.  Loads are acquire and stores release, so an
interleaving of single accesses is what the memory model allows.  Positions count
frames and wrap at `Wrap`, which stands for 2^32 bytes and is a multiple of the
ring's size: GetBufferSize returns powers of two and there are four slots.  Opening
and starting the device may fail.  CloseAudio waits at `ma_device_uninit` until the
callback is idle.  `interrupt` stands for "INT_AUDIO is pending and enabled in some
MPE".  The rate of the timer, the clamp of the device's rate and the interrupt per
sample are left out.  The early return for a ring that is null (`NuonEnvironment.cpp:63`)
is not in the model: `NoDataRace` says that a callback runs only while its ring
exists.

### MemoryManager

The two lists of each bus, with the source's operations: `Add` with its place and
its joining of neighbours, `AddAllocatedBlock` with the condition it really has,
the search of `Allocate` (`Candidates`, first fit) and its four ways to cut a block
(`Taken`), in words that wrap at `Top`.  MemAlloc, MemFree and MemInit are atomic,
as BIOS calls are.  `held` is the history of what programs were given, `answer` the last
call with its result.

Because `AddAllocatedBlock` never makes a first entry, both lists of allocated blocks
stay empty and MemFree changes nothing (section 4): of `Free` only the path that
finds nothing is ever taken, and free blocks are cut up but never joined until the
next MemInit.  Restricted inputs: programs free what they hold, and request sizes and
alignments that do not wrap.  The last branch of Init, for a system bus of more than
8 MB, is dead code (`SYSTEM_BUS_SIZE` is a constant) and left out.

### EmittedCode and the modules of the units

Each handler of the source is an operator with the source's name.  An interpreter's handler
`Execute_X(m, p, n)` takes the register file m that it changes, the one p that it reads,
and the instruction n, a record of the fields of the source's Nuance; an emitter `Emit_X(v, n)`
gives a sequence of x86 instructions, each made by the function of `NativeCodeCache` that
the source calls; a propagator `PropagateConstants_X(c)` a new record of constants.
`X86` executes the code: registers with their bytes, flags, SSE vectors, labels,
the two register files (live, and the copy made at the start of a packet).  An access
through anything but these is recorded in `wild`.

A word has W = 16 bits instead of 32; masks, shift counts and positions are written
with W, so the same formulas hold for 32.  16 bits leave room for the eleven flags
and keep a double word in TLC's integers.  Eight of the 32 scalar registers are kept.

A behaviour fetches a form, propagates constants over it or not, emits it for some
`emitVars` (which operands are read from the copy, which outputs are still needed), and
executes it on some register contents both ways.  `Changed` is what the other
instructions of the packet may have written already, `Stale` what was not copied; both
differ from the truth in every bit, so that reading the wrong file is seen.
The bit fields of the instruction words are not modelled: `DecodeInstruction_*` take the
fields that were extracted.  The handlers that write to memory or have no
effect on registers are outside the four units.

### SuperBlock

`cpu` executes a program by packets and by blocks in any order, as a processor does
whose blocks come and go with the caches; `reference` executes the same packets by
interpretation only.  FetchDecodeExecute is `Interpret` or `RunBlock`.  A packet's data is abstracted: an
instruction writes a number to its outputs that depends on every cell it reads, so
any wrong order, missing copy or dropped write shows in `Lockstep`.  `CompileBlock`
follows the source: packets are fetched with their delay slots, put in order
(`DecompressPacket`, memory unit first), outputs trimmed and dead instructions marked from the
end, dependencies computed from what is left.  Native code may or may not write an
output that was trimmed (`all`).  Emitted code that meets a control register leaves the block; `late` are
the cells whose write was left out although the block did not come to the one that replaces it.
`Lockstep` does not compare them.  `LateIsUnseen` says why it need not: from where the processor
stands, a packet that is certain to be executed writes the cell before any packet reads it.  An
interrupt that is taken in between would see it; interrupts are not in this module.

Memory is one cell, `mem`.  Of the instructions that change it only `st_s Sj,(Si)` declares the output
MEM_STORE (`DecodeMEM.cpp:90`); the others are `Unmarked` (pushes and pops, the
other stores, stores to control registers), and dead code elimination sees only what is
`Declared`.

`Defects` names seven ways in which the source goes wrong; a block that meets one is not
run unless it is listed (section 4).

### CodeCache

One processor.  Its instruction memory is a row of sections, each with one of `Codes`;
contents stand for their hashes.  `Load` is any write that the source notices (DMA
from either side, MPELoad), between any two packets, of any sections.
`Fetch` is the first half of FetchDecodeExecute, up to the lookup; then it is a
compiled block (`RunBlock`), a packet that is compiled now (`Compile`), or one that
is interpreted.  `only_find_icache_entry` says that delay slots come next, or a second try of
a packet at which a block was left.  It outlives whatever sends the processor elsewhere: an
interrupt (`mpe.cpp:1865` looks at the delay slots only), MPERun, a media callback, a write of `pcexec`;
so `Fetch(s)` takes any section, whatever comes next.  `executed` records what was executed and what
memory held, and in `known` whether it is one of the two cases of section 4 in which they may differ:

* `Interpret` as a second try, or in a delay slot, of a section whose decoded packets wait for their flush:
  the lookup that would flush them is skipped (`mpe.cpp:1981`, `:1990`).
* `RunBlock` of a block that overran when it was compiled, or does now (`Overruns`): it runs
  into a range that was written and not hashed since, because only the address where a block
  begins is compared with that range (`mpe.cpp:1921`).

`Coherent` is about everything else, with no restriction of blocks, loads or tries; without either of the
two exemptions TLC finds it violated.  Left out: the slots of the direct-mapped cache (an entry may be
replaced at any time by code outside), code that a program writes with its own
stores, which the source does not notice ("assumes that code will not be
dynamically created", `dma.cpp:803`), a transfer that a block starts into its own later
code, and code outside instruction memory, flushed only on request of
the program.

## 3. Runs

| Run | Bounds | Question |
|---|---|---|
| `InterruptsNest` | 2 MPEs: one runs every program, one controls it and writes its interrupt registers, awake or asleep; 2 sources, one at each level; reload | nesting, lost wake-ups, spurious wake-ups |
| `InterruptsLive` | 1 MPE, all programs without MPE control, fair | is a scheduled source served |
| `CommBusChannel` | 2 MPEs, one sends to the other and a device, 2 word values, reload | do the registers implement the channel |
| `CommBusCount` | 2 senders that overwrite, lock, are reset; 2 pending; 1 source | is every buffer counted, does every sender get its turn |
| `CommBusWake` | 1 sender, which also writes the interrupt registers of the 1 receiver that sleeps and handles its interrupt; no branches with delay slots | check-then-sleep against delivery; use of the interrupt unit |
| `MediaCallbacksResume` | 2 programs, 2 requests of 2 blocks, reloads between callbacks, fair | is no callback told too early, does the shim resume, does every queue drain |
| `AudioRing` | ring of 2 slots of 2 frames, positions wrap every 8 frames, 1 to 3 frames asked at once | races, FIFO, back-pressure |
| `MemoryManager` | 256 addresses in vectors of 4, buses of 5 and 2 vectors, 2 sizes, 4 alignments (one invalid) | is memory conserved, apart, aligned, and given when there is some |
| `MemoryManagerFree` | the same | violation: `FreedComesBack` |
| `EmittedCode` | every form of the four units; 16-bit words, 25 pairs of operands (6 when constants propagate); 5 shift counts, 2 immediates; 6 sets of needed outputs and dependencies | do emitted code, interpreter, decoder and constant propagation agree |
| `SuperBlock` | 14,340 programs of 3 or 4 packets: 12 branches, 10 packets as slots, 12 as bodies; blocks of 1 or 4 packets, native or IL, dead code elimination on or off; 1.7 million states | does a block do what its packets do, and is what a block left out when it was left written before it is read |
| `CodeCache` | 2 sections, a block from the first into the second, 2 codes, hence 4 programs for 2 overlays | is anything stale executed |

Why these bounds show something.  Two levels need two sources, and nesting has depth
two; the controller MPE interferes at every packet.  On the bus, contention, lock
and round robin need two senders; tearing needs two word values; `MaxPending` is
above the number of buffers where surplus requests matter.  A read of two blocks
with a notification each, a second request from the other MPE and one level of
callbacks give every order of the two slots.  In the ring the period does
not divide the numbers of frames asked for, so copies straddle the end of the ring and of
the positions, and two slots are the least at which a push and a callback overlap.
Five vectors that begin unaligned let a request cut its block at the beginning, in
the middle, at the end, or use it up, with other free blocks before and behind it.

Operands are the words at which carries, signs and shifts change (0, 1, 16, the largest
positive, the smallest negative, all ones), in all pairs, with the flags different for operands in order,
equal and out of order; shift counts are 0, 1, around half a word, and the last.
Constants are known in one register, in one with every flag, in all, or in all with
every flag.  Three packets let the second be read, overwritten or passed over by a
block that begins before it; a branch, its two slots and a packet before it are four.
Four programs for two overlays make an overlay's number change owner, and come back.

Every property has a mutant, a plausible slip in one definition that makes TLC
find it violated; they are the definitions marked `Mutant` in the modules.
`CHECK_DEADLOCK FALSE` in the CommBus runs: MPEs that all sleep, with no timer in
the model, are a state the system really stops in; in the SuperBlock run: behind the program the processor halts.

**Fairness.** The main loop calls every MPE, the bus controller and
TriggerScheduledInterrupts in each iteration, and has no way to skip one for ever:
weak fairness of each.  Two exceptions: MPE 3 is not fetched while VidSync waits
for a field (`NuanceMain_linux.cpp:213`), which is assumed to end; and
`MediaCallbacks` uses strong fairness of packets, because MPEs run in turn and a
packet that is enabled again and again does execute.  `SF(Return)` says that the
program's callbacks return, and that one title is the last to be loaded.  In `AudioRing` the loop tries to push for ever, and
the host calls the callback while the device is open; nothing is assumed of the programs.

## 4. Findings

With a run of its own:

* **code_bug** (`MemoryManagerFree`): MemFree never gives memory back, because
  what was allocated is never entered in the list that Free searches.

In the other modules what goes wrong is named and excluded, by a constant that restricts
the programs or by a history variable that marks the case, and the properties are
checked for the rest.  Each can be seen by lifting the restriction, or by taking the exemption
out of the property.

| What | Where | Lift |
|---|---|---|
| a media call, a shutdown or a reload under a running callback loses what it interrupted | `media.cpp:113`, `:235`, `NuonEnvironment.cpp:184` | `Overlaps` |
| MPERun, MPEStop, a reset or a reload leaves the wait-list entry of a sleeper behind | `NuonEnvironment.cpp:199` | `StopSleepers` |
| enabling a pending source of a sleeper from another MPE (`inten1`, `inten1set`, `inten2sel`) does not wake it, as raising it would | `MPEControlRegisters.cpp:338-353`, `mpe_alloc.cpp:339` | `enabledLate` in `NoLostWakeup`, `EnabledInTime` |
| dead code elimination takes branches for dead code: they have no output dependencies (the option is off by default) | `SuperBlock.cpp:804` | `Defects`: `DeadBranch` |
| with it, every store, push and pop but `st_s Sj,(Si)` is dead, because the decoder does not declare that it changes memory; the comment at `SuperBlock.cpp:794` counts on that | `DecodeMEM.cpp:192-222`, `:671-797`, `:823-932`, `:973-985`, `:1142`, `:1172-1184`; `SuperBlock.cpp:808` | `LostStore` |
| with it, a conditional call counts as a write of rz, so that the last one before it is lost when it is not taken | `DecodeECU.cpp:408` | `LostReturn` |
| with it, an output that need not be written still is, and is not copied when its packet reads it | `SuperBlock.cpp:783` | `StrayOutput` |
| in IL an empty delay slot has no end and is not counted, so a branch comes one packet late | `SuperBlock.cpp:1060` | `EmptySlot` |
| `ld_v (Si)` is not marked as MEMORY_INDIRECT, as the other loads through a register are (`:71`, `:83`, `:869`); so its code may leave a block in a delay slot (`EmitMEM.cpp:737`), and the interpreter that goes on there knows nothing of the branch | `DecodeMEM.cpp:568` | `LeftSlot` |
| a breakpoint that is alone in its packet is taken for a NOP, one in a delay slot is not looked for | `SuperBlock.cpp:973`, `:1032` | `LostBreakpoint` |
| a block is found although decoded packets await their flush; it leaves itself for the interpreter, which executes the packet of the previous overlay, there or wherever an interrupt, a callback or MPERun has sent it | `mpe.cpp:1981`, `:1990` | `executed.known` in `Interpret` |
| a block that begins before a written range and runs into it is kept (the comment above the test doubts it too) | `mpe.cpp:1921` | `executed.known` in `RunBlock` |
| arithmetic immediates with the highest bit set are compiled to 64-bit operations, with other flags | `nativecodecache.cpp:331` | `WideImmediate` |
| three multiplications shifted by svshift overwrite esi, the base of the registers, and store through it | `EmitMUL.cpp:1263`, `:1374`, `:1519` | `CountInEsi` |

`DeadBranch` and `LostStore` need dead code elimination without constant propagation: with both, the
propagators of stores and branches lock their instructions (`SUPERBLOCKINFO_LOCKED`,
`PropagateConstants_MEM.cpp`, `PropagateConstants_ECU.cpp`), and what is locked is not
eliminated (`SuperBlock.cpp:779`).

What follows from a lifted restriction is for the authors of the code to judge: some of
these options are off, and some of these programs may not exist.

## 5. Proofs

| Theorem | Says | Argument |
|---|---|---|
| `Interrupts_proofs!TypeCorrect` | types | one lemma per register function (`Now`, `Retired`, `Woken`, ...) |
| `Interrupts_proofs!NestingCorrect` | `HandlersNest` | inductive with types and `ecuSkip`: the masks follow where the MPE will be once its delay slots are over, not where it is |
| `Interrupts_proofs!WakeupCorrect` | `NoLostWakeup` | inductive with types: any source that would wake a sleeper does so in the step that raises it, and one that is enabled from outside is in `enabledLate` from then on (`SleepsSoundly`) |
| `Interrupts_proofs!WakingCorrect` | `OnlySleepersWake` | inductive: an MPE has a wait list only while it sleeps; assumes `StopSleepers = FALSE` |
| `CommBus_proofs!PendingCorrect` | `PendingCoversFull` | cardinality of the full buffers before and after each step |
| `CommBus_proofs!InterruptsImplemented` | `ImplementsInterrupts` | each bus step is a step or stutter of the interrupt unit |
| `CommBus_proofs!ComposedCorrect`, `TypeCorrect` | the invariants of `Interrupts`, of the composition; types | from the refinement |
| `CommBus_proofs!SleepersCorrect` | `SleepersHaveNoPacket` | `SleepInv`: a sleeper waits for all that it has enabled in time, and has no packet if the receive interrupt is among that; so a delivery wakes it in the same step; assumes `OnlyWaitsForPackets` |
| `CommBus_proofs!ChannelImplemented` | `ImplementsChannel` | step by step under the refinement mapping `Outbox`, `Inbox`, `Address`, `Closed`, `Failed`; assumes `Polls` |
| `MediaCallbacks_proofs!CallbacksTakeTurns` | at most one callback in flight | the slots, the frames and the program counters describe the same callback; needed because `ResumesExactly` alone says nothing of the states between |
| `MediaCallbacks_proofs!ShimResumesInterrupted`, `TypeCorrect` | `ResumesExactly`, types | from it; assumes `Overlaps = {}`: no media call, shutdown or reload while a callback is in flight |
| `MediaCallbacks_proofs!ToldCorrect` | `ToldHasArrived` | `QueuesOK`: a notification covers no more than what has arrived and the blocks of its read up to its own place in the queue, by cardinality, and a read has entries in one queue only; assumes nothing of overlaps |
| `AudioRing_proofs!TypeCorrect`, `NoRace` | types, `NoDataRace` | `RingInv`: the writer's position is a multiple of the period (`PositionsOK`); a push in progress has room for its whole period and has written what it was to (`PushOK`); a callback drains from where the reader is, no more than is available, and has copied what the ring holds there (`CallbackOK`). The cells of the two threads are then disjoint pieces of one turn of the ring |
| `AudioRing_proofs!FifoImplemented` | `ImplementsFifo` | step by step: a frame written past the writer's position is not in the queue, a position that is stored appends a period or drops what was copied |
| `MemoryManager_proofs!TypeCorrect`, `HeldApartCorrect` | types, `HeldApart` | `MemoryInv`: free blocks are in order with a gap between any two, and apart from everything held. `TakenOK`, the main lemma, says that a block is replaced by what remains of it; no `Add` joins anything |
| `MemoryManager_proofs!GrantedCorrect` | `GrantedAsRequested` | a candidate holds the request from the least aligned address on |
| `MemoryManager_proofs!NothingLostCorrect` | `NothingLost` | every byte of the block that was cut is in what was taken or in what remains |
| `MemoryManager_proofs!FailureCorrect` | `FailureJustified` | with gaps between blocks a run of free bytes lies in one block (`NoRunIsFree`), which would then be a candidate |
| `CodeCache_proofs!CodeIsCoherent` | `Coherent` | inductive: outside the written range memory is the first overlay of the list; blocks that do not overrun, and did not when they were compiled, are copies of their overlays, whose numbers differ; a decoded packet is fresh, or in the range that waits to be flushed and the flush comes before its lookup, unless it is a second try. `Coherent` alone says nothing of what is cached. Assumes nothing of loads, blocks and tries |
| `CodeCache_proofs!TypeIsOK` | types | inductive by itself |
| `SuperBlock_proofs!TypeCorrect`, `BlocksFit` | types, `BlockFits` | types are inductive (`Typed`); a block's length is an invariant of the loop that fetches it. Whatever the defects |
| `SuperBlock_proofs!BlocksInLockstep` | `Lockstep` | see below; assumes `Defects = {}` |
| `SuperBlock_proofs!LateIsNeverSeen` | `LateIsUnseen` | the same inductive invariant; assumes `Defects = {}` |

They hold for any number of MPEs, sources, words, requests, slots, periods, addresses,
sections, codes and overlays, and for programs of any length and packets of any
contents that the processor's encoding allows.  The assumptions
on the constants are the `ASSUME`s of the modules, which TLC evaluates in the
runs.  Inductive invariants were checked by TLC on the small instances before they were proved.

Hypotheses beyond those, each a restriction of what programs do:

* `StopSleepers = FALSE`, `Polls`, `Overlaps = {}`, `Defects = {}`: as in section 2.
* `OnlyWaitsForPackets`: MPEs sleep in WaitForCommPacket only.  With the mask of
  WaitForInterrupt a program may leave out the receive interrupt, and then it
  rightly sleeps on while a packet arrives.
* `AligningStays`: aligning an address of a bus does not wrap.  Of the alignments that
  are powers of two this excludes 2^31 only; with that one the aligned address is 0,
  in no bus (hazard at `MemoryManager.cpp:156`).

Two assumptions on constants came out of the proofs.  Positions of the audio ring must wrap
after two turns of the ring or more (`2 .. Wrap` in `AudioAssumption`): were it one, a full
ring would look empty.  In the source it is 2^32 bytes against rings of some KB.
VECTOR is less than the number of addresses, and so no size is padded to 0.

The memory proofs rest on the finding of section 4: the lists of allocated
blocks are proved to stay empty, so that MemFree changes nothing.  Were MemFree repaired, free
blocks could touch before `Add` joins them, and `MemoryInv` would need the allocated
blocks as well; the lemmas on lists, on words and on `Taken` would stay.

### The argument for blocks

`Lockstep` compares the end of a block with the end of as many interpreted packets; nothing
in it says how the two are related half-way.  The proof goes along the block, packet by packet:

1. **Folds.**  Compilation and execution are folds over sequences.  `FoldExists` shows that the
   function by which the library defines a fold exists, by the well-foundedness of inclusion on
   finite sets; a fold is then a run of states `R[0], R[1], ...`, and an invariant of its steps
   an invariant of the run (`Packets_proofs`).
2. **One packet.**  `Executes` is what a packet does, told without an order of its instructions:
   outputs are disjoint, and each instruction reads what was there before.  The interpreter, the
   IL and native code each do that in the order the source gives them (`InOrder`, the memory unit
   first) with the copies it makes (`Masking`, `OpDependencies`).
3. **The block.**  `Layout` relates the packets of a block to addresses: which were dropped because
   they are empty, where the branch is, which are its slots, and before each the cells that need
   not be written (`M`), because a later packet of the block writes them and none between reads
   them.  `Sound` is what it means that the block meets no known defect.
4. **Side by side.**  `RefRun` is the run of the reference through the addresses of the block.
   After `k` packets of the block, the cells agree but for those that a later packet still
   writes (`CellsAt`); `ILAt` and `CodeAt` add program counters, delay slots and what happens when
   the branch was taken or the block was left.
5. **The ends.**  At the end of a block no later packet is left, so no cell is apart that was not before; if
   the block was left, those that do not are `Hidden`, and what interpretation or another block does next
   keeps them hidden or writes them.  Hence `BlockTogether`, and with it the inductive invariant

       IInv == Typed /\ Together(cpu, reference, late) /\ late \subseteq Apart

   `Lockstep` is not inductive without `Hidden`: a cell that is late could be read by the next packet
   and carry the difference to one that is not.  The invariant itself is the conjunction
   of what the run checks (`Together` is `Lockstep` with `LateIsUnseen`), and `late` is cut to
   `Apart` in each step.

Assumptions: `ProgramAssumption` (the instructions of a packet are on different units and have disjoint
outputs, only the memory unit accesses memory, whether it declares that or not, a branch has no outputs but its link: what the encoding
and the hardware ask of a program) and `SuperBlockAssumption` (types of the options).
`Defects = {}` excludes exactly the blocks of the seven rows of section 4; all other programs
and blocks are covered, with dead code elimination and without.  `LeftSlot` was found by this proof: the
case of a block left between a branch and its slots could not be closed, and TLC
showed the program once `ReachVector` was among the slots.

Only model-checked: the liveness properties (`SleeperIsServed`,
`TransmitDrains`, `PacketWakesReceiver`, `NotificationsArrive`, `ArmedIsPushed`),
because liveness under fairness is out of this prover's reach; and `EmittedCode`, whose
question, whether four tables of some hundred entries agree on the bits of a word, is
one for enumeration; besides, the run of emitted code (`X86!Run`) is a RECURSIVE operator, and a
module that reaches one is beyond the prover.

## 6. Not modelled

Pure I/O and text: printers, drawing, input devices, ISO images, loaders; the libretro
loop and the legacy Qt shell; vendored code.

Of the compiler: the memory unit (`ExecuteMEM.cpp`, `EmitMEM.cpp`,
`PropagateConstants_MEM.cpp`, `DecodeMEM.cpp`), whose instructions are moves between
registers and five kinds of memory with pixel conversions: only how it leaves a block
is in `SuperBlock`; the bit fields of instruction words; the encoding of x86 instructions,
which asmjit does; the replacement of loads of `pcexec` by constants; the emitters'
branches for hosts without SSE4.1.

Of the processors: address registers of DMA, flash, VidSync, the allocation flags.

## 7. Plan

In this order:

1. The memory unit in `EmittedCode`: moves, loads and stores with a small memory.
2. `Flash`: modes, bus cycles, sector locks.  Question: a locked sector never
   changes, a sequence that is cut short leaves the array readable.
3. `MpeAlloc`: the allocation flags, composed with `Interrupts` and MediaInitMPE.
   Question: an MPE has one owner.
4. `Dma`, `MainLoop`: command queue and done counters; VidSync's wait.
5. Interrupts in `SuperBlock`, so that what is late may be seen.
