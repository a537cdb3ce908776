----------------------------- MODULE CodeCache -----------------------------
(***************************************************************************)
(* The caches of one processor's code: decoded packets (InstructionCache), *)
(* compiled blocks (NativeCodeCache with its PageMap), and the overlays    *)
(* that tell apart the programs which take turns in its instruction        *)
(* memory (IRAM).  Nothing is flushed when IRAM is written: the range is   *)
(* noted, and when the processor next executes there, IRAM is hashed to    *)
(* find which overlay it holds now.  Compiled blocks are looked up by      *)
(* address and overlay, decoded packets by address alone.                  *)
(*                                                                         *)
(* IRAM is a row of sections, each a piece of code that ends in a branch   *)
(* and is written as a whole.  memory says which code a section holds.     *)
(* Contents stand for their hashes: two programs with the same hash are    *)
(* not in the model.                                                       *)
(***************************************************************************)
EXTENDS Integers

CONSTANTS
    N,              \* the number of sections
    Codes,          \* what a section may hold
    maxOverlays,
    BlockEnd,       \* the last section of the block that begins in a section
    None

Sections == 1..N

ASSUME CodeCacheAssumption ==
    /\ N \in Nat \ {0}
    /\ maxOverlays \in Nat \ {0}
    /\ BlockEnd \in [Sections -> Sections]
    /\ None \notin Codes
    /\ None \notin Sections

VARIABLES
    memory,
    invalidateRegion,               \* written since IRAM was hashed
    interpreterInvalidateRegion,    \* written since decoded packets were flushed
    bInvalidateInterpreterCache,
    numOverlays,
    overlayLRU,                     \* index and hash of the overlays, the last used first
    overlayMask,
    nativeCode,                     \* blocks by overlay and section
    instructionCache,               \* decoded packets by section
    only_find_icache_entry,         \* is a delay slot or a second try next
    pcexec,                         \* the section that is being fetched
    executed                        \* history: what was executed there, what memory held, and
                                    \* whether it is one of the known cases that may differ

regions == <<invalidateRegion, interpreterInvalidateRegion, bInvalidateInterpreterCache>>
overlays == <<numOverlays, overlayLRU, overlayMask>>
caches == <<nativeCode, instructionCache>>
vars == <<memory, regions, overlays, caches, only_find_icache_entry, pcexec, executed>>

-----------------------------------------------------------------------------
(* Regions: from a first to a last section.                                *)

NoRegion == [start |-> N + 1, end |-> 0]
IRAM == [start |-> 1, end |-> N]
In(s, r) == r.start <= s /\ s <= r.end
Extended(r, a, b) == [start |-> IF a < r.start THEN a ELSE r.start,
                      end |-> IF b > r.end THEN b ELSE r.end]
UpdateInvalidateRegion(a, b) ==
    /\ invalidateRegion' = Extended(invalidateRegion, a, b)
    /\ interpreterInvalidateRegion' = Extended(interpreterInvalidateRegion, a, b)

Block(s) == s .. BlockEnd[s]
Contents(s) == [i \in Block(s) |-> memory[i]]
Nothing == [s \in Sections |-> None]
NoBlocks == [i \in 0 .. maxOverlays - 1 |-> Nothing]

\* Only where a block begins is it asked whether code was written: this one runs
\* into a range that was not hashed since.
Overruns(s) == \E x \in Block(s) : In(x, invalidateRegion)

-----------------------------------------------------------------------------
(* OverlayManager                                                          *)

Known == {i \in 1..numOverlays : overlayLRU[i].hash = memory}
\* A list of n overlays: e, then those before the i-th, then those behind it.
MovedToFront(n, i, e) ==
    [j \in 1..n |-> IF j = 1 THEN e ELSE IF j <= i THEN overlayLRU[j - 1] ELSE overlayLRU[j]]
Use(n, i, idx) ==
    /\ numOverlays' = n
    /\ overlayLRU' = MovedToFront(n, i, [idx |-> idx, hash |-> memory])
    /\ overlayMask' = idx

\* Mutant: the blocks of an overlay whose index is given to another are kept.
ReuseUnflushed(n, i, idx) == Use(n, i, idx) /\ UNCHANGED nativeCode
\* They are flushed.
Reuse(n, i, idx) == Use(n, i, idx) /\ nativeCode' = [nativeCode EXCEPT ![idx] = Nothing]

\* Mutant: the list may grow beyond its bound.
FindOverlayUnbounded ==
    \/ \E i \in Known : Use(numOverlays, i, overlayLRU[i].idx) /\ UNCHANGED nativeCode
    \/ Known = {} /\ numOverlays <= maxOverlays /\ Reuse(numOverlays + 1, numOverlays + 1, numOverlays)

\* The overlay is one of those in the list; or it gets the next index; or that
\* of the overlay that was not used for the longest time.
FindOverlay ==
    \/ \E i \in Known : Use(numOverlays, i, overlayLRU[i].idx) /\ UNCHANGED nativeCode
    \/ Known = {} /\ numOverlays < maxOverlays /\ Reuse(numOverlays + 1, numOverlays + 1, numOverlays)
    \/ Known = {} /\ numOverlays = maxOverlays /\ Reuse(numOverlays, numOverlays, overlayLRU[numOverlays].idx)

-----------------------------------------------------------------------------
(* The processor                                                           *)

Init ==
    /\ memory \in [Sections -> Codes]
    /\ invalidateRegion = IRAM /\ interpreterInvalidateRegion = IRAM
    /\ bInvalidateInterpreterCache = FALSE
    /\ numOverlays = 0 /\ overlayLRU = <<>> /\ overlayMask = 0
    /\ nativeCode = NoBlocks /\ instructionCache = Nothing
    /\ only_find_icache_entry = FALSE /\ pcexec = None /\ executed = None

Idle == pcexec = None

\* A DMA transfer, of this or another processor, or a BIOS call loads code.
Load(a, b, code) ==
    /\ Idle
    /\ memory' = [s \in Sections |-> IF s \in a..b THEN code[s] ELSE memory[s]]
    /\ UpdateInvalidateRegion(a, b)
    /\ executed' = None
    /\ UNCHANGED <<bInvalidateInterpreterCache, overlays, caches, only_find_icache_entry, pcexec>>

\* FetchDecodeExecute begins: is this code that was written?  Even if a second
\* try is next, s is any section: an interrupt, a media callback, MPERun or a
\* write of pcexec may have sent the processor elsewhere.
Fetch(s) ==
    /\ Idle
    /\ pcexec' = s
    /\ IF In(s, invalidateRegion)
       THEN FindOverlay /\ bInvalidateInterpreterCache' = TRUE /\ invalidateRegion' = NoRegion
       ELSE UNCHANGED <<overlays, nativeCode, bInvalidateInterpreterCache, invalidateRegion>>
    /\ executed' = None
    /\ UNCHANGED <<memory, interpreterInvalidateRegion, instructionCache, only_find_icache_entry>>

\* A block is entered only where no delay slot and no second try is next.
IsCompiled == ~only_find_icache_entry /\ nativeCode[overlayMask][pcexec] # None

\* Decoded packets are flushed only when a lookup of blocks has failed.
IsFlushed == ~only_find_icache_entry /\ bInvalidateInterpreterCache
Kept == [s \in Sections |-> IF IsFlushed /\ In(s, interpreterInvalidateRegion) THEN None ELSE instructionCache[s]]
Flush ==
    /\ bInvalidateInterpreterCache' = (bInvalidateInterpreterCache /\ ~IsFlushed)
    /\ interpreterInvalidateRegion' = IF IsFlushed THEN NoRegion ELSE interpreterInvalidateRegion

\* A block may be left at a packet that must be interpreted, or between a branch
\* and its delay slots; a packet that is interpreted may be that branch.
Execute(did, now, known) ==
    /\ executed' = [did |-> did, memory |-> now, known |-> known]
    /\ pcexec' = None
    /\ only_find_icache_entry' \in BOOLEAN

\* Known: the block was compiled, or is run, while it overruns.
RunBlock ==
    /\ ~Idle /\ IsCompiled
    /\ LET block == nativeCode[overlayMask][pcexec]
       IN Execute(block.code, Contents(pcexec), block.overran \/ Overruns(pcexec))
    /\ UNCHANGED <<memory, regions, overlays, caches>>

\* A packet that was decoded often enough is compiled, from memory, and the
\* block is run.  The code cache may be full: it is emptied before.
Compile ==
    /\ ~Idle /\ ~IsCompiled /\ ~only_find_icache_entry
    /\ Kept[pcexec] # None
    /\ Flush
    /\ instructionCache' = Kept
    /\ \E before \in {nativeCode, NoBlocks} :
        nativeCode' = [before EXCEPT ![overlayMask][pcexec] =
                          [code |-> Contents(pcexec), overran |-> Overruns(pcexec)]]
    /\ Execute(Contents(pcexec), Contents(pcexec), FALSE)
    /\ UNCHANGED <<memory, invalidateRegion, overlays>>

\* It is interpreted: as it was decoded, or else as it is decoded now.  It may
\* halt; compiling it may have failed for want of space.  Known: the flush that
\* decoded packets of this section wait for is passed over.
Interpret ==
    /\ ~Idle /\ ~IsCompiled
    /\ Flush
    /\ LET packet == IF Kept[pcexec] # None THEN Kept[pcexec] ELSE memory[pcexec]
       IN /\ instructionCache' = [Kept EXCEPT ![pcexec] = packet]
          /\ Execute(packet, memory[pcexec],
                     /\ only_find_icache_entry /\ bInvalidateInterpreterCache
                     /\ In(pcexec, interpreterInvalidateRegion))
    /\ invalidateRegion' \in {invalidateRegion, IRAM}
    /\ nativeCode' \in {nativeCode, NoBlocks}
    /\ UNCHANGED <<memory, overlays>>

\* Code outside IRAM is executed, compiled or not.  It may have asked to
\* invalidate the caches, and its packet may take the place of another.
ExecuteElsewhere ==
    /\ Idle
    /\ \E invalidates, found \in BOOLEAN, replaced \in Sections \cup {None} :
        LET decoded == IF found THEN instructionCache ELSE Kept
        IN /\ instructionCache' = [s \in Sections |-> IF invalidates \/ s = replaced THEN None ELSE decoded[s]]
           /\ IF found THEN UNCHANGED <<bInvalidateInterpreterCache, interpreterInvalidateRegion>> ELSE Flush
    /\ nativeCode' \in {nativeCode, NoBlocks}
    /\ only_find_icache_entry' \in BOOLEAN
    /\ executed' = None
    /\ UNCHANGED <<memory, invalidateRegion, overlays, pcexec>>

\* mpectl: the go bit is set.
Restart ==
    /\ Idle
    /\ instructionCache' = Nothing /\ nativeCode' = NoBlocks
    /\ invalidateRegion' = IRAM
    /\ only_find_icache_entry' \in {FALSE, only_find_icache_entry}
    /\ executed' = None
    /\ UNCHANGED <<memory, interpreterInvalidateRegion, bInvalidateInterpreterCache, overlays, pcexec>>

\* It does not clear interpretNextPacket, so that the first packet is
\* interpreted after it.
Reset ==
    /\ Idle
    /\ instructionCache' = Nothing /\ nativeCode' = NoBlocks
    /\ invalidateRegion' = IRAM /\ interpreterInvalidateRegion' = IRAM
    /\ only_find_icache_entry' \in {FALSE, only_find_icache_entry}
    /\ executed' = None
    /\ UNCHANGED <<memory, bInvalidateInterpreterCache, overlays, pcexec>>

Next ==
    \/ \E first, last \in Sections : \E code \in [first..last -> Codes] : first <= last /\ Load(first, last, code)
    \/ \E s \in Sections : Fetch(s)
    \/ RunBlock \/ Compile \/ Interpret
    \/ ExecuteElsewhere \/ Restart \/ Reset
Spec == Init /\ [][Next]_vars

-----------------------------------------------------------------------------
Regions == [start : 1 .. N + 1, end : 0 .. N]
TypeOK ==
    /\ memory \in [Sections -> Codes]
    /\ invalidateRegion \in Regions /\ interpreterInvalidateRegion \in Regions
    /\ bInvalidateInterpreterCache \in BOOLEAN
    /\ numOverlays \in 0..maxOverlays
    /\ overlayLRU \in [1..numOverlays -> [idx : 0 .. maxOverlays - 1, hash : [Sections -> Codes]]]
    /\ overlayMask \in 0 .. maxOverlays - 1
    /\ instructionCache \in [Sections -> Codes \cup {None}]
    /\ only_find_icache_entry \in BOOLEAN
    /\ pcexec \in Sections \cup {None}

\* "Maintain cache coherency!" (dma.cpp:802): what the processor executes, from
\* whichever cache, is what its memory holds, however loads, overlays, interrupts
\* and second tries follow each other.  Two known cases may differ: a block that
\* overruns, and a second try that passes over an awaited flush.
Coherent == executed # None /\ ~executed.known => executed.did = executed.memory
=============================================================================
