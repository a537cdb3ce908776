-------------------------- MODULE CodeCache_proofs --------------------------
(***************************************************************************)
(* What a processor executes is what its memory holds, but in the known    *)
(* cases, whatever the number of sections, codes and overlays, wherever    *)
(* blocks end and wherever second tries are redirected to.                 *)
(*                                                                         *)
(* The invariant says of which code each cache may hold copies: outside    *)
(* the invalid region memory is the current overlay; blocks are copies of  *)
(* their overlays, unless they overran when they were compiled; a decoded  *)
(* packet that is no copy of memory still awaits its flush.                *)
(***************************************************************************)
EXTENDS CodeCache, TLAPS

Indices ==
    /\ \A i \in 1..numOverlays : overlayLRU[i].idx < numOverlays
    /\ \A i, j \in 1..numOverlays : overlayLRU[i].idx = overlayLRU[j].idx => i = j

\* The first overlay of the list is the one IRAM held when it was hashed.
Hashed ==
    /\ numOverlays > 0 => overlayLRU[1].idx = overlayMask
    /\ \A s \in Sections : ~In(s, invalidateRegion) =>
            numOverlays > 0 /\ overlayLRU[1].hash[s] = memory[s]

Blocks == {None} \cup [code : UNION {[Block(s) -> Codes] : s \in Sections}, overran : BOOLEAN]
BlocksAreCopies ==
    /\ nativeCode \in [0 .. maxOverlays - 1 -> [Sections -> Blocks]]
    /\ \A i \in 1..numOverlays : \A s \in Sections :
        LET block == nativeCode[overlayLRU[i].idx][s]
        IN block # None /\ ~block.overran
                => block.code = [x \in Block(s) |-> overlayLRU[i].hash[x]]

Fresh(s) == instructionCache[s] \in {None, memory[s]}
PacketsAreFlushed ==
    \A s \in Sections :
        \/ Fresh(s)
        \/ In(s, interpreterInvalidateRegion) /\ (bInvalidateInterpreterCache \/ In(s, invalidateRegion))

\* What is fetched was hashed.
Fetched == pcexec # None => ~In(pcexec, invalidateRegion)

IInv == TypeOK /\ Indices /\ Hashed /\ BlocksAreCopies /\ PacketsAreFlushed /\ Fetched /\ Coherent
-----------------------------------------------------------------------------
\* A range that is noted covers what it covered before and what was written.
LEMMA RegionGrows ==
    ASSUME NEW r \in Regions, NEW a \in Sections, NEW b \in Sections
    PROVE  /\ Extended(r, a, b) \in Regions
           /\ \A s \in Sections : In(s, r) \/ s \in a..b => In(s, Extended(r, a, b))
<1>1. r.start \in 1 .. N + 1 /\ r.end \in 0..N /\ a \in 1..N /\ b \in 1..N /\ N \in Nat
  BY CodeCacheAssumption DEF Regions, Sections
<1>2. Extended(r, a, b).start = (IF a < r.start THEN a ELSE r.start)
      /\ Extended(r, a, b).end = (IF b > r.end THEN b ELSE r.end)
  BY DEF Extended
<1>3. Extended(r, a, b) \in Regions
  BY <1>1 DEF Extended, Regions
<1>4. ASSUME NEW s \in Sections, In(s, r) \/ s \in a..b PROVE In(s, Extended(r, a, b))
  BY <1>1, <1>2, <1>4 DEF In, Sections
<1> QED
  BY <1>3, <1>4

\* IRAM covers every section and NoRegion none.
LEMMA WholeAndEmpty ==
    /\ IRAM \in Regions /\ NoRegion \in Regions
    /\ \A s \in Sections : In(s, IRAM) /\ ~In(s, NoRegion)
BY CodeCacheAssumption DEF Regions, IRAM, NoRegion, In, Sections

\* Emptied caches are caches.
LEMMA Emptied ==
    /\ NoBlocks \in [0 .. maxOverlays - 1 -> [Sections -> Blocks]]
    /\ Nothing \in [Sections -> Codes \cup {None}]
BY DEF NoBlocks, Nothing, Blocks

\* An emptied cache of blocks finds nothing.
LEMMA NothingInNoBlocks ==
    \A i \in 0 .. maxOverlays - 1 : \A s \in Sections : NoBlocks[i][s] = None
BY DEF NoBlocks, Nothing

\* The invariant holds before the first packet: nothing is cached.
THEOREM InitInv == Init => IInv
<1> SUFFICES ASSUME Init PROVE IInv
  OBVIOUS
<1>1. TypeOK
  <2>1. overlayLRU \in [1..numOverlays -> [idx : 0 .. maxOverlays - 1, hash : [Sections -> Codes]]]
    BY DEF Init
  <2>2. only_find_icache_entry \in BOOLEAN /\ bInvalidateInterpreterCache \in BOOLEAN
    BY DEF Init
  <2> QED
    BY <2>1, <2>2, CodeCacheAssumption, WholeAndEmpty, Emptied DEF Init, TypeOK
<1>2. BlocksAreCopies
  BY CodeCacheAssumption, Emptied DEF Init, BlocksAreCopies
<1>3. Indices /\ Hashed
  BY CodeCacheAssumption, WholeAndEmpty DEF Init, Indices, Hashed
<1>4. PacketsAreFlushed /\ Fetched /\ Coherent
  BY CodeCacheAssumption DEF Init, PacketsAreFlushed, Fresh, Fetched, Coherent, Nothing
<1> QED
  BY <1>1, <1>2, <1>3, <1>4 DEF IInv

\* The overlay that was found or made is the first of the list, and holds what
\* memory holds; blocks are still copies of their overlays.
LEMMA OverlayFound ==
    ASSUME IInv, FindOverlay, memory' = memory
    PROVE  /\ numOverlays' \in 0..maxOverlays
           /\ overlayLRU' \in [1..numOverlays' -> [idx : 0 .. maxOverlays - 1, hash : [Sections -> Codes]]]
           /\ overlayMask' \in 0 .. maxOverlays - 1
           /\ Indices'
           /\ numOverlays' > 0 /\ overlayLRU'[1].idx = overlayMask' /\ overlayLRU'[1].hash = memory
           /\ BlocksAreCopies'
<1> USE CodeCacheAssumption DEF IInv, TypeOK
<1>1. CASE \E i \in Known : Use(numOverlays, i, overlayLRU[i].idx) /\ UNCHANGED nativeCode
  <2> PICK i \in Known : Use(numOverlays, i, overlayLRU[i].idx) /\ UNCHANGED nativeCode
    BY <1>1
  <2>1. i \in 1..numOverlays /\ overlayLRU[i].hash = memory
    BY DEF Known
  <2>2. /\ numOverlays' = numOverlays
        /\ overlayLRU' = [j \in 1..numOverlays |-> IF j = 1 THEN [idx |-> overlayLRU[i].idx, hash |-> memory]
                              ELSE IF j <= i THEN overlayLRU[j - 1] ELSE overlayLRU[j]]
        /\ overlayMask' = overlayLRU[i].idx
    BY DEF Use, MovedToFront
  <2>3. overlayLRU[i] = [idx |-> overlayLRU[i].idx, hash |-> memory]
    BY <2>1
  <2> DEFINE From(j) == IF j = 1 THEN i ELSE IF j <= i THEN j - 1 ELSE j
  <2>4. /\ \A j \in 1..numOverlays : From(j) \in 1..numOverlays
        /\ \A j, k \in 1..numOverlays : From(j) = From(k) => j = k
    BY <2>1
  <2>5. \A j \in 1..numOverlays : overlayLRU'[j] = overlayLRU[From(j)]
    BY <2>1, <2>2, <2>3
  <2> HIDE DEF From
  <2>6. Indices'
    <3>1. ASSUME NEW j \in 1..numOverlays PROVE overlayLRU'[j].idx < numOverlays
      <4> From(j) \in 1..numOverlays
        BY <2>4
      <4> QED
        BY <2>5 DEF Indices
    <3>2. ASSUME NEW j \in 1..numOverlays, NEW k \in 1..numOverlays, overlayLRU'[j].idx = overlayLRU'[k].idx
          PROVE  j = k
      <4>1. From(j) \in 1..numOverlays /\ From(k) \in 1..numOverlays
        BY <2>4
      <4>2. From(j) = From(k)
        BY <2>5, <3>2, <4>1 DEF Indices
      <4> QED
        BY <2>4, <4>2
    <3> QED
      BY <2>2, <3>1, <3>2 DEF Indices
  <2>7. BlocksAreCopies'
    <3>1. ASSUME NEW j \in 1..numOverlays, NEW s \in Sections, nativeCode[overlayLRU'[j].idx][s] # None,
                 ~nativeCode[overlayLRU'[j].idx][s].overran
          PROVE  nativeCode[overlayLRU'[j].idx][s].code = [x \in Block(s) |-> overlayLRU'[j].hash[x]]
      <4>1. From(j) \in 1..numOverlays /\ overlayLRU'[j] = overlayLRU[From(j)]
        BY <2>4, <2>5
      <4>2. nativeCode[overlayLRU[From(j)].idx][s] # None /\ ~nativeCode[overlayLRU[From(j)].idx][s].overran
        BY <3>1, <4>1
      <4>3. nativeCode[overlayLRU[From(j)].idx][s].code = [x \in Block(s) |-> overlayLRU[From(j)].hash[x]]
        BY <4>1, <4>2 DEF BlocksAreCopies
      <4> QED
        BY <4>1, <4>3
    <3> QED
      BY <2>2, <3>1 DEF BlocksAreCopies, Block
  <2>8. overlayLRU' \in [1..numOverlays' -> [idx : 0 .. maxOverlays - 1, hash : [Sections -> Codes]]]
    <3>1. \A j \in 1..numOverlays : overlayLRU'[j] \in [idx : 0 .. maxOverlays - 1, hash : [Sections -> Codes]]
      BY <2>4, <2>5
    <3> QED
      BY <2>2, <3>1
  <2>9. overlayLRU'[1] = [idx |-> overlayLRU[i].idx, hash |-> memory]
    BY <2>1, <2>2
  <2> QED
    BY <2>1, <2>2, <2>6, <2>7, <2>8, <2>9
<1>2. CASE Known = {} /\ numOverlays < maxOverlays /\ Reuse(numOverlays + 1, numOverlays + 1, numOverlays)
  <2>1. /\ numOverlays' = numOverlays + 1
        /\ overlayLRU' = [j \in 1 .. numOverlays + 1 |-> IF j = 1 THEN [idx |-> numOverlays, hash |-> memory]
                              ELSE IF j <= numOverlays + 1 THEN overlayLRU[j - 1] ELSE overlayLRU[j]]
        /\ overlayMask' = numOverlays
        /\ nativeCode' = [nativeCode EXCEPT ![numOverlays] = Nothing]
    BY <1>2 DEF Use, MovedToFront, Reuse
  <2>2. overlayLRU'[1] = [idx |-> numOverlays, hash |-> memory]
    BY <2>1
  <2>3. \A j \in 2 .. numOverlays + 1 : j - 1 \in 1..numOverlays /\ overlayLRU'[j] = overlayLRU[j - 1]
    BY <2>1
  <2>4. Indices'
    BY <2>1, <2>2, <2>3 DEF Indices
  <2>5. BlocksAreCopies'
    <3>1. nativeCode' \in [0 .. maxOverlays - 1 -> [Sections -> Blocks]]
      BY <2>1 DEF BlocksAreCopies, Nothing, Blocks
    <3>2. \A s \in Sections : nativeCode'[numOverlays][s] = None
      BY <1>2, <2>1 DEF BlocksAreCopies, Nothing
    <3>3. \A j \in 2 .. numOverlays + 1 : nativeCode'[overlayLRU'[j].idx] = nativeCode[overlayLRU[j - 1].idx]
      BY <2>1, <2>3 DEF Indices, BlocksAreCopies
    <3> QED
      BY <2>1, <2>2, <2>3, <3>1, <3>2, <3>3 DEF BlocksAreCopies, Block
  <2> QED
    BY <1>2, <2>1, <2>2, <2>3, <2>4, <2>5
<1>3. CASE Known = {} /\ numOverlays = maxOverlays /\ Reuse(numOverlays, numOverlays, overlayLRU[numOverlays].idx)
  <2> DEFINE old == overlayLRU[numOverlays].idx
  <2>1. /\ numOverlays' = numOverlays
        /\ overlayLRU' = [j \in 1 .. numOverlays |-> IF j = 1 THEN [idx |-> old, hash |-> memory]
                              ELSE IF j <= numOverlays THEN overlayLRU[j - 1] ELSE overlayLRU[j]]
        /\ overlayMask' = old
        /\ nativeCode' = [nativeCode EXCEPT ![old] = Nothing]
    BY <1>3 DEF Use, MovedToFront, Reuse
  <2>a. numOverlays \in 1..numOverlays /\ old \in 0 .. maxOverlays - 1
    BY <1>3
  <2>2. overlayLRU'[1] = [idx |-> old, hash |-> memory]
    BY <2>1, <2>a
  <2>3. \A j \in 2 .. numOverlays : j - 1 \in 1..numOverlays /\ overlayLRU'[j] = overlayLRU[j - 1]
    BY <2>1
  <2>4. Indices'
    BY <2>1, <2>2, <2>3, <2>a DEF Indices
  <2>5. BlocksAreCopies'
    <3>1. nativeCode' \in [0 .. maxOverlays - 1 -> [Sections -> Blocks]]
      BY <2>1 DEF BlocksAreCopies, Nothing, Blocks
    <3>2. \A s \in Sections : nativeCode'[old][s] = None
      BY <2>1, <2>a DEF BlocksAreCopies, Nothing
    <3>3. \A j \in 2 .. numOverlays : nativeCode'[overlayLRU'[j].idx] = nativeCode[overlayLRU[j - 1].idx]
      BY <2>1, <2>3, <2>a DEF Indices, BlocksAreCopies
    <3> QED
      BY <2>1, <2>2, <2>3, <3>1, <3>2, <3>3 DEF BlocksAreCopies, Block
  <2> QED
    BY <2>1, <2>2, <2>3, <2>4, <2>5, <2>a
<1> QED
  BY <1>1, <1>2, <1>3 DEF FindOverlay

\* Flushing keeps a decoded packet only if it is fresh or will still be flushed;
\* the packet that is fetched is fresh, unless its flush is passed over.
LEMMA PacketsFlushed ==
    ASSUME IInv, Flush
    PROVE  /\ interpreterInvalidateRegion' \in Regions /\ bInvalidateInterpreterCache' \in BOOLEAN
           /\ Kept \in [Sections -> Codes \cup {None}]
           /\ \A s \in Sections :
                \/ Kept[s] \in {None, memory[s]}
                \/ In(s, interpreterInvalidateRegion') /\ (bInvalidateInterpreterCache' \/ In(s, invalidateRegion))
           /\ ~Idle => \/ Kept[pcexec] \in {None, memory[pcexec]}
                       \/ /\ only_find_icache_entry /\ bInvalidateInterpreterCache
                          /\ In(pcexec, interpreterInvalidateRegion)
<1> USE DEF IInv, TypeOK
<1>1. interpreterInvalidateRegion' \in Regions /\ bInvalidateInterpreterCache' \in BOOLEAN
  BY WholeAndEmpty DEF Flush
<1>2. Kept \in [Sections -> Codes \cup {None}]
  BY DEF Kept
<1>3. ASSUME NEW s \in Sections
      PROVE  \/ Kept[s] \in {None, memory[s]}
             \/ In(s, interpreterInvalidateRegion') /\ (bInvalidateInterpreterCache' \/ In(s, invalidateRegion))
  BY DEF Kept, Flush, PacketsAreFlushed, Fresh
<1>4. ASSUME ~Idle
      PROVE  \/ Kept[pcexec] \in {None, memory[pcexec]}
             \/ /\ only_find_icache_entry /\ bInvalidateInterpreterCache
                /\ In(pcexec, interpreterInvalidateRegion)
  <2>1. pcexec \in Sections /\ ~In(pcexec, invalidateRegion)
    BY <1>4 DEF Idle, Fetched
  <2> QED
    BY <2>1 DEF Kept, IsFlushed, PacketsAreFlushed, Fresh
<1> QED
  BY <1>1, <1>2, <1>3, <1>4

\* Code that is loaded is covered by both regions.
LEMMA LoadInv ==
    ASSUME IInv, NEW a \in Sections, NEW b \in Sections, NEW code \in [a..b -> Codes], Load(a, b, code)
    PROVE  IInv'
<1> USE DEF IInv, Load
<1>1. /\ invalidateRegion' \in Regions /\ interpreterInvalidateRegion' \in Regions
      /\ \A s \in Sections : In(s, invalidateRegion) \/ s \in a..b => In(s, invalidateRegion')
      /\ \A s \in Sections : In(s, interpreterInvalidateRegion) \/ s \in a..b => In(s, interpreterInvalidateRegion')
  BY RegionGrows DEF UpdateInvalidateRegion, TypeOK
<1>2. memory' \in [Sections -> Codes] /\ \A s \in Sections : s \notin a..b => memory'[s] = memory[s]
  BY DEF TypeOK
<1>3. TypeOK'
  BY <1>1, <1>2 DEF TypeOK, overlays, caches
<1>4. Indices' /\ BlocksAreCopies'
  BY DEF Indices, BlocksAreCopies, Block, overlays, caches
<1>5. Hashed'
  BY <1>1, <1>2 DEF Hashed, overlays
<1>6. PacketsAreFlushed'
  BY <1>1, <1>2 DEF PacketsAreFlushed, Fresh, caches
<1>7. Fetched' /\ Coherent'
  BY DEF Fetched, Coherent, Idle
<1> QED
  BY <1>3, <1>4, <1>5, <1>6, <1>7

\* A fetch from a written section makes memory the current overlay.
LEMMA FetchInv ==
    ASSUME IInv, NEW s \in Sections, Fetch(s)
    PROVE  IInv'
<1> USE DEF IInv, Fetch
<1>1. CASE In(s, invalidateRegion)
  <2> FindOverlay /\ bInvalidateInterpreterCache' = TRUE /\ invalidateRegion' = NoRegion /\ memory' = memory
    BY <1>1
  <2>1. TypeOK' /\ Indices' /\ BlocksAreCopies'
    BY OverlayFound, WholeAndEmpty DEF TypeOK
  <2>2. Hashed'
    BY OverlayFound DEF Hashed
  <2>3. PacketsAreFlushed' /\ Fetched' /\ Coherent'
    BY WholeAndEmpty DEF PacketsAreFlushed, Fresh, Fetched, Coherent
  <2> QED
    BY <2>1, <2>2, <2>3
<1>2. CASE ~In(s, invalidateRegion)
  <2>1. UNCHANGED <<memory, invalidateRegion, interpreterInvalidateRegion, bInvalidateInterpreterCache,
                    numOverlays, overlayLRU, overlayMask, nativeCode, instructionCache, only_find_icache_entry>>
    BY <1>2 DEF overlays
  <2>2. TypeOK' /\ Indices' /\ BlocksAreCopies' /\ Hashed'
    BY <2>1 DEF TypeOK, Indices, BlocksAreCopies, Block, Hashed
  <2>3. PacketsAreFlushed' /\ Fetched' /\ Coherent'
    BY <1>2, <2>1 DEF PacketsAreFlushed, Fresh, Fetched, Coherent
  <2> QED
    BY <2>2, <2>3
<1> QED
  BY <1>1, <1>2

\* The current overlay, at what is fetched, is memory.
LEMMA FetchedIsCurrent ==
    ASSUME IInv, ~Idle
    PROVE  /\ pcexec \in Sections /\ Block(pcexec) \subseteq Sections
           /\ 1 \in 1..numOverlays /\ overlayLRU[1].idx = overlayMask
           /\ ~Overruns(pcexec) => \A x \in Block(pcexec) : overlayLRU[1].hash[x] = memory[x]
<1>1. pcexec \in Sections /\ ~In(pcexec, invalidateRegion)
  BY DEF IInv, TypeOK, Idle, Fetched
<1>2. Block(pcexec) \subseteq Sections
  BY <1>1, CodeCacheAssumption DEF Block, Sections
<1>3. 1 \in 1..numOverlays /\ overlayLRU[1].idx = overlayMask
  BY <1>1 DEF IInv, TypeOK, Hashed
<1>4. ~Overruns(pcexec) => \A x \in Block(pcexec) : overlayLRU[1].hash[x] = memory[x]
  BY <1>2 DEF IInv, Hashed, Overruns
<1> QED
  BY <1>1, <1>2, <1>3, <1>4

\* A block found for the current overlay is a copy of memory, unless it overruns.
LEMMA RunBlockInv ==
    ASSUME IInv, RunBlock
    PROVE  IInv'
<1> USE DEF IInv, RunBlock
<1> DEFINE block == nativeCode[overlayMask][pcexec]
<1>1. UNCHANGED <<memory, invalidateRegion, interpreterInvalidateRegion, bInvalidateInterpreterCache,
                  numOverlays, overlayLRU, overlayMask, nativeCode, instructionCache>>
  BY DEF regions, overlays, caches
<1>2. /\ executed' = [did |-> block.code, memory |-> Contents(pcexec),
                       known |-> block.overran \/ Overruns(pcexec)]
      /\ pcexec' = None /\ only_find_icache_entry' \in BOOLEAN
  BY DEF Execute
<1>3. TypeOK'
  BY <1>1, <1>2 DEF TypeOK
<1>4. Indices' /\ BlocksAreCopies' /\ Hashed'
  BY <1>1 DEF Indices, BlocksAreCopies, Block, Hashed
<1>5. PacketsAreFlushed' /\ Fetched'
  BY <1>1, <1>2 DEF PacketsAreFlushed, Fresh, Fetched
<1>6. Coherent'
  <2>1. ASSUME ~block.overran, ~Overruns(pcexec) PROVE block.code = Contents(pcexec)
    <3>1. block.code = [x \in Block(pcexec) |-> overlayLRU[1].hash[x]]
      BY <2>1, FetchedIsCurrent DEF BlocksAreCopies, IsCompiled
    <3> QED
      BY <2>1, <3>1, FetchedIsCurrent DEF Contents
  <2> HIDE DEF block
  <2> QED
    BY <1>2, <2>1 DEF Coherent
<1> QED
  BY <1>3, <1>4, <1>5, <1>6

\* A block is compiled from memory into the current overlay.
LEMMA CompileInv ==
    ASSUME IInv, Compile
    PROVE  IInv'
<1> USE DEF IInv, Compile
<1> DEFINE block == [code |-> Contents(pcexec), overran |-> Overruns(pcexec)]
<1>1. UNCHANGED <<memory, invalidateRegion, numOverlays, overlayLRU, overlayMask>>
  BY DEF overlays
<1>2. pcexec \in Sections /\ ~In(pcexec, invalidateRegion)
  BY FetchedIsCurrent DEF Fetched, Idle
<1>3. /\ executed' = [did |-> Contents(pcexec), memory |-> Contents(pcexec), known |-> FALSE]
      /\ pcexec' = None /\ only_find_icache_entry' \in BOOLEAN
  BY DEF Execute
<1>4. TypeOK'
  BY <1>1, <1>3, PacketsFlushed DEF TypeOK
<1>5. BlocksAreCopies'
  <2> PICK before \in {nativeCode, NoBlocks} :
        nativeCode' = [before EXCEPT ![overlayMask][pcexec] = block]
    OBVIOUS
  <2>1. /\ before \in [0 .. maxOverlays - 1 -> [Sections -> Blocks]]
        /\ \A i \in 1..numOverlays : \A s \in Sections :
              before[overlayLRU[i].idx][s] # None /\ ~before[overlayLRU[i].idx][s].overran
                => before[overlayLRU[i].idx][s].code = [x \in Block(s) |-> overlayLRU[i].hash[x]]
    <3>1. CASE before = nativeCode
      BY <3>1 DEF BlocksAreCopies
    <3>2. CASE before = NoBlocks
      <4>1. \A i \in 1..numOverlays : overlayLRU[i].idx \in 0 .. maxOverlays - 1
        BY DEF TypeOK
      <4> QED
        BY <3>2, <4>1, Emptied, NothingInNoBlocks
    <3> QED
      BY <3>1, <3>2
  <2>2. ~block.overran => block.code = [x \in Block(pcexec) |-> overlayLRU[1].hash[x]]
    BY FetchedIsCurrent DEF Contents
  <2>3. block \in Blocks
    <3>1. Contents(pcexec) \in [Block(pcexec) -> Codes]
      BY FetchedIsCurrent DEF Contents, TypeOK
    <3>2. Overruns(pcexec) \in BOOLEAN
      BY DEF Overruns
    <3> QED
      BY <1>2, <3>1, <3>2 DEF Blocks
  <2> HIDE DEF block
  <2>4. nativeCode' \in [0 .. maxOverlays - 1 -> [Sections -> Blocks]]
    BY <1>2, <2>1, <2>3 DEF TypeOK
  <2>5. ASSUME NEW i \in 1..numOverlays, NEW s \in Sections, nativeCode'[overlayLRU[i].idx][s] # None,
               ~nativeCode'[overlayLRU[i].idx][s].overran
        PROVE  nativeCode'[overlayLRU[i].idx][s].code = [x \in Block(s) |-> overlayLRU[i].hash[x]]
    <3>1. CASE i = 1 /\ s = pcexec
      <4>1. nativeCode'[overlayMask][pcexec] = block
        BY <1>2, <2>1 DEF TypeOK
      <4> QED
        BY <2>5, <3>1, <4>1, <2>2, FetchedIsCurrent
    <3>2. CASE i # 1 \/ s # pcexec
      <4>1. overlayLRU[i].idx # overlayMask \/ s # pcexec
        BY <3>2, FetchedIsCurrent DEF Indices
      <4>2. nativeCode'[overlayLRU[i].idx][s] = before[overlayLRU[i].idx][s]
        BY <4>1, <2>1 DEF TypeOK
      <4> QED
        BY <2>1, <2>5, <4>2
    <3> QED
      BY <3>1, <3>2
  <2> QED
    BY <1>1, <2>4, <2>5, SMTT(30) DEF BlocksAreCopies, Block
<1>6. Indices' /\ Hashed'
  BY <1>1 DEF Indices, Hashed
<1>7. PacketsAreFlushed' /\ Fetched'
  BY <1>1, <1>3, PacketsFlushed DEF PacketsAreFlushed, Fresh, Fetched
<1>8. Coherent'
  BY <1>3 DEF Coherent
<1> QED
  BY <1>4, <1>5, <1>6, <1>7, <1>8

\* Without blocks there is no block that could be stale.
LEMMA EmptiedBlocks ==
    ASSUME IInv, UNCHANGED <<numOverlays, overlayLRU>>, nativeCode' \in {nativeCode, NoBlocks}
    PROVE  BlocksAreCopies'
<1> USE DEF IInv
<1>1. nativeCode' \in [0 .. maxOverlays - 1 -> [Sections -> Blocks]]
  BY Emptied DEF BlocksAreCopies
<1>2. ASSUME NEW i \in 1..numOverlays, NEW s \in Sections, nativeCode'[overlayLRU[i].idx][s] # None,
             ~nativeCode'[overlayLRU[i].idx][s].overran
      PROVE  nativeCode'[overlayLRU[i].idx][s].code = [x \in Block(s) |-> overlayLRU[i].hash[x]]
  <2>1. overlayLRU[i].idx \in 0 .. maxOverlays - 1
    BY DEF TypeOK
  <2>2. nativeCode' = nativeCode
    BY <1>2, <2>1, NothingInNoBlocks
  <2> QED
    BY <1>2, <2>2 DEF BlocksAreCopies
<1> QED
  BY <1>1, <1>2 DEF BlocksAreCopies, Block

\* A packet is interpreted after the flush, or was decoded just before, or it is
\* a second try that passes over the flush.
LEMMA InterpretInv ==
    ASSUME IInv, Interpret
    PROVE  IInv'
<1> USE DEF IInv, Interpret
<1> DEFINE packet == IF Kept[pcexec] # None THEN Kept[pcexec] ELSE memory[pcexec]
<1>1. UNCHANGED <<memory, numOverlays, overlayLRU, overlayMask>>
  BY DEF overlays
<1>2. pcexec \in Sections /\ ~In(pcexec, invalidateRegion)
  BY DEF Fetched, Idle, TypeOK
<1> DEFINE passed == /\ only_find_icache_entry /\ bInvalidateInterpreterCache
                     /\ In(pcexec, interpreterInvalidateRegion)
<1>3. /\ packet \in Codes /\ (passed \/ packet = memory[pcexec])
      /\ packet \in {Kept[pcexec], memory[pcexec]}
  BY <1>2, PacketsFlushed, CodeCacheAssumption DEF TypeOK
<1>4. /\ instructionCache' = [Kept EXCEPT ![pcexec] = packet]
      /\ executed' = [did |-> packet, memory |-> memory[pcexec], known |-> passed]
      /\ pcexec' = None /\ only_find_icache_entry' \in BOOLEAN
  BY DEF Execute
<1> HIDE DEF packet, passed
<1>5. invalidateRegion' \in Regions /\ \A s \in Sections : In(s, invalidateRegion) => In(s, invalidateRegion')
  BY WholeAndEmpty DEF TypeOK
<1>6. TypeOK'
  BY <1>1, <1>2, <1>3, <1>4, <1>5, PacketsFlushed DEF TypeOK
<1>7. Indices' /\ Hashed' /\ BlocksAreCopies'
  BY <1>1, <1>5, EmptiedBlocks DEF Indices, Hashed
<1>8. PacketsAreFlushed'
  <2>1. ASSUME NEW s \in Sections PROVE instructionCache'[s] \in {Kept[s], memory[s]}
    BY <1>2, <1>3, <1>4, PacketsFlushed
  <2> QED
    BY <1>1, <1>5, <2>1, PacketsFlushed DEF PacketsAreFlushed, Fresh
<1>9. Fetched' /\ Coherent'
  BY <1>3, <1>4 DEF Fetched, Coherent
<1> QED
  BY <1>6, <1>7, <1>8, <1>9

\* Code outside IRAM only takes packets and blocks away.
LEMMA ElsewhereInv ==
    ASSUME IInv, ExecuteElsewhere
    PROVE  IInv'
<1> USE DEF IInv, ExecuteElsewhere
<1>1. UNCHANGED <<memory, invalidateRegion, numOverlays, overlayLRU, overlayMask, pcexec>>
  BY DEF overlays
<1> PICK invalidates \in BOOLEAN, found \in BOOLEAN, replaced \in Sections \cup {None} :
      LET decoded == IF found THEN instructionCache ELSE Kept
      IN /\ instructionCache' = [s \in Sections |-> IF invalidates \/ s = replaced THEN None ELSE decoded[s]]
         /\ IF found THEN UNCHANGED <<bInvalidateInterpreterCache, interpreterInvalidateRegion>> ELSE Flush
  OBVIOUS
<1>2. /\ interpreterInvalidateRegion' \in Regions /\ bInvalidateInterpreterCache' \in BOOLEAN
      /\ instructionCache' \in [Sections -> Codes \cup {None}]
      /\ \A s \in Sections :
            \/ instructionCache'[s] \in {None, memory[s]}
            \/ In(s, interpreterInvalidateRegion') /\ (bInvalidateInterpreterCache' \/ In(s, invalidateRegion))
  <2>1. CASE found
    BY <2>1 DEF TypeOK, PacketsAreFlushed, Fresh
  <2>2. CASE ~found
    BY <2>2, PacketsFlushed
  <2> QED
    BY <2>1, <2>2
<1>3. TypeOK'
  BY <1>1, <1>2 DEF TypeOK
<1>4. Indices' /\ Hashed' /\ BlocksAreCopies'
  BY <1>1, EmptiedBlocks DEF Indices, Hashed
<1>5. PacketsAreFlushed' /\ Fetched' /\ Coherent'
  BY <1>1, <1>2 DEF PacketsAreFlushed, Fresh, Fetched, Idle, Coherent
<1> QED
  BY <1>3, <1>4, <1>5

\* A start or a reset empties the caches and marks all of IRAM.
LEMMA RestartInv ==
    ASSUME IInv, Restart \/ Reset
    PROVE  IInv'
<1> USE DEF IInv, Restart, Reset
<1>1. /\ UNCHANGED <<memory, bInvalidateInterpreterCache, numOverlays, overlayLRU, overlayMask, pcexec>>
      /\ instructionCache' = Nothing /\ nativeCode' = NoBlocks /\ invalidateRegion' = IRAM
      /\ interpreterInvalidateRegion' \in {interpreterInvalidateRegion, IRAM}
      /\ executed' = None /\ Idle
  BY DEF overlays
<1>2. only_find_icache_entry' \in BOOLEAN
  BY DEF TypeOK
<1>3. TypeOK'
  BY <1>1, <1>2, WholeAndEmpty, Emptied DEF TypeOK
<1>4. Indices' /\ Hashed' /\ BlocksAreCopies'
  BY <1>1, WholeAndEmpty, EmptiedBlocks DEF Indices, Hashed
<1>5. PacketsAreFlushed' /\ Fetched' /\ Coherent'
  <2>1. \A s \in Sections : instructionCache'[s] = None
    BY <1>1 DEF Nothing
  <2>2. PacketsAreFlushed'
    BY <2>1 DEF PacketsAreFlushed, Fresh
  <2>3. Fetched'
    BY <1>1 DEF Fetched, Idle
  <2> QED
    BY <1>1, <2>2, <2>3 DEF Coherent
<1> QED
  BY <1>3, <1>4, <1>5

\* Every step keeps the invariant.
LEMMA StepInv ==
    ASSUME IInv, [Next]_vars
    PROVE  IInv'
<1>1. CASE \E a, b \in Sections : \E code \in [a..b -> Codes] : a <= b /\ Load(a, b, code)
  BY <1>1, LoadInv
<1>2. CASE \E s \in Sections : Fetch(s)
  BY <1>2, FetchInv
<1>3. CASE RunBlock
  BY <1>3, RunBlockInv
<1>4. CASE Compile
  BY <1>4, CompileInv
<1>5. CASE Interpret
  BY <1>5, InterpretInv
<1>6. CASE ExecuteElsewhere
  BY <1>6, ElsewhereInv
<1>7. CASE Restart \/ Reset
  BY <1>7, RestartInv
<1>8. CASE UNCHANGED vars
  BY <1>8 DEF vars, regions, overlays, caches, IInv, TypeOK, Indices, Hashed, BlocksAreCopies, Block,
              PacketsAreFlushed, Fresh, Fetched, Coherent
<1> QED
  BY <1>1, <1>2, <1>3, <1>4, <1>5, <1>6, <1>7, <1>8 DEF Next

-----------------------------------------------------------------------------
LEMMA Invariant == Spec => []IInv
<1>1. Init => IInv
  BY InitInv
<1>2. IInv /\ [Next]_vars => IInv'
  BY StepInv
<1> QED
  BY <1>1, <1>2, PTL DEF Spec

\* Every packet and block that FetchDecodeExecute executes, wherever it was
\* cached, is the code that memory holds; but for the two known cases.
THEOREM CodeIsCoherent == Spec => []Coherent
<1>1. IInv => Coherent
  BY DEF IInv
<1> QED
  BY <1>1, Invariant, PTL

\* The overlays stay within maxOverlays and the noted ranges within IRAM.
THEOREM TypeIsOK == Spec => []TypeOK
<1>1. IInv => TypeOK
  BY DEF IInv
<1> QED
  BY <1>1, Invariant, PTL
=============================================================================
