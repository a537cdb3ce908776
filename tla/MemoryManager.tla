--------------------------- MODULE MemoryManager ---------------------------
(***************************************************************************)
(* The memory of the BIOS calls MemAlloc and MemFree: for each of the two  *)
(* buses a list of free blocks, ordered by address, and a list of          *)
(* allocated ones.  MemAlloc takes the first free block that can hold the  *)
(* request at the alignment it asks for and cuts it up; MemFree looks the  *)
(* address up among the allocated blocks and gives the block back.         *)
(*                                                                         *)
(* All programs share the lists; the BIOS runs one call at a time.         *)
(***************************************************************************)
EXTENDS Integers, SequencesExt

CONSTANTS
  Top,         \* the number of addresses: 2^32
  PowersOfTwo, \* the alignments that are powers of two
  VECTOR,      \* 16, the least alignment
  Region,      \* the memory of each bus that is free at first
  BIOS_LOWMEM, BIOS_FUNCTIONS, \* the BIOS' own blocks of the system bus
  Bytes,       \* the sizes programs request
  Alignments   \* the alignments they request

Bus == {"main", "system"}
Address == 0 .. Top - 1

\* The buses programs allow, in the order in which Alloc tries them.
Preferences == {<< >>, <<"main">>, <<"system">>, <<"main", "system">>}

ASSUME MemoryAssumption ==
  /\ Top \in Nat \ {0}
  /\ VECTOR \in PowersOfTwo /\ PowersOfTwo \subseteq Nat \ {0}
  /\ VECTOR < Top
  /\ Region \in [Bus -> [start : Address \ {0}, end : Address]]
  /\ \A b \in Bus : Region[b].start <= Region[b].end
  /\ Region["main"].end < Region["system"].start
  /\ Bytes \subseteq 0 .. Top - VECTOR
  /\ Alignments \subseteq Nat

VARIABLES
  free,      \* freeBlockVector of each bus
  allocated, \* allocatedBlockVector of each bus
  held,      \* history: the blocks that programs have
  answer     \* the last MemAlloc: its arguments, and r0

vars == <<free, allocated, held, answer>>

-----------------------------------------------------------------------------
(* Words and blocks                                                        *)

Word(n) == n % Top

\* n & ~(m - 1), for a power of two.
RoundDown(n, m) == n - (n % m)

Block(start, end) ==
  [start |-> start, end |-> end, bytes |-> Word(end - start + 1)]

Allocated(start, bytes) == [start |-> start, bytes |-> bytes]

\* AlignAddress, for a power of two.
AlignAddress(address, alignment) ==
  LET last == Word(address + alignment - 1) IN RoundDown(last, alignment)

\* Mutant: what is requested is rounded down.
PaddedDown(bytes) == RoundDown(bytes, VECTOR)

\* No request is for less than one vector, or for part of one.
Padded(bytes) ==
  LET last == Word((IF bytes = 0 THEN 1 ELSE bytes) + VECTOR - 1)
  IN RoundDown(last, VECTOR)

-----------------------------------------------------------------------------
(* The lists                                                               *)

\* How many of the blocks of a list begin before an address.
Slot(q, start) ==
  CHOOSE k \in 0 .. Len(q) :
    /\ \A n \in 1 .. k : q[n].start <= start
    /\ k < Len(q) => q[k + 1].start > start

\* Block k of the list is joined to the one before it if they touch.
Joined(q, k) ==
  IF k > 1 /\ q[k - 1].end = Word(q[k].start - 1)
  THEN RemoveAt([q EXCEPT ![k - 1].end = q[k].end,
                          ![k - 1].bytes = Word(@ + q[k].bytes)], k)
  ELSE q

\* MemoryManager::Add: a free block goes in after the first k blocks, or
\* where it belongs when k is not a place inside of the list.
Add(q, start, end, index) ==
  LET k   == IF index \in 1 .. Len(q) - 1 THEN index ELSE Slot(q, start)
      new == Block(start, end)
  IN CASE q = << >> -> <<new>>
       [] q # << >> /\ k = Len(q) ->
            IF start # Word(q[k].end + 1) THEN Append(q, new)
            ELSE [q EXCEPT ![k].end = Word(@ + new.bytes),
                           ![k].bytes = Word(@ + new.bytes)]
       [] OTHER ->
            Joined(IF end # Word(q[k + 1].start - 1)
                   THEN InsertAt(q, k + 1, new)
                   ELSE [q EXCEPT ![k + 1].start = start,
                                  ![k + 1].bytes = Word(@ + new.bytes)],
                   k + 1)

\* MemoryManager::AddAllocatedBlock inserts before a block with a higher
\* address, and only there.
AddAllocatedBlock(q, new) ==
  LET later == {n \in DOMAIN q : q[n].start > new.start}
  IN IF later = {} THEN q
     ELSE InsertAt(q, CHOOSE n \in later : \A m \in later : n <= m, new)

-----------------------------------------------------------------------------
(* MemoryManager::Allocate                                                 *)

\* Mutant: a block must be larger than the request.
FitsLoosely(b, bytes, alignment) ==
  LET at == AlignAddress(b.start, alignment)
  IN b.bytes > bytes /\ at <= b.end /\ Word(b.end - at + 1) >= bytes

\* A free block can hold the request, from its first aligned address on.
Fits(b, bytes, alignment) ==
  LET at == AlignAddress(b.start, alignment)
  IN b.bytes >= bytes /\ at <= b.end /\ Word(b.end - at + 1) >= bytes

\* Mutants: a block that is used up stays; what is left begins inside of
\* what was taken; the piece before an aligned address is dropped.
TakenAndKept(q, n, at, bytes) ==
  IF at = q[n].start
  THEN [q EXCEPT ![n].start = Word(at + bytes), ![n].bytes = Word(@ - bytes)]
  ELSE [q EXCEPT ![n].end = Word(at - 1), ![n].bytes = Word(@ - bytes)]
TakenTooLittle(q, n, at, bytes) ==
  IF bytes = q[n].bytes THEN RemoveAt(q, n)
  ELSE [q EXCEPT ![n] = Block(Word(at + bytes - VECTOR), @.end)]
TakenFromStart(q, n, at, bytes) ==
  IF Word(at + bytes - 1) = q[n].end THEN RemoveAt(q, n)
  ELSE [q EXCEPT ![n] = Block(Word(at + bytes), @.end)]

\* What remains of a list when bytes from an address on are taken out of
\* its n-th block: nothing of it, its end, its beginning, or both.
Taken(q, n, at, bytes) ==
  CASE bytes = q[n].bytes -> RemoveAt(q, n)
    [] bytes # q[n].bytes /\ at = q[n].start ->
         [q EXCEPT ![n].start = Word(at + bytes), ![n].bytes = Word(@ - bytes)]
    [] bytes # q[n].bytes /\ at # q[n].start
                          /\ Word(at + bytes - 1) = q[n].end ->
         [q EXCEPT ![n].end = Word(at - 1), ![n].bytes = Word(@ - bytes)]
    [] OTHER ->
         LET low == [q EXCEPT ![n] = Block(@.start, Word(at - 1))]
         IN IF n # Len(q) THEN Add(low, Word(at + bytes), q[n].end, n)
            ELSE Append(low, Block(Word(at + bytes), q[n].end))

\* The blocks of a bus that can hold a request.
Candidates(b, bytes, alignment) ==
  {n \in DOMAIN free[b] :
     alignment \in PowersOfTwo /\ Fits(free[b][n], bytes, alignment)}

\* A request takes the first of them.
Allocate(b, n, bytes, at) ==
  /\ free' = [free EXCEPT ![b] = Taken(@, n, at, bytes)]
  /\ allocated' = [allocated EXCEPT ![b] =
                     AddAllocatedBlock(@, Allocated(at, bytes))]
  /\ held' = held \union {Allocated(at, bytes)}

-----------------------------------------------------------------------------
(* The BIOS calls                                                          *)

\* The alignment of a request is that of a vector at least.
Strict(alignment) == IF alignment < VECTOR THEN VECTOR ELSE alignment

\* NuonMemoryManager::Alloc: the first of the buses that can serve it.
MemAlloc ==
  \E bytes \in Bytes, alignment \in Alignments, buses \in Preferences :
    LET Can(k) == Candidates(buses[k], Padded(bytes), Strict(alignment))
        serving == {k \in DOMAIN buses : Can(k) # {}}
        Answer(at) == [bytes |-> bytes, alignment |-> alignment,
                       buses |-> buses, at |-> at]
    IN \/ \E k \in serving : \E n \in Can(k) :
            LET at == AlignAddress(free[buses[k]][n].start, Strict(alignment))
            IN /\ \A l \in serving : k <= l
               /\ \A m \in Can(k) : n <= m
               /\ Allocate(buses[k], n, Padded(bytes), at)
               /\ answer' = Answer(at)
       \/ /\ serving = {}
          /\ answer' = Answer(0)
          /\ UNCHANGED <<free, allocated, held>>

\* MemoryManager::Free.
Free(b, address) ==
  LET found == {n \in DOMAIN allocated[b] : allocated[b][n].start = address}
  IN \/ \E n \in found :
          /\ \A m \in found : n <= m
          /\ LET old == allocated[b][n]
             IN free' = [free EXCEPT ![b] =
                  Add(@, old.start, Word(old.start + old.bytes - 1), Len(@))]
          /\ allocated' = [allocated EXCEPT ![b] = RemoveAt(@, n)]
     \/ found = {} /\ UNCHANGED <<free, allocated>>

\* A program frees a block it has; NuonMemoryManager::Free finds the bus.
MemFree(block) ==
  /\ block \in held
  /\ \E b \in Bus : /\ block.start \in Region[b].start .. Region[b].end
                    /\ Free(b, block.start)
  /\ held' = held \ {block}
  /\ UNCHANGED answer

Started(b) == Add(<< >>, Region[b].start, Region[b].end, 0)

\* The kernel's blocks are entered as allocated ones.
Kernel(b) ==
  IF b = "system"
  THEN AddAllocatedBlock(AddAllocatedBlock(<< >>, BIOS_FUNCTIONS), BIOS_LOWMEM)
  ELSE << >>

NoAnswer == [bytes |-> 0, alignment |-> 0, buses |-> << >>, at |-> 0]

\* MemInit, which a reload calls as well; nobody has memory after it.
MemInit ==
  /\ free' = [b \in Bus |-> Started(b)]
  /\ allocated' = [b \in Bus |-> Kernel(b)]
  /\ held' = {}
  /\ answer' = NoAnswer

Init ==
  /\ free = [b \in Bus |-> Started(b)]
  /\ allocated = [b \in Bus |-> Kernel(b)]
  /\ held = {}
  /\ answer = NoAnswer

Next == MemAlloc \/ (\E block \in held : MemFree(block)) \/ MemInit

Spec == Init /\ [][Next]_vars

-----------------------------------------------------------------------------
IsFreeBlock(b, x) ==
  /\ x.start \in Region[b].start .. Region[b].end
  /\ x.end \in x.start .. Region[b].end
  /\ x.bytes = x.end - x.start + 1

TypeOK ==
  /\ DOMAIN free = Bus /\ DOMAIN allocated = Bus
  /\ \A b \in Bus : \A n \in DOMAIN free[b] : IsFreeBlock(b, free[b][n])
  /\ \A b \in Bus : allocated[b] \in Seq([start : Address, bytes : 1 .. Top])
  /\ held \subseteq [start : Address \ {0}, bytes : 1 .. Top]
  /\ answer \in [bytes : Bytes \union {0}, alignment : Alignments \union {0},
                  buses : Preferences, at : Address]

Apart(x, y) ==
  x.start + x.bytes <= y.start \/ y.start + y.bytes <= x.start

FreeBytes == UNION {UNION {free[b][n].start .. free[b][n].end :
                             n \in DOMAIN free[b]} : b \in Bus}

(* No byte is given to two programs, or is free while a program has it,    *)
(* whatever sequence of requests has cut up the free blocks.               *)
HeldApart ==
  /\ \A x, y \in held : x # y => Apart(x, y)
  /\ \A x \in held, b \in Bus : \A n \in DOMAIN free[b] : Apart(x, free[b][n])

(* A request is granted as it was made: new memory, as much as requested,  *)
(* aligned, on a bus the program allows and outside of the BIOS.           *)
GrantedAsRequested ==
  [][ answer' # answer /\ answer'.at # 0 =>
        \E x \in held' \ held :
          /\ x.start = answer'.at /\ x.bytes >= answer'.bytes
          /\ x.start % Strict(answer'.alignment) = 0
          /\ \E k \in DOMAIN answer'.buses :
               LET r == Region[answer'.buses[k]]
               IN x.start >= r.start /\ x.start + x.bytes - 1 <= r.end ]_vars

(* A request fails only when nothing on the buses it allows could serve    *)
(* it: fragments are kept apart only by memory that was handed out.        *)
FailureJustified ==
  [][ (answer' # answer /\ answer'.at = 0 /\ Strict(answer'.alignment) \in PowersOfTwo) =>
        \A k \in DOMAIN answer'.buses :
          LET r == Region[answer'.buses[k]]
          IN \A at \in r.start .. r.end :
               at % Strict(answer'.alignment) = 0 =>
                 ~(at .. at + Padded(answer'.bytes) - 1
                     \subseteq FreeBytes \intersect r.start .. r.end) ]_vars

(* What leaves the free lists is what is handed out, no more: the piece    *)
(* that an alignment skips stays free.                                     *)
NothingLost ==
  [][ ~MemInit =>
        FreeBytes' = FreeBytes \ UNION {x.start .. x.start + x.bytes - 1 :
                                          x \in held' \ held} ]_vars

(* MemFree gives memory back (MemoryManager.cpp:124).                      *)
FreedComesBack ==
  [][ \A x \in held : MemFree(x) =>
        x.start .. x.start + x.bytes - 1 \subseteq FreeBytes' ]_vars
=============================================================================
