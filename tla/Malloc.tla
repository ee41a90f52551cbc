------------------------------- MODULE Malloc -------------------------------
(***************************************************************************)
(* The allocator of src/assignments/assignments/program1/malloc.c: a list  *)
(* of blocks, each headed by a MallocHeader, in a heap that sbrk extends.  *)
(*                                                                         *)
(* Addresses and sizes are the numbers of the code.  mem holds the headers *)
(* the list is made of; every other byte of the heap is client data or was *)
(* never written, and `touched' tells the two apart: what lies at or above *)
(* it is still zero, as sbrk delivered it.                                 *)
(***************************************************************************)
EXTENDS Integers, FiniteSets

CONSTANTS
    Size,           \* the sizes clients ask for
    HeaderSize,     \* sizeof(MallocHeader)
    Alignment,      \* MEMORY_ALIGNMENT
    ChunkA, ChunkB, \* CHUNK_SIZE is the text ChunkA*ChunkB
    HeapStart,      \* the break before the first sbrk
    HeapLimit,      \* bound: sbrk fails beyond it
    MaxBlocks,      \* bound: blocks a call leaves in the list
    Garbage         \* the numbers clients' bytes make when read as a header's

ASSUME SizeAssumption == Size \subseteq Nat
ASSUME LayoutAssumption ==
    /\ {HeaderSize, Alignment, ChunkA, ChunkB, HeapStart} \subseteq Nat \ {0}
    /\ Alignment <= HeaderSize
ASSUME BoundAssumption ==
    HeapLimit \in Nat /\ HeapStart <= HeapLimit /\ MaxBlocks \in Nat
ASSUME GarbageAssumption == Garbage \subseteq Nat

VARIABLES
    mallocListHead,
    mem,            \* the headers of the list, by address
    availableMemoryInChunk,
    brk,            \* the break: the heap ends below it
    touched,        \* no byte at or above it was ever written
    live,           \* the pointers clients hold, with the size they asked for
    status          \* "running", "fault" or "corrupt"

vars == <<mallocListHead, mem, availableMemoryInChunk, brk, touched, live, status>>

NULL == 0
ChunkSize == ChunkA * ChunkB
FreeMargin == HeaderSize * 2
Larger(a, b) == IF a > b THEN a ELSE b

\* What a call works on.
heap == [head |-> mallocListHead, mem |-> mem, avail |-> availableMemoryInChunk,
         brk |-> brk]

-----------------------------------------------------------------------------
(***************************************************************************)
(* The list.                                                               *)
(***************************************************************************)
\* Where the data of a header at this address goes: aligned, and never less
\* than a byte after the header.
DataAt(at) ==
    LET after == at + HeaderSize IN after + (Alignment - (after % Alignment))

\* allocateMemoryAt: the header of a last block in use.
AllocateMemoryAt(m, at, size) ==
    [a \in DOMAIN m \cup {at} |->
        IF a = at
        THEN [isFree |-> FALSE, isLast |-> TRUE, dataSize |-> size,
              data |-> DataAt(at), next |-> DataAt(at) + size]
        ELSE m[a]]

\* A slip: the reused block keeps what allocateMemoryAt wrote.
ReuseAsLast(m, b, size) == AllocateMemoryAt(m, b, size)

\* reuseFreedMemory: the rest becomes a free block if the margin allows.
Reuse(m, b, size) ==
    LET placed   == AllocateMemoryAt(m, b, size)
        rest     == placed[b].next
        leftover == m[b].dataSize - size
    IN IF leftover > FreeMargin
       THEN [AllocateMemoryAt(placed, rest, leftover - FreeMargin) EXCEPT
                ![rest].isFree = TRUE,
                ![rest].next = m[b].next,
                ![rest].isLast = m[b].isLast,
                ![b].isLast = FALSE]
       ELSE [placed EXCEPT ![b].next = m[b].next, ![b].isLast = m[b].isLast]

\* A block takes in the one it links to, whose header is then plain memory.
Absorb(m, b) ==
    LET c == m[b].next IN
    [a \in DOMAIN m \ {c} |->
        IF a # b THEN m[a]
        ELSE [m[b] EXCEPT !.dataSize = @ + m[c].dataSize,
                          !.isLast = m[c].isLast,
                          !.next = m[c].next]]

\* The loops over the list: from block to block, until one is the last or one
\* to stop at.  What a walk meets is the least set that has the first block and
\* the next of each at which it does not end.
Ends(m, stops) == stops \cup {b \in DOMAIN m : m[b].isLast}
Met(m, first, stops) ==
    {b \in DOMAIN m : \A C \in SUBSET DOMAIN m :
        first \in C /\ (\A c \in C \ Ends(m, stops) : m[c].next \in C) => b \in C}
WalkTo(m, first, stops) == CHOOSE b \in Met(m, first, stops) : b \in Ends(m, stops)

\* A slip: the end of the data is not the block's.
OwnerShort(h, ptr) ==
    IF h.head = NULL \/ ptr <= h.head THEN NULL
    ELSE WalkTo(h.mem, h.head,
                {b \in DOMAIN h.mem : h.mem[b].data + h.mem[b].dataSize > ptr})

\* findOwnerBlock; NULL for its -1.  (The last test of the code, for a block
\* whose next is NULL, is never true.)
Owner(h, ptr) ==
    IF h.head = NULL \/ ptr <= h.head THEN NULL
    ELSE WalkTo(h.mem, h.head,
                {b \in DOMAIN h.mem : h.mem[b].data + h.mem[b].dataSize >= ptr})

Previous(m, b) == {a \in DOMAIN m : ~m[a].isLast /\ m[a].next = b}

-----------------------------------------------------------------------------
(***************************************************************************)
(* The break.                                                              *)
(***************************************************************************)
\* How many chunks adjustDataBreak asks sbrk for.
Chunks(h, size) ==
    IF h.avail >= size THEN 0
    ELSE (size - h.avail + ChunkSize - 1) \div ChunkSize

\* sbrk refuses: it may whenever it is called, and does at the limit.
SbrkMayFail(h, size) == Chunks(h, size) > 0
SbrkMaySucceed(h, size) == h.brk + Chunks(h, size) * ChunkSize <= HeapLimit

\* A slip: what is left is never reduced to a chunk.
AdjustUnwrapped(h, size) ==
    [h EXCEPT !.brk = @ + Chunks(h, size) * ChunkSize,
              !.head = IF @ = NULL /\ Chunks(h, size) > 0 THEN h.brk ELSE @,
              !.avail = @ + size]

\* adjustDataBreak when sbrk delivers.  `% CHUNK_SIZE' is `% 64*1024': the
\* remainder by 64, times 1024.
AdjustDataBreak(h, size) ==
    [h EXCEPT !.brk = @ + Chunks(h, size) * ChunkSize,
              !.head = IF @ = NULL /\ Chunks(h, size) > 0 THEN h.brk ELSE @,
              !.avail = ((@ + size) % ChunkA) * ChunkB]

-----------------------------------------------------------------------------
(***************************************************************************)
(* malloc: the heap it leaves and the pointer it returns.                  *)
(***************************************************************************)
\* A free block malloc takes: a last one only if it is the first, too.
Reusable(h, b, size) ==
    /\ h.mem[b].isFree
    /\ h.mem[b].dataSize >= size
    /\ b = h.head \/ ~h.mem[b].isLast

Candidates(h, size) == {b \in DOMAIN h.mem : Reusable(h, b, size)}

Placed(h, size) ==
    LET grown == AdjustDataBreak(h, size + HeaderSize)
        b  == WalkTo(h.mem, h.head, Candidates(h, size))
        at == h.mem[b].next
    IN IF h.head = NULL
       THEN [heap |-> [grown EXCEPT !.mem = AllocateMemoryAt(@, grown.head, size)],
             data |-> DataAt(grown.head)]
       ELSE IF b \in Candidates(h, size)
       THEN [heap |-> [grown EXCEPT !.mem = Reuse(@, b, size)],
             data |-> h.mem[b].data]
       ELSE [heap |-> [grown EXCEPT
                          !.mem = AllocateMemoryAt([@ EXCEPT ![b].isLast = FALSE],
                                                   at, size)],
             data |-> DataAt(at)]

(***************************************************************************)
(* free: the list it leaves, and what it reads that is no header.          *)
(***************************************************************************)
\* A slip: the block before is never merged.
MarkFreeOnly(m, b) ==
    [mem |-> [m EXCEPT ![b].isFree = TRUE], at |-> b]

\* The block marked free and taken in by the one before, if that is free;
\* and the block that is free now.
MarkFree(m, b) ==
    LET marked == [m EXCEPT ![b].isFree = TRUE]
        before == {a \in Previous(m, b) : m[a].isFree}
    IN IF before = {} THEN [mem |-> marked, at |-> b]
       ELSE LET p == CHOOSE p \in before : TRUE
            IN [mem |-> Absorb(marked, p), at |-> p]

\* Then it takes in the one after, if that is a block and free.
Freed(m, b) ==
    LET f == MarkFree(m, b)
        next == f.mem[f.at].next
    IN IF f.mem[f.at].isLast \/ ~f.mem[next].isFree THEN f.mem
       ELSE Absorb(f.mem, f.at)

\* Behind a last block there is no header, but free reads an isFree there:
\* the place, if it does.
ReadsBehind(m, b) ==
    LET f == MarkFree(m, b) IN
    {place \in {f.mem[f.at].next} : f.mem[f.at].isLast}

\* What it finds there when clients have written to it, or an old header is
\* left of a block merged long ago, and isFree is not zero.
NoHeader == [isFree : {TRUE}, isLast : BOOLEAN, dataSize : Garbage,
             data : Garbage, next : Garbage]

\* The block takes it in like a block: its size and its link are client bytes.
FreedIntoGarbage(m, b, garbage) ==
    LET f == MarkFree(m, b)
        place == f.mem[f.at].next
    IN Absorb([a \in DOMAIN f.mem \cup {place} |->
                  IF a = place THEN garbage ELSE f.mem[a]], f.at)

-----------------------------------------------------------------------------
Init ==
    /\ mallocListHead = NULL
    /\ mem = [a \in {} |-> NULL]
    /\ availableMemoryInChunk = 0
    /\ brk = HeapStart
    /\ touched = HeapStart
    /\ live = [p \in {} |-> 0]
    /\ status = "running"

\* The highest end of a block.
Top(m) ==
    LET ends == {m[a].next : a \in DOMAIN m} \cup {HeapStart}
    IN CHOOSE e \in ends : \A f \in ends : f <= e

SetBreak(h) ==
    /\ mallocListHead' = h.head
    /\ availableMemoryInChunk' = h.avail
    /\ brk' = h.brk

\* The program touches a byte beyond the break and dies in the call.
Die ==
    /\ status' = "fault"
    /\ UNCHANGED <<mallocListHead, mem, availableMemoryInChunk, brk, touched, live>>

HeaderBeyond(h) == \E a \in DOMAIN h.mem : a + HeaderSize > h.brk

\* A header, or one of these bytes.
Beyond(h, p, size) == HeaderBeyond(h) \/ (size > 0 /\ p + size > h.brk)

\* The list a call leaves, and the pointers the clients hold then.  h.mem is
\* all that the call wrote.
Leave(h, m, pointers) ==
    /\ Cardinality(DOMAIN m) <= MaxBlocks
    /\ SetBreak(h)
    /\ mem' = m
    /\ touched' = Larger(touched, Top(h.mem))
    /\ live' = pointers

With(p, size) == [q \in DOMAIN live \cup {p} |-> IF q = p THEN size ELSE live[q]]
Without(f, p) == [q \in DOMAIN f \ {p} |-> f[q]]

\* malloc, and realloc of NULL.
Malloc(size) ==
    /\ status = "running"
    /\ \/ SbrkMayFail(heap, size + HeaderSize) /\ UNCHANGED vars
       \/ /\ SbrkMaySucceed(heap, size + HeaderSize)
          /\ LET got == Placed(heap, size) IN
             IF HeaderBeyond(got.heap) THEN Die
             ELSE /\ Leave(got.heap, got.heap.mem, With(got.data, size))
                  /\ UNCHANGED status

\* calloc: malloc, and memset over what it got.
Calloc(size) ==
    LET got == Placed(heap, size) IN
    /\ status = "running"
    /\ \/ SbrkMayFail(heap, size + HeaderSize) /\ UNCHANGED vars
       \/ /\ SbrkMaySucceed(heap, size + HeaderSize)
          /\ IF Beyond(got.heap, got.data, size) THEN Die
             ELSE /\ Leave(got.heap, got.heap.mem, With(got.data, size))
                  /\ UNCHANGED status

\* free, and realloc to nothing.  Behind the last block the read faults, or
\* finds zero, or, where something was written, may find a byte that makes a
\* header of what clients have left there.
Free(ptr) ==
    LET b == Owner(heap, ptr)
        behind == ReadsBehind(mem, b)
    IN /\ status = "running"
       /\ IF \E x \in behind : x >= brk THEN Die
          ELSE \/ /\ Leave(heap, Freed(mem, b), Without(live, ptr))
                  /\ UNCHANGED status
               \/ /\ \E x \in behind : x < touched
                  /\ \E garbage \in NoHeader :
                        Leave(heap, FreedIntoGarbage(mem, b, garbage),
                              Without(live, ptr))
                  /\ status' = "corrupt"

\* From then on the calls walk along links that are client bytes, and write
\* headers to where these lead.  They may never return, or give clients any
\* place; what becomes of the list and of the break is not followed.
Stray ==
    /\ status = "corrupt"
    /\ \/ \E at \in Garbage \ {NULL}, size \in Size :
             live' = With(DataAt(at), size)
       \/ \E ptr \in DOMAIN live : live' = Without(live, ptr)
    /\ UNCHANGED <<mallocListHead, mem, availableMemoryInChunk, brk, touched, status>>

\* A slip: whether the block behind is free or not.
JoinedInUse(b, size) ==
    LET c == mem[b].next IN
    IF ~mem[b].isLast /\ mem[b].dataSize + mem[c].dataSize > size
    THEN Absorb(mem, b) ELSE mem

\* realloc first takes in a free block behind, if that makes enough room.
Joined(b, size) ==
    LET c == mem[b].next IN
    IF /\ ~mem[b].isLast
       /\ mem[c].isFree
       /\ mem[b].dataSize + mem[c].dataSize > size
    THEN Absorb(mem, b) ELSE mem

\* The block is large enough: it is cut to size where it is.
ReallocInPlace(ptr, size) ==
    LET b == Owner(heap, ptr)
        m == Joined(b, size)
    IN /\ status = "running" /\ size > 0
       /\ m[b].dataSize >= size
       /\ LET cut == [heap EXCEPT !.mem = Reuse(m, b, size)] IN
          IF HeaderBeyond(cut) THEN Die
          ELSE Leave(cut, cut.mem, With(ptr, size)) /\ UNCHANGED status

\* expandLastBlock: by the whole of the new size.
ReallocExpand(ptr, size) ==
    LET b == Owner(heap, ptr)
        grown == AdjustDataBreak(heap, size)
        m == AllocateMemoryAt(mem, b, mem[b].dataSize + size)
    IN /\ status = "running"
       /\ Joined(b, size)[b].dataSize < size
       /\ mem[b].isLast
       /\ \/ SbrkMayFail(heap, size) /\ UNCHANGED vars
          \/ /\ SbrkMaySucceed(heap, size)
             /\ Leave([grown EXCEPT !.mem = m], m, With(ptr, size))
             /\ UNCHANGED status

\* malloc, memcpy of as many bytes as the new block has, free.  The old block
\* is not the last, so free finds a header behind it.
ReallocMove(ptr, size) ==
    LET b   == Owner(heap, ptr)
        got == Placed(heap, size)
        old == Owner(got.heap, ptr)
    IN /\ status = "running"
       /\ Joined(b, size)[b].dataSize < size
       /\ ~mem[b].isLast
       /\ \/ SbrkMayFail(heap, size + HeaderSize) /\ UNCHANGED vars
          \/ /\ SbrkMaySucceed(heap, size + HeaderSize)
             /\ IF Beyond(got.heap, ptr, size) \/ Beyond(got.heap, got.data, size)
                THEN Die
                ELSE /\ Leave(got.heap, Freed(got.heap.mem, old),
                              Without(With(got.data, size), ptr))
                     /\ UNCHANGED status

Next ==
    \/ \E size \in Size : Malloc(size) \/ Calloc(size)
    \/ \E ptr \in DOMAIN live : Free(ptr)
    \/ \E ptr \in DOMAIN live, size \in Size :
        \/ ReallocInPlace(ptr, size)
        \/ ReallocExpand(ptr, size)
        \/ ReallocMove(ptr, size)
    \/ Stray

Spec == Init /\ [][Next]_vars

-----------------------------------------------------------------------------
(***************************************************************************)
(* Properties.                                                             *)
(***************************************************************************)
\* What the variables hold; what adjustDataBreak believes to be available is
\* less than a chunk.
TypeOK ==
    /\ mallocListHead \in {NULL, HeapStart}
    /\ \A a \in DOMAIN mem :
        /\ a \in Nat
        /\ mem[a] \in [isFree : BOOLEAN, isLast : BOOLEAN, dataSize : Nat,
                       data : Nat, next : Nat]
    /\ availableMemoryInChunk \in 0 .. (ChunkA - 1) * ChunkB
    /\ brk \in HeapStart .. HeapLimit
    /\ touched \in Nat
    /\ \A p \in DOMAIN live : p \in Nat /\ live[p] \in Size
    /\ status \in {"running", "fault", "corrupt"}

\* free has not taken for a header what lies behind the last block.  The next
\* four properties end where it does: there the list breaks, and clients may be
\* given the same bytes twice.
NoFalseHeader == status # "corrupt"

\* After any sequence of malloc, free and realloc in which free has read no
\* false header, the headers are one list in address order: the links climb
\* past the data of the block they leave, reach every header once and end at
\* the one last block; data is aligned.
\* (allocateMemoryAt, reuseFreedMemory, free, realloc)
BlocksInOrder ==
  NoFalseHeader =>
    /\ (mallocListHead = NULL) <=> (DOMAIN mem = {})
    /\ \A a \in DOMAIN mem :
        /\ mem[a].data = DataAt(a) /\ mem[a].data % Alignment = 0
        /\ mem[a].data + mem[a].dataSize <= mem[a].next
        /\ ~mem[a].isLast => mem[a].next \in DOMAIN mem
        /\ a # mallocListHead => \E p \in DOMAIN mem : Previous(mem, a) = {p}
    /\ Cardinality({a \in DOMAIN mem : mem[a].isLast}) = IF DOMAIN mem = {} THEN 0 ELSE 1

\* A pointer a client holds, and the last byte it may use, belong to one block
\* by findOwnerBlock's search, the one whose data the pointer is; that block is
\* in use and at least as large as what was asked for.  So no free, realloc or
\* reuse of another pointer's block touches it, until free reads a false header.
LivePointersOwned ==
  NoFalseHeader =>
    \A p \in DOMAIN live :
        LET b == Owner(heap, p) IN
        /\ Owner(heap, p + live[p]) = b
        /\ mem[b].data = p
        /\ ~mem[b].isFree
        /\ mem[b].dataSize >= live[p]

\* Free blocks never lie side by side: free merges with both neighbours,
\* realloc merges before it cuts, and a rest is only cut off in front of a
\* block in use.  (Again until free reads a false header.)
NoFreeNeighbours ==
  NoFalseHeader =>
    \A a \in DOMAIN mem :
        mem[a].isFree /\ ~mem[a].isLast => ~mem[mem[a].next].isFree

\* What clients see is an allocator, whose ranges never overlap, up to and
\* including the call in which free reads a false header.
Clients == INSTANCE Allocator
AllocatesUntilCorrupt == Clients!Init /\ [][NoFalseHeader => Clients!Next]_live

\* "Checks to see if we have enough memory in the heap to accomodate the
\* user's requests.  If we don't, tell sbrk to carve us up some" more:
\* every block lies below the break.  (malloc.c:310, adjustDataBreak)
HeapHoldsBlocks ==
    status = "running" =>
        \A a \in DOMAIN mem : mem[a].data + mem[a].dataSize <= brk
=============================================================================
