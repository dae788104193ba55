------------------------------- MODULE Kmalloc -------------------------------
(***************************************************************************)
(* The kernel allocator of common/kmalloc.c on top of the frame allocator. *)
(* A block is a header frame followed by NUM_PAGES(size) data frames; its  *)
(* address is the first data frame.  Sizes are counted in units, UNITS of  *)
(* them to a frame, and a frame's contents are its units, or the header    *)
(* that was written into it last.                                          *)
(*                                                                         *)
(* `held` of PhysMem is the extent pm_get returned for a caller's block or *)
(* for its page tables; the code has no such variable, kfree relies on the *)
(* header alone.  A caller keeps its pointer when it has freed it and may  *)
(* free it again: the block that has come to lie there goes, whoever has   *)
(* it, and that caller is left with such a pointer too.  What is stored or *)
(* resized through the pointer of a freed block is not modelled.           *)
(***************************************************************************)
EXTENDS PhysMem

CONSTANTS
    UNITS,            \* units in a frame
    MaxSize,          \* bound on the size of a block, in units
    JUNK,             \* what RAM holds before anyone writes it
    Stored            \* values that callers store in their blocks

VARIABLES
    hdr,              \* KMEM_METADATA in a frame, or NOHDR
    data,             \* the units of every frame
    ptr,              \* the pointer kmalloc returned to a caller, or NONE
    asked             \* the size a caller asked for last

heap  == <<hdr, data, ptr, asked>>
kvars == <<vars, heap>>

Ram    == 0..(TOP + MaxRequest)
Values == {0, JUNK} \cup Stored
NOHDR  == [magic |-> FALSE, num_pages |-> 0, size |-> 0]

Header == [magic : BOOLEAN, num_pages : Nat, size : Nat]

NUM_PAGES(size) == (size + UNITS - 1) \div UNITS

\* TOP bounds the memory of the machine, MaxRequest what kmalloc asks pm_get for.
ASSUME UnitsAssumption ==
    /\ UNITS \in Nat \ {0} /\ MaxSize \in Nat
    /\ NUM_PAGES(MaxSize) + 1 <= MaxRequest
    /\ \A m \in MemoryMaps : \A i \in 1..Len(m) : m[i].base + m[i].length <= TOP
    /\ NONE \notin Nat
    /\ \A size \in 0..MaxSize : NONE \notin [1..size -> Values]

\* The frame and the offset of unit u (from 1) of a block at frame p.
FrameOf(p, u)  == p + (u - 1) \div UNITS
OffsetOf(u)    == (u - 1) % UNITS
UnitAt(p, u)   == data[FrameOf(p, u)][OffsetOf(u)]

\* Memory after units 1..size of the block at p are set to val[1..size].
Filled(d, p, size, val) ==
    [f \in Ram |-> [o \in 0..UNITS-1 |->
        LET u == (f - p) * UNITS + o + 1
        IN  IF f >= p /\ u <= size THEN val[u] ELSE d[f][o]]]

\* Frames of which a fill of size units from p writes the beginning.
Touched(p, size) == p .. (p + NUM_PAGES(size) - 1)

NewHeader(size) == [magic |-> TRUE, num_pages |-> NUM_PAGES(size), size |-> size]

\* Headers after a kmalloc of size units whose extent starts at frame b: the
\* memset of header frame and data comes before the header is written.
HeadersAfter(h, b, size) ==
    [f \in Ram |-> IF f = b THEN NewHeader(size)
                   ELSE IF f \in Touched(b + 1, size) THEN NOHDR ELSE h[f]]

Zeroes(size) == [u \in 1..size |-> 0]

\* Nobody reads a free frame's units before writing them, except through the
\* units that kmalloc leaves as they are: their old contents are forgotten.
Forgotten(d, frames) ==
    [f \in Ram |-> IF f \in frames THEN [o \in 0..UNITS-1 |-> JUNK] ELSE d[f]]

Live(c) == ptr[c] # NONE /\ held[c] # NONE

-----------------------------------------------------------------------------
(* Actions *)

KInit ==
    /\ Init
    /\ hdr = [f \in Ram |-> NOHDR]
    /\ data = [f \in Ram |-> [o \in 0..UNITS-1 |-> JUNK]]
    /\ ptr = [c \in Clients |-> NONE]
    /\ asked = [c \in Clients |-> 0]

Boot == PmInit /\ UNCHANGED heap

\* kmalloc(size), and krealloc(NULL, size) which only calls it.
Kmalloc(c, size) ==
    /\ PmGet(c, NUM_PAGES(size) + 1)
    /\ LET b == held'[c].base
       IN  /\ hdr' = HeadersAfter(hdr, b, size)
           /\ data' = Filled(data, b + 1, size, Zeroes(size))
           /\ ptr' = [ptr EXCEPT ![c] = b + 1]
    /\ asked' = [asked EXCEPT ![c] = size]

KmallocHalt(c, size) == PmGetHalt(c, NUM_PAGES(size) + 1) /\ UNCHANGED heap

\* Mutants: one frame too many, no look at the magic number, and a magic number
\* that stays after the free.
FreedBy_OneMore(p) ==
    IF hdr[p - 1].magic THEN (p - 1) .. (p + hdr[p - 1].num_pages) ELSE {}

FreedBy_Unchecked(p) == (p - 1) .. (p - 1 + hdr[p - 1].num_pages)

Disarmed_Never(h, p) == h

\* The frames kfree(p) gives back: as many as the header says, and none with
\* "memory corruption detected" when the magic number is not there.
FreedBy(p) ==
    IF hdr[p - 1].magic THEN (p - 1) .. (p - 1 + hdr[p - 1].num_pages) ELSE {}

\* mem->magic = 0
Disarmed(h, p) == [h EXCEPT ![p - 1].magic = FALSE]

\* Mutant of kfree: the header frame is not counted.
kfree_NoHeader(p) ==
    /\ free' = free \cup FreedBy(p)
    /\ free_size' = free_size + hdr[p - 1].num_pages
    /\ hdr' = Disarmed(hdr, p)
    /\ data' = Forgotten(data, FreedBy(p))

\* kfree_impl
kfree(p) ==
    /\ free' = free \cup FreedBy(p)
    /\ free_size' = free_size + Cardinality(FreedBy(p) \ free)
    /\ hdr' = Disarmed(hdr, p)
    /\ data' = Forgotten(data, FreedBy(p))

\* kfree of a block in use.
Kfree(c) ==
    /\ status = "up"
    /\ Live(c)
    /\ kfree(ptr[c])
    /\ held' = [held EXCEPT ![c] = NONE]
    /\ asked' = [asked EXCEPT ![c] = 0]
    /\ UNCHANGED <<status, map, physical_limit, bitmap, leftover, ptr>>

\* The callers who have a block at frame p.
OwnersOf(p) == {d \in Clients : Live(d) /\ ptr[d] = p}

\* A caller frees its block again.  When another block has come to start at the
\* same frame, kfree finds that one's magic number and frees it.
KfreeAgain(c) ==
    /\ status = "up"
    /\ ptr[c] # NONE
    /\ held[c] = NONE
    /\ kfree(ptr[c])
    /\ held' = [d \in Clients |-> IF d \in OwnersOf(ptr[c]) THEN NONE ELSE held[d]]
    /\ asked' = [d \in Clients |-> IF d \in OwnersOf(ptr[c]) THEN 0 ELSE asked[d]]
    /\ UNCHANGED <<status, map, physical_limit, bitmap, leftover, ptr>>

\* krealloc when the number of pages stays: only the header is rewritten.
KreallocInPlace(c, size) ==
    /\ status = "up"
    /\ Live(c)
    /\ NUM_PAGES(hdr[ptr[c] - 1].size) = NUM_PAGES(size)
    /\ hdr' = [hdr EXCEPT ![ptr[c] - 1] = NewHeader(size)]
    /\ asked' = [asked EXCEPT ![c] = size]
    /\ UNCHANGED <<vars, data, ptr>>

\* Mutant of Kept: one unit short.
Kept_Short(old, size) == {u \in 1..old : u < size}

\* The units memcpy takes over: the smaller of both sizes.
Kept(old, size) == {u \in 1..old : u <= size}

\* krealloc that moves the block: kmalloc, memset, memcpy of the smaller size,
\* kfree of the old block.  The old block still occupies its frames while the
\* new one is looked for.
KreallocMove(c, size) ==
    LET p == ptr[c]
        n == NUM_PAGES(size) + 1
        copy == [u \in 1..size |->
                    IF u \in Kept(hdr[p - 1].size, size) THEN UnitAt(p, u) ELSE 0]
    IN
    /\ status = "up"
    /\ Live(c)
    /\ NUM_PAGES(hdr[p - 1].size) # NUM_PAGES(size)
    /\ \E b \in Fits(n, 0) :
          LET new  == [base |-> b, n |-> n]
              left == free \ Frames(new)
          IN  /\ \A i \in Fits(n, 0) : b <= i
              /\ free' = left \cup FreedBy(p)
              /\ free_size' = free_size - n + Cardinality(FreedBy(p) \ left)
              /\ held' = [held EXCEPT ![c] = new]
              /\ hdr' = Disarmed(HeadersAfter(hdr, b, size), p)
              /\ data' = Forgotten(Filled(data, b + 1, size, copy), FreedBy(p))
              /\ ptr' = [ptr EXCEPT ![c] = b + 1]
    /\ asked' = [asked EXCEPT ![c] = size]
    /\ UNCHANGED <<status, map, physical_limit, bitmap, leftover>>

KreallocHalt(c, size) ==
    /\ status = "up"
    /\ Live(c)
    /\ NUM_PAGES(hdr[ptr[c] - 1].size) # NUM_PAGES(size)
    /\ Fits(NUM_PAGES(size) + 1, 0) = {}
    /\ status' = "halted"
    /\ UNCHANGED <<map, physical_limit, free, free_size, bitmap, leftover, held, heap>>

\* A caller stores into its block.
Store(c, u, v) ==
    /\ status = "up"
    /\ Live(c)
    /\ u <= asked[c]
    /\ data' = [data EXCEPT ![FrameOf(ptr[c], u)][OffsetOf(u)] = v]
    /\ hdr' = [hdr EXCEPT ![FrameOf(ptr[c], u)] = NOHDR]
    /\ UNCHANGED <<vars, ptr, asked>>

\* map_page_entry takes frames for a page table and zeroes them;
\* unmap_page_entry gives them back.
TableGet(c, n) ==
    /\ ptr[c] = NONE
    /\ PmGet(c, n)
    /\ LET table == Frames(held'[c])
       IN  /\ data' = [f \in Ram |-> IF f \in table THEN [o \in 0..UNITS-1 |-> 0]
                                     ELSE data[f]]
           /\ hdr' = [f \in Ram |-> IF f \in table THEN NOHDR ELSE hdr[f]]
    /\ UNCHANGED <<ptr, asked>>

TableFree(c) ==
    /\ ptr[c] = NONE
    /\ PmFree(c)
    /\ data' = Forgotten(data, HeldFrames(c))
    /\ UNCHANGED <<hdr, ptr, asked>>

KNext ==
    \/ Boot
    \/ \E c \in Clients :
          \/ \E size \in 0..MaxSize :
                \/ Kmalloc(c, size)
                \/ KmallocHalt(c, size)
                \/ KreallocInPlace(c, size)
                \/ KreallocMove(c, size)
                \/ KreallocHalt(c, size)
          \/ Kfree(c)
          \/ KfreeAgain(c)
          \/ \E u \in 1..MaxSize, v \in Stored : Store(c, u, v)
          \/ \E n \in 1..MaxRequest : TableGet(c, n)
          \/ TableFree(c)

KSpec == KInit /\ [][KNext]_kvars

-----------------------------------------------------------------------------
(* Properties *)

\* The variables of the allocator have their types.
KTypeOK ==
    /\ TypeOK
    /\ hdr \in [Ram -> Header]
    /\ data \in [Ram -> [0..UNITS-1 -> Values]]
    /\ ptr \in [Clients -> Nat \cup {NONE}]
    /\ asked \in [Clients -> 0..MaxSize]

\* The magic number is armed in the header of every block that is in use and
\* nowhere else, and the header tells what pm_get gave and what was asked for:
\* kfree, which sees only the header, gives back exactly the block's frames.
HeadersTrue ==
    /\ \A c \in Clients : Live(c) =>
          /\ ptr[c] = held[c].base + 1
          /\ hdr[held[c].base] =
                [magic |-> TRUE, num_pages |-> held[c].n - 1, size |-> asked[c]]
    /\ \A f \in Ram : hdr[f].magic => \E c \in Clients : Live(c) /\ held[c].base = f

\* The callers whose extent a step takes away or replaces.
Losers == {c \in Clients : held[c] # NONE /\ held'[c] # held[c]}

\* A block or a page table becomes free as a whole or not at all, and no two at a
\* time: kfree, which knows a pointer and the header before it, gives back no
\* frame of the middle of another block, of a page table or of nobody, also when
\* the pointer was freed before and its frame is in other use by now.  (Whose
\* block it frees then is not its caller's: see KfreeAgain.)
FreesWholeBlocks ==
    [][status = "up" =>
          /\ free' \ free = UNION {HeldFrames(c) : c \in Losers}
          /\ \A c, d \in Losers : c = d]_kvars

\* What a caller reads through its pointer.
BlockContents ==
    [c \in Clients |-> IF Live(c) THEN [u \in 1..asked[c] |-> UnitAt(ptr[c], u)] ELSE NONE]

\* The allocator implements the abstract heap: blocks stay apart from each other,
\* from the page tables and from the headers, kmalloc zeroes and krealloc copies,
\* and a kfree of whatever pointer ends one block or does nothing.
AbstractHeap == INSTANCE Heap WITH block <- BlockContents

ImplementsHeap == AbstractHeap!Spec

=============================================================================
