------------------------------- MODULE PhysMem -------------------------------
(***************************************************************************)
(* The physical page-frame allocator of sys/mmu.c: pm_init, pm_allocate,   *)
(* pm_get and pm_free over the bitmap `kmem`.  Addresses and lengths are   *)
(* counted in frames (PAGE_SIZE bytes), and kmem.free_size too.  The       *)
(* bitmap is the set of the frames whose bit is 1, i.e. that are FREE.     *)
(*                                                                         *)
(* pm_init zeroes only bitmap_size bytes, which is the frame count of      *)
(* memory rounded DOWN to whole bytes.  The bits behind that are whatever  *)
(* the RAM there held; TailOnes is the set of frames whose bit the RAM may *)
(* show as 1, and `leftover` records the ones it did show when pm_init ran *)
(* (a history variable: no guard reads it).                                *)
(*                                                                         *)
(* The functions run on the one CPU and no interrupt handler calls them,   *)
(* so each call is one step.                                               *)
(***************************************************************************)
EXTENDS Integers, Sequences, FiniteSets

CONSTANTS
    MemoryMaps,       \* memory maps the boot loader may hand over
    TailOnes,         \* frames whose bit may be 1 in RAM pm_init never wrote
    TOP,              \* bound of physical addresses, in frames
    LOW_MEMORY,       \* frames below 1 MB (0x100000)
    PAGES_PER_BYTE,   \* 8
    PAGE_SIZE,        \* bytes in a frame
    Clients,          \* call sites that hold memory they got from pm_get
    MaxRequest,       \* bound on num_pages of one pm_get
    NONE              \* no allocation

VARIABLES
    status,           \* "boot" before pm_init, then "up", "halted" or "fault"
    map,              \* req.response: a sequence of memory-map entries
    physical_limit,   \* kmem.physical_limit
    free,             \* frames whose bit in kmem.bitmap is 1
    free_size,        \* kmem.free_size; below zero stands for the wrapped uint64
    bitmap,           \* kmem.bitmap: the extent marked as used for it
    leftover,         \* frames whose bit was 1 before pm_init wrote any (history)
    held              \* the extent every client holds, or NONE

kmem == <<status, map, physical_limit, free, free_size, bitmap, leftover>>
vars == <<kmem, held>>

EntryTypes == {"usable", "bootloader", "kernel", "acpi", "reserved"}

Entry == [base : 0..TOP, length : 0..TOP, type : EntryTypes]

ASSUME MapsAssumption == MemoryMaps \subseteq Seq(Entry)

ASSUME SizesAssumption ==
    /\ TOP \in Nat
    /\ LOW_MEMORY \in Nat
    /\ PAGES_PER_BYTE \in Nat \ {0}
    /\ PAGE_SIZE \in Nat \ {0}
    /\ MaxRequest \in Nat \ {0}

ASSUME TailAssumption == TailOnes \subseteq Nat /\ IsFiniteSet(TailOnes)

-----------------------------------------------------------------------------
(* Extents and the memory map *)

Extent == [base : Nat, n : Nat]

ASSUME NoneAssumption == NONE \notin Extent

\* The frames of an extent, and of a memory-map entry.
Frames(e)      == e.base .. (e.base + e.n - 1)
EntryFrames(e) == e.base .. (e.base + e.length - 1)

Entries(m) == {m[i] : i \in 1..Len(m)}

\* ENTRY_TYPE_CHECK: the types that count as memory.
Counted(m) == {e \in Entries(m) : e.type # "reserved"}

\* pm_init, first loop: the end of the highest counted entry.
Limit(m) ==
    LET Ends == {0} \cup {e.base + e.length : e \in Counted(m)}
    IN  CHOOSE l \in Ends : \A k \in Ends : k <= l

\* bitmap_size in bytes (rounded down) and NUM_PAGES(bitmap_size).
BitmapBytes(m)  == Limit(m) \div PAGES_PER_BYTE
BitmapFrames(m) == (BitmapBytes(m) + PAGE_SIZE - 1) \div PAGE_SIZE

AboveLow(e) == e.base + e.length > LOW_MEMORY

\* Entries that pm_init frees: usable and not wholly below 1 MB.
Pool(m) == {e \in Entries(m) : AboveLow(e) /\ e.type = "usable"}

PoolFrames(m) == UNION {EntryFrames(e) : e \in Pool(m)}

\* Indices of the entries that can hold the bitmap (length is compared in bytes).
BitmapHomes(m) ==
    {i \in 1..Len(m) : m[i] \in Pool(m) /\ m[i].length * PAGE_SIZE >= BitmapBytes(m)}

FirstHome(m) == CHOOSE i \in BitmapHomes(m) : \A j \in BitmapHomes(m) : i <= j

BitmapExtent(m) == [base |-> m[FirstHome(m)].base, n |-> BitmapFrames(m)]

\* Frames whose bit the memset does not reach and the RAM may show as 1.
TailBits(m) == {f \in TailOnes : f >= BitmapBytes(m) * PAGES_PER_BYTE}

-----------------------------------------------------------------------------
(* The bitmap functions, as they change (free, free_size) *)

\* Mutant of IsFree: looks at the first frame only.
IsFree_FirstOnly(e) == e.base \in free

\* bitmap_free(address, num_pages) = FREE
IsFree(e) == Frames(e) \subseteq free

\* pm_allocate when it returns SYS_OK: the bits are cleared.
pm_allocate(e) ==
    /\ IsFree(e)
    /\ free' = free \ Frames(e)
    /\ free_size' = free_size - e.n

\* Mutants of pm_free: the loop stops one frame early, or runs one too far.
pm_free_Short(e) ==
    /\ free' = free \cup (Frames(e) \ {e.base + e.n - 1})
    /\ free_size' = free_size + e.n - 1

pm_free_Long(e) ==
    /\ free' = free \cup Frames(e) \cup {e.base + e.n}
    /\ free_size' = free_size + Cardinality((Frames(e) \cup {e.base + e.n}) \ free)

\* pm_free: every bit is set; only frames that were allocated are counted.
pm_free(e) ==
    /\ free' = free \cup Frames(e)
    /\ free_size' = free_size + Cardinality(Frames(e) \ free)

\* The addresses at which the loop of pm_get(n, address) succeeds.
Fits(n, address) ==
    {i \in address .. physical_limit - 1 : IsFree([base |-> i, n |-> n])}

\* pm_get(n, address) returns the lowest of them, the first the loop meets.
pm_get(n, address, e) ==
    /\ e.n = n
    /\ e.base \in Fits(n, address)
    /\ \A i \in Fits(n, address) : e.base <= i
    /\ pm_allocate(e)

\* The frames a caller holds.
HeldFrames(c) == IF held[c] = NONE THEN {} ELSE Frames(held[c])

-----------------------------------------------------------------------------
(* Actions *)

Init ==
    /\ status = "boot"
    /\ map \in MemoryMaps
    /\ physical_limit = 0
    /\ free = {}
    /\ free_size = 0
    /\ bitmap = NONE
    /\ leftover = {}
    /\ held = [c \in Clients |-> NONE]

\* pm_init without a response or without entries halts.
PmInitNoMap ==
    /\ status = "boot"
    /\ Len(map) = 0
    /\ status' = "halted"
    /\ UNCHANGED <<map, physical_limit, free, free_size, bitmap, leftover, held>>

\* No entry holds the bitmap: kmem.bitmap stays NULL and is written through.
PmInitNoRoom ==
    /\ status = "boot"
    /\ Len(map) > 0
    /\ BitmapHomes(map) = {}
    /\ status' = "fault"
    /\ physical_limit' = Limit(map)
    /\ UNCHANGED <<map, free, free_size, bitmap, leftover, held>>

\* Mutant of InitialSize: pm_free counts every frame it is called for.
InitialSize_All(m, ones) == Cardinality(PoolFrames(m)) - BitmapFrames(m)

\* The frames the pm_free calls of pm_init count, less those of the bitmap.
InitialSize(m, ones) == Cardinality(PoolFrames(m) \ ones) - BitmapFrames(m)

\* pm_init: limit, bitmap, memset, pm_free of the pool, pm_allocate of the
\* bitmap.  The pm_free calls of the last loop count a frame when its bit was 0:
\* a frame of the pool whose bit the RAM shows as 1 is free and never counted.  pm_allocate succeeds: the extent lies in a pool entry
\* (lemma BitmapInPool in PhysMem_proofs).
PmInit ==
    /\ status = "boot"
    /\ Len(map) > 0
    /\ BitmapHomes(map) # {}
    /\ status' = "up"
    /\ physical_limit' = Limit(map)
    /\ bitmap' = BitmapExtent(map)
    /\ \E ones \in SUBSET TailBits(map) :
          LET pool == PoolFrames(map) \cup ones
              used == Frames(BitmapExtent(map))
          IN  /\ leftover' = ones
              /\ free' = pool \ used
              /\ free_size' = InitialSize(map, ones)
    /\ UNCHANGED <<map, held>>

\* A caller gets num_pages frames; every caller passes address 0.
PmGet(c, n) ==
    /\ status = "up"
    /\ held[c] = NONE
    /\ \E b \in Fits(n, 0) :
          /\ pm_get(n, 0, [base |-> b, n |-> n])
          /\ held' = [held EXCEPT ![c] = [base |-> b, n |-> n]]
    /\ UNCHANGED <<status, map, physical_limit, bitmap, leftover>>

\* "Out of physical memory": pm_get halts the machine.
PmGetHalt(c, n) ==
    /\ status = "up"
    /\ held[c] = NONE
    /\ Fits(n, 0) = {}
    /\ status' = "halted"
    /\ UNCHANGED <<map, physical_limit, free, free_size, bitmap, leftover, held>>

\* A caller gives back what it holds.
PmFree(c) ==
    /\ status = "up"
    /\ held[c] # NONE
    /\ pm_free(held[c])
    /\ held' = [held EXCEPT ![c] = NONE]
    /\ UNCHANGED <<status, map, physical_limit, bitmap, leftover>>

Next ==
    \/ PmInitNoMap
    \/ PmInitNoRoom
    \/ PmInit
    \/ \E c \in Clients :
          \/ \E n \in 1..MaxRequest : PmGet(c, n) \/ PmGetHalt(c, n)
          \/ PmFree(c)

Spec == Init /\ [][Next]_vars

-----------------------------------------------------------------------------
(* Properties *)

\* The variables have their types; the bits of the pool, and those pm_init never
\* wrote, are the only ones that can be 1.
TypeOK ==
    /\ status \in {"boot", "up", "halted", "fault"}
    /\ map \in MemoryMaps
    /\ physical_limit \in Nat
    /\ free \in SUBSET (PoolFrames(map) \cup TailOnes)
    /\ free_size \in Int
    /\ bitmap \in Extent \cup {NONE}
    /\ leftover \in SUBSET TailOnes
    /\ held \in [Clients -> Extent \cup {NONE}]

BitmapUse == IF bitmap = NONE THEN {} ELSE Frames(bitmap)
AllHeld   == UNION {HeldFrames(c) : c \in Clients}

\* No frame has two owners: what pm_get gave to one caller is not free, not
\* part of the bitmap and not given to another caller until it is freed.
NoSharing ==
    /\ \A c \in Clients : HeldFrames(c) \cap (free \cup BitmapUse) = {}
    /\ \A c, d \in Clients : c # d => HeldFrames(c) \cap HeldFrames(d) = {}
    /\ BitmapUse \cap free = {}

\* kmem.free_size, "%d bytes available", is the memory whose bit is FREE, less the
\* frames whose bit the RAM already showed as 1 when pm_init ran (in the pool or
\* not, no pm_free of the boot counts them): the increments of pm_free and the
\* decrements of pm_allocate never drift apart afterwards.
FreeSizeExact == free_size = Cardinality(free) - Cardinality(leftover)

\* Nothing is lost and nothing is invented: once pm_init is done, what is free,
\* what is held and what the bitmap occupies are the frames of the usable entries
\* and those the RAM behind the bitmap made free.
Conservation ==
    status = "up" => free \cup AllHeld \cup BitmapUse = PoolFrames(map) \cup leftover

\* pm_get gives out only memory of the map's usable entries.
OnlyUsableGiven == AllHeld \subseteq PoolFrames(map)

=============================================================================
