--------------------------- MODULE PhysMem_proofs ---------------------------
(***************************************************************************)
(* Proofs about the frame allocator, for every memory map, every number of *)
(* clients and every size of request.                                      *)
(***************************************************************************)
EXTENDS PhysMem, FiniteSetTheorems, Numbers, TLAPS

(* ------------------------------------------------------------------------ *)
(* The memory map                                                           *)

\* The entries of a map have their type.
LEMMA EntryType ==
    ASSUME NEW m \in MemoryMaps
    PROVE  /\ Len(m) \in Nat
           /\ \A i \in 1..Len(m) : m[i] \in Entry
           /\ \A e \in Entries(m) : e \in Entry
<1>1. m \in Seq(Entry)
  BY MapsAssumption
<1>. QED  BY <1>1 DEF Entries

\* kmem.physical_limit is a number: the loop of pm_init takes a maximum.
LEMMA LimitType ==
    ASSUME NEW m \in MemoryMaps
    PROVE  Limit(m) \in Nat
<1>. DEFINE Ends == {0} \cup {e.base + e.length : e \in Counted(m)}
<1>1. \A e \in Counted(m) : e.base \in 0..TOP /\ e.length \in 0..TOP
  BY EntryType DEF Counted, Entry
<1>2. Ends \in SUBSET Nat /\ \A k \in Ends : k <= TOP + TOP
  BY <1>1, SizesAssumption
<1>3. \E l \in Ends : \A k \in Ends : k <= l
  BY <1>2, GreatestExists, SizesAssumption, TOP + TOP \in Nat, Ends # {}
<1>. QED  BY <1>2, <1>3 DEF Limit

\* The pool is a finite set of frames.
LEMMA PoolFinite ==
    ASSUME NEW m \in MemoryMaps
    PROVE  PoolFrames(m) \in SUBSET Nat /\ IsFiniteSet(PoolFrames(m))
<1>1. \A e \in Pool(m) : e.base \in 0..TOP /\ e.length \in 0..TOP
  BY EntryType DEF Pool, Entry
<1>2. PoolFrames(m) \subseteq 0..(TOP + TOP)
  BY <1>1, SizesAssumption DEF PoolFrames, EntryFrames
<1>3. IsFiniteSet(0..(TOP + TOP))
  BY FS_Interval, SizesAssumption
<1>4. IsFiniteSet(PoolFrames(m))
  BY <1>2, <1>3, FS_Subset
<1>. QED  BY <1>2, <1>4, SizesAssumption

\* The bitmap lies in one entry of the pool, so pm_allocate succeeds for it
\* at the end of pm_init.
LEMMA BitmapInPool ==
    ASSUME NEW m \in MemoryMaps, BitmapHomes(m) # {}
    PROVE  /\ BitmapFrames(m) \in Nat
           /\ BitmapExtent(m) \in Extent
           /\ Frames(BitmapExtent(m)) \subseteq PoolFrames(m)
<1>. DEFINE h == FirstHome(m)
            e == m[h]
<1>1. h \in BitmapHomes(m)
  <2>1. BitmapHomes(m) \in SUBSET Nat
    BY EntryType DEF BitmapHomes
  <2>2. \E i \in BitmapHomes(m) : \A j \in BitmapHomes(m) : i <= j
    BY <2>1, LeastExists
  <2>. QED  BY <2>2 DEF FirstHome
<1>2. e \in Pool(m) /\ e \in Entry /\ e.length * PAGE_SIZE >= BitmapBytes(m)
  BY <1>1, EntryType DEF BitmapHomes
<1>3. BitmapBytes(m) \in Nat
  BY LimitType, SizesAssumption DEF BitmapBytes
<1>4. e.length \in Nat /\ e.base \in Nat
  BY <1>2, SizesAssumption DEF Entry
<1>5. BitmapFrames(m) \in Nat /\ BitmapFrames(m) <= e.length
  BY <1>2, <1>3, <1>4, SizesAssumption DEF BitmapFrames
<1>6. Frames(BitmapExtent(m)) \subseteq EntryFrames(e)
  BY <1>4, <1>5 DEF Frames, EntryFrames, BitmapExtent
<1>7. EntryFrames(e) \subseteq PoolFrames(m)
  BY <1>2 DEF PoolFrames
<1>. QED  BY <1>4, <1>5, <1>6, <1>7 DEF BitmapExtent, Extent

\* Bits that survive in the RAM behind the bitmap are finitely many frames.
LEMMA TailFinite ==
    ASSUME NEW m \in MemoryMaps, NEW ones \in SUBSET TailBits(m)
    PROVE  ones \in SUBSET Nat /\ IsFiniteSet(ones)
<1>1. ones \in SUBSET TailOnes
  BY DEF TailBits
<1>. QED  BY <1>1, TailAssumption, FS_Subset

\* The bits that can ever be 1 are finitely many frames.
LEMMA KnownFinite ==
    ASSUME NEW m \in MemoryMaps, NEW S \in SUBSET (PoolFrames(m) \cup TailOnes)
    PROVE  S \in SUBSET Nat /\ IsFiniteSet(S)
<1>1. PoolFrames(m) \cup TailOnes \in SUBSET Nat
  BY PoolFinite, TailAssumption
<1>2. IsFiniteSet(PoolFrames(m) \cup TailOnes)
  BY PoolFinite, TailAssumption, FS_Union
<1>. QED  BY <1>1, <1>2, FS_Subset

\* n consecutive frames are n frames.
LEMMA IntervalCount ==
    ASSUME NEW a \in Nat, NEW n \in Nat
    PROVE  /\ IsFiniteSet(a .. (a + n - 1))
           /\ Cardinality(a .. (a + n - 1)) = n
<1>. DEFINE b == a + n - 1
<1>1. a \in Int /\ b \in Int
  OBVIOUS
<1>2. (IF a > b THEN 0 ELSE b - a + 1) = n
  OBVIOUS
<1>. HIDE DEF b
<1>3. /\ IsFiniteSet(a..b)
      /\ Cardinality(a..b) = IF a > b THEN 0 ELSE b - a + 1
  BY <1>1, FS_Interval
<1>4. IsFiniteSet(a..b) /\ Cardinality(a..b) = n
  BY <1>2, <1>3
<1>. QED  BY <1>4 DEF b

\* An extent of n frames has n frames.
LEMMA ExtentFrames ==
    ASSUME NEW e \in Extent
    PROVE  /\ Frames(e) \in SUBSET Nat
           /\ IsFiniteSet(Frames(e))
           /\ Cardinality(Frames(e)) = e.n
<1>1. e.base \in Nat /\ e.n \in Nat
  BY DEF Extent
<1>2. Frames(e) \in SUBSET Nat
  BY <1>1 DEF Frames
<1>3. IsFiniteSet(Frames(e)) /\ Cardinality(Frames(e)) = e.n
  BY <1>1, IntervalCount DEF Frames
<1>. QED  BY <1>2, <1>3

(* ------------------------------------------------------------------------ *)
(* The inductive invariant                                                  *)

\* Before pm_init the allocator is empty and nobody holds memory.
Unused ==
    status = "boot" => /\ bitmap = NONE
                       /\ free = {}
                       /\ free_size = 0
                       /\ leftover = {}
                       /\ \A c \in Clients : held[c] = NONE

\* What is held can become free again, so its bits are among the known ones.
HeldKnown == \A c \in Clients : HeldFrames(c) \subseteq PoolFrames(map) \cup TailOnes

IInv == TypeOK /\ NoSharing /\ Unused /\ HeldKnown

\* The free frames are finitely many numbers.
LEMMA FreeFinite == TypeOK => IsFiniteSet(free) /\ free \in SUBSET Nat
  BY KnownFinite DEF TypeOK

\* So are the frames that were free before pm_init.
LEMMA LeftoverFinite == TypeOK => IsFiniteSet(leftover)
  BY TailAssumption, FS_Subset DEF TypeOK

\* The boot loader's hand-over satisfies the invariant.
LEMMA InitIInv == Init => IInv
<1>. SUFFICES ASSUME Init PROVE IInv
  OBVIOUS
<1>1. TypeOK /\ HeldKnown
  BY DEF Init, TypeOK, HeldKnown, HeldFrames
<1>2. NoSharing
  BY DEF Init, NoSharing, HeldFrames, BitmapUse
<1>3. Unused
  BY DEF Init, Unused
<1>. QED  BY <1>1, <1>2, <1>3 DEF IInv

\* pm_init: the bitmap is taken out of the pool before anything is given out.
LEMMA PmInitIInv == IInv /\ PmInit => IInv'
<1>. SUFFICES ASSUME IInv, PmInit PROVE IInv'
  OBVIOUS
<1>. USE DEF IInv
<1>1. map \in MemoryMaps /\ BitmapHomes(map) # {}
  BY DEF TypeOK, PmInit
<1>2. PICK ones \in SUBSET TailBits(map) :
        /\ leftover' = ones
        /\ free' = (PoolFrames(map) \cup ones) \ Frames(BitmapExtent(map))
        /\ free_size' = Cardinality(PoolFrames(map) \ ones) - BitmapFrames(map)
  BY DEF PmInit, InitialSize
<1>3. BitmapExtent(map) \in Extent /\ BitmapFrames(map) \in Nat
  BY <1>1, BitmapInPool
<1>4. free' \in SUBSET (PoolFrames(map) \cup TailOnes)
  BY <1>2 DEF TailBits
<1>6. free_size' \in Int
  <2>1. IsFiniteSet(PoolFrames(map) \ ones)
    BY <1>1, PoolFinite, FS_Subset
  <2>. QED  BY <2>1, <1>2, <1>3, FS_CardinalityType
<1>7. TypeOK'
  BY <1>1, <1>2, <1>3, <1>4, <1>6, LimitType DEF TypeOK, PmInit, TailBits
<1>8. \A c \in Clients : held'[c] = NONE
  BY DEF Unused, PmInit
<1>9. bitmap' = BitmapExtent(map)
  BY DEF PmInit
<1>10. NoSharing'
  BY <1>2, <1>3, <1>8, <1>9, NoneAssumption DEF NoSharing, HeldFrames, BitmapUse
<1>11. Unused' /\ HeldKnown'
  BY <1>8 DEF Unused, PmInit, HeldKnown, HeldFrames
<1>. QED  BY <1>7, <1>10, <1>11

\* pm_get gives out free frames only, and takes their bits away.
LEMMA PmGetIInv ==
    ASSUME NEW c \in Clients, NEW n \in 1..MaxRequest, IInv, PmGet(c, n)
    PROVE  IInv'
<1>. USE DEF IInv
<1>. DEFINE x(b) == [base |-> b, n |-> n]
<1>1. PICK b \in Fits(n, 0) :
        /\ pm_get(n, 0, x(b))
        /\ held' = [held EXCEPT ![c] = x(b)]
  BY DEF PmGet
<1>2. b \in Nat /\ n \in Nat
  BY <1>1, SizesAssumption DEF Fits, TypeOK
<1>3. x(b) \in Extent /\ x(b) # NONE
  BY <1>2, NoneAssumption DEF Extent
<1>4. /\ Frames(x(b)) \subseteq free
      /\ free' = free \ Frames(x(b))
      /\ free_size' = free_size - n
  BY <1>1 DEF pm_get, pm_allocate, IsFree
<1>5. /\ status = "up" /\ status' = status
      /\ UNCHANGED <<map, physical_limit, bitmap, leftover>>
  BY DEF PmGet
<1>6. TypeOK'
  <2>1. free' \in SUBSET (PoolFrames(map) \cup TailOnes)
    BY <1>4 DEF TypeOK
  <2>. QED  BY <1>1, <1>2, <1>3, <1>4, <1>5, <2>1 DEF TypeOK
<1>7. NoSharing'
  <2>1. HeldFrames(c)' = Frames(x(b))
    BY <1>1, <1>3 DEF HeldFrames, TypeOK
  <2>2. \A d \in Clients \ {c} : HeldFrames(d)' = HeldFrames(d)
    BY <1>1 DEF HeldFrames, TypeOK
  <2>3. BitmapUse' = BitmapUse
    BY <1>5 DEF BitmapUse
  <2>. QED  BY <1>4, <2>1, <2>2, <2>3 DEF NoSharing
<1>8. Unused'
  BY <1>5 DEF Unused
<1>9. HeldKnown'
  <2>1. HeldFrames(c)' \subseteq PoolFrames(map) \cup TailOnes
    BY <1>1, <1>3, <1>4 DEF HeldFrames, TypeOK
  <2>2. \A d \in Clients \ {c} : HeldFrames(d)' = HeldFrames(d)
    BY <1>1 DEF HeldFrames, TypeOK
  <2>. QED  BY <1>5, <2>1, <2>2 DEF HeldKnown
<1>. QED  BY <1>6, <1>7, <1>8, <1>9

\* pm_free sets the bits of what the caller held, and of nothing else.
LEMMA PmFreeIInv ==
    ASSUME NEW c \in Clients, IInv, PmFree(c)
    PROVE  IInv'
<1>. USE DEF IInv
<1>1. held[c] \in Extent
  BY DEF TypeOK, PmFree
<1>2. /\ free' = free \cup Frames(held[c])
      /\ free_size' = free_size + Cardinality(Frames(held[c]) \ free)
      /\ held' = [held EXCEPT ![c] = NONE]
  BY DEF PmFree, pm_free
<1>3. /\ status = "up" /\ status' = status
      /\ UNCHANGED <<map, physical_limit, bitmap, leftover>>
  BY DEF PmFree
<1>4. TypeOK'
  <2>1. free' \in SUBSET (PoolFrames(map) \cup TailOnes)
    BY <1>1, <1>2, NoneAssumption DEF TypeOK, HeldKnown, HeldFrames
  <2>2. IsFiniteSet(Frames(held[c]) \ free)
    BY <1>1, ExtentFrames, FS_Subset
  <2>3. free_size' \in Int
    BY <1>2, <2>2, FS_CardinalityType DEF TypeOK
  <2>. QED  BY <1>2, <1>3, <2>1, <2>3 DEF TypeOK
<1>5. NoSharing'
  <2>1. HeldFrames(c) = Frames(held[c]) /\ HeldFrames(c)' = {}
    BY <1>1, <1>2, NoneAssumption DEF HeldFrames, TypeOK
  <2>2. \A d \in Clients \ {c} : HeldFrames(d)' = HeldFrames(d)
    BY <1>2 DEF HeldFrames, TypeOK
  <2>3. BitmapUse' = BitmapUse
    BY <1>3 DEF BitmapUse
  <2>. QED  BY <1>2, <2>1, <2>2, <2>3 DEF NoSharing
<1>6. Unused'
  BY <1>3 DEF Unused
<1>7. HeldKnown'
  BY <1>2, <1>3 DEF HeldKnown, HeldFrames, TypeOK
<1>. QED  BY <1>4, <1>5, <1>6, <1>7

\* A halt or a stuttering step changes nothing the invariant reads.
LEMMA StopIInv ==
    ASSUME IInv,
           \/ UNCHANGED vars
           \/ /\ status' \in {"halted", "fault"}
              /\ physical_limit' \in Nat
              /\ UNCHANGED <<map, free, free_size, bitmap, leftover, held>>
    PROVE  IInv'
  BY DEF IInv, TypeOK, NoSharing, Unused, HeldKnown, HeldFrames, BitmapUse, vars, kmem

\* Every step keeps the invariant.
LEMMA NextIInv == IInv /\ [Next]_vars => IInv'
<1>. SUFFICES ASSUME IInv, [Next]_vars PROVE IInv'
  OBVIOUS
<1>1. CASE PmInitNoMap
  BY <1>1, StopIInv DEF PmInitNoMap, IInv, TypeOK
<1>2. CASE PmInitNoRoom
  BY <1>2, StopIInv, LimitType DEF PmInitNoRoom, IInv, TypeOK
<1>3. CASE PmInit
  BY <1>3, PmInitIInv
<1>4. ASSUME NEW c \in Clients, NEW n \in 1..MaxRequest, PmGet(c, n)
      PROVE  IInv'
  BY <1>4, PmGetIInv
<1>5. ASSUME NEW c \in Clients, NEW n \in 1..MaxRequest, PmGetHalt(c, n)
      PROVE  IInv'
  BY <1>5, StopIInv DEF PmGetHalt, IInv, TypeOK
<1>6. ASSUME NEW c \in Clients, PmFree(c)
      PROVE  IInv'
  BY <1>6, PmFreeIInv
<1>7. CASE UNCHANGED vars
  BY <1>7, StopIInv
<1>. QED  BY <1>1, <1>2, <1>3, <1>4, <1>5, <1>6, <1>7 DEF Next

\* Every variable of the allocator keeps its type, whatever the memory map and
\* whatever RAM lies behind the bitmap.
THEOREM TypeCorrect == Spec => []TypeOK
<1>1. IInv => TypeOK
  BY DEF IInv
<1>. QED  BY <1>1, InitIInv, NextIInv, PTL DEF Spec

\* No frame is given to two callers, given while it is free, or taken out of
\* the bitmap: for every memory map, even with garbage behind the bitmap.
THEOREM NeverShared == Spec => []NoSharing
<1>1. IInv => NoSharing
  BY DEF IInv
<1>. QED  BY <1>1, InitIInv, NextIInv, PTL DEF Spec

(* ------------------------------------------------------------------------ *)
(* Accounting, whatever the RAM behind the bitmap holds                     *)

\* Taking an extent of free frames away lowers the count by its length.
LEMMA TakeCount ==
    ASSUME NEW S, IsFiniteSet(S), NEW e \in Extent, Frames(e) \subseteq S
    PROVE  Cardinality(S \ Frames(e)) = Cardinality(S) - e.n
<1>. DEFINE R == S \ Frames(e)
<1>1. IsFiniteSet(R) /\ IsFiniteSet(Frames(e)) /\ Cardinality(Frames(e)) = e.n
  BY FS_Subset, ExtentFrames
<1>2. R \cup Frames(e) = S /\ R \cap Frames(e) = {}
  OBVIOUS
<1>3. Cardinality(S) = Cardinality(R) + e.n - 0
  BY <1>1, <1>2, FS_Union, FS_EmptySet
<1>. QED  BY <1>1, <1>3, FS_CardinalityType DEF Extent

\* Setting the bits of an extent raises the count by the bits that were 0.
LEMMA GiveCount ==
    ASSUME NEW S, IsFiniteSet(S), NEW e \in Extent
    PROVE  Cardinality(S \cup Frames(e)) = Cardinality(S) + Cardinality(Frames(e) \ S)
<1>. DEFINE R == Frames(e) \ S
<1>1. IsFiniteSet(R)
  BY FS_Subset, ExtentFrames
<1>2. S \cup R = S \cup Frames(e) /\ S \cap R = {}
  OBVIOUS
<1>3. Cardinality(S \cup R) = Cardinality(S) + Cardinality(R) - 0
  BY <1>1, <1>2, FS_Union, FS_EmptySet
<1>4. Cardinality(S) \in Nat /\ Cardinality(R) \in Nat
  BY <1>1, FS_CardinalityType
<1>5. Cardinality(S \cup R) = Cardinality(S) + Cardinality(R)
  BY <1>3, <1>4
<1>. QED  BY <1>2, <1>5

\* A step that is no pm_init, pm_get or pm_free leaves the bitmap alone.
LEMMA OtherSteps ==
    ASSUME IInv, [Next]_vars
    PROVE  \/ PmInit
           \/ \E c \in Clients, n \in 1..MaxRequest : PmGet(c, n)
           \/ \E c \in Clients : PmFree(c)
           \/ UNCHANGED <<map, free, free_size, bitmap, leftover, held>> /\ (status' = "up" => status = "up")
  BY DEF Next, PmInitNoMap, PmInitNoRoom, PmGetHalt, vars, kmem

\* After pm_init, free_size is short of the free frames by the bits that were 1.
LEMMA InitCount ==
    ASSUME NEW S, IsFiniteSet(S), NEW ones, IsFiniteSet(ones),
           NEW e \in Extent, Frames(e) \subseteq S
    PROVE  Cardinality((S \cup ones) \ Frames(e))
              = (Cardinality(S \ ones) - e.n) + Cardinality(ones)
<1>. DEFINE R == S \ ones
<1>1. IsFiniteSet(R) /\ IsFiniteSet(S \cup ones)
  BY FS_Subset, FS_Union
<1>2. S \cup ones = R \cup ones /\ R \cap ones = {}
  OBVIOUS
<1>3. Cardinality(R \cup ones) = Cardinality(R) + Cardinality(ones) - 0
  BY <1>1, <1>2, FS_Union, FS_EmptySet
<1>4. Cardinality((S \cup ones) \ Frames(e)) = Cardinality(S \cup ones) - e.n
  BY <1>1, TakeCount
<1>5. Cardinality(R) \in Nat /\ Cardinality(ones) \in Nat /\ e.n \in Nat
  BY <1>1, FS_CardinalityType DEF Extent
<1>6. Cardinality(S \cup ones) = Cardinality(R) + Cardinality(ones)
  <2>1. Cardinality(R \cup ones) = Cardinality(R) + Cardinality(ones)
    BY <1>3, <1>5
  <2>. QED  BY <1>2, <2>1
<1>. HIDE DEF R
<1>7. Cardinality((S \cup ones) \ Frames(e))
         = (Cardinality(R) - e.n) + Cardinality(ones)
  BY <1>4, <1>5, <1>6
<1>. QED  BY <1>7 DEF R

\* A step of the allocator keeps the count exact.
LEMMA FreeSizeStep ==
    ASSUME IInv, FreeSizeExact, [Next]_vars
    PROVE  FreeSizeExact'
<1>. USE DEF FreeSizeExact
<1>1. CASE PmInit
  <2>1. map \in MemoryMaps /\ BitmapHomes(map) # {}
    BY <1>1 DEF IInv, TypeOK, PmInit
  <2>2. PICK ones \in SUBSET TailBits(map) :
          /\ leftover' = ones
          /\ free' = (PoolFrames(map) \cup ones) \ Frames(BitmapExtent(map))
          /\ free_size' = Cardinality(PoolFrames(map) \ ones) - BitmapFrames(map)
    BY <1>1 DEF PmInit, InitialSize
  <2>3. IsFiniteSet(ones) /\ IsFiniteSet(PoolFrames(map))
    BY <2>1, TailFinite, PoolFinite
  <2>4. BitmapExtent(map) \in Extent /\ Frames(BitmapExtent(map)) \subseteq PoolFrames(map)
    BY <2>1, BitmapInPool
  <2>5. BitmapExtent(map).n = BitmapFrames(map)
    BY DEF BitmapExtent
  <2>6. Cardinality((PoolFrames(map) \cup ones) \ Frames(BitmapExtent(map)))
           = free_size' + Cardinality(ones)
    BY <2>2, <2>3, <2>4, <2>5, InitCount
  <2>7. Cardinality(ones) \in Nat /\ free_size' \in Int
    BY <1>1, <2>3, PmInitIInv, FS_CardinalityType DEF IInv, TypeOK
  <2>. QED  BY <2>2, <2>6, <2>7
<1>2. ASSUME NEW c \in Clients, NEW n \in 1..MaxRequest, PmGet(c, n)
      PROVE  FreeSizeExact'
  <2>1. PICK b \in Fits(n, 0) :
          /\ Frames([base |-> b, n |-> n]) \subseteq free
          /\ free' = free \ Frames([base |-> b, n |-> n])
          /\ free_size' = free_size - n
    BY <1>2 DEF PmGet, pm_get, pm_allocate, IsFree
  <2>2. [base |-> b, n |-> n] \in Extent
    BY <2>1, SizesAssumption DEF Fits, IInv, TypeOK, Extent
  <2>3. IsFiniteSet(free)
    BY FreeFinite DEF IInv
  <2>4. Cardinality(free \ Frames([base |-> b, n |-> n])) = Cardinality(free) - n
    BY <2>1, <2>2, <2>3, TakeCount
  <2>5. leftover' = leftover
    BY <1>2 DEF PmGet
  <2>6. Cardinality(free) \in Nat /\ Cardinality(leftover) \in Nat
    BY <2>3, LeftoverFinite, FS_CardinalityType DEF IInv
  <2>. QED  BY <2>1, <2>4, <2>5, <2>6
<1>3. ASSUME NEW c \in Clients, PmFree(c)
      PROVE  FreeSizeExact'
  <2>1. held[c] \in Extent /\ IsFiniteSet(free)
    BY <1>3, FreeFinite DEF IInv, TypeOK, PmFree
  <2>2. /\ free' = free \cup Frames(held[c])
        /\ free_size' = free_size + Cardinality(Frames(held[c]) \ free)
    BY <1>3 DEF PmFree, pm_free
  <2>3. leftover' = leftover
    BY <1>3 DEF PmFree
  <2>4. IsFiniteSet(Frames(held[c]) \ free)
    BY <2>1, ExtentFrames, FS_Subset
  <2>5. /\ Cardinality(free) \in Nat /\ Cardinality(leftover) \in Nat
        /\ Cardinality(Frames(held[c]) \ free) \in Nat
    BY <2>1, <2>4, LeftoverFinite, FS_CardinalityType DEF IInv
  <2>6. Cardinality(free') = Cardinality(free) + Cardinality(Frames(held[c]) \ free)
    BY <2>1, <2>2, GiveCount
  <2>. QED  BY <2>2, <2>3, <2>5, <2>6
<1>. QED  BY <1>1, <1>2, <1>3, OtherSteps

\* kmem.free_size stays what pm_init made it less what is given out: below the free
\* frames by the bits the RAM showed as 1, after any sequence of calls.
THEOREM FreeSizeNeverDrifts == Spec => []FreeSizeExact
<1>1. Init => FreeSizeExact
  BY FS_EmptySet DEF Init, FreeSizeExact
<1>. QED  BY <1>1, FreeSizeStep, InitIInv, NextIInv, PTL DEF Spec

\* A step of the allocator neither loses frames nor makes them up.
LEMMA ConservationStep ==
    ASSUME IInv, Conservation, [Next]_vars
    PROVE  Conservation'
<1>1. CASE PmInit
  <2>1. map' = map /\ map \in MemoryMaps /\ BitmapHomes(map) # {}
    BY <1>1 DEF IInv, TypeOK, PmInit
  <2>2. free' = (PoolFrames(map) \cup leftover') \ Frames(BitmapExtent(map))
    BY <1>1 DEF PmInit
  <2>3. bitmap' = BitmapExtent(map) /\ BitmapExtent(map) # NONE
    BY <1>1, <2>1, BitmapInPool, NoneAssumption DEF PmInit
  <2>4. \A c \in Clients : held'[c] = NONE
    BY <1>1 DEF IInv, Unused, PmInit
  <2>5. AllHeld' = {}
    BY <2>4 DEF AllHeld, HeldFrames
  <2>6. BitmapUse' = Frames(BitmapExtent(map))
    BY <2>3 DEF BitmapUse
  <2>. QED  BY <2>1, <2>2, <2>5, <2>6, BitmapInPool DEF Conservation
<1>2. ASSUME NEW c \in Clients, NEW n \in 1..MaxRequest, PmGet(c, n)
      PROVE  Conservation'
  <2>1. PICK b \in Fits(n, 0) :
          /\ Frames([base |-> b, n |-> n]) \subseteq free
          /\ free' = free \ Frames([base |-> b, n |-> n])
          /\ held' = [held EXCEPT ![c] = [base |-> b, n |-> n]]
    BY <1>2 DEF PmGet, pm_get, pm_allocate, IsFree
  <2>2. [base |-> b, n |-> n] # NONE
    BY <2>1, SizesAssumption, NoneAssumption DEF Fits, IInv, TypeOK, Extent
  <2>3. status = "up" /\ map' = map /\ bitmap' = bitmap /\ leftover' = leftover /\ held[c] = NONE
    BY <1>2 DEF PmGet
  <2>4. HeldFrames(c)' = Frames([base |-> b, n |-> n]) /\ HeldFrames(c) = {}
    BY <2>1, <2>2, <2>3 DEF HeldFrames, IInv, TypeOK
  <2>5. \A d \in Clients \ {c} : HeldFrames(d)' = HeldFrames(d)
    BY <2>1 DEF HeldFrames, IInv, TypeOK
  <2>6. AllHeld' = AllHeld \cup Frames([base |-> b, n |-> n])
    BY <2>4, <2>5 DEF AllHeld
  <2>7. BitmapUse' = BitmapUse
    BY <2>3 DEF BitmapUse
  <2>. QED  BY <2>1, <2>3, <2>6, <2>7 DEF Conservation
<1>3. ASSUME NEW c \in Clients, PmFree(c)
      PROVE  Conservation'
  <2>1. held[c] \in Extent /\ held[c] # NONE
    BY <1>3, NoneAssumption DEF IInv, TypeOK, PmFree
  <2>2. /\ free' = free \cup Frames(held[c])
        /\ held' = [held EXCEPT ![c] = NONE]
    BY <1>3 DEF PmFree, pm_free
  <2>3. status = "up" /\ map' = map /\ bitmap' = bitmap /\ leftover' = leftover
    BY <1>3 DEF PmFree
  <2>4. HeldFrames(c)' = {} /\ HeldFrames(c) = Frames(held[c])
    BY <2>1, <2>2 DEF HeldFrames, IInv, TypeOK
  <2>5. \A d \in Clients \ {c} : HeldFrames(d)' = HeldFrames(d)
    BY <2>2 DEF HeldFrames, IInv, TypeOK
  <2>6. AllHeld = AllHeld' \cup Frames(held[c])
    BY <2>4, <2>5 DEF AllHeld
  <2>7. BitmapUse' = BitmapUse
    BY <2>3 DEF BitmapUse
  <2>. QED  BY <2>2, <2>3, <2>6, <2>7 DEF Conservation
<1>4. CASE UNCHANGED <<map, free, free_size, bitmap, leftover, held>> /\ (status' = "up" => status = "up")
  BY <1>4 DEF Conservation, AllHeld, HeldFrames, BitmapUse
<1>. QED  BY <1>1, <1>2, <1>3, <1>4, OtherSteps

\* The frames of the usable entries, and those the RAM behind the bitmap made
\* free, are what is free, held or in the bitmap: pm_get and pm_free neither lose
\* memory nor make it up.
THEOREM NothingLost == Spec => []Conservation
<1>1. Init => Conservation
  BY DEF Init, Conservation
<1>. QED  BY <1>1, ConservationStep, InitIInv, NextIInv, PTL DEF Spec

=============================================================================
