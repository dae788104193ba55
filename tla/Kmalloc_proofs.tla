---------------------------- MODULE Kmalloc_proofs ----------------------------
(***************************************************************************)
(* Proofs about the kernel heap, for every memory map, frame size, number  *)
(* of callers and sequence of kmalloc, krealloc, kfree and table frames.   *)
(***************************************************************************)
EXTENDS Kmalloc, PhysMem_proofs

\* The frames of a block are its header and NUM_PAGES of what was asked for.
BlocksSized == \A c \in Clients : Live(c) => held[c].n = NUM_PAGES(asked[c]) + 1

\* What pm_get gives lies in RAM, and so does the header behind every pointer.
InRam ==
    /\ physical_limit <= TOP
    /\ \A c \in Clients : HeldFrames(c) \subseteq Ram
    /\ \A c \in Clients : ptr[c] # NONE => ptr[c] - 1 \in Ram

KInv ==
    /\ IInv
    /\ KTypeOK
    /\ BlocksSized
    /\ InRam
    /\ HeadersTrue

(* ------------------------------------------------------------------------ *)
(* Units and frames                                                         *)

\* NUM_PAGES of what a caller may ask for, with the header, is a request of pm_get.
LEMMA PagesType ==
    ASSUME NEW size \in 0..MaxSize
    PROVE  NUM_PAGES(size) \in Nat /\ NUM_PAGES(size) + 1 \in 1..MaxRequest
<1>1. /\ size + UNITS - 1 \in Nat /\ MaxSize + UNITS - 1 \in Nat
      /\ size + UNITS - 1 <= MaxSize + UNITS - 1 /\ UNITS \in Nat \ {0}
  BY UnitsAssumption
<1>2. /\ NUM_PAGES(size) \in Nat /\ NUM_PAGES(MaxSize) \in Nat
      /\ NUM_PAGES(size) <= NUM_PAGES(MaxSize)
  BY <1>1, DivMod, DivMono DEF NUM_PAGES
<1>. QED  BY <1>2, UnitsAssumption, SizesAssumption

\* The unit u of a block is in one of its data frames, inside the frame.
LEMMA UnitPlace ==
    ASSUME NEW size \in 0..MaxSize, NEW u \in 1..size, NEW p \in Nat
    PROVE  /\ FrameOf(p, u) \in Touched(p, size)
           /\ FrameOf(p, u) \in Nat
           /\ OffsetOf(u) \in 0..UNITS-1
           /\ (FrameOf(p, u) - p) * UNITS + OffsetOf(u) + 1 = u
<1>. DEFINE q == (u - 1) \div UNITS
<1>1. UNITS \in Nat \ {0} /\ u - 1 \in Nat /\ size \in Nat /\ u <= size
  BY UnitsAssumption
<1>2. /\ q \in Nat /\ OffsetOf(u) \in 0..UNITS-1
      /\ u - 1 = UNITS * q + OffsetOf(u)
  BY <1>1, DivMod DEF OffsetOf
<1>3. q + 1 <= NUM_PAGES(size)
  <2>1. UNITS * (q + 1) = UNITS * q + UNITS /\ UNITS * q \in Nat
    BY <1>1, <1>2
  <2>2. (UNITS * (q + 1)) \div UNITS = q + 1
    BY <1>1, <1>2, <2>1, DivBetween
  <2>3. UNITS * (q + 1) <= size + UNITS - 1 /\ size + UNITS - 1 \in Nat
    BY <1>1, <1>2, <2>1
  <2>4. (UNITS * (q + 1)) \div UNITS <= (size + UNITS - 1) \div UNITS
    BY <1>1, <2>1, <2>3, DivMono, UNITS * (q + 1) \in Nat
  <2>. QED  BY <2>2, <2>4 DEF NUM_PAGES
<1>4. FrameOf(p, u) = p + q
  BY DEF FrameOf
<1>. HIDE DEF q
<1>5. NUM_PAGES(size) \in Nat
  BY PagesType
<1>6. (FrameOf(p, u) - p) * UNITS + OffsetOf(u) + 1 = u
  <2>1. FrameOf(p, u) - p = q
    BY <1>2, <1>4
  <2>2. q * UNITS = UNITS * q
    BY <1>1, <1>2
  <2>. QED  BY <1>1, <1>2, <2>1, <2>2
<1>7. p + q \in Touched(p, size) /\ p + q \in Nat
  BY <1>2, <1>3, <1>5 DEF Touched
<1>. QED  BY <1>2, <1>4, <1>6, <1>7

\* The data frames hold all units of the block.
LEMMA PagesCover ==
    ASSUME NEW size \in 0..MaxSize
    PROVE  size <= UNITS * NUM_PAGES(size)
<1>1. UNITS \in Nat \ {0} /\ size + UNITS - 1 \in Nat /\ size \in Nat
  BY UnitsAssumption
<1>2. /\ NUM_PAGES(size) \in Nat
      /\ (size + UNITS - 1) % UNITS \in 0..UNITS-1
      /\ size + UNITS - 1 = UNITS * NUM_PAGES(size) + ((size + UNITS - 1) % UNITS)
  BY <1>1, DivMod DEF NUM_PAGES
<1>3. UNITS * NUM_PAGES(size) \in Nat
  BY <1>1, <1>2
<1>. QED  BY <1>1, <1>2, <1>3

(* ------------------------------------------------------------------------ *)
(* Memory                                                                   *)

Memory == [Ram -> [0..UNITS-1 -> Values]]

\* The number of unit o of frame f, counted from frame p.
LEMMA UnitNumber ==
    ASSUME NEW p \in Nat, NEW f \in Nat, f >= p, NEW o \in 0..UNITS-1
    PROVE  (f - p) * UNITS + o + 1 \in Nat \ {0}
<1>1. f - p \in Nat /\ UNITS \in Nat
  BY UnitsAssumption
<1>2. (f - p) * UNITS \in Nat
  BY <1>1
<1>. QED  BY <1>1, <1>2

\* memset and memcpy of a block leave memory of the same shape.
LEMMA FilledType ==
    ASSUME NEW d \in Memory, NEW p \in Nat, NEW size \in 0..MaxSize,
           NEW val \in [1..size -> Values]
    PROVE  Filled(d, p, size, val) \in Memory
<1>1. ASSUME NEW f \in Ram, NEW o \in 0..UNITS-1
      PROVE  (LET u == (f - p) * UNITS + o + 1
              IN  IF f >= p /\ u <= size THEN val[u] ELSE d[f][o]) \in Values
  <2>. DEFINE u == (f - p) * UNITS + o + 1
  <2>1. d[f][o] \in Values
    BY DEF Memory
  <2>2. f >= p => u \in Nat \ {0}
    <3>1. f \in Nat
      BY SizesAssumption DEF Ram
    <3>. QED  BY <3>1, UnitNumber, Zenon
  <2>. HIDE DEF u
  <2>3. ASSUME f >= p, u <= size PROVE val[u] \in Values
    <3>1. u \in 1..size
      BY <2>2, <2>3, UnitsAssumption
    <3>. QED  BY <3>1
  <2>4. (IF f >= p /\ u <= size THEN val[u] ELSE d[f][o]) \in Values
    BY <2>1, <2>3
  <2>. QED  BY <2>4 DEF u
<1>. QED  BY <1>1 DEF Filled, Memory

\* They change no frame but those of the block.
LEMMA FilledElsewhere ==
    ASSUME NEW d \in Memory, NEW p \in Nat, NEW size \in 0..MaxSize, NEW val,
           NEW f \in Ram, f \notin Touched(p, size)
    PROVE  Filled(d, p, size, val)[f] = d[f]
<1>1. ASSUME NEW o \in 0..UNITS-1, f >= p
      PROVE  ~((f - p) * UNITS + o + 1 <= size)
  <2>1. NUM_PAGES(size) \in Nat /\ f \in Nat /\ size \in Nat /\ UNITS \in Nat
    BY PagesType, UnitsAssumption DEF Ram
  <2>2. NUM_PAGES(size) <= f - p /\ f - p \in Nat
    BY <1>1, <2>1 DEF Touched
  <2>3. UNITS * NUM_PAGES(size) <= UNITS * (f - p)
    BY <2>1, <2>2, TimesMono
  <2>4. UNITS * (f - p) = (f - p) * UNITS /\ (f - p) * UNITS \in Nat
        /\ UNITS * NUM_PAGES(size) \in Nat
    BY <2>1, <2>2
  <2>. QED  BY <2>1, <2>3, <2>4, PagesCover
<1>2. Filled(d, p, size, val)[f] = [o \in 0..UNITS-1 |-> d[f][o]]
  BY <1>1 DEF Filled
<1>. QED  BY <1>2 DEF Memory

\* They put the values where the caller reads them.
LEMMA FilledUnit ==
    ASSUME NEW d \in Memory, NEW p \in Nat, NEW size \in 0..MaxSize, NEW val,
           NEW u \in 1..size, FrameOf(p, u) \in Ram
    PROVE  Filled(d, p, size, val)[FrameOf(p, u)][OffsetOf(u)] = val[u]
<1>. DEFINE f == FrameOf(p, u)
            o == OffsetOf(u)
<1>1. f \in Touched(p, size) /\ f \in Nat /\ o \in 0..UNITS-1 /\ (f - p) * UNITS + o + 1 = u
  BY UnitPlace
<1>2. f >= p /\ u <= size
  BY <1>1, PagesType DEF Touched
<1>3. f \in Ram
  OBVIOUS
<1>. HIDE DEF f, o
<1>4. Filled(d, p, size, val)[f][o] = val[u]
  BY <1>1, <1>2, <1>3 DEF Filled
<1>. QED  BY <1>4 DEF f, o

\* Memory that is given back keeps its shape.
LEMMA ForgottenType ==
    ASSUME NEW d \in Memory, NEW frames
    PROVE  Forgotten(d, frames) \in Memory
  BY DEF Forgotten, Memory, Values

\* Headers of a kmalloc have their type.
LEMMA HeadersAfterType ==
    ASSUME NEW h \in [Ram -> Header], NEW b, NEW size \in 0..MaxSize
    PROVE  HeadersAfter(h, b, size) \in [Ram -> Header]
<1>1. NewHeader(size) \in Header /\ NOHDR \in Header
  BY PagesType DEF NewHeader, NOHDR, Header
<1>. QED  BY <1>1 DEF HeadersAfter

\* mem->magic = 0 changes nothing else.
LEMMA DisarmedHeader ==
    ASSUME NEW h \in [Ram -> Header], NEW p, p - 1 \in Ram
    PROVE  /\ Disarmed(h, p) \in [Ram -> Header]
           /\ Disarmed(h, p)[p - 1].magic = FALSE
           /\ \A f \in Ram \ {p - 1} : Disarmed(h, p)[f] = h[f]
  BY DEF Disarmed, Header

(* ------------------------------------------------------------------------ *)
(* Blocks                                                                   *)

\* Where pm_get(n) finds room: free frames, in RAM, the first of them at b.
LEMMA GetPlace ==
    ASSUME KInv, NEW n \in 1..MaxRequest, NEW b \in Fits(n, 0)
    PROVE  /\ b \in Nat /\ b \in Ram
           /\ [base |-> b, n |-> n] \in Extent /\ [base |-> b, n |-> n] # NONE
           /\ Frames([base |-> b, n |-> n]) = {b} \cup ((b + 1)..(b + n - 1))
           /\ Frames([base |-> b, n |-> n]) \subseteq free
           /\ Frames([base |-> b, n |-> n]) \subseteq Ram
<1>1. b \in Nat /\ b < physical_limit /\ n \in Nat \ {0} /\ n <= MaxRequest /\ physical_limit <= TOP
      /\ physical_limit \in Nat
  BY SizesAssumption DEF Fits, KInv, IInv, TypeOK, InRam
<1>2. [base |-> b, n |-> n] \in Extent /\ [base |-> b, n |-> n] # NONE
  BY <1>1, NoneAssumption DEF Extent
<1>3. Frames([base |-> b, n |-> n]) = b..(b + n - 1)
  BY DEF Frames
<1>4. b..(b + n - 1) = {b} \cup ((b + 1)..(b + n - 1))
  BY <1>1
<1>5. b..(b + n - 1) \subseteq Ram /\ b \in Ram
  BY <1>1, SizesAssumption DEF Ram
<1>6. Frames([base |-> b, n |-> n]) \subseteq free
  BY DEF Fits, IsFree
<1>. QED  BY <1>1, <1>2, <1>3, <1>4, <1>5, <1>6

\* The same for kmalloc: the header frame, then the data frames.
LEMMA BlockPlace ==
    ASSUME KInv, NEW size \in 0..MaxSize, NEW b \in Fits(NUM_PAGES(size) + 1, 0)
    PROVE  /\ b \in Nat /\ b \in Ram /\ b + 1 \in Nat
           /\ NUM_PAGES(size) + 1 \in 1..MaxRequest
           /\ [base |-> b, n |-> NUM_PAGES(size) + 1] \in Extent
           /\ [base |-> b, n |-> NUM_PAGES(size) + 1] # NONE
           /\ Frames([base |-> b, n |-> NUM_PAGES(size) + 1])
                 = {b} \cup Touched(b + 1, size)
           /\ Frames([base |-> b, n |-> NUM_PAGES(size) + 1]) \subseteq free
           /\ Frames([base |-> b, n |-> NUM_PAGES(size) + 1]) \subseteq Ram
           /\ b \notin Touched(b + 1, size)
<1>. DEFINE n == NUM_PAGES(size) + 1
<1>1. n \in 1..MaxRequest /\ NUM_PAGES(size) \in Nat
  BY PagesType
<1>2. /\ b \in Nat /\ b \in Ram
      /\ [base |-> b, n |-> n] \in Extent /\ [base |-> b, n |-> n] # NONE
      /\ Frames([base |-> b, n |-> n]) = {b} \cup ((b + 1)..(b + n - 1))
      /\ Frames([base |-> b, n |-> n]) \subseteq free
      /\ Frames([base |-> b, n |-> n]) \subseteq Ram
  BY <1>1, GetPlace
<1>3. b + n - 1 = (b + 1) + NUM_PAGES(size) - 1
  BY <1>1, <1>2
<1>4. Touched(b + 1, size) = (b + 1)..(b + n - 1) /\ b \notin Touched(b + 1, size)
  BY <1>1, <1>2, <1>3 DEF Touched
<1>. QED  BY <1>1, <1>2, <1>4

\* A block in use: what its header says is what pm_get gave.
LEMMA LiveBlock ==
    ASSUME KInv, NEW c \in Clients, Live(c)
    PROVE  /\ held[c] \in Extent /\ held[c].base \in Ram /\ held[c].base \in HeldFrames(c)
           /\ asked[c] \in 0..MaxSize
           /\ ptr[c] = held[c].base + 1 /\ ptr[c] \in Nat /\ ptr[c] - 1 = held[c].base
           /\ HeldFrames(c) = Frames(held[c])
           /\ HeldFrames(c) = {held[c].base} \cup Touched(ptr[c], asked[c])
           /\ held[c].base \notin Touched(ptr[c], asked[c])
           /\ HeldFrames(c) \subseteq Ram
           /\ hdr[ptr[c] - 1] = NewHeader(asked[c])
           /\ FreedBy(ptr[c]) = HeldFrames(c)
<1>. DEFINE b == held[c].base
            n == held[c].n
<1>1. held[c] \in Extent /\ b \in Nat /\ n \in Nat /\ asked[c] \in 0..MaxSize
  <2>1. held[c] \in Extent /\ asked[c] \in 0..MaxSize
    BY DEF KInv, KTypeOK, TypeOK, Live
  <2>. QED  BY <2>1 DEF Extent
<1>2. ptr[c] = b + 1 /\ hdr[b] = [magic |-> TRUE, num_pages |-> n - 1, size |-> asked[c]]
  BY DEF KInv, HeadersTrue
<1>3. n = NUM_PAGES(asked[c]) + 1 /\ NUM_PAGES(asked[c]) \in Nat
  BY <1>1, PagesType DEF KInv, BlocksSized
<1>4. HeldFrames(c) = Frames(held[c]) /\ Frames(held[c]) = b..(b + n - 1)
  BY DEF HeldFrames, Live, Frames
<1>5. HeldFrames(c) \subseteq Ram
  BY DEF KInv, InRam
<1>. HIDE DEF b, n
<1>6. ptr[c] - 1 = b /\ ptr[c] \in Nat
  BY <1>1, <1>2
<1>7. b..(b + n - 1) = {b} \cup Touched(b + 1, asked[c]) /\ b \notin Touched(b + 1, asked[c])
  BY <1>1, <1>3 DEF Touched
<1>8. b \in HeldFrames(c) /\ b \in Ram
  BY <1>4, <1>5, <1>7
<1>9. hdr[b] = NewHeader(asked[c])
  <2>1. n - 1 = NUM_PAGES(asked[c])
    BY <1>1, <1>3
  <2>. QED  BY <1>2, <2>1, Zenon DEF NewHeader
<1>10. FreedBy(ptr[c]) = HeldFrames(c)
  <2>1. hdr[b].magic = TRUE /\ hdr[b].num_pages = n - 1 /\ b + (n - 1) = b + n - 1
    BY <1>1, <1>2
  <2>. QED  BY <1>4, <1>6, <2>1 DEF FreedBy
<1>. QED  BY <1>1, <1>2, <1>4, <1>5, <1>6, <1>7, <1>8, <1>9, <1>10 DEF b

\* Frames of a block are neither free nor another caller's.
LEMMA Apart ==
    ASSUME KInv, NEW c \in Clients
    PROVE  /\ HeldFrames(c) \cap free = {}
           /\ \A d \in Clients \ {c} : HeldFrames(c) \cap HeldFrames(d) = {}
  BY DEF KInv, IInv, NoSharing

\* Steps of caller c leave what the others hold alone.
Others(c) ==
    \A d \in Clients \ {c} : held'[d] = held[d] /\ ptr'[d] = ptr[d] /\ asked'[d] = asked[d]

\* The headers stay true if the step arms the header of c's block only, disarms that
\* of c's old block only, and leaves the headers of the others alone.
LEMMA HeadersStep ==
    ASSUME KInv, NEW c \in Clients, Others(c),
           \A d \in Clients \ {c} : Live(d) => hdr'[held[d].base] = hdr[held[d].base],
           Live(c)' => /\ ptr'[c] = held'[c].base + 1
                       /\ hdr'[held'[c].base] =
                            [magic |-> TRUE, num_pages |-> held'[c].n - 1, size |-> asked'[c]],
           \A f \in Ram : hdr'[f].magic =>
              \/ hdr[f].magic /\ ~(Live(c) /\ held[c].base = f)
              \/ Live(c)' /\ held'[c].base = f
    PROVE  HeadersTrue'
<1>1. \A d \in Clients \ {c} : Live(d)' <=> Live(d)
  BY DEF Others, Live
<1>2. \A d \in Clients : Live(d) =>
         /\ ptr[d] = held[d].base + 1
         /\ hdr[held[d].base] = [magic |-> TRUE, num_pages |-> held[d].n - 1, size |-> asked[d]]
  BY DEF KInv, HeadersTrue
<1>3. ASSUME NEW d \in Clients, Live(d)'
      PROVE  /\ ptr'[d] = held'[d].base + 1
             /\ hdr'[held'[d].base] =
                  [magic |-> TRUE, num_pages |-> held'[d].n - 1, size |-> asked'[d]]
  <2>1. CASE d = c
    BY <1>3, <2>1
  <2>2. CASE d # c
    <3>1. Live(d) /\ held'[d] = held[d] /\ ptr'[d] = ptr[d] /\ asked'[d] = asked[d]
      BY <1>1, <1>3, <2>2 DEF Others
    <3>. QED  BY <1>2, <2>2, <3>1
  <2>. QED  BY <2>1, <2>2
<1>4. ASSUME NEW f \in Ram, hdr'[f].magic
      PROVE  \E d \in Clients : Live(d)' /\ held'[d].base = f
  <2>1. CASE Live(c)' /\ held'[c].base = f
    BY <2>1
  <2>2. CASE hdr[f].magic /\ ~(Live(c) /\ held[c].base = f)
    <3>1. PICK d \in Clients : Live(d) /\ held[d].base = f
      BY <2>2 DEF KInv, HeadersTrue
    <3>2. d # c
      BY <2>2, <3>1
    <3>. QED  BY <1>1, <3>1, <3>2 DEF Others
  <2>. QED  BY <1>4, <2>1, <2>2
<1>. QED  BY <1>3, <1>4 DEF HeadersTrue

\* Sizes and places of the other callers' blocks go with what they hold.
LEMMA BlocksStep ==
    ASSUME KInv, NEW c \in Clients, Others(c), physical_limit' = physical_limit,
           Live(c)' => held'[c].n = NUM_PAGES(asked'[c]) + 1,
           HeldFrames(c)' \subseteq Ram,
           ptr'[c] # NONE => ptr'[c] - 1 \in Ram
    PROVE  BlocksSized' /\ InRam'
<1>1. \A d \in Clients \ {c} : HeldFrames(d)' = HeldFrames(d) /\ (Live(d)' <=> Live(d))
  BY DEF Others, HeldFrames, Live
<1>2. BlocksSized'
  BY <1>1 DEF KInv, BlocksSized, Others
<1>3. InRam'
  BY <1>1 DEF KInv, InRam, Others
<1>. QED  BY <1>2, <1>3

\* kmalloc: the block is made of free frames, whose headers are erased but one.
LEMMA KmallocKInv ==
    ASSUME KInv, NEW c \in Clients, NEW size \in 0..MaxSize, Kmalloc(c, size)
    PROVE  KInv'
<1>. DEFINE n == NUM_PAGES(size) + 1
            x(b) == [base |-> b, n |-> n]
<1>1. n \in 1..MaxRequest /\ NUM_PAGES(size) \in Nat
  BY PagesType
<1>2. PmGet(c, n)
  BY DEF Kmalloc
<1>3. IInv'
  BY <1>1, <1>2, PmGetIInv DEF KInv
<1>4. PICK b \in Fits(n, 0) : held' = [held EXCEPT ![c] = x(b)]
  BY <1>2 DEF PmGet
<1>5. /\ b \in Nat /\ b \in Ram /\ b + 1 \in Nat
      /\ x(b) # NONE
      /\ Frames(x(b)) = {b} \cup Touched(b + 1, size)
      /\ Frames(x(b)) \subseteq free /\ Frames(x(b)) \subseteq Ram
      /\ b \notin Touched(b + 1, size)
  BY <1>4, BlockPlace
<1>6. held'[c] = x(b) /\ held'[c].base = b /\ held'[c].n = n
  BY <1>4 DEF KInv, IInv, TypeOK
<1>7. /\ hdr' = HeadersAfter(hdr, b, size)
      /\ data' = Filled(data, b + 1, size, Zeroes(size))
      /\ ptr' = [ptr EXCEPT ![c] = b + 1]
      /\ asked' = [asked EXCEPT ![c] = size]
      /\ physical_limit' = physical_limit
  BY <1>6 DEF Kmalloc, PmGet
<1>8. KTypeOK'
  <2>1. hdr' \in [Ram -> Header]
    BY <1>7, HeadersAfterType DEF KInv, KTypeOK
  <2>2. Zeroes(size) \in [1..size -> Values] /\ data \in Memory
    BY DEF Zeroes, Values, Memory, KInv, KTypeOK
  <2>3. data' \in Memory
    BY <1>5, <1>7, <2>2, FilledType
  <2>4. ptr' \in [Clients -> Nat \cup {NONE}] /\ asked' \in [Clients -> 0..MaxSize]
    BY <1>5, <1>7 DEF KInv, KTypeOK
  <2>. QED  BY <1>3, <2>1, <2>3, <2>4 DEF KTypeOK, IInv, Memory
<1>9. Others(c) /\ ptr'[c] = b + 1 /\ asked'[c] = size
  BY <1>4, <1>7 DEF Others, KInv, KTypeOK, IInv, TypeOK
<1>10. BlocksSized' /\ InRam'
  <2>1. HeldFrames(c)' = Frames(x(b))
    BY <1>5, <1>6 DEF HeldFrames
  <2>2. ptr'[c] - 1 = b
    BY <1>5, <1>9
  <2>. QED  BY <1>5, <1>6, <1>7, <1>9, <2>1, <2>2, BlocksStep
<1>11. HeadersTrue'
  <2>1. \A f \in Ram : hdr'[f] = IF f = b THEN NewHeader(size)
                                 ELSE IF f \in Touched(b + 1, size) THEN NOHDR ELSE hdr[f]
    BY <1>7 DEF HeadersAfter
  <2>2. \A d \in Clients \ {c} : Live(d) => hdr'[held[d].base] = hdr[held[d].base]
    <3>1. ASSUME NEW d \in Clients, Live(d)
          PROVE  held[d].base \in Ram /\ held[d].base \notin Frames(x(b))
      BY <1>5, <3>1, LiveBlock, Apart
    <3>. QED  BY <1>5, <2>1, <3>1
  <2>3. ptr'[c] = held'[c].base + 1
        /\ hdr'[held'[c].base] =
             [magic |-> TRUE, num_pages |-> held'[c].n - 1, size |-> asked'[c]]
    <3>1. n - 1 = NUM_PAGES(size)
      BY <1>1
    <3>. QED  BY <1>5, <1>6, <1>9, <2>1, <3>1, Zenon DEF NewHeader
  <2>4. \A f \in Ram : hdr'[f].magic =>
           \/ hdr[f].magic /\ ~(Live(c) /\ held[c].base = f)
           \/ Live(c)' /\ held'[c].base = f
    <3>1. held[c] = NONE
      BY <1>2 DEF PmGet
    <3>2. Live(c)'
      BY <1>5, <1>6, <1>9, UnitsAssumption DEF Live
    <3>3. NOHDR.magic = FALSE
      BY DEF NOHDR
    <3>. QED  BY <1>6, <2>1, <3>1, <3>2, <3>3 DEF Live
  <2>. QED  BY <1>9, <2>2, <2>3, <2>4, HeadersStep
<1>. QED  BY <1>3, <1>8, <1>10, <1>11 DEF KInv

\* Frames for a page table: what headers they held is erased.
LEMMA TableGetKInv ==
    ASSUME KInv, NEW c \in Clients, NEW n \in 1..MaxRequest, TableGet(c, n)
    PROVE  KInv'
<1>. DEFINE x(b) == [base |-> b, n |-> n]
<1>1. PmGet(c, n) /\ ptr[c] = NONE /\ ptr' = ptr /\ asked' = asked
  BY DEF TableGet
<1>2. IInv'
  BY <1>1, PmGetIInv DEF KInv
<1>3. PICK b \in Fits(n, 0) : held' = [held EXCEPT ![c] = x(b)]
  BY <1>1 DEF PmGet
<1>4. x(b) # NONE /\ Frames(x(b)) \subseteq free /\ Frames(x(b)) \subseteq Ram
  BY GetPlace
<1>5. held'[c] = x(b)
  BY <1>3 DEF KInv, IInv, TypeOK
<1>6. /\ data' = [f \in Ram |-> IF f \in Frames(x(b)) THEN [o \in 0..UNITS-1 |-> 0] ELSE data[f]]
      /\ hdr' = [f \in Ram |-> IF f \in Frames(x(b)) THEN NOHDR ELSE hdr[f]]
      /\ physical_limit' = physical_limit
  BY <1>5 DEF TableGet, PmGet
<1>7. KTypeOK'
  <2>1. NOHDR \in Header
    BY DEF NOHDR, Header
  <2>2. hdr' \in [Ram -> Header]
    BY <1>6, <2>1 DEF KInv, KTypeOK
  <2>3. data' \in [Ram -> [0..UNITS-1 -> Values]]
    BY <1>6 DEF KInv, KTypeOK, Values
  <2>. QED  BY <1>1, <1>2, <2>2, <2>3 DEF KInv, KTypeOK, IInv
<1>8. Others(c)
  BY <1>1, <1>3 DEF Others, KInv, IInv, TypeOK
<1>9. BlocksSized' /\ InRam'
  <2>1. HeldFrames(c)' = Frames(x(b)) /\ ~Live(c)'
    BY <1>1, <1>4, <1>5 DEF HeldFrames, Live
  <2>. QED  BY <1>1, <1>4, <1>6, <1>8, <2>1, BlocksStep
<1>10. HeadersTrue'
  <2>1. \A d \in Clients \ {c} : Live(d) => hdr'[held[d].base] = hdr[held[d].base]
    <3>1. ASSUME NEW d \in Clients, Live(d)
          PROVE  held[d].base \in Ram /\ held[d].base \notin Frames(x(b))
      BY <1>4, <3>1, LiveBlock, Apart
    <3>. QED  BY <1>6, <3>1
  <2>2. \A f \in Ram : hdr'[f].magic => hdr[f].magic
    BY <1>6 DEF NOHDR
  <2>3. ~Live(c) /\ ~Live(c)'
    BY <1>1 DEF Live
  <2>. QED  BY <1>8, <2>1, <2>2, <2>3, HeadersStep
<1>. QED  BY <1>2, <1>7, <1>9, <1>10 DEF KInv

\* kfree of a block in use is pm_free of exactly its frames.
LEMMA KfreeIsPmFree ==
    ASSUME KInv, NEW c \in Clients, Kfree(c)
    PROVE  /\ PmFree(c)
           /\ hdr' = Disarmed(hdr, ptr[c])
           /\ data' = Forgotten(data, HeldFrames(c))
  BY LiveBlock DEF Kfree, kfree, PmFree, pm_free, Live

\* kfree disarms the header of the block and no other.
LEMMA KfreeKInv == ASSUME KInv, NEW c \in Clients, Kfree(c) PROVE KInv'
<1>1. PmFree(c) /\ hdr' = Disarmed(hdr, ptr[c]) /\ data' = Forgotten(data, HeldFrames(c))
  BY KfreeIsPmFree
<1>2. Live(c) /\ ptr' = ptr /\ asked' = [asked EXCEPT ![c] = 0] /\ physical_limit' = physical_limit
      /\ held' = [held EXCEPT ![c] = NONE]
  BY DEF Kfree
<1>3. IInv'
  BY <1>1, PmFreeIInv DEF KInv
<1>4. /\ hdr' \in [Ram -> Header]
      /\ hdr'[held[c].base].magic = FALSE
      /\ \A f \in Ram \ {held[c].base} : hdr'[f] = hdr[f]
  <2>1. ptr[c] - 1 = held[c].base /\ held[c].base \in Ram /\ hdr \in [Ram -> Header]
    BY <1>2, LiveBlock DEF KInv, KTypeOK
  <2>2. /\ Disarmed(hdr, ptr[c]) \in [Ram -> Header]
        /\ Disarmed(hdr, ptr[c])[ptr[c] - 1].magic = FALSE
        /\ \A f \in Ram \ {ptr[c] - 1} : Disarmed(hdr, ptr[c])[f] = hdr[f]
    BY <2>1, DisarmedHeader, ptr[c] - 1 \in Ram
  <2>. QED  BY <1>1, <2>1, <2>2
<1>5. KTypeOK'
  <2>1. data' \in Memory
    BY <1>1, ForgottenType DEF KInv, KTypeOK, Memory
  <2>2. asked' \in [Clients -> 0..MaxSize]
    BY <1>2, UnitsAssumption DEF KInv, KTypeOK
  <2>. QED  BY <1>2, <1>3, <1>4, <2>1, <2>2 DEF KInv, KTypeOK, IInv, Memory
<1>6. Others(c) /\ held'[c] = NONE
  BY <1>2 DEF Others, KInv, KTypeOK, IInv, TypeOK
<1>7. ~Live(c)' /\ HeldFrames(c)' = {}
  BY <1>6 DEF Live, HeldFrames
<1>8. BlocksSized' /\ InRam'
  BY <1>2, <1>6, <1>7, BlocksStep DEF KInv, InRam
<1>9. HeadersTrue'
  <2>1. \A d \in Clients \ {c} : Live(d) => hdr'[held[d].base] = hdr[held[d].base]
    <3>1. ASSUME NEW d \in Clients \ {c}, Live(d)
          PROVE  held[d].base \in Ram \ {held[c].base}
      BY <1>2, <3>1, LiveBlock, Apart
    <3>. QED  BY <1>4, <3>1
  <2>2. \A f \in Ram : hdr'[f].magic => hdr[f].magic /\ held[c].base # f
    BY <1>4
  <2>. QED  BY <1>6, <1>7, <2>1, <2>2, HeadersStep
<1>. QED  BY <1>3, <1>5, <1>8, <1>9 DEF KInv

\* The frames of a page table held no header that is armed.
LEMMA TableFreeKInv == ASSUME KInv, NEW c \in Clients, TableFree(c) PROVE KInv'
<1>1. /\ PmFree(c) /\ ptr[c] = NONE /\ ptr' = ptr /\ asked' = asked /\ hdr' = hdr
      /\ held' = [held EXCEPT ![c] = NONE] /\ physical_limit' = physical_limit
      /\ data' = Forgotten(data, HeldFrames(c))
  BY DEF TableFree, PmFree
<1>2. IInv'
  BY <1>1, PmFreeIInv DEF KInv
<1>3. KTypeOK'
  <2>1. data' \in Memory
    BY <1>1, ForgottenType DEF KInv, KTypeOK, Memory
  <2>. QED  BY <1>1, <1>2, <2>1 DEF KInv, KTypeOK, IInv, Memory
<1>4. Others(c) /\ held'[c] = NONE
  BY <1>1 DEF Others, KInv, IInv, TypeOK
<1>5. ~Live(c)' /\ ~Live(c) /\ HeldFrames(c)' = {}
  BY <1>1, <1>4 DEF Live, HeldFrames
<1>6. BlocksSized' /\ InRam'
  BY <1>1, <1>4, <1>5, BlocksStep
<1>7. HeadersTrue'
  BY <1>1, <1>4, <1>5, HeadersStep
<1>. QED  BY <1>2, <1>3, <1>6, <1>7 DEF KInv

\* Where no caller has a block, kfree finds no magic number and changes nothing.
LEMMA KfreeOfNobody ==
    ASSUME KInv, NEW c \in Clients, KfreeAgain(c), OwnersOf(ptr[c]) = {}
    PROVE  UNCHANGED kvars
<1>1. ptr[c] # NONE /\ kfree(ptr[c])
      /\ UNCHANGED <<status, map, physical_limit, bitmap, leftover, ptr>>
  BY DEF KfreeAgain
<1>2. held' = held /\ asked' = asked
  BY DEF KfreeAgain, KInv, KTypeOK, IInv, TypeOK
<1>3. ptr[c] \in Nat /\ ptr[c] - 1 \in Ram /\ hdr[ptr[c] - 1] \in Header
  BY <1>1 DEF KInv, KTypeOK, InRam
<1>4. hdr[ptr[c] - 1].magic = FALSE
  <2>1. SUFFICES ASSUME hdr[ptr[c] - 1].magic PROVE FALSE
    BY <1>3 DEF Header
  <2>2. PICK d \in Clients : Live(d) /\ held[d].base = ptr[c] - 1
    BY <1>3, <2>1 DEF KInv, HeadersTrue
  <2>3. ptr[d] - 1 = ptr[c] - 1 /\ ptr[d] \in Nat
    BY <2>2, LiveBlock
  <2>4. ptr[d] = ptr[c]
    BY <1>3, <2>3
  <2>. QED  BY <2>2, <2>4 DEF OwnersOf
<1>5. FreedBy(ptr[c]) = {}
  BY <1>4 DEF FreedBy
<1>6. free' = free /\ free_size' = free_size
  <2>1. free' = free \cup {} /\ free_size' = free_size + Cardinality({} \ free)
    BY <1>1, <1>5 DEF kfree
  <2>2. {} \ free = {} /\ free_size \in Int
    BY DEF KInv, IInv, TypeOK
  <2>. QED  BY <2>1, <2>2, FS_EmptySet
<1>7. hdr' = hdr
  <2>1. hdr' = [hdr EXCEPT ![ptr[c] - 1].magic = FALSE] /\ hdr \in [Ram -> Header]
    BY <1>1 DEF kfree, Disarmed, KInv, KTypeOK
  <2>2. [hdr[ptr[c] - 1] EXCEPT !.magic = FALSE] = hdr[ptr[c] - 1]
    BY <1>3, <1>4 DEF Header
  <2>3. hdr' = [f \in Ram |-> IF f = ptr[c] - 1 THEN [hdr[ptr[c] - 1] EXCEPT !.magic = FALSE]
                                                ELSE hdr[f]]
    BY <2>1
  <2>4. \A f \in Ram : hdr'[f] = hdr[f]
    BY <2>2, <2>3
  <2>. QED  BY <2>1, <2>3, <2>4
<1>8. data' = data
  <2>1. data' = Forgotten(data, {})
    BY <1>1, <1>5 DEF kfree
  <2>2. Forgotten(data, {}) = data
    BY DEF Forgotten, KInv, KTypeOK
  <2>. QED  BY <2>1, <2>2
<1>. QED  BY <1>1, <1>2, <1>6, <1>7, <1>8 DEF kvars, vars, kmem, heap

\* No two callers have a block at the same frame.
LEMMA OneOwner ==
    ASSUME KInv, NEW p, NEW d \in OwnersOf(p)
    PROVE  OwnersOf(p) = {d}
<1>1. ASSUME NEW e \in Clients \ {d}, Live(e), ptr[e] = p
      PROVE  FALSE
  <2>1. /\ Live(d) /\ d \in Clients /\ ptr[d] = ptr[e]
    BY <1>1 DEF OwnersOf
  <2>2. ptr[d] - 1 = held[d].base /\ ptr[e] - 1 = held[e].base
    BY <1>1, <2>1, LiveBlock
  <2>3. held[d].base \in HeldFrames(d) /\ held[e].base \in HeldFrames(e)
    BY <1>1, <2>1, LiveBlock
  <2>4. HeldFrames(d) \cap HeldFrames(e) = {}
    BY <1>1, <2>1, Apart
  <2>. QED  BY <2>1, <2>2, <2>3, <2>4
<1>. QED  BY <1>1 DEF OwnersOf

\* A kfree through a stale pointer is the kfree of the block that is there now, or
\* nothing at all.
LEMMA KfreeAgainIsKfree ==
    ASSUME KInv, NEW c \in Clients, KfreeAgain(c)
    PROVE  UNCHANGED kvars \/ \E d \in Clients : Kfree(d)
<1>1. CASE OwnersOf(ptr[c]) = {}
  BY <1>1, KfreeOfNobody
<1>2. ASSUME NEW d \in OwnersOf(ptr[c])
      PROVE  Kfree(d)
  <2>1. OwnersOf(ptr[c]) = {d}
    BY OneOwner
  <2>2. d \in Clients /\ Live(d) /\ ptr[d] = ptr[c]
    BY DEF OwnersOf
  <2>3. /\ held' = [e \in Clients |-> IF e = d THEN NONE ELSE held[e]]
        /\ asked' = [e \in Clients |-> IF e = d THEN 0 ELSE asked[e]]
    BY <2>1 DEF KfreeAgain
  <2>4. held' = [held EXCEPT ![d] = NONE] /\ asked' = [asked EXCEPT ![d] = 0]
    BY <2>3 DEF KInv, KTypeOK, IInv, TypeOK
  <2>. QED  BY <2>2, <2>4 DEF KfreeAgain, Kfree
<1>. QED  BY <1>1, <1>2 DEF OwnersOf

\* krealloc in place rewrites the header of the block, with as many pages.
LEMMA KreallocInPlaceKInv ==
    ASSUME KInv, NEW c \in Clients, NEW size \in 0..MaxSize, KreallocInPlace(c, size)
    PROVE  KInv'
<1>1. /\ Live(c) /\ NUM_PAGES(hdr[ptr[c] - 1].size) = NUM_PAGES(size)
      /\ hdr' = [hdr EXCEPT ![ptr[c] - 1] = NewHeader(size)]
      /\ asked' = [asked EXCEPT ![c] = size]
      /\ UNCHANGED <<vars, data, ptr>>
  BY DEF KreallocInPlace
<1>2. /\ ptr[c] - 1 = held[c].base /\ held[c].base \in Ram /\ ptr[c] = held[c].base + 1
      /\ hdr[ptr[c] - 1] = NewHeader(asked[c])
      /\ held[c].n = NUM_PAGES(asked[c]) + 1 /\ NUM_PAGES(size) \in Nat
  BY <1>1, LiveBlock, PagesType DEF KInv, BlocksSized
<1>3. held[c].n = NUM_PAGES(size) + 1 /\ held[c].n - 1 = NUM_PAGES(size)
  BY <1>1, <1>2 DEF NewHeader
<1>4. UNCHANGED vars
  BY <1>1
<1>5. IInv'
  BY <1>4, StopIInv DEF KInv
<1>6. /\ held' = held /\ physical_limit' = physical_limit
      /\ asked'[c] = size /\ ptr' = ptr /\ data' = data
      /\ hdr' = [hdr EXCEPT ![held[c].base] = NewHeader(size)]
  BY <1>1, <1>2 DEF vars, kmem, KInv, KTypeOK
<1>7. KTypeOK'
  <2>1. NewHeader(size) \in Header
    BY <1>2, UnitsAssumption DEF NewHeader, Header
  <2>2. hdr' \in [Ram -> Header] /\ asked' \in [Clients -> 0..MaxSize]
    BY <1>1, <1>6, <2>1 DEF KInv, KTypeOK
  <2>. QED  BY <1>5, <1>6, <2>2 DEF KInv, KTypeOK, IInv
<1>8. Others(c)
  BY <1>1, <1>6 DEF Others, KInv, KTypeOK
<1>9. BlocksSized' /\ InRam'
  <2>1. HeldFrames(c)' = HeldFrames(c)
    BY <1>6 DEF HeldFrames
  <2>. QED  BY <1>3, <1>6, <1>8, <2>1, BlocksStep DEF KInv, InRam
<1>10. HeadersTrue'
  <2>1. \A d \in Clients \ {c} : Live(d) => hdr'[held[d].base] = hdr[held[d].base]
    <3>1. ASSUME NEW d \in Clients \ {c}, Live(d)
          PROVE  held[d].base \in Ram \ {held[c].base}
      BY <1>1, <3>1, LiveBlock, Apart
    <3>. QED  BY <1>6, <3>1 DEF KInv, KTypeOK
  <2>2. hdr'[held'[c].base] =
           [magic |-> TRUE, num_pages |-> held'[c].n - 1, size |-> asked'[c]]
    <3>1. hdr'[held'[c].base] = NewHeader(size)
      BY <1>2, <1>6 DEF KInv, KTypeOK
    <3>. QED  BY <1>3, <1>6, <3>1, Zenon DEF NewHeader
  <2>3. \A f \in Ram : hdr'[f].magic =>
           \/ hdr[f].magic /\ ~(Live(c) /\ held[c].base = f)
           \/ Live(c)' /\ held'[c].base = f
    <3>1. Live(c)'
      BY <1>1, <1>6 DEF Live
    <3>2. \A f \in Ram \ {held[c].base} : hdr'[f] = hdr[f]
      BY <1>6 DEF KInv, KTypeOK
    <3>. QED  BY <1>6, <3>1, <3>2
  <2>. QED  BY <1>2, <1>6, <1>8, <2>1, <2>2, <2>3, HeadersStep
<1>. QED  BY <1>5, <1>7, <1>9, <1>10 DEF KInv

\* A store within the size asked for hits a data frame of the block.
LEMMA StorePlace ==
    ASSUME KInv, NEW c \in Clients, Live(c), NEW u \in 1..asked[c]
    PROVE  /\ FrameOf(ptr[c], u) \in HeldFrames(c) \ {held[c].base}
           /\ FrameOf(ptr[c], u) \in Ram
           /\ OffsetOf(u) \in 0..UNITS-1
  BY LiveBlock, UnitPlace

\* It leaves the headers of all blocks alone.
LEMMA StoreKInv ==
    ASSUME KInv, NEW c \in Clients, NEW u \in 1..MaxSize, NEW v \in Stored, Store(c, u, v)
    PROVE  KInv'
<1>. DEFINE f == FrameOf(ptr[c], u)
            o == OffsetOf(u)
<1>1. /\ Live(c) /\ u <= asked[c]
      /\ data' = [data EXCEPT ![f][o] = v]
      /\ hdr' = [hdr EXCEPT ![f] = NOHDR]
      /\ UNCHANGED <<vars, ptr, asked>>
  BY DEF Store
<1>2. u \in 1..asked[c]
  <2>1. asked[c] \in 0..MaxSize
    BY DEF KInv, KTypeOK
  <2>. QED  BY <1>1, <2>1, UnitsAssumption
<1>3. f \in HeldFrames(c) \ {held[c].base} /\ f \in Ram /\ o \in 0..UNITS-1
  BY <1>1, <1>2, StorePlace
<1>. HIDE DEF f, o
<1>4. UNCHANGED vars
  BY <1>1
<1>5. IInv'
  BY <1>4, StopIInv DEF KInv
<1>6. held' = held /\ physical_limit' = physical_limit /\ ptr' = ptr /\ asked' = asked
  BY <1>1 DEF vars, kmem
<1>7. KTypeOK'
  <2>1. NOHDR \in Header
    BY DEF NOHDR, Header
  <2>2. hdr' \in [Ram -> Header]
    BY <1>1, <2>1 DEF KInv, KTypeOK
  <2>3. data' \in [Ram -> [0..UNITS-1 -> Values]]
    BY <1>1 DEF KInv, KTypeOK, Values
  <2>. QED  BY <1>5, <1>6, <2>2, <2>3 DEF KInv, KTypeOK, IInv
<1>8. Others(c) /\ (Live(c)' <=> Live(c)) /\ HeldFrames(c)' = HeldFrames(c)
  BY <1>6 DEF Others, Live, HeldFrames
<1>9. BlocksSized' /\ InRam'
  BY <1>6 DEF KInv, BlocksSized, InRam, Live, HeldFrames
<1>10. \A g \in Ram \ {f} : hdr'[g] = hdr[g]
  BY <1>1 DEF KInv, KTypeOK
<1>11. \A d \in Clients : Live(d) => hdr'[held[d].base] = hdr[held[d].base]
  <2>1. ASSUME NEW d \in Clients, Live(d)
        PROVE  held[d].base \in Ram \ {f}
    <3>1. held[d].base \in Ram /\ held[d].base \in HeldFrames(d)
      BY <2>1, LiveBlock
    <3>. QED  BY <1>3, <3>1, Apart
  <2>. QED  BY <1>10, <2>1
<1>12. \A g \in Ram : hdr'[g].magic => hdr[g].magic
  <2>1. hdr'[f].magic = FALSE
    BY <1>1, <1>3 DEF NOHDR, KInv, KTypeOK
  <2>. QED  BY <1>10, <2>1
<1>13. HeadersTrue'
  BY <1>6, <1>11, <1>12 DEF KInv, HeadersTrue, Live
<1>. QED  BY <1>5, <1>7, <1>9, <1>13 DEF KInv

\* Where the heap is left alone and nothing changes hands.
LEMMA QuietKInv ==
    ASSUME KInv, IInv', UNCHANGED <<heap, held>>, physical_limit' <= TOP
    PROVE  KInv'
<1>1. KTypeOK'
  BY DEF KInv, KTypeOK, IInv, heap
<1>2. BlocksSized' /\ InRam' /\ HeadersTrue'
  BY DEF KInv, BlocksSized, InRam, HeadersTrue, Live, HeldFrames, heap
<1>. QED  BY <1>1, <1>2 DEF KInv

\* The limit that pm_init computes is the end of the highest entry.
LEMMA LimitInRam == ASSUME NEW m \in MemoryMaps PROVE Limit(m) <= TOP
<1>. DEFINE Ends == {0} \cup {e.base + e.length : e \in Counted(m)}
<1>1. Ends \in SUBSET Nat /\ \A k \in Ends : k <= TOP
  <2>1. \A e \in Counted(m) : e.base \in Nat /\ e.length \in Nat /\ e.base + e.length <= TOP
    BY EntryType, UnitsAssumption, SizesAssumption DEF Counted, Entries, Entry
  <2>. QED  BY <2>1, SizesAssumption
<1>2. \E l \in Ends : \A k \in Ends : k <= l
  BY <1>1, GreatestExists, SizesAssumption, Ends # {}
<1>3. Limit(m) \in Ends
  BY <1>2 DEF Limit
<1>. QED  BY <1>1, <1>3

\* The units that memcpy takes over are units of memory.
MovedCopy(c, size) ==
    [u \in 1..size |-> IF u \in Kept(hdr[ptr[c] - 1].size, size) THEN UnitAt(ptr[c], u) ELSE 0]

\* What a moving krealloc copies is the contents of a block.
LEMMA MovedCopyType ==
    ASSUME KInv, NEW c \in Clients, Live(c), NEW size \in 0..MaxSize
    PROVE  /\ MovedCopy(c, size) \in [1..size -> Values]
           /\ \A u \in 1..size :
                 MovedCopy(c, size)[u] = IF u \in 1..asked[c] THEN UnitAt(ptr[c], u) ELSE 0
<1>1. hdr[ptr[c] - 1].size = asked[c]
  <2>1. hdr[ptr[c] - 1] = NewHeader(asked[c])
    BY LiveBlock
  <2>. QED  BY <2>1 DEF NewHeader
<1>2. \A u \in 1..asked[c] : UnitAt(ptr[c], u) \in Values
  BY StorePlace DEF UnitAt, KInv, KTypeOK
<1>3. \A u \in 1..size : u \in Kept(asked[c], size) <=> u \in 1..asked[c]
  BY DEF Kept
<1>4. \A u \in 1..size :
         MovedCopy(c, size)[u] = IF u \in 1..asked[c] THEN UnitAt(ptr[c], u) ELSE 0
  BY <1>1, <1>3 DEF MovedCopy
<1>5. 0 \in Values
  BY DEF Values
<1>6. \A u \in 1..size : MovedCopy(c, size)[u] \in Values
  BY <1>2, <1>4, <1>5
<1>. QED  BY <1>4, <1>6 DEF MovedCopy

\* What a krealloc that moves the block does, in terms of frames: it takes a new
\* extent out of the free frames while the old one is still held, then frees that.
LEMMA MoveParts ==
    ASSUME KInv, NEW c \in Clients, NEW size \in 0..MaxSize, KreallocMove(c, size)
    PROVE  \E b \in Fits(NUM_PAGES(size) + 1, 0) :
              LET new == [base |-> b, n |-> NUM_PAGES(size) + 1] IN
              /\ free' = (free \ Frames(new)) \cup HeldFrames(c)
              /\ free_size' = free_size - (NUM_PAGES(size) + 1)
                                 + Cardinality(HeldFrames(c) \ (free \ Frames(new)))
              /\ held' = [held EXCEPT ![c] = new]
              /\ hdr' = Disarmed(HeadersAfter(hdr, b, size), ptr[c])
              /\ data' = Forgotten(Filled(data, b + 1, size, MovedCopy(c, size)), HeldFrames(c))
              /\ ptr' = [ptr EXCEPT ![c] = b + 1]
<1>1. Live(c)
  BY DEF KreallocMove
<1>2. FreedBy(ptr[c]) = HeldFrames(c)
  BY <1>1, LiveBlock
<1>. QED  BY <1>2 DEF KreallocMove, MovedCopy

\* The frame allocator's side of it.
LEMMA MoveIInv ==
    ASSUME KInv, NEW c \in Clients, NEW e \in Extent, e # NONE, Frames(e) \subseteq free,
           status = "up", held[c] # NONE,
           free' = (free \ Frames(e)) \cup HeldFrames(c),
           free_size' = free_size - e.n + Cardinality(HeldFrames(c) \ (free \ Frames(e))),
           held' = [held EXCEPT ![c] = e],
           UNCHANGED <<status, map, physical_limit, bitmap, leftover>>
    PROVE  IInv'
<1>. USE DEF KInv, IInv
<1>1. HeldFrames(c)' = Frames(e) /\ HeldFrames(c) = Frames(held[c]) /\ held[c] \in Extent
  BY DEF HeldFrames, TypeOK
<1>2. \A d \in Clients \ {c} : HeldFrames(d)' = HeldFrames(d)
  BY DEF HeldFrames, TypeOK
<1>3. TypeOK'
  <2>1. free' \subseteq PoolFrames(map) \cup TailOnes
    BY DEF TypeOK, HeldKnown
  <2>2. IsFiniteSet(HeldFrames(c) \ (free \ Frames(e)))
    BY <1>1, ExtentFrames, FS_Subset
  <2>3. free_size' \in Int
    BY <2>2, FS_CardinalityType DEF TypeOK, Extent
  <2>. QED  BY <2>1, <2>3 DEF TypeOK
<1>4. NoSharing'
  <2>1. BitmapUse' = BitmapUse
    BY DEF BitmapUse
  <2>. QED  BY <1>1, <1>2, <2>1 DEF NoSharing
<1>5. Unused'
  BY DEF Unused
<1>6. HeldKnown'
  BY <1>1, <1>2 DEF HeldKnown, TypeOK
<1>. QED  BY <1>3, <1>4, <1>5, <1>6

\* krealloc that moves the block arms the new header and disarms the old one.
LEMMA KreallocMoveKInv ==
    ASSUME KInv, NEW c \in Clients, NEW size \in 0..MaxSize, KreallocMove(c, size)
    PROVE  KInv'
<1>. DEFINE n == NUM_PAGES(size) + 1
            new(b) == [base |-> b, n |-> n]
<1>1. /\ Live(c) /\ status = "up" /\ asked' = [asked EXCEPT ![c] = size]
      /\ UNCHANGED <<status, map, physical_limit, bitmap, leftover>>
  BY DEF KreallocMove
<1>2. PICK b \in Fits(n, 0) :
        /\ free' = (free \ Frames(new(b))) \cup HeldFrames(c)
        /\ free_size' = free_size - n + Cardinality(HeldFrames(c) \ (free \ Frames(new(b))))
        /\ held' = [held EXCEPT ![c] = new(b)]
        /\ hdr' = Disarmed(HeadersAfter(hdr, b, size), ptr[c])
        /\ data' = Forgotten(Filled(data, b + 1, size, MovedCopy(c, size)), HeldFrames(c))
        /\ ptr' = [ptr EXCEPT ![c] = b + 1]
  BY MoveParts
<1>3. /\ b \in Nat /\ b \in Ram /\ b + 1 \in Nat
      /\ new(b) \in Extent /\ new(b) # NONE
      /\ Frames(new(b)) = {b} \cup Touched(b + 1, size)
      /\ Frames(new(b)) \subseteq free /\ Frames(new(b)) \subseteq Ram
      /\ b \notin Touched(b + 1, size)
  BY BlockPlace
<1>4. held'[c] = new(b) /\ held'[c].base = b /\ held'[c].n = n /\ n \in Nat
      /\ n - 1 = NUM_PAGES(size)
  BY <1>2, PagesType DEF KInv, IInv, TypeOK
<1>5. IInv'
  <2>1. held[c] # NONE
    BY <1>1 DEF Live
  <2>. QED  BY <1>1, <1>2, <1>3, <2>1, MoveIInv
<1>6. /\ ptr[c] - 1 = held[c].base /\ ptr[c] - 1 \in Ram /\ held[c].base \in HeldFrames(c)
  BY <1>1, LiveBlock
<1>7. /\ hdr' \in [Ram -> Header]
      /\ hdr'[held[c].base].magic = FALSE
      /\ \A f \in Ram \ {held[c].base} : hdr'[f] = HeadersAfter(hdr, b, size)[f]
  <2>1. HeadersAfter(hdr, b, size) \in [Ram -> Header]
    BY HeadersAfterType DEF KInv, KTypeOK
  <2>2. /\ Disarmed(HeadersAfter(hdr, b, size), ptr[c]) \in [Ram -> Header]
        /\ Disarmed(HeadersAfter(hdr, b, size), ptr[c])[ptr[c] - 1].magic = FALSE
        /\ \A f \in Ram \ {ptr[c] - 1} :
              Disarmed(HeadersAfter(hdr, b, size), ptr[c])[f] = HeadersAfter(hdr, b, size)[f]
    BY <1>6, <2>1, DisarmedHeader
  <2>. QED  BY <1>2, <1>6, <2>2
<1>8. Others(c) /\ ptr'[c] = b + 1 /\ asked'[c] = size
  BY <1>1, <1>2 DEF Others, KInv, KTypeOK, IInv, TypeOK
<1>9. KTypeOK'
  <2>1. data' \in Memory
    <3>1. data \in Memory
      BY DEF KInv, KTypeOK, Memory
    <3>2. Filled(data, b + 1, size, MovedCopy(c, size)) \in Memory
      BY <1>1, <1>3, <3>1, MovedCopyType, FilledType
    <3>. QED  BY <1>2, <3>2, ForgottenType
  <2>2. ptr' \in [Clients -> Nat \cup {NONE}] /\ asked' \in [Clients -> 0..MaxSize]
    BY <1>1, <1>2, <1>3 DEF KInv, KTypeOK
  <2>. QED  BY <1>5, <1>7, <2>1, <2>2 DEF KTypeOK, IInv, Memory
<1>10. BlocksSized' /\ InRam'
  <2>1. HeldFrames(c)' = Frames(new(b))
    BY <1>3, <1>4 DEF HeldFrames
  <2>2. ptr'[c] - 1 = b
    BY <1>3, <1>8
  <2>. QED  BY <1>1, <1>3, <1>4, <1>8, <2>1, <2>2, BlocksStep
<1>11. HeadersTrue'
  <2>1. b # held[c].base
    BY <1>3, <1>6, Apart
  <2>2. \A f \in Ram \ {held[c].base} :
           hdr'[f] = IF f = b THEN NewHeader(size)
                     ELSE IF f \in Touched(b + 1, size) THEN NOHDR ELSE hdr[f]
    BY <1>7 DEF HeadersAfter
  <2>3. \A d \in Clients \ {c} : Live(d) => hdr'[held[d].base] = hdr[held[d].base]
    <3>1. ASSUME NEW d \in Clients \ {c}, Live(d)
          PROVE  held[d].base \in Ram \ {held[c].base} /\ held[d].base \notin Frames(new(b))
      <4>1. held[d].base \in Ram /\ held[d].base \in HeldFrames(d)
        BY <3>1, LiveBlock
      <4>. QED  BY <1>3, <1>6, <4>1, Apart
    <3>. QED  BY <1>3, <2>2, <3>1
  <2>4. hdr'[held'[c].base] =
           [magic |-> TRUE, num_pages |-> held'[c].n - 1, size |-> asked'[c]]
    <3>1. hdr'[b] = NewHeader(size)
      BY <1>3, <2>1, <2>2
    <3>. QED  BY <1>4, <1>8, <3>1, Zenon DEF NewHeader
  <2>5. Live(c)'
    BY <1>3, <1>4, <1>8, UnitsAssumption DEF Live
  <2>6. \A f \in Ram : hdr'[f].magic =>
           \/ hdr[f].magic /\ ~(Live(c) /\ held[c].base = f)
           \/ Live(c)' /\ held'[c].base = f
    <3>1. NOHDR.magic = FALSE
      BY DEF NOHDR
    <3>. QED  BY <1>4, <1>7, <2>2, <2>5, <3>1
  <2>. QED  BY <1>4, <1>8, <2>3, <2>4, <2>6, HeadersStep
<1>. QED  BY <1>5, <1>9, <1>10, <1>11 DEF KInv

\* Every step keeps the invariant.
LEMMA KNextKInv == KInv /\ [KNext]_kvars => KInv'
<1>. SUFFICES ASSUME KInv, [KNext]_kvars PROVE KInv'
  OBVIOUS
<1>1. CASE Boot
  <2>1. IInv'
    BY <1>1, PmInitIInv DEF Boot, KInv
  <2>2. physical_limit' <= TOP /\ held' = held
    BY <1>1, LimitInRam DEF Boot, PmInit, KInv, IInv, TypeOK
  <2>. QED  BY <1>1, <2>1, <2>2, QuietKInv DEF Boot
<1>2. ASSUME NEW c \in Clients, NEW size \in 0..MaxSize,
             KmallocHalt(c, size) \/ KreallocHalt(c, size)
      PROVE  KInv'
  <2>1. status' = "halted" /\ UNCHANGED <<map, physical_limit, free, free_size, bitmap, leftover, held, heap>>
    BY <1>2 DEF KmallocHalt, PmGetHalt, KreallocHalt
  <2>2. physical_limit \in Nat /\ physical_limit <= TOP
    BY DEF KInv, IInv, TypeOK, InRam
  <2>3. IInv'
    BY <2>1, <2>2, StopIInv DEF KInv
  <2>. QED  BY <2>1, <2>2, <2>3, QuietKInv
<1>3. CASE UNCHANGED kvars
  <2>1. UNCHANGED vars /\ UNCHANGED <<heap, held>> /\ physical_limit' = physical_limit
    BY <1>3 DEF kvars, vars, kmem
  <2>2. IInv'
    BY <2>1, StopIInv DEF KInv
  <2>. QED  BY <2>1, <2>2, QuietKInv DEF KInv, InRam
<1>4. ASSUME NEW c \in Clients, KfreeAgain(c) PROVE KInv'
  BY <1>3, <1>4, KfreeAgainIsKfree, KfreeKInv
<1>. QED  BY <1>1, <1>2, <1>3, <1>4, KmallocKInv, KreallocInPlaceKInv, KreallocMoveKInv,
            KfreeKInv, StoreKInv, TableGetKInv, TableFreeKInv DEF KNext

\* Before pm_init there is no heap.
LEMMA KInitKInv == KInit => KInv
<1>. SUFFICES ASSUME KInit PROVE KInv
  OBVIOUS
<1>1. IInv
  BY InitIInv DEF KInit
<1>2. KTypeOK
  <2>1. NOHDR \in Header
    BY DEF NOHDR, Header
  <2>. QED  BY <1>1, <2>1, UnitsAssumption DEF KInit, KTypeOK, IInv, Values
<1>3. \A c \in Clients : held[c] = NONE /\ ptr[c] = NONE /\ physical_limit = 0
  BY DEF KInit, Init
<1>4. BlocksSized /\ InRam
  BY <1>3, SizesAssumption DEF BlocksSized, InRam, Live, HeldFrames, KInit, Init
<1>5. HeadersTrue
  BY <1>3 DEF HeadersTrue, Live, KInit, NOHDR
<1>. QED  BY <1>1, <1>2, <1>4, <1>5 DEF KInv

\* The invariant of the heap holds throughout.
LEMMA KInvAlways == KSpec => []KInv
  BY KInitKInv, KNextKInv, PTL DEF KSpec

(* ------------------------------------------------------------------------ *)
(* Theorems                                                                 *)

\* kmalloc, krealloc, kfree and the page tables keep every frame's contents and every
\* header in their types, for blocks of every size.
THEOREM HeapTypeCorrect == KSpec => []KTypeOK
<1>1. KInv => KTypeOK
  BY DEF KInv
<1>. QED  BY <1>1, KInvAlways, PTL

\* The header in front of every block in use is armed and says what pm_get gave, and
\* no other header is armed, though kfree sees nothing else and callers write anywhere
\* in their blocks.
THEOREM HeadersStayTrue == KSpec => []HeadersTrue
<1>1. KInv => HeadersTrue
  BY DEF KInv
<1>. QED  BY <1>1, KInvAlways, PTL

\* Blocks, page tables, the bitmap and the free frames stay apart under kmalloc,
\* kfree and krealloc, which hold two extents at once while a block moves.
THEOREM HeapNeverShares == KSpec => []NoSharing
<1>1. KInv => NoSharing
  BY DEF KInv, IInv
<1>. QED  BY <1>1, KInvAlways, PTL

(* ------------------------------------------------------------------------ *)
(* The frames under the heap                                                *)

\* To the frame allocator a step of the heap is one of its own, or a halt, or a
\* krealloc that holds two extents for a moment.
LEMMA HeapOnFrames ==
    ASSUME KInv, [KNext]_kvars
    PROVE  \/ [Next]_vars
           \/ status' = "halted" /\ UNCHANGED <<free, free_size, leftover>>
           \/ \E c \in Clients, size \in 0..MaxSize : KreallocMove(c, size)
<1>1. CASE Boot
  BY <1>1 DEF Boot, Next
<1>2. ASSUME NEW c \in Clients, NEW size \in 0..MaxSize, Kmalloc(c, size) \/ KmallocHalt(c, size)
      PROVE  Next
  BY <1>2, PagesType DEF Kmalloc, KmallocHalt, Next
<1>3. ASSUME NEW c \in Clients, Kfree(c) \/ TableFree(c)
      PROVE  Next
  BY <1>3, KfreeIsPmFree DEF TableFree, Next
<1>4. ASSUME NEW c \in Clients, NEW n \in 1..MaxRequest, TableGet(c, n)
      PROVE  Next
  BY <1>4 DEF TableGet, Next
<1>5. ASSUME NEW c \in Clients, KfreeAgain(c)
      PROVE  [Next]_vars
  BY <1>3, <1>5, KfreeAgainIsKfree DEF kvars
<1>6. ASSUME NEW c \in Clients, NEW size \in 0..MaxSize, KreallocInPlace(c, size)
      PROVE  UNCHANGED vars
  BY <1>6 DEF KreallocInPlace
<1>7. ASSUME NEW c \in Clients, NEW u, NEW v, Store(c, u, v)
      PROVE  UNCHANGED vars
  BY <1>7 DEF Store
<1>8. ASSUME NEW c \in Clients, NEW size \in 0..MaxSize, KreallocHalt(c, size)
      PROVE  status' = "halted" /\ UNCHANGED <<free, free_size, leftover>>
  BY <1>8 DEF KreallocHalt
<1>9. CASE UNCHANGED kvars
  BY <1>9 DEF kvars
<1>. QED  BY <1>1, <1>2, <1>3, <1>4, <1>5, <1>6, <1>7, <1>8, <1>9 DEF KNext

\* kmem.free_size keeps its distance from the free frames, which pm_init gave it,
\* under kmalloc, kfree, krealloc and the page tables, whatever RAM lies behind the
\* bitmap.
THEOREM HeapFreeSizeNeverDrifts == KSpec => []FreeSizeExact
<1>1. KInit => FreeSizeExact
  BY FS_EmptySet DEF KInit, Init, FreeSizeExact
<1>2. ASSUME KInv, FreeSizeExact, [KNext]_kvars PROVE FreeSizeExact'
  <2>1. CASE [Next]_vars
    BY <1>2, <2>1, FreeSizeStep DEF KInv
  <2>2. CASE status' = "halted" /\ UNCHANGED <<free, free_size, leftover>>
    BY <1>2, <2>2 DEF FreeSizeExact
  <2>3. ASSUME NEW c \in Clients, NEW size \in 0..MaxSize, KreallocMove(c, size)
        PROVE  FreeSizeExact'
    <3>. DEFINE n == NUM_PAGES(size) + 1
                new(b) == [base |-> b, n |-> n]
    <3>1. PICK b \in Fits(n, 0) :
            /\ free' = (free \ Frames(new(b))) \cup HeldFrames(c)
            /\ free_size' = free_size - n + Cardinality(HeldFrames(c) \ (free \ Frames(new(b))))
      BY <1>2, <2>3, MoveParts
    <3>2. new(b) \in Extent /\ Frames(new(b)) \subseteq free
      BY <1>2, BlockPlace
    <3>3. Live(c)
      BY <2>3 DEF KreallocMove
    <3>4. HeldFrames(c) = Frames(held[c]) /\ held[c] \in Extent
      BY <1>2, <3>3, LiveBlock
    <3>5. IsFiniteSet(free) /\ IsFiniteSet(free \ Frames(new(b)))
      BY <1>2, FreeFinite, FS_Subset DEF KInv, IInv
    <3>6. Cardinality(free \ Frames(new(b))) = Cardinality(free) - n
      BY <3>2, <3>5, TakeCount
    <3>7. Cardinality((free \ Frames(new(b))) \cup Frames(held[c]))
             = Cardinality(free \ Frames(new(b)))
                 + Cardinality(Frames(held[c]) \ (free \ Frames(new(b))))
      BY <3>4, <3>5, GiveCount
    <3>8. /\ Cardinality(free) \in Nat /\ Cardinality(leftover) \in Nat /\ n \in Nat
          /\ Cardinality(Frames(held[c]) \ (free \ Frames(new(b)))) \in Nat
      <4>1. IsFiniteSet(Frames(held[c]) \ (free \ Frames(new(b))))
        BY <3>4, ExtentFrames, FS_Subset
      <4>. QED  BY <1>2, <3>5, <4>1, LeftoverFinite, FS_CardinalityType, PagesType
                DEF KInv, IInv
    <3>9. leftover' = leftover
      BY <2>3 DEF KreallocMove
    <3>10. Cardinality(free') = (Cardinality(free) - n)
              + Cardinality(Frames(held[c]) \ (free \ Frames(new(b))))
      BY <3>1, <3>4, <3>6, <3>7
    <3>11. free_size' = (Cardinality(free) - Cardinality(leftover)) - n
              + Cardinality(Frames(held[c]) \ (free \ Frames(new(b))))
      BY <1>2, <3>1, <3>4 DEF FreeSizeExact
    <3>. HIDE DEF n
    <3>. QED  BY <3>8, <3>9, <3>10, <3>11 DEF FreeSizeExact
  <2>. QED  BY <1>2, <2>1, <2>2, <2>3, HeapOnFrames
<1>. QED  BY <1>1, <1>2, KInvAlways, PTL DEF KSpec

\* Blocks and page tables become free whole and one at a time, by whatever pointer:
\* one freed before, or one freed before and in other use by now.
THEOREM WholeBlocksFreed == KSpec => FreesWholeBlocks
<1>1. ASSUME KInv, [KNext]_kvars
      PROVE  [status = "up" =>
                 /\ free' \ free = UNION {HeldFrames(c) : c \in Losers}
                 /\ \A c, d \in Losers : c = d]_kvars
  <2>. DEFINE Whole == /\ free' \ free = UNION {HeldFrames(c) : c \in Losers}
                       /\ \A c, d \in Losers : c = d
  <2>. SUFFICES ASSUME KNext, status = "up" PROVE Whole
    BY <1>1
  <2>1. ASSUME free' \subseteq free, \A d \in Clients : held[d] # NONE => held'[d] = held[d]
        PROVE  Whole
    BY <2>1 DEF Losers
  <2>2. ASSUME NEW c \in Clients, held[c] # NONE, held'[c] # held[c],
               \A d \in Clients \ {c} : held'[d] = held[d],
               free' \ free = HeldFrames(c)
        PROVE  Whole
    <3>1. Losers = {c}
      BY <2>2 DEF Losers
    <3>. QED  BY <2>2, <3>1
  <2>3. ASSUME UNCHANGED <<free, held>> PROVE Whole
    BY <2>1, <2>3
  <2>4. ASSUME NEW c \in Clients, NEW n \in 1..MaxRequest, PmGet(c, n)
        PROVE  Whole
    <3>1. PICK b \in Fits(n, 0) : /\ held[c] = NONE
                                  /\ held' = [held EXCEPT ![c] = [base |-> b, n |-> n]]
                                  /\ free' = free \ Frames([base |-> b, n |-> n])
      BY <2>4 DEF PmGet, pm_get, pm_allocate
    <3>2. \A d \in Clients : held[d] # NONE => held'[d] = held[d]
      BY <1>1, <3>1 DEF KInv, IInv, TypeOK
    <3>. QED  BY <2>1, <3>1, <3>2
  <2>5. ASSUME NEW c \in Clients, PmFree(c)
        PROVE  Whole
    <3>1. /\ held[c] # NONE /\ free' = free \cup HeldFrames(c)
          /\ held' = [held EXCEPT ![c] = NONE]
      BY <2>5 DEF PmFree, pm_free, HeldFrames
    <3>2. HeldFrames(c) \cap free = {}
      BY <1>1 DEF KInv, IInv, NoSharing
    <3>3. held'[c] = NONE /\ \A d \in Clients \ {c} : held'[d] = held[d]
      BY <1>1, <3>1 DEF KInv, IInv, TypeOK
    <3>. QED  BY <2>2, <3>1, <3>2, <3>3
  <2>6. ASSUME NEW c \in Clients, NEW size \in 0..MaxSize, KreallocMove(c, size)
        PROVE  Whole
    <3>. DEFINE e(b) == [base |-> b, n |-> NUM_PAGES(size) + 1]
    <3>1. PICK b \in Fits(NUM_PAGES(size) + 1, 0) :
            /\ held' = [held EXCEPT ![c] = e(b)]
            /\ free' = (free \ Frames(e(b))) \cup HeldFrames(c)
      BY <1>1, <2>6, MoveParts
    <3>2. b \in free
      BY <1>1, BlockPlace
    <3>3. Live(c)
      BY <2>6 DEF KreallocMove
    <3>4. held[c].base \notin free
      BY <1>1, <3>3, LiveBlock, Apart
    <3>5. held'[c] = e(b) /\ \A d \in Clients \ {c} : held'[d] = held[d]
      BY <1>1, <3>1 DEF KInv, IInv, TypeOK
    <3>6. held'[c] # held[c] /\ held[c] # NONE
      BY <3>2, <3>3, <3>4, <3>5 DEF Live
    <3>7. HeldFrames(c) \cap free = {}
      BY <1>1 DEF KInv, IInv, NoSharing
    <3>. QED  BY <2>2, <3>1, <3>5, <3>6, <3>7
  <2>7. ~Boot
    BY DEF Boot, PmInit
  <2>8. ASSUME NEW c \in Clients, NEW size \in 0..MaxSize, Kmalloc(c, size)
        PROVE  Whole
    BY <2>4, <2>8, PagesType DEF Kmalloc
  <2>9. ASSUME NEW c \in Clients, NEW n \in 1..MaxRequest, TableGet(c, n)
        PROVE  Whole
    BY <2>4, <2>9 DEF TableGet
  <2>10. ASSUME NEW c \in Clients, Kfree(c) \/ TableFree(c)
         PROVE  Whole
    BY <1>1, <2>5, <2>10, KfreeIsPmFree DEF TableFree
  <2>11. ASSUME NEW c \in Clients, KfreeAgain(c)
         PROVE  Whole
    BY <1>1, <2>3, <2>10, <2>11, KfreeAgainIsKfree DEF kvars, vars, kmem
  <2>12. ASSUME NEW c \in Clients, NEW size \in 0..MaxSize,
               KmallocHalt(c, size) \/ KreallocHalt(c, size) \/ KreallocInPlace(c, size)
         PROVE  Whole
    BY <2>3, <2>12 DEF KmallocHalt, PmGetHalt, KreallocHalt, KreallocInPlace, vars, kmem
  <2>13. ASSUME NEW c \in Clients, NEW u, NEW v, Store(c, u, v)
         PROVE  Whole
    BY <2>3, <2>13 DEF Store, vars, kmem
  <2>. QED  BY <2>6, <2>7, <2>8, <2>9, <2>10, <2>11, <2>12, <2>13 DEF KNext
<1>. QED  BY <1>1, KInvAlways, PTL DEF KSpec, FreesWholeBlocks

(* ------------------------------------------------------------------------ *)
(* The abstract heap                                                        *)

\* What a caller sees of its block are values, as many as it asked for.
LEMMA ContentsType ==
    ASSUME KInv, NEW c \in Clients
    PROVE  /\ Live(c) => /\ BlockContents[c] = [u \in 1..asked[c] |-> UnitAt(ptr[c], u)]
                         /\ BlockContents[c] \in [1..asked[c] -> Values]
                         /\ BlockContents[c] # NONE
           /\ ~Live(c) => BlockContents[c] = NONE
<1>1. ASSUME Live(c)
      PROVE  /\ BlockContents[c] = [u \in 1..asked[c] |-> UnitAt(ptr[c], u)]
             /\ BlockContents[c] \in [1..asked[c] -> Values]
             /\ BlockContents[c] # NONE
  <2>1. BlockContents[c] = [u \in 1..asked[c] |-> UnitAt(ptr[c], u)]
    BY <1>1 DEF BlockContents
  <2>2. \A u \in 1..asked[c] : UnitAt(ptr[c], u) \in Values
    BY <1>1, StorePlace DEF UnitAt, KInv, KTypeOK
  <2>3. BlockContents[c] \in [1..asked[c] -> Values]
    BY <2>1, <2>2
  <2>4. asked[c] \in 0..MaxSize
    BY DEF KInv, KTypeOK
  <2>. QED  BY <2>1, <2>3, <2>4, UnitsAssumption
<1>2. ~Live(c) => BlockContents[c] = NONE
  BY DEF BlockContents
<1>. QED  BY <1>1, <1>2

\* A caller whose frames are not written sees no change.
LEMMA ContentsKept ==
    ASSUME KInv, NEW d \in Clients,
           held'[d] = held[d], ptr'[d] = ptr[d], asked'[d] = asked[d],
           \A f \in HeldFrames(d) : data'[f] = data[f]
    PROVE  BlockContents'[d] = BlockContents[d]
<1>1. Live(d)' <=> Live(d)
  BY DEF Live
<1>2. CASE ~Live(d)
  BY <1>1, <1>2 DEF BlockContents
<1>3. CASE Live(d)
  <2>1. \A u \in 1..asked[d] : UnitAt(ptr[d], u)' = UnitAt(ptr[d], u)
    <3>. TAKE u \in 1..asked[d]
    <3>1. FrameOf(ptr[d], u) \in HeldFrames(d)
      BY <1>3, StorePlace
    <3>2. data'[FrameOf(ptr[d], u)] = data[FrameOf(ptr[d], u)]
      BY <3>1
    <3>3. FrameOf(ptr[d], u)' = FrameOf(ptr[d], u) /\ OffsetOf(u)' = OffsetOf(u)
      BY DEF FrameOf, OffsetOf
    <3>. QED  BY <3>2, <3>3 DEF UnitAt
  <2>. QED  BY <1>1, <1>3, <2>1 DEF BlockContents
<1>. QED  BY <1>2, <1>3

\* A step of caller c that writes only free frames and its own changes c's block alone.
LEMMA OthersKept ==
    ASSUME KInv, NEW c \in Clients, Others(c),
           \A f \in Ram \ (free \cup HeldFrames(c)) : data'[f] = data[f],
           NEW new, BlockContents'[c] = new
    PROVE  BlockContents' = [BlockContents EXCEPT ![c] = new]
<1>1. \A d \in Clients \ {c} : BlockContents'[d] = BlockContents[d]
  <2>. TAKE d \in Clients \ {c}
  <2>1. HeldFrames(d) \subseteq Ram \ (free \cup HeldFrames(c))
    BY Apart DEF KInv, InRam
  <2>. QED  BY <2>1, ContentsKept DEF Others
<1>2. BlockContents' = [d \in Clients |-> BlockContents'[d]]
  BY DEF BlockContents
<1>3. BlockContents = [d \in Clients |-> BlockContents[d]]
  BY DEF BlockContents
<1>. HIDE DEF BlockContents
<1>. QED  BY <1>1, <1>2, <1>3

\* kmalloc hands out a block of zeroes.
LEMMA KmallocSimulates ==
    ASSUME KInv, NEW c \in Clients, NEW size \in 0..MaxSize, Kmalloc(c, size)
    PROVE  AbstractHeap!Alloc(c, size)
<1>. DEFINE n == NUM_PAGES(size) + 1
            x(b) == [base |-> b, n |-> n]
<1>1. PmGet(c, n)
  BY DEF Kmalloc
<1>2. PICK b \in Fits(n, 0) : held[c] = NONE /\ held' = [held EXCEPT ![c] = x(b)]
  BY <1>1 DEF PmGet
<1>3. /\ b \in Nat /\ b + 1 \in Nat /\ x(b) # NONE
      /\ Frames(x(b)) = {b} \cup Touched(b + 1, size)
      /\ Frames(x(b)) \subseteq free /\ Frames(x(b)) \subseteq Ram
  BY <1>2, BlockPlace
<1>4. held'[c] = x(b) /\ held'[c].base = b
  BY <1>2 DEF KInv, IInv, TypeOK
<1>5. /\ data' = Filled(data, b + 1, size, Zeroes(size))
      /\ ptr' = [ptr EXCEPT ![c] = b + 1] /\ asked' = [asked EXCEPT ![c] = size]
  BY <1>4 DEF Kmalloc
<1>6. ptr'[c] = b + 1 /\ asked'[c] = size /\ Others(c) /\ data \in Memory
  BY <1>2, <1>5 DEF Others, KInv, KTypeOK, IInv, TypeOK, Memory
<1>7. BlockContents'[c] = [u \in 1..size |-> 0]
  <2>1. Live(c)'
    BY <1>3, <1>4, <1>6, UnitsAssumption DEF Live
  <2>2. \A u \in 1..size : UnitAt(b + 1, u)' = 0
    <3>. TAKE u \in 1..size
    <3>1. FrameOf(b + 1, u) \in Ram
      BY <1>3, UnitPlace
    <3>2. Filled(data, b + 1, size, Zeroes(size))[FrameOf(b + 1, u)][OffsetOf(u)] = Zeroes(size)[u]
      BY <1>3, <1>6, <3>1, FilledUnit
    <3>3. FrameOf(b + 1, u)' = FrameOf(b + 1, u) /\ OffsetOf(u)' = OffsetOf(u)
      BY DEF FrameOf, OffsetOf
    <3>. QED  BY <1>5, <3>2, <3>3 DEF UnitAt, Zeroes
  <2>. QED  BY <1>6, <2>1, <2>2 DEF BlockContents
<1>8. \A f \in Ram \ (free \cup HeldFrames(c)) : data'[f] = data[f]
  BY <1>3, <1>5, <1>6, FilledElsewhere
<1>9. BlockContents' = [BlockContents EXCEPT ![c] = [u \in 1..size |-> 0]]
  BY <1>6, <1>7, <1>8, OthersKept
<1>10. BlockContents[c] = NONE
  BY <1>2, ContentsType DEF Live
<1>. QED  BY <1>9, <1>10 DEF AbstractHeap!Alloc

\* kfree takes the caller's block away.
LEMMA KfreeSimulates ==
    ASSUME KInv, NEW c \in Clients, Kfree(c)
    PROVE  AbstractHeap!Free(c)
<1>1. /\ Live(c) /\ ptr' = ptr /\ asked' = [asked EXCEPT ![c] = 0]
      /\ held' = [held EXCEPT ![c] = NONE] /\ data' = Forgotten(data, HeldFrames(c))
  BY KfreeIsPmFree DEF Kfree
<1>2. Others(c) /\ held'[c] = NONE
  BY <1>1 DEF Others, KInv, KTypeOK, IInv, TypeOK
<1>3. BlockContents'[c] = NONE
  BY <1>2 DEF BlockContents, Live
<1>4. \A f \in Ram \ (free \cup HeldFrames(c)) : data'[f] = data[f]
  BY <1>1 DEF Forgotten
<1>5. BlockContents' = [BlockContents EXCEPT ![c] = NONE]
  BY <1>2, <1>3, <1>4, OthersKept
<1>. QED  BY <1>1, <1>5, ContentsType DEF AbstractHeap!Free

\* krealloc in place: the caller sees the same units, fewer or more of them.
LEMMA KreallocInPlaceSimulates ==
    ASSUME KInv, NEW c \in Clients, NEW size \in 0..MaxSize, KreallocInPlace(c, size)
    PROVE  AbstractHeap!Resize(c, size)
<1>1. /\ Live(c) /\ asked' = [asked EXCEPT ![c] = size] /\ UNCHANGED <<vars, data, ptr>>
      /\ NUM_PAGES(hdr[ptr[c] - 1].size) = NUM_PAGES(size)
  BY DEF KreallocInPlace
<1>2. held' = held /\ data' = data /\ ptr' = ptr /\ asked'[c] = size /\ Others(c)
  BY <1>1 DEF vars, kmem, Others, KInv, KTypeOK
<1>. DEFINE new == [u \in 1..size |-> UnitAt(ptr[c], u)]
<1>3. new \in [1..size -> Values]
  <2>1. Touched(ptr[c], size) \subseteq Ram /\ ptr[c] \in Nat
    <3>1. hdr[ptr[c] - 1] = NewHeader(asked[c])
      BY <1>1, LiveBlock
    <3>2. NUM_PAGES(asked[c]) = NUM_PAGES(size)
      BY <1>1, <3>1 DEF NewHeader
    <3>3. Touched(ptr[c], size) = Touched(ptr[c], asked[c])
      BY <3>2 DEF Touched
    <3>. QED  BY <1>1, <3>3, LiveBlock
  <2>2. \A u \in 1..size : UnitAt(ptr[c], u) \in Values
    BY <2>1, UnitPlace DEF UnitAt, KInv, KTypeOK
  <2>. QED  BY <2>2
<1>4. BlockContents'[c] = new
  BY <1>1, <1>2 DEF BlockContents, Live, UnitAt, FrameOf, OffsetOf
<1>5. BlockContents' = [BlockContents EXCEPT ![c] = new]
  <2>1. \A f \in Ram \ (free \cup HeldFrames(c)) : data'[f] = data[f]
    BY <1>2
  <2>. HIDE DEF new
  <2>. QED  BY <1>2, <1>4, <2>1, OthersKept
<1>6. /\ BlockContents[c] = [u \in 1..asked[c] |-> UnitAt(ptr[c], u)]
      /\ BlockContents[c] # NONE
  BY <1>1, ContentsType
<1>7. \A u \in DOMAIN new \cap DOMAIN BlockContents[c] : new[u] = BlockContents[c][u]
  BY <1>6
<1>. HIDE DEF new
<1>. QED  BY <1>3, <1>5, <1>6, <1>7 DEF AbstractHeap!Resize, AbstractHeap!Contents

\* krealloc that moves the block copies what both sizes have.
LEMMA KreallocMoveSimulates ==
    ASSUME KInv, NEW c \in Clients, NEW size \in 0..MaxSize, KreallocMove(c, size)
    PROVE  AbstractHeap!Resize(c, size)
<1>. DEFINE n == NUM_PAGES(size) + 1
            x(b) == [base |-> b, n |-> n]
            new == MovedCopy(c, size)
<1>1. Live(c) /\ asked' = [asked EXCEPT ![c] = size]
  BY DEF KreallocMove
<1>2. PICK b \in Fits(n, 0) :
        /\ held' = [held EXCEPT ![c] = x(b)]
        /\ data' = Forgotten(Filled(data, b + 1, size, new), HeldFrames(c))
        /\ ptr' = [ptr EXCEPT ![c] = b + 1]
  BY MoveParts
<1>3. /\ b \in Nat /\ b + 1 \in Nat /\ x(b) # NONE
      /\ Frames(x(b)) = {b} \cup Touched(b + 1, size)
      /\ Frames(x(b)) \subseteq free /\ Frames(x(b)) \subseteq Ram
  BY BlockPlace
<1>4. /\ held'[c] = x(b) /\ ptr'[c] = b + 1 /\ asked'[c] = size /\ Others(c)
      /\ data \in Memory
  BY <1>1, <1>2 DEF Others, KInv, KTypeOK, IInv, TypeOK, Memory
<1>5. /\ new \in [1..size -> Values]
      /\ \A u \in 1..size : new[u] = IF u \in 1..asked[c] THEN UnitAt(ptr[c], u) ELSE 0
  BY <1>1, MovedCopyType
<1>6. Live(c)'
  BY <1>3, <1>4, UnitsAssumption DEF Live
<1>. HIDE DEF new
<1>7. \A u \in 1..size : UnitAt(b + 1, u)' = new[u]
  <2>. TAKE u \in 1..size
  <2>1. FrameOf(b + 1, u) \in Frames(x(b)) /\ FrameOf(b + 1, u) \in Ram
    BY <1>3, UnitPlace
  <2>2. FrameOf(b + 1, u) \notin HeldFrames(c)
    BY <1>3, <2>1, Apart
  <2>3. Filled(data, b + 1, size, new)[FrameOf(b + 1, u)][OffsetOf(u)] = new[u]
    BY <1>3, <1>4, <2>1, FilledUnit
  <2>4. data'[FrameOf(b + 1, u)] = Filled(data, b + 1, size, new)[FrameOf(b + 1, u)]
    BY <1>2, <2>1, <2>2 DEF Forgotten
  <2>5. FrameOf(b + 1, u)' = FrameOf(b + 1, u) /\ OffsetOf(u)' = OffsetOf(u)
    BY DEF FrameOf, OffsetOf
  <2>. QED  BY <2>3, <2>4, <2>5 DEF UnitAt
<1>8. BlockContents'[c] = new
  <2>1. BlockContents'[c] = [u \in 1..size |-> UnitAt(b + 1, u)']
    BY <1>4, <1>6 DEF BlockContents
  <2>. QED  BY <1>5, <1>7, <2>1
<1>9. \A f \in Ram \ (free \cup HeldFrames(c)) : data'[f] = data[f]
  <2>. TAKE f \in Ram \ (free \cup HeldFrames(c))
  <2>1. Filled(data, b + 1, size, new)[f] = data[f]
    BY <1>3, <1>4, FilledElsewhere
  <2>. QED  BY <1>2, <2>1 DEF Forgotten
<1>10. BlockContents' = [BlockContents EXCEPT ![c] = new]
  BY <1>4, <1>8, <1>9, OthersKept
<1>11. /\ BlockContents[c] = [u \in 1..asked[c] |-> UnitAt(ptr[c], u)]
       /\ BlockContents[c] # NONE
  BY <1>1, ContentsType
<1>12. \A u \in DOMAIN new \cap DOMAIN BlockContents[c] : new[u] = BlockContents[c][u]
  BY <1>5, <1>11
<1>. QED  BY <1>5, <1>10, <1>11, <1>12 DEF AbstractHeap!Resize, AbstractHeap!Contents

\* A store changes the unit it is meant for and no other.
LEMMA StoreSimulates ==
    ASSUME KInv, NEW c \in Clients, NEW u \in 1..MaxSize, NEW v \in Stored, Store(c, u, v)
    PROVE  AbstractHeap!Store(c, u, v)
<1>. DEFINE f == FrameOf(ptr[c], u)
            o == OffsetOf(u)
            new == [w \in 1..asked[c] |-> IF w = u THEN v ELSE UnitAt(ptr[c], w)]
<1>1. /\ Live(c) /\ u <= asked[c] /\ data' = [data EXCEPT ![f][o] = v]
      /\ UNCHANGED <<vars, ptr, asked>>
  BY DEF Store
<1>2. held' = held /\ ptr' = ptr /\ asked' = asked /\ Others(c) /\ data \in Memory
  BY <1>1 DEF vars, Others, KInv, KTypeOK, Memory
<1>3. asked[c] \in 0..MaxSize /\ u \in 1..asked[c] /\ ptr[c] \in Nat
  <2>1. asked[c] \in 0..MaxSize /\ ptr[c] \in Nat
    BY <1>1, LiveBlock
  <2>. QED  BY <1>1, <2>1, UnitsAssumption
<1>4. f \in HeldFrames(c) /\ f \in Ram /\ o \in 0..UNITS-1
  BY <1>1, <1>3, StorePlace
<1>5. \A w \in 1..asked[c] :
         /\ FrameOf(ptr[c], w) \in Ram /\ OffsetOf(w) \in 0..UNITS-1
         /\ FrameOf(ptr[c], w) = f /\ OffsetOf(w) = o => w = u
  <2>. TAKE w \in 1..asked[c]
  <2>1. FrameOf(ptr[c], w) \in Ram /\ OffsetOf(w) \in 0..UNITS-1
    BY <1>1, StorePlace
  <2>2. (FrameOf(ptr[c], w) - ptr[c]) * UNITS + OffsetOf(w) + 1 = w
    BY <1>3, UnitPlace
  <2>3. (f - ptr[c]) * UNITS + o + 1 = u
    BY <1>3, UnitPlace
  <2>. QED  BY <2>1, <2>2, <2>3
<1>. HIDE DEF f, o
<1>6. \A w \in 1..asked[c] : UnitAt(ptr[c], w)' = IF w = u THEN v ELSE UnitAt(ptr[c], w)
  <2>. TAKE w \in 1..asked[c]
  <2>1. UnitAt(ptr[c], w)' = data'[FrameOf(ptr[c], w)][OffsetOf(w)]
    BY <1>2 DEF UnitAt, FrameOf, OffsetOf
  <2>2. CASE w = u
    <3>1. FrameOf(ptr[c], w) = f /\ OffsetOf(w) = o
      BY <2>2 DEF f, o
    <3>. QED  BY <1>1, <1>2, <1>4, <2>1, <2>2, <3>1 DEF Memory
  <2>3. CASE w # u
    <3>1. ~(FrameOf(ptr[c], w) = f /\ OffsetOf(w) = o)
      BY <1>5, <2>3
    <3>2. data'[FrameOf(ptr[c], w)][OffsetOf(w)] = data[FrameOf(ptr[c], w)][OffsetOf(w)]
      BY <1>1, <1>2, <1>4, <1>5, <3>1 DEF Memory
    <3>. QED  BY <2>1, <2>3, <3>2 DEF UnitAt
  <2>. QED  BY <2>2, <2>3
<1>7. BlockContents'[c] = new
  <2>1. Live(c)'
    BY <1>1, <1>2 DEF Live
  <2>2. BlockContents'[c] = [w \in 1..asked[c] |-> UnitAt(ptr[c], w)']
    BY <1>2, <2>1 DEF BlockContents
  <2>. QED  BY <1>6, <2>2
<1>8. BlockContents' = [BlockContents EXCEPT ![c] = new]
  <2>1. \A g \in Ram \ (free \cup HeldFrames(c)) : data'[g] = data[g]
    BY <1>1, <1>2, <1>4 DEF Memory
  <2>. HIDE DEF new
  <2>. QED  BY <1>2, <1>7, <2>1, OthersKept
<1>9. /\ BlockContents[c] = [w \in 1..asked[c] |-> UnitAt(ptr[c], w)]
      /\ BlockContents[c] # NONE
  BY <1>1, ContentsType
<1>10. u \in DOMAIN BlockContents[c] /\ new = [BlockContents[c] EXCEPT ![u] = v]
  BY <1>3, <1>9
<1>11. BlockContents' = [BlockContents EXCEPT ![c][u] = v]
  BY <1>8, <1>10, Zenon
<1>. QED  BY <1>9, <1>10, <1>11 DEF AbstractHeap!Store

\* Page tables come and go without a caller of kmalloc seeing it.
LEMMA TableStutters ==
    ASSUME KInv, NEW c \in Clients, (\E n \in 1..MaxRequest : TableGet(c, n)) \/ TableFree(c)
    PROVE  UNCHANGED BlockContents
<1>1. ptr[c] = NONE /\ ptr' = ptr /\ asked' = asked
  BY DEF TableGet, TableFree
<1>2. Others(c) /\ \A f \in Ram \ (free \cup HeldFrames(c)) : data'[f] = data[f]
  <2>1. CASE \E n \in 1..MaxRequest : TableGet(c, n)
    <3>1. PICK n \in 1..MaxRequest : TableGet(c, n)
      BY <2>1
    <3>. DEFINE x(b) == [base |-> b, n |-> n]
    <3>2. PmGet(c, n)
      BY <3>1 DEF TableGet
    <3>3. PICK b \in Fits(n, 0) : held' = [held EXCEPT ![c] = x(b)]
      BY <3>2 DEF PmGet
    <3>4. x(b) # NONE /\ Frames(x(b)) \subseteq free
      BY GetPlace
    <3>5. held'[c] = x(b) /\ Others(c)
      BY <1>1, <3>3 DEF Others, KInv, IInv, TypeOK
    <3>6. \A f \in Ram \ Frames(x(b)) : data'[f] = data[f]
      BY <3>1, <3>5 DEF TableGet
    <3>. QED  BY <3>4, <3>5, <3>6
  <2>2. CASE TableFree(c)
    <3>1. held' = [held EXCEPT ![c] = NONE] /\ data' = Forgotten(data, HeldFrames(c))
      BY <2>2 DEF TableFree, PmFree
    <3>. QED  BY <1>1, <3>1 DEF Others, Forgotten, KInv, IInv, TypeOK
  <2>. QED  BY <2>1, <2>2
<1>3. BlockContents[c] = NONE /\ BlockContents'[c] = NONE
  BY <1>1 DEF BlockContents, Live
<1>4. BlockContents' = [BlockContents EXCEPT ![c] = NONE]
  BY <1>2, <1>3, OthersKept
<1>5. BlockContents = [d \in Clients |-> BlockContents[d]]
  BY DEF BlockContents
<1>. HIDE DEF BlockContents
<1>. QED  BY <1>3, <1>4, <1>5

\* Every step of the allocator is a step of the abstract heap, or one it does not see.
LEMMA StepSimulates == KInv /\ [KNext]_kvars => [AbstractHeap!Next]_BlockContents
<1>. SUFFICES ASSUME KInv, [KNext]_kvars PROVE AbstractHeap!Next \/ UNCHANGED BlockContents
  OBVIOUS
<1>1. UNCHANGED <<heap, held>> => UNCHANGED BlockContents
  BY DEF BlockContents, Live, UnitAt, heap
<1>2. CASE Boot
  BY <1>1, <1>2 DEF Boot, PmInit
<1>3. UNCHANGED kvars => UNCHANGED BlockContents
  BY <1>1 DEF kvars, vars
<1>5. ASSUME NEW c \in Clients, NEW size \in 0..MaxSize,
             KmallocHalt(c, size) \/ KreallocHalt(c, size)
      PROVE  UNCHANGED BlockContents
  <2>1. UNCHANGED <<heap, held>>
    BY <1>5 DEF KmallocHalt, PmGetHalt, KreallocHalt
  <2>. QED  BY <1>1, <2>1
<1>6. ASSUME NEW c \in Clients, NEW size \in 0..MaxSize,
             Kmalloc(c, size) \/ KreallocInPlace(c, size) \/ KreallocMove(c, size)
      PROVE  AbstractHeap!Next
  <2>1. AbstractHeap!Alloc(c, size) \/ AbstractHeap!Resize(c, size)
    BY <1>6, KmallocSimulates, KreallocInPlaceSimulates, KreallocMoveSimulates
  <2>. QED  BY <2>1 DEF AbstractHeap!Next
<1>7. ASSUME NEW c \in Clients, Kfree(c)
      PROVE  AbstractHeap!Next
  <2>1. AbstractHeap!Free(c)
    BY <1>7, KfreeSimulates
  <2>. QED  BY <2>1 DEF AbstractHeap!Next
<1>4. ASSUME NEW c \in Clients, KfreeAgain(c)
      PROVE  AbstractHeap!Next \/ UNCHANGED BlockContents
  BY <1>3, <1>4, <1>7, KfreeAgainIsKfree
<1>8. ASSUME NEW c \in Clients, NEW u \in 1..MaxSize, NEW v \in Stored, Store(c, u, v)
      PROVE  AbstractHeap!Next
  <2>1. AbstractHeap!Store(c, u, v)
    BY <1>8, StoreSimulates
  <2>2. v \in Values
    BY DEF Values
  <2>. QED  BY <2>1, <2>2 DEF AbstractHeap!Next
<1>. QED  BY <1>2, <1>3, <1>4, <1>5, <1>6, <1>7, <1>8, TableStutters DEF KNext

\* kmalloc, krealloc and kfree implement a heap in which every caller has a block of
\* its own: what headers and frames do is invisible to the callers.
THEOREM HeapImplemented == KSpec => ImplementsHeap
<1>1. KInit => AbstractHeap!Init
  BY DEF KInit, Init, BlockContents, Live, AbstractHeap!Init
<1>. QED  BY <1>1, StepSimulates, KInvAlways, PTL DEF KSpec, ImplementsHeap, AbstractHeap!Spec

=============================================================================
