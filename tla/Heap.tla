-------------------------------- MODULE Heap --------------------------------
(***************************************************************************)
(* What kmalloc, kfree and krealloc promise their callers: every caller    *)
(* has a block of its own, what others allocate, store, resize and free    *)
(* changes nothing in it while it lasts, new blocks read as zero and       *)
(* resizing keeps the common prefix.  A block lasts until it is freed; the *)
(* heap does not promise that its owner is the one who frees it.           *)
(***************************************************************************)
EXTENDS Naturals

CONSTANTS
    Clients,   \* callers, each with at most one block
    Values,    \* what a unit of memory can hold
    MaxSize,   \* bound on the size of a block
    NONE       \* no block

VARIABLE block \* the contents of every caller's block

Contents(size) == [1..size -> Values]

Init == block = [c \in Clients |-> NONE]

Alloc(c, size) ==
    /\ block[c] = NONE
    /\ block' = [block EXCEPT ![c] = [u \in 1..size |-> 0]]

\* The block of c goes, by the pointer c has or an older one to the same place.
Free(c) ==
    /\ block[c] # NONE
    /\ block' = [block EXCEPT ![c] = NONE]

\* Units the old block did not have may hold anything.
Resize(c, size) ==
    /\ block[c] # NONE
    /\ \E new \in Contents(size) :
          /\ \A u \in DOMAIN new \cap DOMAIN block[c] : new[u] = block[c][u]
          /\ block' = [block EXCEPT ![c] = new]

Store(c, u, v) ==
    /\ block[c] # NONE
    /\ u \in DOMAIN block[c]
    /\ block' = [block EXCEPT ![c][u] = v]

Next ==
    \E c \in Clients :
        \/ \E size \in 0..MaxSize : Alloc(c, size) \/ Resize(c, size)
        \/ \E u \in 1..MaxSize, v \in Values : Store(c, u, v)
        \/ Free(c)

Spec == Init /\ [][Next]_block

=============================================================================
