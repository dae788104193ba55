------------------------------ MODULE MCPhysMem ------------------------------
(***************************************************************************)
(* Small machines for PhysMem: two frames of low memory, four frames to a  *)
(* bitmap byte, two bitmap bytes to a frame.                               *)
(***************************************************************************)
EXTENDS PhysMem, TLC

E(b, l, t) == [base |-> b, length |-> l, type |-> t]

\* Limit 12, a whole number of bitmap bytes; a hole that splits the pool.
Holed == <<E(0, 2, "usable"), E(2, 1, "kernel"), E(3, 6, "usable"),
           E(9, 1, "reserved"), E(10, 2, "usable")>>

\* The first usable entry above low memory is too short for the bitmap.
ShortFirst == <<E(0, 2, "usable"), E(2, 1, "usable"), E(4, 5, "usable"),
                E(9, 3, "acpi"), E(12, 4, "bootloader")>>

\* Limit 11: the last three frames have no bit in the zeroed bitmap.
Odd == <<E(0, 2, "usable"), E(2, 2, "kernel"), E(4, 7, "usable")>>

\* No usable entry above low memory.
NoRoom == <<E(0, 2, "usable"), E(2, 10, "kernel")>>

MCMaps == {Holed, ShortFirst, Odd, NoRoom, <<>>}
HoledMap == {Holed}

\* Frames whose bit may read as 1 behind the bitmap: 9 lies in the pool of Odd,
\* 12 and 13 in no usable entry of any map.
SomeTail == {9, 12, 13}

Symmetry == Permutations(Clients)

=============================================================================
