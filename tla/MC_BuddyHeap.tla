---------------------------- MODULE MC_BuddyHeap ----------------------------
(* The kernel heap scaled down: one arena [8, 112), whose end is not a     *)
(* power of two, carved into blocks 8@8, 16@16, 32@32, 32@64 and 16@96;    *)
(* six size classes (2^0 .. 2^5), 8-byte words.                            *)
EXTENDS BuddyHeap

MCRegions == {[start |-> 8, size |-> 104]}

\* requests rounding to each class 3..5, one raised by its alignment, and
\* one of class 6 >= ORDER, which alloc always refuses
MCLayouts ==
  { [size |-> 1,  align |-> 1],
    [size |-> 12, align |-> 4],
    [size |-> 8,  align |-> 16],
    [size |-> 24, align |-> 8],
    [size |-> 64, align |-> 8] }
=============================================================================
