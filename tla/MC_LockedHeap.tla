---------------------------- MODULE MC_LockedHeap ----------------------------
(* The kernel heap behind its lock, scaled down: five size classes of      *)
(* 8-byte words; init_heap gives [16, 32) (one block 16@16) and the rescue *)
(* hook may add [64, 80) (16@64).  Requests of class 3, which splits a     *)
(* 16-byte block, and of class 5 (>= ORDER), which is never served.        *)
EXTENDS LockedHeap, TLC

MCInitRegion == [start |-> 16, size |-> 16]
MCRegions == {MCInitRegion, [start |-> 64, size |-> 16]}

MCLayouts ==
  { [size |-> 8,  align |-> 8],
    [size |-> 24, align |-> 8] }

\* Two harts.
MCProcs == {"c1", "c2"}

MCMaxLive == 4
=============================================================================
