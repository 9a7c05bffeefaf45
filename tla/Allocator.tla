----------------------------- MODULE Allocator -----------------------------
(***************************************************************************)
(* What a global dynamic-memory provider promises its callers (the         *)
(* GlobalAlloc contract the kernel heap is registered under): every        *)
(* successful allocation is a run of bytes inside the arena, at least as   *)
(* long as the requested size, aligned to the requested alignment, and     *)
(* disjoint from every allocation still live.  An allocation may fail (a   *)
(* null pointer), which leaves the live allocations as they were, and a    *)
(* live allocation may be given back at any time.                          *)
(***************************************************************************)
EXTENDS Naturals

CONSTANTS
  Arena,        \* the byte addresses the allocator may hand out
  Layouts,      \* the [size, align] requests callers make
  Lengths       \* the lengths an allocation may occupy

VARIABLE blocks  \* the live allocations: [ptr, len, layout] records

Extent(b) == b.ptr .. (b.ptr + b.len - 1)

\* b may be returned for request l while blocks are live.
Fits(b, l) ==
  /\ b.len >= l.size
  /\ b.ptr % l.align = 0
  /\ Extent(b) \subseteq Arena
  /\ \A c \in blocks : Extent(b) \cap Extent(c) = {}

\* One new block b for request l.  b ranges over blocks' \ blocks, the only
\* blocks blocks' = blocks \cup {b} can hold for, so that checking a step
\* looks at the added block rather than at every run of the arena.
Alloc(l) ==
  \E b \in blocks' \ blocks :
     /\ blocks' = blocks \cup {b}
     /\ b.len \in Lengths
     /\ b.layout = l
     /\ Fits(b, l)

Dealloc(b) == blocks' = blocks \ {b}

Init == blocks = {}

Next ==
  \/ \E l \in Layouts : Alloc(l)
  \/ \E b \in blocks : Dealloc(b)

Spec == Init /\ [][Next]_blocks
=============================================================================
