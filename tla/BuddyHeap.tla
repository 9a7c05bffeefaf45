----------------------------- MODULE BuddyHeap -----------------------------
(***************************************************************************)
(* The buddy-system kernel heap, Heap<ORDER> of                            *)
(* src/memory/buddy_system_allocator.rs.  free_list[k] is the intrusive    *)
(* linked list of free blocks of 2^k bytes, pushed and popped at its head. *)
(* Each operation is one atomic step: the kernel only reaches the Heap     *)
(* through LockedHeap, whose Mutex is held for the whole call (see Mutex   *)
(* and LockedHeap).  Addresses are byte addresses (naturals); a request    *)
(* is a Layout record [size, align].                                       *)
(***************************************************************************)
EXTENDS Naturals, Sequences, SequencesExt, FiniteSets, Bitwise

CONSTANTS
  ORDER,     \* number of free lists, the const generic ORDER
  WORD,      \* size_of::<usize>(): the smallest block and the alignment unit
  Regions,   \* the [start, size] ranges handed to init / add_to_heap
  Layouts,   \* the Layout requests callers make
  MaxLive    \* bound: at most this many allocations live at once

ASSUME ORDER \in Nat \ {0} /\ WORD \in Nat \ {0}
ASSUME \A l \in Layouts : l.size > 0 /\ l.align \in {2^k : k \in 0..ORDER}

Classes == 0..(ORDER - 1)

VARIABLES
  free_list,  \* free_list[k]: the addresses of the free blocks of class k
  user,       \* bytes requested by live allocations (stats_alloc_user)
  allocated,  \* bytes handed out after rounding (stats_alloc_actual)
  total,      \* bytes ever added to the heap (stats_total_bytes)
  added,      \* the Regions already given to add_to_heap
  live        \* the caller's side: the [ptr, layout] it holds

vars == <<free_list, user, allocated, total, added, live>>

---------------------------------------------------------------------------
(* Integer helpers of the code, modelled by what they compute.             *)

\* x.trailing_zeros() for x > 0
RECURSIVE trailing_zeros(_)
trailing_zeros(x) == IF x % 2 = 1 THEN 0 ELSE 1 + trailing_zeros(x \div 2)

\* x & (!x + 1): the lowest set bit of x
LowBit(x) == 2 ^ trailing_zeros(x)

\* prev_power_of_two(num): the largest power of two <= num, num > 0
prev_power_of_two(num) ==
  LET RECURSIVE Up(_)
      Up(p) == IF 2 * p > num THEN p ELSE Up(2 * p)
  IN  Up(1)

\* usize::next_power_of_two: the least power of two >= n (1 for n = 0)
next_power_of_two(n) ==
  LET RECURSIVE Up(_)
      Up(p) == IF p >= n THEN p ELSE Up(2 * p)
  IN  Up(1)

\* LinkedList::push: the new block becomes the head of the list.
Push(list, block) == <<block>> \o list

\* Mutant of BlockSize: the alignment left out of the rounding.
BlockSizeNoAlign(l) == Max({next_power_of_two(l.size), WORD})

\* The block size alloc and dealloc both compute for a Layout, and its class.
BlockSize(l) == Max({next_power_of_two(l.size), l.align, WORD})
Class(l) == trailing_zeros(BlockSize(l))

---------------------------------------------------------------------------
(* add_to_heap(start, end)                                                 *)

\* Mutant of Carve: a block as large as the remaining room allows, even when
\* the start is not aligned to it.
RECURSIVE CarveUnaligned(_, _)
CarveUnaligned(cur, end) ==
  IF cur + WORD > end THEN <<>>
  ELSE LET size == prev_power_of_two(end - cur)
       IN  <<[addr |-> cur, size |-> size]>> \o CarveUnaligned(cur + size, end)

\* The blocks the loop of add_to_heap cuts [cur, end) into, in push order.
RECURSIVE Carve(_, _)
Carve(cur, end) ==
  IF cur + WORD > end THEN <<>>
  ELSE LET size == Min({LowBit(cur), prev_power_of_two(end - cur)})
       IN  <<[addr |-> cur, size |-> size]>> \o Carve(cur + size, end)

AlignUp(a) == ((a + WORD - 1) \div WORD) * WORD
AlignDown(a) == (a \div WORD) * WORD

\* The blocks add_to_heap pushes for region r.
RegionBlocks(r) == Carve(AlignUp(r.start), AlignDown(r.start + r.size))

\* Pushing every block of bs, in order, onto the list of its class.
PushAll(fl, bs) ==
  [k \in Classes |->
     Reverse([i \in 1..Len(SelectSeq(bs, LAMBDA b : b.size = 2^k)) |->
                SelectSeq(bs, LAMBDA b : b.size = 2^k)[i].addr]) \o fl[k]]

add_to_heap(r) ==
  LET bs == RegionBlocks(r)
  IN  /\ r \notin added
      /\ free_list' = PushAll(free_list, bs)
      /\ total' = total + FoldLeft(LAMBDA acc, b : acc + b.size, 0, bs)
      /\ added' = added \cup {r}
      /\ UNCHANGED <<user, allocated, live>>

---------------------------------------------------------------------------
(* alloc(layout)                                                           *)

\* The splitting loop: for j from i down to class + 1, pop a block of
\* class j and push its upper half, then the block itself, on class j - 1.
RECURSIVE Split(_, _, _)
Split(fl, j, class) ==
  IF j = class THEN fl
  ELSE LET block == Head(fl[j])
       IN  Split([fl EXCEPT ![j] = Tail(@),
                            ![j - 1] = Push(Push(@, block + 2^(j - 1)), block)],
                 j - 1, class)

\* Mutant of alloc: the allocated block is left at the head of its list.
allocNoPop(l) ==
  LET class == Class(l)
      avail == {i \in class..(ORDER - 1) : free_list[i] # <<>>}
  IN  /\ Cardinality(live) < MaxLive
      /\ avail # {}
      /\ LET fl == Split(free_list, Min(avail), class)
             ptr == Head(fl[class])
         IN  /\ free_list' = fl
             /\ user' = user + l.size
             /\ allocated' = allocated + BlockSize(l)
             /\ live' = live \cup {[ptr |-> ptr, layout |-> l]}
      /\ UNCHANGED <<total, added>>

\* The first class >= class with a free block; Err(()) when there is none
\* (also when class >= ORDER), which leaves the heap unchanged.
alloc(l) ==
  LET class == Class(l)
      avail == {i \in class..(ORDER - 1) : free_list[i] # <<>>}
  IN  /\ Cardinality(live) < MaxLive
      /\ avail # {}
      /\ LET fl == Split(free_list, Min(avail), class)
             ptr == Head(fl[class])
         IN  /\ free_list' = [fl EXCEPT ![class] = Tail(@)]
             /\ user' = user + l.size
             /\ allocated' = allocated + BlockSize(l)
             /\ live' = live \cup {[ptr |-> ptr, layout |-> l]}
      /\ UNCHANGED <<total, added>>

---------------------------------------------------------------------------
(* dealloc(ptr, layout)                                                    *)

\* Mutant of Coalesce: the loop stops after one merge.
CoalesceOnce(fl, cur, cc) ==
  IF cc >= ORDER - 1 THEN fl
  ELSE LET buddy == cur ^^ (2^cc)
           pos == SelectInSeq(fl[cc], LAMBDA b : b = buddy)
       IN  IF pos = 0 THEN fl
           ELSE [fl EXCEPT ![cc] = Tail(RemoveAt(@, pos)),
                           ![cc + 1] = Push(@, Min({cur, buddy}))]

\* The coalescing loop, entered with cur at the head of fl[cc]: find the
\* buddy cur ^ 2^cc in fl[cc]; if found unlink it, pop the head (cur) and
\* push the merged block on class cc + 1; stop below the top class.
RECURSIVE Coalesce(_, _, _)
Coalesce(fl, cur, cc) ==
  IF cc >= ORDER - 1 THEN fl
  ELSE LET buddy == cur ^^ (2^cc)
           pos == SelectInSeq(fl[cc], LAMBDA b : b = buddy)
       IN  IF pos = 0 THEN fl
           ELSE LET merged == Min({cur, buddy})
                IN  Coalesce([fl EXCEPT ![cc] = Tail(RemoveAt(@, pos)),
                                        ![cc + 1] = Push(@, merged)],
                             merged, cc + 1)

\* Mutants of dealloc: the requested size subtracted twice; and the rounded
\* size not subtracted.
deallocTwice(a) ==
  LET class == Class(a.layout)
  IN  /\ free_list' = Coalesce([free_list EXCEPT ![class] = Push(@, a.ptr)],
                               a.ptr, class)
      /\ user' = user - 2 * a.layout.size
      /\ allocated' = allocated - BlockSize(a.layout)
      /\ live' = live \ {a}
      /\ UNCHANGED <<total, added>>

deallocKeepsAllocated(a) ==
  LET class == Class(a.layout)
  IN  /\ free_list' = Coalesce([free_list EXCEPT ![class] = Push(@, a.ptr)],
                               a.ptr, class)
      /\ user' = user - a.layout.size
      /\ UNCHANGED allocated
      /\ live' = live \ {a}
      /\ UNCHANGED <<total, added>>

\* The caller gives back a live allocation with the layout it was made with.
dealloc(a) ==
  LET class == Class(a.layout)
  IN  /\ free_list' = Coalesce([free_list EXCEPT ![class] = Push(@, a.ptr)],
                               a.ptr, class)
      /\ user' = user - a.layout.size
      /\ allocated' = allocated - BlockSize(a.layout)
      /\ live' = live \ {a}
      /\ UNCHANGED <<total, added>>

---------------------------------------------------------------------------
(* Heap::new(): every list empty, every counter zero.                      *)
Init ==
  /\ free_list = [k \in Classes |-> <<>>]
  /\ user = 0
  /\ allocated = 0
  /\ total = 0
  /\ added = {}
  /\ live = {}

Next ==
  \/ \E r \in Regions : add_to_heap(r)
  \/ \E l \in Layouts : alloc(l)
  \/ \E a \in live : dealloc(a)

Spec == Init /\ [][Next]_vars

---------------------------------------------------------------------------
(* Properties                                                              *)

Bytes(a, n) == a .. (a + n - 1)
ArenaBytes ==
  UNION {AlignUp(r.start) .. (AlignDown(r.start + r.size) - 1) : r \in added}

\* Every position of every free list, and the bytes the block there covers.
FreeSlots == UNION {{<<k, i>> : i \in 1..Len(free_list[k])} : k \in Classes}
SlotBytes(s) == Bytes(free_list[s[1]][s[2]], 2^s[1])
LiveBytes(a) == Bytes(a.ptr, BlockSize(a.layout))

TypeOK ==
  /\ free_list \in [Classes -> Seq(Nat)]
  /\ user \in Nat /\ allocated \in Nat /\ total \in Nat
  /\ added \subseteq Regions
  /\ live \subseteq [ptr : Nat, layout : Layouts]

(* The free blocks on all lists and the live allocations tile the arena:   *)
(* together they cover every byte add_to_heap added, and no byte twice (the *)
(* sizes add up to the size of their union).  A split, a buddy merge or a  *)
(* head pop that goes wrong loses memory or hands the same bytes out twice.*)
HeapTiling ==
  LET pieces == {SlotBytes(s) : s \in FreeSlots} \cup {LiveBytes(a) : a \in live}
      sizes == MapThenSumSet(LAMBDA s : 2^s[1], FreeSlots)
               + MapThenSumSet(LAMBDA a : BlockSize(a.layout), live)
  IN  /\ UNION pieces = ArenaBytes
      /\ sizes = Cardinality(ArenaBytes)

(* The statistics the heap keeps incrementally never drift from a recount  *)
(* of the live allocations: user and allocated are the sums of their       *)
(* requested and rounded sizes, total the size of the added arena.         *)
StatsMatchLive ==
  /\ user = MapThenSumSet(LAMBDA a : a.layout.size, live)
  /\ allocated = MapThenSumSet(LAMBDA a : BlockSize(a.layout), live)
  /\ total = Cardinality(ArenaBytes)

(* Every block on free_list[k] starts at a multiple of 2^k.  dealloc finds *)
(* a block's buddy as ptr ^ 2^k, which is the adjacent half of the parent  *)
(* block only for naturally aligned blocks; add_to_heap's min with the     *)
(* lowest set bit of the start is what establishes it.                     *)
BuddyAligned ==
  \A k \in Classes : \A i \in 1..Len(free_list[k]) : free_list[k][i] % 2^k = 0

(* No two free blocks below the top class are buddies: dealloc merges a    *)
(* freed block with its free buddy level after level, and alloc's splits   *)
(* leave only one half of each pair free.                                   *)
MaximallyCoalesced ==
  \A k \in 0..(ORDER - 2) :
    \A i, j \in 1..Len(free_list[k]) : free_list[k][i] ^^ free_list[k][j] # 2^k

(* The heap implements the allocator contract: with the caller's live      *)
(* allocations mapped to [ptr, rounded length, layout] blocks, every step   *)
(* of the heap is a step of Allocator.                                     *)
AbstractAllocator ==
  INSTANCE Allocator WITH
    Arena <- UNION {Bytes(r.start, r.size) : r \in Regions},
    Lengths <- {2^k : k \in Classes},
    blocks <- {[ptr |-> a.ptr, len |-> BlockSize(a.layout), layout |-> a.layout] : a \in live}

AllocatorSpec == AbstractAllocator!Spec
=============================================================================
