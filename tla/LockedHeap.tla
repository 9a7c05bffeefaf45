----------------------------- MODULE LockedHeap -----------------------------
(***************************************************************************)
(* The global allocators of src/memory/buddy_system_allocator.rs:          *)
(* LockedHeap and LockedHeapWithRescue, a Heap<ORDER> behind a Mutex.      *)
(* GlobalAlloc::alloc locks the Mutex, runs Heap::alloc and, for the       *)
(* rescue variant, on Err calls the rescue hook with the guard still held  *)
(* and retries once; dealloc locks and runs Heap::dealloc.  The guard is   *)
(* dropped at the end of the call.                                         *)
(*                                                                         *)
(* Inside the lock Heap::alloc runs as the steps of its code: the scan for *)
(* the first non-empty class, one step per iteration of the split loop,    *)
(* and the final pop; the lock is what keeps other contexts out between    *)
(* them.  Heap::dealloc is one step.  The Mutex is the one of Mutex.tla    *)
(* and the heap operations those of BuddyHeap.tla, instantiated on the     *)
(* same variables.                                                         *)
(*                                                                         *)
(* The contexts are harts' normal code.  Interrupt handlers are not        *)
(* contexts of this module: rust_trap (src/interrupt.rs) never allocates   *)
(* or frees, so no handler takes the heap's lock.                          *)
(***************************************************************************)
EXTENDS Naturals, Sequences, FiniteSets, SequencesExt

CONSTANTS
  ORDER, WORD, Regions, Layouts, MaxLive,  \* as in BuddyHeap
  Procs,        \* the contexts, as in Mutex
  InitRegion,   \* the region init_heap gives the heap at boot
  RESCUE,       \* TRUE: LockedHeapWithRescue; FALSE: LockedHeap
  MaxHold       \* bound: allocations a context holds at once

ASSUME InitRegion \in Regions /\ RESCUE \in BOOLEAN

VARIABLES
  free_list, user, allocated, total, added, live,  \* the Heap, as in BuddyHeap
  lock, pc,     \* the Mutex, as in Mutex
  op,           \* op[p]: the call context p is in and where in it
  held,         \* held[p]: the allocations context p holds
  fault         \* "none", or the first alloc path no consistent heap takes

heapVars == <<free_list, user, allocated, total, added, live>>
vars == <<heapVars, lock, pc, op, held, fault>>

H == INSTANCE BuddyHeap
M == INSTANCE Mutex WITH refused <- {}   \* no context calls try_lock

\* op[p].st: "idle", "scan", "split", "pop", "rescue", "dealloc" (running
\* with the guard or waiting for it), "release" (about to drop the guard).
\* arg is the Layout or, for dealloc, the allocation; j the split loop's
\* class; attempt 1 or 2; gift the region the rescue hook added; ret the
\* call's result.
NoRegion == [start |-> 0, size |-> 0]
Idle == [st |-> "idle", arg |-> NoRegion, j |-> 0, attempt |-> 1,
         gift |-> NoRegion, ret |-> "none"]

\* A context can make a step: the kernel has not panicked.
CanRun(p) == fault # "expect"

InCS(p, st) == CanRun(p) /\ pc[p] = "cs" /\ op[p].st = st

Class(p) == H!Class(op[p].arg)

---------------------------------------------------------------------------
(* GlobalAlloc::alloc                                                      *)

\* self.inner.lock() (or self.0.lock()), then inner.alloc(layout).
CallAlloc(p, l) ==
  /\ CanRun(p) /\ op[p].st = "idle"
  /\ Cardinality(held[p]) < MaxHold
  /\ M!Lock(p)
  /\ op' = [op EXCEPT ![p] = [Idle EXCEPT !.st = "scan", !.arg = l]]
  /\ UNCHANGED <<heapVars, held, fault>>

\* Mutant of Fail: the rescue hook and the retry repeated until one succeeds.
FailRetryForever(p) ==
  IF RESCUE
  THEN [op EXCEPT ![p].st = "rescue"]
  ELSE [op EXCEPT ![p].st = "release", ![p].ret = "null"]

\* inner.alloc returned Err: the rescue variant calls the hook once; the
\* result is null (map_or(null_mut())) otherwise.
Fail(p) ==
  IF RESCUE /\ op[p].attempt = 1
  THEN [op EXCEPT ![p].st = "rescue"]
  ELSE [op EXCEPT ![p].st = "release", ![p].ret = "null"]

\* for i in class..ORDER: the first non-empty class, or Err (line 84).
Scan(p) ==
  LET avail == {i \in Class(p)..(ORDER - 1) : free_list[i] # <<>>}
  IN  /\ InCS(p, "scan")
      /\ op' = IF avail = {} THEN Fail(p)
               ELSE [op EXCEPT ![p].st = "split", ![p].j = Min(avail)]
      /\ UNCHANGED <<heapVars, lock, pc, held, fault>>

\* One iteration of the split loop for class j: pop a block of class j and
\* push its upper half and itself on class j - 1.  An empty list here is
\* the Err of line 65, which a consistent heap never reaches.
SplitStep(p) ==
  LET j == op[p].j
  IN  /\ InCS(p, "split")
      /\ \/ /\ j = Class(p)
            /\ op' = [op EXCEPT ![p].st = "pop"]
            /\ UNCHANGED <<free_list, fault>>
         \/ /\ j > Class(p) /\ free_list[j] # <<>>
            /\ free_list' = [free_list EXCEPT
                               ![j] = Tail(@),
                               ![j - 1] = H!Push(H!Push(@, Head(free_list[j]) + 2^(j - 1)),
                                                 Head(free_list[j]))]
            /\ op' = [op EXCEPT ![p].j = j - 1]
            /\ UNCHANGED fault
         \/ /\ j > Class(p) /\ free_list[j] = <<>>
            /\ op' = Fail(p)
            /\ fault' = IF fault = "none" THEN "split" ELSE fault
            /\ UNCHANGED free_list
      /\ UNCHANGED <<user, allocated, total, added, live, lock, pc, held>>

\* Mutant of PopStep: the block is handed out but left on its list.
PopStepNoPop(p) ==
  LET class == Class(p)
      a == [ptr |-> Head(free_list[class]), layout |-> op[p].arg]
  IN  /\ InCS(p, "pop")
      /\ free_list[class] # <<>> /\ a.ptr # 0
      /\ user' = user + a.layout.size
      /\ allocated' = allocated + H!BlockSize(a.layout)
      /\ live' = live \cup {a}
      /\ held' = [held EXCEPT ![p] = @ \cup {a}]
      /\ op' = [op EXCEPT ![p].st = "release", ![p].ret = "ptr"]
      /\ UNCHANGED <<free_list, total, added, lock, pc, fault>>

\* free_list[class].pop().expect(..), then NonNull::new: a null block is
\* an Err (line 80); an empty list panics the kernel.
PopStep(p) ==
  LET class == Class(p)
      a == [ptr |-> Head(free_list[class]), layout |-> op[p].arg]
  IN  /\ InCS(p, "pop")
      /\ \/ /\ free_list[class] = <<>>
            /\ fault' = "expect"
            /\ UNCHANGED <<heapVars, op, held>>
         \/ /\ free_list[class] # <<>> /\ a.ptr = 0
            /\ free_list' = [free_list EXCEPT ![class] = Tail(@)]
            /\ op' = Fail(p)
            /\ UNCHANGED <<user, allocated, total, added, live, held, fault>>
         \/ /\ free_list[class] # <<>> /\ a.ptr # 0
            /\ free_list' = [free_list EXCEPT ![class] = Tail(@)]
            /\ user' = user + a.layout.size
            /\ allocated' = allocated + H!BlockSize(a.layout)
            /\ live' = live \cup {a}
            /\ held' = [held EXCEPT ![p] = @ \cup {a}]
            /\ op' = [op EXCEPT ![p].st = "release", ![p].ret = "ptr"]
            /\ UNCHANGED <<total, added, fault>>
      /\ UNCHANGED <<lock, pc>>

\* Mutant of Rescue: the hook runs but the allocation is not retried.
RescueNoRetry(p) ==
  /\ InCS(p, "rescue")
  /\ \/ \E r \in Regions :
          H!add_to_heap(r) /\ op' = [op EXCEPT ![p].st = "release", ![p].ret = "null", ![p].gift = r]
     \/ UNCHANGED heapVars /\ op' = [op EXCEPT ![p].st = "release", ![p].ret = "null"]
  /\ UNCHANGED <<lock, pc, held, fault>>

\* (self.rescue)(&mut inner, &layout), then inner.alloc(layout) again.
\* The hook is the caller's: it may add a region to the heap, or nothing.
Rescue(p) ==
  /\ InCS(p, "rescue")
  /\ \/ \E r \in Regions :
          H!add_to_heap(r) /\ op' = [op EXCEPT ![p].st = "scan", ![p].attempt = 2, ![p].gift = r]
     \/ UNCHANGED heapVars /\ op' = [op EXCEPT ![p].st = "scan", ![p].attempt = 2]
  /\ UNCHANGED <<lock, pc, held, fault>>

---------------------------------------------------------------------------
(* GlobalAlloc::dealloc, and the end of both calls                        *)

CallDealloc(p, a) ==
  /\ CanRun(p) /\ op[p].st = "idle"
  /\ M!Lock(p)
  /\ op' = [op EXCEPT ![p] = [Idle EXCEPT !.st = "dealloc", !.arg = a]]
  /\ UNCHANGED <<heapVars, held, fault>>

Dealloc(p) ==
  /\ InCS(p, "dealloc")
  /\ H!dealloc(op[p].arg)
  /\ held' = [held EXCEPT ![p] = @ \ {op[p].arg}]
  /\ op' = [op EXCEPT ![p].st = "release"]
  /\ UNCHANGED <<lock, pc, fault>>

\* The MutexGuard goes out of scope as the call returns.
Release(p) ==
  /\ InCS(p, "release")
  /\ M!Unlock(p)
  /\ op' = [op EXCEPT ![p] = Idle]
  /\ UNCHANGED <<heapVars, held, fault>>

\* obtain_lock's loop, as in Mutex.
Wait(p) ==
  /\ CanRun(p)
  /\ M!Retry(p) \/ M!Spin(p)
  /\ UNCHANGED <<heapVars, op, held, fault>>

---------------------------------------------------------------------------
(* Boot: init_heap has given InitRegion to a new Heap.                     *)
Init ==
  /\ free_list = H!PushAll([k \in 0..(ORDER - 1) |-> <<>>], H!RegionBlocks(InitRegion))
  /\ user = 0 /\ allocated = 0
  /\ total = FoldLeft(LAMBDA acc, b : acc + b.size, 0, H!RegionBlocks(InitRegion))
  /\ added = {InitRegion}
  /\ live = {}
  /\ M!MutexInit
  /\ op = [p \in Procs |-> Idle]
  /\ held = [p \in Procs |-> {}]
  /\ fault = "none"

Step(p) ==
  \/ \E l \in Layouts : CallAlloc(p, l)
  \/ \E a \in held[p] : CallDealloc(p, a)
  \/ Wait(p) \/ Scan(p) \/ SplitStep(p) \/ PopStep(p) \/ Rescue(p)
  \/ Dealloc(p) \/ Release(p)

Next == \E p \in Procs : Step(p)

\* A context that is running keeps running, and a call, once made, runs to
\* its end: weak fairness of every step but the calls themselves.
Fairness ==
  \A p \in Procs :
    /\ WF_vars(Wait(p)) /\ WF_vars(Scan(p)) /\ WF_vars(SplitStep(p))
    /\ WF_vars(PopStep(p)) /\ WF_vars(Rescue(p)) /\ WF_vars(Dealloc(p))
    /\ WF_vars(Release(p))

Spec == Init /\ [][Next]_vars /\ Fairness

---------------------------------------------------------------------------
(* Properties                                                              *)

LockedHeapTypeOK ==
  /\ H!TypeOK /\ M!MutexTypeOK
  /\ op \in [Procs -> [st : {"idle", "scan", "split", "pop", "rescue", "dealloc", "release"},
                       arg : Layouts \cup [ptr : Nat, layout : Layouts] \cup {NoRegion}, j : 0..(ORDER - 1),
                       attempt : {1, 2}, gift : Regions \cup {NoRegion},
                       ret : {"none", "ptr", "null"}]]
  /\ held \in [Procs -> SUBSET live]
  /\ fault \in {"none", "split", "expect"}

(* Heap::alloc's two failure paths that only an inconsistent heap takes    *)
(* are never taken: the split loop always finds a block on the class it  *)
(* pops from (the Err of line 65), and the final pop always finds one      *)
(* (the expect of line 72).  Between the scan and the pop the heap is read *)
(* and written in several steps; only the Mutex keeps another context's    *)
(* alloc from taking the blocks the scan saw.                              *)
AllocPathsSound == fault = "none"

(* With contexts allocating and freeing concurrently through the lock, the *)
(* heap stays whole: its free blocks and every context's allocations tile  *)
(* the arena, its counters match the allocations held, and the allocations *)
(* are the ones the contexts hold.                                         *)
HeapIntact ==
  /\ H!HeapTiling
  /\ H!StatsMatchLive
  /\ live = UNION {held[p] : p \in Procs}

\* The region the rescue hook added has a block the request fits in.
Usable(p) ==
  \E b \in Range(H!RegionBlocks(op[p].gift)) : b.size >= H!BlockSize(op[p].arg)

(* LockedHeapWithRescue returns null after its rescue hook only when the   *)
(* hook added no block large enough: the hook runs and the allocation is  *)
(* retried under the same guard, so no other context can take what the    *)
(* hook added before the retry sees it.                                    *)
RescueRetrySucceeds ==
  \A p \in Procs : op[p].ret = "null" /\ op[p].gift # NoRegion => ~Usable(p)

(* Every context that holds the heap's guard eventually drops it: each    *)
(* call runs to its end and the guard goes out of scope there.  A holder   *)
(* that never drops it leaves every later allocation spinning in          *)
(* obtain_lock.                                                            *)
GuardsDropped == \A p \in Procs : (pc[p] = "cs") ~> (pc[p] # "cs")
=============================================================================
