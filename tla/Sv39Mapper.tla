----------------------------- MODULE Sv39Mapper -----------------------------
(***************************************************************************)
(* The three-level Sv39 page-table walker Rv39PageTableWith of             *)
(* src/memory/page_table.rs (the Mapper trait: map_to, unmap, update_flags,*)
(* translate_page, and the MapperFlush token), the page-table entries it   *)
(* writes, and the hardware it drives: the satp register, the TLB that     *)
(* caches translations the hardware walker makes, and sfence.vma.          *)
(*                                                                         *)
(* Physical memory is mem[ppn]: the 512 entries of the table in frame ppn, *)
(* reached through the kernel's linear window (as_kernel_mut).  A table    *)
(* index is scaled down from 0..511 to the set Idx, a page is the triple   *)
(* <<p3, p2, p1>> of its indices, and a PTE is the record [ppn, flags] of  *)
(* its two fields (bits 10.. and bits 0..9 of the u64).                    *)
(***************************************************************************)
EXTENDS Naturals, FiniteSets, FiniteSetsExt

CONSTANTS
  Idx,          \* table indices (0..511 in Sv39)
  Pages,        \* the pages callers map, <<p3, p2, p1>> triples over Idx
  DataFrames,   \* the frames callers map pages to
  Root,         \* the root frame, allocated and zeroed by new_bare
  Pool,         \* the other frames the frame allocator can hand out
  Junk,         \* what an allocated frame holds before it is zeroed
  MapFlags,     \* flags arguments of map_to
  UpdateFlags,  \* flags arguments of update_flags
  ASIDLEN,      \* ASID width the hardware implements (0..16 for Sv39)
  NotMapped,    \* model value: ref_entry's Err(PageNotMapped)
  NoFrame       \* model value: translate_page's None

ASSUME Pages \subseteq Idx \X Idx \X Idx
ASSUME 0 \notin DataFrames \cup Pool \cup {Root}

Flags == {"V", "R", "W", "X", "U", "G", "A", "D"}
Tables == {Root} \cup Pool

\* A page-table entry.  The all-zero u64 is the unused entry.
Unused == [ppn |-> 0, flags |-> {}]
Entries == [ppn : {0} \cup DataFrames \cup Tables, flags : SUBSET Flags]

\* PageTableEntryArray::zero / PageTableWith::zero: every entry set_unused.
ZeroTable == [i \in Idx |-> Unused]

VARIABLES
  mem,      \* mem[f][i]: entry i of the table in frame f
  free,     \* frames the frame allocator still holds
  pending,  \* pages whose MapperFlush token is not yet flushed or ignored
  ret,      \* the result the last mapper call returned
  satp,     \* the satp register: Bare, or the token of a root table
  tlb       \* tlb[p]: the cached translation of page p, or Empty

mapperVars == <<mem, free, pending, ret>>
hwVars == <<satp, tlb>>
vars == <<mem, free, pending, ret, satp, tlb>>

---------------------------------------------------------------------------
(* PTE (PageTableEntryX64)                                                 *)

\* is_unused: the u64 is zero
IsUnused(e) == e = Unused

\* Mutant of PteSet: the physical address stored where the frame number goes.
PteSetAddr(ppn, flags) == [ppn |-> ppn * 4096, flags |-> flags \cup {"A", "D"}]

\* set(frame, flags): accessed and dirty are always forced on
PteSet(ppn, flags) == [ppn |-> ppn, flags |-> flags \cup {"A", "D"}]

\* alloc_frame: the frame allocator hands out its lowest free frame.  Only
\* called on a non-empty pool: the caller's s.free = {} test stands for the
\* allocator running out (alloc() returning None).
alloc_frame(fr) == Min(fr)

\* FrameAllocatorForPaging::alloc forwards to alloc_frame.
alloc(fr) == alloc_frame(fr)

---------------------------------------------------------------------------
(* The walker.  A walk state is [mem, free, err, table]: the memory and the *)
(* allocator after the steps so far, Ok or the error returned, and the     *)
(* frame of the table reached.                                             *)

\* Mutants of NextTable: the frame taken is not removed from the
\* allocator; and a new table is allocated over an entry in use.
NextTableNoTake(s, idx) ==
  LET e == s.mem[s.table][idx]
  IN  IF s.err # "Ok" THEN s
      ELSE IF ~IsUnused(e) THEN [s EXCEPT !.table = e.ppn]
      ELSE IF s.free = {} THEN [s EXCEPT !.err = "FrameAllocationFailed"]
      ELSE LET f == alloc(s.free)
           IN  [mem   |-> [s.mem EXCEPT ![s.table][idx] = PteSet(f, {"V"}),
                                        ![f] = ZeroTable],
                free  |-> s.free,
                err   |-> "Ok",
                table |-> f]

NextTableOverwrite(s, idx) ==
  IF s.err # "Ok" THEN s
  ELSE IF s.free = {} THEN [s EXCEPT !.err = "FrameAllocationFailed"]
  ELSE LET f == alloc(s.free)
       IN  [mem   |-> [s.mem EXCEPT ![s.table][idx] = PteSet(f, {"V"}),
                                    ![f] = ZeroTable],
            free  |-> s.free \ {f},
            err   |-> "Ok",
            table |-> f]

\* One half of create_p1_if_not_exist: follow entry idx of table parent, or
\* allocate a frame, install it with VALID and zero it.
NextTable(s, idx) ==
  LET e == s.mem[s.table][idx]
  IN  IF s.err # "Ok" THEN s
      ELSE IF ~IsUnused(e) THEN [s EXCEPT !.table = e.ppn]
      ELSE IF s.free = {} THEN [s EXCEPT !.err = "FrameAllocationFailed"]
      ELSE LET f == alloc(s.free)
           IN  [mem   |-> [s.mem EXCEPT ![s.table][idx] = PteSet(f, {"V"}),
                                        ![f] = ZeroTable],
                free  |-> s.free \ {f},
                err   |-> "Ok",
                table |-> f]

create_p1_if_not_exist(page) ==
  NextTable(NextTable([mem |-> mem, free |-> free, err |-> "Ok", table |-> Root],
                      page[1]),
            page[2])

\* The walk of unmap and ref_entry: the leaf table of page, or NotMapped if
\* the root or middle entry is unused.  Nothing is created.
ref_entry(page) ==
  LET e3 == mem[Root][page[1]]
      e2 == mem[e3.ppn][page[2]]
  IN  IF IsUnused(e3) \/ IsUnused(e2) THEN NotMapped ELSE e2.ppn

\* translate_page: the frame of page, or NoFrame when ref_entry fails or the
\* leaf entry is unused.
translate_page(page) ==
  LET t == ref_entry(page)
  IN  IF t = NotMapped THEN NoFrame
      ELSE IF IsUnused(mem[t][page[3]]) THEN NoFrame
      ELSE mem[t][page[3]].ppn

---------------------------------------------------------------------------
(* Hardware: the Sv39 walk, the TLB and sfence.vma.                        *)

Bare == [mode |-> 0, ppn |-> 0]
Empty == [ppn |-> 0, flags |-> {}]

\* token(): the root frame number with mode 8 (Sv39); ASID 0
Token(root) == [mode |-> 8, ppn |-> root]

\* What the hardware walker makes of page under root: the leaf PTE, or
\* Empty (a fault, which is never cached).  An entry without V faults; an
\* intermediate entry must have R = W = X = 0; a leaf must be readable or
\* executable.
HwWalk(root, page) ==
  LET e3 == mem[root][page[1]]
      e2 == mem[e3.ppn][page[2]]
      e1 == mem[e2.ppn][page[3]]
      Ptr(e) == "V" \in e.flags /\ e.flags \cap {"R", "W", "X"} = {}
  IN  IF ~Ptr(e3) \/ ~Ptr(e2) THEN Empty
      ELSE IF "V" \notin e1.flags \/ e1.flags \cap {"R", "X"} = {} THEN Empty
      ELSE [ppn |-> e1.ppn, flags |-> e1.flags]

\* The hardware caches the translation of any page it can walk.
HwFill(page) ==
  /\ satp # Bare
  /\ HwWalk(satp.ppn, page) # Empty
  /\ tlb' = [tlb EXCEPT ![page] = HwWalk(satp.ppn, page)]
  /\ UNCHANGED <<mapperVars, satp>>

\* The virtual address of a page, from its three indices (scaled).
VA(page) == (page[1] * 2^30) + (page[2] * 2^21) + (page[3] * 2^12)

\* The instruction sfence.vma rs1, rs2 with rs1, rs2 # x0: invalidate the
\* cached translation of the virtual address in rs1, for the address space
\* whose ASID is in rs2.  The kernel's translations are cached under ASID 0.
SfenceVmaInsn(rs1, rs2) ==
  [p \in Pages |-> IF VA(p) \div 2^12 = rs1 \div 2^12 /\ rs2 % 2^ASIDLEN = 0
                   THEN Empty ELSE tlb[p]]

\* sfence_vma(asid, va): asm!("sfence.vma {0}, {1}", in(reg) asid,
\* in(reg) va) places asid in rs1 and va in rs2.
sfence_vma(asid, va) == SfenceVmaInsn(asid, va)

---------------------------------------------------------------------------
(* Mapper                                                                  *)

\* Mutant of map_to: an in-use leaf is overwritten before PageAlreadyMapped
\* is returned.
map_toOverwrite(page, frame, flags) ==
  LET s == create_p1_if_not_exist(page)
  IN  /\ \/ /\ s.err # "Ok"
             /\ ret' = s.err
             /\ UNCHANGED pending
             /\ mem' = s.mem
          \/ /\ s.err = "Ok"
             /\ ~IsUnused(s.mem[s.table][page[3]])
             /\ ret' = "PageAlreadyMapped"
             /\ UNCHANGED pending
             /\ mem' = [s.mem EXCEPT ![s.table][page[3]] = PteSet(frame, flags)]
          \/ /\ s.err = "Ok"
             /\ IsUnused(s.mem[s.table][page[3]])
             /\ ret' = "Ok"
             /\ pending' = pending \cup {page}
             /\ mem' = [s.mem EXCEPT ![s.table][page[3]] = PteSet(frame, flags)]
      /\ free' = s.free

\* map_to(page, frame, flags): a failing create_p1_if_not_exist keeps the
\* tables it already installed; an in-use leaf is PageAlreadyMapped.
map_to(page, frame, flags) ==
  LET s == create_p1_if_not_exist(page)
  IN  /\ \/ /\ s.err # "Ok"
             /\ ret' = s.err
             /\ UNCHANGED pending
             /\ mem' = s.mem
          \/ /\ s.err = "Ok"
             /\ ~IsUnused(s.mem[s.table][page[3]])
             /\ ret' = "PageAlreadyMapped"
             /\ UNCHANGED pending
             /\ mem' = s.mem
          \/ /\ s.err = "Ok"
             /\ IsUnused(s.mem[s.table][page[3]])
             /\ ret' = "Ok"
             /\ pending' = pending \cup {page}
             /\ mem' = [s.mem EXCEPT ![s.table][page[3]] = PteSet(frame, flags)]
      /\ free' = s.free

\* unmap(page): PageNotMapped if an intermediate entry is unused or the
\* leaf lacks VALID; otherwise clear the leaf.
unmap(page) ==
  LET t == ref_entry(page)
  IN  /\ \/ /\ t = NotMapped
             /\ ret' = "PageNotMapped"
             /\ UNCHANGED <<mem, pending>>
          \/ /\ t # NotMapped
             /\ "V" \notin mem[t][page[3]].flags
             /\ ret' = "PageNotMapped"
             /\ UNCHANGED <<mem, pending>>
          \/ /\ t # NotMapped
             /\ "V" \in mem[t][page[3]].flags
             /\ ret' = "Ok"
             /\ mem' = [mem EXCEPT ![t][page[3]] = Unused]
             /\ pending' = pending \cup {page}
      /\ UNCHANGED free

\* update_flags(page, flags): e.set(e.frame(), flags) on the entry ref_entry
\* returns, which it returns whether or not the leaf is in use.
update_flags(page, flags) ==
  LET t == ref_entry(page)
  IN  /\ \/ /\ t = NotMapped
             /\ ret' = "PageNotMapped"
             /\ UNCHANGED <<mem, pending>>
          \/ /\ t # NotMapped
             /\ ret' = "Ok"
             /\ mem' = [mem EXCEPT ![t][page[3]] = PteSet(@.ppn, flags)]
             /\ pending' = pending \cup {page}
      /\ UNCHANGED free

\* MapperFlush::flush: sfence_vma(0, page address); ignore does nothing.
flush(page) ==
  /\ page \in pending
  /\ tlb' = sfence_vma(0, VA(page))
  /\ pending' = pending \ {page}
  /\ UNCHANGED <<mem, free, ret, satp>>

ignore(page) ==
  /\ page \in pending
  /\ pending' = pending \ {page}
  /\ UNCHANGED <<mem, free, ret, satp, tlb>>

---------------------------------------------------------------------------
(* new_bare: the root frame allocated and zeroed; the other frames still   *)
(* with the frame allocator, holding whatever they held.                   *)
Init ==
  /\ mem = [f \in Tables |-> IF f = Root THEN ZeroTable ELSE Junk]
  /\ free = Pool
  /\ pending = {}
  /\ ret = "Ok"
  /\ satp = Bare
  /\ tlb = [p \in Pages |-> Empty]

Next ==
  \/ \E p \in Pages, f \in DataFrames, fl \in MapFlags : map_to(p, f, fl) /\ UNCHANGED hwVars
  \/ \E p \in Pages : unmap(p) /\ UNCHANGED hwVars
  \/ \E p \in Pages, fl \in UpdateFlags : update_flags(p, fl) /\ UNCHANGED hwVars
  \/ \E p \in Pages : flush(p) \/ ignore(p)

Spec == Init /\ [][Next]_vars

---------------------------------------------------------------------------
(* Properties                                                              *)

TypeOK ==
  /\ mem \in [Tables -> [Idx -> Entries]]
  /\ free \subseteq Pool
  /\ pending \subseteq Pages
  /\ ret \in {"Ok", "FrameAllocationFailed", "PageAlreadyMapped", "PageNotMapped"}
  /\ satp \in {Bare} \cup {Token(r) : r \in Tables}
  /\ tlb \in [Pages -> Entries]

\* The frames the entries of table t point to as tables: every entry of the
\* root, and every entry of a table the root points to.
MiddleTables == {mem[Root][i].ppn : i \in {j \in Idx : ~IsUnused(mem[Root][j])}}
LeafTables == UNION {{mem[t][i].ppn : i \in {j \in Idx : ~IsUnused(mem[t][j])}} : t \in MiddleTables}
\* The (table, index) slots of intermediate entries in use.
Slots == UNION {{<<t, i>> : i \in {j \in Idx : ~IsUnused(mem[t][j])}} : t \in {Root} \cup MiddleTables}

(* The tables form a tree rooted at the root frame: every intermediate     *)
(* entry in use points to its own table frame, no two entries to the same  *)
(* frame, none to the root; and a frame is in a table exactly when the     *)
(* frame allocator no longer holds it (no table frame is lost or shared).  *)
PageTableTree ==
  /\ \A s1, s2 \in Slots : mem[s1[1]][s1[2]].ppn = mem[s2[1]][s2[2]].ppn => s1 = s2
  /\ Root \notin MiddleTables \cup LeafTables
  /\ MiddleTables \cap LeafTables = {}
  /\ MiddleTables \cup LeafTables = Pool \ free

(* A map_to that fails (FrameAllocationFailed or PageAlreadyMapped) leaves *)
(* the translation of every page as it was (spec section 8, property 4).   *)
MapToFailurePreservesMappings ==
  [][ret' \in {"FrameAllocationFailed", "PageAlreadyMapped"} =>
       \A p \in Pages : translate_page(p)' = translate_page(p)]_vars

(* What the mapper promises as an address space: pages go from unmapped to *)
(* a caller's frame by map_to and back by unmap, and nothing else changes  *)
(* a translation.                                                          *)
AbstractSpace ==
  INSTANCE AddressSpace WITH
    Frames <- DataFrames,
    NoFrame <- NoFrame,
    mapping <- [p \in Pages |-> translate_page(p)]

AddressSpaceSpec == AbstractSpace!Spec
=============================================================================
