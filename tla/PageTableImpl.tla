--------------------------- MODULE PageTableImpl ---------------------------
(***************************************************************************)
(* The address-space object PageTableImpl of src/memory/paging.rs: a root  *)
(* table made by new_bare, the wrappers map and unmap, which unwrap the    *)
(* mapper's result (a panic on any error) and flush at once, activate,     *)
(* which installs the token in satp and flushes the whole TLB when it      *)
(* differs from the active one, and the PageEntry that map hands back,     *)
(* whose setters write the leaf entry in place.  The hardware walks the    *)
(* active table and caches what it finds at any moment (HwFill).           *)
(***************************************************************************)
EXTENDS Sv39Mapper

CONSTANT EntryBits  \* the flag sets the PageEntry setters change together

VARIABLES
  entry,     \* the page of the &mut PageEntry the caller holds, or NoEntry
  edited,    \* a setter has written the entry since the last update()
  panicked   \* a wrapper unwrapped an error: the kernel has stopped

implVars == <<entry, edited, panicked>>
allVars == <<vars, implVars>>

\* map returns &mut PageEntry borrowed from self.entry, so the caller can
\* use it only until its next call on the address space; that call ends
\* the borrow, and the model forgets the page then.  A caller that edits
\* the entry calls update() before its next call (the setters do not flush).
NoEntry == <<>>

\* Mutant of map: the physical address passed where the frame number goes
\* (Frame::of_ppn(pa) for Frame::of_addr(pa)).
mapPa(page, frame) ==
  LET s == create_p1_if_not_exist(page)
  IN  /\ ~panicked /\ ~edited
      /\ \/ /\ s.err # "Ok"
            /\ panicked' = TRUE
            /\ mem' = s.mem
            /\ entry' = NoEntry
            /\ UNCHANGED tlb
         \/ /\ s.err = "Ok"
            /\ ~IsUnused(s.mem[s.table][page[3]])
            /\ panicked' = TRUE
            /\ mem' = s.mem
            /\ entry' = NoEntry
            /\ UNCHANGED tlb
         \/ /\ s.err = "Ok"
            /\ IsUnused(s.mem[s.table][page[3]])
            /\ mem' = [s.mem EXCEPT ![s.table][page[3]] = PteSet(frame * 4096, {"V", "R", "W"})]
            /\ tlb' = sfence_vma(0, VA(page))
            /\ entry' = page
            /\ UNCHANGED panicked
      /\ free' = s.free
      /\ UNCHANGED <<pending, ret, satp, edited>>

\* map(va, pa): map_to(page, frame, V|R|W).unwrap().flush(), then
\* get_entry(va).expect(..): ref_entry finds the leaf just written.
map(page, frame) ==
  LET s == create_p1_if_not_exist(page)
  IN  /\ ~panicked /\ ~edited
      /\ \/ /\ s.err # "Ok"
            /\ panicked' = TRUE
            /\ mem' = s.mem
            /\ entry' = NoEntry
            /\ UNCHANGED tlb
         \/ /\ s.err = "Ok"
            /\ ~IsUnused(s.mem[s.table][page[3]])
            /\ panicked' = TRUE
            /\ mem' = s.mem
            /\ entry' = NoEntry
            /\ UNCHANGED tlb
         \/ /\ s.err = "Ok"
            /\ IsUnused(s.mem[s.table][page[3]])
            /\ mem' = [s.mem EXCEPT ![s.table][page[3]] = PteSet(frame, {"V", "R", "W"})]
            /\ tlb' = sfence_vma(0, VA(page))
            /\ entry' = page
            /\ UNCHANGED panicked
      /\ free' = s.free
      /\ UNCHANGED <<pending, ret, satp, edited>>

\* unmap(va): page_table.unmap(page).unwrap(), then flush.  unmap fails
\* when an intermediate entry is unused or the leaf lacks VALID.
unmap_va(page) ==
  LET t == ref_entry(page)
  IN  /\ ~panicked /\ ~edited
      /\ \/ /\ t = NotMapped
            /\ panicked' = TRUE
            /\ UNCHANGED <<mem, tlb>>
         \/ /\ t # NotMapped
            /\ "V" \notin mem[t][page[3]].flags
            /\ panicked' = TRUE
            /\ UNCHANGED <<mem, tlb>>
         \/ /\ t # NotMapped
            /\ "V" \in mem[t][page[3]].flags
            /\ mem' = [mem EXCEPT ![t][page[3]] = Unused]
            /\ tlb' = sfence_vma(0, VA(page))
            /\ UNCHANGED panicked
      /\ entry' = NoEntry
      /\ UNCHANGED <<free, pending, ret, satp, edited>>

\* activate(): write the token and flush everything if it is not the active
\* one; when it is, activate changes nothing (a stuttering step).
activate ==
  /\ ~panicked /\ ~edited
  /\ satp # Token(Root)
  /\ satp' = Token(Root)
  /\ tlb' = [p \in Pages |-> Empty]
  /\ entry' = NoEntry
  /\ UNCHANGED <<mapperVars, edited, panicked>>

---------------------------------------------------------------------------
(* PageEntry: the leaf entry of entry, reached through the raw pointer     *)
(* get_entry stored.  flags_mut rewrites the flag bits and keeps the ppn.  *)

\* The leaf table the held PageEntry points into.
EntryTable == ref_entry(entry)

\* set_present / set_writable / set_user / set_execute (value) and
\* clear_accessed / clear_dirty (value = FALSE): flags_mut().set(bits, value).
SetEntryFlags(bits, value) ==
  /\ entry # NoEntry
  /\ mem' = [mem EXCEPT ![EntryTable][entry[3]].flags =
                          IF value THEN @ \cup bits ELSE @ \ bits]
  /\ edited' = TRUE
  /\ UNCHANGED <<free, pending, ret, hwVars, entry, panicked>>

\* set_target(pa): set(Frame::of_addr(pa), flags()), which forces A and D.
set_target(frame) ==
  /\ entry # NoEntry
  /\ mem' = [mem EXCEPT ![EntryTable][entry[3]] = PteSet(frame, @.flags)]
  /\ edited' = TRUE
  /\ UNCHANGED <<free, pending, ret, hwVars, entry, panicked>>

\* update(): sfence_vma(0, the page's start address).
update ==
  /\ entry # NoEntry
  /\ tlb' = sfence_vma(0, VA(entry))
  /\ edited' = FALSE
  /\ UNCHANGED <<mapperVars, satp, entry, panicked>>

---------------------------------------------------------------------------
ImplInit ==
  /\ Init
  /\ entry = NoEntry
  /\ edited = FALSE
  /\ panicked = FALSE

ImplNext ==
  \/ \E p \in Pages, f \in DataFrames : map(p, f)
  \/ \E p \in Pages : unmap_va(p)
  \/ activate
  \/ \E b \in EntryBits, v \in BOOLEAN : SetEntryFlags(b, v)
  \/ \E f \in DataFrames : set_target(f)
  \/ update
  \/ \E p \in Pages : HwFill(p) /\ ~panicked /\ UNCHANGED implVars

ImplSpec == ImplInit /\ [][ImplNext]_allVars

---------------------------------------------------------------------------
(* Properties                                                              *)

ImplTypeOK ==
  /\ TypeOK
  /\ entry \in Pages \cup {NoEntry}
  /\ edited \in BOOLEAN
  /\ panicked \in BOOLEAN

(* Between calls, with every edit of a PageEntry followed by its update(), *)
(* every translation the TLB holds is the one the active table gives now:  *)
(* map, unmap and update flush the page they change, so no stale           *)
(* translation survives a change of the table.                             *)
TLBCoherent ==
  ~edited =>
  \A p \in Pages : tlb[p] # Empty => satp # Bare /\ tlb[p] = HwWalk(satp.ppn, p)
=============================================================================
