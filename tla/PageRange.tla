------------------------------ MODULE PageRange ------------------------------
(***************************************************************************)
(* PageRange of src/memory/paging.rs: new(start_addr, end_addr) keeps the  *)
(* page numbers start_addr / PAGE_SIZE and (end_addr - 1) / PAGE_SIZE + 1, *)
(* and Iterator::next yields start << 12 and increments start until it     *)
(* reaches end.  The widths are constants: WORD (usize, 64) and PAGE_SHIFT *)
(* (12; PAGE_SIZE is 1 << 12).  end_addr - 1 underflows for end_addr = 0: *)
(* a debug build panics, a release build wraps to usize::MAX, and the      *)
(* model takes either.  As in Sv39Address, each behaviour is one call,     *)
(* here new() followed by next() until it returns None, whose items are    *)
(* the call's result (items).                                              *)
(***************************************************************************)
EXTENDS Naturals, Sequences, SequencesExt

CONSTANTS
  WORD, PAGE_SHIFT,
  Calls   \* [op |-> "page_range", args |-> <<start_addr, end_addr>>]

VARIABLES
  call,   \* the call being made
  out,    \* Pending, Panic, or the number of items the loop took
  items   \* the items the loop took, in order

vars == <<call, out, items>>

PAGE_SIZE == 2^PAGE_SHIFT
USIZE == 2^WORD

Pending == [panicked |-> FALSE, val |-> -1]
Panic == [panicked |-> TRUE, val |-> -1]
Ok(v) == [panicked |-> FALSE, val |-> v]

\* Mutant of new: the end rounded down, end_addr / PAGE_SIZE.
newRoundDown(start_addr, end_addr) ==
  {Ok([start |-> start_addr \div PAGE_SIZE, end |-> end_addr \div PAGE_SIZE])}

\* PageRange::new: the outcomes the build can produce.
new(start_addr, end_addr) ==
  LET last == IF end_addr = 0 THEN USIZE - 1 ELSE end_addr - 1
      r    == [start |-> start_addr \div PAGE_SIZE, end |-> last \div PAGE_SIZE + 1]
  IN  IF end_addr = 0 THEN {Panic, Ok(r)} ELSE {Ok(r)}

\* Iterator::next: Some(start << 12) with start advanced, or None.
next(r) ==
  IF r.start < r.end
  THEN [some |-> TRUE, item |-> (r.start * PAGE_SIZE) % USIZE,
        rest |-> [r EXCEPT !.start = @ + 1]]
  ELSE [some |-> FALSE]

\* The items of a for loop over the iterator.
RECURSIVE Collect(_)
Collect(r) ==
  LET n == next(r)
  IN  IF n.some THEN <<n.item>> \o Collect(n.rest) ELSE <<>>

Return(result) ==
  /\ out = Pending
  /\ out' = result
  /\ UNCHANGED call

NewAndIterate ==
  /\ call.op = "page_range"
  /\ \E n \in new(call.args[1], call.args[2]) :
       IF n.panicked
       THEN Return(Panic) /\ UNCHANGED items
       ELSE LET seq == Collect(n.val)
            IN  Return(Ok(Len(seq))) /\ items' = seq

Init ==
  /\ call \in Calls
  /\ out = Pending
  /\ items = <<>>

Next == NewAndIterate

Spec == Init /\ [][Next]_vars

---------------------------------------------------------------------------
(* Properties                                                              *)

\* The start addresses of the pages that share an address with [lo, hi),
\* none when the range is empty.
PagesMeeting(lo, hi) ==
  {p * PAGE_SIZE : p \in {q \in 0 .. (USIZE \div PAGE_SIZE - 1) :
                             lo < hi /\ q * PAGE_SIZE < hi /\ lo < (q + 1) * PAGE_SIZE}}

\* seq holds the elements of S once each, in increasing order.
Enumerates(seq, S) ==
  /\ Range(seq) = S
  /\ \A i \in 1 .. Len(seq) - 1 : seq[i] < seq[i + 1]

(* For a non-empty range start_addr < end_addr, iterating                  *)
(* PageRange::new(start_addr, end_addr) does not panic and yields, in      *)
(* increasing order and once each, the start address of every page that    *)
(* overlaps [start_addr, end_addr): from the page holding start_addr       *)
(* (rounded down) to the page holding end_addr - 1 (rounded up), the       *)
(* shift << 12 losing no bits.  Empty and reversed ranges, end_addr = 0    *)
(* among them, are outside what this property states.                      *)
PageRangeExact ==
  LET s == call.args[1]
      e == call.args[2]
  IN  call.op = "page_range" /\ out # Pending /\ s < e =>
        /\ out # Panic
        /\ Enumerates(items, PagesMeeting(s, e))
=============================================================================
