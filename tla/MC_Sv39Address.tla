---------------------------- MODULE MC_Sv39Address ----------------------------
(* The address layout scaled down with its proportions kept: an 8-bit word *)
(* (u64), a 2-bit page offset, 1-bit indices, so a 5-bit virtual address  *)
(* with 3 sign-extension bits above it; p3_index may have 3 bits, 2 more   *)
(* than an index (11 = 9 + 2), which land on the first two sign-extension *)
(* bits as in the code; physical addresses have 7 bits (56 of 64).  Every  *)
(* word is a raw address; the indices run one past what their assertions  *)
(* allow; page numbers run over what number() can return, and frame      *)
(* numbers up to those whose shift by the offset width overflows the word.*)
(* The same harness makes the satp calls of Satp, on a 10-bit satp: a      *)
(* 4-bit mode field (as in the code, to hold 8..11), a 2-bit ASID and a    *)
(* 4-bit page number, the ASIDs and page numbers running one past their   *)
(* fields' widths.  Both modules make one call and return its word.       *)
(* PageRange runs on the same 8-bit usize with 4-byte pages, from start   *)
(* and end addresses at 0, inside, at and across page boundaries, and at  *)
(* the top of the address space.                                          *)
EXTENDS Sv39Address

VARIABLE items   \* PageRange's items

MCWord == 8
MCOffsetBits == 2
MCIndexBits == 1
MCP3IndexBits == MCIndexBits + 2
MCPaBits == MCWord - 1

MCCalls ==
  [op : {"va_new", "page_of_addr", "pa_new"}, args : {<<a>> : a \in 0 .. (2^MCWord - 1)}]
  \cup [op : {"from_indices"},
        args : (0 .. 2^MCP3IndexBits) \X (0 .. 2^MCIndexBits)
                 \X (0 .. 2^MCIndexBits) \X (0 .. 2^MCOffsetBits)]
  \cup [op : {"of_vpn"}, args : {<<n>> : n \in 0 .. (2^(MCOffsetBits + 3 * MCIndexBits - MCOffsetBits) - 1)}]
  \cup [op : {"of_ppn"}, args : {<<n>> : n \in 0 .. (2^(MCWord - MCOffsetBits + 1) - 1)}]
  \cup [op : {"set"}, args : {0, 8, 9, 10, 11} \X  \* the discriminants of satp::Mode
                           (0 .. 4) \X (0 .. 16)]
  \cup [op : {"token"}, args : {<<n>> : n \in 0 .. 16}]
  \cup [op : {"page_range"}, args : {0, 1, 4, 5, 7, 8, 250, 255} \X {0, 1, 4, 5, 7, 8, 250, 255}]

S == INSTANCE Satp WITH XLEN <- 10, ASID_SHIFT <- 4, MODE_SHIFT <- 6, Calls <- MCCalls

P == INSTANCE PageRange WITH WORD <- MCWord, PAGE_SHIFT <- MCOffsetBits, Calls <- MCCalls

\* Every call of the three modules, returned once.
MCNext ==
  \/ (Next \/ S!Next) /\ UNCHANGED items
  \/ P!Next
\* A call of the three modules, none returned yet.
MCInit == Init /\ P!Init

MCSpec == MCInit /\ [][MCNext]_<<vars, items>>

(* satp::set reads back as the mode, ASID and page number it was given and *)
(* refuses a field too wide (Satp!SatpRoundTrip).                          *)
SatpRoundTrip == S!SatpRoundTrip

(* PageTableImpl::token is the word satp::set(Sv39, 0, root) writes        *)
(* (Satp!TokenIsSv39Root).                                                 *)
TokenIsSv39Root == S!TokenIsSv39Root

(* Iterating PageRange::new(start, end) over a non-empty range yields the *)
(* start of every page overlapping [start, end), in order                 *)
(* (PageRange!PageRangeExact).                                             *)
PageRangeExact == P!PageRangeExact
=============================================================================
