----------------------------- MODULE Sv39Address -----------------------------
(***************************************************************************)
(* The typed addresses of src/memory/address.rs: VirtAddrSv39 and          *)
(* PhysAddrSv39 with their constructors and the getters built on           *)
(* BitField, and the constructors of PageWith and FrameWith.  The widths   *)
(* are constants: WORD for u64, OFFSET_BITS for the 12-bit page offset,    *)
(* INDEX_BITS for a 9-bit page-table index, P3_INDEX_BITS for the 11 bits  *)
(* from_page_table_indices allows its p3_index, PA_BITS for the 56 bits of *)
(* a physical address; a virtual address has VA_BITS (39) bits.            *)
(*                                                                         *)
(* Each behaviour is one call: Init picks the call and its arguments, and  *)
(* one step returns its result, or a panic for a failed assertion (which   *)
(* aborts the kernel, so nothing follows it).                              *)
(***************************************************************************)
EXTENDS Integers, Bitwise

CONSTANTS
  WORD, OFFSET_BITS, INDEX_BITS, P3_INDEX_BITS, PA_BITS,
  Calls   \* the calls to check: [op, args] records

VA_BITS == OFFSET_BITS + 3 * INDEX_BITS

ASSUME VA_BITS < WORD /\ P3_INDEX_BITS < WORD /\ PA_BITS < WORD

VARIABLES
  call,   \* the call being made
  out     \* its result: Pending, Ok(value) or Panic

vars == <<call, out>>

BF == INSTANCE BitField WITH BIT_LENGTH <- WORD, SIGNED <- FALSE, Ranges <- {}, Values <- {},
                             Positions <- {}, word <- 0, outcome <- "ok"

\* The ranges a..b and a.. of the source.
Rg(a, b) == [start |-> [kind |-> "Included", value |-> a],
             end   |-> [kind |-> "Excluded", value |-> b]]
From(a) == [start |-> [kind |-> "Included", value |-> a],
            end   |-> [kind |-> "Unbounded", value |-> 0]]

Pending == [panicked |-> FALSE, val |-> -1]
Panic == [panicked |-> TRUE, val |-> -1]
Ok(v) == [panicked |-> FALSE, val |-> v]

\* (1 << (64 - 39)) - 1: the sign-extension bits all set.
SextOnes == 2^(WORD - VA_BITS) - 1

---------------------------------------------------------------------------
(* VirtAddrSv39                                                            *)

\* Mutant of va_sext_ok: the sign taken from bit 39 rather than bit 38.
va_sext_okBit39(addr) ==
  IF BF!get_bit(addr, VA_BITS)
  THEN BF!get_bits(addr, Rg(VA_BITS, WORD)) = SextOnes
  ELSE BF!get_bits(addr, Rg(VA_BITS, WORD)) = 0

\* new_u64's assertion "va 39..64 is not sext".
va_sext_ok(addr) ==
  IF BF!get_bit(addr, VA_BITS - 1)
  THEN BF!get_bits(addr, Rg(VA_BITS, WORD)) = SextOnes
  ELSE BF!get_bits(addr, Rg(VA_BITS, WORD)) = 0

va_new_u64(addr) == IF va_sext_ok(addr) THEN Ok(addr) ELSE Panic

page_number(va) == BF!get_bits(va, Rg(OFFSET_BITS, VA_BITS))
page_offset(va) == BF!get_bits(va, Rg(0, OFFSET_BITS))
p1_index(va) == BF!get_bits(va, Rg(OFFSET_BITS, OFFSET_BITS + INDEX_BITS))
p2_index(va) == BF!get_bits(va, Rg(OFFSET_BITS + INDEX_BITS, OFFSET_BITS + 2 * INDEX_BITS))
p3_index(va) == BF!get_bits(va, Rg(OFFSET_BITS + 2 * INDEX_BITS, VA_BITS))

\* (addr >> 12) << 12
to_4k_aligned(addr) == BF!Shl(BF!Shr(addr, OFFSET_BITS), OFFSET_BITS)

\* The four width assertions of from_page_table_indices.
IndicesFit(p3, p2, p1, offset) ==
  /\ BF!get_bits(p3, From(P3_INDEX_BITS)) = 0
  /\ BF!get_bits(p2, From(INDEX_BITS)) = 0
  /\ BF!get_bits(p1, From(INDEX_BITS)) = 0
  /\ BF!get_bits(offset, From(OFFSET_BITS)) = 0

\* (p3 << 12 << 9 << 9) | (p2 << 12 << 9) | (p1 << 12) | offset
Assemble(p3, p2, p1, offset) ==
  LET Shl(x, n) == BF!Shl(x, n)
  IN  Shl(Shl(Shl(p3, OFFSET_BITS), INDEX_BITS), INDEX_BITS)
        | Shl(Shl(p2, OFFSET_BITS), INDEX_BITS) | Shl(p1, OFFSET_BITS) | offset

\* Mutant of from_page_table_indices: the sign taken from bit 39.
from_page_table_indicesSextBit(p3, p2, p1, offset) ==
  LET addr == Assemble(p3, p2, p1, offset)
      sext == IF BF!get_bit(addr, VA_BITS)
              THEN BF!set_bits(addr, Rg(VA_BITS, WORD), SextOnes)
              ELSE BF!set_bits(addr, Rg(VA_BITS, WORD), 0)
  IN  IF IndicesFit(p3, p2, p1, offset) THEN va_new_u64(sext) ELSE Panic

from_page_table_indices(p3, p2, p1, offset) ==
  LET addr == Assemble(p3, p2, p1, offset)
      sext == IF BF!get_bit(addr, VA_BITS - 1)
              THEN BF!set_bits(addr, Rg(VA_BITS, WORD), SextOnes)
              ELSE BF!set_bits(addr, Rg(VA_BITS, WORD), 0)
  IN  IF IndicesFit(p3, p2, p1, offset) THEN va_new_u64(sext) ELSE Panic

---------------------------------------------------------------------------
(* PhysAddrSv39, PageWith, FrameWith                                       *)

\* Mutant of pa_new_u64: the check starts one bit too high.
pa_new_u64High(addr) ==
  IF BF!get_bits(addr, Rg(PA_BITS + 1, WORD)) = 0 THEN Ok(addr) ELSE Panic

\* new_u64's assertion "Sv39 does not allow pa 56..64!=0".
pa_new_u64(addr) ==
  IF BF!get_bits(addr, Rg(PA_BITS, WORD)) = 0 THEN Ok(addr) ELSE Panic

pa_page_number(pa) == BF!get_bits(pa, Rg(OFFSET_BITS, PA_BITS))

\* FrameWith::of_ppn: T::new_u64((ppn as u64) << 12).
of_ppn(ppn) == pa_new_u64(BF!Shl(ppn, OFFSET_BITS))

\* PageWith::of_addr(VirtAddrSv39::new(addr)): new_u64, then to_4k_aligned.
page_of_addr(addr) ==
  IF va_sext_ok(addr) THEN Ok(to_4k_aligned(addr)) ELSE Panic

\* PageWith::of_vpn: T::new(vpn << 12), which is new_u64.
of_vpn(vpn) == va_new_u64(BF!Shl(vpn, OFFSET_BITS))

---------------------------------------------------------------------------
(* One call                                                                *)

Return(result) ==
  /\ out = Pending
  /\ out' = result
  /\ UNCHANGED call

VaNew == call.op = "va_new" /\ Return(va_new_u64(call.args[1]))

FromIndices ==
  /\ call.op = "from_indices"
  /\ Return(from_page_table_indices(call.args[1], call.args[2],
                                    call.args[3], call.args[4]))

OfAddr == call.op = "page_of_addr" /\ Return(page_of_addr(call.args[1]))

OfVpn == call.op = "of_vpn" /\ Return(of_vpn(call.args[1]))

PaNew == call.op = "pa_new" /\ Return(pa_new_u64(call.args[1]))

OfPpn == call.op = "of_ppn" /\ Return(of_ppn(call.args[1]))

Init ==
  /\ call \in Calls
  /\ out = Pending

Next == VaNew \/ FromIndices \/ OfAddr \/ OfVpn \/ PaNew \/ OfPpn

Spec == Init /\ [][Next]_vars

---------------------------------------------------------------------------
(* The reference (spec sections 3, 4.3 and 8), by place values.            *)

\* Bits VA_BITS.. equal the sign extension of bit VA_BITS - 1.
Canonical(a) == a < 2^(VA_BITS - 1) \/ a >= 2^WORD - 2^(VA_BITS - 1)

Done(op) == call.op = op /\ out # Pending

---------------------------------------------------------------------------
(* Properties                                                              *)

(* Spec 8.1: constructing a virtual address from a raw 64-bit value gives  *)
(* back exactly that value when bits 39..64 are the sign extension of bit  *)
(* 38, and fails otherwise (VirtAddrSv39::new_u64's assertion).            *)
VaNewExact ==
  Done("va_new") =>
    out = IF Canonical(call.args[1]) THEN Ok(call.args[1]) ELSE Panic

(* Spec 8.2 and 4.3: for indices and an offset within their widths,        *)
(* from_page_table_indices returns a canonical address whose p3, p2 and p1 *)
(* indices and offset are the ones given: the shifts place them and the    *)
(* sign extension of bit 38 fills bits 39..64 without touching them.       *)
IndicesRoundTrip ==
  LET a == call.args
  IN  Done("from_indices")
      /\ a[1] < 2^INDEX_BITS /\ a[2] < 2^INDEX_BITS /\ a[3] < 2^INDEX_BITS
      /\ a[4] < 2^OFFSET_BITS
      => /\ ~out.panicked
         /\ Canonical(out.val)
         /\ <<p3_index(out.val), p2_index(out.val), p1_index(out.val),
              page_offset(out.val)>> = a

(* Spec 4.3 and 7: an index or offset exceeding its width is a fatal       *)
(* error: from_page_table_indices must not return for it.                  *)
OversizedIndexFatal ==
  LET a == call.args
  IN  Done("from_indices")
      /\ \/ a[1] >= 2^INDEX_BITS \/ a[2] >= 2^INDEX_BITS
         \/ a[3] >= 2^INDEX_BITS \/ a[4] >= 2^OFFSET_BITS
      => out = Panic

(* Spec 3 and 4.3: a physical address has bits 56..64 zero, and its       *)
(* construction fails otherwise; the page of a virtual address is its      *)
(* address with the 12 offset bits cleared; a frame made from a frame      *)
(* number within the 44 bits has that number; a page made from a page      *)
(* number is the page of that number, and fails when the number is of the  *)
(* upper half, whose address vpn << 12 is not sign-extended.               *)
NumbersExact ==
  /\ Done("pa_new") =>
       out = IF call.args[1] < 2^PA_BITS THEN Ok(call.args[1]) ELSE Panic
  /\ Done("page_of_addr") =>
       out = IF Canonical(call.args[1])
             THEN Ok(call.args[1] - (call.args[1] % 2^OFFSET_BITS)) ELSE Panic
  /\ Done("of_ppn") /\ call.args[1] < 2^(PA_BITS - OFFSET_BITS) =>
       ~out.panicked /\ pa_page_number(out.val) = call.args[1]
  /\ Done("of_vpn") =>
       IF call.args[1] < 2^(VA_BITS - OFFSET_BITS - 1)
       THEN ~out.panicked /\ page_number(out.val) = call.args[1]
       ELSE out = Panic
=============================================================================
