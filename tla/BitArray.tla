------------------------------ MODULE BitArray ------------------------------
(***************************************************************************)
(* The BitArray trait for slices [T] of a BitField type T, as              *)
(* src/register/bit_field.rs implements it: a bit position or a range of   *)
(* the whole slice is split into element indices (/ T::BIT_LENGTH) and     *)
(* bit positions inside the element (% T::BIT_LENGTH), and the calls are   *)
(* the numeric BitField calls of module BitField on one element, or on two *)
(* adjacent ones.  self[i] with i >= LEN panics (index out of bounds).     *)
(*                                                                         *)
(* The harness state is one receiver slice; a failed assertion or index    *)
(* ends the call with outcome "panic" and, as in BitField, the receiver    *)
(* unchanged (the kernel stops on a panic).  The reference reads the slice *)
(* as one integer of LEN * BIT_LENGTH bits, element 0 lowest.              *)
(***************************************************************************)
EXTENDS Naturals

CONSTANTS
  BIT_LENGTH,      \* T::BIT_LENGTH
  SIGNED,          \* T is a signed type
  LEN,             \* self.len()
  SliceRanges,     \* the ranges passed to get_bits and set_bits
  SliceValues,     \* the values passed to set_bits
  SlicePositions   \* the bit positions passed to get_bit and set_bit

ASSUME LEN \in Nat \ {0}

VARIABLES
  slice,     \* the receiver (&mut [T]): slice[i] is self[i]
  soutcome   \* how the last call ended: "ok" or "panic"

svars == <<slice, soutcome>>

\* The numeric impl for T; only its operators are used.
T == INSTANCE BitField WITH word <- 0, outcome <- "ok",
                            Ranges <- {}, Values <- {}, Positions <- {}

\* The slice as one unsigned integer, for the reference.
W == INSTANCE BitField WITH BIT_LENGTH <- LEN * BIT_LENGTH, SIGNED <- FALSE,
                            word <- 0, outcome <- "ok",
                            Ranges <- {}, Values <- {}, Positions <- {}

\* bit_length(): self.len() * T::BIT_LENGTH.
bit_length == LEN * BIT_LENGTH

\* The half-open range s..e that the code passes to an element call.
Rg(s, e) == [start |-> [kind |-> "Included", value |-> s],
             end   |-> [kind |-> "Excluded", value |-> e]]

\* self[i] is in bounds.
InBounds(i) == i < LEN

\* Range::len(): 0 for an empty or reversed range.
RangeLen(rr) == IF rr.start < rr.end THEN rr.end - rr.start ELSE 0

\* slice_start, slice_end, bit_start and bit_end of a regular range.
Split(rr) ==
  [ss |-> rr.start \div BIT_LENGTH, se |-> rr.end \div BIT_LENGTH,
   bs |-> rr.start % BIT_LENGTH,    be |-> rr.end % BIT_LENGTH]

\* The two assertions of get_bits and set_bits: range.len() <= BIT_LENGTH,
\* and slice_end - slice_start <= 1, whose usize subtraction panics on
\* underflow (debug) or wraps to a value failing the assertion (release).
SliceAsserts(rr) ==
  LET p == Split(rr)
  IN  RangeLen(rr) <= BIT_LENGTH /\ p.ss <= p.se /\ p.se - p.ss <= 1

Ok(v) == [ok |-> TRUE, val |-> v]
Panic == [ok |-> FALSE, val |-> 0]

\* get_bit(bit) and set_bit(bit, value): the element is self[bit / BIT_LENGTH].
slice_get_bit(a, bit) ==
  T!get_bit(a[bit \div BIT_LENGTH], bit % BIT_LENGTH)

slice_set_bit(a, bit, value) ==
  [a EXCEPT ![bit \div BIT_LENGTH] = T!set_bit(@, bit % BIT_LENGTH, value)]

\* Mutant of slice_get_bits: the bit_end == 0 branch dropped.
slice_get_bitsNoWhole(a, r) ==
  LET rr == T!to_regular_range(r, bit_length)
      p  == Split(rr)
      hr == Rg(BIT_LENGTH - p.bs, RangeLen(rr))
      lo == T!get_bits(a[p.ss], Rg(p.bs, BIT_LENGTH))
      hi == T!get_bits(a[p.se], Rg(0, p.be))
  IN  CASE ~SliceAsserts(rr) -> Panic
        [] p.ss = p.se ->
             IF InBounds(p.ss) /\ T!RangeOk(Rg(p.bs, p.be))
             THEN Ok(T!get_bits(a[p.ss], Rg(p.bs, p.be))) ELSE Panic
        [] OTHER ->
             IF InBounds(p.se) /\ T!RangeOk(Rg(0, p.be)) /\ T!Fits(hr, hi)
             THEN Ok(T!set_bits(lo, hr, hi)) ELSE Panic

\* get_bits(range): one element, the top of one element, or the top of
\* self[slice_start] with the bottom of self[slice_end] set above it.
slice_get_bits(a, r) ==
  LET rr == T!to_regular_range(r, bit_length)
      p  == Split(rr)
      hr == Rg(BIT_LENGTH - p.bs, RangeLen(rr))
      lo == T!get_bits(a[p.ss], Rg(p.bs, BIT_LENGTH))
      hi == T!get_bits(a[p.se], Rg(0, p.be))
  IN  CASE ~SliceAsserts(rr) -> Panic
        [] p.ss = p.se ->
             IF InBounds(p.ss) /\ T!RangeOk(Rg(p.bs, p.be))
             THEN Ok(T!get_bits(a[p.ss], Rg(p.bs, p.be))) ELSE Panic
        [] p.be = 0 ->
             IF InBounds(p.ss) THEN Ok(lo) ELSE Panic
        [] OTHER ->
             IF InBounds(p.se) /\ T!RangeOk(Rg(0, p.be)) /\ T!Fits(hr, hi)
             THEN Ok(T!set_bits(lo, hr, hi)) ELSE Panic

\* Mutant of slice_set_bits: the high part of value taken from bit_start.
slice_set_bitsHighFromStart(a, r, v) ==
  LET rr == T!to_regular_range(r, bit_length)
      p  == Split(rr)
      one == Rg(p.bs, p.be)
      top == Rg(p.bs, BIT_LENGTH)
      low == Rg(0, p.be)
      vlo == T!get_bits(v, Rg(0, BIT_LENGTH - p.bs))
      vhi == T!get_bits(v, Rg(p.bs, BIT_LENGTH))
  IN  CASE ~SliceAsserts(rr) -> Panic
        [] p.ss = p.se ->
             IF InBounds(p.ss) /\ T!RangeOk(one) /\ T!Fits(one, v)
             THEN Ok([a EXCEPT ![p.ss] = T!set_bits(@, one, v)]) ELSE Panic
        [] p.be = 0 ->
             IF InBounds(p.ss) /\ T!Fits(top, v)
             THEN Ok([a EXCEPT ![p.ss] = T!set_bits(@, top, v)]) ELSE Panic
        [] OTHER ->
             IF InBounds(p.se) /\ T!Fits(top, vlo) /\ T!Fits(low, vhi)
             THEN Ok([a EXCEPT ![p.ss] = T!set_bits(@, top, vlo),
                               ![p.se] = T!set_bits(@, low, vhi)])
             ELSE Panic

\* set_bits(range, value): the same three cases; across two elements the
\* low BIT_LENGTH - bit_start bits of value go to the top of
\* self[slice_start] and the rest to the bottom of self[slice_end].
slice_set_bits(a, r, v) ==
  LET rr == T!to_regular_range(r, bit_length)
      p  == Split(rr)
      one == Rg(p.bs, p.be)
      top == Rg(p.bs, BIT_LENGTH)
      low == Rg(0, p.be)
      vlo == T!get_bits(v, Rg(0, BIT_LENGTH - p.bs))
      vhi == T!get_bits(v, Rg(BIT_LENGTH - p.bs, BIT_LENGTH))
  IN  CASE ~SliceAsserts(rr) -> Panic
        [] p.ss = p.se ->
             IF InBounds(p.ss) /\ T!RangeOk(one) /\ T!Fits(one, v)
             THEN Ok([a EXCEPT ![p.ss] = T!set_bits(@, one, v)]) ELSE Panic
        [] p.be = 0 ->
             IF InBounds(p.ss) /\ T!Fits(top, v)
             THEN Ok([a EXCEPT ![p.ss] = T!set_bits(@, top, v)]) ELSE Panic
        [] OTHER ->
             IF InBounds(p.se) /\ T!Fits(top, vlo) /\ T!Fits(low, vhi)
             THEN Ok([a EXCEPT ![p.ss] = T!set_bits(@, top, vlo),
                               ![p.se] = T!set_bits(@, low, vhi)])
             ELSE Panic

---------------------------------------------------------------------------
(* The harness: calls on one receiver slice.                               *)

SliceSetBit(bit, value) ==
  \/ /\ InBounds(bit \div BIT_LENGTH)
     /\ slice' = slice_set_bit(slice, bit, value)
     /\ soutcome' = "ok"
  \/ /\ ~InBounds(bit \div BIT_LENGTH)
     /\ soutcome' = "panic"
     /\ UNCHANGED slice

SliceSetBits(r, value) ==
  LET res == slice_set_bits(slice, r, value)
  IN  /\ slice' = IF res.ok THEN res.val ELSE slice
      /\ soutcome' = IF res.ok THEN "ok" ELSE "panic"

SliceInit ==
  /\ slice = [i \in 0 .. LEN - 1 |-> 0]
  /\ soutcome = "ok"

SliceNext ==
  \/ \E b \in SlicePositions, v \in BOOLEAN : SliceSetBit(b, v)
  \/ \E r \in SliceRanges, v \in SliceValues : SliceSetBits(r, v)

---------------------------------------------------------------------------
(* The reference: spec section 4.1 on the slice read as one integer.      *)

Val(a) ==
  LET V[n \in 0 .. LEN] ==
        IF n = 0 THEN 0 ELSE V[n - 1] + a[n - 1] * 2^((n - 1) * BIT_LENGTH)
  IN  V[LEN]

\* A valid slice range: non-empty, within the slice, at most one T wide.
RefSliceValid(r) ==
  W!RefValid(r) /\ W!RefRange(r).hi - W!RefRange(r).lo <= BIT_LENGTH

---------------------------------------------------------------------------
(* Properties                                                              *)

BitArrayTypeOK ==
  /\ slice \in [0 .. LEN - 1 -> 0 .. (2^BIT_LENGTH - 1)]
  /\ soutcome \in {"ok", "panic"}

(* The slice get_bits and get_bit agree with the reference on every slice  *)
(* the calls reach: get_bits panics exactly for a range that is empty,     *)
(* reversed, past the slice's end or wider than T, and otherwise returns   *)
(* the range's bits whether they lie in one element, reach the end of one  *)
(* (bit_end == 0), or straddle two; get_bit panics exactly past the end.   *)
SliceGetBitsExact ==
  /\ \A r \in SliceRanges :
        LET g == slice_get_bits(slice, r)
        IN  /\ g.ok <=> RefSliceValid(r)
            /\ g.ok => g.val = W!BitsOf(Val(slice), W!RefRange(r).lo,
                                        W!RefRange(r).hi)
  /\ \A b \in SlicePositions :
        b < bit_length =>
          (slice_get_bit(slice, b) <=> W!BitsOf(Val(slice), b, b + 1) = 1)

(* The slice set_bits, on every slice the calls reach, changes exactly    *)
(* the range's bits of the slice to the value, the parts of a straddling   *)
(* range split at the element boundary (the low BIT_LENGTH - bit_start     *)
(* bits of value into self[slice_start]), and panics exactly for an        *)
(* invalid range or a value wider than it; set_bit changes exactly its     *)
(* bit.                                                                    *)
SliceSetBitsExact ==
  /\ \A r \in SliceRanges, v \in SliceValues :
        LET res == slice_set_bits(slice, r, v)
        IN  /\ res.ok <=> RefSliceValid(r) /\ W!RefFits(r, v)
            /\ res.ok => Val(res.val) = W!RefSet(Val(slice), r, v)
  /\ \A b \in SlicePositions, v \in BOOLEAN :
        b < bit_length =>
          Val(slice_set_bit(slice, b, v)) =
            W!RefSet(Val(slice), Rg(b, b + 1), IF v THEN 1 ELSE 0)
=============================================================================
