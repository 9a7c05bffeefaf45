------------------------------ MODULE BitField ------------------------------
(***************************************************************************)
(* The BitField trait for the unsigned integer types, as the macro         *)
(* bitfield_numeric_impl of src/register/bit_field.rs implements it, for a *)
(* type of BIT_LENGTH bits, unsigned or (SIGNED) two's complement.  A     *)
(* value is its bit pattern, a natural below 2^BIT_LENGTH.  A range is a   *)
(* pair of RangeBounds ends, turned into start..end by to_regular_range.   *)
(* Bits shifted out are lost; >> shifts in zeros for the unsigned types    *)
(* and copies of the sign bit for the signed ones, as Rust's >> does.      *)
(*                                                                         *)
(* The operators are checked against a reference written with place        *)
(* values (the bits of x from s to e are (x \div 2^s) % 2^(e-s)), by a     *)
(* harness whose state is one receiver, changed by set_bit and set_bits.  *)
(* A failed assertion ends the call: the receiver is unchanged and the    *)
(* call's outcome is "panic".                                              *)
(***************************************************************************)
EXTENDS Naturals, Bitwise

CONSTANTS
  BIT_LENGTH,  \* size_of::<Self>() * 8
  SIGNED,      \* Self is one of i8 .. isize
  Ranges,      \* the ranges callers pass: [start |-> Bound, end |-> Bound]
  Values,      \* the values passed to set_bits
  Positions    \* the bit positions passed to get_bit and set_bit

Bound == [kind : {"Included", "Excluded", "Unbounded"}, value : Nat]

ASSUME BIT_LENGTH \in Nat \ {0} /\ SIGNED \in BOOLEAN
ASSUME Ranges \subseteq [start : Bound, end : Bound]

VARIABLES
  word,     \* the receiver (&mut self)
  outcome   \* how the last call ended: "ok" or "panic"

vars == <<word, outcome>>

Top == 2^BIT_LENGTH

\* Mutant of Shl: the bits shifted out kept, as in a wider type.
ShlWide(x, n) == x * 2^n

\* x << n, x >> n and !x on Self (n < BIT_LENGTH).
Shl(x, n) == (x * 2^n) % Top
Shr(x, n) ==
  IF SIGNED /\ x >= 2^(BIT_LENGTH - 1)
  THEN x \div 2^n + (Top - 2^(BIT_LENGTH - n))
  ELSE x \div 2^n
BitNot(x) == Top - 1 - x

to_regular_range(r, bit_length) ==
  [start |-> CASE r.start.kind = "Excluded" -> r.start.value + 1
               [] r.start.kind = "Included" -> r.start.value
               [] r.start.kind = "Unbounded" -> 0,
   end   |-> CASE r.end.kind = "Excluded" -> r.end.value
               [] r.end.kind = "Included" -> r.end.value + 1
               [] r.end.kind = "Unbounded" -> bit_length]

\* get_bit / set_bit: assert!(bit < BIT_LENGTH).
BitOk(bit) == bit < BIT_LENGTH

get_bit(x, bit) == (x & Shl(1, bit)) # 0

set_bit(x, bit, value) ==
  IF value THEN x | Shl(1, bit) ELSE x & BitNot(Shl(1, bit))

\* The three range assertions of get_bits and set_bits.
RangeOk(r) ==
  LET rr == to_regular_range(r, BIT_LENGTH)
  IN  rr.start < BIT_LENGTH /\ rr.end <= BIT_LENGTH /\ rr.start < rr.end

\* Mutant of get_bits: the high bits cleared by shifting by end, not by
\* BIT_LENGTH - end.
get_bitsShiftEnd(x, r) ==
  LET rr == to_regular_range(r, BIT_LENGTH)
  IN  Shr(Shr(Shl(x, rr.end), rr.end), rr.start)

get_bits(x, r) ==
  LET rr == to_regular_range(r, BIT_LENGTH)
      k  == BIT_LENGTH - rr.end
  IN  Shr(Shr(Shl(x, k), k), rr.start)

\* set_bits' fourth assertion: "value does not fit into bit range".
Fits(r, value) ==
  LET rr == to_regular_range(r, BIT_LENGTH)
      k  == BIT_LENGTH - (rr.end - rr.start)
  IN  Shr(Shl(value, k), k) = value

\* Mutant of set_bits: the mask keeps one bit too few above the range.
set_bitsMaskShort(x, r, value) ==
  LET rr == to_regular_range(r, BIT_LENGTH)
      k  == BIT_LENGTH - rr.end
      bitmask == BitNot(Shl(Shr(Shr(Shl(Top - 1, k + 1), k + 1), rr.start), rr.start))
  IN  (x & bitmask) | Shl(value, rr.start)

set_bits(x, r, value) ==
  LET rr == to_regular_range(r, BIT_LENGTH)
      k  == BIT_LENGTH - rr.end
      bitmask == BitNot(Shl(Shr(Shr(Shl(Top - 1, k), k), rr.start), rr.start))
  IN  (x & bitmask) | Shl(value, rr.start)

---------------------------------------------------------------------------
(* The harness: calls on one receiver.                                     *)

SetBit(bit, value) ==
  \/ /\ BitOk(bit)
     /\ word' = set_bit(word, bit, value)
     /\ outcome' = "ok"
  \/ /\ ~BitOk(bit)
     /\ outcome' = "panic"
     /\ UNCHANGED word

SetBits(r, value) ==
  \/ /\ RangeOk(r) /\ Fits(r, value)
     /\ word' = set_bits(word, r, value)
     /\ outcome' = "ok"
  \/ /\ ~(RangeOk(r) /\ Fits(r, value))
     /\ outcome' = "panic"
     /\ UNCHANGED word

Init ==
  /\ word = 0
  /\ outcome = "ok"

Next ==
  \/ \E b \in Positions, v \in BOOLEAN : SetBit(b, v)
  \/ \E r \in Ranges, v \in Values : SetBits(r, v)

Spec == Init /\ [][Next]_vars

---------------------------------------------------------------------------
(* The reference: spec section 4.1, by place values.                      *)

\* The bits of x from position s (included) to e (excluded).
BitsOf(x, s, e) == (x \div 2^s) % 2^(e - s)

\* The range a RangeBounds denotes, read off its ends.
RefRange(r) ==
  [lo |-> IF r.start.kind = "Unbounded" THEN 0
          ELSE r.start.value + (IF r.start.kind = "Excluded" THEN 1 ELSE 0),
   hi |-> IF r.end.kind = "Unbounded" THEN BIT_LENGTH
          ELSE r.end.value + (IF r.end.kind = "Included" THEN 1 ELSE 0)]

\* The call may proceed: the range is non-empty and within the width.
RefValid(r) == RefRange(r).lo < RefRange(r).hi /\ RefRange(r).hi <= BIT_LENGTH

RefFits(r, v) == v < 2^(RefRange(r).hi - RefRange(r).lo)

RefSet(x, r, v) ==
  LET g == RefRange(r)
  IN  x + (v - BitsOf(x, g.lo, g.hi)) * 2^g.lo

---------------------------------------------------------------------------
(* Properties                                                              *)

BitFieldTypeOK ==
  /\ word \in 0 .. (Top - 1)
  /\ outcome \in {"ok", "panic"}

(* get_bits and get_bit on every receiver the calls reach agree with the   *)
(* reference: get_bits panics exactly for an empty or too wide range, and  *)
(* otherwise returns the bits of the range, shifted down; the shift pair   *)
(* << (BIT_LENGTH - end) >> (BIT_LENGTH - end) must clear exactly the bits *)
(* above the range, with to_regular_range's bound conversions.             *)
GetBitsExact ==
  /\ \A r \in Ranges :
        /\ RangeOk(r) <=> RefValid(r)
        /\ RefValid(r) => get_bits(word, r) = BitsOf(word, RefRange(r).lo, RefRange(r).hi)
  /\ \A b \in Positions :
        BitOk(b) => (get_bit(word, b) <=> BitsOf(word, b, b + 1) = 1)

(* set_bits, on every receiver the calls reach, changes exactly the bits  *)
(* of the range to the value and leaves every other bit as it was, and it  *)
(* panics exactly when the range is invalid or the value has bits beyond   *)
(* the range's width (the mask built from four shifts and the shift-pair   *)
(* fit test); set_bit sets or clears the one bit.                          *)
SetBitsExact ==
  /\ \A r \in Ranges, v \in Values :
        /\ (RangeOk(r) /\ Fits(r, v)) <=> (RefValid(r) /\ RefFits(r, v))
        /\ RefValid(r) /\ RefFits(r, v) =>
              set_bits(word, r, v) = RefSet(word, r, v)
  /\ \A b \in Positions, v \in BOOLEAN :
        BitOk(b) =>
          set_bit(word, b, v) =
            RefSet(word, [start |-> [kind |-> "Included", value |-> b],
                          end |-> [kind |-> "Excluded", value |-> b + 1]],
                   IF v THEN 1 ELSE 0)
=============================================================================
