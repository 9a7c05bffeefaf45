----------------------------- MODULE MC_BitField -----------------------------
(* BitField for u8 (BIT_LENGTH 8).  The ranges take every kind of bound:   *)
(* start from 0, inside and at the width; end at 0, inside, at and past the *)
(* width.  The values fit every width, some widths only, or no width.      *)
(*                                                                         *)
(* BitArray on a slice of three elements, scaled to a 4-bit T so that      *)
(* every slice the calls reach is explored.  The ranges lie in one         *)
(* element, end at an element's end (the bit_end == 0 branch), straddle    *)
(* two elements, straddle past the end, or are empty, reversed, past the   *)
(* end or wider than T.  The two harnesses share no state: a behaviour     *)
(* exercises one of them (harness), so their state spaces add up.          *)
EXTENDS BitField

Inc(n) == [kind |-> "Included", value |-> n]
Exc(n) == [kind |-> "Excluded", value |-> n]
Unb    == [kind |-> "Unbounded", value |-> 0]

MCRanges ==
  [start : {Unb, Inc(3), Exc(3), Inc(8)},
   end   : {Unb, Exc(0), Inc(4), Exc(8), Inc(8)}]

MCValues == {0, 5, 12, 255}

MCPositions == 0 .. 8

R(s, e) == [start |-> s, end |-> e]

\* 0..3 and 5..=5 in one element; 5..8 and 9.. up to an element's end;
\* 3..6 and 7..10 across two elements; 10..14 across the end; 12..14 past it; 8..8
\* empty; 5..3 reversed across elements; 1..7 wider than T.
MCSliceRanges ==
  {R(Unb, Exc(3)), R(Exc(4), Inc(5)), R(Exc(4), Exc(8)), R(Exc(8), Unb),
   R(Inc(3), Exc(6)), R(Exc(6), Inc(9)), R(Inc(10), Exc(14)), R(Inc(12), Exc(14)),
   R(Inc(8), Exc(8)), R(Inc(5), Exc(3)), R(Inc(1), Exc(7))}

MCSliceValues == {1, 3, 6, 15}

MCSlicePositions == {0, 3, 4, 11, 12}

VARIABLES slice, soutcome, harness

A == INSTANCE BitArray WITH BIT_LENGTH <- 4, LEN <- 3,
       SliceRanges <- MCSliceRanges, SliceValues <- MCSliceValues,
       SlicePositions <- MCSlicePositions

MCInit ==
  /\ harness \in {"numeric", "slice"}
  /\ Init
  /\ A!SliceInit

MCNext ==
  \/ harness = "numeric" /\ Next /\ UNCHANGED <<slice, soutcome, harness>>
  \/ harness = "slice" /\ A!SliceNext /\ UNCHANGED <<word, outcome, harness>>

MCSpec == MCInit /\ [][MCNext]_<<word, outcome, slice, soutcome, harness>>

BitArrayTypeOK == A!BitArrayTypeOK

(* The slice get_bits and get_bit agree with the reference (BitArray).     *)
SliceGetBitsExact == A!SliceGetBitsExact

(* The slice set_bits and set_bit change exactly the range (BitArray).     *)
SliceSetBitsExact == A!SliceSetBitsExact
=============================================================================
