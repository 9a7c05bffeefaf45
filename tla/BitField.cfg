\* BitField for u8, and BitArray on a slice of a 4-bit type: every receiver
\* the calls reach from 0.
CONSTANTS
  SIGNED = FALSE
  BIT_LENGTH = 8
  Ranges <- MCRanges
  Values <- MCValues
  Positions <- MCPositions
SPECIFICATION MCSpec
INVARIANTS BitFieldTypeOK GetBitsExact SetBitsExact BitArrayTypeOK SliceGetBitsExact SliceSetBitsExact
