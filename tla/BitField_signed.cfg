\* BitField for i8, the same macro instantiated for a signed type: every
\* receiver set_bit and set_bits reach from 0.
CONSTANTS
  SIGNED = TRUE
  BIT_LENGTH = 8
  Ranges <- MCRanges
  Values <- MCValues
  Positions <- MCPositions
SPECIFICATION MCSpec
INVARIANT GetBitsExact
