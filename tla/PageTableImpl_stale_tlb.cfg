CONSTANTS
  Idx = {0, 1}
  Pages <- MCPages
  DataFrames = {10, 11}
  Root = 1
  Pool = {2, 3, 4, 5}
  Junk <- MCJunk
  MapFlags <- MCMapFlags
  UpdateFlags <- MCUpdateFlags
  EntryBits <- MCEntryBits
  ASIDLEN = 16
  NotMapped = NotMapped
  NoFrame = NoFrame

SPECIFICATION ImplSpec

\* a panic halts the kernel: the states after one have no successor
CHECK_DEADLOCK FALSE

INVARIANT TLBCoherent
