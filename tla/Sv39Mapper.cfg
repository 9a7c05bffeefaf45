CONSTANTS
  Idx = {0, 1}
  Pages <- MCPages
  DataFrames = {10, 11}
  Root = 1
  Pool = {2, 3, 4}
  Junk <- MCJunk
  MapFlags <- MCMapFlags
  UpdateFlags <- MCUpdateFlags
  ASIDLEN = 16

SPECIFICATION Spec

INVARIANT TypeOK
 
PROPERTY MapToFailurePreservesMappings
CONSTANTS NotMapped = NotMapped  NoFrame = NoFrame
