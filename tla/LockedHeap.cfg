\* LockedHeapWithRescue shared by two harts.
CONSTANTS
  ORDER = 5
  WORD = 8
  Regions <- MCRegions
  Layouts <- MCLayouts
  MaxLive <- MCMaxLive
  Procs <- MCProcs
  InitRegion <- MCInitRegion
  RESCUE = TRUE
  MaxHold = 2

SPECIFICATION Spec

INVARIANT LockedHeapTypeOK
INVARIANT AllocPathsSound
INVARIANT HeapIntact
INVARIANT RescueRetrySucceeds

PROPERTY GuardsDropped
