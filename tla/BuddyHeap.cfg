CONSTANTS
  ORDER = 6
  WORD = 8
  Regions <- MCRegions
  Layouts <- MCLayouts
  MaxLive = 4

SPECIFICATION Spec

INVARIANT TypeOK
INVARIANT BuddyAligned
 
INVARIANT StatsMatchLive
INVARIANT MaximallyCoalesced

PROPERTY AllocatorSpec
