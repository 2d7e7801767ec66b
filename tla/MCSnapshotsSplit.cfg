SPECIFICATION MCSpec
CONSTANTS
  Sides = {"regions"}
  Pages = 3
  MAX_REGIONS = 2
  Listings <- MCListings
  MaxSlot = 3
  MaxValue = 2
  MAX_TARGETS = 2
  Tables <- MCTables
  MAX_RESPONSE_BYTES = 5
  Streams <- MCStreams
  Worlds <- MCWorlds
  Required <- MCRequired
  Images <- MCImages
  Page = 2
  MaxAddress = 30
  MAX_LOADED = 2
  Kinds <- MCKinds
  Top = 2
  MAX_PASSES = 3
  ElfImages <- MCElfImages
  MachImages <- MCMachImages
  PeImages <- MCPeImages
  ANCHOR = 10
  LIMIT = 2
  MAX_POINTER_SECTIONS = 1
INVARIANT
  OpenedCodeReported
