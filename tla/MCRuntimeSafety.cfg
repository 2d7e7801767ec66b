SPECIFICATION Spec
CONSTANTS
  h1 = h1
  h2 = h2
  Worker = Worker
  NoThread = NoThread
  Hosts <- MCHosts
  Runtimes = {"r1"}
  Categories <- MCCategories
  Detectors <- MCDetectors
  CategoryOf <- MCCategoryOf
  CheapScan <- MCCheapScan
  ExtraScan <- MCExtraScan
  HostReport = "ui"
  Environments <- SafetyEnvironments
  HostObservations <- OverlayOnly
  Configs <- SafetyConfigs
  Clock <- MCClock
  MaxOccurrences = 1
  MOST_REPORTS = 1
  Unwinds = FALSE
SYMMETRY HostSymmetry
INVARIANTS
  TypeOK
  LatchesAgree
  LatchExplained
  DenyTakesEffect
  IInv
  SlotIsSafe
PROPERTIES
  LatchPermanent
  WindowClosesOnce
  ImplementsGate
