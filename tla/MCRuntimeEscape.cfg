SPECIFICATION Spec
CONSTANTS
  h1 = h1
  h2 = h2
  Worker = Worker
  NoThread = NoThread
  Hosts <- MCHosts
  Runtimes = {"r1", "r2"}
  Categories <- MCCategories
  Detectors <- MCDetectors
  CategoryOf <- MCCategoryOf
  CheapScan <- MCCheapScan
  ExtraScan <- MCExtraScan
  HostReport = "ui"
  Environments <- CallbackEnvironments
  HostObservations <- OverlayOnly
  Configs <- CallbackConfigs
  Clock <- MCClock
  MaxOccurrences = 1
  MOST_REPORTS = 1
  Unwinds = TRUE
PROPERTIES
  LatchPermanent
