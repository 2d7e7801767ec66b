SPECIFICATION Spec
CONSTANTS
  h1 = h1
  h2 = h2
  Worker = Worker
  NoThread = NoThread
  Hosts <- OneHost
  Runtimes = {"r1"}
  Categories <- MCCategories
  Detectors <- MCDetectors
  CategoryOf <- MCCategoryOf
  CheapScan <- MCCheapScan
  ExtraScan <- MCExtraScan
  HostReport = "ui"
  Environments <- MCEnvironments
  HostObservations <- MCHostObservations
  Configs <- ResponseConfigs
  Clock <- MCClock
  MaxOccurrences = 1
  MOST_REPORTS = 1
  Unwinds = FALSE
INVARIANTS
  CrashNeverLost
  InitialCrashStopsStart
  ReportInv
