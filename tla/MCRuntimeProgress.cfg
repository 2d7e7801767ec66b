SPECIFICATION FairSpec
CONSTANTS
  h1 = h1
  h2 = h2
  Worker = Worker
  NoThread = NoThread
  Hosts <- OneHost
  Runtimes = {"r1"}
  Categories <- MCCategories
  Detectors <- MCDetectors
  CategoryOf <- MCCategoryOf
  CheapScan <- MCCheapScan
  ExtraScan <- MCExtraScan
  HostReport = "ui"
  Environments <- ProgressEnvironments
  HostObservations <- OverlayOnly
  Configs <- ProgressConfigs
  Clock <- MCClock
  MaxOccurrences = 1
  MOST_REPORTS = 1
  Unwinds = TRUE
PROPERTIES
  StartsSettle
  WaitersReleased
  ReportsTaken
  CrashHappens
