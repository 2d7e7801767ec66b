SPECIFICATION MCSpec
CONSTANTS
  Sides = {"machine", "package", "signer", "secret", "values", "plugin"}
  Tables <- MCTables
  MONITORS <- MCMonitors
  MOST_BYTES = 40
  Addresses = {100, 200}
  Archives <- MCArchives
  Layouts <- MCLayouts
  OwnImages <- MCOwn
  Pins <- MCPins
  MAX_TAIL = 9
  MAX_BLOCK = 22
  Certificates = {"c1", "c2"}
  CodeImages <- MCImages
  MaxPointer = 9
  MAX_SIGNATURE = 3
  FIRST = 33
  LAST = 39
  MIN_BYTES = 2
  CAP = 4
  BLOCK = 6
  LENGTH = 1
  DIGEST = 4
  INITIAL = 5
  compress <- MCCompress
  Output <- MCOutput
  Targets = {"macos", "windows", "android", "linux"}
  Stateds <- MCStateds
  Seeds <- MCSeeds
  Tokens <- MCTokens
  Identities <- MCObserved
  MAX_EVIDENCE_BYTES = 5
  DIGEST_BYTES = 2
  CategoryOrder <- MCCategoryOrder
  WidthTexts <- MCWidthTexts
  HexTexts <- MCHexTexts
  PlainTexts <- MCPlainTexts
  Denials = {"Integrity", "UiAbuse"}
INVARIANTS
  HandlesReturned
  IosSignatureRead
  BuildAndReadAgree
  HashInputsAreFramed
  ValuesAreKept
  ManagedHandleServes
PROPERTIES
  MachineAnswersTrue
  TracerSeen
  ArchiveAnswersTrue
  AnswersAreGiven
  DeniedStaysDenied
