SPECIFICATION FairSpec
CONSTANTS
  a = a  b = b  d1 = d1  d2 = d2  d3 = d3  r1 = r1  r2 = r2  None = None
  Names = {a, b}  Docs = {d1, d2}  Stems = {a, b}  StemOf <- OwnStem
  Scans = {d2}  Corrupt = {}  Garbled = {}  Requests = {}
  WhenFiled = "delete"  WhenRemoved = "trash"
  FreshNames = FALSE  MaxConfig = 1  MaxCrashes = 1
INVARIANTS ExtractedOnce
PROPERTIES InboxListed ReanalysisRuns
CHECK_DEADLOCK FALSE
