SPECIFICATION FairSpec
CONSTANTS
  a = a  b = b  d1 = d1  d2 = d2  d3 = d3  r1 = r1  r2 = r2  None = None
  Names = {a}  Docs = {d1, d2}  Stems = {a, b}  StemOf <- OwnStem
  Scans = {}  Corrupt = {}  Garbled = {d2}  Requests = {r1}
  WhenFiled = "delete"  WhenRemoved = "trash"
  FreshNames = FALSE  MaxConfig = 1  MaxCrashes = 0
INVARIANTS PendingHasJob
PROPERTIES NeverLeftAnalyzing PendingSettles
CHECK_DEADLOCK FALSE
