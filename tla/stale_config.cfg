SPECIFICATION Spec
CONSTANTS
  a = a  b = b  d1 = d1  d2 = d2  d3 = d3  r1 = r1  r2 = r2  None = None
  Names = {a}  Docs = {d1}  Stems = {a, b}  StemOf <- OwnStem
  Scans = {}  Corrupt = {}  Garbled = {}  Requests = {}
  WhenFiled = "delete"  WhenRemoved = "trash"
  FreshNames = TRUE  MaxConfig = 1  MaxCrashes = 0
INVARIANTS CurrentWhenQuiet
CHECK_DEADLOCK FALSE
