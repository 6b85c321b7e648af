SPECIFICATION FairSpec
CONSTANTS
  a = a  b = b  d1 = d1  d2 = d2  d3 = d3  r1 = r1  r2 = r2  None = None
  Names = {a}  Docs = {d1, d2}  Stems = {a, b}  StemOf <- OwnStem
  Scans = {d2}  Corrupt = {}  Garbled = {}  Requests = {r1, r2}
  WhenFiled = "delete"  WhenRemoved = "trash"
  FreshNames = TRUE  MaxConfig = 0  MaxCrashes = 1
INVARIANTS TypeOK SuggestionFits ArtifactFits ErrorFolderUnreadable NothingLost
PROPERTIES FiledAsReviewed DropAnalyzed KeepsCustody
CHECK_DEADLOCK FALSE
