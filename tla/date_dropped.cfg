SPECIFICATION Spec
CONSTANTS
  t1 = t1  t2 = t2  None = None
  Space = " "  Illegal = {"/", ":"}
  Configs = {1, 2}  Template <- Templates  DefaultPattern <- Defaults
  SummaryMode <- Modes  Format <- GermanFormats  Written <- BothFormats
  Days <- TwoDays  Found = {"may"}
  Suggested <- Suggestion  Typed <- TypedTexts  SuggestedPattern = "long"
  Targets <- Folders  Recommended = {t1}  Places <- SameName  MaxLate = 1
INVARIANT FiledUnderItsDate
CHECK_DEADLOCK FALSE
