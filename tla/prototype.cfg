SPECIFICATION FairSpec
CONSTANTS
  None = None
  Space = " "  Illegal = {"/", ":"}
  Sample = {"d1", "d4", "d5", "d6"}
  Docs <- SampleDocs  Order <- SampleOrder  Timers <- SampleTimers
  Patterns <- TwoPatterns  Existing <- EXISTING
  Config <- CONFIG  Text <- CONFIG_TEXT
  Folders = {"finanzen-rechnungen"}  Days = {"2026-06-01"}
  Senders <- TypedSenders  Doctypes <- TypedDoctypes  TypedText <- Texts
  Dashboard = "Zweispaltig"  MaxNotices = 2
INVARIANTS TypeOK ReviewFits ReadyHasSuggestion InForceIsSaved
PROPERTIES ExecutesWithoutConflict RemovedGoes
CHECK_DEADLOCK FALSE
