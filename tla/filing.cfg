SPECIFICATION Spec
CONSTANTS
  d1 = d1  d2 = d2  o1 = o1  r1 = r1  r2 = r2  None = None
  t1 = t1  t2 = t2  t3 = t3  x = x
  Docs = {d1, d2}  Others = {o1}  Requests = {r1, r2}
  Targets = {t1, t2, t3}  Missing = {t3}  FileNames = {x}
  WhenFiled = "delete"  MaxCrashes = 1
INVARIANTS FiledCompletely
PROPERTIES RefusedUntouched CopiesOverwriteOnlyNewer KeepsCustody
CHECK_DEADLOCK FALSE
