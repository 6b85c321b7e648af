SPECIFICATION Spec
CONSTANTS
  u1 = u1  u2 = u2  u3 = u3  p1 = p1  p2 = p2  h = h  None = None
  x = x  x1 = x1  x2 = x2  x3 = x3
  Uploads = {u1, u2, u3}  Pages = {p1, p2}  PageOf <- LastHasOwnPage
  Names = {x, x1, x2, x3}  Wanted <- WantX  Candidates <- Numbered
  Large = {u1, u3}  Fragile = {u1}  ByHand = {}
  MaxCrashes = 1
INVARIANTS NeverOverwritten
CHECK_DEADLOCK FALSE
