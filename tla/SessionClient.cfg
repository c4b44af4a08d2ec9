CONSTANTS
  x1 = x1  x2 = x2  s1 = s1  s2 = s2
  Contexts = {x1, x2}
  Calls = {c1, c2}
  Keys = {k1}
  Sponsors = {s1, s2}
  Programs = {p1}
  Apps <- AllApps
  MaxTime = 1
  MaxFee = 1
  None = None
SPECIFICATION Spec
SYMMETRY Symmetry
INVARIANTS SCTypeOK PayerIsFeePayer DeadSessionNoLogin
CHECK_DEADLOCK FALSE
