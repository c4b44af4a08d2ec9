CONSTANTS
  a1 = a1  a2 = a2  k1 = k1  k2 = k2
  Wallets = {w1}
  Accounts = {a1, a2}
  Keys = {k1, k2}
  Tasks = {t1, t2}
  Pages <- AllPages
  None = None
SPECIFICATION Spec
SYMMETRY Symmetry
INVARIANTS SPTypeOK SessionOfItsAccount CancelledStaysCancelled UnlimitedOnlyIfEnabled
CHECK_DEADLOCK FALSE
