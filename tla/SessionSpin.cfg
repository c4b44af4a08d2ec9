CONSTANTS
  a1 = a1  a2 = a2  k1 = k1  k2 = k2
  Wallets = {w1}
  Accounts = {a1, a2}
  Keys = {k1, k2}
  Tasks = {t1, t2}
  Pages <- OnlyTokenless
  None = None
SPECIFICATION FairSpec
PROPERTIES CheckingEnds LogoutLeaves
CHECK_DEADLOCK FALSE
