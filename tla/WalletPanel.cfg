CONSTANTS
  a1 = a1  a2 = a2  t1 = t1  t2 = t2
  Accounts = {a1, a2}
  Slots = {t1, t2}
  Worlds <- AllWorlds
  Tokens = {"native", "usdc", "wrapped"}
  MaxFee = 1
  MaxBalance = 2
  MaxNonce = 1
  None = None
  Loading = Loading
SPECIFICATION Spec
SYMMETRY Symmetry
INVARIANTS TransferAsShown OneAtATime SubmittingIsAnswered
CHECK_DEADLOCK FALSE
