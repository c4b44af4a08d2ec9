CONSTANTS
  Chars = {"0", "1", "5", "-", "."}
  MaxLen = 5
  AllDecimals = {0, 1, 2, 3}
  Balances <- MCBalances
  MaxU64 = 1100
  Followed <- MCFollowed
  Keys = {1, 2, 3}
  Extras = {0}
  MaxSigners = 3
  MessageLen = 300
SPECIFICATION MSpec
INVARIANTS AmountReadBack IntentReadBack
CHECK_DEADLOCK FALSE
