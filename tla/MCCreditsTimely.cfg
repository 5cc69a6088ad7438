SPECIFICATION FairSpec
CONSTANTS
  c1 = c1
  c2 = c2
  Calls = {c1, c2}
  Servers = {s1, s2}
  Loaded = 4
  Untracked = 0
  MeterCharges = {}
  RefundTotals = {}
  Disputes = FALSE
  Operator = FALSE
  Crashes = TRUE
  LostReplies = TRUE
  RefreshFails = FALSE
  Window = 3
  SettleFor = 2
  RefreshFor = 2
  Keep = 4
  KeepMax = 2
  Price <- MCPrice
INVARIANTS RetryFindsRecord
PROPERTIES RunningHoldIsKept HoldsDrain
