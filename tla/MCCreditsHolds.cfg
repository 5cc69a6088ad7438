SPECIFICATION Spec
CONSTANTS
  c1 = c1
  c2 = c2
  Calls = {c1, c2}
  s1 = s1
  s2 = s2
  Servers = {s1, s2}
  Loaded = 5
  Untracked = 1
  MeterCharges = {1}
  RefundTotals = {}
  Disputes = FALSE
  Operator = FALSE
  Crashes = TRUE
  LostReplies = TRUE
  RefreshFails = TRUE
  Window = 2
  SettleFor = 1
  RefreshFor = 2
  Keep = 2
  KeepMax = 1
  Price <- MCPrice
SYMMETRY Symmetry
INVARIANTS Conservation SoldOnce ChargedIsServed
PROPERTIES HoldEndsOnce MarkedIsCharged ImplementsPrepaidKey
