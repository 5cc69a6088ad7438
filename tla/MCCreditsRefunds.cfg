SPECIFICATION Spec
CONSTANTS
  c1 = c1
  c2 = c2
  Calls = {c1, c2}
  Servers = {s1}
  Loaded = 4
  Untracked = 1
  MeterCharges = {}
  RefundTotals = {1, 4}
  Disputes = TRUE
  Operator = TRUE
  Crashes = FALSE
  LostReplies = FALSE
  RefreshFails = TRUE
  Window = 3
  SettleFor = 2
  RefreshFor = 2
  Keep = 4
  KeepMax = 2
  Price <- MCPrice
SYMMETRY Symmetry
INVARIANTS RefundTakenOnce CauseIsStrongest
PROPERTIES ImplementsPrepaidKey
