SPECIFICATION Spec
CONSTANTS
  r1 = r1
  r2 = r2
  r3 = r3
  p1 = p1
  p2 = p2
  Requests = {r1, r2, r3}
  Procs = {p1, p2}
  NoRequest = NoRequest
  At <- Apart
  Leases = TRUE
  Refunds = TRUE
  Crashes = TRUE
INVARIANTS SentOnce ServedNotRefunded DebtStands
PROPERTY VoidIsFinal
CHECK_DEADLOCK FALSE
