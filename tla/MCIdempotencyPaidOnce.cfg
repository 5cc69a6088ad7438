SPECIFICATION Spec
CONSTANTS
  c1 = c1  c2 = c2  c3 = c3  p1 = p1  p2 = p2
  Calls = {c1, c2}
  Procs = {p1, p2}
  NoCall = NoCall
  At <- Two
  Failures = FALSE
  Crashes = FALSE
INVARIANT PaidOnce
CHECK_DEADLOCK FALSE
