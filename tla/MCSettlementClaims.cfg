SPECIFICATION FairSpec
CONSTANTS
  r1 = r1
  r2 = r2
  r3 = r3
  p1 = p1
  p2 = p2
  Requests = {r1, r2, r3}
  Procs = {p1, p2}
  At <- TwoAndOne
  NoOne = NoOne
  Late = Late
  MaxFailures = 1
  Crashes = TRUE
  PassesFail = TRUE
INVARIANTS AnsweredOnce RecoveredOnce OwedNotServed
PROPERTY NamedSettles
CHECK_DEADLOCK FALSE
