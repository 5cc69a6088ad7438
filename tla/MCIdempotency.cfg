SPECIFICATION FairSpec
CONSTANTS
  c1 = c1  c2 = c2  c3 = c3  p1 = p1  p2 = p2
  Calls = {c1, c2, c3}
  Procs = {p1, p2}
  NoCall = NoCall
  At <- TwoAndOne
  Failures = TRUE
  Crashes = TRUE
INVARIANTS LocalFloor SharedExclusion AnswerBeforeFree
PROPERTY ClaimFreed
CHECK_DEADLOCK FALSE
