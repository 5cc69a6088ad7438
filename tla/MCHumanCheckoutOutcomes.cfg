SPECIFICATION Spec
CONSTANTS
  Boxes = {b1, b2}
  Journals = {"redis"}
  MaxTakeovers = 1
  ClaimCap = 3
  LostReplies = FALSE
  Crashes = FALSE
INVARIANT OneOutcome
CHECK_DEADLOCK FALSE
