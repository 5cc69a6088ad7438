SPECIFICATION FairSpec
CONSTANTS
  Boxes = {b1, b2}
  Journals = {"redis", "disk"}
  MaxTakeovers = 1
  ClaimCap = 3
  LostReplies = TRUE
  Crashes = TRUE
INVARIANTS RefundIsRecorded DeliveredIsKept
PROPERTY PaidEnds
CHECK_DEADLOCK FALSE
