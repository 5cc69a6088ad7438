SPECIFICATION FairSpec
CONSTANTS
  Sessions <- MCSessions
  Claims <- MCTwoClaims
  Servers <- MCServers
  SessionOf <- MCSessionOf
  ServerOf <- MCServerOf
  Email <- MCEmail
  Card <- MCCard
  Pack <- MCPack
  DailyMax = 3
  NoTaxId = {}
  RefundedBefore = {"a", "b"}
  SharedStore = TRUE
  CardReadFails = TRUE
  StripeFails = TRUE
  Crashes = TRUE
  NoClaim = NoClaim
PROPERTIES ClaimsEnd RefusedIsRefunded
CHECK_DEADLOCK FALSE
