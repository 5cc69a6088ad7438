SPECIFICATION Spec
CONSTANTS
  Sessions <- MCSessions
  Claims <- MCClaims
  Servers <- MCServers
  SessionOf <- MCSessionOf
  ServerOf <- MCServerOf
  Email <- MCEmail
  Card <- MCCard
  Pack <- MCPack
  DailyMax = 3
  NoTaxId = {}
  RefundedBefore = {"a"}
  SharedStore = TRUE
  CardReadFails = TRUE
  StripeFails = TRUE
  Crashes = TRUE
  NoClaim = NoClaim
INVARIANTS TypeOK OneKeyPerSession KeyOrRefund RefundedIsTrue DailyLimit
PROPERTIES ImplementsPackPurchase
CHECK_DEADLOCK FALSE
