SPECIFICATION FairSpec
CONSTANTS
  s1 = s1  s2 = s2  r1 = r1  r2 = r2  r3 = r3
  Calls = {r1, r2, r3}
  Servers = {s1, s2}
  ServerOf <- TwoServers
  Lone = s1
  Modes = {"required", "optional", "none"}
  Outages = TRUE
  Crashes = TRUE
  NoCall = NoCall
INVARIANT OneRunAtATime
PROPERTIES GrantedOnce FreeIsNeverCharged ImplementsOneUse ClaimFreed
CHECK_DEADLOCK FALSE
