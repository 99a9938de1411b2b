SPECIFICATION FairSpec
CONSTANTS
  s1 = s1
  s2 = s2
  Requests = {r1, r2, r3}
  Sources = {s1, s2}
  Fingerprints <- Mixed
  BurstWindow = 1
  BurstRequestThreshold = 2
  ScannerScoreThreshold = 60
  NotificationCooldown = 1
  MaxClock = 1
INVARIANTS BurstCountExact NotificationsSpaced SuppressedOnlyAfterDelivery
PROPERTIES EveryCallReturns LedgerSpec
