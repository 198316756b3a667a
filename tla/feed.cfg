SPECIFICATION Spec
CONSTANTS
  Keys = {"plgr_price"}
  Numbers = {}
  Clients = {c1, c2}
  MaxPrice = 3
  PriceChanCap = 1
  UserPingPongDurTime = 1
  c1 = c1
  c2 = c2
  Limits <- OneOrTwoBrowsers
INVARIANTS NoGaps
PROPERTIES PricesReachBrowsers DeadConnectionsClose
CHECK_DEADLOCK FALSE
