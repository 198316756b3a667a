SPECIFICATION Spec
CONSTANTS
  t1 = t1
  Keys = {t1}
  Numbers = {}
  Runs <- OneRunEach
  plgr = t1
  plgrPrice = 1
  dumped = 1
  Prices = {1, 2, 5}
  FirstPrices = {2}
  PriceLimit = 4
  unset = unset
  sym = sym
  listSym = sym
  png = png
  remotePng = remotePng
  RemoteLogo <- RemotePng
  LocalLogo <- LocalPng
  Faults = {"find", "chain", "http", "get", "select", "create", "set", "save"}
  MaxBusy = 2
  MaxEvents = 2
INVARIANTS OnlyQuotedPrices NeverCreatesByValue
PROPERTIES MarksOnlySavedFiles RedisFollowsChain RestartRepairs
