SPECIFICATION ApiSpec
CONSTANTS
  Keys = {"admin"}
  Numbers = {"1"}
  Requests = {r1, r2}
  Settings = {s1, s2}
  Chains = {97}
  ExpireTime = 2
  MaxTokens = 2
  MaxEvents = 1
  PoolIds = {1, 2, 3}
  Tokens = {t1}
  PageSizes = {1, 2}
  MaxState = 1
  Goroutines = {g1, g2}
  MapKeys = {k1, k2}
  Values = {x1}
  nil = nil
  Data = {"1", "a"}
  MaxLife = 2
  MaxItems = 2
  NaN = NaN
  Lengths = {1, 2, 5, 6, 11, 20, 21}
  NarrowLimit = 4
  MaxAmount = 5
  StartLimitBurst = 2
  MaxPanics = 1
INVARIANTS SetAloneReplaces PagesMissNone OneTakesKey LifetimeOrError MailsAreTrue HelpersAgree
PROPERTIES AdmittedOnlyLoggedIn CountIsKept ComesBack
