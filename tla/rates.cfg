SPECIFICATION Spec
CONSTANTS
  CalDecimal = 12
  BaseDecimal = 4
  BaseYear = 1
  busd = busd
  btc = btc
  spA = spA
  jpA = jpA
  spB = spB
  jpB = jpB
  Users = {u1}
  Tokens = {busd, btc}
  DebtCoins = {spA, jpA}
  Addresses = {a1}
  Terms <- LargePool
  Prices <- RoughPrices
  Amounts = {3, 4}
  Fees = {0, 2}
  MinAmounts = {1}
  Costs = {1, 2}
  Slippage = 1
  BorrowDeposits = TRUE
  MaxPledge = 4
  MaxTime = 3
  MaxPools = 1
INVARIANTS LendersKeepLoanAndInterest
PROPERTIES SettlesSoundly
