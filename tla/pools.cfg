SPECIFICATION Spec
CONSTANTS
  CalDecimal = 12
  BaseDecimal = 4
  BaseYear = 1
  busd = busd
  btc = btc
  spA = spA
  jpA = jpA
  spB = spB
  jpB = jpB
  Users = {u1}
  Tokens = {busd, btc}
  DebtCoins = {spA, jpA, spB, jpB}
  Addresses = {a1}
  Terms <- MirroredPools
  Prices <- ParPrices
  Amounts = {3}
  Fees = {0}
  MinAmounts = {1}
  Costs = {1}
  Slippage = 1
  BorrowDeposits = TRUE
  MaxPledge = 3
  MaxTime = 3
  MaxPools = 2
INVARIANTS Solvent
