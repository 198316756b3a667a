SPECIFICATION Spec
CONSTANTS
  CalDecimal = 12
  BaseDecimal = 4
  BaseYear = 1
  busd = busd
  btc = btc
  spA = spA
  jpA = jpA
  spB = spB
  jpB = jpB
  Users = {u1, u2}
  Tokens = {busd, btc}
  DebtCoins = {spA, jpA}
  Addresses = {a1, a2}
  Terms <- SharedPools
  Prices <- ExactPrices
  Amounts = {2, 3}
  Fees = {0}
  MinAmounts = {1, 2}
  Costs = {1, 2}
  Slippage = 1
  BorrowDeposits = FALSE
  MaxPledge = 4
  MaxTime = 3
  MaxPools = 2
SYMMETRY Symmetry
INVARIANTS NoLoanWithoutCollateral HoldsExactlyStakes
