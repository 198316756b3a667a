SPECIFICATION Spec
CONSTANTS
  Keys <- PrintKeys
  Numbers = {}
  Runs = {1, 2}
  MaxPools = 2
  MaxVersion = 1
  Faults <- AllCalls
  Limits <- OneOrTwoPools
INVARIANTS OneRowPerPool PrintsDescribeRows DataNotBehind
PROPERTIES PoolsFollowChain
