SPECIFICATION GovernanceSpec
CONSTANTS
  o1 = o1
  o2 = o2
  o3 = o3
  Accounts = {o1, o2, o3}
  Callers = {o1}
  pool = pool
  Clients = {pool}
  self = self
  InitialOwners <- TwoOwners
  Threshold = 2
  MaxApplications = 2
  MaxCalls = 1
  Underlyings = {0, 1, 7}
  chainlink = chainlink
  Aggregators = {chainlink}
  none = none
  Prices = {0, 4}
  Answers <- SomeAnswers
  TokenDecimals = {0, 1, 2, 3}
  Scales = {0, 1, 2}
  Precision = 2
  Width = 10
INVARIANTS TypeOK OneVoteEach SignersHeldSeats OnlyFirstIsSigned UnitsCancel
PROPERTIES ImplementsCommittee
