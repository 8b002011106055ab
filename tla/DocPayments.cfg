SPECIFICATION FairRoundsSpec
CONSTANTS
  c1 = c1
  c2 = c2
  d1 = d1
  Accounts = {c1, c2, d1}
  Joiners = {c1, c2}
  Backers = {d1}
  MaxTopDelegationsPerCandidate = 1
  MaxBottomDelegationsPerCandidate = 1
  MaxDelegationsPerDelegator = 1
  BondAmounts = {1}
  Amounts = {1}
  Endowment = 2
  MinCandidateStk = 1
  MinDelegatorStk = 1
  MinDelegation = 1
  LeaveCandidatesDelay = 1
  CandidateBondLessDelay = 1
  LeaveDelegatorsDelay = 1
  RevokeDelegationDelay = 1
  DelegationBondLessDelay = 1
  MaxRound = 4
  RewardPaymentDelay = 1
  MinBlocksPerRound = 1
  DefaultBlocksPerRound = 2
  MinSelectedCandidates = 1
  MinCollatorStk = 1
  Lengths = {1, 2}
  SelectedCounts = {1, 2}
  MaxExtrinsics = 3
CHECK_DEADLOCK FALSE
PROPERTY AwardedArePaid
