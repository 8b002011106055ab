SPECIFICATION RootSpec
CONSTANTS
  c1 = c1
  c2 = c2
  d1 = d1
  d2 = d2
  d3 = d3
  d4 = d4
  Accounts = {d1, d2}
  Joiners = {d1, d2}
  Backers = {d1, d2}
  MaxTopDelegationsPerCandidate = 1
  MaxBottomDelegationsPerCandidate = 1
  MaxDelegationsPerDelegator = 2
  BondAmounts = {2}
  Amounts = {1, 2}
  Endowment = 3
  MinCandidateStk = 2
  MinDelegatorStk = 1
  MinDelegation = 1
  LeaveCandidatesDelay = 1
  CandidateBondLessDelay = 1
  LeaveDelegatorsDelay = 1
  RevokeDelegationDelay = 1
  DelegationBondLessDelay = 1
  MaxRound = 3
  MaxPending = 2
  MaxBond = 3
CONSTRAINT WithinBounds
SYMMETRY Symmetry
INVARIANT TypeOK
INVARIANT ActiveAreInPool
INVARIANT RolesDisjoint
INVARIANT PendingDecreasesLeaveMinimum
CHECK_DEADLOCK FALSE
