SPECIFICATION Spec
CONSTANTS
  c1 = c1
  c2 = c2
  d1 = d1
  d2 = d2
  d3 = d3
  d4 = d4
  Accounts = {c1, c2, d1, d2, d3}
  Joiners = {c1, c2}
  Backers = {d1, d2, d3}
  MaxTopDelegationsPerCandidate = 1
  MaxBottomDelegationsPerCandidate = 1
  MaxDelegationsPerDelegator = 2
  BondAmounts = {1}
  Amounts = {1, 2}
  Endowment = 3
  MinCandidateStk = 1
  MinDelegatorStk = 1
  MinDelegation = 1
  LeaveCandidatesDelay = 1
  CandidateBondLessDelay = 1
  LeaveDelegatorsDelay = 1
  RevokeDelegationDelay = 1
  DelegationBondLessDelay = 1
  MaxRound = 2
  MaxPending = 1
  MaxBond = 1
CONSTRAINT WithinBounds
SYMMETRY Symmetry
INVARIANT BooksMatchDelegators
INVARIANT RequestsAccounted
INVARIANT StakeIsReserved
INVARIANT PoolMatchesActive
