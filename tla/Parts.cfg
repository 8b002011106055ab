SPECIFICATION PartsSpec
CONSTANTS
  a1 = a1
  a2 = a2
  u1 = u1
  u2 = u2
  x1 = x1
  x2 = x2
  Accounts = {a1, a2, u1, u2, x1}
  MaxTopDelegationsPerCandidate = 5
  MaxBottomDelegationsPerCandidate = 5
  OrderAmounts = {1, 2, 3}
  MaxLength = 5
  AssetTypes = {1, 2, 3}
  Units = {1, 2}
  AuthorIds = {1, 2, 3}
  AuthorAccounts = {a1, a2}
  Deposits = {1, 2}
  Funds = 5
  Migrations = {"m1", "m2", "m3", "m4"}
  Releases <- MCReleases
  MaxMessages = 4
  Accuracy = 20
  RewardCollators = {a1, a2}
  Issuances = {7, 10}
  Percents = {0, 6, 15}
  AwardPoints = {20, 60}
  Bonds = {1, 2}
  Backings <- MCBackings
  Users = {u1, u2}
  NotLimited = {}
  Addresses = {x1, x2}
  Workers = 2
  Interval = 2
  MaxNow = 4
  MaxRequests = 3
  MaxStarts = 2
VIEW PartsView
INVARIANT ReverseEntriesAreRight
INVARIANT FeeTypesArePriced
INVARIANT DepositsAreHeld
INVARIANT MigratedOnce
PROPERTY MessagesWaitForMaintenance
INVARIANT RewardsWithinReward
INVARIANT RequestsAreTakenOnce
INVARIANT UsersWaitTheirTurn
INVARIANT OrderAgrees
CHECK_DEADLOCK FALSE
