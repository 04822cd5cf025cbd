SPECIFICATION Spec
CONSTANTS
  SqrtTable <- MCSqrtTable
  Q = 64
  Pips = 1000
  Uint128Max = 1000000
  Generations <- MCGenerations
  Minutes = {0, 1, 2, 3, 4}
  Rows <- MCRows
  SwapRows <- MCSwapRows
  MaxSwaps = 4
  Transfers <- MCTransfers
  MaxTransfers = 3
  Accounts <- MCAccounts
  TopN = 2
  MaxCap = 80
  MaxRoot = 300
  Templates <- MCTemplates
  PoolRows <- MCPoolRows
  MaxPools = 3
  Registry <- MCRegistry
  MaxPlugins = 2
  ListedPools <- MCListedPools
  Filters <- MCFilters
  GraduationCap = 60
  EventRows <- MCEventRows
  MaxEvents = 4
  LaunchRows <- MCLaunchRows
  Versions = {1, 2, 3, 4}
  Variables <- MCVariables
  Manifests <- MCManifests
INVARIANTS
  ReplacesIffGreater TradingSound LaunchPlanSound AddressBookSound ListsComplete PoolViewsAgree
