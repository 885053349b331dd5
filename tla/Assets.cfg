CONSTANTS
  Passes = {p}
  Window = 2
  MaxItems = 1
  RetryLimit = 1
  MaxGaps = 1
  MaxTip = 3
  MaxPasses = 2
  PageMayClose = TRUE
  Tokens = {t, u}
  Loads = {l, m}
  MaxWatched = 2
  MaxRecent = 1
  MaxTokenLoads = 3
  Nfts = {x, y}
  Refreshes = {f, g}
  MaxRefreshes = 2
  MaxTransfers = 1
  PageSize = 1
  MaxTx = 4
  MaxPages = 2
  MaxLocal = 1
  Rows <- MCRows
  Items = {"item"}
  Held = {"item"}
  Self = "me"
  Balance <- MCBalance
  Fee = 1
  MaxSteps = 2
  MaxRows = 3
  MaxRuns = 2
SPECIFICATION AssetsSpec
INVARIANTS
  WatchedBeforeAreShown
  SelectionIsOwned
  EndIsTheEnd
  ReviewedPaidOnce
PROPERTY
  KeepsScanPromise
CHECK_DEADLOCK FALSE
