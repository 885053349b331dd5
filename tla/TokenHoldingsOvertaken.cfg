CONSTANTS
  Tokens = {t}
  Loads = {l, m}
  MaxWatched = 1
  MaxRecent = 1
  MaxTokenLoads = 2
SPECIFICATION TokensSpec
INVARIANT
  WatchedAlwaysShown
CHECK_DEADLOCK FALSE
