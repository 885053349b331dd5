CONSTANTS
  Pages = {p, q}
  Calls = {c, d}
  Accounts = {x, y}
  VaultPages = {p, q}
  VaultAccounts = {x, y}
  PopupAccounts = {x, y}
  Nobody = Nobody
  Stores = {"web", "extension"}
  UserLeavesForms = FALSE
  MaxAccounts = 2
  Jobs = {i, j}
  UserWaits = TRUE
  None = None
  Names = {n, o}
  Addresses = {x, y}
  Nothing = Nothing
  Claims = {e, f}
  MaxTries = 1
  MaxReads = 1
  MaxChanges = 4
  WebAccounts = {x, y}
  Links = {"accounts", "message", "send"}
  IssuedAt = 2
  ExpiresAt = 3
  Skew = 1
  MaxTime = 5
  MaxOpened = 3
  NoAccount = NoAccount
  Sites = {s}
  Requests = {"blob", "session"}
  SiteOf <- MCSiteOf
  KindOf <- MCKindOf
  NoRequest = NoRequest
  Drains = {g}
  MaxBlobs = 1
  AutoLock = TRUE
  WorkerMayRestart = TRUE
  PopupMayClose = TRUE
  Queries = {u, v}
  Isolates = {k, l}
  Limit = 1
  Minute = 2
  Cooldown = 10
  Ttl = 2
  LastTick = 3
  NoCount = NoCount
SPECIFICATION PagesSpec
INVARIANTS
  LoneTabKeepsAll
  ActiveAccountExists
  ClaimKeepsOrder
  HandledOnce
  Authorised
  WaitingIsReachable
PROPERTIES
  PhraseAddsNoTwin
  AddingKeepsAccounts
  RefusedMeansBusy
CHECK_DEADLOCK FALSE
