CONSTANTS
  Accounts = {a, b}
  NoAccount = NoAccount
  Sites = {site}
  sign = sign
  blob = blob
  blob2 = blob2
  grant = grant
  Requests = {blob, blob2, grant}
  NoRequest = NoRequest
  Drains = {d1}
  SiteOf <- MCSiteOf
  KindOf <- MCKindOf
  MaxBlobs = 1
  AutoLock = FALSE
  WorkerMayRestart = FALSE
  PopupMayClose = FALSE
  Tabs = {p, q}
  LockAfter = {0, 1}
  MaxSession = 1
  UserIsQuick = FALSE
  MaxClock = 4
  MaxKeys = 2
  MaxOps = 2
SYMMETRY HoldersSymmetry
SPECIFICATION HoldersSpec
INVARIANTS
  SessionBudget
  KeyOfActiveAccount
  SessionIsWhole
  IdleTabsLock
PROPERTIES
  OnlyUserUnlocks
  RestoredWithinPolicy
