CONSTANTS
  Accounts = {a, b}
  NoAccount = NoAccount
  Sites = {site}
  sign = sign
  blob = blob
  blob2 = blob2
  grant = grant
  Requests = {sign}
  NoRequest = NoRequest
  Drains = {d1}
  SiteOf <- MCSiteOf
  KindOf <- MCKindOf
  MaxBlobs = 1
  AutoLock = FALSE
  WorkerMayRestart = FALSE
  PopupMayClose = FALSE
SPECIFICATION Spec
INVARIANTS
  SignsAsShown
