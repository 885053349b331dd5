CONSTANTS
  a = a
  b = b
  r1 = r1
  r2 = r2
  r3 = r3
  Sites = {a, b}
  NoSite = NoSite
  Requests = {r1, r2, r3}
  SiteOf <- MCSiteOf
  UserDisconnects = TRUE
  Messages = {r1, r2, r3}
  IdOf <- MCIdOf
  PutBlobSessionRequests = {r3}
  Drains = {d1, d2}
  Windows = {w1, w2}
  NoRequest = NoRequest
  NoWindow = NoWindow
  Calls = {c, d}
  Methods = {"connect", "accounts", "sign", "read", "chain", "switch"}
  MaxChanges = 2
  Prompts = {r1, r2}
  PromptWindows = {w1, w2}
  NoPrompt = NoPrompt
  NoPromptWindow = NoPromptWindow
  NoId = NoId
  MaxTime = 2
  MaxApprovals = 2
SPECIFICATION WaitingSpec
INVARIANTS
  OnlyAgreedSites
  WaitersHaveFlight
  TimersFollowQueue
  AnsweredOnce
  ApprovedByConsent
  OpenHasTimer
  WindowIndexAgrees
PROPERTIES
  EveryRequestSettles
  OnlyOwnTimeout
  EveryRequestAnswered
  ImplementsCallPromise
  ImplementsPromise
  EverySettles
CHECK_DEADLOCK FALSE
