CONSTANTS
  r1 = r1
  r2 = r2
  r3 = r3
  Messages = {r1, r2}
  IdOf <- MCIdOf
  PutBlobSessionRequests = {r2}
  Drains = {d1, d2}
  Windows = {w1}
  NoRequest = NoRequest
  NoWindow = NoWindow
SPECIFICATION FairQueueSpec
PROPERTIES
  PutBlobSessionsAnswered
