CONSTANTS
  a = a
  b = b
  r1 = r1
  r2 = r2
  r3 = r3
  Sites = {a, b}
  NoSite = NoSite
  Requests = {r1, r2, r3}
  SiteOf <- MCSiteOf
  UserDisconnects = TRUE
SPECIFICATION Spec
PROPERTIES
  OnlyUserConnects
