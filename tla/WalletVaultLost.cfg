CONSTANTS
  VaultPages = {p, q}
  Calls = {c, d}
  VaultAccounts = {x, y, z}
  Stores = {"web"}
  UserLeavesForms = FALSE
  MaxAccounts = 2
SYMMETRY Symmetry
SPECIFICATION VaultSpec
PROPERTY
  AppendedToTheVault
