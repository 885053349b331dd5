--------------------------- MODULE MCWalletVault ---------------------------
\* The wallet alone.
EXTENDS WalletVault, TLC

Symmetry == Permutations(VaultPages) \cup Permutations(Calls) \cup Permutations(VaultAccounts)
=============================================================================
