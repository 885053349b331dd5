------------------------- MODULE MCSigningRequests -------------------------
\* The requests of one site; the .cfg files choose which.
EXTENDS SigningRequests, TLC

CONSTANTS sign, blob, blob2, grant

MCSiteOf == [r \in Requests |-> CHOOSE o \in Sites : TRUE]

MCKindOf ==
  [r \in Requests |-> CASE r = sign -> "sign" [] r = grant -> "session" [] OTHER -> "blob"]

Symmetry ==
  Permutations(Accounts)
    \cup Permutations({r \in Requests : MCKindOf[r] = "blob"})
=============================================================================
