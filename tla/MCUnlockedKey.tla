--------------------------- MODULE MCUnlockedKey ---------------------------
\* The two places that hold an unlocked key, the worker of the extension and the
\* tabs of the web wallet.  They share nothing, so each behaviour is one of either.
EXTENDS MCSigningRequests, WebSession

VARIABLE holder

holders == <<holder, vars, sessionVars>>

HoldersInit ==
  /\ holder \in {"worker", "tabs"}
  /\ Init
  /\ SessionInit
  /\ holder = "worker" => lockAfter = 0 /\ hasWallet

HoldersNext ==
  \/ /\ holder = "worker"
     /\ Next
     /\ UNCHANGED <<holder, sessionVars>>
  \/ /\ holder = "tabs"
     /\ SessionNext
     /\ UNCHANGED <<holder, vars>>

HoldersSpec == HoldersInit /\ [][HoldersNext]_holders

HoldersSymmetry == Symmetry \cup Permutations(Tabs)
=============================================================================
