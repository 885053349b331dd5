------------------------------ MODULE MCSending ------------------------------
\* Sending: what becomes of a transaction the user approved, and the wallet screen
\* where it is entered.  Neither reads what the other keeps, so each behaviour is
\* one of either.
EXTENDS MCSubmitTransaction, Dashboard

VARIABLE side

sides == <<side, vars, dashVars>>

\* The user begins on one of the networks, where the name stands for one address;
\* elsewhere it stands for that one or another.
SendingInit ==
  /\ side \in {"screen", "submission"}
  /\ Init
  /\ DashInit
  /\ selected = (CHOOSE n \in Networks : TRUE)
  /\ names[selected] = (CHOOSE x \in Addresses : TRUE)
  /\ side = "submission" => \A n \in Networks : names[n] = names[selected]

SendingNext ==
  \/ /\ side = "submission"
     /\ Next
     /\ UNCHANGED <<side, dashVars>>
  \/ /\ side = "screen"
     /\ DashNext
     /\ UNCHANGED <<side, vars>>

\* The fairness of both: where the other one moves, none of it is enabled.
SendingSpec ==
  /\ SendingInit /\ [][SendingNext]_sides
  /\ SendFairness
  /\ DashFairness
=============================================================================
