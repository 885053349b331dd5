--------------------------- MODULE ApprovalPromise ---------------------------
(***************************************************************************)
(* What the rest of the wallet relies on when it awaits                    *)
(* requestSignatureApproval: a question put to the user settles at most    *)
(* once, it is approved only if the user consented to that very question,  *)
(* and it does not stay open for ever.  Windows, identifiers, timers and   *)
(* messages belong to the implementation, SignatureApprovals.              *)
(***************************************************************************)
CONSTANT Requests

VARIABLES
  outcome,   \* outcome[r]: the promise the caller of request r holds
  consent    \* the requests whose approval page the user answered with Approve

vars == <<outcome, consent>>

Pending == {r \in Requests : outcome[r] = "pending"}

Settle(S, result) ==
  outcome' = [r \in Requests |-> IF r \in S THEN result ELSE outcome[r]]

Init ==
  /\ outcome = [r \in Requests |-> "none"]
  /\ consent = {}

Ask(r) ==
  /\ outcome[r] = "none"
  /\ outcome' = [outcome EXCEPT ![r] = "pending"]
  /\ UNCHANGED consent

Consent(r) ==
  /\ outcome[r] # "none"
  /\ consent' = consent \cup {r}
  /\ UNCHANGED outcome

Approve(r) ==
  /\ r \in Pending \cap consent
  /\ Settle({r}, "approved")
  /\ UNCHANGED consent

\* One rejection may settle several questions: an account switch rejects all.
Reject(S) ==
  /\ S \subseteq Pending
  /\ Settle(S, "rejected")
  /\ UNCHANGED consent

\* The service worker died with its promises.
Lose ==
  /\ Settle(Pending, "lost")
  /\ UNCHANGED consent

Next ==
  \/ \E r \in Requests : Ask(r) \/ Consent(r) \/ Approve(r)
  \/ \E S \in SUBSET Requests : Reject(S)
  \/ Lose

SafetySpec == Init /\ [][Next]_vars

\* No question stays open for good.
EverySettles == \A r \in Requests : []<>(r \notin Pending)

Spec == SafetySpec /\ EverySettles
=============================================================================
