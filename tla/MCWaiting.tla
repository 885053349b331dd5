----------------------------- MODULE MCWaiting -----------------------------
\* The way of a request of a site: through the provider of its page to the worker
\* and back, and the places where it waits there, for the prompt that connects the
\* site, for an unlock, and for the window in which the user approves it.  None
\* reads what another keeps, so each behaviour is one of them.
EXTENDS SiteConnections, ProviderBridge, UnlockQueue, SignatureApprovals, TLC

CONSTANTS a, b, r1, r2, r3

VARIABLE place

\* Two requests of one site, and one of another.
MCSiteOf == [r \in Requests |-> IF r = r3 THEN b ELSE a]

\* Two requests from different pages with the same id, and a third.
MCIdOf == [r \in Messages |-> IF r = r3 THEN 2 ELSE 1]

places == <<place, vars, queueVars, bridgeVars, promptVars>>

WaitingInit ==
  /\ place \in {"connecting", "unlocking", "bridging", "prompting"}
  /\ Init
  /\ QueueInit
  /\ BridgeInit
  /\ PromptsInit
  /\ place # "bridging" => /\ ~connected /\ ~unlocked
                           /\ \A c \in Calls : method[c] = "read"

WaitingNext ==
  \/ /\ place = "connecting"
     /\ Next
     /\ UNCHANGED <<place, queueVars, bridgeVars, promptVars>>
  \/ /\ place = "unlocking"
     /\ QueueNext
     /\ UNCHANGED <<place, vars, bridgeVars, promptVars>>
  \/ /\ place = "bridging"
     /\ BridgeNext
     /\ UNCHANGED <<place, vars, queueVars, promptVars>>
  \/ /\ place = "prompting"
     /\ PromptsNext
     /\ UNCHANGED <<place, vars, queueVars, bridgeVars>>

\* The fairness of each that has one: where another moves, none of it is enabled.
WaitingSpec ==
  /\ WaitingInit /\ [][WaitingNext]_places
  /\ Fairness
  /\ QueueFairness
  /\ PromptsFairness
=============================================================================
