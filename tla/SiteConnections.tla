--------------------------- MODULE SiteConnections ---------------------------
(***************************************************************************)
(* Connecting sites to the wallet: ensureSiteConnected with its one        *)
(* in-flight prompt per origin, addConnectedSite, and the Disconnect       *)
(* button of the popup, which edits the same list in local storage from    *)
(* another process (extension/background.ts, extension/popup.ts).          *)
(*                                                                         *)
(* Storage serves the calls of the worker in the order they are made and   *)
(* calls back in that order; each callback runs to its end.  The list has  *)
(* no transactions: it is read, changed and written back.  A prompt is     *)
(* approved only by the user (SignatureApprovals).                         *)
(***************************************************************************)
EXTENDS Naturals, Sequences

CONSTANTS
  Sites, NoSite,
  Requests,          \* calls of boing_requestAccounts by an unlocked wallet
  SiteOf,
  UserDisconnects    \* does the user press Disconnect?

ASSUME Parameters ==
  /\ NoSite \notin Sites
  /\ SiteOf \in [Requests -> Sites]
  /\ UserDisconnects \in BOOLEAN

VARIABLES
  connectedSites,    \* the list in local storage
  request,           \* where each request stands
  pendingConnectApprovals, \* what the in-flight connect prompt of a site awaits
  callbacks,         \* callbacks storage owes the worker, in order
  disconnecting,     \* the site the popup is removing
  popupSites,        \* the list the popup read for that
  agreed             \* history: sites the user ever approved

popup == <<disconnecting, popupSites>>
vars  == <<connectedSites, request, pendingConnectApprovals, callbacks, popup, agreed>>

Standing == {"idle", "reading", "waiting", "connected", "refused", "lost"}
Flight   == {"none", "network", "prompt", "list", "write"}

\* "sites": a request's read of the list; the others belong to the connect
\* prompt of the site.
Callback ==
  [kind : {"sites"}, of : Requests, sites : SUBSET Sites]
    \cup [kind : {"network", "list", "write"}, of : Sites, sites : SUBSET Sites]

Init ==
  /\ connectedSites = {}
  /\ request = [r \in Requests |-> "idle"]
  /\ pendingConnectApprovals = [o \in Sites |-> "none"]
  /\ callbacks = <<>>
  /\ disconnecting = NoSite
  /\ popupSites = {}
  /\ agreed = {}

\* A storage call, after the callback that made it: what it reads is there now.
Call(kind, of) ==
  [kind |-> kind, of |-> of, sites |-> connectedSites]

Flies(o, what) ==
  pendingConnectApprovals' = [pendingConnectApprovals EXCEPT ![o] = what]

\* All who await the prompt of the site go on with its result.
Release(o, result) ==
  /\ Flies(o, "none")
  /\ request' = [r \in Requests |-> IF request[r] = "waiting" /\ SiteOf[r] = o
                                    THEN result ELSE request[r]]

-----------------------------------------------------------------------------

\* ensureSiteConnected begins with a read of the list.
EnsureSiteConnected(r) ==
  /\ request[r] = "idle"
  /\ request' = [request EXCEPT ![r] = "reading"]
  /\ callbacks' = Append(callbacks, Call("sites", r))
  /\ UNCHANGED <<connectedSites, pendingConnectApprovals, popup, agreed>>

Due(kind) == callbacks # <<>> /\ Head(callbacks).kind = kind

\* The list arrived: done, or await the prompt of the site, which the first to
\* come starts with a read of the selected network.
SitesRead ==
  /\ Due("sites")
  /\ LET r == Head(callbacks).of
         o == SiteOf[r]
     IN IF o \in Head(callbacks).sites
        THEN /\ request' = [request EXCEPT ![r] = "connected"]
             /\ callbacks' = Tail(callbacks)
             /\ UNCHANGED pendingConnectApprovals
        ELSE /\ request' = [request EXCEPT ![r] = "waiting"]
             /\ IF pendingConnectApprovals[o] = "none"
                THEN /\ Flies(o, "network")
                     /\ callbacks' = Append(Tail(callbacks), Call("network", o))
                ELSE /\ callbacks' = Tail(callbacks)
                     /\ UNCHANGED pendingConnectApprovals
  /\ UNCHANGED <<connectedSites, popup, agreed>>

\* requestSignatureApproval opens the prompt.
NetworkRead ==
  /\ Due("network")
  /\ Flies(Head(callbacks).of, "prompt")
  /\ callbacks' = Tail(callbacks)
  /\ UNCHANGED <<connectedSites, request, popup, agreed>>

\* Mutants: the refusal is swallowed; those who wait are not told.
PromptRejectedAsConnected(o) ==
  /\ pendingConnectApprovals[o] = "prompt"
  /\ Release(o, "connected")
  /\ UNCHANGED <<connectedSites, callbacks, popup, agreed>>

PromptRejectedSilently(o) ==
  /\ pendingConnectApprovals[o] = "prompt"
  /\ Flies(o, "none")
  /\ UNCHANGED <<connectedSites, request, callbacks, popup, agreed>>

\* The prompt is refused, times out, is closed or swept by an account switch.
PromptRejected(o) ==
  /\ pendingConnectApprovals[o] = "prompt"
  /\ Release(o, "refused")
  /\ UNCHANGED <<connectedSites, callbacks, popup, agreed>>

\* It is approved: addConnectedSite reads the list, ...
PromptApproved(o) ==
  /\ pendingConnectApprovals[o] = "prompt"
  /\ agreed' = agreed \cup {o}
  /\ Flies(o, "list")
  /\ callbacks' = Append(callbacks, Call("list", o))
  /\ UNCHANGED <<connectedSites, request, popup>>

\* ... writes back the list it read with the site added, ...
ListRead ==
  /\ Due("list")
  /\ LET o == Head(callbacks).of
         sites == Head(callbacks).sites
     IN IF o \in sites
        THEN /\ Release(o, "connected")
             /\ callbacks' = Tail(callbacks)
             /\ UNCHANGED connectedSites
        ELSE /\ connectedSites' = sites \cup {o}
             /\ Flies(o, "write")
             /\ callbacks' = Append(Tail(callbacks), Call("write", o))
             /\ UNCHANGED request
  /\ UNCHANGED <<popup, agreed>>

\* ... and those who waited get the accounts.
ListWritten ==
  /\ Due("write")
  /\ Release(Head(callbacks).of, "connected")
  /\ callbacks' = Tail(callbacks)
  /\ UNCHANGED <<connectedSites, popup, agreed>>

-----------------------------------------------------------------------------
\* A click on Disconnect: the popup reads the list, ...
Disconnect(o) ==
  /\ UserDisconnects
  /\ disconnecting = NoSite
  /\ o \in connectedSites
  /\ disconnecting' = o
  /\ popupSites' = connectedSites
  /\ UNCHANGED <<connectedSites, request, pendingConnectApprovals, callbacks, agreed>>

\* ... and writes it back without the site.
DisconnectWrites ==
  /\ disconnecting # NoSite
  /\ connectedSites' = popupSites \ {disconnecting}
  /\ disconnecting' = NoSite
  /\ popupSites' = {}
  /\ UNCHANGED <<request, pendingConnectApprovals, callbacks, agreed>>

\* The user closes the popup in between.
PopupCloses ==
  /\ disconnecting # NoSite
  /\ disconnecting' = NoSite
  /\ popupSites' = {}
  /\ UNCHANGED <<connectedSites, request, pendingConnectApprovals, callbacks, agreed>>

\* The service worker dies and comes back: requests, prompts and callbacks are
\* gone, the list is not.
WorkerRestarts ==
  /\ request' = [r \in Requests |-> IF request[r] \in {"reading", "waiting"}
                                    THEN "lost" ELSE request[r]]
  /\ pendingConnectApprovals' = [o \in Sites |-> "none"]
  /\ callbacks' = <<>>
  /\ UNCHANGED <<connectedSites, popup, agreed>>

StorageCallsBack == SitesRead \/ NetworkRead \/ ListRead \/ ListWritten

Next ==
  \/ \E r \in Requests : EnsureSiteConnected(r)
  \/ SitesRead
  \/ NetworkRead
  \/ ListRead
  \/ ListWritten
  \/ \E o \in Sites :
       \/ PromptApproved(o)
       \/ PromptRejected(o)
       \/ Disconnect(o)
  \/ DisconnectWrites
  \/ PopupCloses
  \/ WorkerRestarts

Spec == Init /\ [][Next]_vars

\* Storage calls back, and a prompt settles (ApprovalPromise!EverySettles).
Fairness ==
  /\ WF_vars(StorageCallsBack)
  /\ \A o \in Sites : WF_vars(PromptApproved(o) \/ PromptRejected(o))

FairSpec == Spec /\ Fairness

-----------------------------------------------------------------------------
(***************************************************************************)
(* Properties.                                                             *)
(***************************************************************************)
TypeOK ==
  /\ connectedSites \in SUBSET Sites
  /\ request \in [Requests -> Standing]
  /\ pendingConnectApprovals \in [Sites -> Flight]
  /\ callbacks \in Seq(Callback)
  /\ disconnecting \in Sites \cup {NoSite}
  /\ popupSites \in SUBSET Sites
  /\ agreed \in SUBSET Sites

\* Whatever is lost between two writers of the list, nothing is invented: a
\* site is listed, or told an account, only if the user approved it once.
OnlyAgreedSites ==
  /\ connectedSites \subseteq agreed
  /\ \A r \in Requests : request[r] = "connected" => SiteOf[r] \in agreed

\* A request waits only while the prompt of its site is in flight, and a flight
\* that does not await the user awaits exactly one callback: no request is
\* left behind by a prompt that ended before it came to wait.
WaitersHaveFlight ==
  /\ \A r \in Requests :
       request[r] = "waiting" => pendingConnectApprovals[SiteOf[r]] # "none"
  /\ \A o \in Sites :
       pendingConnectApprovals[o] \in {"network", "list", "write"} =>
         \E i \in DOMAIN callbacks :
           /\ callbacks[i].kind = pendingConnectApprovals[o]
           /\ callbacks[i].of = o

\* Every call of boing_requestAccounts comes to an end.  None begins again, so this
\* is the same as a leads-to for each: in the end they all have come to theirs.
EveryRequestSettles ==
  <>[](\A r \in Requests : request[r] \notin {"reading", "waiting"})

\* docs/WALLET_CONNECTION_AND_API.md: removing a site revokes access until the
\* user connects it again; so only a site whose prompt was approved is added.
OnlyUserConnects ==
  [][\A o \in Sites : o \notin connectedSites /\ o \in connectedSites' =>
       pendingConnectApprovals[o] = "list"]_vars
=============================================================================
