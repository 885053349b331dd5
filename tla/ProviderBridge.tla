----------------------------- MODULE ProviderBridge -----------------------------
(***************************************************************************)
(* The way of a dApp call from window.boing.request (extension/inpage.ts)  *)
(* through the content script (extension/content.ts) to the service worker *)
(* (extension/background.ts) and back.  One page of one site.  A call      *)
(* is pending in the page until its answer, its timer or a reload; its     *)
(* request lives in the worker on its own: queued for an unlock, waiting   *)
(* for an approval, at work.  The events the worker broadcasts are left    *)
(* out: they settle no call.                                               *)
(* SignatureApprovals, UnlockQueue, SigningRequests and SiteConnections    *)
(* model those stages in detail; here a stage is one state.                *)
(***************************************************************************)
EXTENDS Naturals

CONSTANTS
    Calls,       \* the calls the page makes
    Methods,     \* \subseteq {"connect", "accounts", "sign", "read", "chain", "switch"}
    MaxChanges   \* changes made in the wallet: locks, disconnects, restarts, ...

VARIABLES
    connected,  \* the page's origin is on the stored list
    unlocked,   \* the worker holds a key
    page,       \* per call: "none", "pending", "value", "empty", "error", "gone"
    method,     \* per call: the method asked
    wire,       \* per call: where its request is
    saw,        \* per call: the value of isConnected its handler read
    done,       \* calls whose work was done
    drains,     \* a drain of the unlock queue goes on, with the key it read
    changes

bridgeVars == <<connected, unlocked, page, method, wire, saw, done, drains, changes>>

AtWorker == {"asked", "handled", "queued", "approving", "working"}

BridgeInit ==
    /\ connected \in BOOLEAN /\ unlocked \in BOOLEAN
    /\ page = [c \in Calls |-> "none"]
    /\ method \in [Calls -> Methods]
    /\ wire = [c \in Calls |-> "none"]
    /\ saw = [c \in Calls |-> {}]
    /\ done = {} /\ drains = FALSE /\ changes = 0

Moves(c, to) == wire' = [wire EXCEPT ![c] = to]

-----------------------------------------------------------------------------
(* The page and the content script.                                         *)

\* provider.request: a number, an entry in `pending`, a message and a timer.
SendToExtension(c) ==
    /\ page[c] = "none"
    /\ page' = [page EXCEPT ![c] = "pending"]
    /\ Moves(c, "asked")
    /\ UNCHANGED <<connected, unlocked, method, saw, done, drains, changes>>

\* The timer of a pending call: three minutes for a method with a window, one
\* for the others.  The worker is not told.
PageTimer(c) ==
    /\ page[c] = "pending"
    /\ page' = [page EXCEPT ![c] = "error"]
    /\ UNCHANGED <<connected, unlocked, method, wire, saw, done, drains, changes>>

\* Mutant: the listener does not look whether the call is still pending.
SettledAgain(c, what) == [page EXCEPT ![c] = IF @ = "gone" THEN @ ELSE what]

\* What the page's listener does with an answer: an id not in `pending` is ignored.
Settled(c, what) == [page EXCEPT ![c] = IF @ = "pending" THEN what ELSE @]

\* The answer comes back through the content script; a closed port is an error.
AnswerArrives(c) ==
    /\ wire[c] \in {"value", "empty", "error", "lost"}
    /\ page' = Settled(c, IF wire[c] = "lost" THEN "error" ELSE wire[c])
    /\ Moves(c, "none")
    /\ UNCHANGED <<connected, unlocked, method, saw, done, drains, changes>>

\* The page is reloaded: its promises and the content script's callbacks are gone.
PageReloads ==
    /\ changes < MaxChanges /\ changes' = changes + 1
    /\ \E c \in Calls : page[c] = "pending"
    /\ page' = [c \in Calls |-> IF page[c] = "pending" THEN "gone" ELSE page[c]]
    /\ UNCHANGED <<connected, unlocked, method, wire, saw, done, drains>>

-----------------------------------------------------------------------------
(* The handler in the worker.                                               *)

\* handleProviderRequest reads the address and the list of connected sites first.
HandlerReads(c) ==
    /\ wire[c] = "asked"
    /\ saw' = [saw EXCEPT ![c] = {connected}]
    /\ Moves(c, "handled")
    /\ UNCHANGED <<connected, unlocked, page, method, done, drains, changes>>

NeedsKey(c) == method[c] \in {"connect", "sign"}
NeedsSite(c) == method[c] \in {"sign", "read"}

\* The request is refused: not connected, no wallet, bad parameters, an unknown chain.
Refuses(c) ==
    /\ wire[c] = "handled"
    /\ method[c] \notin {"accounts", "chain"}
    /\ Moves(c, "error")
    /\ UNCHANGED <<connected, unlocked, page, method, saw, done, drains, changes>>

\* accounts looks at the key after the list, and answers an empty list without either.
Accounts(c) ==
    /\ wire[c] = "handled" /\ method[c] = "accounts"
    /\ Moves(c, IF unlocked /\ TRUE \in saw[c] THEN "value" ELSE "empty")
    /\ done' = done \cup {c}
    /\ UNCHANGED <<connected, unlocked, page, method, saw, drains, changes>>

\* chainId and switchChain: no connection and no key; storage tells the others.
ChainCall(c) ==
    /\ wire[c] = "handled" /\ method[c] \in {"chain", "switch"}
    /\ Moves(c, "value")
    /\ done' = done \cup {c}
    /\ UNCHANGED <<connected, unlocked, page, method, saw, drains, changes>>

\* A call that needs the key waits for an unlock when there is none.
QueuesForUnlock(c) ==
    /\ wire[c] = "handled" /\ NeedsKey(c) /\ ~unlocked
    /\ NeedsSite(c) => TRUE \in saw[c]
    /\ Moves(c, "queued")
    /\ UNCHANGED <<connected, unlocked, page, method, saw, done, drains, changes>>

\* With a key: a window asks the user, unless the site connects again; a
\* simulation or a DEX read goes to the node at once.
Starts(c) ==
    /\ wire[c] = "handled"
    /\ \/ NeedsKey(c) /\ unlocked /\ (NeedsSite(c) => TRUE \in saw[c])
       \/ method[c] = "read" /\ TRUE \in saw[c]
    /\ Moves(c, IF method[c] = "read" \/ (method[c] = "connect" /\ connected)
                THEN "working" ELSE "approving")
    /\ UNCHANGED <<connected, unlocked, page, method, saw, done, drains, changes>>

\* The drain of the unlock queue takes a call up again and does not read the list.
\* It has the key it read when it began: a lock in the meantime does not stop it.
DrainTakes(c) ==
    /\ wire[c] = "queued" /\ drains
    /\ Moves(c, IF method[c] = "connect" /\ connected THEN "working" ELSE "approving")
    /\ UNCHANGED <<connected, unlocked, page, method, saw, done, drains, changes>>

\* A drain ends with the queue empty, or at once when it found no key.
DrainStops ==
    /\ drains /\ drains' = FALSE
    /\ ~unlocked \/ \A c \in Calls : wire[c] # "queued"
    /\ UNCHANGED <<connected, unlocked, page, method, wire, saw, done, changes>>

\* The user approves; nobody looks whether the page still waits or the wallet was
\* locked meanwhile.
Approved(c) ==
    /\ wire[c] = "approving"
    /\ Moves(c, "working")
    /\ UNCHANGED <<connected, unlocked, page, method, saw, done, drains, changes>>

\* The user refuses or closes the window, the two minutes of the unlock or of
\* the approval pass, a signature would be a transaction, the node fails.
Ends(c) ==
    /\ wire[c] \in {"queued", "approving", "working"}
    /\ ~(wire[c] = "working" /\ method[c] = "connect")
    /\ Moves(c, "error")
    /\ UNCHANGED <<connected, unlocked, page, method, saw, done, drains, changes>>

\* The work is done and answered: the site is added, the message signed, the
\* transaction sent, the node's answer passed on.
Works(c) ==
    /\ wire[c] = "working"
    /\ done' = done \cup {c}
    /\ Moves(c, "value")
    /\ connected' = (connected \/ method[c] = "connect")
    /\ UNCHANGED <<unlocked, page, method, saw, drains, changes>>

-----------------------------------------------------------------------------
(* The wallet's own changes.                                                *)

Change == changes < MaxChanges /\ changes' = changes + 1

\* A lock, by the user or by the clock: the key is dropped.  The queue, a drain that
\* goes on and the open prompts are left as they are.
Locks ==
    /\ Change /\ unlocked
    /\ unlocked' = FALSE
    /\ UNCHANGED <<connected, page, method, wire, saw, done, drains>>

\* BOING_ACTIVE_ACCOUNT_CHANGED: the key is dropped, and the queue and the open
\* prompts are answered with an error.
SwitchesAccount ==
    /\ Change
    /\ unlocked' = FALSE
    /\ wire' = [c \in Calls |-> IF wire[c] \in {"queued", "approving"} THEN "error" ELSE wire[c]]
    /\ UNCHANGED <<connected, page, method, saw, done, drains>>

\* WALLET_UNLOCK from one of the extension's own pages: a drain begins.
Unlocks ==
    /\ Change
    /\ unlocked' = TRUE /\ drains' = TRUE
    /\ UNCHANGED <<connected, page, method, wire, saw, done>>

\* The user removes the site: the worker hears of it from storage.
Disconnects ==
    /\ Change /\ connected
    /\ connected' = FALSE
    /\ UNCHANGED <<unlocked, page, method, wire, saw, done, drains>>

\* The worker stops: every request it had is lost and its ports close.  The key
\* is restored from session storage and the list from local storage.
WorkerIsReplaced ==
    /\ Change
    /\ wire' = [c \in Calls |-> IF wire[c] \in AtWorker \ {"asked"} THEN "lost" ELSE wire[c]]
    /\ drains' = FALSE
    /\ UNCHANGED <<connected, unlocked, page, method, saw, done>>

-----------------------------------------------------------------------------
BridgeNext ==
    \/ \E c \in Calls :
          \/ SendToExtension(c) \/ PageTimer(c) \/ AnswerArrives(c)
          \/ HandlerReads(c) \/ Refuses(c) \/ Accounts(c) \/ ChainCall(c)
          \/ QueuesForUnlock(c) \/ Starts(c) \/ DrainTakes(c)
          \/ Approved(c) \/ Ends(c) \/ Works(c)
    \/ PageReloads \/ DrainStops
    \/ Locks \/ SwitchesAccount \/ Unlocks \/ Disconnects \/ WorkerIsReplaced

BridgeSpec == BridgeInit /\ [][BridgeNext]_bridgeVars

-----------------------------------------------------------------------------
Promise == INSTANCE CallPromise WITH
    Calls <- Calls, connected <- connected, outcome <- page, saw <- saw, done <- done,
    gated <- {c \in Calls : method[c] \in {"accounts", "sign", "read"}}

\* The bridge keeps the promise of window.boing.request: one settlement for each
\* call, a value only after the worker did the work and, for what takes a connected
\* site, only if the list named it at one moment since the call, whatever the timers,
\* reloads, locks, approvals after a lock, switches of account, restarts of the
\* worker and late answers do in between.
ImplementsCallPromise == Promise!Spec
================================================================================
