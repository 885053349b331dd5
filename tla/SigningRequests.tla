--------------------------- MODULE SigningRequests ---------------------------
(***************************************************************************)
(* How the requests of the sites meet the wallet's key                     *)
(* (extension/background.ts).  A request reads the active address, then    *)
(* the key, and keeps both across every await that follows: network reads, *)
(* the approval prompt, the signature.  A drain of the unlock queue does   *)
(* the same once for all the requests it serves.  Meanwhile the popup      *)
(* locks, unlocks, switches or adds accounts, and the worker may restart.  *)
(*                                                                         *)
(* Prompts are those of ApprovalPromise (SignatureApprovals implements     *)
(* it), the unlock queue without its timers is that of UnlockQueue.  Sites *)
(* are connected (SiteConnections).  There is no clock: idle and session   *)
(* expiry may strike whenever the code tests for them.                     *)
(***************************************************************************)
EXTENDS Naturals, Sequences, FiniteSets

CONSTANTS
  Accounts, NoAccount,
  Sites,
  Requests, NoRequest, \* requests that need the key
  Drains,           \* bound on the runs of processPendingUnlockQueue
  SiteOf,           \* the site of each request
  KindOf,           \* "sign" (a message or a transaction that must be approved),
                    \* "blob" (a PutBlob transaction) or "session"
  MaxBlobs,         \* maxBlobs of every PutBlob session
  AutoLock,         \* is the auto-lock setting other than "never"?
  WorkerMayRestart,
  PopupMayClose     \* may the popup close between a write and its message?

Tasks == Requests \cup Drains

ASSUME Parameters ==
  /\ NoAccount \notin Accounts
  /\ NoRequest \notin Requests
  /\ Requests \cap Drains = {}
  /\ SiteOf \in [Requests -> Sites]
  /\ KindOf \in [Requests -> {"sign", "blob", "session"}]
  /\ MaxBlobs \in Nat
  /\ {AutoLock, WorkerMayRestart, PopupMayClose} \subseteq BOOLEAN

VARIABLES
  activeAccount,     \* the vault's active account, in local storage
  popup,             \* has the popup changed it without telling the worker yet?
  unlocked,          \* whose key the worker holds in memory
  unlockedSession,   \* whose key session storage holds
  putBlobSessionsByOrigin,
  pendingUnlockQueue,
  stage,             \* control of each request handler and each drain
  address,           \* the address it read
  unlockedState,     \* whose key it holds
  serving,           \* the request a drain works on
  outcome, consent,  \* the prompts
  signedBy,          \* history: whose key signed each request
  unprompted         \* history: requests a PutBlob session let through

wallet  == <<activeAccount, popup>>
key     == <<unlocked, unlockedSession>>
task    == <<stage, address, unlockedState, serving>>
prompts == <<outcome, consent>>
history == <<signedBy, unprompted>>
vars    == <<wallet, key, putBlobSessionsByOrigin, pendingUnlockQueue, task,
             prompts, history>>

Prompts == INSTANCE ApprovalPromise

NoSession    == [address |-> NoAccount, used |-> 0]

Unlocked == unlocked # NoAccount \/ unlockedSession # NoAccount

NoSessions == putBlobSessionsByOrigin' = [o \in Sites |-> NoSession]

Goto(t, s) == stage' = [stage EXCEPT ![t] = s]

\* A task is over: the key it held is out of scope.
Finish(t, s) ==
  /\ Goto(t, s)
  /\ unlockedState' = [unlockedState EXCEPT ![t] = NoAccount]

Init ==
  /\ activeAccount \in Accounts
  /\ popup = "idle"
  /\ unlocked = NoAccount
  /\ unlockedSession = NoAccount
  /\ putBlobSessionsByOrigin = [o \in Sites |-> NoSession]
  /\ pendingUnlockQueue = <<>>
  /\ stage = [t \in Tasks |-> "idle"]
  /\ address = [t \in Tasks |-> NoAccount]
  /\ unlockedState = [t \in Tasks |-> NoAccount]
  /\ serving = [d \in Drains |-> NoRequest]
  /\ Prompts!Init
  /\ signedBy = [r \in Requests |-> NoAccount]
  /\ unprompted = {}

-----------------------------------------------------------------------------
(***************************************************************************)
(* Reading the address and the key, by a handler or a drain.               *)
(***************************************************************************)
\* handleProviderRequest reads the active address, then the connected sites.
ReceiveRequest(r) ==
  /\ stage[r] = "idle"
  /\ Goto(r, "begun")
  /\ address' = [address EXCEPT ![r] = activeAccount]
  /\ UNCHANGED <<wallet, key, putBlobSessionsByOrigin, pendingUnlockQueue,
                 unlockedState, serving, prompts, history>>

\* loadUnlockedState: the key in memory, or a read of session storage, which
\* returns what is there now.
LoadUnlockedState(t) ==
  /\ stage[t] = "begun"
  /\ IF unlocked # NoAccount
     THEN /\ unlockedState' = [unlockedState EXCEPT ![t] = unlocked]
          /\ Goto(t, "checking")
     ELSE /\ unlockedState' = [unlockedState EXCEPT ![t] = unlockedSession]
          /\ Goto(t, "restoring")
  /\ UNCHANGED <<wallet, key, putBlobSessionsByOrigin, pendingUnlockQueue,
                 address, serving, prompts, history>>

\* Mutant: the request is not queued.
GiveUpForgets(t) ==
  /\ Goto(t, IF t \in Requests THEN "queued" ELSE "idle")
  /\ UNCHANGED pendingUnlockQueue

\* Without a key a request is queued, a drain ends.
GiveUp(t) ==
  IF t \in Requests
  THEN /\ Goto(t, "queued")
       /\ pendingUnlockQueue' = Append(pendingUnlockQueue, t)
  ELSE /\ Goto(t, "idle")
       /\ UNCHANGED pendingUnlockQueue

\* The read of session storage returns: its key becomes the worker's.
RestoreUnlockedState(t) ==
  /\ stage[t] = "restoring"
  /\ IF unlockedState[t] = NoAccount
     THEN /\ GiveUp(t)
          /\ UNCHANGED unlocked
     ELSE /\ unlocked' = unlockedState[t]
          /\ Goto(t, "checking")
          /\ UNCHANGED pendingUnlockQueue
  /\ UNCHANGED <<wallet, unlockedSession, putBlobSessionsByOrigin, address,
                 unlockedState, serving, prompts, history>>

\* Mutant: the key that was loaded is made the worker's again.
KeepRefreshesKey(t) ==
  /\ stage[t] = "checking"
  /\ Goto(t, IF t \in Requests THEN "ready" ELSE "draining")
  /\ unlocked' = unlockedState[t]
  /\ UNCHANGED <<wallet, unlockedSession, putBlobSessionsByOrigin, pendingUnlockQueue,
                 address, unlockedState, serving, prompts, history>>

\* getUnlockedState goes on with the key it loaded, ...
KeepUnlockedState(t) ==
  /\ stage[t] = "checking"
  /\ Goto(t, IF t \in Requests THEN "ready" ELSE "draining")
  /\ UNCHANGED <<wallet, key, putBlobSessionsByOrigin, pendingUnlockQueue, address,
                 unlockedState, serving, prompts, history>>

\* Mutant: session storage keeps the key.
LockKeepsStoredKey ==
  /\ unlocked' = NoAccount
  /\ NoSessions
  /\ UNCHANGED unlockedSession

\* lockWalletNow: the key and the PutBlob sessions are gone; requests under way,
\* prompts and the queue are left alone.
LockWalletNow ==
  /\ unlocked' = NoAccount
  /\ unlockedSession' = NoAccount
  /\ NoSessions

\* ... or finds the session idle for too long and locks the wallet.
SessionExpired(t) ==
  /\ AutoLock
  /\ stage[t] = "checking"
  /\ LockWalletNow
  /\ unlockedState' = [unlockedState EXCEPT ![t] = NoAccount]
  /\ Goto(t, "locking")
  /\ UNCHANGED <<wallet, pendingUnlockQueue, address, serving, prompts, history>>

AutoLocked(t) ==
  /\ stage[t] = "locking"
  /\ GiveUp(t)
  /\ UNCHANGED <<wallet, key, putBlobSessionsByOrigin, address, unlockedState,
                 serving, prompts, history>>

-----------------------------------------------------------------------------
(***************************************************************************)
(* A request with a key: prompt or session, then the signature.            *)
(***************************************************************************)
\* Mutants: the address is not compared; the quota is off by one.
CoveredWhateverAddress(r) ==
  LET session == putBlobSessionsByOrigin[SiteOf[r]]
  IN KindOf[r] = "blob" /\ session # NoSession /\ session.used < MaxBlobs

CoveredOffByOne(r) ==
  LET session == putBlobSessionsByOrigin[SiteOf[r]]
  IN /\ KindOf[r] = "blob"
     /\ session # NoSession
     /\ session.address = address[r]
     /\ session.used <= MaxBlobs

\* isPutBlobSessionActive and the test of its quota.
CoveredBySession(r) ==
  LET session == putBlobSessionsByOrigin[SiteOf[r]]
  IN /\ KindOf[r] = "blob"
     /\ session # NoSession
     /\ session.address = address[r]
     /\ session.used < MaxBlobs

\* consumePutBlobSession, in the same step as the test: no prompt.
UseSession(r) ==
  /\ stage[r] = "ready"
  /\ CoveredBySession(r)
  /\ putBlobSessionsByOrigin' =
       [putBlobSessionsByOrigin EXCEPT ![SiteOf[r]].used = @ + 1]
  /\ unprompted' = unprompted \cup {r}
  /\ Goto(r, "signing")
  /\ UNCHANGED <<wallet, key, pendingUnlockQueue, address, unlockedState, serving,
                 prompts, signedBy>>

\* requestSignatureApproval.  (The blob may also be too large for the session.)
AskApproval(r) ==
  /\ stage[r] = "ready"
  /\ Prompts!Ask(r)
  /\ Goto(r, "asking")
  /\ UNCHANGED <<wallet, key, putBlobSessionsByOrigin, pendingUnlockQueue, address,
                 unlockedState, serving, history>>

\* A call fails (the node cannot be reached, the parameters are wrong): an
\* error is sent back.
RequestFails(r) ==
  /\ stage[r] \in {"ready", "signing"}
  /\ Finish(r, "answered")
  /\ UNCHANGED <<wallet, key, putBlobSessionsByOrigin, pendingUnlockQueue, address,
                 serving, prompts, history>>

\* The user approves what the prompt displays.
UserConsents(r) ==
  /\ r \notin consent
  /\ Prompts!Consent(r)
  /\ UNCHANGED <<wallet, key, putBlobSessionsByOrigin, pendingUnlockQueue, task, history>>

\* The answer reaches the worker: a session is installed at once, over the one
\* the site may have had; a signature still needs some awaits.
PromptApproved(r) ==
  /\ stage[r] = "asking"
  /\ Prompts!Approve(r)
  /\ IF KindOf[r] = "session"
     THEN /\ putBlobSessionsByOrigin' =
               [putBlobSessionsByOrigin EXCEPT
                  ![SiteOf[r]] = [address |-> address[r], used |-> 0]]
          /\ Finish(r, "answered")
     ELSE /\ Goto(r, "signing")
          /\ UNCHANGED <<putBlobSessionsByOrigin, unlockedState>>
  /\ UNCHANGED <<wallet, key, pendingUnlockQueue, address, serving, history>>

\* Refused, timed out, or its window was closed.
PromptRejected(r) ==
  /\ stage[r] = "asking"
  /\ Prompts!Reject({r})
  /\ Finish(r, "answered")
  /\ UNCHANGED <<wallet, key, putBlobSessionsByOrigin, pendingUnlockQueue, address,
                 serving, history>>

\* The signature, with the key the task holds.
Sign(r) ==
  /\ stage[r] = "signing"
  /\ signedBy' = [signedBy EXCEPT ![r] = unlockedState[r]]
  /\ Finish(r, "answered")
  /\ UNCHANGED <<wallet, key, putBlobSessionsByOrigin, pendingUnlockQueue, address,
                 serving, prompts, unprompted>>

\* boing_endPutBlobSession, or boing_getPutBlobSession finding it inactive.
EndSession(o) ==
  /\ putBlobSessionsByOrigin[o] # NoSession
  /\ putBlobSessionsByOrigin' = [putBlobSessionsByOrigin EXCEPT ![o] = NoSession]
  /\ UNCHANGED <<wallet, key, pendingUnlockQueue, task, prompts, history>>

-----------------------------------------------------------------------------
(***************************************************************************)
(* processPendingUnlockQueue.                                              *)
(***************************************************************************)
Free(d) ==
  serving[d] \in {NoRequest} \cup {r \in Requests : stage[r] = "answered"}

\* The next request is served with the address and the key the drain holds; a
\* boing_requestPutBlobSession has no branch and is dropped.
DrainTakesItem(d) ==
  /\ stage[d] = "draining"
  /\ Free(d)
  /\ pendingUnlockQueue # <<>>
  /\ LET r == Head(pendingUnlockQueue)
     IN IF KindOf[r] = "session"
        THEN /\ Goto(r, "dropped")
             /\ serving' = [serving EXCEPT ![d] = NoRequest]
             /\ UNCHANGED <<address, unlockedState>>
        ELSE /\ Goto(r, "ready")
             /\ serving' = [serving EXCEPT ![d] = r]
             /\ address' = [address EXCEPT ![r] = address[d]]
             /\ unlockedState' = [unlockedState EXCEPT ![r] = unlockedState[d]]
  /\ pendingUnlockQueue' = Tail(pendingUnlockQueue)
  /\ UNCHANGED <<wallet, key, putBlobSessionsByOrigin, prompts, history>>

DrainEnds(d) ==
  /\ stage[d] = "draining"
  /\ Free(d)
  /\ pendingUnlockQueue = <<>>
  /\ Finish(d, "idle")
  /\ serving' = [serving EXCEPT ![d] = NoRequest]
  /\ UNCHANGED <<wallet, key, putBlobSessionsByOrigin, pendingUnlockQueue, address,
                 prompts, history>>

-----------------------------------------------------------------------------
(***************************************************************************)
(* The popup.                                                              *)
(***************************************************************************)
\* WALLET_UNLOCK, from the unlock form or after an account was added: the key
\* of the account that is active by then.  A drain starts and reads the address.
WalletUnlock(d) ==
  /\ popup \in {"idle", "adding"}
  /\ popup' = "idle"
  /\ unlocked' = activeAccount
  /\ unlockedSession' = activeAccount
  /\ stage[d] = "idle"
  /\ Goto(d, "begun")
  /\ address' = [address EXCEPT ![d] = activeAccount]
  /\ UNCHANGED <<activeAccount, putBlobSessionsByOrigin, pendingUnlockQueue,
                 unlockedState, serving, prompts, history>>

\* WALLET_LOCK.
WalletLock ==
  /\ LockWalletNow
  /\ UNCHANGED <<wallet, pendingUnlockQueue, task, prompts, history>>

\* The popup stores another active account: the user picked or removed one
\* ("switching"), created or imported one ("adding").  The message comes next.
PopupChangesAccount(a, why) ==
  /\ popup = "idle"
  /\ a # activeAccount
  /\ activeAccount' = a
  /\ popup' = why
  /\ UNCHANGED <<key, putBlobSessionsByOrigin, pendingUnlockQueue, task, prompts, history>>

PopupCloses ==
  /\ PopupMayClose
  /\ popup # "idle"
  /\ popup' = "idle"
  /\ UNCHANGED <<activeAccount, key, putBlobSessionsByOrigin, pendingUnlockQueue,
                 task, prompts, history>>

\* BOING_ACTIVE_ACCOUNT_CHANGED: the key, the sessions, the queue and every open
\* prompt go; requests between two awaits do not notice.
ActiveAccountChanged ==
  /\ popup = "switching"
  /\ popup' = "idle"
  /\ LockWalletNow
  /\ pendingUnlockQueue' = <<>>
  /\ Prompts!Reject(Prompts!Pending)
  /\ stage' = [t \in Tasks |-> IF stage[t] \in {"queued", "asking"}
                               THEN "answered" ELSE stage[t]]
  /\ unlockedState' = [t \in Tasks |-> IF stage[t] \in {"queued", "asking"}
                                       THEN NoAccount ELSE unlockedState[t]]
  /\ UNCHANGED <<activeAccount, address, serving, history>>

\* The service worker dies and comes back.  Only storage survives.
WorkerRestarts ==
  /\ WorkerMayRestart
  /\ unlocked' = NoAccount
  /\ NoSessions
  /\ pendingUnlockQueue' = <<>>
  /\ Prompts!Lose
  /\ stage' = [t \in Tasks |-> IF t \in Drains \/ stage[t] = "idle" THEN "idle"
                               ELSE IF stage[t] = "answered" THEN "answered"
                               ELSE "lost"]
  /\ unlockedState' = [t \in Tasks |-> NoAccount]
  /\ serving' = [d \in Drains |-> NoRequest]
  /\ UNCHANGED <<wallet, unlockedSession, address, history>>

\* The worker runs each callback to its end: no other one starts while a drain
\* is in its loop and not awaiting the work on a request.
Quiet == \A d \in Drains : stage[d] = "draining" => ~Free(d)

Next ==
  \/ /\ Quiet
     /\ \/ \E r \in Requests :
             \/ ReceiveRequest(r)
             \/ UseSession(r)
             \/ AskApproval(r)
             \/ RequestFails(r)
             \/ PromptApproved(r)
             \/ PromptRejected(r)
             \/ Sign(r)
        \/ \E t \in Tasks :
             \/ LoadUnlockedState(t)
             \/ RestoreUnlockedState(t)
             \/ KeepUnlockedState(t)
             \/ SessionExpired(t)
             \/ AutoLocked(t)
        \/ \E d \in Drains : WalletUnlock(d)
        \/ \E o \in Sites : EndSession(o)
        \/ WalletLock
        \/ ActiveAccountChanged
  \/ \E d \in Drains : DrainTakesItem(d) \/ DrainEnds(d)
  \/ \E r \in Requests : UserConsents(r)
  \/ \E a \in Accounts : \E why \in {"switching", "adding"} : PopupChangesAccount(a, why)
  \/ PopupCloses
  \/ WorkerRestarts

Spec == Init /\ [][Next]_vars

-----------------------------------------------------------------------------
(***************************************************************************)
(* Properties.                                                             *)
(***************************************************************************)

SessionConsents(o) == {s \in consent : KindOf[s] = "session" /\ SiteOf[s] = o}

\* Nothing is signed without the user: the prompt of the request itself was
\* approved, or that of a PutBlob session for the same site and address; and
\* a session never signs anything but a PutBlob.
Authorised ==
  \A r \in Requests : signedBy[r] # NoAccount =>
    \/ r \in consent
    \/ /\ KindOf[r] = "blob"
       /\ \E s \in SessionConsents(SiteOf[r]) : address[s] = address[r]

\* A site gets at most MaxBlobs unprompted blobs for each session the user
\* approved, however its requests, drains and sessions overlap.
SessionBudget ==
  \A o \in Sites :
    Cardinality({r \in unprompted : SiteOf[r] = o})
      <= MaxBlobs * Cardinality(SessionConsents(o))

\* A request that waits can be reached by what it waits for: it is in the queue,
\* once, or its prompt is open; and neither holds one that no longer waits.
WaitingIsReachable ==
  /\ \A i, j \in DOMAIN pendingUnlockQueue :
       pendingUnlockQueue[i] = pendingUnlockQueue[j] => i = j
  /\ \A r \in Requests :
       /\ stage[r] = "queued" <=>
            \E i \in DOMAIN pendingUnlockQueue : pendingUnlockQueue[i] = r
       /\ stage[r] = "asking" <=> r \in Prompts!Pending

\* As long as the worker is not restarted and the popup is not closed halfway,
\* the key in memory is that of the active account whenever no change of
\* account is under way.
KeyOfActiveAccount ==
  popup = "idle" /\ unlocked # NoAccount => unlocked = activeAccount

\* As long as the worker is not restarted, only the user's unlocking brings the
\* key back: no request that read it before a lock, and goes on after, does.
OnlyUserUnlocks ==
  [][~Unlocked /\ Unlocked' =>
       \E d \in Drains : stage[d] = "idle" /\ stage'[d] = "begun"]_vars

\* docs/WALLET_CONNECTION_AND_API.md: after Lock, signing methods fail until the
\* user unlocks again; so a prompt that is open at that time does not go on to
\* a signature, nor to a PutBlob session.
ApprovedOnlyUnlocked ==
  [][\A r \in Requests :
       outcome[r] = "pending" /\ outcome'[r] = "approved" => Unlocked]_vars

\* docs/WALLET_CONNECTION_AND_API.md: the address a request names, or by default
\* the current account, is the one that signs it.
SignsAsShown ==
  \A r \in Requests : signedBy[r] \in {NoAccount, address[r]}
=============================================================================
