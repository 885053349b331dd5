----------------------------- MODULE UnlockQueue -----------------------------
(***************************************************************************)
(* The queue of provider requests that arrived while the wallet was locked *)
(* (extension/background.ts): the handler that queues them, the unlock     *)
(* window, the per-request timeouts, and processPendingUnlockQueue, which  *)
(* every WALLET_UNLOCK starts anew, so that several drains can run at once.*)
(*                                                                         *)
(* Request ids are per-page counters: two requests can carry the same id.  *)
(* The key, the accounts and the work done for a request are abstract here *)
(* (see SigningRequests); a request being worked on is eventually         *)
(* answered by that work.                                                  *)
(***************************************************************************)
EXTENDS Naturals, Sequences, FiniteSets, SequencesExt

CONSTANTS
  Messages,   \* provider requests that need the key
  IdOf,       \* the message id of each request
  PutBlobSessionRequests, \* those that call boing_requestPutBlobSession
  Drains,     \* bound on the concurrent runs of processPendingUnlockQueue
  Windows,    \* bound on the unlock windows open at a time
  NoRequest, NoWindow     \* neither a request nor a window

VARIABLES
  hasKey,              \* is there a key (in memory or in session storage)?
  standing,            \* where each request stands
  sawKey,              \* what the request's read of the key will return
  replies,             \* how many answers each request was sent
  pendingUnlockQueue,
  timers,              \* armed unlock timeouts, the first to fire first
  unlockWindowId,
  window,              \* the browser's unlock windows
  drain,               \* control of each run of processPendingUnlockQueue
  item                 \* the request it works on

lock == <<hasKey, drain, item>>
queueVars == <<hasKey, standing, sawKey, replies, pendingUnlockQueue, timers,
               unlockWindowId, window, drain, item>>

Unsettled == {"reading", "queued", "handled", "drained"}

QueueInit ==
  /\ hasKey = FALSE
  /\ standing = [r \in Messages |-> "idle"]
  /\ sawKey = [r \in Messages |-> FALSE]
  /\ replies = [r \in Messages |-> 0]
  /\ pendingUnlockQueue = <<>>
  /\ timers = <<>>
  /\ unlockWindowId = NoWindow
  /\ window = [w \in Windows |-> "none"]
  /\ drain = [d \in Drains |-> "idle"]
  /\ item = [d \in Drains |-> NoRequest]

Queued == {pendingUnlockQueue[i] : i \in DOMAIN pendingUnlockQueue}

\* These requests are sent one more answer each.
Reply(rs) ==
  replies' = [r \in Messages |-> IF r \in rs THEN replies[r] + 1 ELSE replies[r]]

Move(rs, to) ==
  standing' = [r \in Messages |-> IF r \in rs THEN to ELSE standing[r]]

-----------------------------------------------------------------------------
(***************************************************************************)
(* handleProviderRequest.                                                  *)
(***************************************************************************)
\* The handler runs up to the read of the key, whose value is the one of the
\* moment it is issued.
ReceiveRequest(r) ==
  /\ standing[r] = "idle"
  /\ Move({r}, "reading")
  /\ sawKey' = [sawKey EXCEPT ![r] = hasKey]
  /\ UNCHANGED <<lock, replies, pendingUnlockQueue, timers, unlockWindowId, window>>

\* A key came back: the handler itself does the work.
HandleRequest(r) ==
  /\ standing[r] = "reading"
  /\ sawKey[r]
  /\ Move({r}, "handled")
  /\ UNCHANGED <<lock, sawKey, replies, pendingUnlockQueue, timers, unlockWindowId, window>>

\* openUnlockWindow: at most one window is asked for while one is known; the
\* browser may fail to open it.
OpenUnlockWindow ==
  \/ UNCHANGED window
  \/ /\ unlockWindowId = NoWindow
     /\ \E w \in Windows : /\ window[w] = "none"
                           /\ window' = [window EXCEPT ![w] = "opening"]

\* No key: open the unlock window, arm the timeout and queue the request.
QueueForUnlock(r) ==
  /\ standing[r] = "reading"
  /\ ~sawKey[r]
  /\ OpenUnlockWindow
  /\ timers' = Append(timers, r)
  /\ pendingUnlockQueue' = Append(pendingUnlockQueue, r)
  /\ Move({r}, "queued")
  /\ UNCHANGED <<lock, sawKey, replies, unlockWindowId>>

\* The handler's work ends, with a result or an error.
AnswerRequest(r) ==
  /\ standing[r] = "handled"
  /\ Move({r}, "answered")
  /\ Reply({r})
  /\ UNCHANGED <<lock, sawKey, pendingUnlockQueue, timers, unlockWindowId, window>>

-----------------------------------------------------------------------------
(***************************************************************************)
(* The unlock timeout, the window and the account switch.                  *)
(***************************************************************************)
\* Mutant: the first of the queue is taken for not found.
FirstWithIdOffByOne(id) ==
  LET idx == SelectInSeq(pendingUnlockQueue, LAMBDA p : IdOf[p] = id)
  IN IF idx <= 1 THEN 0 ELSE idx

\* The position of the first queued request with this id, 0 if there is none.
FirstWithId(id) == SelectInSeq(pendingUnlockQueue, LAMBDA p : IdOf[p] = id)

\* Timeouts have one length, so they fire in the order they were armed.  The
\* callback looks its request up by id and rejects the first one it finds.
UnlockTimesOut ==
  /\ timers # <<>>
  /\ LET idx == FirstWithId(IdOf[Head(timers)])
     IN IF idx = 0
        THEN /\ timers' = Tail(timers)
             /\ UNCHANGED <<pendingUnlockQueue, standing, replies>>
        ELSE LET found == pendingUnlockQueue[idx]
             IN /\ pendingUnlockQueue' = RemoveAt(pendingUnlockQueue, idx)
                /\ timers' = RemoveFirst(Tail(timers), found)
                /\ Move({found}, "timedOut")
                /\ Reply({found})
  /\ UNCHANGED <<lock, sawKey, unlockWindowId, window>>

\* Mutant: the timeouts are not cleared.
RejectAllKeepsTimers ==
  /\ pendingUnlockQueue' = <<>>
  /\ Move(Queued, "rejected")
  /\ Reply(Queued)
  /\ unlockWindowId' = NoWindow
  /\ UNCHANGED timers

\* The timeouts that are still armed when those of rs are cleared.
TimersWithout(rs) ==
  LET left == {i \in DOMAIN timers : timers[i] \notin rs}
      Nth(n) == CHOOSE i \in left : Cardinality({j \in left : j <= i}) = n
  IN [n \in 1 .. Cardinality(left) |-> timers[Nth(n)]]

\* rejectAllPendingUnlockRequests.
RejectAllPendingUnlockRequests ==
  /\ pendingUnlockQueue' = <<>>
  /\ timers' = TimersWithout(Queued)
  /\ Move(Queued, "rejected")
  /\ Reply(Queued)
  /\ unlockWindowId' = NoWindow

UnlockWindowCreated(w) ==
  /\ window[w] = "opening"
  /\ window' = [window EXCEPT ![w] = "open"]
  /\ unlockWindowId' = w
  /\ UNCHANGED <<lock, standing, sawKey, replies, pendingUnlockQueue, timers>>

\* windows.onRemoved.
UnlockWindowClosed(w) ==
  /\ window[w] = "open"
  /\ window' = [window EXCEPT ![w] = "none"]
  /\ IF w = unlockWindowId
     THEN RejectAllPendingUnlockRequests
     ELSE UNCHANGED <<standing, replies, pendingUnlockQueue, timers, unlockWindowId>>
  /\ UNCHANGED <<lock, sawKey>>

\* BOING_ACTIVE_ACCOUNT_CHANGED.
ActiveAccountChanged ==
  /\ hasKey' = FALSE
  /\ RejectAllPendingUnlockRequests
  /\ UNCHANGED <<sawKey, window, drain, item>>

\* WALLET_LOCK, or an expired session found by getUnlockedState.
LockWallet ==
  /\ hasKey
  /\ hasKey' = FALSE
  /\ UNCHANGED <<standing, sawKey, replies, pendingUnlockQueue, timers,
                 unlockWindowId, window, drain, item>>

-----------------------------------------------------------------------------
(***************************************************************************)
(* WALLET_UNLOCK and processPendingUnlockQueue.                            *)
(***************************************************************************)
WalletUnlock(d) ==
  /\ drain[d] = "idle"
  /\ drain' = [drain EXCEPT ![d] = "begun"]
  /\ hasKey' = TRUE
  /\ unlockWindowId' = NoWindow
  /\ UNCHANGED <<standing, sawKey, replies, pendingUnlockQueue, timers, window, item>>

\* The key is read once, before the loop; without one the queue stays as it is.
DrainReadsKey(d) ==
  /\ drain[d] = "begun"
  /\ drain' = [drain EXCEPT ![d] = IF hasKey THEN "keyed" ELSE "idle"]
  /\ UNCHANGED <<hasKey, item, standing, sawKey, replies, pendingUnlockQueue,
                 timers, unlockWindowId, window>>

\* getUnlockedState returns it after further reads: the loop starts, with that
\* key, whatever happened to the wallet's since.
DrainStarts(d) ==
  /\ drain[d] = "keyed"
  /\ drain' = [drain EXCEPT ![d] = "looping"]
  /\ UNCHANGED <<hasKey, item, standing, sawKey, replies, pendingUnlockQueue,
                 timers, unlockWindowId, window>>

\* Mutant: the request is worked on before it is taken out of the queue.
DrainPeeksItem(d) ==
  /\ drain[d] = "looping"
  /\ pendingUnlockQueue # <<>>
  /\ Head(pendingUnlockQueue) \notin PutBlobSessionRequests
  /\ drain' = [drain EXCEPT ![d] = "working"]
  /\ item' = [item EXCEPT ![d] = Head(pendingUnlockQueue)]
  /\ UNCHANGED <<hasKey, standing, sawKey, replies, pendingUnlockQueue, timers,
                 unlockWindowId, window>>

\* The loop body: shift, clear the timeout, and work on the request.  The body
\* has no branch for boing_requestPutBlobSession, so the loop goes on without it.
DrainTakesItem(d) ==
  /\ drain[d] = "looping"
  /\ pendingUnlockQueue # <<>>
  /\ LET next == Head(pendingUnlockQueue)
     IN /\ pendingUnlockQueue' = Tail(pendingUnlockQueue)
        /\ timers' = RemoveFirst(timers, next)
        /\ Move({next}, "drained")
        /\ IF next \in PutBlobSessionRequests
           THEN UNCHANGED <<drain, item>>
           ELSE /\ drain' = [drain EXCEPT ![d] = "working"]
                /\ item' = [item EXCEPT ![d] = next]
  /\ UNCHANGED <<hasKey, sawKey, replies, unlockWindowId, window>>

DrainAnswersItem(d) ==
  /\ drain[d] = "working"
  /\ drain' = [drain EXCEPT ![d] = "looping"]
  /\ item' = [item EXCEPT ![d] = NoRequest]
  /\ Move({item[d]}, "answered")
  /\ Reply({item[d]})
  /\ UNCHANGED <<hasKey, sawKey, pendingUnlockQueue, timers, unlockWindowId, window>>

DrainEnds(d) ==
  /\ drain[d] = "looping"
  /\ pendingUnlockQueue = <<>>
  /\ drain' = [drain EXCEPT ![d] = "idle"]
  /\ UNCHANGED <<hasKey, item, standing, sawKey, replies, pendingUnlockQueue,
                 timers, unlockWindowId, window>>

\* The service worker dies and comes back: requests, queue, timers and drains
\* are gone; windows, and the key in session storage, are not.
QueueIsLost ==
  /\ Move({r \in Messages : standing[r] \in Unsettled}, "lost")
  /\ pendingUnlockQueue' = <<>>
  /\ timers' = <<>>
  /\ unlockWindowId' = NoWindow
  /\ window' = [w \in Windows |-> IF window[w] = "opening" THEN "none" ELSE window[w]]
  /\ drain' = [d \in Drains |-> "idle"]
  /\ item' = [d \in Drains |-> NoRequest]
  /\ UNCHANGED <<hasKey, sawKey, replies>>

\* The worker runs each callback to its end: no other one starts while a drain
\* is in its loop and not awaiting the work on a request.
Quiet == \A d \in Drains : drain[d] # "looping"

QueueNext ==
  \/ /\ Quiet
     /\ \/ \E r \in Messages :
             \/ ReceiveRequest(r)
             \/ HandleRequest(r)
             \/ QueueForUnlock(r)
             \/ AnswerRequest(r)
        \/ \E d \in Drains :
             \/ WalletUnlock(d)
             \/ DrainReadsKey(d)
             \/ DrainStarts(d)
             \/ DrainAnswersItem(d)
        \/ \E w \in Windows :
             \/ UnlockWindowCreated(w)
             \/ UnlockWindowClosed(w)
        \/ UnlockTimesOut
        \/ ActiveAccountChanged
        \/ LockWallet
  \/ \E d \in Drains : DrainTakesItem(d) \/ DrainEnds(d)
  \/ QueueIsLost

QueueSpec == QueueInit /\ [][QueueNext]_queueVars

\* A callback that is due runs: storage reads return, timeouts fire, and the work on a
\* request ends: its prompt settles, its calls return, or, where the body of an answer
\* stalls, the browser stops the worker that is at it for too long.  The user owes
\* nothing.  A request and a drain owe one step at a time, so one condition for each
\* is enough.
QueueFairness ==
  /\ \A r \in Messages :
       WF_queueVars(\/ HandleRequest(r) \/ QueueForUnlock(r) \/ AnswerRequest(r)
                    \/ standing[r] = "handled" /\ QueueIsLost)
  /\ \A d \in Drains :
       WF_queueVars(\/ DrainReadsKey(d) \/ DrainStarts(d) \/ DrainTakesItem(d)
                    \/ DrainAnswersItem(d) \/ DrainEnds(d)
                    \/ drain[d] = "working" /\ QueueIsLost)
  /\ WF_queueVars(UnlockTimesOut)

FairQueueSpec == QueueSpec /\ QueueFairness

-----------------------------------------------------------------------------
(***************************************************************************)
(* Properties.                                                             *)
(***************************************************************************)
\* The armed timeouts are exactly those of the queued requests, in queue
\* order: every exit from the queue clears the timeout of its own request.
TimersFollowQueue ==
  /\ timers = pendingUnlockQueue
  /\ \A i, j \in DOMAIN pendingUnlockQueue :
       pendingUnlockQueue[i] = pendingUnlockQueue[j] => i = j
  /\ \A r \in Messages : standing[r] = "queued" <=> r \in Queued

\* Although ids collide between pages, a timeout only ever rejects the request
\* it was armed for, never the request of another page that has its id.
OnlyOwnTimeout ==
  [][\A r \in Messages :
       standing[r] # "timedOut" /\ standing'[r] = "timedOut" => r = Head(timers)]_queueVars

\* No request is answered twice, whoever races: two drains, a timeout, a
\* closed window, an account switch, the handler.
AnsweredOnce == \A r \in Messages : replies[r] <= 1

\* Every request is answered in the end, or lost with the worker: even one that
\* saw no key and was queued after the unlock's drain is answered by its timeout.
EveryRequestAnswered ==
  <>[](\A r \in Messages \ PutBlobSessionRequests : standing[r] \notin Unsettled)

\* docs/WALLET_CONNECTION_AND_API.md: boing_requestPutBlobSession returns the
\* session object, so it too is answered in the end.
PutBlobSessionsAnswered ==
  \A r \in PutBlobSessionRequests :
    standing[r] \in Unsettled ~> standing[r] \notin Unsettled
=============================================================================
