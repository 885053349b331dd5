------------------------- MODULE SignatureApprovals -------------------------
(***************************************************************************)
(* The approval prompts of the background service worker:                  *)
(* requestSignatureApproval and everything that can settle the promise it  *)
(* returns (extension/background.ts), with the approval page               *)
(* (extension/approval.ts) and the browser's windows around them.          *)
(*                                                                         *)
(* A request identifier is the pair <<Date.now(), counter>>; the counter   *)
(* restarts with the worker while approval windows, and the messages they  *)
(* sent, outlive it.                                                       *)
(***************************************************************************)
EXTENDS Naturals, FiniteSets

CONSTANTS
  Prompts,        \* the calls of requestSignatureApproval
  PromptWindows,  \* window ids the browser hands out, each used once
  NoPrompt, NoPromptWindow, NoId,
  MaxTime,        \* bound on the clock
  MaxApprovals    \* bound on the approvals one worker life opens

Ids == (0 .. MaxTime) \X (1 .. MaxApprovals)

ASSUME Sentinels ==
  /\ NoPrompt \notin Prompts
  /\ NoPromptWindow \notin PromptWindows
  /\ NoId \notin Ids

ASSUME Bounds == MaxTime \in Nat /\ MaxApprovals \in Nat

VARIABLES
  now,             \* Date.now()
  nextApprovalId,  \* the worker's counter
  pendingSignatureApprovals, \* the Map, as the set of its entries
  approvalRequestIdsByWindowId,
  timeouts,        \* armed timeouts, by request id
  outcome,         \* the promise of each call
  creating,        \* windows.create calls the browser has not served
  createCallbacks, \* windows open, their create callback not yet run
  winId,           \* the requestId in the URL of each window
  approvalPage,    \* what the approval page in each window is doing
  shown,           \* the request the page displays
  messages,        \* RESOLVE_SIGN_APPROVAL messages on their way
  ticket,          \* history: the id given to each request
  consent          \* history: requests the user approved on screen

worker == <<nextApprovalId, pendingSignatureApprovals,
            approvalRequestIdsByWindowId, timeouts, outcome>>
pages  == <<winId, approvalPage, shown>>
promptVars ==
  <<now, worker, creating, createCallbacks, pages, messages, ticket, consent>>

Outcomes  == {"none", "pending", "approved", "rejected", "lost"}
PageState == {"unused", "loading", "asking", "unavailable", "busy", "closed"}
Approval  == [requestId : Ids, request : Prompts,
              windowId : PromptWindows \cup {NoPromptWindow}]
Message   == [requestId : Ids, approved : BOOLEAN]

(***************************************************************************)
(* Map operations.                                                         *)
(***************************************************************************)
Entry(id) == {p \in pendingSignatureApprovals : p.requestId = id}

\* The windows remembered in these entries, and their timers.
WindowsOf(entries) == {w \in PromptWindows : \E p \in entries : p.windowId = w}
TimersOf(entries)  == {p.requestId : p \in entries}

\* Mutant: the window index is not cleaned.
ClearKeepsWindowIndex(entries, result) ==
  /\ pendingSignatureApprovals' = pendingSignatureApprovals \ entries
  /\ outcome' = [r \in Prompts |->
                   IF \E p \in entries : p.request = r THEN result ELSE outcome[r]]
  /\ UNCHANGED approvalRequestIdsByWindowId

\* clearPendingApproval of each of the entries, whose promises then settle.
ClearPendingApprovals(entries, result) ==
  /\ pendingSignatureApprovals' = pendingSignatureApprovals \ entries
  /\ approvalRequestIdsByWindowId' =
       [w \in PromptWindows |-> IF w \in WindowsOf(entries) THEN NoId
                          ELSE approvalRequestIdsByWindowId[w]]
  /\ outcome' = [r \in Prompts |->
                   IF \E p \in entries : p.request = r THEN result ELSE outcome[r]]

\* chrome.windows.remove; the onRemoved event of a window no longer indexed
\* changes nothing.
CloseWindows(ws) ==
  approvalPage' = [w \in PromptWindows |-> IF w \in ws THEN "closed" ELSE approvalPage[w]]

\* rejectPendingApproval and resolvePendingApproval, for each of the entries.
SettlePendingApprovals(entries, result) ==
  /\ ClearPendingApprovals(entries, result)
  /\ CloseWindows(WindowsOf(entries))

-----------------------------------------------------------------------------
PromptsInit ==
  /\ now = 0
  /\ nextApprovalId = 1
  /\ pendingSignatureApprovals = {}
  /\ approvalRequestIdsByWindowId = [w \in PromptWindows |-> NoId]
  /\ timeouts = {}
  /\ outcome = [r \in Prompts |-> "none"]
  /\ creating = {}
  /\ createCallbacks = {}
  /\ winId = [w \in PromptWindows |-> NoId]
  /\ approvalPage = [w \in PromptWindows |-> "unused"]
  /\ shown = [w \in PromptWindows |-> NoPrompt]
  /\ messages = {}
  /\ ticket = [r \in Prompts |-> NoId]
  /\ consent = {}

\* Mutant: no clock in the identifier.
RequestIdWithoutClock == <<0, nextApprovalId>>

\* The identifier a new approval gets.
FreshRequestId == <<now, nextApprovalId>>

\* requestSignatureApproval: register the promise, arm the timeout, ask the
\* browser for a window.
RequestSignatureApproval(r) ==
  /\ outcome[r] = "none"
  /\ nextApprovalId <= MaxApprovals
  /\ LET id == FreshRequestId
     IN /\ pendingSignatureApprovals' =
             (pendingSignatureApprovals \ Entry(id))
               \cup {[requestId |-> id, request |-> r, windowId |-> NoPromptWindow]}
        /\ timeouts' = timeouts \cup {id}
        /\ creating' = creating \cup {id}
        /\ ticket' = [ticket EXCEPT ![r] = id]
  /\ nextApprovalId' = nextApprovalId + 1
  /\ outcome' = [outcome EXCEPT ![r] = "pending"]
  /\ UNCHANGED <<now, approvalRequestIdsByWindowId, createCallbacks, pages, messages,
                 consent>>

\* The browser opens the window; its page starts to load.
BrowserOpensWindow(id, w) ==
  /\ id \in creating
  /\ approvalPage[w] = "unused"
  /\ creating' = creating \ {id}
  /\ createCallbacks' = createCallbacks \cup {w}
  /\ winId' = [winId EXCEPT ![w] = id]
  /\ approvalPage' = [approvalPage EXCEPT ![w] = "loading"]
  /\ UNCHANGED <<now, worker, shown, messages, ticket, consent>>

\* The create callback, with a window: remember it if the request is still open.
WindowCreated(w) ==
  /\ w \in createCallbacks
  /\ createCallbacks' = createCallbacks \ {w}
  /\ LET id == winId[w]
     IN IF Entry(id) = {}
        THEN UNCHANGED <<pendingSignatureApprovals, approvalRequestIdsByWindowId>>
        ELSE /\ pendingSignatureApprovals' =
                  (pendingSignatureApprovals \ Entry(id))
                    \cup {[p EXCEPT !.windowId = w] : p \in Entry(id)}
             /\ approvalRequestIdsByWindowId' =
                  [approvalRequestIdsByWindowId EXCEPT ![w] = id]
  /\ UNCHANGED <<now, nextApprovalId, timeouts, outcome, creating, pages, messages,
                 ticket, consent>>

\* The create callback, with an error: reject the request.
WindowCreateFailed(id) ==
  /\ id \in creating
  /\ creating' = creating \ {id}
  /\ SettlePendingApprovals(Entry(id), "rejected")
  /\ timeouts' = timeouts \ TimersOf(Entry(id))
  /\ UNCHANGED <<now, nextApprovalId, createCallbacks, winId, shown, messages,
                 ticket, consent>>

-----------------------------------------------------------------------------
(***************************************************************************)
(* The approval page.                                                      *)
(***************************************************************************)
\* GET_SIGN_APPROVAL: display the request, or that it is no longer available.
PageLoads(w) ==
  /\ approvalPage[w] = "loading"
  /\ IF Entry(winId[w]) = {}
     THEN /\ approvalPage' = [approvalPage EXCEPT ![w] = "unavailable"]
          /\ UNCHANGED shown
     ELSE /\ approvalPage' = [approvalPage EXCEPT ![w] = "asking"]
          /\ \E p \in Entry(winId[w]) : shown' = [shown EXCEPT ![w] = p.request]
  /\ UNCHANGED <<now, worker, creating, createCallbacks, winId, messages, ticket, consent>>

\* A click on Approve or Reject: the buttons go busy, the answer is sent.
UserAnswers(w, approved) ==
  /\ approvalPage[w] = "asking"
  /\ approvalPage' = [approvalPage EXCEPT ![w] = "busy"]
  /\ messages' = messages \cup {[requestId |-> winId[w], approved |-> approved]}
  /\ consent' = IF approved THEN consent \cup {shown[w]} ELSE consent
  /\ UNCHANGED <<now, worker, creating, createCallbacks, winId, shown, ticket>>

\* The page learns that its message failed (the worker died with it, before or
\* after it was received): the buttons come back.
AnswerFails(w) ==
  /\ approvalPage[w] = "busy"
  /\ approvalPage' = [approvalPage EXCEPT ![w] = "asking"]
  /\ UNCHANGED <<now, worker, creating, createCallbacks, winId, shown, messages,
                 ticket, consent>>

\* The window is closed, by the user or by the page after its answer was
\* received; windows.onRemoved rejects the request the window stood for.
WindowRemoved(w) ==
  /\ approvalPage[w] \notin {"unused", "closed"}
  /\ LET id == approvalRequestIdsByWindowId[w]
         gone == IF id = NoId THEN {} ELSE Entry(id)
     IN /\ ClearPendingApprovals(gone, "rejected")
        /\ CloseWindows({w} \cup WindowsOf(gone))
        /\ timeouts' = timeouts \ TimersOf(gone)
  /\ UNCHANGED <<now, nextApprovalId, creating, createCallbacks, winId, shown, messages,
                 ticket, consent>>

-----------------------------------------------------------------------------
(***************************************************************************)
(* The other ways to settle.                                               *)
(***************************************************************************)
\* RESOLVE_SIGN_APPROVAL reaches the worker.
ResolveSignApproval(m) ==
  /\ m \in messages
  /\ messages' = messages \ {m}
  /\ SettlePendingApprovals(Entry(m.requestId),
                            IF m.approved THEN "approved" ELSE "rejected")
  /\ timeouts' = timeouts \ TimersOf(Entry(m.requestId))
  /\ UNCHANGED <<now, nextApprovalId, creating, createCallbacks, winId, shown, ticket, consent>>

\* Mutant: the timeout needs the window.
TimesOutOnlyWithWindow(id) ==
  /\ id \in timeouts
  /\ timeouts' = timeouts \ {id}
  /\ SettlePendingApprovals({p \in Entry(id) : p.windowId # NoPromptWindow}, "rejected")
  /\ UNCHANGED <<now, nextApprovalId, creating, createCallbacks, winId, shown, messages,
                 ticket, consent>>

\* The timeout rejects the request if it is still open.
ApprovalTimesOut(id) ==
  /\ id \in timeouts
  /\ timeouts' = timeouts \ {id}
  /\ SettlePendingApprovals(Entry(id), "rejected")
  /\ UNCHANGED <<now, nextApprovalId, creating, createCallbacks, winId, shown, messages,
                 ticket, consent>>

\* rejectAllPendingSignatureApprovals, on BOING_ACTIVE_ACCOUNT_CHANGED.
RejectAll ==
  /\ pendingSignatureApprovals # {}
  /\ SettlePendingApprovals(pendingSignatureApprovals, "rejected")
  /\ timeouts' = timeouts \ TimersOf(pendingSignatureApprovals)
  /\ UNCHANGED <<now, nextApprovalId, creating, createCallbacks, winId, shown, messages,
                 ticket, consent>>

\* The browser stops the service worker and starts it again: its memory is
\* gone, windows and messages remain.  Starting a worker takes at least one
\* tick of the millisecond clock.
WorkerDropsPrompts ==
  /\ now < MaxTime
  /\ now' = now + 1
  /\ nextApprovalId' = 1
  /\ pendingSignatureApprovals' = {}
  /\ approvalRequestIdsByWindowId' = [w \in PromptWindows |-> NoId]
  /\ timeouts' = {}
  /\ outcome' = [r \in Prompts |-> IF outcome[r] = "pending" THEN "lost" ELSE outcome[r]]
  /\ creating' = {}
  /\ createCallbacks' = {}
  /\ UNCHANGED <<pages, messages, ticket, consent>>

Tick ==
  /\ now < MaxTime
  /\ now' = now + 1
  /\ UNCHANGED <<worker, creating, createCallbacks, pages, messages, ticket, consent>>

PromptsNext ==
  \/ \E r \in Prompts : RequestSignatureApproval(r)
  \/ \E id \in Ids :
       \/ \E w \in PromptWindows : BrowserOpensWindow(id, w)
       \/ WindowCreateFailed(id)
       \/ ApprovalTimesOut(id)
  \/ \E w \in PromptWindows :
       \/ WindowCreated(w)
       \/ PageLoads(w)
       \/ \E approved \in BOOLEAN : UserAnswers(w, approved)
       \/ AnswerFails(w)
       \/ WindowRemoved(w)
  \/ \E m \in messages : ResolveSignApproval(m)
  \/ RejectAll
  \/ WorkerDropsPrompts
  \/ Tick

PromptsSpec == PromptsInit /\ [][PromptsNext]_promptVars

\* A timer that is armed fires; nothing else is owed by the user or the browser.
PromptsFairness == \A id \in Ids : WF_promptVars(ApprovalTimesOut(id))

FairPromptsSpec == PromptsSpec /\ PromptsFairness

-----------------------------------------------------------------------------
(***************************************************************************)
(* Properties.                                                             *)
(***************************************************************************)
PromptsTypeOK ==
  /\ now \in 0 .. MaxTime
  /\ nextApprovalId \in 1 .. (MaxApprovals + 1)
  /\ pendingSignatureApprovals \in SUBSET Approval
  /\ approvalRequestIdsByWindowId \in [PromptWindows -> Ids \cup {NoId}]
  /\ timeouts \in SUBSET Ids
  /\ outcome \in [Prompts -> Outcomes]
  /\ creating \in SUBSET Ids
  /\ createCallbacks \in SUBSET PromptWindows
  /\ winId \in [PromptWindows -> Ids \cup {NoId}]
  /\ approvalPage \in [PromptWindows -> PageState]
  /\ shown \in [PromptWindows -> Prompts \cup {NoPrompt}]
  /\ messages \in SUBSET Message
  /\ ticket \in [Prompts -> Ids \cup {NoId}]
  /\ consent \in SUBSET Prompts

\* A request is approved only if the user approved the page that displayed
\* that very request: an answer given in a window left over from an earlier
\* worker, or overtaken by a timeout, never settles another request.
ApprovedByConsent ==
  \A r \in Prompts : outcome[r] = "approved" => r \in consent

\* Every open request has exactly one entry and exactly its own timer is
\* armed, so nothing waits for ever and no timer outlives its request.
OpenHasTimer ==
  /\ timeouts = TimersOf(pendingSignatureApprovals)
  /\ \A r \in Prompts : outcome[r] = "pending" <=>
       \E p \in pendingSignatureApprovals : p.request = r

\* The window index and the entries agree: closing a window rejects the
\* request that window was opened for, and no settled request is left in it.
WindowIndexAgrees ==
  \A w \in PromptWindows :
    \A id \in Ids :
      approvalRequestIdsByWindowId[w] = id <=>
        \E p \in pendingSignatureApprovals : p.requestId = id /\ p.windowId = w

\* The prompts implement the promise the rest of the wallet relies on.
Approvals == INSTANCE ApprovalPromise
  WITH Requests <- Prompts, outcome <- outcome, consent <- consent
ImplementsPromise == Approvals!SafetySpec

\* Every prompt settles, whether or not the user, the page or the browser
\* ever answers: its timeout is armed before the window is asked for.
EverySettles == Approvals!EverySettles
=============================================================================
