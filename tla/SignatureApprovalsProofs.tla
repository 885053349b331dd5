---------------------- MODULE SignatureApprovalsProofs ----------------------
(***************************************************************************)
(* Proofs about SignatureApprovals, for every set of requests and windows. *)
(***************************************************************************)
EXTENDS SignatureApprovals, TLAPS

(***************************************************************************)
(* The ids of one worker life are numbered, those of different lives differ*)
(* in their clock: the next id was never given out.                        *)
(***************************************************************************)
TicketsAreOld ==
  \A r \in Prompts : ticket[r] # NoId =>
    /\ ticket[r][1] <= now
    /\ ticket[r][1] = now => ticket[r][2] < nextApprovalId

TicketsAreUnique ==
  \A r, s \in Prompts : ticket[r] # NoId /\ ticket[r] = ticket[s] => r = s

EntriesMatchTickets ==
  \A p \in pendingSignatureApprovals : p.requestId = ticket[p.request]

\* A page that can be answered, now or again, has its id and displays a request.
PagesAreBound ==
  \A w \in PromptWindows :
    /\ approvalPage[w] \in {"loading", "asking", "busy"} => winId[w] \in Ids
    /\ approvalPage[w] \in {"asking", "busy"} => shown[w] \in Prompts

\* Only a page that has loaded displays a request, the one its URL names.
PagesMatchTickets ==
  \A w \in PromptWindows :
    /\ approvalPage[w] \in {"unused", "loading"} => shown[w] = NoPrompt
    /\ shown[w] \in Prompts => winId[w] # NoId /\ winId[w] = ticket[shown[w]]

AnswersMatchTickets ==
  \A m \in messages : m.approved =>
    \E r \in consent : m.requestId = ticket[r]

Asked == \A r \in Prompts : ticket[r] = NoId <=> outcome[r] = "none"

-----------------------------------------------------------------------------
(***************************************************************************)
(* Type correctness.                                                       *)
(***************************************************************************)
\* The entries found under an id are entries of the Map.
LEMMA EntriesAreEntries ==
  \A id : Entry(id) \subseteq pendingSignatureApprovals
BY DEF Entry

\* clearPendingApproval leaves the Map, the window index and the promises well typed.
LEMMA ClearingKeepsTypes ==
  ASSUME PromptsTypeOK,
         NEW entries \in SUBSET pendingSignatureApprovals,
         NEW result \in Outcomes,
         ClearPendingApprovals(entries, result)
  PROVE  /\ pendingSignatureApprovals' \in SUBSET Approval
         /\ approvalRequestIdsByWindowId' \in [PromptWindows -> Ids \cup {NoId}]
         /\ outcome' \in [Prompts -> Outcomes]
BY DEF PromptsTypeOK, ClearPendingApprovals

\* chrome.windows.remove leaves every page in a known state.
LEMMA ClosingKeepsTypes ==
  ASSUME PromptsTypeOK, NEW ws, CloseWindows(ws)
  PROVE  approvalPage' \in [PromptWindows -> PageState]
BY DEF PromptsTypeOK, CloseWindows, PageState

\* rejectPendingApproval and resolvePendingApproval keep the types of all they
\* change.
LEMMA SettlingKeepsTypes ==
  ASSUME PromptsTypeOK,
         NEW entries \in SUBSET pendingSignatureApprovals,
         NEW result \in Outcomes,
         SettlePendingApprovals(entries, result)
  PROVE  /\ pendingSignatureApprovals' \in SUBSET Approval
         /\ approvalRequestIdsByWindowId' \in [PromptWindows -> Ids \cup {NoId}]
         /\ outcome' \in [Prompts -> Outcomes]
         /\ approvalPage' \in [PromptWindows -> PageState]
BY ClearingKeepsTypes, ClosingKeepsTypes DEF SettlePendingApprovals

\* No operation of the prompts, the page or the browser breaks a type.
LEMMA TypeStep == PromptsTypeOK /\ PagesAreBound /\ [PromptsNext]_promptVars => PromptsTypeOK'
<1> SUFFICES ASSUME PromptsTypeOK, PagesAreBound, [PromptsNext]_promptVars PROVE PromptsTypeOK'
  OBVIOUS
<1> USE Bounds
<1>a. "rejected" \in Outcomes /\ "approved" \in Outcomes
  BY DEF Outcomes
<1>1. ASSUME NEW r \in Prompts, RequestSignatureApproval(r) PROVE PromptsTypeOK'
  <2>1. FreshRequestId \in Ids
    BY <1>1 DEF RequestSignatureApproval, FreshRequestId, Ids, PromptsTypeOK
  <2>2. nextApprovalId' \in 1 .. (MaxApprovals + 1)
    BY <1>1 DEF RequestSignatureApproval, PromptsTypeOK
  <2> QED
    BY <1>1, <2>1, <2>2
    DEF RequestSignatureApproval, pages, Approval, Entry, PromptsTypeOK, Outcomes
<1>2. ASSUME NEW id \in Ids, NEW w \in PromptWindows, BrowserOpensWindow(id, w) PROVE PromptsTypeOK'
  BY <1>2 DEF BrowserOpensWindow, worker, PageState, PromptsTypeOK
<1>3. ASSUME NEW id \in Ids, WindowCreateFailed(id) PROVE PromptsTypeOK'
  BY <1>3, <1>a, EntriesAreEntries, SettlingKeepsTypes DEF WindowCreateFailed, PromptsTypeOK
<1>4. ASSUME NEW id \in Ids, ApprovalTimesOut(id) PROVE PromptsTypeOK'
  BY <1>4, <1>a, EntriesAreEntries, SettlingKeepsTypes DEF ApprovalTimesOut, PromptsTypeOK
<1>5. ASSUME NEW w \in PromptWindows, WindowCreated(w) PROVE PromptsTypeOK'
  <2>1. CASE Entry(winId[w]) = {}
    BY <1>5, <2>1 DEF WindowCreated, pages, PromptsTypeOK
  <2>2. CASE Entry(winId[w]) # {}
    <3>1. winId[w] \in Ids
      BY <2>2 DEF Entry, Approval, PromptsTypeOK
    <3>2. \A p \in Entry(winId[w]) : [p EXCEPT !.windowId = w] \in Approval
      BY DEF Entry, Approval, PromptsTypeOK
    <3> QED
      BY <1>5, <2>2, <3>1, <3>2 DEF WindowCreated, pages, PromptsTypeOK
  <2> QED
    BY <2>1, <2>2
<1>6. ASSUME NEW w \in PromptWindows, PageLoads(w) PROVE PromptsTypeOK'
  BY <1>6 DEF PageLoads, worker, Entry, Approval, PageState, PromptsTypeOK
<1>7. ASSUME NEW w \in PromptWindows, NEW approved \in BOOLEAN, UserAnswers(w, approved)
      PROVE PromptsTypeOK'
  <2>1. [requestId |-> winId[w], approved |-> approved] \in Message
    BY <1>7 DEF UserAnswers, PagesAreBound, Message
  <2>2. shown[w] \in Prompts
    BY <1>7 DEF UserAnswers, PagesAreBound
  <2> QED
    BY <1>7, <2>1, <2>2 DEF UserAnswers, worker, PageState, PromptsTypeOK
<1>8. ASSUME NEW w \in PromptWindows, WindowRemoved(w) PROVE PromptsTypeOK'
  <2> DEFINE id == approvalRequestIdsByWindowId[w]
             gone == IF id = NoId THEN {} ELSE Entry(id)
  <2>1. gone \in SUBSET pendingSignatureApprovals
    BY EntriesAreEntries
  <2>2. /\ ClearPendingApprovals(gone, "rejected")
        /\ CloseWindows({w} \cup WindowsOf(gone))
        /\ timeouts' = timeouts \ TimersOf(gone)
    BY <1>8 DEF WindowRemoved
  <2> HIDE DEF gone
  <2> QED
    BY <1>8, <1>a, <2>1, <2>2, ClearingKeepsTypes, ClosingKeepsTypes
    DEF WindowRemoved, PromptsTypeOK
<1>9. ASSUME NEW m \in messages, ResolveSignApproval(m) PROVE PromptsTypeOK'
  BY <1>9, <1>a, EntriesAreEntries, SettlingKeepsTypes DEF ResolveSignApproval, PromptsTypeOK
<1>10. ASSUME RejectAll PROVE PromptsTypeOK'
  BY <1>10, <1>a, SettlingKeepsTypes DEF RejectAll, PromptsTypeOK
<1>11. ASSUME WorkerDropsPrompts PROVE PromptsTypeOK'
  BY <1>11 DEF WorkerDropsPrompts, pages, Outcomes, PromptsTypeOK
<1>12. ASSUME Tick PROVE PromptsTypeOK'
  BY <1>12 DEF Tick, worker, pages, PromptsTypeOK
<1>13. ASSUME NEW w \in PromptWindows, AnswerFails(w) PROVE PromptsTypeOK'
  BY <1>13 DEF AnswerFails, worker, PageState, PromptsTypeOK
<1>14. CASE UNCHANGED promptVars
  BY <1>14 DEF promptVars, worker, pages, PromptsTypeOK
<1> QED
  BY <1>1, <1>2, <1>3, <1>4, <1>5, <1>6, <1>7, <1>8, <1>9, <1>10, <1>11, <1>12,
     <1>13, <1>14 DEF PromptsNext

\* A page that has been opened keeps the id in its URL.
LEMMA PagesStep == PromptsTypeOK /\ PagesAreBound /\ [PromptsNext]_promptVars => PagesAreBound'
<1> SUFFICES ASSUME PromptsTypeOK, PagesAreBound, [PromptsNext]_promptVars PROVE PagesAreBound'
  OBVIOUS
<1>a. ASSUME NEW ws, CloseWindows(ws), UNCHANGED <<winId, shown>> PROVE PagesAreBound'
  BY <1>a DEF CloseWindows, PagesAreBound
<1>1. ASSUME NEW r \in Prompts, RequestSignatureApproval(r) PROVE PagesAreBound'
  BY <1>1 DEF RequestSignatureApproval, pages, PagesAreBound
<1>2. ASSUME NEW id \in Ids, NEW w \in PromptWindows, BrowserOpensWindow(id, w)
      PROVE PagesAreBound'
  BY <1>2 DEF BrowserOpensWindow, PagesAreBound, PromptsTypeOK
<1>3. ASSUME NEW id \in Ids, WindowCreateFailed(id) PROVE PagesAreBound'
  BY <1>3, <1>a DEF WindowCreateFailed, SettlePendingApprovals
<1>4. ASSUME NEW id \in Ids, ApprovalTimesOut(id) PROVE PagesAreBound'
  BY <1>4, <1>a DEF ApprovalTimesOut, SettlePendingApprovals
<1>5. ASSUME NEW w \in PromptWindows, WindowCreated(w) PROVE PagesAreBound'
  BY <1>5 DEF WindowCreated, pages, PagesAreBound
<1>6. ASSUME NEW w \in PromptWindows, PageLoads(w) PROVE PagesAreBound'
  BY <1>6 DEF PageLoads, Entry, Approval, PagesAreBound, PromptsTypeOK
<1>7. ASSUME NEW w \in PromptWindows, NEW approved \in BOOLEAN, UserAnswers(w, approved)
      PROVE PagesAreBound'
  BY <1>7 DEF UserAnswers, PagesAreBound, PromptsTypeOK
<1>8. ASSUME NEW w \in PromptWindows, WindowRemoved(w) PROVE PagesAreBound'
  <2>1. /\ \E ws : CloseWindows(ws)
        /\ UNCHANGED <<winId, shown>>
    BY <1>8 DEF WindowRemoved
  <2> QED
    BY <1>a, <2>1
<1>9. ASSUME NEW m \in messages, ResolveSignApproval(m) PROVE PagesAreBound'
  BY <1>9, <1>a DEF ResolveSignApproval, SettlePendingApprovals
<1>10. ASSUME RejectAll PROVE PagesAreBound'
  BY <1>10, <1>a DEF RejectAll, SettlePendingApprovals
<1>11. ASSUME WorkerDropsPrompts PROVE PagesAreBound'
  BY <1>11 DEF WorkerDropsPrompts, pages, PagesAreBound
<1>12. ASSUME Tick PROVE PagesAreBound'
  BY <1>12 DEF Tick, pages, PagesAreBound
<1>13. ASSUME NEW w \in PromptWindows, AnswerFails(w) PROVE PagesAreBound'
  BY <1>13 DEF AnswerFails, PagesAreBound, PromptsTypeOK
<1>14. CASE UNCHANGED promptVars
  BY <1>14 DEF promptVars, pages, PagesAreBound
<1> QED
  BY <1>1, <1>2, <1>3, <1>4, <1>5, <1>6, <1>7, <1>8, <1>9, <1>10, <1>11, <1>12,
     <1>13, <1>14 DEF PromptsNext

\* A worker that has just started, with no window open, is well typed.
LEMMA InitTypes == PromptsInit => PromptsTypeOK /\ PagesAreBound
BY Bounds, Sentinels DEF PromptsInit, PromptsTypeOK, PagesAreBound, Ids, Outcomes, PageState

\* Every variable keeps its shape in every reachable state.
THEOREM TypeCorrect == PromptsSpec => []PromptsTypeOK
<1>1. PromptsSpec => [](PromptsTypeOK /\ PagesAreBound)
  BY InitTypes, TypeStep, PagesStep, PTL DEF PromptsSpec
<1> QED
  BY <1>1, PTL

-----------------------------------------------------------------------------
(***************************************************************************)
(* Consent.                                                                *)
(***************************************************************************)
IdsIdentify ==
  /\ TicketsAreOld
  /\ TicketsAreUnique
  /\ EntriesMatchTickets
  /\ PagesMatchTickets
  /\ AnswersMatchTickets
  /\ Asked
  /\ OpenHasTimer
  /\ ApprovedByConsent

\* Entries of one request share its ticket, so a set of entries that holds
\* all or none of the entries of an id can be settled: what it leaves behind
\* is again one timer and one pending promise per entry.
LEMMA Settling ==
  ASSUME PromptsTypeOK, IdsIdentify,
         NEW entries \in SUBSET pendingSignatureApprovals,
         \A p \in entries, q \in pendingSignatureApprovals :
           p.requestId = q.requestId => q \in entries,
         NEW result \in {"approved", "rejected", "lost"},
         result = "approved" => \A p \in entries : p.request \in consent,
         ClearPendingApprovals(entries, result),
         timeouts' = timeouts \ TimersOf(entries),
         UNCHANGED <<ticket, consent>>
  PROVE  /\ EntriesMatchTickets'
         /\ Asked'
         /\ OpenHasTimer'
         /\ ApprovedByConsent'
<1>1. EntriesMatchTickets'
  BY DEF IdsIdentify, EntriesMatchTickets, ClearPendingApprovals
<1>2. \A p \in pendingSignatureApprovals : p.request \in Prompts /\ outcome[p.request] = "pending"
  BY DEF IdsIdentify, OpenHasTimer, PromptsTypeOK, Approval
<1>3. Asked'
  BY <1>2 DEF IdsIdentify, Asked, ClearPendingApprovals
<1>4. \A p \in entries, q \in pendingSignatureApprovals :
        p.request = q.request => q \in entries
  BY DEF IdsIdentify, EntriesMatchTickets
<1>5. timeouts' = TimersOf(pendingSignatureApprovals \ entries)
  BY DEF IdsIdentify, OpenHasTimer, TimersOf
<1>6. \A r \in Prompts : outcome'[r] = "pending" <=>
        \E p \in pendingSignatureApprovals \ entries : p.request = r
  BY <1>4 DEF IdsIdentify, OpenHasTimer, ClearPendingApprovals
<1>7. OpenHasTimer'
  BY <1>5, <1>6 DEF OpenHasTimer, ClearPendingApprovals, TimersOf
<1>8. ApprovedByConsent'
  BY DEF IdsIdentify, ApprovedByConsent, ClearPendingApprovals
<1> QED
  BY <1>1, <1>3, <1>7, <1>8

\* Ids, pages and answers are left alone by whatever settles a request.
Untouched ==
  /\ now' = now
  /\ nextApprovalId' = nextApprovalId
  /\ ticket' = ticket
  /\ consent' = consent
  /\ winId' = winId
  /\ shown' = shown
  /\ messages' \subseteq messages

\* A step that leaves entries, promises, timers, tickets and pages' ids alone, and
\* at most delivers messages, keeps the invariant.
LEMMA Untouching ==
  ASSUME IdsIdentify, Untouched, \E ws : CloseWindows(ws), PromptsTypeOK
  PROVE  /\ TicketsAreOld'
         /\ TicketsAreUnique'
         /\ PagesMatchTickets'
         /\ AnswersMatchTickets'
<1>1. TicketsAreOld' /\ TicketsAreUnique'
  BY DEF IdsIdentify, Untouched, TicketsAreOld, TicketsAreUnique
<1>2. PagesMatchTickets'
  BY DEF IdsIdentify, Untouched, PagesMatchTickets, CloseWindows
<1>3. AnswersMatchTickets'
  BY DEF IdsIdentify, Untouched, AnswersMatchTickets
<1> QED
  BY <1>1, <1>2, <1>3

\* Settling what is open under one id, as an answer, a timeout or a closed window
\* does, keeps the invariant.
LEMMA SettlingOneId ==
  ASSUME PromptsTypeOK, IdsIdentify, NEW id,
         NEW result \in {"approved", "rejected", "lost"},
         result = "approved" => \A p \in Entry(id) : p.request \in consent,
         SettlePendingApprovals(Entry(id), result),
         timeouts' = timeouts \ TimersOf(Entry(id)),
         Untouched
  PROVE  IdsIdentify'
<1>1. Entry(id) \in SUBSET pendingSignatureApprovals
  BY EntriesAreEntries
<1>2. \A p \in Entry(id), q \in pendingSignatureApprovals :
        p.requestId = q.requestId => q \in Entry(id)
  BY DEF Entry
<1>3. ClearPendingApprovals(Entry(id), result) /\ \E ws : CloseWindows(ws)
  BY DEF SettlePendingApprovals
<1>4. UNCHANGED <<ticket, consent>>
  BY DEF Untouched
<1> QED
  BY <1>1, <1>2, <1>3, <1>4, Settling, Untouching DEF IdsIdentify

\* Every operation keeps ids unique to their request: the counter separates the
\* requests of one worker, the clock those of two.
LEMMA IdsIdentifyStep ==
  PromptsTypeOK /\ PromptsTypeOK' /\ PagesAreBound /\ IdsIdentify /\ [PromptsNext]_promptVars => IdsIdentify'
<1> SUFFICES ASSUME PromptsTypeOK, PromptsTypeOK', PagesAreBound, IdsIdentify, [PromptsNext]_promptVars
             PROVE  IdsIdentify'
  OBVIOUS
<1>1. ASSUME NEW r \in Prompts, RequestSignatureApproval(r) PROVE IdsIdentify'
  <2> DEFINE id == FreshRequestId
             new == [requestId |-> id, request |-> r, windowId |-> NoPromptWindow]
  <2>1. ticket[r] = NoId
    BY <1>1 DEF RequestSignatureApproval, IdsIdentify, Asked
  <2>2. id \in Ids
    BY <1>1, Bounds DEF RequestSignatureApproval, FreshRequestId, Ids, PromptsTypeOK
  <2>3. id # NoId /\ id[1] = now /\ id[2] = nextApprovalId
    BY <2>2, Sentinels DEF FreshRequestId
  <2>4. \A s \in Prompts : ticket[s] # id
    BY <2>3, Bounds DEF IdsIdentify, TicketsAreOld, PromptsTypeOK, Ids
  <2>5. Entry(id) = {}
    BY <2>4 DEF Entry, IdsIdentify, EntriesMatchTickets, PromptsTypeOK, Approval
  <2>6. /\ pendingSignatureApprovals' = pendingSignatureApprovals \cup {new}
        /\ timeouts' = timeouts \cup {id}
        /\ ticket' = [ticket EXCEPT ![r] = id]
        /\ outcome' = [outcome EXCEPT ![r] = "pending"]
        /\ nextApprovalId' = nextApprovalId + 1
        /\ UNCHANGED <<now, winId, approvalPage, shown, messages, consent>>
    BY <1>1, <2>5 DEF RequestSignatureApproval, pages
  <2>a. new.requestId = id /\ new.request = r
    OBVIOUS
  <2> HIDE DEF id, new
  <2>7. TicketsAreOld'
    BY <2>3, <2>6 DEF IdsIdentify, TicketsAreOld, PromptsTypeOK, Ids
  <2>8. TicketsAreUnique'
    BY <2>4, <2>6 DEF IdsIdentify, TicketsAreUnique, PromptsTypeOK
  <2>9. \A p \in pendingSignatureApprovals : p.request \in Prompts /\ p.request # r
    BY <1>1 DEF RequestSignatureApproval, IdsIdentify, OpenHasTimer, PromptsTypeOK, Approval
  <2>10. EntriesMatchTickets'
    BY <2>a, <2>6, <2>9 DEF IdsIdentify, EntriesMatchTickets, PromptsTypeOK
  <2>11. PagesMatchTickets'
    <3>1. \A w \in PromptWindows : shown[w] # r
      BY <2>1 DEF IdsIdentify, PagesMatchTickets
    <3> QED
      BY <2>6, <3>1 DEF IdsIdentify, PagesMatchTickets, PromptsTypeOK
  <2>12. AnswersMatchTickets'
    BY <2>1, <2>6, Sentinels DEF IdsIdentify, AnswersMatchTickets, PromptsTypeOK, Message
  <2>13. Asked'
    BY <2>3, <2>6 DEF IdsIdentify, Asked, PromptsTypeOK
  <2>14. OpenHasTimer'
    BY <2>a, <2>6, <2>9 DEF IdsIdentify, OpenHasTimer, TimersOf, PromptsTypeOK
  <2>15. ApprovedByConsent'
    BY <2>6 DEF IdsIdentify, ApprovedByConsent, PromptsTypeOK
  <2> QED
    BY <2>7, <2>8, <2>10, <2>11, <2>12, <2>13, <2>14, <2>15 DEF IdsIdentify
<1>2. ASSUME NEW id \in Ids, NEW w \in PromptWindows, BrowserOpensWindow(id, w)
      PROVE IdsIdentify'
  <2>1. PagesMatchTickets'
    BY <1>2, Sentinels DEF BrowserOpensWindow, IdsIdentify, PagesMatchTickets, PromptsTypeOK
  <2> QED
    BY <1>2, <2>1
    DEF BrowserOpensWindow, worker, IdsIdentify, TicketsAreOld, TicketsAreUnique,
        EntriesMatchTickets, AnswersMatchTickets, Asked, OpenHasTimer,
        ApprovedByConsent, TimersOf
<1>3. ASSUME NEW id \in Ids, WindowCreateFailed(id) PROVE IdsIdentify'
  BY <1>3, SettlingOneId DEF WindowCreateFailed, Untouched
<1>4. ASSUME NEW id \in Ids, ApprovalTimesOut(id) PROVE IdsIdentify'
  <2>1. TimersOf(Entry(id)) = {id}
    BY <1>4 DEF ApprovalTimesOut, TimersOf, Entry, IdsIdentify, OpenHasTimer
  <2> QED
    BY <1>4, <2>1, SettlingOneId DEF ApprovalTimesOut, Untouched
<1>5. ASSUME NEW w \in PromptWindows, WindowCreated(w) PROVE IdsIdentify'
  <2> DEFINE entry == Entry(winId[w])
             moved == {[p EXCEPT !.windowId = w] : p \in entry}
  <2>1. /\ UNCHANGED <<now, nextApprovalId, timeouts, outcome, winId, approvalPage, shown,
                       messages, ticket, consent>>
        /\ pendingSignatureApprovals' = (pendingSignatureApprovals \ entry) \cup moved
    BY <1>5 DEF WindowCreated, pages
  <2>2. \A p \in entry : /\ [p EXCEPT !.windowId = w].request = p.request
                         /\ [p EXCEPT !.windowId = w].requestId = p.requestId
    BY DEF Entry, PromptsTypeOK, Approval
  <2>3. entry \subseteq pendingSignatureApprovals
    BY EntriesAreEntries
  <2>a. /\ \A q \in moved : \E p \in entry :
             p.request = q.request /\ p.requestId = q.requestId
        /\ \A p \in entry : \E q \in moved :
             p.request = q.request /\ p.requestId = q.requestId
    BY <2>2
  <2> HIDE DEF entry, moved
  <2>4. EntriesMatchTickets'
    BY <2>1, <2>a, <2>3 DEF IdsIdentify, EntriesMatchTickets
  <2>b. /\ \A q \in pendingSignatureApprovals' : \E p \in pendingSignatureApprovals :
             p.request = q.request /\ p.requestId = q.requestId
        /\ \A p \in pendingSignatureApprovals : \E q \in pendingSignatureApprovals' :
             p.request = q.request /\ p.requestId = q.requestId
    BY <2>1, <2>a, <2>3
  <2>5. TimersOf(pendingSignatureApprovals') = TimersOf(pendingSignatureApprovals)
    BY <2>b DEF TimersOf
  <2>6. \A r : (\E p \in pendingSignatureApprovals' : p.request = r)
           <=> (\E p \in pendingSignatureApprovals : p.request = r)
    BY <2>b
  <2>7. OpenHasTimer'
    BY <2>1, <2>5, <2>6 DEF IdsIdentify, OpenHasTimer, TimersOf
  <2> QED
    BY <2>1, <2>4, <2>7
    DEF IdsIdentify, TicketsAreOld, TicketsAreUnique, PagesMatchTickets,
        AnswersMatchTickets, Asked, ApprovedByConsent
<1>6. ASSUME NEW w \in PromptWindows, PageLoads(w) PROVE IdsIdentify'
  <2>1. /\ UNCHANGED <<now, nextApprovalId, pendingSignatureApprovals, timeouts, outcome,
                       winId, messages, ticket, consent>>
        /\ winId[w] \in Ids
        /\ shown[w] = NoPrompt
    BY <1>6 DEF PageLoads, worker, PagesAreBound, IdsIdentify, PagesMatchTickets
  <2>c. /\ approvalPage' = [approvalPage EXCEPT ![w] = approvalPage'[w]]
        /\ approvalPage'[w] \notin {"unused", "loading"}
    BY <1>6 DEF PageLoads, PromptsTypeOK
  <2>d. /\ shown' = [shown EXCEPT ![w] = shown'[w]]
        /\ shown'[w] \in Prompts => \E p \in Entry(winId[w]) : p.request = shown'[w]
    <3>1. CASE Entry(winId[w]) = {}
      BY <1>6, <2>1, <3>1, Sentinels DEF PageLoads, PromptsTypeOK
    <3>2. CASE Entry(winId[w]) # {}
      BY <1>6, <3>2 DEF PageLoads, PromptsTypeOK
    <3> QED
      BY <3>1, <3>2
  <2>2. shown'[w] \in Prompts => winId[w] = ticket[shown'[w]]
    BY <2>1, <2>d DEF Entry, IdsIdentify, EntriesMatchTickets
  <2>3. PagesMatchTickets'
    BY <2>1, <2>2, <2>c, <2>d, Sentinels DEF IdsIdentify, PagesMatchTickets, PromptsTypeOK
  <2> QED
    BY <2>1, <2>3
    DEF IdsIdentify, TicketsAreOld, TicketsAreUnique, EntriesMatchTickets,
        AnswersMatchTickets, Asked, OpenHasTimer, ApprovedByConsent, TimersOf
<1>7. ASSUME NEW w \in PromptWindows, NEW approved \in BOOLEAN, UserAnswers(w, approved)
      PROVE IdsIdentify'
  <2>1. /\ UNCHANGED <<now, nextApprovalId, pendingSignatureApprovals, timeouts, outcome,
                       winId, shown, ticket>>
        /\ approvalPage' = [approvalPage EXCEPT ![w] = "busy"]
        /\ messages' = messages \cup {[requestId |-> winId[w], approved |-> approved]}
        /\ consent' = IF approved THEN consent \cup {shown[w]} ELSE consent
    BY <1>7 DEF UserAnswers, worker
  <2>2. winId[w] = ticket[shown[w]]
    BY <1>7 DEF UserAnswers, PagesAreBound, IdsIdentify, PagesMatchTickets
  <2>3. AnswersMatchTickets'
    BY <2>1, <2>2 DEF IdsIdentify, AnswersMatchTickets
  <2>4. PagesMatchTickets'
    BY <2>1 DEF IdsIdentify, PagesMatchTickets, PromptsTypeOK
  <2>5. ApprovedByConsent'
    BY <2>1 DEF IdsIdentify, ApprovedByConsent
  <2> QED
    BY <2>1, <2>3, <2>4, <2>5
    DEF IdsIdentify, TicketsAreOld, TicketsAreUnique, EntriesMatchTickets, Asked,
        OpenHasTimer, TimersOf
<1>8. ASSUME NEW w \in PromptWindows, WindowRemoved(w) PROVE IdsIdentify'
  <2> DEFINE id == approvalRequestIdsByWindowId[w]
             gone == IF id = NoId THEN {} ELSE Entry(id)
  <2>1. /\ gone \in SUBSET pendingSignatureApprovals
        /\ \A p \in gone, q \in pendingSignatureApprovals :
             p.requestId = q.requestId => q \in gone
    BY DEF Entry
  <2>2. /\ ClearPendingApprovals(gone, "rejected")
        /\ timeouts' = timeouts \ TimersOf(gone)
        /\ \E ws : CloseWindows(ws)
        /\ Untouched
    BY <1>8 DEF WindowRemoved, Untouched
  <2> HIDE DEF gone
  <2> QED
    BY <2>1, <2>2, Settling, Untouching DEF IdsIdentify, Untouched
<1>9. ASSUME NEW m \in messages, ResolveSignApproval(m) PROVE IdsIdentify'
  <2>1. \A p \in Entry(m.requestId) : m.approved => p.request \in consent
    <3> SUFFICES ASSUME NEW p \in Entry(m.requestId), m.approved
                 PROVE  p.request \in consent
      OBVIOUS
    <3>1. /\ p.request \in Prompts
          /\ p.requestId = m.requestId
          /\ p.requestId \in Ids
      BY DEF Entry, PromptsTypeOK, Approval
    <3>2. p.requestId = ticket[p.request]
      BY DEF Entry, IdsIdentify, EntriesMatchTickets
    <3>3. PICK r \in consent : m.requestId = ticket[r]
      BY DEF IdsIdentify, AnswersMatchTickets
    <3>4. r \in Prompts
      BY DEF PromptsTypeOK
    <3> QED
      BY <3>1, <3>2, <3>3, <3>4, Sentinels DEF IdsIdentify, TicketsAreUnique
  <2> QED
    BY <1>9, <2>1, SettlingOneId DEF ResolveSignApproval, Untouched
<1>10. ASSUME RejectAll PROVE IdsIdentify'
  <2>1. /\ ClearPendingApprovals(pendingSignatureApprovals, "rejected")
        /\ timeouts' = timeouts \ TimersOf(pendingSignatureApprovals)
        /\ \E ws : CloseWindows(ws)
        /\ Untouched
    BY <1>10 DEF RejectAll, SettlePendingApprovals, Untouched
  <2> QED
    BY <2>1, Settling, Untouching DEF IdsIdentify, Untouched
<1>11. ASSUME WorkerDropsPrompts PROVE IdsIdentify'
  <2>1. /\ now' = now + 1
        /\ pendingSignatureApprovals' = {}
        /\ timeouts' = {}
        /\ outcome' = [r \in Prompts |-> IF outcome[r] = "pending" THEN "lost" ELSE outcome[r]]
        /\ UNCHANGED <<winId, approvalPage, shown, messages, ticket, consent>>
    BY <1>11 DEF WorkerDropsPrompts, pages
  <2>2. TicketsAreOld'
    BY <2>1, Bounds DEF IdsIdentify, TicketsAreOld, PromptsTypeOK, Ids
  <2>3. OpenHasTimer'
    BY <2>1 DEF OpenHasTimer, TimersOf
  <2> QED
    BY <2>1, <2>2, <2>3
    DEF IdsIdentify, TicketsAreUnique, EntriesMatchTickets, PagesMatchTickets,
        AnswersMatchTickets, Asked, ApprovedByConsent
<1>12. ASSUME Tick PROVE IdsIdentify'
  <2>1. TicketsAreOld'
    BY <1>12, Bounds DEF Tick, IdsIdentify, TicketsAreOld, PromptsTypeOK, Ids
  <2> QED
    BY <1>12, <2>1
    DEF Tick, worker, pages, IdsIdentify, TicketsAreUnique, EntriesMatchTickets,
        PagesMatchTickets, AnswersMatchTickets, Asked, OpenHasTimer, TimersOf,
        ApprovedByConsent
<1>13. ASSUME NEW w \in PromptWindows, AnswerFails(w) PROVE IdsIdentify'
  <2>1. PagesMatchTickets'
    BY <1>13 DEF AnswerFails, IdsIdentify, PagesMatchTickets, PromptsTypeOK
  <2> QED
    BY <1>13, <2>1
    DEF AnswerFails, worker, IdsIdentify, TicketsAreOld, TicketsAreUnique,
        EntriesMatchTickets, AnswersMatchTickets, Asked, OpenHasTimer, TimersOf,
        ApprovedByConsent
<1>14. CASE UNCHANGED promptVars
  BY <1>14
  DEF promptVars, worker, pages, IdsIdentify, TicketsAreOld, TicketsAreUnique,
      EntriesMatchTickets, PagesMatchTickets, AnswersMatchTickets, Asked,
      OpenHasTimer, TimersOf, ApprovedByConsent
<1> QED
  BY <1>1, <1>2, <1>3, <1>4, <1>5, <1>6, <1>7, <1>8, <1>9, <1>10, <1>11, <1>12,
     <1>13, <1>14 DEF PromptsNext

\* At the start no id has been given, so none is ambiguous.
LEMMA InitIdsIdentify == PromptsInit => IdsIdentify
BY Sentinels
   DEF PromptsInit, IdsIdentify, TicketsAreOld, TicketsAreUnique, EntriesMatchTickets,
       PagesMatchTickets, AnswersMatchTickets, Asked, OpenHasTimer, TimersOf,
       ApprovedByConsent

\* The inductive invariant holds in every reachable state.
LEMMA Invariant == PromptsSpec => [](PromptsTypeOK /\ PagesAreBound /\ IdsIdentify)
<1>1. PromptsInit => PromptsTypeOK /\ PagesAreBound /\ IdsIdentify
  BY InitTypes, InitIdsIdentify
<1>2. PromptsTypeOK /\ PagesAreBound /\ IdsIdentify /\ [PromptsNext]_promptVars
        => (PromptsTypeOK /\ PagesAreBound /\ IdsIdentify)'
  BY TypeStep, PagesStep, IdsIdentifyStep
<1> QED
  BY <1>1, <1>2, PTL DEF PromptsSpec

\* No request is approved unless the user approved the page displaying it.
THEOREM Consented == PromptsSpec => []ApprovedByConsent
BY Invariant, PTL DEF IdsIdentify

\* The armed timers are those of the open requests, in every reachable state.
THEOREM NothingWaitsForever == PromptsSpec => []OpenHasTimer
BY Invariant, PTL DEF IdsIdentify

-----------------------------------------------------------------------------
(***************************************************************************)
(* The window index.  A window stands for one request from the callback    *)
(* that creates it on, and a request is still owed a callback, by at most  *)
(* one window, or stands in the index, but not both.                       *)
(***************************************************************************)
GivenOut(id) == id # NoId /\ \E r \in Prompts : ticket[r] = id

OpeningIsApart ==
  /\ \A id \in creating : GivenOut(id)
  /\ \A w \in createCallbacks : /\ approvalPage[w] # "unused" /\ winId[w] \notin creating
                          /\ GivenOut(winId[w])
  /\ \A v, w \in createCallbacks : winId[v] = winId[w] => v = w
  /\ \A w \in PromptWindows : approvalRequestIdsByWindowId[w] # NoId =>
       /\ approvalPage[w] # "unused" /\ w \notin createCallbacks
       /\ approvalRequestIdsByWindowId[w] \notin creating
       /\ \A v \in createCallbacks : winId[v] # approvalRequestIdsByWindowId[w]

WindowInv == WindowIndexAgrees /\ OpeningIsApart

\* Clearing all entries of some ids clears the windows of these and no others.
LEMMA ClearingKeepsIndex ==
  ASSUME PromptsTypeOK, WindowInv,
         NEW entries \in SUBSET pendingSignatureApprovals,
         \A p \in entries, q \in pendingSignatureApprovals :
           p.requestId = q.requestId => q \in entries,
         NEW result, ClearPendingApprovals(entries, result),
         NEW ws, CloseWindows(ws),
         creating' \subseteq creating, UNCHANGED <<createCallbacks, winId, ticket>>
  PROVE  WindowInv'
<1> DEFINE index == approvalRequestIdsByWindowId
<1>1. \A w \in PromptWindows : index'[w] = IF w \in WindowsOf(entries) THEN NoId ELSE index[w]
  BY DEF ClearPendingApprovals
<1>2. pendingSignatureApprovals' = pendingSignatureApprovals \ entries
  BY DEF ClearPendingApprovals
<1>3. \A p \in pendingSignatureApprovals : p.requestId \in Ids
  BY DEF PromptsTypeOK, Approval
<1>4. ASSUME NEW w \in PromptWindows, NEW id \in Ids
      PROVE  index'[w] = id <=>
               \E p \in pendingSignatureApprovals' : p.requestId = id /\ p.windowId = w
  <2>1. CASE w \in WindowsOf(entries)
    <3>1. PICK q \in entries : q.windowId = w
      BY <2>1 DEF WindowsOf
    <3>2. index[w] = q.requestId
      BY <1>3, <3>1 DEF WindowInv, WindowIndexAgrees
    <3>3. ASSUME NEW p \in pendingSignatureApprovals, p.windowId = w PROVE p \in entries
      <4>1. index[w] = p.requestId
        BY <1>3, <3>3 DEF WindowInv, WindowIndexAgrees
      <4> QED
        BY <3>2, <4>1
    <3>4. index'[w] # id
      BY <1>1, <2>1, Sentinels
    <3> QED
      BY <1>2, <3>3, <3>4
  <2>2. CASE w \notin WindowsOf(entries)
    BY <1>1, <1>2, <2>2 DEF WindowsOf, WindowInv, WindowIndexAgrees
  <2> QED
    BY <2>1, <2>2
<1>5. \A w \in PromptWindows : index'[w] # NoId => index'[w] = index[w]
  BY <1>1
<1>6. \A w \in PromptWindows : approvalPage[w] # "unused" => approvalPage'[w] # "unused"
  BY DEF CloseWindows
<1>7. OpeningIsApart'
  <2>1. \A w \in createCallbacks : w \in PromptWindows
    BY DEF PromptsTypeOK
  <2>2. \A id : GivenOut(id) => GivenOut(id)'
    BY DEF GivenOut
  <2> QED
    BY <1>5, <1>6, <2>1, <2>2 DEF WindowInv, OpeningIsApart
<1> QED
  BY <1>4, <1>7 DEF WindowInv, WindowIndexAgrees

\* Settling all that is open under one id.
LEMMA SettlingKeepsIndex ==
  ASSUME PromptsTypeOK, WindowInv, NEW id, NEW result, SettlePendingApprovals(Entry(id), result),
         creating' \subseteq creating, UNCHANGED <<createCallbacks, winId, ticket>>
  PROVE  WindowInv'
<1>1. Entry(id) \in SUBSET pendingSignatureApprovals
  BY EntriesAreEntries
<1>2. \A p \in Entry(id), q \in pendingSignatureApprovals :
        p.requestId = q.requestId => q \in Entry(id)
  BY DEF Entry
<1> QED
  BY <1>1, <1>2, ClearingKeepsIndex DEF SettlePendingApprovals

LEMMA WindowStep ==
  PromptsTypeOK /\ IdsIdentify /\ WindowInv /\ [PromptsNext]_promptVars => WindowInv'
<1> SUFFICES ASSUME PromptsTypeOK, IdsIdentify, WindowInv, [PromptsNext]_promptVars PROVE WindowInv'
  OBVIOUS
<1> DEFINE index == approvalRequestIdsByWindowId
<1>1. ASSUME NEW r \in Prompts, RequestSignatureApproval(r) PROVE WindowInv'
  <2> PICK id : id = FreshRequestId
    OBVIOUS
  <2> DEFINE new == [requestId |-> id, request |-> r, windowId |-> NoPromptWindow]
  <2>1. ticket[r] = NoId
    BY <1>1 DEF RequestSignatureApproval, IdsIdentify, Asked
  <2>2. id \in Ids
    BY <1>1, Bounds DEF RequestSignatureApproval, FreshRequestId, Ids, PromptsTypeOK
  <2>3. id # NoId /\ id[1] = now /\ id[2] = nextApprovalId
    BY <2>2, Sentinels DEF FreshRequestId
  <2>4. \A s \in Prompts : ticket[s] # id
    BY <2>3, Bounds DEF IdsIdentify, TicketsAreOld, PromptsTypeOK, Ids
  <2>5. Entry(id) = {}
    BY <2>4 DEF Entry, IdsIdentify, EntriesMatchTickets, PromptsTypeOK, Approval
  <2>6. /\ pendingSignatureApprovals' = pendingSignatureApprovals \cup {new}
        /\ creating' = creating \cup {id}
        /\ ticket' = [ticket EXCEPT ![r] = id]
        /\ UNCHANGED <<approvalRequestIdsByWindowId, createCallbacks, winId, approvalPage>>
    BY <1>1, <2>5 DEF RequestSignatureApproval, pages
  <2>7. new.windowId \notin PromptWindows
    BY Sentinels
  <2> HIDE DEF new
  <2>8. WindowIndexAgrees'
    BY <2>6, <2>7 DEF WindowInv, WindowIndexAgrees
  <2>9. \A i \in Ids : GivenOut(i) => GivenOut(i)' /\ i # id
    BY <2>1, <2>4, <2>6, Sentinels DEF GivenOut, PromptsTypeOK
  <2>10. GivenOut(id)'
    BY <2>3, <2>6 DEF GivenOut, PromptsTypeOK
  <2>11. /\ \A i \in creating : i \in Ids
         /\ \A w \in createCallbacks : w \in PromptWindows /\ winId[w] \in Ids
    BY Sentinels DEF PromptsTypeOK, WindowInv, OpeningIsApart, GivenOut, IdsIdentify, PagesMatchTickets
  <2>12. \A w \in PromptWindows : index[w] # NoId => index[w] # id
    <3>1. \A w \in PromptWindows : index[w] # NoId => \E p \in pendingSignatureApprovals : p.requestId = index[w]
      BY DEF PromptsTypeOK, WindowInv, WindowIndexAgrees
    <3> QED
      BY <2>5, <3>1 DEF Entry
  <2>13. OpeningIsApart'
    BY <2>6, <2>9, <2>10, <2>11, <2>12 DEF WindowInv, OpeningIsApart
  <2> QED
    BY <2>8, <2>13 DEF WindowInv
<1>2. ASSUME NEW id \in Ids, NEW w \in PromptWindows, BrowserOpensWindow(id, w)
      PROVE WindowInv'
  <2>1. /\ id \in creating /\ approvalPage[w] = "unused"
        /\ creating' = creating \ {id} /\ createCallbacks' = createCallbacks \cup {w}
        /\ winId'[w] = id /\ approvalPage'[w] = "loading"
        /\ \A v \in PromptWindows : v # w => winId'[v] = winId[v] /\ approvalPage'[v] = approvalPage[v]
        /\ UNCHANGED <<approvalRequestIdsByWindowId, pendingSignatureApprovals, ticket>>
    BY <1>2 DEF BrowserOpensWindow, worker, PromptsTypeOK
  <2>2. WindowIndexAgrees'
    BY <2>1 DEF WindowInv, WindowIndexAgrees
  <2>3. \A i : GivenOut(i) => GivenOut(i)'
    BY <2>1 DEF GivenOut
  <2>4. w \notin createCallbacks /\ index[w] = NoId /\ \A v \in createCallbacks : v \in PromptWindows
    BY <2>1 DEF WindowInv, OpeningIsApart, PromptsTypeOK
  <2>5. OpeningIsApart'
    BY <2>1, <2>3, <2>4 DEF WindowInv, OpeningIsApart
  <2> QED
    BY <2>2, <2>5 DEF WindowInv
<1>3. ASSUME NEW w \in PromptWindows, WindowCreated(w) PROVE WindowInv'
  <2> DEFINE id == winId[w]
  <2>1. /\ w \in createCallbacks /\ createCallbacks' = createCallbacks \ {w}
        /\ UNCHANGED <<creating, winId, approvalPage, ticket>>
    BY <1>3 DEF WindowCreated, pages
  <2>2. \A i : GivenOut(i) => GivenOut(i)'
    BY <2>1 DEF GivenOut
  <2>3. CASE Entry(id) = {}
    <3>1. UNCHANGED <<pendingSignatureApprovals, approvalRequestIdsByWindowId>>
      BY <1>3, <2>3 DEF WindowCreated
    <3> QED
      BY <2>1, <2>2, <3>1 DEF WindowInv, WindowIndexAgrees, OpeningIsApart
  <2>4. CASE Entry(id) # {}
    <3> DEFINE moved == {[p EXCEPT !.windowId = w] : p \in Entry(id)}
    <3>1. /\ pendingSignatureApprovals' = (pendingSignatureApprovals \ Entry(id)) \cup moved
          /\ index' = [index EXCEPT ![w] = id]
      BY <1>3, <2>4 DEF WindowCreated
    <3>2. /\ index'[w] = id /\ \A v \in PromptWindows : v # w => index'[v] = index[v]
      BY <3>1 DEF PromptsTypeOK
    <3>3. \A q \in moved : q.requestId = id /\ q.windowId = w
      BY DEF Entry, PromptsTypeOK, Approval
    <3>4. moved # {}
      BY <2>4
    <3>5. \A v \in PromptWindows : index[v] # id
      <4>1. id # NoId
        BY <2>4, Sentinels DEF Entry, PromptsTypeOK, Approval
      <4> QED
        BY <2>1, <4>1 DEF WindowInv, OpeningIsApart
    <3>6. \A p \in pendingSignatureApprovals : p.requestId \in Ids /\ p.windowId # w
      <4>1. \A p \in pendingSignatureApprovals : p.requestId \in Ids /\ p.requestId # NoId
        BY Sentinels DEF PromptsTypeOK, Approval
      <4>2. index[w] = NoId
        BY <2>1 DEF WindowInv, OpeningIsApart
      <4> QED
        BY <4>1, <4>2 DEF WindowInv, WindowIndexAgrees
    <3>7. \A p \in pendingSignatureApprovals : p.requestId = id => p.windowId \notin PromptWindows
      BY <3>5, <3>6 DEF WindowInv, WindowIndexAgrees
    <3>8. ASSUME NEW v \in PromptWindows, NEW i \in Ids
          PROVE  index'[v] = i <=>
                   \E p \in pendingSignatureApprovals' : p.requestId = i /\ p.windowId = v
      <4> HIDE DEF moved
      <4>1. CASE v = w
        BY <3>1, <3>2, <3>3, <3>4, <3>6, <4>1
      <4>2. CASE v # w
        BY <3>1, <3>2, <3>3, <3>7, <4>2 DEF WindowInv, WindowIndexAgrees, Entry
      <4> QED
        BY <4>1, <4>2
    <3>9. OpeningIsApart'
      BY <2>1, <2>2, <3>2 DEF WindowInv, OpeningIsApart
    <3> QED
      BY <3>8, <3>9 DEF WindowInv, WindowIndexAgrees
  <2> QED
    BY <2>3, <2>4
<1>4. ASSUME NEW id \in Ids, WindowCreateFailed(id) PROVE WindowInv'
  BY <1>4, SettlingKeepsIndex DEF WindowCreateFailed
<1>5. ASSUME NEW id \in Ids, ApprovalTimesOut(id) PROVE WindowInv'
  BY <1>5, SettlingKeepsIndex DEF ApprovalTimesOut
<1>6. ASSUME NEW w \in PromptWindows, WindowRemoved(w) PROVE WindowInv'
  <2> DEFINE gone == IF index[w] = NoId THEN {} ELSE Entry(index[w])
  <2>1. /\ ClearPendingApprovals(gone, "rejected") /\ CloseWindows({w} \cup WindowsOf(gone))
        /\ UNCHANGED <<creating, createCallbacks, winId, ticket>>
    BY <1>6 DEF WindowRemoved
  <2>2. gone \in SUBSET pendingSignatureApprovals
        /\ \A p \in gone, q \in pendingSignatureApprovals : p.requestId = q.requestId => q \in gone
    BY EntriesAreEntries DEF Entry
  <2> HIDE DEF gone
  <2> QED
    BY <2>1, <2>2, ClearingKeepsIndex
<1>7. ASSUME NEW m \in messages, ResolveSignApproval(m) PROVE WindowInv'
  BY <1>7, SettlingKeepsIndex DEF ResolveSignApproval
<1>8. CASE RejectAll
  <2>1. /\ ClearPendingApprovals(pendingSignatureApprovals, "rejected")
        /\ CloseWindows(WindowsOf(pendingSignatureApprovals))
        /\ UNCHANGED <<creating, createCallbacks, winId, ticket>>
    BY <1>8 DEF RejectAll, SettlePendingApprovals
  <2> QED
    BY <2>1, ClearingKeepsIndex
<1>9. CASE WorkerDropsPrompts
  BY <1>9, Sentinels DEF WorkerDropsPrompts, WindowInv, WindowIndexAgrees, OpeningIsApart
<1>10. CASE \/ Tick \/ UNCHANGED promptVars
            \/ \E w \in PromptWindows : \/ PageLoads(w) \/ AnswerFails(w)
                                  \/ \E approved \in BOOLEAN : UserAnswers(w, approved)
  <2>1. /\ UNCHANGED <<pendingSignatureApprovals, approvalRequestIdsByWindowId, creating,
                       createCallbacks, winId, ticket>>
        /\ \A w \in PromptWindows : approvalPage[w] # "unused" => approvalPage'[w] # "unused"
    BY <1>10 DEF Tick, promptVars, worker, pages, PageLoads, AnswerFails, UserAnswers, PromptsTypeOK
  <2>2. \A i : GivenOut(i) => GivenOut(i)'
    BY <2>1 DEF GivenOut
  <2>3. createCallbacks \subseteq PromptWindows
    BY DEF PromptsTypeOK
  <2> QED
    BY <2>1, <2>2, <2>3 DEF WindowInv, WindowIndexAgrees, OpeningIsApart
<1> QED
  BY <1>1, <1>2, <1>3, <1>4, <1>5, <1>6, <1>7, <1>8, <1>9, <1>10 DEF PromptsNext

\* The index of the windows and the open requests agree: a closed window rejects
\* the request it was opened for, and no other.
THEOREM WindowsStandForRequests == PromptsSpec => []WindowIndexAgrees
<1>1. PromptsInit => WindowInv
  BY Sentinels DEF PromptsInit, WindowInv, WindowIndexAgrees, OpeningIsApart
<1>2. WindowInv => WindowIndexAgrees
  BY DEF WindowInv
<1> QED
  BY <1>1, <1>2, WindowStep, Invariant, PTL DEF PromptsSpec

-----------------------------------------------------------------------------
(***************************************************************************)
(* Refinement: each step of the prompts is a step of the promise, or none. *)
(***************************************************************************)
RequestsOf(entries) == {p.request : p \in entries}

\* Removing entries from the Map settles the promises of their requests in the
\* abstract specification.
LEMMA ClearingSettles ==
  ASSUME PromptsTypeOK, IdsIdentify,
         NEW entries \in SUBSET pendingSignatureApprovals, NEW result,
         ClearPendingApprovals(entries, result)
  PROVE  /\ RequestsOf(entries) \subseteq Approvals!Pending
         /\ Approvals!Settle(RequestsOf(entries), result)
BY DEF PromptsTypeOK, Approval, IdsIdentify, OpenHasTimer, ClearPendingApprovals, RequestsOf,
       Approvals!Pending, Approvals!Settle

\* Rejecting what is open under any set of entries is a Reject of the promise.
LEMMA RejectingImplements ==
  ASSUME PromptsTypeOK, IdsIdentify,
         NEW entries \in SUBSET pendingSignatureApprovals,
         ClearPendingApprovals(entries, "rejected"),
         consent' = consent
  PROVE  Approvals!Next
<1>1. Approvals!Reject(RequestsOf(entries))
  BY ClearingSettles DEF Approvals!Reject
<1>2. RequestsOf(entries) \in SUBSET Prompts
  BY DEF RequestsOf, PromptsTypeOK, Approval
<1> QED
  BY <1>1, <1>2 DEF Approvals!Next

\* Under the invariant each step of the prompts is a step of the promise or leaves
\* it unchanged.
LEMMA StepImplements ==
  PromptsTypeOK /\ PagesAreBound /\ IdsIdentify /\ [PromptsNext]_promptVars => [Approvals!Next]_(Approvals!vars)
<1> SUFFICES ASSUME PromptsTypeOK, PagesAreBound, IdsIdentify, [PromptsNext]_promptVars
             PROVE  Approvals!Next \/ UNCHANGED <<outcome, consent>>
  BY DEF Approvals!vars
<1>a. \A id : Entry(id) \in SUBSET pendingSignatureApprovals
  BY EntriesAreEntries
<1>1. ASSUME NEW r \in Prompts, RequestSignatureApproval(r) PROVE Approvals!Ask(r)
  BY <1>1 DEF RequestSignatureApproval, Approvals!Ask
<1>2. ASSUME NEW id \in Ids, NEW w \in PromptWindows, BrowserOpensWindow(id, w)
      PROVE UNCHANGED <<outcome, consent>>
  BY <1>2 DEF BrowserOpensWindow, worker
<1>3. ASSUME NEW id \in Ids, WindowCreateFailed(id) PROVE Approvals!Next
  BY <1>3, <1>a, RejectingImplements DEF WindowCreateFailed, SettlePendingApprovals
<1>4. ASSUME NEW id \in Ids, ApprovalTimesOut(id) PROVE Approvals!Next
  BY <1>4, <1>a, RejectingImplements DEF ApprovalTimesOut, SettlePendingApprovals
<1>5. ASSUME NEW w \in PromptWindows, WindowCreated(w) PROVE UNCHANGED <<outcome, consent>>
  BY <1>5 DEF WindowCreated
<1>6. ASSUME NEW w \in PromptWindows, PageLoads(w) PROVE UNCHANGED <<outcome, consent>>
  BY <1>6 DEF PageLoads, worker
<1>7. ASSUME NEW w \in PromptWindows, NEW approved \in BOOLEAN, UserAnswers(w, approved)
      PROVE Approvals!Next \/ UNCHANGED <<outcome, consent>>
  <2>1. shown[w] \in Prompts /\ outcome[shown[w]] # "none"
    BY <1>7 DEF UserAnswers, PagesAreBound, IdsIdentify, PagesMatchTickets, Asked
  <2>2. CASE approved
    BY <1>7, <2>1, <2>2 DEF UserAnswers, worker, Approvals!Consent, Approvals!Next
  <2>3. CASE ~approved
    BY <1>7, <2>3 DEF UserAnswers, worker
  <2> QED
    BY <2>2, <2>3
<1>8. ASSUME NEW w \in PromptWindows, WindowRemoved(w) PROVE Approvals!Next
  <2> DEFINE id == approvalRequestIdsByWindowId[w]
             gone == IF id = NoId THEN {} ELSE Entry(id)
  <2>1. gone \in SUBSET pendingSignatureApprovals
    BY <1>a
  <2>2. ClearPendingApprovals(gone, "rejected") /\ consent' = consent
    BY <1>8 DEF WindowRemoved
  <2> HIDE DEF gone
  <2> QED
    BY <2>1, <2>2, RejectingImplements
<1>9. ASSUME NEW m \in messages, ResolveSignApproval(m)
      PROVE Approvals!Next \/ UNCHANGED <<outcome, consent>>
  <2> DEFINE entry == Entry(m.requestId)
  <2>1. consent' = consent
    BY <1>9 DEF ResolveSignApproval
  <2>2. CASE ~m.approved
    BY <1>9, <1>a, <2>1, <2>2, RejectingImplements
    DEF ResolveSignApproval, SettlePendingApprovals
  <2>3. CASE m.approved /\ entry = {}
    BY <1>9, <2>1, <2>3
    DEF ResolveSignApproval, SettlePendingApprovals, ClearPendingApprovals, PromptsTypeOK
  <2>4. CASE m.approved /\ entry # {}
    <3>1. PICK p \in entry : TRUE
      BY <2>4
    <3>2. /\ p.request \in Prompts
          /\ \A q \in entry : q.request \in Prompts /\ q.requestId = m.requestId
      BY <3>1 DEF Entry, PromptsTypeOK, Approval
    <3>3. \A q \in entry : ticket[q.request] = m.requestId /\ m.requestId # NoId
      BY <3>2, Sentinels DEF Entry, IdsIdentify, EntriesMatchTickets, PromptsTypeOK, Message
    <3>4. RequestsOf(entry) = {p.request}
      BY <3>1, <3>2, <3>3 DEF RequestsOf, IdsIdentify, TicketsAreUnique
    <3>5. p.request \in consent
      <4>1. PICK r \in consent : m.requestId = ticket[r]
        BY <2>4 DEF IdsIdentify, AnswersMatchTickets
      <4> QED
        BY <3>1, <3>2, <3>3, <4>1 DEF IdsIdentify, TicketsAreUnique, PromptsTypeOK
    <3>6. ClearPendingApprovals(entry, "approved")
      BY <1>9, <2>4 DEF ResolveSignApproval, SettlePendingApprovals
    <3>7. /\ RequestsOf(entry) \subseteq Approvals!Pending
          /\ Approvals!Settle(RequestsOf(entry), "approved")
      BY <1>a, <3>6, ClearingSettles
    <3> QED
      BY <2>1, <3>2, <3>4, <3>5, <3>7 DEF Approvals!Approve, Approvals!Next
  <2> QED
    BY <2>2, <2>3, <2>4 DEF PromptsTypeOK, Message
<1>10. ASSUME RejectAll PROVE Approvals!Next
  BY <1>10, RejectingImplements DEF RejectAll, SettlePendingApprovals
<1>11. ASSUME WorkerDropsPrompts PROVE Approvals!Next
  <2>1. Approvals!Lose
    BY <1>11 DEF WorkerDropsPrompts, Approvals!Lose, Approvals!Settle, Approvals!Pending
  <2> QED
    BY <2>1 DEF Approvals!Next
<1>12. ASSUME Tick PROVE UNCHANGED <<outcome, consent>>
  BY <1>12 DEF Tick, worker
<1>13. ASSUME NEW w \in PromptWindows, AnswerFails(w) PROVE UNCHANGED <<outcome, consent>>
  BY <1>13 DEF AnswerFails, worker
<1>14. CASE UNCHANGED promptVars
  BY <1>14 DEF promptVars, worker
<1>15. ASSUME NEW r \in Prompts, Approvals!Ask(r) PROVE Approvals!Next
  BY <1>15 DEF Approvals!Next
<1> QED
  BY <1>1, <1>2, <1>3, <1>4, <1>5, <1>6, <1>7, <1>8, <1>9, <1>10, <1>11, <1>12,
     <1>13, <1>14, <1>15 DEF PromptsNext

\* The prompts implement the promise: a request settles at most once, and is
\* approved only with the consent given to it.
THEOREM Refinement == PromptsSpec => ImplementsPromise
<1>1. PromptsInit => Approvals!Init
  BY DEF PromptsInit, Approvals!Init
<1> QED
  BY <1>1, Invariant, StepImplements, PTL
  DEF PromptsSpec, ImplementsPromise, Approvals!SafetySpec
=============================================================================
