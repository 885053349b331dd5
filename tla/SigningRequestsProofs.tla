------------------------ MODULE SigningRequestsProofs ------------------------
(***************************************************************************)
(* Nothing is signed without the user (Authorised), a request that waits   *)
(* can be reached (WaitingIsReachable), and the unprompted blobs stay      *)
(* within their budget (SessionBudget), for every set of accounts, sites,  *)
(* requests and drains, with locks, switches and restarts.  While worker   *)
(* and popup live on, the key is that of the active account                *)
(* (KeyOfActiveAccount) and only the user brings it back (OnlyUserUnlocks).*)
(*                                                                         *)
(* A request that is covered by a PutBlob session is not asked about; that *)
(* its address is the one of a session the user approved must still hold   *)
(* when it signs, and both addresses are variables.  They stay, because an *)
(* address is read only before a request is asked about or signs           *)
(* (AskedIsPast), and a drain gives its own only to a request of the queue *)
(* (WaitingIsReachable).                                                   *)
(***************************************************************************)
EXTENDS SigningRequests, FiniteSetTheorems, TLAPS

\* What is a function of tasks, requests or sites stays one.
IsRecord(session) == session = [address |-> session.address, used |-> session.used]

Shaped ==
  /\ putBlobSessionsByOrigin = [o \in Sites |-> putBlobSessionsByOrigin[o]]
  /\ \A o \in Sites : IsRecord(putBlobSessionsByOrigin[o])
  /\ pendingUnlockQueue \in Seq(Requests)
  /\ stage = [t \in Tasks |-> stage[t]]
  /\ address = [t \in Tasks |-> address[t]]
  /\ outcome = [r \in Requests |-> outcome[r]]
  /\ consent \subseteq Requests
  /\ signedBy = [r \in Requests |-> signedBy[r]]

\* The user lets this request be signed: by its own prompt, or by that of a
\* session for its site and address.
Permitted(r) ==
  \/ r \in consent
  \/ /\ KindOf[r] = "blob"
     /\ \E s \in SessionConsents(SiteOf[r]) : address[s] = address[r]

\* Where the address of a request does not change any more.
Settled == {"asking", "signing", "answered", "lost"}

AskedIsPast ==
  /\ \A r \in Requests : outcome[r] # "none" => stage[r] \in Settled
  /\ \A r \in consent : outcome[r] # "none"

SigningIsPermitted == \A r \in Requests : stage[r] = "signing" => Permitted(r)

SignedIsAnswered == \A r \in Requests : signedBy[r] # NoAccount => stage[r] = "answered"

SessionsArePermitted ==
  \A o \in Sites : putBlobSessionsByOrigin[o] # NoSession =>
    \E s \in SessionConsents(o) : address[s] = putBlobSessionsByOrigin[o].address

Rights ==
  /\ AskedIsPast /\ SigningIsPermitted /\ SignedIsAnswered
  /\ SessionsArePermitted /\ Authorised

Inv == Shaped /\ WaitingIsReachable /\ Rights

-----------------------------------------------------------------------------
(***************************************************************************)
(* Shapes.                                                                 *)
(***************************************************************************)
LEMMA TasksAre == Requests \subseteq Tasks /\ Drains \subseteq Tasks
BY DEF Tasks

LEMMA Going ==
  ASSUME Shaped, NEW t \in Tasks, NEW s, Goto(t, s)
  PROVE  /\ stage' = [x \in Tasks |-> stage'[x]]
         /\ stage'[t] = s
         /\ \A x \in Tasks : x # t => stage'[x] = stage[x]
BY DEF Shaped, Goto

LEMMA NoSessionsShaped ==
  ASSUME NoSessions
  PROVE  /\ putBlobSessionsByOrigin' = [o \in Sites |-> putBlobSessionsByOrigin'[o]]
         /\ \A o \in Sites : putBlobSessionsByOrigin'[o] = NoSession
         /\ \A o \in Sites : IsRecord(putBlobSessionsByOrigin'[o])
BY DEF NoSessions, NoSession, IsRecord

LEMMA HandlerShapes ==
  ASSUME Shaped, NEW r \in Requests,
         \/ ReceiveRequest(r) \/ UseSession(r) \/ AskApproval(r) \/ RequestFails(r)
         \/ UserConsents(r) \/ PromptApproved(r) \/ PromptRejected(r) \/ Sign(r)
  PROVE  Shaped'
<1> USE Parameters, TasksAre DEF Shaped, wallet, key, task, prompts, history, Goto, Finish
<1>1. CASE ReceiveRequest(r)
  BY <1>1 DEF ReceiveRequest
<1>2. CASE UseSession(r)
  <2>1. SiteOf[r] \in Sites
    OBVIOUS
  <2>2. IsRecord([putBlobSessionsByOrigin[SiteOf[r]] EXCEPT !.used = @ + 1])
    BY <2>1 DEF IsRecord
  <2> QED
    BY <1>2, <2>1, <2>2 DEF UseSession
<1>3. CASE AskApproval(r)
  BY <1>3 DEF AskApproval, Prompts!Ask
<1>4. CASE RequestFails(r)
  BY <1>4 DEF RequestFails
<1>5. CASE UserConsents(r)
  BY <1>5 DEF UserConsents, Prompts!Consent
<1>6. CASE PromptApproved(r)
  <2>1. outcome' = [x \in Requests |-> outcome'[x]] /\ consent' = consent
    BY <1>6 DEF PromptApproved, Prompts!Approve, Prompts!Settle
  <2>2. CASE KindOf[r] = "session"
    <3>1. IsRecord([address |-> address[r], used |-> 0])
      BY DEF IsRecord
    <3> QED
      BY <1>6, <2>1, <2>2, <3>1 DEF PromptApproved
  <2>3. CASE KindOf[r] # "session"
    BY <1>6, <2>1, <2>3 DEF PromptApproved
  <2> QED
    BY <2>2, <2>3
<1>7. CASE PromptRejected(r)
  BY <1>7 DEF PromptRejected, Prompts!Reject, Prompts!Settle
<1>8. CASE Sign(r)
  BY <1>8 DEF Sign
<1> QED
  BY <1>1, <1>2, <1>3, <1>4, <1>5, <1>6, <1>7, <1>8

LEMMA GiveUpShapes ==
  ASSUME Shaped, NEW t \in Tasks, GiveUp(t)
  PROVE  stage' = [x \in Tasks |-> stage'[x]] /\ pendingUnlockQueue' \in Seq(Requests)
<1>1. CASE t \in Requests
  BY <1>1 DEF Shaped, GiveUp, Goto
<1>2. CASE t \notin Requests
  BY <1>2 DEF Shaped, GiveUp, Goto
<1> QED
  BY <1>1, <1>2

LEMMA KeyShapes ==
  ASSUME Shaped, NEW t \in Tasks,
         \/ LoadUnlockedState(t) \/ RestoreUnlockedState(t) \/ KeepUnlockedState(t)
         \/ SessionExpired(t) \/ AutoLocked(t)
  PROVE  Shaped'
<1> USE DEF Shaped, wallet, key, task, prompts, history
<1>1. CASE LoadUnlockedState(t)
  <2>1. stage' = [x \in Tasks |-> stage'[x]]
    BY <1>1 DEF LoadUnlockedState, Goto
  <2> QED
    BY <1>1, <2>1 DEF LoadUnlockedState
<1>2. CASE RestoreUnlockedState(t)
  <2>1. stage' = [x \in Tasks |-> stage'[x]] /\ pendingUnlockQueue' \in Seq(Requests)
    BY <1>2, GiveUpShapes DEF RestoreUnlockedState, Goto
  <2> QED
    BY <1>2, <2>1 DEF RestoreUnlockedState
<1>3. CASE KeepUnlockedState(t)
  BY <1>3 DEF KeepUnlockedState, Goto
<1>4. CASE SessionExpired(t)
  BY <1>4, NoSessionsShaped DEF SessionExpired, LockWalletNow, Goto
<1>5. CASE AutoLocked(t)
  BY <1>5, GiveUpShapes DEF AutoLocked
<1> QED
  BY <1>1, <1>2, <1>3, <1>4, <1>5

LEMMA DrainShapes ==
  ASSUME Shaped, NEW d \in Drains,
         WalletUnlock(d) \/ DrainTakesItem(d) \/ DrainEnds(d)
  PROVE  Shaped'
<1> USE TasksAre DEF Shaped, wallet, key, task, prompts, history
<1>1. CASE WalletUnlock(d)
  BY <1>1 DEF WalletUnlock, Goto
<1>2. CASE DrainTakesItem(d)
  <2> DEFINE r == Head(pendingUnlockQueue)
  <2>1. r \in Requests /\ Tail(pendingUnlockQueue) \in Seq(Requests)
    BY <1>2 DEF DrainTakesItem
  <2>2. CASE KindOf[r] = "session"
    BY <1>2, <2>1, <2>2 DEF DrainTakesItem, Goto
  <2>3. CASE KindOf[r] # "session"
    BY <1>2, <2>1, <2>3 DEF DrainTakesItem, Goto
  <2> QED
    BY <2>2, <2>3
<1>3. CASE DrainEnds(d)
  BY <1>3 DEF DrainEnds, Finish, Goto
<1> QED
  BY <1>1, <1>2, <1>3

LEMMA WalletShapes ==
  ASSUME Shaped,
         \/ \E o \in Sites : EndSession(o)
         \/ WalletLock \/ ActiveAccountChanged \/ PopupCloses \/ WorkerRestarts
         \/ \E a \in Accounts : \E why \in {"switching", "adding"} : PopupChangesAccount(a, why)
  PROVE  Shaped'
<1> USE NoSessionsShaped DEF Shaped, wallet, key, task, prompts, history, LockWalletNow
<1>1. CASE \E o \in Sites : EndSession(o)
  <2>1. IsRecord(NoSession)
    BY DEF IsRecord, NoSession
  <2> QED
    BY <1>1, <2>1 DEF EndSession
<1>2. CASE WalletLock
  BY <1>2 DEF WalletLock
<1>3. CASE ActiveAccountChanged
  BY <1>3 DEF ActiveAccountChanged, Prompts!Reject, Prompts!Settle
<1>4. CASE PopupCloses
  BY <1>4 DEF PopupCloses
<1>5. CASE WorkerRestarts
  BY <1>5 DEF WorkerRestarts, Prompts!Lose, Prompts!Settle
<1>6. CASE \E a \in Accounts : \E why \in {"switching", "adding"} : PopupChangesAccount(a, why)
  BY <1>6 DEF PopupChangesAccount
<1> QED
  BY <1>1, <1>2, <1>3, <1>4, <1>5, <1>6

-----------------------------------------------------------------------------
(***************************************************************************)
(* What waits can be reached.                                              *)
(***************************************************************************)
Waits(r) == stage[r] \in {"queued", "asking"}

\* The waiting are those of before.
LEMMA WaitingStay ==
  ASSUME WaitingIsReachable, UNCHANGED <<pendingUnlockQueue, outcome>>,
         \A r \in Requests : stage'[r] = stage[r] \/ (~Waits(r) /\ ~Waits(r)')
  PROVE  WaitingIsReachable'
BY DEF WaitingIsReachable, Waits, Prompts!Pending

\* A request is put into the queue.
LEMMA GivenUp ==
  ASSUME Shaped, WaitingIsReachable, NEW t \in Tasks, GiveUp(t),
         stage[t] \notin {"queued", "asking"}, UNCHANGED outcome
  PROVE  WaitingIsReachable'
<1> DEFINE q == pendingUnlockQueue
<1>1. CASE t \in Requests
  <2>1. Goto(t, "queued") /\ q' = Append(q, t)
    BY <1>1 DEF GiveUp
  <2>2. stage'[t] = "queued" /\ \A x \in Tasks : x # t => stage'[x] = stage[x]
    BY <2>1, Going
  <2>3. /\ DOMAIN q' = 1 .. Len(q) + 1 /\ DOMAIN q = 1 .. Len(q) /\ Len(q) \in Nat
        /\ q'[Len(q) + 1] = t /\ \A i \in 1 .. Len(q) : q'[i] = q[i] /\ q[i] \in Requests
    BY <1>1, <2>1 DEF Shaped
  <2>4. \A i \in 1 .. Len(q) : q[i] # t
    BY <1>1, <2>3 DEF WaitingIsReachable
  <2>5. \A i, j \in DOMAIN q' : q'[i] = q'[j] => i = j
    <3> SUFFICES ASSUME NEW i \in 1 .. Len(q) + 1, NEW j \in 1 .. Len(q) + 1, q'[i] = q'[j]
                 PROVE  i = j
      BY <2>3
    <3>1. (i \in 1 .. Len(q) \/ i = Len(q) + 1) /\ (j \in 1 .. Len(q) \/ j = Len(q) + 1)
      BY <2>3
    <3> QED
      BY <2>3, <2>4, <3>1 DEF WaitingIsReachable
  <2>6. ASSUME NEW r \in Requests
        PROVE  /\ stage'[r] = "queued" <=> \E i \in DOMAIN q' : q'[i] = r
               /\ stage'[r] = "asking" <=> r \in Prompts!Pending'
    <3>1. CASE r = t
      BY <1>1, <2>2, <2>3, <3>1 DEF WaitingIsReachable, Prompts!Pending
    <3>2. CASE r # t
      <4>1. stage'[r] = stage[r]
        BY <2>2, <3>2, TasksAre
      <4>2. (\E i \in DOMAIN q' : q'[i] = r) <=> \E i \in DOMAIN q : q[i] = r
        BY <2>3, <3>2
      <4> QED
        BY <4>1, <4>2 DEF WaitingIsReachable, Prompts!Pending
    <3> QED
      BY <3>1, <3>2
  <2> QED
    BY <2>5, <2>6 DEF WaitingIsReachable
<1>2. CASE t \notin Requests
  <2>1. \A r \in Requests : stage'[r] = stage[r]
    BY <1>2, TasksAre, Going DEF GiveUp
  <2> QED
    BY <1>2, <2>1, WaitingStay DEF GiveUp
<1> QED
  BY <1>1, <1>2

LEMMA HandlerReaches ==
  ASSUME Shaped, WaitingIsReachable, NEW r \in Requests,
         \/ ReceiveRequest(r) \/ UseSession(r) \/ AskApproval(r) \/ RequestFails(r)
         \/ UserConsents(r) \/ PromptApproved(r) \/ PromptRejected(r) \/ Sign(r)
  PROVE  WaitingIsReachable'
<1>1. \A s : Goto(r, s) => stage'[r] = s /\ \A x \in Requests : x # r => stage'[x] = stage[x]
  BY TasksAre, Going
<1>2. CASE ReceiveRequest(r) \/ UseSession(r) \/ RequestFails(r) \/ Sign(r)
  <2>1. /\ UNCHANGED <<pendingUnlockQueue, outcome>>
        /\ ~Waits(r)
        /\ Goto(r, "begun") \/ Goto(r, "signing") \/ Goto(r, "answered")
    BY <1>2 DEF ReceiveRequest, UseSession, RequestFails, Sign, Finish, prompts, Waits
  <2> QED
    BY <1>1, <2>1, WaitingStay DEF Waits
<1>3. CASE AskApproval(r)
  <2>1. /\ UNCHANGED pendingUnlockQueue
        /\ stage[r] = "ready" /\ Goto(r, "asking")
        /\ outcome'[r] = "pending" /\ \A x \in Requests : x # r => outcome'[x] = outcome[x]
    BY <1>3 DEF AskApproval, Prompts!Ask, Shaped
  <2>2. stage'[r] = "asking" /\ \A x \in Requests : x # r => stage'[x] = stage[x]
    BY <1>1, <2>1
  <2> QED
    BY <2>1, <2>2 DEF WaitingIsReachable, Prompts!Pending
<1>4. CASE UserConsents(r)
  BY <1>4, WaitingStay DEF UserConsents, Prompts!Consent, task
<1>5. CASE PromptApproved(r) \/ PromptRejected(r)
  <2>1. /\ UNCHANGED pendingUnlockQueue
        /\ stage[r] = "asking" /\ (Goto(r, "signing") \/ Goto(r, "answered"))
        /\ outcome'[r] \in {"approved", "rejected"}
        /\ \A x \in Requests : x # r => outcome'[x] = outcome[x]
    BY <1>5 DEF PromptApproved, PromptRejected, Finish, Prompts!Approve, Prompts!Reject,
                Prompts!Settle
  <2>2. stage'[r] \in {"signing", "answered"} /\ \A x \in Requests : x # r => stage'[x] = stage[x]
    BY <1>1, <2>1
  <2>3. ASSUME NEW x \in Requests
        PROVE  /\ stage'[x] = "queued" <=> \E i \in DOMAIN pendingUnlockQueue : pendingUnlockQueue[i] = x
               /\ stage'[x] = "asking" <=> outcome'[x] = "pending"
    <3>1. CASE x = r
      BY <2>1, <2>2, <3>1 DEF WaitingIsReachable
    <3>2. CASE x # r
      BY <2>1, <2>2, <3>2 DEF WaitingIsReachable, Prompts!Pending
    <3> QED
      BY <3>1, <3>2
  <2> QED
    BY <2>1, <2>3 DEF WaitingIsReachable, Prompts!Pending
<1> QED
  BY <1>2, <1>3, <1>4, <1>5

LEMMA KeyReaches ==
  ASSUME Shaped, WaitingIsReachable, NEW t \in Tasks,
         \/ LoadUnlockedState(t) \/ RestoreUnlockedState(t) \/ KeepUnlockedState(t)
         \/ SessionExpired(t) \/ AutoLocked(t)
  PROVE  WaitingIsReachable'
<1>1. /\ stage[t] \in {"begun", "restoring", "checking", "locking"}
      /\ UNCHANGED outcome
  BY DEF LoadUnlockedState, RestoreUnlockedState, KeepUnlockedState, SessionExpired,
         AutoLocked, prompts
<1>2. CASE GiveUp(t)
  BY <1>1, <1>2, GivenUp
<1>3. CASE ~GiveUp(t)
  <2>1. /\ UNCHANGED pendingUnlockQueue
        /\ \E s \in {"restoring", "checking", "ready", "draining", "locking"} : Goto(t, s)
    BY <1>3 DEF LoadUnlockedState, RestoreUnlockedState, KeepUnlockedState, SessionExpired,
                AutoLocked
  <2>2. stage'[t] \notin {"queued", "asking"} /\ \A x \in Tasks : x # t => stage'[x] = stage[x]
    BY <2>1, Going
  <2>3. \A r \in Requests : stage'[r] = stage[r] \/ (~Waits(r) /\ ~Waits(r)')
    BY <1>1, <2>2, TasksAre DEF Waits
  <2> QED
    BY <1>1, <2>1, <2>3, WaitingStay
<1> QED
  BY <1>2, <1>3

\* The first of the queue is taken out, and waits no more.
LEMMA HeadTaken ==
  ASSUME Shaped, WaitingIsReachable, pendingUnlockQueue # <<>>,
         pendingUnlockQueue' = Tail(pendingUnlockQueue), UNCHANGED outcome,
         stage'[Head(pendingUnlockQueue)] \in {"ready", "dropped"},
         \A x \in Requests : x # Head(pendingUnlockQueue) => stage'[x] = stage[x]
  PROVE  WaitingIsReachable'
<1> DEFINE q == pendingUnlockQueue
           h == Head(q)
<1>1. /\ Len(q) \in Nat /\ Len(q) > 0 /\ DOMAIN q = 1 .. Len(q) /\ h = q[1] /\ h \in Requests
      /\ DOMAIN q' = 1 .. Len(q) - 1 /\ \A i \in 1 .. Len(q) - 1 : q'[i] = q[i + 1]
  BY DEF Shaped
<1>2. \A i, j \in DOMAIN q' : q'[i] = q'[j] => i = j
  <2> SUFFICES ASSUME NEW i \in 1 .. Len(q) - 1, NEW j \in 1 .. Len(q) - 1, q'[i] = q'[j]
               PROVE  i = j
    BY <1>1
  <2>1. q[i + 1] = q[j + 1] /\ i + 1 \in DOMAIN q /\ j + 1 \in DOMAIN q
    BY <1>1
  <2>2. i + 1 = j + 1
    BY <2>1 DEF WaitingIsReachable
  <2> QED
    BY <2>2
<1>3. stage[h] = "queued"
  BY <1>1 DEF WaitingIsReachable
<1>4. ASSUME NEW x \in Requests
      PROVE  stage'[x] = "queued" <=> \E i \in DOMAIN q' : q'[i] = x
  <2>1. CASE x = h
    <3>1. \A i \in 1 .. Len(q) - 1 : q'[i] = q[i + 1] /\ i + 1 \in DOMAIN q /\ i + 1 # 1 /\ 1 \in DOMAIN q
      BY <1>1
    <3>2. \A i \in 1 .. Len(q) - 1 : q'[i] # h
      BY <1>1, <3>1 DEF WaitingIsReachable
    <3> QED
      BY <1>1, <2>1, <3>2
  <2>2. CASE x # h
    <3>1. stage'[x] = stage[x]
      BY <2>2
    <3>2. ASSUME NEW i \in DOMAIN q, q[i] = x PROVE \E j \in DOMAIN q' : q'[j] = x
      <4>1. i # 1
        BY <1>1, <2>2, <3>2
      <4>2. i - 1 \in 1 .. Len(q) - 1 /\ q'[i - 1] = q[i]
        BY <1>1, <4>1
      <4> QED
        BY <1>1, <3>2, <4>2
    <3>3. ASSUME NEW i \in DOMAIN q', q'[i] = x PROVE \E j \in DOMAIN q : q[j] = x
      <4>1. i + 1 \in DOMAIN q /\ q[i + 1] = x
        BY <1>1, <3>3
      <4> QED
        BY <4>1
    <3> QED
      BY <3>1, <3>2, <3>3 DEF WaitingIsReachable
  <2> QED
    BY <2>1, <2>2
<1>5. \A x \in Requests : stage'[x] = "asking" <=> x \in Prompts!Pending'
  BY <1>3 DEF WaitingIsReachable, Prompts!Pending
<1> QED
  BY <1>2, <1>4, <1>5 DEF WaitingIsReachable

LEMMA DrainReaches ==
  ASSUME Shaped, WaitingIsReachable, NEW d \in Drains,
         WalletUnlock(d) \/ DrainTakesItem(d) \/ DrainEnds(d)
  PROVE  WaitingIsReachable'
<1>1. CASE WalletUnlock(d) \/ DrainEnds(d)
  <2>1. /\ UNCHANGED <<pendingUnlockQueue, outcome>>
        /\ Goto(d, "begun") \/ Goto(d, "idle")
    BY <1>1 DEF WalletUnlock, DrainEnds, Finish, prompts
  <2>2. \A r \in Requests : stage'[r] = stage[r]
    BY <2>1, Going, TasksAre, Parameters
  <2> QED
    BY <2>1, <2>2, WaitingStay
<1>2. CASE DrainTakesItem(d)
  <2>1. /\ pendingUnlockQueue # <<>> /\ pendingUnlockQueue' = Tail(pendingUnlockQueue)
        /\ UNCHANGED outcome
        /\ Goto(Head(pendingUnlockQueue), "ready") \/ Goto(Head(pendingUnlockQueue), "dropped")
    BY <1>2 DEF DrainTakesItem, prompts
  <2>2. Head(pendingUnlockQueue) \in Tasks
    BY <2>1, TasksAre DEF Shaped
  <2> QED
    BY <2>1, <2>2, TasksAre, Going, HeadTaken
<1> QED
  BY <1>1, <1>2

LEMMA WalletReaches ==
  ASSUME Shaped, WaitingIsReachable,
         \/ \E o \in Sites : EndSession(o)
         \/ WalletLock \/ ActiveAccountChanged \/ PopupCloses \/ WorkerRestarts
         \/ \E a \in Accounts : \E why \in {"switching", "adding"} : PopupChangesAccount(a, why)
  PROVE  WaitingIsReachable'
<1>1. CASE ActiveAccountChanged
  <2>1. /\ pendingUnlockQueue' = <<>>
        /\ \A r \in Requests : stage'[r] = IF Waits(r) THEN "answered" ELSE stage[r]
        /\ \A r \in Requests : outcome'[r] = IF outcome[r] = "pending" THEN "rejected" ELSE outcome[r]
    BY <1>1, TasksAre DEF ActiveAccountChanged, Waits, Prompts!Reject, Prompts!Settle, Prompts!Pending
  <2> QED
    BY <2>1 DEF WaitingIsReachable, Waits, Prompts!Pending
<1>2. CASE WorkerRestarts
  <2>1. /\ pendingUnlockQueue' = <<>>
        /\ \A r \in Requests : stage'[r] \in {"idle", "answered", "lost"}
        /\ \A r \in Requests : outcome'[r] = IF outcome[r] = "pending" THEN "lost" ELSE outcome[r]
    BY <1>2, TasksAre DEF WorkerRestarts, Prompts!Lose, Prompts!Settle, Prompts!Pending
  <2> QED
    BY <2>1 DEF WaitingIsReachable, Prompts!Pending
<1>3. CASE \/ \E o \in Sites : EndSession(o)
           \/ WalletLock \/ PopupCloses
           \/ \E a \in Accounts : \E why \in {"switching", "adding"} : PopupChangesAccount(a, why)
  <2>1. UNCHANGED <<pendingUnlockQueue, outcome, stage>>
    BY <1>3 DEF EndSession, WalletLock, PopupCloses, PopupChangesAccount, task, prompts
  <2> QED
    BY <2>1, WaitingStay
<1> QED
  BY <1>1, <1>2, <1>3

-----------------------------------------------------------------------------
(***************************************************************************)
(* Who may sign.                                                           *)
(***************************************************************************)
AddressesSettle == \A r \in Requests : stage[r] \in Settled => address'[r] = address[r]

\* What the user allowed stays allowed.
LEMMA PermittedStays ==
  ASSUME Shaped, AskedIsPast, AddressesSettle, consent \subseteq consent',
         NEW r \in Requests, stage[r] \in Settled, Permitted(r)
  PROVE  Permitted(r)'
<1>1. \A s \in consent : s \in Requests /\ address'[s] = address[s]
  BY DEF Shaped, AskedIsPast, AddressesSettle
<1>2. address'[r] = address[r]
  BY DEF AddressesSettle
<1> QED
  BY <1>1, <1>2 DEF Permitted, SessionConsents

\* A session that is changed, but not its address, or dropped, is still allowed.
LEMMA SessionsStay ==
  ASSUME Shaped, AskedIsPast, SessionsArePermitted, AddressesSettle, consent \subseteq consent',
         \A o \in Sites :
           \/ putBlobSessionsByOrigin'[o] = NoSession
           \/ /\ putBlobSessionsByOrigin[o] # NoSession
              /\ putBlobSessionsByOrigin'[o].address = putBlobSessionsByOrigin[o].address
  PROVE  SessionsArePermitted'
<1>1. \A s \in consent : address'[s] = address[s]
  BY DEF Shaped, AskedIsPast, AddressesSettle
<1> QED
  BY <1>1 DEF SessionsArePermitted, SessionConsents, NoSession

SessionsOnlyGo ==
  \A o \in Sites : putBlobSessionsByOrigin'[o] \in {putBlobSessionsByOrigin[o], NoSession}

\* A step in which nobody is asked, or answered, or signs.
LEMMA RightsStay ==
  ASSUME Shaped, Rights, UNCHANGED <<outcome, consent, signedBy>>,
         AddressesSettle, SessionsOnlyGo,
         \A r \in Requests : stage'[r] = stage[r]
                             \/ (stage[r] \notin Settled /\ stage'[r] \notin Settled)
  PROVE  Rights'
<1>1. AskedIsPast'
  BY DEF Rights, AskedIsPast, Shaped
<1>2. \A r \in Requests : stage[r] \in Settled /\ Permitted(r) => Permitted(r)'
  BY PermittedStays DEF Rights
<1>3. SigningIsPermitted'
  BY <1>2 DEF Rights, SigningIsPermitted, Settled
<1>4. SignedIsAnswered'
  BY DEF Rights, SignedIsAnswered, Settled
<1>5. SessionsArePermitted'
  <2>1. \A o \in Sites :
           \/ putBlobSessionsByOrigin'[o] = NoSession
           \/ /\ putBlobSessionsByOrigin[o] # NoSession
              /\ putBlobSessionsByOrigin'[o].address = putBlobSessionsByOrigin[o].address
    BY DEF SessionsOnlyGo
  <2> QED
    BY <2>1, SessionsStay DEF Rights
<1>6. Authorised'
  <2>1. \A r \in Requests : signedBy[r] # NoAccount => stage[r] \in Settled /\ Permitted(r)
    BY DEF Rights, SignedIsAnswered, Settled, Authorised, Permitted
  <2> QED
    BY <1>2, <2>1 DEF Authorised, Permitted
<1> QED
  BY <1>1, <1>3, <1>4, <1>5, <1>6 DEF Rights

\* A step of one request, from a stage where it may sign to one of Settled.
LEMMA RightsGoOn ==
  ASSUME Shaped, Rights, NEW r \in Requests, NEW s \in Settled, Goto(r, s),
         stage[r] # "answered", UNCHANGED address,
         AskedIsPast', SessionsArePermitted', consent' = consent,
         s = "signing" => Permitted(r)',
         \/ UNCHANGED signedBy
         \/ /\ s = "answered" /\ Permitted(r)' /\ \A x \in Requests : x # r => signedBy'[x] = signedBy[x]
  PROVE  Rights'
<1>1. stage'[r] = s /\ \A x \in Requests : x # r => stage'[x] = stage[x]
  BY Going, TasksAre
<1>2. \A x \in Requests : Permitted(x)' <=> Permitted(x)
  BY DEF Permitted, SessionConsents
<1>3. SigningIsPermitted'
  BY <1>1, <1>2 DEF Rights, SigningIsPermitted
<1>4. signedBy[r] = NoAccount
  BY DEF Rights, SignedIsAnswered
<1>5. SignedIsAnswered'
  BY <1>1, <1>4 DEF Rights, SignedIsAnswered
<1>6. \A x \in Requests : signedBy'[x] # NoAccount => Permitted(x)'
  BY <1>2, <1>4 DEF Rights, Authorised, Permitted
<1>7. Authorised'
  BY <1>6 DEF Authorised, Permitted
<1> QED
  BY <1>3, <1>5, <1>7 DEF Rights

LEMMA HandlerRights ==
  ASSUME Shaped, WaitingIsReachable, Rights, NEW r \in Requests,
         \/ ReceiveRequest(r) \/ UseSession(r) \/ AskApproval(r) \/ RequestFails(r)
         \/ UserConsents(r) \/ PromptApproved(r) \/ PromptRejected(r) \/ Sign(r)
  PROVE  Rights'
<1>1. \A s : Goto(r, s) => stage'[r] = s /\ \A x \in Requests : x # r => stage'[x] = stage[x]
  BY TasksAre, Going
<1>2. CASE ReceiveRequest(r)
  <2>1. stage[r] = "idle" /\ Goto(r, "begun") /\ \A x \in Requests : x # r => address'[x] = address[x]
    BY <1>2, TasksAre DEF ReceiveRequest, Shaped
  <2>2. UNCHANGED <<outcome, consent, signedBy, putBlobSessionsByOrigin>>
    BY <1>2 DEF ReceiveRequest, prompts, history
  <2>3. AddressesSettle /\ SessionsOnlyGo
    BY <2>1, <2>2 DEF AddressesSettle, SessionsOnlyGo, Settled
  <2> QED
    BY <1>1, <2>1, <2>2, <2>3, RightsStay DEF Settled
<1>3. CASE UseSession(r)
  <2>1. /\ stage[r] = "ready" /\ Goto(r, "signing") /\ CoveredBySession(r)
        /\ UNCHANGED <<address, outcome, consent, signedBy>>
    BY <1>3 DEF UseSession, prompts
  <2>2. SiteOf[r] \in Sites
    BY Parameters
  <2>3. \A o \in Sites : putBlobSessionsByOrigin'[o] = putBlobSessionsByOrigin[o]
          \/ /\ o = SiteOf[r] /\ putBlobSessionsByOrigin'[o].address = putBlobSessionsByOrigin[o].address
    BY <1>3, <2>2 DEF UseSession, Shaped, IsRecord
  <2>4. putBlobSessionsByOrigin[SiteOf[r]] # NoSession /\ KindOf[r] = "blob"
        /\ putBlobSessionsByOrigin[SiteOf[r]].address = address[r]
    BY <2>1 DEF CoveredBySession
  <2>5. Permitted(r)'
    BY <2>1, <2>2, <2>4 DEF Rights, SessionsArePermitted, Permitted, SessionConsents
  <2>6. SessionsArePermitted'
    <3>1. AddressesSettle
      BY <2>1 DEF AddressesSettle
    <3>2. \A o \in Sites :
           \/ putBlobSessionsByOrigin'[o] = NoSession
           \/ /\ putBlobSessionsByOrigin[o] # NoSession
              /\ putBlobSessionsByOrigin'[o].address = putBlobSessionsByOrigin[o].address
      BY <2>3, <2>4
    <3> QED
      BY <2>1, <3>1, <3>2, SessionsStay DEF Rights
  <2>7. AskedIsPast'
    BY <1>1, <2>1 DEF Rights, AskedIsPast, Settled, Shaped
  <2> QED
    BY <2>1, <2>5, <2>6, <2>7, RightsGoOn DEF Settled
<1>4. CASE AskApproval(r)
  <2>1. /\ stage[r] = "ready" /\ Goto(r, "asking")
        /\ outcome'[r] = "pending" /\ \A x \in Requests : x # r => outcome'[x] = outcome[x]
        /\ UNCHANGED <<address, consent, signedBy, putBlobSessionsByOrigin>>
    BY <1>4 DEF AskApproval, Prompts!Ask, Shaped, history
  <2>2. AskedIsPast'
    BY <1>1, <2>1 DEF Rights, AskedIsPast, Settled, Shaped
  <2>3. SessionsArePermitted'
    BY <2>1 DEF Rights, SessionsArePermitted, SessionConsents
  <2> QED
    BY <2>1, <2>2, <2>3, RightsGoOn DEF Settled
<1>5. CASE RequestFails(r)
  <2>1. /\ stage[r] \in {"ready", "signing"} /\ Goto(r, "answered")
        /\ UNCHANGED <<address, outcome, consent, signedBy, putBlobSessionsByOrigin>>
    BY <1>5 DEF RequestFails, Finish, prompts, history
  <2>2. AskedIsPast'
    BY <1>1, <2>1 DEF Rights, AskedIsPast, Settled, Shaped
  <2>3. SessionsArePermitted'
    BY <2>1 DEF Rights, SessionsArePermitted, SessionConsents
  <2> QED
    BY <2>1, <2>2, <2>3, RightsGoOn DEF Settled
<1>6. CASE UserConsents(r)
  <2>1. /\ outcome[r] # "none" /\ consent' = consent \cup {r}
        /\ UNCHANGED <<stage, address, outcome, signedBy, putBlobSessionsByOrigin>>
    BY <1>6 DEF UserConsents, Prompts!Consent, task, history
  <2>2. \A x \in Requests : Permitted(x) => Permitted(x)'
    BY <2>1 DEF Permitted, SessionConsents
  <2>3. AskedIsPast'
    BY <2>1 DEF Rights, AskedIsPast
  <2>4. SessionsArePermitted'
    BY <2>1 DEF Rights, SessionsArePermitted, SessionConsents
  <2>5. SigningIsPermitted' /\ SignedIsAnswered'
    BY <2>1, <2>2 DEF Rights, SigningIsPermitted, SignedIsAnswered
  <2>6. Authorised'
    BY <2>1, <2>2 DEF Rights, Authorised, Permitted
  <2> QED
    BY <2>3, <2>4, <2>5, <2>6 DEF Rights
<1>7. CASE PromptApproved(r)
  <2>1. /\ stage[r] = "asking" /\ r \in consent
        /\ \A x \in Requests : x # r => outcome'[x] = outcome[x]
        /\ UNCHANGED <<address, consent, signedBy>>
    BY <1>7 DEF PromptApproved, Prompts!Approve, Prompts!Settle, history
  <2>2. Goto(r, IF KindOf[r] = "session" THEN "answered" ELSE "signing")
    BY <1>7 DEF PromptApproved, Finish
  <2>3. AskedIsPast'
    <3>1. outcome'[r] = "approved"
      BY <1>7 DEF PromptApproved, Prompts!Approve, Prompts!Settle
    <3>2. stage'[r] \in Settled /\ \A x \in Requests : x # r => stage'[x] = stage[x]
      BY <1>1, <2>2 DEF Settled
    <3> QED
      BY <2>1, <3>1, <3>2 DEF Rights, AskedIsPast, Shaped
  <2>4. SessionsArePermitted'
    <3>1. CASE KindOf[r] = "session"
      <4>1. SiteOf[r] \in Sites
        BY Parameters
      <4>2. /\ putBlobSessionsByOrigin'[SiteOf[r]].address = address[r]
            /\ \A o \in Sites : o # SiteOf[r] => putBlobSessionsByOrigin'[o] = putBlobSessionsByOrigin[o]
        BY <1>7, <3>1, <4>1 DEF PromptApproved, Shaped
      <4>3. r \in SessionConsents(SiteOf[r])'
        BY <2>1, <3>1 DEF SessionConsents
      <4> QED
        BY <2>1, <4>2, <4>3 DEF Rights, SessionsArePermitted, SessionConsents
    <3>2. CASE KindOf[r] # "session"
      BY <1>7, <2>1, <3>2 DEF PromptApproved, Rights, SessionsArePermitted, SessionConsents
    <3> QED
      BY <3>1, <3>2
  <2>5. Permitted(r)'
    BY <2>1 DEF Permitted
  <2> QED
    BY <2>1, <2>2, <2>3, <2>4, <2>5, RightsGoOn DEF Settled
<1>8. CASE PromptRejected(r)
  <2>1. /\ stage[r] = "asking" /\ Goto(r, "answered")
        /\ \A x \in Requests : x # r => outcome'[x] = outcome[x]
        /\ UNCHANGED <<address, consent, signedBy, putBlobSessionsByOrigin>>
    BY <1>8 DEF PromptRejected, Finish, Prompts!Reject, Prompts!Settle, history
  <2>2. outcome'[r] # "none"
    BY <1>8 DEF PromptRejected, Prompts!Reject, Prompts!Settle
  <2>3. AskedIsPast'
    BY <1>1, <2>1, <2>2 DEF Rights, AskedIsPast, Settled, Shaped
  <2>4. SessionsArePermitted'
    BY <2>1 DEF Rights, SessionsArePermitted, SessionConsents
  <2> QED
    BY <2>1, <2>3, <2>4, RightsGoOn DEF Settled
<1>9. CASE Sign(r)
  <2>1. /\ stage[r] = "signing" /\ Goto(r, "answered")
        /\ \A x \in Requests : x # r => signedBy'[x] = signedBy[x]
        /\ UNCHANGED <<address, outcome, consent, putBlobSessionsByOrigin>>
    BY <1>9 DEF Sign, Finish, prompts, Shaped
  <2>2. AskedIsPast'
    BY <1>1, <2>1 DEF Rights, AskedIsPast, Settled, Shaped
  <2>3. SessionsArePermitted'
    BY <2>1 DEF Rights, SessionsArePermitted, SessionConsents
  <2>4. Permitted(r)'
    BY <2>1 DEF Rights, SigningIsPermitted, Permitted, SessionConsents
  <2> QED
    BY <2>1, <2>2, <2>3, <2>4, RightsGoOn DEF Settled
<1> QED
  BY <1>2, <1>3, <1>4, <1>5, <1>6, <1>7, <1>8, <1>9

LEMMA KeyRights ==
  ASSUME Shaped, Rights, NEW t \in Tasks,
         \/ LoadUnlockedState(t) \/ RestoreUnlockedState(t) \/ KeepUnlockedState(t)
         \/ SessionExpired(t) \/ AutoLocked(t)
  PROVE  Rights'
<1>1. /\ stage[t] \in {"begun", "restoring", "checking", "locking"}
      /\ UNCHANGED <<address, outcome, consent, signedBy>>
  BY DEF LoadUnlockedState, RestoreUnlockedState, KeepUnlockedState, SessionExpired,
         AutoLocked, prompts, history
<1>2. \E s \in {"restoring", "checking", "ready", "draining", "locking", "queued", "idle"} : Goto(t, s)
  BY DEF LoadUnlockedState, RestoreUnlockedState, KeepUnlockedState, SessionExpired,
         AutoLocked, GiveUp
<1>3. stage'[t] \notin Settled /\ \A x \in Tasks : x # t => stage'[x] = stage[x]
  BY <1>2, Going DEF Settled
<1>4. \A r \in Requests : stage'[r] = stage[r] \/ (stage[r] \notin Settled /\ stage'[r] \notin Settled)
  BY <1>1, <1>3, TasksAre DEF Settled
<1>5. SessionsOnlyGo
  BY NoSessionsShaped DEF SessionsOnlyGo, LoadUnlockedState, RestoreUnlockedState,
     KeepUnlockedState, SessionExpired, LockWalletNow, AutoLocked
<1>6. AddressesSettle
  BY <1>1 DEF AddressesSettle
<1> QED
  BY <1>1, <1>4, <1>5, <1>6, RightsStay

LEMMA DrainRights ==
  ASSUME Shaped, WaitingIsReachable, Rights, NEW d \in Drains,
         WalletUnlock(d) \/ DrainTakesItem(d) \/ DrainEnds(d)
  PROVE  Rights'
<1>1. UNCHANGED <<outcome, consent, signedBy, putBlobSessionsByOrigin>>
  BY DEF WalletUnlock, DrainTakesItem, DrainEnds, prompts, history
<1>2. SessionsOnlyGo
  BY <1>1 DEF SessionsOnlyGo
<1>3. CASE WalletUnlock(d) \/ DrainEnds(d)
  <2>1. Goto(d, "begun") \/ Goto(d, "idle")
    BY <1>3 DEF WalletUnlock, DrainEnds, Finish
  <2>2. \A r \in Requests : stage'[r] = stage[r] /\ address'[r] = address[r]
    BY <1>3, <2>1, Going, TasksAre, Parameters DEF WalletUnlock, DrainEnds, Shaped
  <2> QED
    BY <1>1, <1>2, <2>2, RightsStay DEF AddressesSettle
<1>4. CASE DrainTakesItem(d)
  <2> DEFINE h == Head(pendingUnlockQueue)
  <2>1. h \in Requests /\ stage[h] = "queued"
    <3>1. Len(pendingUnlockQueue) > 0 /\ h = pendingUnlockQueue[1] /\ 1 \in DOMAIN pendingUnlockQueue
      BY <1>4 DEF DrainTakesItem, Shaped
    <3>2. h \in Requests
      BY <3>1 DEF Shaped
    <3> QED
      BY <3>1, <3>2 DEF WaitingIsReachable
  <2>2. Goto(h, "ready") \/ Goto(h, "dropped")
    BY <1>4 DEF DrainTakesItem
  <2>3. \A r \in Requests : r # h => address'[r] = address[r]
    BY <1>4, <2>1, TasksAre DEF DrainTakesItem, Shaped
  <2>4. stage'[h] \in {"ready", "dropped"} /\ \A r \in Requests : r # h => stage'[r] = stage[r]
    BY <2>1, <2>2, Going, TasksAre
  <2>5. AddressesSettle
    BY <2>1, <2>3 DEF AddressesSettle, Settled
  <2>6. \A r \in Requests : stage'[r] = stage[r] \/ (stage[r] \notin Settled /\ stage'[r] \notin Settled)
    BY <2>1, <2>4 DEF Settled
  <2> QED
    BY <1>1, <1>2, <2>5, <2>6, RightsStay
<1> QED
  BY <1>3, <1>4

LEMMA WalletRights ==
  ASSUME Shaped, WaitingIsReachable, Rights,
         \/ \E o \in Sites : EndSession(o)
         \/ WalletLock \/ ActiveAccountChanged \/ PopupCloses \/ WorkerRestarts
         \/ \E a \in Accounts : \E why \in {"switching", "adding"} : PopupChangesAccount(a, why)
  PROVE  Rights'
<1>1. UNCHANGED <<address, consent, signedBy>>
  BY DEF EndSession, WalletLock, ActiveAccountChanged, PopupCloses, WorkerRestarts,
         PopupChangesAccount, task, prompts, history, Prompts!Reject, Prompts!Lose
<1>2. SessionsOnlyGo
  BY NoSessionsShaped DEF SessionsOnlyGo, EndSession, WalletLock, ActiveAccountChanged, PopupCloses,
     WorkerRestarts, PopupChangesAccount, LockWalletNow, Shaped
<1>3. AddressesSettle
  BY <1>1 DEF AddressesSettle
<1>4. CASE ActiveAccountChanged \/ WorkerRestarts
  <2>1. \A r \in Requests :
          /\ stage'[r] = stage[r] \/ stage'[r] \in {"idle", "answered", "lost"}
          /\ stage[r] = "answered" => stage'[r] = "answered"
          /\ stage[r] \in Settled => stage'[r] \in Settled
          /\ outcome[r] = "none" => outcome'[r] = "none"
          /\ outcome[r] # "none" => outcome'[r] # "none"
    BY <1>4, TasksAre, Parameters DEF ActiveAccountChanged, WorkerRestarts, Settled,
       Prompts!Reject, Prompts!Lose, Prompts!Settle, Prompts!Pending, Tasks
  <2>2. AskedIsPast'
    BY <1>1, <2>1 DEF Rights, AskedIsPast, Shaped
  <2>3. \A r \in Requests : Permitted(r) => Permitted(r)'
    BY <1>1 DEF Permitted, SessionConsents
  <2>4. SigningIsPermitted' /\ SignedIsAnswered'
    BY <1>1, <2>1, <2>3 DEF Rights, SigningIsPermitted, SignedIsAnswered
  <2>5. Authorised'
    BY <1>1, <2>3 DEF Rights, Authorised, Permitted
  <2>6. SessionsArePermitted'
    BY <1>1, <1>2 DEF Rights, SessionsArePermitted, SessionConsents, SessionsOnlyGo
  <2> QED
    BY <2>2, <2>4, <2>5, <2>6 DEF Rights
<1>5. CASE \/ \E o \in Sites : EndSession(o)
           \/ WalletLock \/ PopupCloses
           \/ \E a \in Accounts : \E why \in {"switching", "adding"} : PopupChangesAccount(a, why)
  <2>1. UNCHANGED <<outcome, stage>>
    BY <1>5 DEF EndSession, WalletLock, PopupCloses, PopupChangesAccount, task, prompts
  <2> QED
    BY <1>1, <1>2, <1>3, <2>1, RightsStay
<1> QED
  BY <1>4, <1>5

-----------------------------------------------------------------------------
LEMMA NextKeepsInv == Inv /\ [Next]_vars => Inv'
<1> SUFFICES ASSUME Inv, [Next]_vars PROVE Inv'
  OBVIOUS
<1> USE DEF Inv
<1>1. CASE \E r \in Requests :
             \/ ReceiveRequest(r) \/ UseSession(r) \/ AskApproval(r) \/ RequestFails(r)
             \/ UserConsents(r) \/ PromptApproved(r) \/ PromptRejected(r) \/ Sign(r)
  BY <1>1, HandlerShapes, HandlerReaches, HandlerRights
<1>2. CASE \E t \in Tasks :
             \/ LoadUnlockedState(t) \/ RestoreUnlockedState(t) \/ KeepUnlockedState(t)
             \/ SessionExpired(t) \/ AutoLocked(t)
  BY <1>2, KeyShapes, KeyReaches, KeyRights
<1>3. CASE \E d \in Drains : WalletUnlock(d) \/ DrainTakesItem(d) \/ DrainEnds(d)
  BY <1>3, DrainShapes, DrainReaches, DrainRights
<1>4. CASE \/ \E o \in Sites : EndSession(o)
           \/ WalletLock \/ ActiveAccountChanged \/ PopupCloses \/ WorkerRestarts
           \/ \E a \in Accounts : \E why \in {"switching", "adding"} : PopupChangesAccount(a, why)
  BY <1>4, WalletShapes, WalletReaches, WalletRights
<1>5. CASE UNCHANGED vars
  <2>1. Shaped'
    BY <1>5 DEF vars, Shaped, IsRecord, task, prompts, history
  <2>2. WaitingIsReachable'
    BY <1>5, WaitingStay DEF vars, task, prompts
  <2>3. AddressesSettle /\ SessionsOnlyGo
    BY <1>5 DEF vars, task, AddressesSettle, SessionsOnlyGo
  <2>4. Rights'
    BY <1>5, <2>3, RightsStay DEF vars, task, prompts, history
  <2> QED
    BY <2>1, <2>2, <2>4
<1> QED
  BY <1>1, <1>2, <1>3, <1>4, <1>5 DEF Next

LEMMA InitInv == Init => Inv
<1> SUFFICES ASSUME Init PROVE Inv
  OBVIOUS
<1> USE DEF Init, Prompts!Init
<1>1. Shaped
  BY DEF Shaped, IsRecord, NoSession
<1>2. WaitingIsReachable
  BY TasksAre DEF WaitingIsReachable, Prompts!Pending
<1>3. Rights
  BY TasksAre DEF Rights, AskedIsPast, SigningIsPermitted, SignedIsAnswered,
     SessionsArePermitted, Authorised
<1> QED
  BY <1>1, <1>2, <1>3 DEF Inv

LEMMA InvHolds == Spec => []Inv
<1> QED
  BY InitInv, NextKeepsInv, PTL DEF Spec

\* Every signature has the consent of the user: the prompt of the request, or
\* for a PutBlob that of a session for its site and address.
THEOREM NothingUnauthorised == Spec => []Authorised
<1>1. Inv => Authorised
  BY DEF Inv, Rights
<1> QED
  BY <1>1, InvHolds, PTL

\* A request that waits is in the queue, once, or has an open prompt, and
\* nothing else is in the queue or has one.
THEOREM WaitingReached == Spec => []WaitingIsReachable
<1>1. Inv => WaitingIsReachable
  BY DEF Inv
<1> QED
  BY <1>1, InvHolds, PTL
-----------------------------------------------------------------------------
(***************************************************************************)
(* The key in memory, while the worker lives on and the popup sends what   *)
(* it owes.  A request that finds no key in memory reads session storage,  *)
(* and what it reads would become the key in memory; but the two are set   *)
(* and cleared together, so nothing is there for it to restore.            *)
(***************************************************************************)
LivesOn == ~WorkerMayRestart /\ ~PopupMayClose

KeysAgree ==
  /\ unlockedState = [t \in Tasks |-> unlockedState[t]]
  /\ unlockedSession = unlocked
  /\ \A t \in Tasks : stage[t] = "restoring" => unlockedState[t] = NoAccount

KeyInv == Inv /\ KeysAgree /\ KeyOfActiveAccount

\* One task moves on with the keys left alone.
LEMMA KeysStay ==
  ASSUME Inv, KeysAgree, KeyOfActiveAccount, NEW t \in Tasks, NEW s, Goto(t, s),
         unlockedState' = [x \in Tasks |-> unlockedState'[x]],
         \A x \in Tasks : x # t => unlockedState'[x] = unlockedState[x],
         s = "restoring" => unlockedState'[t] = NoAccount,
         UNCHANGED <<unlocked, unlockedSession>>,
         UNCHANGED wallet
  PROVE  KeysAgree' /\ KeyOfActiveAccount'
<1>1. stage'[t] = s /\ \A x \in Tasks : x # t => stage'[x] = stage[x]
  BY Going DEF Inv
<1> QED
  BY <1>1 DEF KeysAgree, KeyOfActiveAccount, wallet

LEMMA HandlerKeys ==
  ASSUME KeyInv, NEW r \in Requests,
         \/ ReceiveRequest(r) \/ UseSession(r) \/ AskApproval(r) \/ RequestFails(r)
         \/ UserConsents(r) \/ PromptApproved(r) \/ PromptRejected(r) \/ Sign(r)
  PROVE  KeysAgree' /\ KeyOfActiveAccount'
<1> USE TasksAre DEF KeyInv
<1>1. CASE UserConsents(r)
  BY <1>1 DEF UserConsents, KeysAgree, KeyOfActiveAccount, wallet, key, task
<1>2. CASE ReceiveRequest(r) \/ UseSession(r) \/ AskApproval(r)
  <2>1. PICK s \in {"begun", "signing", "asking"} : Goto(r, s)
    BY <1>2 DEF ReceiveRequest, UseSession, AskApproval
  <2>2. UNCHANGED <<unlockedState, key, wallet>>
    BY <1>2 DEF ReceiveRequest, UseSession, AskApproval
  <2>3. unlockedState' = [x \in Tasks |-> unlockedState'[x]]
    BY <2>2 DEF KeysAgree
  <2> QED
    BY <2>1, <2>2, <2>3, KeysStay DEF key
<1>3. CASE RequestFails(r) \/ PromptApproved(r) \/ PromptRejected(r) \/ Sign(r)
  <2>1. PICK s \in {"answered", "signing"} : Goto(r, s)
    BY <1>3 DEF RequestFails, PromptApproved, PromptRejected, Sign, Finish
  <2>2. UNCHANGED <<key, wallet>>
    BY <1>3 DEF RequestFails, PromptApproved, PromptRejected, Sign
  <2>3. UNCHANGED unlockedState \/ unlockedState' = [unlockedState EXCEPT ![r] = NoAccount]
    BY <1>3 DEF RequestFails, PromptApproved, PromptRejected, Sign, Finish
  <2>4. /\ unlockedState' = [x \in Tasks |-> unlockedState'[x]]
        /\ \A x \in Tasks : x # r => unlockedState'[x] = unlockedState[x]
    BY <2>3 DEF KeysAgree
  <2> QED
    BY <2>1, <2>2, <2>4, KeysStay DEF key
<1> QED
  BY <1>1, <1>2, <1>3

LEMMA KeyKeys ==
  ASSUME KeyInv, NEW t \in Tasks,
         \/ LoadUnlockedState(t) \/ RestoreUnlockedState(t) \/ KeepUnlockedState(t)
         \/ SessionExpired(t) \/ AutoLocked(t)
  PROVE  /\ KeysAgree' /\ KeyOfActiveAccount'
         /\ UNCHANGED key \/ unlocked' = NoAccount
<1> USE DEF KeyInv
<1>1. CASE LoadUnlockedState(t)
  <2>1. PICK s \in {"checking", "restoring"} :
          Goto(t, s) /\ (s = "restoring" => unlockedState'[t] = NoAccount)
    BY <1>1 DEF LoadUnlockedState, KeysAgree
  <2>2. /\ unlockedState' = [x \in Tasks |-> unlockedState'[x]]
        /\ \A x \in Tasks : x # t => unlockedState'[x] = unlockedState[x]
    BY <1>1 DEF LoadUnlockedState, KeysAgree
  <2>3. UNCHANGED <<key, wallet>>
    BY <1>1 DEF LoadUnlockedState
  <2> QED
    BY <2>1, <2>2, <2>3, KeysStay DEF key
<1>2. CASE RestoreUnlockedState(t)
  <2>1. UNCHANGED <<key, wallet, unlockedState>> /\ GiveUp(t)
    BY <1>2 DEF RestoreUnlockedState, KeysAgree, key
  <2>2. PICK s \in {"queued", "idle"} : Goto(t, s)
    BY <2>1 DEF GiveUp
  <2>3. unlockedState' = [x \in Tasks |-> unlockedState'[x]]
    BY <2>1 DEF KeysAgree
  <2> QED
    BY <2>1, <2>2, <2>3, KeysStay DEF key
<1>3. CASE KeepUnlockedState(t) \/ AutoLocked(t)
  <2>1. PICK s \in {"ready", "draining", "queued", "idle"} : Goto(t, s)
    BY <1>3 DEF KeepUnlockedState, AutoLocked, GiveUp
  <2>2. UNCHANGED <<key, wallet, unlockedState>>
    BY <1>3 DEF KeepUnlockedState, AutoLocked
  <2>3. unlockedState' = [x \in Tasks |-> unlockedState'[x]]
    BY <2>2 DEF KeysAgree
  <2> QED
    BY <2>1, <2>2, <2>3, KeysStay DEF key
<1>4. CASE SessionExpired(t)
  <2>1. unlocked' = NoAccount /\ unlockedSession' = NoAccount /\ Goto(t, "locking")
    BY <1>4 DEF SessionExpired, LockWalletNow
  <2>2. stage'[t] = "locking" /\ \A x \in Tasks : x # t => stage'[x] = stage[x]
    BY <2>1, Going DEF Inv
  <2>3. KeysAgree'
    BY <1>4, <2>1, <2>2 DEF SessionExpired, KeysAgree
  <2> QED
    BY <2>1, <2>3 DEF KeyOfActiveAccount
<1> QED
  BY <1>1, <1>2, <1>3, <1>4

LEMMA DrainKeys ==
  ASSUME KeyInv, NEW d \in Drains,
         WalletUnlock(d) \/ DrainTakesItem(d) \/ DrainEnds(d)
  PROVE  /\ KeysAgree' /\ KeyOfActiveAccount'
         /\ UNCHANGED key \/ (stage[d] = "idle" /\ stage'[d] = "begun")
<1> USE TasksAre DEF KeyInv
<1>1. CASE WalletUnlock(d)
  <2>1. /\ popup' = "idle" /\ unlocked' = activeAccount /\ unlockedSession' = activeAccount
        /\ stage[d] = "idle" /\ Goto(d, "begun") /\ UNCHANGED <<activeAccount, unlockedState>>
    BY <1>1 DEF WalletUnlock
  <2>2. stage'[d] = "begun" /\ \A x \in Tasks : x # d => stage'[x] = stage[x]
    BY <2>1, Going DEF Inv
  <2> QED
    BY <2>1, <2>2 DEF KeysAgree, KeyOfActiveAccount
<1>2. CASE DrainTakesItem(d)
  <2> DEFINE h == Head(pendingUnlockQueue)
  <2>1. h \in Tasks
    BY <1>2 DEF DrainTakesItem, Inv, Shaped
  <2>2. PICK s \in {"dropped", "ready"} : Goto(h, s)
    BY <1>2 DEF DrainTakesItem
  <2>3. /\ unlockedState' = [x \in Tasks |-> unlockedState'[x]]
        /\ \A x \in Tasks : x # h => unlockedState'[x] = unlockedState[x]
    BY <1>2, <2>1 DEF DrainTakesItem, KeysAgree
  <2>4. UNCHANGED <<key, wallet>>
    BY <1>2 DEF DrainTakesItem
  <2> HIDE DEF h
  <2> QED
    BY <2>1, <2>2, <2>3, <2>4, KeysStay DEF key
<1>3. CASE DrainEnds(d)
  <2>1. /\ unlockedState' = [unlockedState EXCEPT ![d] = NoAccount]
        /\ Goto(d, "idle") /\ UNCHANGED <<key, wallet>>
    BY <1>3 DEF DrainEnds, Finish
  <2>2. /\ unlockedState' = [x \in Tasks |-> unlockedState'[x]]
        /\ \A x \in Tasks : x # d => unlockedState'[x] = unlockedState[x]
    BY <2>1 DEF KeysAgree
  <2> QED
    BY <2>1, <2>2, KeysStay DEF key
<1> QED
  BY <1>1, <1>2, <1>3

LEMMA WalletKeys ==
  ASSUME LivesOn, KeyInv,
         \/ \E o \in Sites : EndSession(o)
         \/ WalletLock \/ ActiveAccountChanged \/ PopupCloses \/ WorkerRestarts
         \/ \E a \in Accounts : \E why \in {"switching", "adding"} : PopupChangesAccount(a, why)
  PROVE  /\ KeysAgree' /\ KeyOfActiveAccount'
         /\ UNCHANGED key \/ unlocked' = NoAccount
<1> USE DEF KeyInv
<1>1. CASE WorkerRestarts \/ PopupCloses
  BY <1>1 DEF WorkerRestarts, PopupCloses, LivesOn
<1>2. CASE \E o \in Sites : EndSession(o)
  BY <1>2 DEF EndSession, KeysAgree, KeyOfActiveAccount, wallet, key, task
<1>3. CASE WalletLock
  BY <1>3 DEF WalletLock, LockWalletNow, KeysAgree, KeyOfActiveAccount, wallet, key, task
<1>4. CASE ActiveAccountChanged
  <2>1. unlocked' = NoAccount /\ unlockedSession' = NoAccount
    BY <1>4 DEF ActiveAccountChanged, LockWalletNow
  <2>2. \A t \in Tasks : stage'[t] = "restoring" => unlockedState'[t] = NoAccount
    BY <1>4 DEF ActiveAccountChanged, KeysAgree
  <2>3. unlockedState' = [t \in Tasks |-> unlockedState'[t]]
    BY <1>4 DEF ActiveAccountChanged
  <2> QED
    BY <2>1, <2>2, <2>3 DEF KeysAgree, KeyOfActiveAccount
<1>5. CASE \E a \in Accounts : \E why \in {"switching", "adding"} : PopupChangesAccount(a, why)
  BY <1>5 DEF PopupChangesAccount, KeysAgree, KeyOfActiveAccount, wallet, key, task
<1> QED
  BY <1>1, <1>2, <1>3, <1>4, <1>5

\* A step leaves the keys alone, takes them away, or is an unlock by the user.
LEMMA NextKeepsKeys ==
  ASSUME LivesOn, KeyInv, [Next]_vars
  PROVE  /\ KeyInv'
         /\ \/ UNCHANGED key \/ unlocked' = NoAccount
            \/ \E d \in Drains : stage[d] = "idle" /\ stage'[d] = "begun"
<1>1. Inv'
  BY NextKeepsInv DEF KeyInv
<1>2. CASE \E r \in Requests :
             \/ ReceiveRequest(r) \/ UseSession(r) \/ AskApproval(r) \/ RequestFails(r)
             \/ UserConsents(r) \/ PromptApproved(r) \/ PromptRejected(r) \/ Sign(r)
  <2>1. UNCHANGED key
    BY <1>2 DEF ReceiveRequest, UseSession, AskApproval, RequestFails, UserConsents,
       PromptApproved, PromptRejected, Sign
  <2> QED
    BY <1>1, <1>2, <2>1, HandlerKeys DEF KeyInv
<1>3. CASE \E t \in Tasks :
             \/ LoadUnlockedState(t) \/ RestoreUnlockedState(t) \/ KeepUnlockedState(t)
             \/ SessionExpired(t) \/ AutoLocked(t)
  BY <1>1, <1>3, KeyKeys DEF KeyInv
<1>4. CASE \E d \in Drains : WalletUnlock(d) \/ DrainTakesItem(d) \/ DrainEnds(d)
  BY <1>1, <1>4, DrainKeys DEF KeyInv
<1>5. CASE \/ \E o \in Sites : EndSession(o)
           \/ WalletLock \/ ActiveAccountChanged \/ PopupCloses \/ WorkerRestarts
           \/ \E a \in Accounts : \E why \in {"switching", "adding"} : PopupChangesAccount(a, why)
  BY <1>1, <1>5, WalletKeys DEF KeyInv
<1>6. CASE UNCHANGED vars
  BY <1>1, <1>6 DEF KeyInv, vars, KeysAgree, KeyOfActiveAccount, wallet, key, task
<1> QED
  BY <1>2, <1>3, <1>4, <1>5, <1>6 DEF Next

LEMMA InitKeys == Init => KeyInv
<1> SUFFICES ASSUME Init PROVE KeyInv
  OBVIOUS
<1>1. Inv
  BY InitInv
<1> QED
  BY <1>1, TasksAre DEF Init, KeyInv, KeysAgree, KeyOfActiveAccount

\* The key in memory is that of the account the popup shows as active, for as
\* long as the worker lives on and no popup closes between its write and its
\* message.
THEOREM KeyFollowsAccount ==
  ASSUME LivesOn
  PROVE  Spec => []KeyOfActiveAccount
<1>1. KeyInv /\ [Next]_vars => KeyInv'
  BY NextKeepsKeys
<1>2. KeyInv => KeyOfActiveAccount
  BY DEF KeyInv
<1> QED
  BY <1>1, <1>2, InitKeys, PTL DEF Spec

\* No request that read the key before a lock and goes on after it brings the key
\* back: from locked to unlocked only the user's WALLET_UNLOCK leads.
THEOREM NothingElseUnlocks ==
  ASSUME LivesOn
  PROVE  Spec => OnlyUserUnlocks
<1> DEFINE Begun == \E d \in Drains : stage[d] = "idle" /\ stage'[d] = "begun"
<1>1. KeyInv /\ [Next]_vars => KeyInv'
  BY NextKeepsKeys
<1>2. KeyInv /\ KeyInv' /\ [Next]_vars => [~Unlocked /\ Unlocked' => Begun]_vars
  <2> SUFFICES ASSUME KeyInv, KeyInv', [Next]_vars, ~Unlocked, Unlocked'
               PROVE  Begun
    OBVIOUS
  <2>1. UNCHANGED key \/ unlocked' = NoAccount \/ Begun
    BY NextKeepsKeys
  <2> QED
    BY <2>1 DEF KeyInv, KeysAgree, Unlocked, key
<1> QED
  BY <1>1, <1>2, InitKeys, PTL DEF Spec, OnlyUserUnlocks
-----------------------------------------------------------------------------
(***************************************************************************)
(* The quota of a site.  Each approved session brings MaxBlobs; what has   *)
(* been let through and what the session still allows is never more than   *)
(* that, for a session that is replaced, ended or lost takes its rest      *)
(* along.                                                                  *)
(***************************************************************************)
Unprompted(o) == {r \in unprompted : SiteOf[r] = o}

Granted(o) ==
  {s \in Requests : outcome[s] = "approved" /\ KindOf[s] = "session" /\ SiteOf[s] = o}

Left(o) ==
  IF putBlobSessionsByOrigin[o] = NoSession THEN 0
  ELSE MaxBlobs - putBlobSessionsByOrigin[o].used

Counted ==
  /\ IsFiniteSet(unprompted) /\ IsFiniteSet(consent)
  /\ \A r \in Requests : outcome[r] = "approved" => r \in consent
  /\ \A o \in Sites : putBlobSessionsByOrigin[o].used \in 0 .. MaxBlobs

WithinQuota ==
  \A o \in Sites : Cardinality(Unprompted(o)) + Left(o) <= MaxBlobs * Cardinality(Granted(o))

BudgetInv == Inv /\ Counted /\ WithinQuota

LEMMA CountsAreNumbers ==
  ASSUME Counted, NEW o \in Sites
  PROVE  /\ IsFiniteSet(Unprompted(o)) /\ Cardinality(Unprompted(o)) \in Nat
         /\ IsFiniteSet(Granted(o)) /\ Cardinality(Granted(o)) \in Nat
         /\ Granted(o) \subseteq SessionConsents(o)
         /\ IsFiniteSet(SessionConsents(o)) /\ Cardinality(SessionConsents(o)) \in Nat
         /\ Left(o) \in 0 .. MaxBlobs
<1>1. /\ Unprompted(o) \subseteq unprompted /\ SessionConsents(o) \subseteq consent
      /\ Granted(o) \subseteq SessionConsents(o)
  BY DEF Counted, Unprompted, Granted, SessionConsents
<1>2. /\ IsFiniteSet(Unprompted(o)) /\ IsFiniteSet(SessionConsents(o))
  BY <1>1, FS_Subset DEF Counted
<1>3. IsFiniteSet(Granted(o))
  BY <1>1, <1>2, FS_Subset
<1>4. Left(o) \in 0 .. MaxBlobs
  BY Parameters DEF Left, Counted
<1> QED
  BY <1>1, <1>2, <1>3, <1>4, FS_CardinalityType

\* A step that lets nothing through and approves nothing.
LEMMA BudgetStays ==
  ASSUME Counted, WithinQuota, UNCHANGED unprompted, SessionsOnlyGo,
         IsFiniteSet(consent'), consent \subseteq consent',
         \A r \in Requests : outcome'[r] = "approved" <=> outcome[r] = "approved"
  PROVE  Counted' /\ WithinQuota'
<1>1. Counted'
  BY Parameters DEF Counted, SessionsOnlyGo, NoSession
<1>2. ASSUME NEW o \in Sites
      PROVE  (Cardinality(Unprompted(o)) + Left(o) <= MaxBlobs * Cardinality(Granted(o)))'
  <2>1. Unprompted(o)' = Unprompted(o) /\ Granted(o)' = Granted(o)
    BY DEF Unprompted, Granted
  <2>2. Left(o)' \in {0, Left(o)}
    BY <1>2 DEF SessionsOnlyGo, Left
  <2>3. Left(o) \in Nat /\ Cardinality(Unprompted(o)) \in Nat /\ Cardinality(Granted(o)) \in Nat
    BY <1>2, CountsAreNumbers, Parameters
  <2>4. Cardinality(Unprompted(o)) + Left(o) <= MaxBlobs * Cardinality(Granted(o))
    BY <1>2 DEF WithinQuota
  <2>5. MaxBlobs * Cardinality(Granted(o)) \in Nat
    BY <2>3, Parameters
  <2>6. Cardinality(Unprompted(o)) + Left(o)' <= MaxBlobs * Cardinality(Granted(o))
    BY <2>2, <2>3, <2>4, <2>5
  <2> QED
    BY <2>1, <2>6
<1> QED
  BY <1>1, <1>2 DEF WithinQuota

\* One more blob is let through, and the session allows one less.
LEMMA UseCounts ==
  ASSUME BudgetInv, NEW r \in Requests, UseSession(r)
  PROVE  Counted' /\ WithinQuota'
<1> DEFINE site == SiteOf[r]
<1>1. site \in Sites
  BY Parameters
<1>2. /\ putBlobSessionsByOrigin[site] # NoSession
      /\ putBlobSessionsByOrigin[site].used < MaxBlobs
      /\ putBlobSessionsByOrigin' = [putBlobSessionsByOrigin EXCEPT ![site].used = @ + 1]
      /\ unprompted' = unprompted \cup {r}
      /\ UNCHANGED <<outcome, consent>>
  BY DEF UseSession, CoveredBySession, prompts
<1>3. /\ putBlobSessionsByOrigin'[site].used = putBlobSessionsByOrigin[site].used + 1
      /\ \A o \in Sites : o # site => putBlobSessionsByOrigin'[o] = putBlobSessionsByOrigin[o]
  <2>1. IsRecord(putBlobSessionsByOrigin[site])
    BY <1>1 DEF BudgetInv, Inv, Shaped
  <2> QED
    BY <1>1, <1>2, <2>1 DEF BudgetInv, Inv, Shaped, IsRecord
<1>4. putBlobSessionsByOrigin[site].used \in 0 .. MaxBlobs
  BY <1>1 DEF BudgetInv, Counted
<1>5. Counted'
  <2>1. IsFiniteSet(unprompted')
    BY <1>2, FS_AddElement DEF BudgetInv, Counted
  <2> QED
    BY <1>1, <1>2, <1>3, <1>4, <2>1, Parameters DEF BudgetInv, Counted
<1>6. ASSUME NEW o \in Sites
      PROVE  (Cardinality(Unprompted(o)) + Left(o) <= MaxBlobs * Cardinality(Granted(o)))'
  <2>1. Granted(o)' = Granted(o)
    BY <1>2 DEF Granted
  <2>2. /\ Left(o) \in Nat /\ Cardinality(Unprompted(o)) \in Nat /\ IsFiniteSet(Unprompted(o))
        /\ MaxBlobs * Cardinality(Granted(o)) \in Nat
    BY <1>6, CountsAreNumbers, Parameters DEF BudgetInv
  <2>3. Cardinality(Unprompted(o)) + Left(o) <= MaxBlobs * Cardinality(Granted(o))
    BY <1>6 DEF BudgetInv, WithinQuota
  <2>4. CASE o = site
    <3>1. Unprompted(o)' = Unprompted(o) \cup {r}
      BY <1>2, <2>4 DEF Unprompted
    <3>2. Cardinality(Unprompted(o)') \in {Cardinality(Unprompted(o)), Cardinality(Unprompted(o)) + 1}
      BY <2>2, <3>1, FS_AddElement
    <3>3. Left(o)' = Left(o) - 1
      <4>1. putBlobSessionsByOrigin'[site] # NoSession
        BY <1>3, <1>4 DEF NoSession
      <4> QED
        BY <1>2, <1>3, <1>4, <2>4, <4>1, Parameters DEF Left
    <3> QED
      BY <2>1, <2>2, <2>3, <3>2, <3>3
  <2>5. CASE o # site
    <3>1. Unprompted(o)' = Unprompted(o) /\ Left(o)' = Left(o)
      BY <1>2, <1>3, <2>5 DEF Unprompted, Left
    <3> QED
      BY <2>1, <2>3, <3>1
  <2> QED
    BY <2>4, <2>5
<1> QED
  BY <1>5, <1>6 DEF WithinQuota

\* One more session is approved, and replaces what the site had.
LEMMA GrantCounts ==
  ASSUME BudgetInv, NEW r \in Requests, PromptApproved(r), KindOf[r] = "session"
  PROVE  Counted' /\ WithinQuota'
<1> DEFINE site == SiteOf[r]
<1>1. site \in Sites
  BY Parameters
<1>2. /\ outcome[r] = "pending" /\ r \in consent /\ UNCHANGED <<consent, unprompted>>
      /\ outcome' = [x \in Requests |-> IF x = r THEN "approved" ELSE outcome[x]]
      /\ putBlobSessionsByOrigin' =
           [putBlobSessionsByOrigin EXCEPT ![site] = [address |-> address[r], used |-> 0]]
  BY DEF PromptApproved, Prompts!Approve, Prompts!Pending, Prompts!Settle, history
<1>3. /\ putBlobSessionsByOrigin'[site] = [address |-> address[r], used |-> 0]
      /\ \A o \in Sites : o # site => putBlobSessionsByOrigin'[o] = putBlobSessionsByOrigin[o]
  BY <1>1, <1>2 DEF BudgetInv, Inv, Shaped
<1>4. Counted'
  BY <1>1, <1>2, <1>3, Parameters DEF BudgetInv, Counted
<1>5. ASSUME NEW o \in Sites
      PROVE  (Cardinality(Unprompted(o)) + Left(o) <= MaxBlobs * Cardinality(Granted(o)))'
  <2>1. Unprompted(o)' = Unprompted(o)
    BY <1>2 DEF Unprompted
  <2>2. /\ Left(o) \in Nat /\ Cardinality(Unprompted(o)) \in Nat
        /\ IsFiniteSet(Granted(o)) /\ Cardinality(Granted(o)) \in Nat
    BY <1>5, CountsAreNumbers, Parameters DEF BudgetInv
  <2>3. Cardinality(Unprompted(o)) + Left(o) <= MaxBlobs * Cardinality(Granted(o))
    BY <1>5 DEF BudgetInv, WithinQuota
  <2>4. CASE o = site
    <3>1. Granted(o)' = Granted(o) \cup {r} /\ r \notin Granted(o)
      BY <1>2, <2>4 DEF Granted
    <3>2. Cardinality(Granted(o)') = Cardinality(Granted(o)) + 1
      BY <2>2, <3>1, FS_AddElement
    <3>3. MaxBlobs * Cardinality(Granted(o)') = MaxBlobs * Cardinality(Granted(o)) + MaxBlobs
      BY <2>2, <3>2, Parameters
    <3>4. Left(o)' \in 0 .. MaxBlobs
      BY <1>4, <1>5, CountsAreNumbers, Parameters DEF Left, Counted
    <3>5. MaxBlobs * Cardinality(Granted(o)) \in Nat
      BY <2>2, Parameters
    <3> QED
      BY <2>1, <2>2, <2>3, <3>3, <3>4, <3>5, Parameters
  <2>5. CASE o # site
    <3>1. Granted(o)' = Granted(o) /\ Left(o)' = Left(o)
      BY <1>2, <1>3, <2>5 DEF Granted, Left
    <3> QED
      BY <2>1, <2>3, <3>1
  <2> QED
    BY <2>4, <2>5
<1> QED
  BY <1>4, <1>5 DEF WithinQuota

LEMMA HandlerCounts ==
  ASSUME BudgetInv, NEW r \in Requests,
         \/ ReceiveRequest(r) \/ UseSession(r) \/ AskApproval(r) \/ RequestFails(r)
         \/ UserConsents(r) \/ PromptApproved(r) \/ PromptRejected(r) \/ Sign(r)
  PROVE  Counted' /\ WithinQuota'
<1>1. CASE ReceiveRequest(r) \/ RequestFails(r) \/ Sign(r)
  <2>1. UNCHANGED <<prompts, unprompted, putBlobSessionsByOrigin>>
    BY <1>1 DEF ReceiveRequest, RequestFails, Sign, history
  <2> QED
    BY <2>1, BudgetStays DEF BudgetInv, prompts, SessionsOnlyGo, Counted
<1>2. CASE AskApproval(r) \/ PromptRejected(r)
  <2>1. /\ UNCHANGED <<consent, unprompted, putBlobSessionsByOrigin>>
        /\ \A x \in Requests : outcome'[x] = "approved" <=> outcome[x] = "approved"
    BY <1>2 DEF AskApproval, PromptRejected, Prompts!Ask, Prompts!Reject, Prompts!Settle,
       Prompts!Pending, history, BudgetInv, Inv, Shaped
  <2> QED
    BY <2>1, BudgetStays DEF BudgetInv, SessionsOnlyGo, Counted
<1>3. CASE UserConsents(r)
  <2>1. /\ consent' = consent \cup {r}
        /\ UNCHANGED <<outcome, unprompted, putBlobSessionsByOrigin>>
    BY <1>3 DEF UserConsents, Prompts!Consent, history
  <2>2. IsFiniteSet(consent')
    BY <2>1, FS_AddElement DEF BudgetInv, Counted
  <2> QED
    BY <2>1, <2>2, BudgetStays DEF BudgetInv, SessionsOnlyGo
<1>4. CASE PromptApproved(r) /\ KindOf[r] # "session"
  <2>1. /\ outcome[r] = "pending" /\ r \in consent
        /\ outcome' = [x \in Requests |-> IF x = r THEN "approved" ELSE outcome[x]]
        /\ UNCHANGED <<consent, unprompted, putBlobSessionsByOrigin>>
    BY <1>4 DEF PromptApproved, Prompts!Approve, Prompts!Pending, Prompts!Settle, history
  <2>2. Counted'
    BY <2>1 DEF BudgetInv, Counted
  <2>3. \A o \in Sites : /\ Unprompted(o)' = Unprompted(o) /\ Granted(o)' = Granted(o)
                         /\ Left(o)' = Left(o)
    BY <1>4, <2>1 DEF Unprompted, Granted, Left
  <2> QED
    BY <2>2, <2>3 DEF BudgetInv, WithinQuota
<1> QED
  BY <1>1, <1>2, <1>3, <1>4, UseCounts, GrantCounts

LEMMA NextKeepsBudget ==
  ASSUME BudgetInv, [Next]_vars
  PROVE  BudgetInv'
<1>1. Inv'
  BY NextKeepsInv DEF BudgetInv
<1>2. CASE \E r \in Requests :
             \/ ReceiveRequest(r) \/ UseSession(r) \/ AskApproval(r) \/ RequestFails(r)
             \/ UserConsents(r) \/ PromptApproved(r) \/ PromptRejected(r) \/ Sign(r)
  BY <1>1, <1>2, HandlerCounts DEF BudgetInv
<1>3. CASE \/ \E t \in Tasks :
                \/ LoadUnlockedState(t) \/ RestoreUnlockedState(t) \/ KeepUnlockedState(t)
                \/ SessionExpired(t) \/ AutoLocked(t)
           \/ \E d \in Drains : WalletUnlock(d) \/ DrainTakesItem(d) \/ DrainEnds(d)
           \/ \E a \in Accounts : \E why \in {"switching", "adding"} : PopupChangesAccount(a, why)
           \/ \E o \in Sites : EndSession(o)
           \/ WalletLock \/ PopupCloses \/ UNCHANGED vars
  <2>1. UNCHANGED <<outcome, consent, unprompted>>
    BY <1>3 DEF LoadUnlockedState, RestoreUnlockedState, KeepUnlockedState, SessionExpired,
       AutoLocked, WalletUnlock, DrainTakesItem, DrainEnds, PopupChangesAccount, EndSession,
       WalletLock, PopupCloses, vars, prompts, history
  <2>2. SessionsOnlyGo
    <3>1. \/ UNCHANGED putBlobSessionsByOrigin
          \/ NoSessions
          \/ \E o \in Sites : EndSession(o)
      BY <1>3 DEF LoadUnlockedState, RestoreUnlockedState, KeepUnlockedState, SessionExpired,
         AutoLocked, WalletUnlock, DrainTakesItem, DrainEnds, PopupChangesAccount,
         WalletLock, PopupCloses, vars, LockWalletNow
    <3> QED
      BY <3>1, NoSessionsShaped DEF SessionsOnlyGo, EndSession, BudgetInv, Inv, Shaped
  <2> QED
    BY <1>1, <2>1, <2>2, BudgetStays DEF BudgetInv, Counted
<1>4. CASE ActiveAccountChanged \/ WorkerRestarts
  <2>1. /\ UNCHANGED <<consent, unprompted>> /\ NoSessions
        /\ \A x \in Requests : outcome'[x] = "approved" <=> outcome[x] = "approved"
    BY <1>4 DEF ActiveAccountChanged, WorkerRestarts, LockWalletNow, Prompts!Reject, Prompts!Lose,
       Prompts!Settle, Prompts!Pending, history
  <2>2. SessionsOnlyGo
    BY <2>1, NoSessionsShaped DEF SessionsOnlyGo
  <2> QED
    BY <1>1, <2>1, <2>2, BudgetStays DEF BudgetInv, Counted
<1> QED
  BY <1>2, <1>3, <1>4 DEF Next

LEMMA InitBudget == Init => BudgetInv
<1> SUFFICES ASSUME Init PROVE BudgetInv
  OBVIOUS
<1>1. Inv
  BY InitInv
<1>2. Counted
  BY FS_EmptySet, Parameters DEF Init, Prompts!Init, Counted, NoSession
<1>3. \A o \in Sites : Unprompted(o) = {} /\ Granted(o) = {} /\ Left(o) = 0
  BY DEF Init, Prompts!Init, Unprompted, Granted, Left
<1>4. WithinQuota
  <2>1. Cardinality({}) = 0
    BY FS_EmptySet
  <2> QED
    BY <1>3, <2>1, Parameters DEF WithinQuota
<1> QED
  BY <1>1, <1>2, <1>4 DEF BudgetInv

\* consumePutBlobSession: however requests, drains, sessions and restarts overlap,
\* a site has at most MaxBlobs unprompted blobs for each session that the user
\* approved.
THEOREM QuotaHolds == Spec => []SessionBudget
<1>1. ASSUME BudgetInv PROVE SessionBudget
  <2> SUFFICES ASSUME NEW o \in Sites
               PROVE  Cardinality(Unprompted(o)) <= MaxBlobs * Cardinality(SessionConsents(o))
    BY DEF SessionBudget, Unprompted
  <2>1. Cardinality(Granted(o)) <= Cardinality(SessionConsents(o))
    BY <1>1, CountsAreNumbers, FS_Subset DEF BudgetInv
  <2>2. /\ Cardinality(Granted(o)) \in Nat /\ Cardinality(SessionConsents(o)) \in Nat
        /\ Cardinality(Unprompted(o)) \in Nat /\ Left(o) \in Nat
    BY <1>1, CountsAreNumbers, Parameters DEF BudgetInv
  <2>3. MaxBlobs * Cardinality(Granted(o)) <= MaxBlobs * Cardinality(SessionConsents(o))
    BY <2>1, <2>2, Parameters
  <2>4. Cardinality(Unprompted(o)) + Left(o) <= MaxBlobs * Cardinality(Granted(o))
    BY <1>1 DEF BudgetInv, WithinQuota
  <2>5. MaxBlobs * Cardinality(Granted(o)) \in Nat /\ MaxBlobs * Cardinality(SessionConsents(o)) \in Nat
    BY <2>2, Parameters
  <2> QED
    BY <2>2, <2>3, <2>4, <2>5
<1>2. BudgetInv /\ [Next]_vars => BudgetInv'
  BY NextKeepsBudget
<1> QED
  BY <1>1, <1>2, InitBudget, PTL DEF Spec
=============================================================================
