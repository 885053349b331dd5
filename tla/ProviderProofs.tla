--------------------------- MODULE ProviderProofs ---------------------------
(***************************************************************************)
(* The way of a call through page, content script and worker keeps the     *)
(* promise of a provider call (ImplementsCallPromise), and the queue of    *)
(* unlocks in the worker answers each request once (AnsweredOnce), with    *)
(* timeouts that follow it (TimersFollowQueue) and hit their own request   *)
(* (OnlyOwnTimeout).  For every set of calls, requests, drains and windows,*)
(* and every number of locks, reloads, disconnects and restarts.           *)
(***************************************************************************)
EXTENDS ProviderBridge, UnlockQueue, FiniteSetTheorems, TLAPS

-----------------------------------------------------------------------------
(***************************************************************************)
(* The bridge.  What the page is told in the end travels on the wire long  *)
(* before, so the invariant says of each place on the wire what was done   *)
(* and seen by then.                                                       *)
(***************************************************************************)
Outcomes == {"none", "pending", "value", "empty", "error", "gone"}
Places   == {"none", "value", "empty", "error", "lost"} \cup AtWorker

Typed ==
    /\ connected \in BOOLEAN
    /\ page \in [Calls -> Outcomes]
    /\ wire \in [Calls -> Places]
    /\ saw \in [Calls -> SUBSET BOOLEAN]
    /\ done \subseteq Calls

Gated(c) == method[c] \in {"accounts", "sign", "read"}

\* A call that was not made has left no trace.
NotMade(c) == page[c] = "none" => wire[c] = "none" /\ saw[c] = {} /\ c \notin done

\* One on its way to the worker was not looked at.
NotRead(c) == wire[c] = "asked" => saw[c] = {} /\ c \notin done

\* One in the worker was looked at and is not done; if it waits for the user or
\* the node and needs a connected site, the site was connected.
AtWork(c) ==
    /\ wire[c] \in AtWorker \ {"asked"} => saw[c] # {} /\ c \notin done
    /\ wire[c] \in {"queued", "approving", "working"} /\ Gated(c) => TRUE \in saw[c]

\* An answer on its way back is of a call that is done.
Answered(c) ==
    /\ wire[c] \in {"value", "empty"} => c \in done
    /\ wire[c] = "value" /\ Gated(c) => TRUE \in saw[c]

WireOf(c) == NotMade(c) /\ NotRead(c) /\ AtWork(c) /\ Answered(c)

Inv == Typed /\ \A c \in Calls : WireOf(c)

-----------------------------------------------------------------------------
\* A call moves on, and nothing else about the calls changes.
LEMMA MovesOnly ==
    ASSUME Inv, NEW c \in Calls, NEW to \in Places, Moves(c, to),
           UNCHANGED <<connected, page, method, saw, done>>, WireOf(c)'
    PROVE  Inv'
<1>1. wire' \in [Calls -> Places] /\ \A d \in Calls : d # c => wire'[d] = wire[d]
  BY DEF Inv, Typed, Moves
<1>2. \A d \in Calls : d # c => WireOf(d)'
  BY <1>1 DEF Inv, WireOf, NotMade, NotRead, AtWork, Answered, Gated
<1>3. Typed'
  BY <1>1 DEF Inv, Typed
<1> QED
  BY <1>2, <1>3 DEF Inv

LEMMA Wired ==
    ASSUME Inv, NEW c \in Calls, NEW to, Moves(c, to)
    PROVE  wire'[c] = to
BY DEF Inv, Typed, Moves

\* The page makes a call, or gives it up.
LEMMA PageSteps ==
    ASSUME Inv, NEW c \in Calls, SendToExtension(c) \/ PageTimer(c)
    PROVE  Inv'
<1>1. CASE SendToExtension(c)
  <2>1. /\ page' = [page EXCEPT ![c] = "pending"] /\ wire' = [wire EXCEPT ![c] = "asked"]
        /\ page[c] = "none"
        /\ UNCHANGED <<connected, method, saw, done>>
    BY <1>1 DEF SendToExtension, Moves
  <2>2. Typed'
    BY <2>1 DEF Inv, Typed, Outcomes, Places, AtWorker
  <2>3. page'[c] = "pending" /\ wire'[c] = "asked" /\ saw[c] = {} /\ c \notin done
    BY <2>1 DEF Inv, Typed, WireOf, NotMade
  <2>4. WireOf(c)'
    BY <2>1, <2>3 DEF WireOf, NotMade, NotRead, AtWork, Answered
  <2>5. \A d \in Calls : d # c => page'[d] = page[d] /\ wire'[d] = wire[d]
    BY <2>1 DEF Inv, Typed
  <2>6. \A d \in Calls : d # c => WireOf(d)'
    BY <2>1, <2>5 DEF Inv, WireOf, NotMade, NotRead, AtWork, Answered, Gated
  <2> QED
    BY <2>2, <2>4, <2>6 DEF Inv
<1>2. CASE PageTimer(c)
  <2>1. /\ page' = [page EXCEPT ![c] = "error"]
        /\ UNCHANGED <<connected, method, wire, saw, done>>
    BY <1>2 DEF PageTimer
  <2>2. Typed'
    BY <2>1 DEF Inv, Typed, Outcomes
  <2>3. \A d \in Calls : page'[d] = "none" => page[d] = "none"
    BY <2>1 DEF Inv, Typed
  <2>4. \A d \in Calls : WireOf(d)'
    BY <2>1, <2>3 DEF Inv, WireOf, NotMade, NotRead, AtWork, Answered, Gated
  <2> QED
    BY <2>2, <2>4 DEF Inv
<1> QED
  BY <1>1, <1>2

\* The answer leaves the wire.
LEMMA AnswerStep ==
    ASSUME Inv, NEW c \in Calls, AnswerArrives(c)
    PROVE  Inv'
<1>1. /\ wire[c] \in {"value", "empty", "error", "lost"}
      /\ wire' = [wire EXCEPT ![c] = "none"]
      /\ UNCHANGED <<connected, method, saw, done>>
      /\ \/ page' = page
         \/ page[c] = "pending" /\ \E w \in Outcomes \ {"none"} : page' = [page EXCEPT ![c] = w]
  BY DEF AnswerArrives, Settled, Moves, Inv, Typed, Outcomes
<1>2. Typed'
  BY <1>1 DEF Inv, Typed, Outcomes, Places, AtWorker
<1>3. /\ \A d \in Calls : page'[d] = "none" => page[d] = "none"
      /\ wire'[c] = "none" /\ \A d \in Calls : d # c => wire'[d] = wire[d]
  BY <1>1 DEF Inv, Typed
<1>4. \A d \in Calls : WireOf(d)'
  BY <1>1, <1>3 DEF Inv, WireOf, NotMade, NotRead, AtWork, Answered, Gated, AtWorker
<1> QED
  BY <1>2, <1>4 DEF Inv

\* The handler looks at the list of connected sites.
LEMMA ReadStep ==
    ASSUME Inv, NEW c \in Calls, HandlerReads(c)
    PROVE  Inv'
<1>1. /\ wire[c] = "asked" /\ wire' = [wire EXCEPT ![c] = "handled"]
      /\ saw' = [saw EXCEPT ![c] = {connected}]
      /\ UNCHANGED <<connected, page, method, done>>
  BY DEF HandlerReads, Moves
<1>2. Typed'
  BY <1>1 DEF Inv, Typed, Places, AtWorker
<1>3. /\ wire'[c] = "handled" /\ saw'[c] = {connected}
      /\ \A d \in Calls : d # c => wire'[d] = wire[d] /\ saw'[d] = saw[d]
  BY <1>1 DEF Inv, Typed
<1>4. page[c] # "none" /\ c \notin done
  BY <1>1 DEF Inv, WireOf, NotMade, NotRead
<1>5. WireOf(c)'
  BY <1>1, <1>3, <1>4 DEF WireOf, NotMade, NotRead, AtWork, Answered
<1>6. \A d \in Calls : d # c => WireOf(d)'
  BY <1>1, <1>3 DEF Inv, WireOf, NotMade, NotRead, AtWork, Answered, Gated
<1> QED
  BY <1>2, <1>5, <1>6 DEF Inv

\* The steps of the worker that move a call: into the queue, to the user, to the
\* node, or out with an error.
LEMMA WorkerSteps ==
    ASSUME Inv, NEW c \in Calls,
           \/ Refuses(c) \/ QueuesForUnlock(c) \/ Starts(c) \/ DrainTakes(c)
           \/ Approved(c) \/ Ends(c)
    PROVE  Inv'
<1>1. /\ wire[c] \in AtWorker \ {"asked"}
      /\ UNCHANGED <<connected, page, method, saw, done>>
  BY DEF Refuses, QueuesForUnlock, Starts, DrainTakes, Approved, Ends, AtWorker
<1>2. page[c] # "none" /\ saw[c] # {} /\ c \notin done
  BY <1>1 DEF Inv, WireOf, NotMade, AtWork, AtWorker
<1>3. CASE Refuses(c) \/ Ends(c)
  <2>1. Moves(c, "error") /\ wire'[c] = "error"
    BY <1>3, Wired DEF Refuses, Ends
  <2>2. WireOf(c)'
    BY <1>1, <1>2, <2>1 DEF WireOf, NotMade, NotRead, AtWork, Answered, AtWorker
  <2> QED
    BY <1>1, <2>1, <2>2, MovesOnly DEF Places
<1>4. CASE QueuesForUnlock(c) \/ Starts(c) \/ DrainTakes(c) \/ Approved(c)
  <2>1. PICK to \in {"queued", "approving", "working"} : Moves(c, to)
    BY <1>4 DEF QueuesForUnlock, Starts, DrainTakes, Approved
  <2>2. Gated(c) => TRUE \in saw[c]
    <3>1. CASE QueuesForUnlock(c) \/ Starts(c)
      BY <3>1 DEF QueuesForUnlock, Starts, NeedsKey, NeedsSite, Gated
    <3>2. CASE DrainTakes(c) \/ Approved(c)
      BY <3>2 DEF DrainTakes, Approved, Inv, WireOf, AtWork
    <3> QED
      BY <1>4, <3>1, <3>2
  <2>3. wire'[c] = to
    BY <2>1, Wired
  <2>4. WireOf(c)'
    BY <1>1, <1>2, <2>2, <2>3 DEF WireOf, NotMade, NotRead, AtWork, Answered, Gated
  <2> QED
    BY <1>1, <2>1, <2>4, MovesOnly DEF Places, AtWorker
<1> QED
  BY <1>3, <1>4

\* A call is done and its answer on its way.
LEMMA DoneStep ==
    ASSUME Inv, NEW c \in Calls, Accounts(c) \/ ChainCall(c) \/ Works(c)
    PROVE  /\ Inv'
           /\ saw[c] # {} /\ c \notin done /\ done' = done \cup {c}
           /\ connected' \in {connected, TRUE}
           /\ UNCHANGED <<page, method, saw>>
<1>1. /\ wire[c] \in {"handled", "working"} /\ done' = done \cup {c}
      /\ UNCHANGED <<page, method, saw>>
  BY DEF Accounts, ChainCall, Works
<1>2. connected' \in {connected, TRUE}
  <2>1. CASE Accounts(c) \/ ChainCall(c)
    BY <2>1 DEF Accounts, ChainCall
  <2>2. CASE Works(c)
    <3>1. connected' = (connected \/ method[c] = "connect")
      BY <2>2 DEF Works
    <3>2. connected \in BOOLEAN
      BY DEF Inv, Typed
    <3> QED
      BY <3>1, <3>2
  <2> QED
    BY <2>1, <2>2
<1>3. page[c] # "none" /\ saw[c] # {} /\ c \notin done
  BY <1>1 DEF Inv, WireOf, NotMade, AtWork, AtWorker
<1>4. \E to \in {"value", "empty"} :
        wire' = [wire EXCEPT ![c] = to] /\ (to = "value" /\ Gated(c) => TRUE \in saw[c])
  <2>1. CASE Accounts(c)
    BY <2>1 DEF Accounts, Moves
  <2>2. CASE ChainCall(c)
    BY <2>2 DEF ChainCall, Moves, Gated
  <2>3. CASE Works(c)
    BY <2>3 DEF Works, Moves, Inv, WireOf, AtWork
  <2> QED
    BY <2>1, <2>2, <2>3
<1>5. PICK to \in {"value", "empty"} :
        wire' = [wire EXCEPT ![c] = to] /\ (to = "value" /\ Gated(c) => TRUE \in saw[c])
  BY <1>4
<1>6. connected' \in BOOLEAN
  BY <1>2 DEF Inv, Typed
<1>7. Typed'
  BY <1>1, <1>5, <1>6 DEF Inv, Typed, Places
<1>8. wire'[c] = to /\ \A d \in Calls : d # c => wire'[d] = wire[d]
  BY <1>5 DEF Inv, Typed
<1>9. WireOf(c)'
  BY <1>1, <1>3, <1>5, <1>8 DEF WireOf, NotMade, NotRead, AtWork, Answered, Gated, AtWorker
<1>10. \A d \in Calls : d # c => WireOf(d)'
  BY <1>1, <1>8 DEF Inv, WireOf, NotMade, NotRead, AtWork, Answered, Gated
<1> QED
  BY <1>1, <1>2, <1>3, <1>7, <1>9, <1>10 DEF Inv

\* The active account changes or the worker stops: calls come out of the worker without an
\* answer, and no call changes otherwise.
LEMMA CallsLost ==
    ASSUME Inv, NEW to \in {"error", "lost"}, NEW S \in SUBSET (AtWorker \ {"asked"}),
           wire' = [c \in Calls |-> IF wire[c] \in S THEN to ELSE wire[c]],
           UNCHANGED <<connected, page, method, saw, done>>
    PROVE  Inv'
<1>1. Typed'
  BY DEF Inv, Typed, Places
<1>2. \A c \in Calls : wire'[c] = IF wire[c] \in S THEN to ELSE wire[c]
  OBVIOUS
<1>3. ASSUME NEW c \in Calls PROVE WireOf(c)'
  <2>1. NotMade(c)'
    BY <1>2, <1>3 DEF Inv, WireOf, NotMade, AtWorker
  <2>2. NotRead(c)' /\ AtWork(c)' /\ Answered(c)'
    BY <1>2, <1>3 DEF Inv, WireOf, NotRead, AtWork, Answered, Gated, AtWorker
  <2> QED
    BY <2>1, <2>2 DEF WireOf
<1> QED
  BY <1>1, <1>3 DEF Inv

LEMMA WalletSteps ==
    ASSUME Inv,
           \/ DrainStops \/ Locks \/ SwitchesAccount \/ Unlocks \/ Disconnects
           \/ WorkerIsReplaced \/ UNCHANGED bridgeVars
    PROVE  Inv'
<1>1. CASE SwitchesAccount
  BY <1>1, CallsLost DEF SwitchesAccount, AtWorker
<1>2. CASE WorkerIsReplaced
  BY <1>2, CallsLost DEF WorkerIsReplaced
<1>3. CASE DrainStops \/ Locks \/ Unlocks \/ Disconnects \/ UNCHANGED bridgeVars
  <2>1. connected' \in BOOLEAN /\ UNCHANGED <<page, method, wire, saw, done>>
    BY <1>3 DEF DrainStops, Locks, Unlocks, Disconnects, bridgeVars, Inv, Typed
  <2> QED
    BY <2>1 DEF Inv, Typed, WireOf, NotMade, NotRead, AtWork, Answered, Gated
<1> QED
  BY <1>1, <1>2, <1>3

LEMMA ReloadStep ==
    ASSUME Inv, PageReloads
    PROVE  Inv'
<1>1. /\ page' = [c \in Calls |-> IF page[c] = "pending" THEN "gone" ELSE page[c]]
      /\ UNCHANGED <<connected, method, wire, saw, done>>
  BY DEF PageReloads
<1>2. Typed'
  BY <1>1 DEF Inv, Typed, Outcomes
<1>3. \A c \in Calls : page'[c] = "none" => page[c] = "none"
  BY <1>1
<1>4. \A c \in Calls : WireOf(c)'
  BY <1>1, <1>3 DEF Inv, WireOf, NotMade, NotRead, AtWork, Answered, Gated
<1> QED
  BY <1>2, <1>4 DEF Inv

LEMMA NextKeepsInv ==
    ASSUME Inv, [BridgeNext]_bridgeVars
    PROVE  Inv'
<1>1. ASSUME NEW c \in Calls, SendToExtension(c) \/ PageTimer(c) PROVE Inv'
  BY <1>1, PageSteps
<1>2. ASSUME NEW c \in Calls, AnswerArrives(c) PROVE Inv'
  BY <1>2, AnswerStep
<1>3. ASSUME NEW c \in Calls, HandlerReads(c) PROVE Inv'
  BY <1>3, ReadStep
<1>4. ASSUME NEW c \in Calls, \/ Refuses(c) \/ QueuesForUnlock(c) \/ Starts(c)
                              \/ DrainTakes(c) \/ Approved(c) \/ Ends(c)
      PROVE Inv'
  BY <1>4, WorkerSteps
<1>5. ASSUME NEW c \in Calls, Accounts(c) \/ ChainCall(c) \/ Works(c) PROVE Inv'
  BY <1>5, DoneStep
<1> QED
  BY <1>1, <1>2, <1>3, <1>4, <1>5, WalletSteps, ReloadStep DEF BridgeNext

-----------------------------------------------------------------------------
(***************************************************************************)
(* Every step is one of the promise, or none.                              *)
(***************************************************************************)
\* The calls that only a connected site gets a value for stay the same.

LEMMA AnswerTells ==
    ASSUME Inv, NEW c \in Calls, AnswerArrives(c)
    PROVE  Promise!Tells(c) \/ Promise!Fails(c) \/ UNCHANGED Promise!promiseVars
<1> DEFINE what == IF wire[c] = "lost" THEN "error" ELSE wire[c]
<1>1. /\ wire[c] \in {"value", "empty", "error", "lost"}
      /\ page' = [page EXCEPT ![c] = IF @ = "pending" THEN what ELSE @]
      /\ UNCHANGED <<connected, method, saw, done>>
  BY DEF AnswerArrives, Settled
<1>2. CASE page[c] # "pending"
  BY <1>1, <1>2 DEF Inv, Typed, Promise!promiseVars
<1>3. CASE page[c] = "pending" /\ wire[c] \in {"value", "empty"}
  <2>1. page' = [page EXCEPT ![c] = wire[c]]
    BY <1>1, <1>3 DEF Inv, Typed
  <2>2. c \in done /\ (wire[c] = "value" /\ Gated(c) => TRUE \in saw[c])
    BY <1>3 DEF Inv, WireOf, Answered
  <2>3. Promise!Tells(c)
    BY <1>1, <1>3, <2>1, <2>2 DEF Promise!Tells, Gated
  <2> QED
    BY <2>3
<1>4. CASE page[c] = "pending" /\ wire[c] \in {"error", "lost"}
  <2>1. page' = [page EXCEPT ![c] = "error"]
    BY <1>1, <1>4 DEF Inv, Typed
  <2> QED
    BY <1>1, <1>4, <2>1 DEF Promise!Fails
<1> QED
  BY <1>1, <1>2, <1>3, <1>4

LEMMA StepImplements ==
    ASSUME Inv, [BridgeNext]_bridgeVars
    PROVE  [Promise!Next]_(Promise!promiseVars)
<1>1. ASSUME NEW c \in Calls, SendToExtension(c) PROVE Promise!Call(c)
  BY <1>1 DEF SendToExtension, Promise!Call
<1>2. ASSUME NEW c \in Calls, PageTimer(c) PROVE Promise!Fails(c)
  BY <1>2 DEF PageTimer, Promise!Fails
<1>3. ASSUME NEW c \in Calls, AnswerArrives(c)
      PROVE  Promise!Tells(c) \/ Promise!Fails(c) \/ UNCHANGED Promise!promiseVars
  BY <1>3, AnswerTells
<1>4. ASSUME NEW c \in Calls, HandlerReads(c) PROVE Promise!Looks(c)
  <2>1. wire[c] = "asked" /\ saw[c] = {} /\ page[c] # "none"
    BY <1>4 DEF HandlerReads, Inv, WireOf, NotMade, NotRead
  <2> QED
    BY <1>4, <2>1 DEF HandlerReads, Promise!Looks
<1>5. ASSUME NEW c \in Calls, \/ Refuses(c) \/ QueuesForUnlock(c) \/ Starts(c)
                              \/ DrainTakes(c) \/ Approved(c) \/ Ends(c)
      PROVE  UNCHANGED Promise!promiseVars
  BY <1>5 DEF Refuses, QueuesForUnlock, Starts, DrainTakes, Approved, Ends, Promise!promiseVars
<1>6. ASSUME NEW c \in Calls, Accounts(c) \/ ChainCall(c) \/ Works(c) PROVE Promise!Does(c)
  BY <1>6, DoneStep DEF Promise!Does
<1>7. CASE PageReloads
  <2>1. Promise!Leaves
    BY <1>7 DEF PageReloads, Promise!Leaves
  <2> QED
    BY <2>1 DEF Promise!Next
<1>8. CASE DrainStops \/ Locks \/ SwitchesAccount \/ Unlocks \/ WorkerIsReplaced
  BY <1>8 DEF DrainStops, Locks, SwitchesAccount, Unlocks, WorkerIsReplaced, Promise!promiseVars
<1>9. CASE Disconnects
  <2>1. connected' = ~connected
    BY <1>9 DEF Disconnects, Inv, Typed
  <2>2. Promise!Changes
    BY <1>9, <2>1 DEF Disconnects, Promise!Changes
  <2> QED
    BY <2>2 DEF Promise!Next
<1>10. CASE UNCHANGED bridgeVars
  BY <1>10 DEF bridgeVars, Promise!promiseVars
<1> QED
  BY <1>1, <1>2, <1>3, <1>4, <1>5, <1>6, <1>7, <1>8, <1>9, <1>10 DEF BridgeNext, Promise!Next

LEMMA InitImplements ==
    ASSUME BridgeInit
    PROVE  Inv /\ Promise!Init
<1>1. Typed
  BY DEF BridgeInit, Typed, Outcomes, Places
<1>2. \A c \in Calls : WireOf(c)
  BY DEF BridgeInit, WireOf, NotMade, NotRead, AtWork, Answered, AtWorker
<1>3. Promise!Init
  BY DEF BridgeInit, Promise!Init
<1> QED
  BY <1>1, <1>2, <1>3 DEF Inv

\* Whatever the timers of the page, locks with calls under way, switches of account,
\* restarts, reloads and late answers do,
\* a call of window.boing.request is settled at most once, with a value only after
\* the worker did the work and, where a connected site is needed, saw one.
THEOREM BridgeImplements == BridgeSpec => ImplementsCallPromise
<1>1. BridgeInit => Inv /\ Promise!Init
  BY InitImplements
<1>2. Inv /\ [BridgeNext]_bridgeVars => Inv'
  BY NextKeepsInv
<1>3. Inv /\ [BridgeNext]_bridgeVars => [Promise!Next]_(Promise!promiseVars)
  BY StepImplements
<1> QED
  BY <1>1, <1>2, <1>3, PTL DEF BridgeSpec, ImplementsCallPromise, Promise!Spec

-----------------------------------------------------------------------------
(***************************************************************************)
(* The unlock queue.  Ids are shared between pages, and a timeout removes  *)
(* the first request that has its id.  That is its own because the armed   *)
(* timeouts are those of the queue, in its order: the first to fire is the *)
(* first of the queue.  A request that left the queue is with the one drain*)
(* that took it, or was answered at that moment.                           *)
(***************************************************************************)
Standings ==
  {"idle", "reading", "queued", "handled", "drained", "answered", "timedOut", "rejected", "lost"}
Unanswered == {"idle", "reading", "queued", "handled", "drained", "lost"}

\* The queue holds messages, and every message and every drain is somewhere.
QueueTyped ==
  /\ pendingUnlockQueue \in Seq(Messages)
  /\ standing \in [Messages -> Standings]
  /\ replies \in [Messages -> Nat]
  /\ item = [d \in Drains |-> item[d]]
  /\ drain = [d \in Drains |-> drain[d]]

\* What was answered by nobody so far, and what by somebody.
RepliesCounted ==
  \A r \in Messages : replies[r] = IF standing[r] \in Unanswered THEN 0 ELSE 1

\* The item a drain works on left the queue unanswered, and nobody else has it.
DrainsApart ==
  \A d \in Drains : drain[d] = "working" =>
    /\ item[d] \in Messages
    /\ standing[item[d]] = "drained"
    /\ \A e \in Drains : e # d /\ drain[e] = "working" => item[e] # item[d]

QueueInv == QueueTyped /\ TimersFollowQueue /\ RepliesCounted /\ DrainsApart

-----------------------------------------------------------------------------
(***************************************************************************)
(* Sequences without repetition.                                           *)
(***************************************************************************)
Distinct(s) == \A i, j \in DOMAIN s : s[i] = s[j] => i = j
In(s) == {s[i] : i \in DOMAIN s}

\* What is not there is not removed.
LEMMA AbsentStays ==
  ASSUME NEW s, NEW e, \A i \in 1 .. Len(s) : s[i] # e
  PROVE  RemoveFirst(s, e) = s
BY DEF RemoveFirst

\* The first of a sequence is the first that is like it.
LEMMA FirstIsFound ==
  ASSUME NEW S, NEW s \in Seq(S), s # <<>>, NEW I \in SUBSET (1 .. Len(s)), 1 \in I
  PROVE  Min(I) = 1
<1>1. \A i \in I : 1 <= i
  OBVIOUS
<1>2. \A x \in I : (\A y \in I : x <= y) => x = 1
  <2> SUFFICES ASSUME NEW x \in I, \A y \in I : x <= y PROVE x = 1
    OBVIOUS
  <2>1. x <= 1 /\ 1 <= x /\ x \in Int
    BY <1>1
  <2> QED BY <2>1
<1> QED
  BY <1>1, <1>2 DEF Min

\* To remove the first of a sequence leaves its tail.
LEMMA FirstIsRemoved ==
  ASSUME NEW S, NEW s \in Seq(S), s # <<>>
  PROVE  RemoveAt(s, 1) = Tail(s) /\ RemoveFirst(s, Head(s)) = Tail(s)
<1>1. SubSeq(s, 1, 1 - 1) = <<>> /\ SubSeq(s, 1 + 1, Len(s)) = Tail(s)
  OBVIOUS
<1>2. Tail(s) \in Seq(S) /\ <<>> \o Tail(s) = Tail(s)
  OBVIOUS
<1>3. RemoveAt(s, 1) = Tail(s)
  BY <1>1, <1>2 DEF RemoveAt
<1>4. 1 \in 1 .. Len(s) /\ s[1] = Head(s)
  OBVIOUS
<1>5. SelectInSeq(s, LAMBDA v : v = Head(s)) = 1
  <2> DEFINE I == {i \in 1 .. Len(s) : s[i] = Head(s)}
  <2>1. 1 \in I
    BY <1>4
  <2>2. Min(I) = 1
    BY <2>1, FirstIsFound
  <2> QED
    BY <2>1, <2>2 DEF SelectInSeq
<1> QED
  BY <1>3, <1>4, <1>5 DEF RemoveFirst

\* The tail has the rest, and not the first.
LEMMA TailOfDistinct ==
  ASSUME NEW S, NEW s \in Seq(S), s # <<>>, Distinct(s)
  PROVE  /\ Tail(s) \in Seq(S) /\ Distinct(Tail(s))
         /\ Head(s) \in S
         /\ In(Tail(s)) = In(s) \ {Head(s)}
         /\ \A i \in 1 .. Len(Tail(s)) : Tail(s)[i] # Head(s)
<1>1. /\ Tail(s) \in Seq(S) /\ Len(Tail(s)) = Len(s) - 1
      /\ \A i \in 1 .. Len(s) - 1 : Tail(s)[i] = s[i + 1]
      /\ Head(s) = s[1] /\ Head(s) \in S /\ Len(s) \in Nat /\ Len(s) >= 1
      /\ DOMAIN s = 1 .. Len(s) /\ DOMAIN Tail(s) = 1 .. Len(s) - 1
  OBVIOUS
<1>2. Distinct(Tail(s))
  BY <1>1 DEF Distinct
<1>3. \A i \in 1 .. Len(Tail(s)) : Tail(s)[i] # Head(s)
  BY <1>1 DEF Distinct
<1>4. \A x \in In(s) \ {Head(s)} : x \in In(Tail(s))
  <2> SUFFICES ASSUME NEW i \in 1 .. Len(s), s[i] # Head(s) PROVE s[i] \in In(Tail(s))
    BY <1>1 DEF In
  <2>1. i - 1 \in DOMAIN Tail(s) /\ Tail(s)[i - 1] = s[i]
    BY <1>1
  <2> QED BY <2>1 DEF In
<1>5. In(Tail(s)) \subseteq In(s) \ {Head(s)}
  BY <1>1, <1>3 DEF In
<1> QED
  BY <1>1, <1>2, <1>3, <1>4, <1>5

LEMMA AppendOfDistinct ==
  ASSUME NEW S, NEW s \in Seq(S), Distinct(s), NEW e \in S, e \notin In(s)
  PROVE  Append(s, e) \in Seq(S) /\ Distinct(Append(s, e)) /\ In(Append(s, e)) = In(s) \cup {e}
<1> DEFINE t == Append(s, e)
<1>1. /\ t \in Seq(S) /\ Len(t) = Len(s) + 1 /\ Len(s) \in Nat
      /\ DOMAIN t = 1 .. Len(s) + 1 /\ DOMAIN s = 1 .. Len(s)
      /\ t[Len(s) + 1] = e /\ \A i \in 1 .. Len(s) : t[i] = s[i]
  OBVIOUS
<1> HIDE DEF t
<1>2. \A i \in DOMAIN s : s[i] # e
  BY DEF In
<1>3. Distinct(t)
  BY <1>1, <1>2 DEF Distinct
<1>4. In(t) = In(s) \cup {e}
  BY <1>1 DEF In
<1> QED
  BY <1>1, <1>3, <1>4 DEF t

(***************************************************************************)
(* Operators of the queue, where timeouts follow it.                       *)
(***************************************************************************)
LEMMA QueueIsIts ==
  ASSUME QueueInv
  PROVE  /\ pendingUnlockQueue \in Seq(Messages) /\ Distinct(pendingUnlockQueue)
         /\ timers = pendingUnlockQueue
         /\ Queued = In(pendingUnlockQueue) /\ Queued \subseteq Messages
         /\ \A r \in Messages : standing[r] = "queued" <=> r \in Queued
BY DEF QueueInv, QueueTyped, TimersFollowQueue, Distinct, In, Queued

\* Messages that move to a standing, answered or not, and nothing else.
LEMMA Moved ==
  ASSUME QueueInv, NEW rs, NEW to \in Standings, Move(rs, to)
  PROVE  /\ standing' \in [Messages -> Standings]
         /\ \A r \in Messages : standing'[r] = IF r \in rs THEN to ELSE standing[r]
BY DEF QueueInv, QueueTyped, Move

LEMMA Replied ==
  ASSUME QueueInv, NEW rs, NEW to \in Standings \ Unanswered, Move(rs, to), Reply(rs),
         \A r \in rs : standing[r] \in Unanswered
  PROVE  replies' \in [Messages -> Nat] /\ RepliesCounted'
<1>1. \A r \in Messages : replies'[r] = IF r \in rs THEN replies[r] + 1 ELSE replies[r]
  BY DEF Reply
<1>2. replies' \in [Messages -> Nat]
  BY DEF Reply, QueueInv, QueueTyped
<1>3. RepliesCounted'
  BY <1>1, Moved DEF QueueInv, RepliesCounted
<1> QED
  BY <1>2, <1>3

LEMMA Unreplied ==
  ASSUME QueueInv, NEW rs, NEW to \in Unanswered, Move(rs, to), UNCHANGED replies,
         \A r \in Messages : r \in rs => standing[r] \in Unanswered
  PROVE  replies' \in [Messages -> Nat] /\ RepliesCounted'
<1>1. to \in Standings
  BY DEF Unanswered, Standings
<1> QED
  BY <1>1, Moved DEF QueueInv, QueueTyped, RepliesCounted

\* A message that is not at a drain moves while the drains do not.
LEMMA DrainsKeepTheirs ==
  ASSUME QueueInv, NEW rs, NEW to \in Standings, Move(rs, to), UNCHANGED <<drain, item>>,
         \A r \in Messages : r \in rs => standing[r] # "drained"
  PROVE  DrainsApart'
BY Moved DEF QueueInv, DrainsApart

\* The queue is emptied, and every timeout in it is cleared.
LEMMA AllRejected ==
  ASSUME QueueInv, RejectAllPendingUnlockRequests, UNCHANGED <<drain, item>>
  PROVE  QueueInv'
<1>1. Move(Queued, "rejected") /\ Reply(Queued) /\ pendingUnlockQueue' = <<>>
  BY DEF RejectAllPendingUnlockRequests
<1>2. timers' = <<>>
  <2> DEFINE left == {i \in DOMAIN timers : timers[i] \notin Queued}
  <2>1. left = {}
    BY QueueIsIts DEF In
  <2>2. Cardinality(left) = 0
    BY <2>1, FS_EmptySet
  <2> DEFINE Nth(n) == CHOOSE i \in left : Cardinality({j \in left : j <= i}) = n
  <2>3. TimersWithout(Queued) = [n \in 1 .. Cardinality(left) |-> timers[Nth(n)]]
    BY DEF TimersWithout
  <2> HIDE DEF Nth, left
  <2>4. TimersWithout(Queued) = <<>>
    BY <2>2, <2>3
  <2> QED BY <2>4 DEF RejectAllPendingUnlockRequests
<1>3. "rejected" \in Standings \ Unanswered
  BY DEF Standings, Unanswered
<1>4. \A r \in Queued : standing[r] = "queued"
  BY QueueIsIts
<1>5. standing' \in [Messages -> Standings] /\ replies' \in [Messages -> Nat] /\ RepliesCounted'
  BY <1>1, <1>3, <1>4, Moved, Replied DEF Unanswered
<1>6. DrainsApart'
  BY <1>1, <1>3, <1>4, DrainsKeepTheirs
<1>7. TimersFollowQueue'
  <2>1. Queued' = {}
    BY <1>1 DEF Queued
  <2>2. \A r \in Messages : standing'[r] # "queued"
    BY <1>1, <1>3, Moved, QueueIsIts
  <2> QED BY <1>1, <1>2, <2>1, <2>2 DEF TimersFollowQueue
<1>8. QueueTyped'
  BY <1>1, <1>5 DEF QueueInv, QueueTyped
<1> QED
  BY <1>5, <1>6, <1>7, <1>8 DEF QueueInv

-----------------------------------------------------------------------------
(***************************************************************************)
(* The steps.                                                              *)
(***************************************************************************)
\* A message outside the queue and the drains moves on to another such place.
LEMMA MovesOutside ==
  ASSUME QueueInv, NEW r \in Messages, NEW to \in Standings, Move({r}, to),
         standing[r] \in {"idle", "reading", "handled"}, to # "queued",
         UNCHANGED <<drain, item, pendingUnlockQueue, timers>>,
         replies' \in [Messages -> Nat], RepliesCounted'
  PROVE  QueueInv'
<1>1. DrainsApart'
  BY DrainsKeepTheirs
<1>2. TimersFollowQueue'
  BY Moved DEF QueueInv, TimersFollowQueue, Queued
<1> QED
  BY <1>1, <1>2, Moved DEF QueueInv, QueueTyped

LEMMA HandlerKeeps ==
  ASSUME QueueInv, NEW r \in Messages,
         ReceiveRequest(r) \/ HandleRequest(r) \/ AnswerRequest(r)
  PROVE  QueueInv'
<1>1. CASE ReceiveRequest(r)
  BY <1>1, MovesOutside, Unreplied DEF ReceiveRequest, lock, Standings, Unanswered
<1>2. CASE HandleRequest(r)
  BY <1>2, MovesOutside, Unreplied DEF HandleRequest, lock, Standings, Unanswered
<1>3. CASE AnswerRequest(r)
  BY <1>3, MovesOutside, Replied DEF AnswerRequest, lock, Standings, Unanswered
<1> QED
  BY <1>1, <1>2, <1>3

LEMMA QueueingKeeps ==
  ASSUME QueueInv, NEW r \in Messages, QueueForUnlock(r)
  PROVE  QueueInv'
<1>1. /\ standing[r] = "reading" /\ Move({r}, "queued")
      /\ timers' = Append(timers, r)
      /\ pendingUnlockQueue' = Append(pendingUnlockQueue, r)
      /\ UNCHANGED <<drain, item, replies>>
  BY DEF QueueForUnlock, lock
<1>2. "queued" \in Standings /\ "queued" \in Unanswered /\ "reading" \in Unanswered
  BY DEF Standings, Unanswered
<1>3. DrainsApart' /\ replies' \in [Messages -> Nat] /\ RepliesCounted'
  BY <1>1, <1>2, DrainsKeepTheirs, Unreplied
<1>4. r \notin In(pendingUnlockQueue)
  BY <1>1, QueueIsIts
<1>5. /\ pendingUnlockQueue' \in Seq(Messages) /\ Distinct(pendingUnlockQueue')
      /\ In(pendingUnlockQueue') = Queued \cup {r}
  BY <1>1, <1>4, QueueIsIts, AppendOfDistinct
<1>6. TimersFollowQueue'
  <2>1. Queued' = Queued \cup {r}
    BY <1>5 DEF Queued, In
  <2>2. \A x \in Messages : standing'[x] = "queued" <=> x \in Queued'
    BY <1>1, <1>2, <2>1, Moved, QueueIsIts
  <2> QED BY <1>1, <1>5, <2>2, QueueIsIts DEF TimersFollowQueue, Distinct
<1>7. QueueTyped'
  BY <1>1, <1>2, <1>3, <1>5, Moved DEF QueueInv, QueueTyped
<1> QED
  BY <1>3, <1>6, <1>7 DEF QueueInv

\* The first message leaves the queue together with its timeout.
LEMMA HeadLeaves ==
  ASSUME QueueInv, pendingUnlockQueue # <<>>,
         NEW to \in Standings, to # "queued", Move({Head(pendingUnlockQueue)}, to),
         pendingUnlockQueue' = Tail(pendingUnlockQueue),
         timers' = Tail(pendingUnlockQueue)
  PROVE  /\ pendingUnlockQueue' \in Seq(Messages) /\ TimersFollowQueue'
         /\ Head(pendingUnlockQueue) \in Messages
         /\ standing[Head(pendingUnlockQueue)] = "queued"
<1> DEFINE q == pendingUnlockQueue
<1>1. /\ Tail(q) \in Seq(Messages) /\ Distinct(Tail(q))
      /\ Head(q) \in Messages /\ In(Tail(q)) = Queued \ {Head(q)}
  BY QueueIsIts, TailOfDistinct
<1>2. Head(q) \in Queued
  <2>1. 1 \in DOMAIN q /\ Head(q) = q[1]
    BY QueueIsIts
  <2> QED BY <2>1 DEF Queued
<1>3. Queued' = Queued \ {Head(q)}
  BY <1>1 DEF Queued, In
<1>4. \A x \in Messages : standing'[x] = "queued" <=> x \in Queued'
  BY <1>3, Moved, QueueIsIts
<1>5. TimersFollowQueue'
  BY <1>1, <1>4 DEF TimersFollowQueue, Distinct
<1> QED
  BY <1>1, <1>2, <1>5, QueueIsIts

\* The timeout that fires is that of the first in the queue, which is the first
\* with its id: the one it was armed for.
LEMMA TimeoutFindsItsOwn ==
  ASSUME QueueInv, timers # <<>>
  PROVE  /\ FirstWithId(IdOf[Head(timers)]) = 1
         /\ pendingUnlockQueue # <<>> /\ pendingUnlockQueue[1] = Head(timers)
<1> DEFINE q == pendingUnlockQueue
           I == {i \in 1 .. Len(q) : IdOf[q[i]] = IdOf[Head(q)]}
<1>1. q \in Seq(Messages) /\ q # <<>> /\ timers = q
  BY QueueIsIts
<1>2. 1 \in 1 .. Len(q) /\ q[1] = Head(q)
  BY <1>1
<1>3. 1 \in I
  BY <1>2
<1>4. Min(I) = 1
  BY <1>1, <1>3, FirstIsFound
<1>5. FirstWithId(IdOf[Head(q)]) = 1
  BY <1>3, <1>4 DEF FirstWithId, SelectInSeq
<1> QED
  BY <1>1, <1>2, <1>5

LEMMA TimeoutKeeps ==
  ASSUME QueueInv, UnlockTimesOut
  PROVE  QueueInv' /\ standing[Head(timers)] = "queued" /\ Move({Head(timers)}, "timedOut")
<1> DEFINE q == pendingUnlockQueue
           h == Head(q)
<1>1. timers # <<>> /\ timers = q /\ q # <<>> /\ q \in Seq(Messages) /\ Distinct(q) /\ q[1] = h
  BY QueueIsIts, TimeoutFindsItsOwn DEF UnlockTimesOut
<1>2. /\ pendingUnlockQueue' = RemoveAt(q, 1)
      /\ timers' = RemoveFirst(Tail(q), h)
      /\ Move({h}, "timedOut") /\ Reply({h})
      /\ UNCHANGED <<drain, item>>
  <2>1. FirstWithId(IdOf[Head(timers)]) = 1 /\ Head(timers) = h /\ 1 # 0
    BY <1>1, TimeoutFindsItsOwn
  <2> QED BY <1>1, <2>1 DEF UnlockTimesOut, lock
<1>3. pendingUnlockQueue' = Tail(q)
  BY <1>1, <1>2, FirstIsRemoved
<1>4. timers' = Tail(q)
  BY <1>1, <1>2, TailOfDistinct, AbsentStays
<1>5. "timedOut" \in Standings \ Unanswered /\ "queued" \in Unanswered
  BY DEF Standings, Unanswered
<1>6. pendingUnlockQueue' \in Seq(Messages) /\ TimersFollowQueue' /\ standing[h] = "queued"
  BY <1>1, <1>2, <1>3, <1>4, <1>5, HeadLeaves
<1>7. replies' \in [Messages -> Nat] /\ RepliesCounted' /\ DrainsApart'
  BY <1>2, <1>5, <1>6, Replied, DrainsKeepTheirs
<1> QED
  BY <1>1, <1>2, <1>5, <1>6, <1>7, Moved DEF QueueInv, QueueTyped

LEMMA TakingKeeps ==
  ASSUME QueueInv, NEW d \in Drains, DrainTakesItem(d)
  PROVE  QueueInv'
<1> DEFINE q == pendingUnlockQueue
           h == Head(q)
<1>1. timers = q /\ q # <<>> /\ q \in Seq(Messages)
  BY QueueIsIts DEF DrainTakesItem
<1>2. /\ drain[d] = "looping" /\ Move({h}, "drained") /\ UNCHANGED replies
      /\ pendingUnlockQueue' = Tail(q)
  BY DEF DrainTakesItem
<1>3. timers' = Tail(q)
  BY <1>1, FirstIsRemoved DEF DrainTakesItem
<1>4. "drained" \in Standings /\ "drained" \in Unanswered /\ "queued" \in Unanswered
  BY DEF Standings, Unanswered
<1>5. /\ pendingUnlockQueue' \in Seq(Messages) /\ TimersFollowQueue'
      /\ h \in Messages /\ standing[h] = "queued"
  BY <1>1, <1>2, <1>3, <1>4, HeadLeaves
<1>6. replies' \in [Messages -> Nat] /\ RepliesCounted'
  BY <1>2, <1>4, <1>5, Unreplied
<1>7. \A e \in Drains : drain[e] = "working" => item[e] # h
  BY <1>5 DEF QueueInv, DrainsApart
<1>8. CASE h \in PutBlobSessionRequests
  <2>1. UNCHANGED <<drain, item>>
    BY <1>8 DEF DrainTakesItem
  <2>2. DrainsApart'
    BY <1>2, <1>4, <1>5, <2>1, DrainsKeepTheirs
  <2> QED BY <1>2, <1>4, <1>5, <1>6, <2>1, <2>2, Moved DEF QueueInv, QueueTyped
<1>9. CASE h \notin PutBlobSessionRequests
  <2>1. drain' = [drain EXCEPT ![d] = "working"] /\ item' = [item EXCEPT ![d] = h]
    BY <1>9 DEF DrainTakesItem
  <2>2. /\ drain'[d] = "working" /\ item'[d] = h
        /\ \A e \in Drains : e # d => drain'[e] = drain[e] /\ item'[e] = item[e]
    BY <2>1 DEF QueueInv, QueueTyped
  <2>3. \A x \in Messages : standing'[x] = IF x = h THEN "drained" ELSE standing[x]
    BY <1>2, <1>4, Moved
  <2>4. DrainsApart'
    BY <1>5, <1>7, <2>2, <2>3 DEF QueueInv, DrainsApart
  <2> QED BY <1>2, <1>4, <1>5, <1>6, <2>1, <2>4, Moved DEF QueueInv, QueueTyped
<1> QED
  BY <1>8, <1>9

LEMMA AnsweringKeeps ==
  ASSUME QueueInv, NEW d \in Drains, DrainAnswersItem(d)
  PROVE  QueueInv'
<1>1. /\ drain[d] = "working"
      /\ drain' = [drain EXCEPT ![d] = "looping"] /\ item' = [item EXCEPT ![d] = NoRequest]
      /\ Move({item[d]}, "answered") /\ Reply({item[d]})
      /\ UNCHANGED <<pendingUnlockQueue, timers>>
  BY DEF DrainAnswersItem
<1>2. item[d] \in Messages /\ standing[item[d]] = "drained"
  BY <1>1 DEF QueueInv, DrainsApart
<1>3. "answered" \in Standings \ Unanswered /\ "drained" \in Unanswered
  BY DEF Standings, Unanswered
<1>4. replies' \in [Messages -> Nat] /\ RepliesCounted'
  BY <1>1, <1>2, <1>3, Replied
<1>5. /\ drain'[d] = "looping"
      /\ \A e \in Drains : e # d => drain'[e] = drain[e] /\ item'[e] = item[e]
  BY <1>1 DEF QueueInv, QueueTyped
<1>6. \A x \in Messages : standing'[x] = IF x = item[d] THEN "answered" ELSE standing[x]
  BY <1>1, <1>3, Moved
<1>7. DrainsApart'
  BY <1>1, <1>5, <1>6 DEF QueueInv, DrainsApart
<1>8. TimersFollowQueue'
  BY <1>1, <1>2, <1>6 DEF QueueInv, TimersFollowQueue, Queued
<1> QED
  BY <1>1, <1>3, <1>4, <1>7, <1>8, Moved DEF QueueInv, QueueTyped

\* A drain that takes or has no item moves on.
LEMMA DrainMoves ==
  ASSUME QueueInv, NEW d \in Drains, drain[d] # "working",
         NEW to, to # "working", drain' = [drain EXCEPT ![d] = to],
         UNCHANGED <<item, standing, replies, pendingUnlockQueue, timers>>
  PROVE  QueueInv'
<1>1. drain'[d] = to /\ \A e \in Drains : e # d => drain'[e] = drain[e]
  BY DEF QueueInv, QueueTyped
<1>2. DrainsApart'
  BY <1>1 DEF QueueInv, DrainsApart
<1>3. TimersFollowQueue' /\ RepliesCounted'
  BY DEF QueueInv, TimersFollowQueue, Queued, RepliesCounted
<1> QED
  BY <1>2, <1>3 DEF QueueInv, QueueTyped

LEMMA QueueUnchanged ==
  ASSUME QueueInv, UNCHANGED <<drain, item, standing, replies, pendingUnlockQueue, timers>>
  PROVE  QueueInv'
BY DEF QueueInv, QueueTyped, TimersFollowQueue, Queued, RepliesCounted, DrainsApart

LEMMA LossKeeps ==
  ASSUME QueueInv, QueueIsLost
  PROVE  QueueInv'
<1> DEFINE rs == {r \in Messages : standing[r] \in Unsettled}
<1>1. /\ Move(rs, "lost") /\ pendingUnlockQueue' = <<>> /\ timers' = <<>> /\ UNCHANGED replies
      /\ drain' = [d \in Drains |-> "idle"] /\ item' = [d \in Drains |-> NoRequest]
  BY DEF QueueIsLost
<1>2. "lost" \in Standings /\ "lost" \in Unanswered /\ \A r \in rs : standing[r] \in Unanswered
  BY DEF Standings, Unanswered, Unsettled
<1>3. replies' \in [Messages -> Nat] /\ RepliesCounted'
  BY <1>1, <1>2, Unreplied
<1>4. TimersFollowQueue'
  <2>1. \A r \in Messages : standing'[r] # "queued"
    BY <1>1, <1>2, Moved DEF Unsettled
  <2> QED BY <1>1, <2>1 DEF TimersFollowQueue, Queued
<1> QED
  BY <1>1, <1>2, <1>3, <1>4, Moved DEF QueueInv, QueueTyped, DrainsApart

LEMMA QueueStarts ==
  ASSUME QueueInit
  PROVE  QueueInv
BY DEF QueueInit, QueueInv, QueueTyped, TimersFollowQueue, Queued, RepliesCounted, DrainsApart,
       Standings, Unanswered

LEMMA QueueKeeps ==
  ASSUME QueueInv, [QueueNext]_queueVars
  PROVE  QueueInv'
<1>1. CASE UNCHANGED queueVars
  BY <1>1, QueueUnchanged DEF queueVars
<1>2. ASSUME NEW r \in Messages,
             \/ ReceiveRequest(r) \/ HandleRequest(r) \/ QueueForUnlock(r) \/ AnswerRequest(r)
      PROVE  QueueInv'
  BY <1>2, HandlerKeeps, QueueingKeeps
<1>3. ASSUME NEW d \in Drains, WalletUnlock(d)
      PROVE  QueueInv'
  BY <1>3, DrainMoves DEF WalletUnlock
<1>4. ASSUME NEW d \in Drains, DrainReadsKey(d)
      PROVE  QueueInv'
  BY <1>4, DrainMoves DEF DrainReadsKey
<1>5. ASSUME NEW d \in Drains, DrainStarts(d) \/ DrainEnds(d)
      PROVE  QueueInv'
  BY <1>5, DrainMoves DEF DrainStarts, DrainEnds
<1>6. ASSUME NEW d \in Drains, DrainTakesItem(d) \/ DrainAnswersItem(d)
      PROVE  QueueInv'
  BY <1>6, TakingKeeps, AnsweringKeeps
<1>7. ASSUME NEW w \in Windows, UnlockWindowCreated(w) \/ UnlockWindowClosed(w)
      PROVE  QueueInv'
  BY <1>7, AllRejected, QueueUnchanged DEF UnlockWindowCreated, UnlockWindowClosed, lock
<1>8. CASE ActiveAccountChanged
  BY <1>8, AllRejected DEF ActiveAccountChanged
<1>9. CASE LockWallet
  BY <1>9, QueueUnchanged DEF LockWallet
<1> QED
  BY <1>1, <1>2, <1>3, <1>4, <1>5, <1>6, <1>7, <1>8, <1>9, TimeoutKeeps, LossKeeps DEF QueueNext

LEMMA QueueInvHolds == QueueSpec => []QueueInv
BY QueueStarts, QueueKeeps, PTL DEF QueueSpec

\* Every exit from the queue clears the timeout of its own request, for any
\* number of requests, drains and windows, and whichever requests share an id.
THEOREM TimersAreTheQueue == QueueSpec => []TimersFollowQueue
<1>1. QueueInv => TimersFollowQueue
  BY DEF QueueInv
<1> QED
  BY <1>1, QueueInvHolds, PTL

\* No request is answered twice: what is taken out of the queue, by a drain, a
\* timeout, a closed window or a switch, is answered by the one that took it.
THEOREM NobodyIsAnsweredTwice == QueueSpec => []AnsweredOnce
<1>1. QueueInv => AnsweredOnce
  BY DEF QueueInv, RepliesCounted, AnsweredOnce
<1> QED
  BY <1>1, QueueInvHolds, PTL

\* A timeout looks its request up by an id that pages share, and yet finds the one
\* it was armed for, since that one is the first in the queue.
THEOREM TimeoutsHitTheirOwn == QueueSpec => OnlyOwnTimeout
<1> DEFINE Hit == \A r \in Messages :
                    standing[r] # "timedOut" /\ standing'[r] = "timedOut" => r = Head(timers)
<1>1. ASSUME QueueInv, [QueueNext]_queueVars PROVE [Hit]_queueVars
  <2> SUFFICES ASSUME QueueNext, NEW r \in Messages,
                      standing[r] # "timedOut", standing'[r] = "timedOut"
               PROVE  r = Head(timers)
    BY <1>1
  <2>1. \A rs : \A to \in Standings \ {"timedOut"} : ~Move(rs, to)
    BY Moved, <1>1
  <2>2. standing' # standing
    OBVIOUS
  <2>3. UnlockTimesOut
    BY <2>1, <2>2 DEF QueueNext, Standings, ReceiveRequest, HandleRequest, QueueForUnlock,
       AnswerRequest, WalletUnlock, DrainReadsKey, DrainStarts, DrainAnswersItem,
       UnlockWindowCreated, UnlockWindowClosed, RejectAllPendingUnlockRequests,
       ActiveAccountChanged, LockWallet, DrainTakesItem, DrainEnds, QueueIsLost
  <2>4. Move({Head(timers)}, "timedOut")
    BY <1>1, <2>3, TimeoutKeeps
  <2> QED BY <1>1, <2>4, Moved DEF Standings
<1> QED
  BY <1>1, QueueInvHolds, PTL DEF QueueSpec, OnlyOwnTimeout
=============================================================================
