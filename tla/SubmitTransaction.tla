-------------------------- MODULE SubmitTransaction --------------------------
(***************************************************************************)
(* How an approved transaction reaches the chain: buildAndSubmit of the    *)
(* wallet screens, the send half of signOrSend in the service worker, and  *)
(* the row by row bulk transfer, all of one account, over the HTTP retries *)
(* of rpcCall.                                                             *)
(*                                                                         *)
(* Between the wallet and the node there is an edge (a CDN or a proxy). It *)
(* can answer 429 or 5xx in the node's place, after the node took the      *)
(* transaction, before it did, or while the request is still on its way.   *)
(* The account is shared: another device may land transactions as well. A  *)
(* read of the nonce may be served by a node that is one block behind.     *)
(***************************************************************************)
EXTENDS Naturals, FiniteSets

CONSTANTS Sends,        \* things the user approved once: sends, rows of a batch
          RowNo,        \* its row in the bulk transfer, 0 if it is not a row
          MaxAttempts,  \* RPC_MAX_ATTEMPTS
          MaxNonce      \* bound: blocks this account's transactions may fill

ASSUME MaxAttemptsAssumption == MaxAttempts \in Nat \ {0}
ASSUME MaxNonceAssumption == MaxNonce \in Nat
ASSUME RowAssumption ==
    /\ RowNo \in [Sends -> Nat]
    /\ \A s, t \in Sends : RowNo[s] = RowNo[t] /\ RowNo[s] > 0 => s = t

VARIABLES
    chainNonce,  \* the account's nonce on chain: its included transactions
    mempool,     \* transactions the node accepted and has not included
    included,    \* history: transactions in a block
    accepted,    \* history: transactions the node ever accepted
    stray,       \* requests nobody waits for that may still reach the node
    kind,        \* which code submits each send
    stage,       \* where it is
    nonce,       \* the nonce it was last signed with
    attempt,     \* which HTTP attempt of the submission is out
    resigned,    \* sends signed a second time after stale_nonce
    wire,        \* the submission's request, or the node's verdict to it
    unanswered   \* history: sends that lost an answer to a submission

node == <<chainNonce, mempool, included, accepted>>
wallet == <<kind, stage, nonce, attempt, resigned, wire>>
vars == <<node, stray, wallet, unanswered>>

Row(s) == RowNo[s] > 0

(* A screen of the wallet, a site that leaves the nonce to the wallet, and *)
(* a site that gives it.                                                   *)
Kinds == {"wallet", "dapp", "given"}

Nonces == 0 .. MaxNonce
Verdict == {"accepted", "already", "stale", "refused"}
Ended == {"sent", "failed", "not_sent"}

(* The signed bytes of s: the same intent with the same nonce is the same  *)
(* transaction.                                                            *)
Signed(s) == [of |-> s, nonce |-> nonce[s]]

\* Mutant: every other row is taken for one that follows.
RowsBesides(s) == {t \in Sends : Row(s) /\ Row(t) /\ t # s}

RowsAfter(s) == {t \in Sends : Row(s) /\ RowNo[t] > RowNo[s]}

Init ==
    /\ chainNonce = 0
    /\ mempool = {} /\ included = {} /\ accepted = {}
    /\ stray = {}
    /\ kind = [s \in Sends |-> "none"]
    /\ stage = [s \in Sends |-> "idle"]
    /\ nonce = [s \in Sends |-> 0]
    /\ attempt = [s \in Sends |-> 1]
    /\ resigned = {}
    /\ wire = [s \in Sends |-> "none"]
    /\ unanswered = {}

-----------------------------------------------------------------------------
(* The node.                                                               *)

(* A lower nonce is stale, the same bytes are already pending, and a       *)
(* future nonce is admitted; any transaction may be refused for its fee,   *)
(* its size or a full pool.                                                *)
VerdictsOn(t) ==
    IF t \in mempool THEN {"already"}
    ELSE IF t.nonce < chainNonce THEN {"stale"}
    ELSE {"accepted", "refused"}

Takes(t, verdict) ==
    /\ mempool' = IF verdict = "accepted" THEN mempool \cup {t} ELSE mempool
    /\ accepted' = IF verdict = "accepted" THEN accepted \cup {t} ELSE accepted
    /\ UNCHANGED <<chainNonce, included>>

NodeHandles(s) ==
    /\ wire[s] = "request"
    /\ \E v \in VerdictsOn(Signed(s)) :
          /\ Takes(Signed(s), v)
          /\ wire' = [wire EXCEPT ![s] = v]
    /\ UNCHANGED <<stray, kind, stage, nonce, attempt, resigned, unanswered>>

NodeHandlesStray(t) ==
    /\ t \in stray
    /\ stray' = stray \ {t}
    /\ \E v \in VerdictsOn(t) : Takes(t, v)
    /\ UNCHANGED <<wallet, unanswered>>

(* A block takes the pending transaction that carries the account's nonce; *)
(* rivals for that nonce can never be included any more.                   *)
BlockIncludes(t) ==
    /\ t \in mempool /\ t.nonce = chainNonce /\ chainNonce < MaxNonce
    /\ included' = included \cup {t}
    /\ chainNonce' = chainNonce + 1
    /\ mempool' = {u \in mempool : u.nonce > chainNonce}
    /\ UNCHANGED <<accepted, stray, wallet, unanswered>>

(* Another device of the same user lands a transaction.                    *)
OtherLands ==
    /\ chainNonce < MaxNonce
    /\ chainNonce' = chainNonce + 1
    /\ mempool' = {u \in mempool : u.nonce > chainNonce}
    /\ UNCHANGED <<included, accepted, stray, wallet, unanswered>>

-----------------------------------------------------------------------------
(* The wallet.                                                             *)

IsNextRow(s, t) == Row(s) /\ RowNo[t] = RowNo[s] + 1

\* Mutant: the loop goes on after a row that failed.
FailsAndGoesOn(s) ==
    stage' = [t \in Sends |-> IF t = s THEN "failed"
                              ELSE IF IsNextRow(s, t) THEN "checking"
                              ELSE stage[t]]

(* A send that fails ends; a row that fails ends the rows after it too.    *)
Fails(s) ==
    stage' = [t \in Sends |-> IF t = s THEN "failed"
                              ELSE IF t \in RowsAfter(s) THEN "not_sent"
                              ELSE stage[t]]

(* A row that is sent hands the nonce after its own to the next row, unless *)
(* the user has cancelled: the loop looks at the flag before each row.     *)
Succeeds(s) ==
    /\ nonce' = [t \in Sends |-> IF IsNextRow(s, t) THEN nonce[s] + 1 ELSE nonce[t]]
    /\ \E cancelled \in BOOLEAN :
          stage' = [t \in Sends |->
                      IF t = s THEN "sent"
                      ELSE IF cancelled /\ t \in RowsAfter(s) THEN "not_sent"
                      ELSE IF IsNextRow(s, t) THEN "checking"
                      ELSE stage[t]]

(* What boing_getAccount may answer.                                       *)
NonceReads == {n \in Nonces : n <= chainNonce /\ chainNonce <= n + 1}

(* The user confirms, in a screen, in the bulk panel or in the approval    *)
(* window of a site. A nonce the site gave is not read.                    *)
Begin(s) ==
    /\ stage[s] = "idle" /\ RowNo[s] <= 1
    /\ \E k \in IF Row(s) THEN {"wallet"} ELSE Kinds :
          /\ kind' = [kind EXCEPT ![s] = k]
          /\ stage' = [stage EXCEPT ![s] = IF k = "given" THEN "checking" ELSE "reading"]
          /\ IF k = "given"
             THEN \E n \in 0 .. MaxNonce - 1 : nonce' = [nonce EXCEPT ![s] = n]
             ELSE UNCHANGED nonce
    /\ UNCHANGED <<node, stray, attempt, resigned, wire, unanswered>>

ReadsNonce(s) ==
    /\ stage[s] = "reading"
    /\ \E n \in NonceReads : nonce' = [nonce EXCEPT ![s] = n]
    /\ \/ stage' = [stage EXCEPT ![s] = "checking"]
       \/ /\ Row(s)      \* cancelled before the first row
          /\ stage' = [t \in Sends |-> IF Row(t) THEN "not_sent" ELSE stage[t]]
    /\ UNCHANGED <<node, stray, kind, attempt, resigned, wire, unanswered>>

(* boing_getAccount fails, before the first signature or before the second. *)
ReadFails(s) ==
    /\ stage[s] \in {"reading", "rereading"}
    /\ Fails(s)
    /\ UNCHANGED <<node, stray, kind, nonce, attempt, resigned, wire, unanswered>>

\* Mutant: rows and nonces given by the site are signed again as well.
AnyoneMayResign(s) == s \notin resigned

(* Who may sign again: buildAndSubmit and signOrSend do, once, unless the  *)
(* site chose the nonce; the bulk transfer never does.                     *)
MayResign(s) == ~Row(s) /\ kind[s] # "given" /\ s \notin resigned

(* The node is checked and the transaction simulated. The screens treat a  *)
(* simulated stale nonce like a submitted one; the worker gives up.        *)
CheckPasses(s) ==
    /\ stage[s] = "checking"
    /\ stage' = [stage EXCEPT ![s] = "posting"]
    /\ wire' = [wire EXCEPT ![s] = "request"]
    /\ UNCHANGED <<node, stray, kind, nonce, attempt, resigned, unanswered>>

CheckFails(s) ==
    /\ stage[s] = "checking"
    /\ Fails(s)
    /\ UNCHANGED <<node, stray, kind, nonce, attempt, resigned, wire, unanswered>>

CheckFindsStale(s) ==
    /\ stage[s] = "checking" /\ nonce[s] < chainNonce
    /\ kind[s] = "wallet" /\ MayResign(s)
    /\ stage' = [stage EXCEPT ![s] = "rereading"]
    /\ UNCHANGED <<node, stray, kind, nonce, attempt, resigned, wire, unanswered>>

\* Mutant: a submission that succeeded is tried again like a stale one.
AnswerRetriesAccepted(s) ==
    /\ stage[s] = "posting" /\ wire[s] \in Verdict
    /\ wire' = [wire EXCEPT ![s] = "none"]
    /\ attempt' = [attempt EXCEPT ![s] = 1]
    /\ IF MayResign(s)
       THEN stage' = [stage EXCEPT ![s] = "rereading"] /\ UNCHANGED nonce
       ELSE IF wire[s] \in {"accepted", "already"} THEN Succeeds(s)
       ELSE Fails(s) /\ UNCHANGED nonce
    /\ UNCHANGED <<node, stray, kind, resigned, unanswered>>

(* The node's verdict reaches the wallet.                                  *)
AnswerArrives(s) ==
    /\ stage[s] = "posting" /\ wire[s] \in Verdict
    /\ wire' = [wire EXCEPT ![s] = "none"]
    /\ attempt' = [attempt EXCEPT ![s] = 1]
    /\ \/ wire[s] \in {"accepted", "already"} /\ Succeeds(s)
       \/ /\ wire[s] = "stale" /\ MayResign(s)
          /\ stage' = [stage EXCEPT ![s] = "rereading"]
          /\ UNCHANGED nonce
       \/ /\ wire[s] \in {"refused", "stale"}
          /\ wire[s] = "stale" => ~MayResign(s)
          /\ Fails(s)
          /\ UNCHANGED nonce
    /\ UNCHANGED <<node, stray, kind, resigned, unanswered>>

(* The request nobody waits for is gone, or may still reach the node.      *)
Abandoned(s) ==
    \/ UNCHANGED stray
    \/ wire[s] = "request" /\ stray' = stray \cup {Signed(s)}

\* Mutant: a rate limit is waited out without counting the attempt.
EdgeFailsUncounted(s) ==
    /\ stage[s] = "posting"
    /\ Abandoned(s)
    /\ unanswered' = unanswered \cup {s}
    /\ wire' = [wire EXCEPT ![s] = "request"]
    /\ UNCHANGED <<node, kind, stage, nonce, attempt, resigned>>

(* 429 or 5xx from the edge: rpcCall posts the same bytes again, up to     *)
(* MaxAttempts times.                                                      *)
EdgeFails(s) ==
    /\ stage[s] = "posting"
    /\ Abandoned(s)
    /\ unanswered' = unanswered \cup {s}
    /\ \/ /\ attempt[s] < MaxAttempts
          /\ attempt' = [attempt EXCEPT ![s] = @ + 1]
          /\ wire' = [wire EXCEPT ![s] = "request"]
          /\ UNCHANGED stage
       \/ /\ attempt[s] >= MaxAttempts
          /\ wire' = [wire EXCEPT ![s] = "none"]
          /\ Fails(s)
          /\ attempt' = [attempt EXCEPT ![s] = 1]
    /\ UNCHANGED <<node, kind, nonce, resigned>>

(* A timeout, a dead network, another HTTP status or a body that breaks    *)
(* off: no second attempt.                                                 *)
Unreachable(s) ==
    /\ stage[s] = "posting"
    /\ Abandoned(s)
    /\ unanswered' = unanswered \cup {s}
    /\ wire' = [wire EXCEPT ![s] = "none"]
    /\ attempt' = [attempt EXCEPT ![s] = 1]
    /\ Fails(s)
    /\ UNCHANGED <<node, kind, nonce, resigned>>

(* After stale_nonce: the nonce is read again. Unchanged, the rejection is *)
(* shown; changed, the same intent is signed again. The screens check and  *)
(* simulate it again, the worker posts it at once.                         *)
Resigns(s) ==
    /\ stage[s] = "rereading"
    /\ \E n \in NonceReads \ {nonce[s]} : nonce' = [nonce EXCEPT ![s] = n]
    /\ resigned' = resigned \cup {s}
    /\ IF kind[s] = "dapp"
       THEN /\ stage' = [stage EXCEPT ![s] = "posting"]
            /\ wire' = [wire EXCEPT ![s] = "request"]
       ELSE /\ stage' = [stage EXCEPT ![s] = "checking"]
            /\ UNCHANGED wire
    /\ UNCHANGED <<node, stray, kind, attempt, unanswered>>

NothingChanged(s) ==
    /\ stage[s] = "rereading"
    /\ nonce[s] \in NonceReads
    /\ Fails(s)
    /\ UNCHANGED <<node, stray, kind, nonce, attempt, resigned, wire, unanswered>>

-----------------------------------------------------------------------------
SendStep(s) ==
    \/ ReadsNonce(s) \/ ReadFails(s)
    \/ CheckPasses(s) \/ CheckFails(s) \/ CheckFindsStale(s)
    \/ AnswerArrives(s) \/ EdgeFails(s) \/ Unreachable(s)
    \/ Resigns(s) \/ NothingChanged(s)

Next ==
    \/ \E s \in Sends : Begin(s) \/ SendStep(s) \/ NodeHandles(s)
    \/ \E t \in stray : NodeHandlesStray(t)
    \/ \E t \in mempool : BlockIncludes(t)
    \/ OtherLands

Spec == Init /\ [][Next]_vars

(* fetchOnce clears its timer when the headers of an answer are in, and    *)
(* nothing bounds the wait for the body: it may come, break off, or never  *)
(* do either. So an answer that may have begun to arrive is owed by nobody.*)
MayStall(s) == stage[s] \in {"reading", "checking", "rereading"} \/ wire[s] \in Verdict

(* What is owed: a submission the node gives no answer to is aborted after *)
(* RPC_TIMEOUT_MS, the pauses between attempts are bounded, and every other*)
(* step is the next line of an async function. It is enough that some such *)
(* send moves while one can. The node, the blocks and the user owe nothing.*)
SendFairness == WF_vars(\E s \in Sends : ~MayStall(s) /\ SendStep(s))

FairSpec == Spec /\ SendFairness

-----------------------------------------------------------------------------
TransactionsOf(s, txs) == {t \in txs : t.of = s}

PaidTwice(s) ==
    \E t, u \in TransactionsOf(s, accepted) : t # u /\ {t, u} \subseteq included

(* While every submission is answered, no approval is included twice,      *)
(* whatever else lands on the account and however often the nonce is stale.*)
PaidOnceIfAnswered == \A s \in Sends : PaidTwice(s) => s \in unanswered

(* What is never signed again is never paid twice, even when answers are   *)
(* lost and the same bytes are posted up to MaxAttempts times: a row of a  *)
(* bulk transfer and a transaction whose nonce the site chose.             *)
RowsPaidOnce == \A s \in Sends : Row(s) \/ kind[s] = "given" => ~PaidTwice(s)

(* A failure whose submissions were all answered leaves nothing behind: no *)
(* transaction of it is pending, included, or still on its way.            *)
FailedMeansUnsent ==
    \A s \in Sends :
        stage[s] \in {"failed", "not_sent"} /\ s \notin unanswered =>
            TransactionsOf(s, accepted \cup stray) = {}

(* The bulk transfer leaves no gap: the row that follows carries the next  *)
(* nonce, and only a row the node took is followed by another.             *)
RowsLeaveNoGap ==
    \A s, t \in Sends :
        IsNextRow(s, t) /\ TransactionsOf(t, accepted \cup stray) # {} =>
            /\ Signed(s) \in accepted
            /\ nonce[t] = nonce[s] + 1

(* No send goes on for ever: although the edge may fail every attempt, the *)
(* node may never answer and the nonce goes stale again and again, in the  *)
(* end each is over or waits for the one answer whose body stalls.         *)
EverySendEnds == \A s \in Sends : <>[](stage[s] \in Ended \cup {"idle"} \/ MayStall(s))

(* submitRetry.ts:2 calls the retry on stale_nonce safe: an intent the     *)
(* user approved once is included at most once.                            *)
RetryIsSafe == \A s \in Sends : ~PaidTwice(s)
=============================================================================
