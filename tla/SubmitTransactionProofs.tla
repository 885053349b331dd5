----------------------- MODULE SubmitTransactionProofs -----------------------
(***************************************************************************)
(* What an approved transaction may do, for every set of sends and rows,    *)
(* every number of attempts and every length of the chain: no send whose    *)
(* answers all arrived is paid twice (PaidOnceIfAnswered), no row and no    *)
(* transaction with a given nonce ever is (RowsPaidOnce), a failure leaves  *)
(* nothing behind (FailedMeansUnsent), and the rows leave no gap            *)
(* (RowsLeaveNoGap).                                                       *)
(*                                                                         *)
(* The four share one inductive invariant.  Its parts say when a send has   *)
(* no transaction yet (Unborn), which nonce all transactions of a send have *)
(* that is never signed again (OneNonce), what can be out there of a send   *)
(* that was always answered (Accounted), and that the rows go one after the *)
(* other, each with the nonce after the last one (RowsInOrder, RowsLinked). *)
(***************************************************************************)
EXTENDS SubmitTransaction, Dashboard, TLAPS

Txs == [of : Sends, nonce : Nat]
Stages == {"idle", "reading", "checking", "posting", "rereading"} \cup Ended
Wires == Verdict \cup {"none", "request"}

Typed ==
  /\ chainNonce \in Nat
  /\ accepted \subseteq Txs /\ stray \subseteq Txs
  /\ kind \in [Sends -> Kinds \cup {"none"}]
  /\ stage \in [Sends -> Stages]
  /\ nonce \in [Sends -> Nat]
  /\ wire \in [Sends -> Wires]

Pooled == mempool \subseteq accepted /\ included \subseteq accepted

(* A submission is out exactly while its send is posting.                   *)
Wired == \A s \in Sends : wire[s] # "none" <=> stage[s] = "posting"

(* What is reported as sent was taken by the node.                          *)
Told ==
  \A s \in Sends :
    wire[s] \in {"accepted", "already"} \/ stage[s] = "sent" => Signed(s) \in accepted

Unsigned == {"idle", "reading", "not_sent"}

Unborn ==
  \A s \in Sends : stage[s] \in Unsigned =>
    \A t \in accepted \cup stray : t.of # s

(* A row, or a transaction with the site's nonce.                           *)
Fixed(s) == Row(s) \/ kind[s] = "given"

OneNonce ==
  \A s \in Sends : Fixed(s) =>
    /\ stage[s] # "rereading"
    /\ \A t \in accepted \cup stray : t.of = s => t.nonce = nonce[s]

Accounted ==
  \A s \in Sends \ unanswered :
    /\ \A t \in stray : t.of # s
    /\ \A t \in accepted : t.of = s => /\ t.nonce = nonce[s]
                                       /\ wire[s] = "accepted" \/ stage[s] = "sent"

RowsInOrder ==
  \A s \in Sends : \A t \in RowsAfter(s) :
    stage[s] # "sent" => stage[t] \in {"idle", "not_sent"}

FirstReads == \A s \in Sends : Row(s) /\ stage[s] = "reading" => RowNo[s] = 1

RowsLinked ==
  \A s, t \in Sends :
    IsNextRow(s, t) /\ stage[t] \notin {"idle", "not_sent"} => nonce[t] = nonce[s] + 1

Inv ==
  /\ Typed /\ Pooled /\ Wired /\ Told /\ Unborn /\ OneNonce /\ Accounted
  /\ RowsInOrder /\ FirstReads /\ RowsLinked

-----------------------------------------------------------------------------
(* Rows and their numbers.                                                 *)

LEMMA NextIsAfter ==
  ASSUME NEW s \in Sends, NEW t \in Sends, IsNextRow(s, t)
  PROVE  t \in RowsAfter(s) /\ t # s /\ Row(t)
BY RowAssumption DEF IsNextRow, RowsAfter, Row

LEMMA RowsAreApart ==
  ASSUME NEW s \in Sends
  PROVE  /\ s \notin RowsAfter(s)
         /\ RowsAfter(s) \subseteq Sends
         /\ ~Row(s) => RowsAfter(s) = {}
         /\ \A t \in RowsAfter(s) : Row(t) /\ RowsAfter(t) \subseteq RowsAfter(s)
BY RowAssumption DEF RowsAfter, Row

LEMMA RowsBefore ==
  ASSUME NEW s \in Sends, NEW t \in Sends, NEW u \in Sends, IsNextRow(s, t), t \in RowsAfter(u)
  PROVE  u = s \/ s \in RowsAfter(u)
BY RowAssumption DEF IsNextRow, RowsAfter, Row

-----------------------------------------------------------------------------
(* A send that is under way fails, whatever becomes of its submission: with *)
(* an answer it is gone, without one it may still be on its way.            *)
Active == {"reading", "checking", "posting", "rereading"}

LEMMA FailureKeeps ==
  ASSUME Inv, NEW s \in Sends, stage[s] \in Active, Fails(s),
         UNCHANGED <<node, kind, nonce>>,
         wire' = [wire EXCEPT ![s] = "none"],
         unanswered \subseteq unanswered',
         \/ UNCHANGED stray
         \/ s \in unanswered' /\ stage[s] = "posting" /\ stray' = stray \cup {Signed(s)},
         s \in unanswered' \/ wire[s] \notin {"accepted", "already"}
  PROVE  Inv'
<1>1. \A t \in RowsAfter(s) : t \in Sends /\ stage[t] \in {"idle", "not_sent"} /\ Row(t)
  BY RowsAreApart DEF Inv, RowsInOrder, Active
<1>2. \A t \in Sends : stage'[t] = IF t = s THEN "failed"
                                   ELSE IF t \in RowsAfter(s) THEN "not_sent" ELSE stage[t]
  BY DEF Fails
<1>3. Typed'
  BY <1>2 DEF Inv, Typed, Fails, Stages, Ended, Wires, Txs, Signed, node
<1>4. Pooled'
  BY DEF Inv, Pooled, node
<1>5. Wired'
  BY <1>1, <1>2 DEF Inv, Typed, Wired
<1>6. Told'
  BY <1>1, <1>2 DEF Inv, Typed, Told, Signed, node
<1>7. Unborn'
  BY <1>1, <1>2 DEF Inv, Unborn, Unsigned, node, Signed
<1>8. OneNonce'
  BY <1>1, <1>2 DEF Inv, OneNonce, Fixed, Row, node, Signed
<1>9. Accounted'
  BY <1>1, <1>2 DEF Inv, Typed, Accounted, Unborn, Unsigned, Wired, Active, node, Signed
<1>10. RowsInOrder'
  BY <1>1, <1>2, RowsAreApart DEF Inv, RowsInOrder, Active
<1>11. FirstReads'
  BY <1>1, <1>2 DEF Inv, FirstReads
<1>12. RowsLinked'
  BY <1>1, <1>2 DEF Inv, RowsLinked, Active, IsNextRow, Row
<1> QED
  BY <1>3, <1>4, <1>5, <1>6, <1>7, <1>8, <1>9, <1>10, <1>11, <1>12 DEF Inv

-----------------------------------------------------------------------------
(* The node and the chain.                                                 *)

LEMMA VerdictMeans ==
  ASSUME Inv, NEW t \in Txs, NEW v \in VerdictsOn(t), Takes(t, v)
  PROVE  /\ v \in Verdict
         /\ accepted' = IF v = "accepted" THEN accepted \cup {t} ELSE accepted
         /\ v \in {"accepted", "already"} => t \in accepted'
         /\ v = "already" => t \in accepted
         /\ mempool' \subseteq accepted' /\ UNCHANGED <<chainNonce, included>>
BY DEF Inv, Pooled, VerdictsOn, Takes, Verdict

LEMMA NodeHandlesKeeps ==
  ASSUME Inv, NEW s \in Sends, NodeHandles(s)
  PROVE  Inv'
<1>1. PICK v \in VerdictsOn(Signed(s)) : Takes(Signed(s), v) /\ wire' = [wire EXCEPT ![s] = v]
  BY DEF NodeHandles
<1>2. Signed(s) \in Txs
  BY DEF Inv, Typed, Signed, Txs
<1>3. /\ v \in Verdict
      /\ accepted' = IF v = "accepted" THEN accepted \cup {Signed(s)} ELSE accepted
      /\ v \in {"accepted", "already"} => Signed(s) \in accepted'
      /\ v = "already" => Signed(s) \in accepted
      /\ mempool' \subseteq accepted' /\ UNCHANGED <<chainNonce, included>>
  BY <1>1, <1>2, VerdictMeans
<1>4. UNCHANGED <<stray, kind, stage, nonce, unanswered>> /\ wire[s] = "request"
  BY DEF NodeHandles
<1>5. stage[s] = "posting"
  BY <1>4 DEF Inv, Wired
<1>6. Typed' /\ Pooled' /\ Wired'
  BY <1>1, <1>2, <1>3, <1>4, <1>5 DEF Inv, Typed, Pooled, Wired, Wires, Verdict
<1>7. Told'
  BY <1>1, <1>3, <1>4, <1>5 DEF Inv, Typed, Told, Signed
<1>8. Unborn' /\ OneNonce'
  BY <1>3, <1>4, <1>5 DEF Inv, Unborn, Unsigned, OneNonce, Fixed, Row, Signed
<1>9. Accounted'
  BY <1>1, <1>3, <1>4, <1>5 DEF Inv, Typed, Accounted, Signed
<1>10. RowsInOrder' /\ FirstReads' /\ RowsLinked'
  BY <1>4 DEF Inv, RowsInOrder, FirstReads, RowsLinked, RowsAfter, IsNextRow, Row
<1> QED
  BY <1>6, <1>7, <1>8, <1>9, <1>10 DEF Inv

LEMMA NodeHandlesStrayKeeps ==
  ASSUME Inv, NEW t \in stray, NodeHandlesStray(t)
  PROVE  Inv'
<1>1. PICK v \in VerdictsOn(t) : Takes(t, v)
  BY DEF NodeHandlesStray
<1>2. t \in Txs
  BY DEF Inv, Typed
<1>3. /\ accepted' = IF v = "accepted" THEN accepted \cup {t} ELSE accepted
      /\ mempool' \subseteq accepted' /\ UNCHANGED <<chainNonce, included>>
  BY <1>1, <1>2, VerdictMeans
<1>4. UNCHANGED <<wallet, unanswered>> /\ stray' = stray \ {t}
  BY DEF NodeHandlesStray
<1>5. Typed' /\ Pooled' /\ Wired' /\ Told'
  BY <1>2, <1>3, <1>4 DEF Inv, Typed, Pooled, Wired, Told, Signed, wallet
<1>6. Unborn' /\ OneNonce' /\ Accounted'
  BY <1>3, <1>4 DEF Inv, Unborn, OneNonce, Accounted, Fixed, Row, wallet
<1>7. RowsInOrder' /\ FirstReads' /\ RowsLinked'
  BY <1>4 DEF Inv, RowsInOrder, FirstReads, RowsLinked, RowsAfter, IsNextRow, Row, wallet
<1> QED
  BY <1>5, <1>6, <1>7 DEF Inv

LEMMA ChainKeeps ==
  ASSUME Inv, OtherLands \/ \E t \in mempool : BlockIncludes(t)
  PROVE  Inv'
<1>1. /\ UNCHANGED <<accepted, stray, wallet, unanswered>>
      /\ chainNonce' = chainNonce + 1
      /\ mempool' \subseteq mempool /\ included' \subseteq included \cup mempool
  BY DEF OtherLands, BlockIncludes
<1>2. Typed' /\ Pooled' /\ Wired' /\ Told'
  BY <1>1 DEF Inv, Typed, Pooled, Wired, Told, Signed, wallet
<1>3. Unborn' /\ OneNonce' /\ Accounted'
  BY <1>1 DEF Inv, Unborn, OneNonce, Accounted, Fixed, Row, wallet
<1>4. RowsInOrder' /\ FirstReads' /\ RowsLinked'
  BY <1>1 DEF Inv, RowsInOrder, FirstReads, RowsLinked, RowsAfter, IsNextRow, Row, wallet
<1> QED
  BY <1>2, <1>3, <1>4 DEF Inv
-----------------------------------------------------------------------------
(* The wallet up to the answer.                                            *)

LEMMA BeginKeeps ==
  ASSUME Inv, NEW s \in Sends, Begin(s)
  PROVE  Inv'
<1>1. /\ stage[s] = "idle" /\ RowNo[s] <= 1
      /\ UNCHANGED <<node, stray, attempt, resigned, wire, unanswered>>
  BY DEF Begin
<1>2. PICK k \in Kinds :
        /\ Row(s) => k = "wallet"
        /\ kind' = [kind EXCEPT ![s] = k]
        /\ stage' = [stage EXCEPT ![s] = IF k = "given" THEN "checking" ELSE "reading"]
        /\ IF k = "given" THEN \E n \in 0 .. MaxNonce - 1 : nonce' = [nonce EXCEPT ![s] = n]
           ELSE UNCHANGED nonce
  BY DEF Begin, Kinds
<1>3. /\ nonce' \in [Sends -> Nat]
      /\ \A t \in Sends \ {s} : nonce'[t] = nonce[t]
      /\ k # "given" => nonce' = nonce
  BY <1>2, MaxNonceAssumption DEF Inv, Typed
<1>4. /\ \A t \in RowsAfter(s) : t \in Sends /\ t # s /\ stage[t] \in {"idle", "not_sent"}
      /\ \A t \in Sends : s \notin RowsAfter(t)
  BY <1>1, RowAssumption, RowsAreApart DEF Inv, RowsInOrder, RowsAfter, Row
<1>5. Typed' /\ Pooled' /\ Wired'
  BY <1>1, <1>2, <1>3 DEF Inv, Typed, Pooled, Wired, Stages, Ended, node
<1>6. \A t \in accepted \cup stray : t.of # s
  BY <1>1 DEF Inv, Unborn, Unsigned
<1>7. wire[s] = "none"
  BY <1>1 DEF Inv, Typed, Wired, Wires
<1>8. Told' /\ Unborn'
  BY <1>1, <1>2, <1>3, <1>6, <1>7 DEF Inv, Typed, Told, Unborn, Unsigned, Signed, node
<1>9. OneNonce' /\ Accounted'
  BY <1>1, <1>2, <1>3, <1>6 DEF Inv, Typed, OneNonce, Accounted, Fixed, Row, node
<1>10. RowsInOrder'
  BY <1>1, <1>2, <1>4 DEF Inv, Typed, RowsInOrder, RowsAfter, Row
<1>11. FirstReads'
  <2>1. \A t \in Sends \ {s} : stage'[t] = stage[t]
    BY <1>2 DEF Inv, Typed
  <2>2. Row(s) => RowNo[s] = 1
    BY <1>1, RowAssumption DEF Row
  <2> QED
    BY <2>1, <2>2 DEF Inv, FirstReads, Row
<1>12. RowsLinked'
  <2> SUFFICES ASSUME NEW r \in Sends, NEW t \in Sends, IsNextRow(r, t),
                      stage'[t] \notin {"idle", "not_sent"}
               PROVE  nonce'[t] = nonce'[r] + 1
    BY DEF RowsLinked, IsNextRow, Row
  <2>1. t \in RowsAfter(r)
    BY NextIsAfter
  <2>2. t # s /\ stage'[t] = stage[t]
    BY <1>2, <1>4, <2>1 DEF Inv, Typed
  <2>3. r # s
    BY <1>4, <2>1, <2>2
  <2> QED
    BY <1>3, <2>2, <2>3 DEF Inv, RowsLinked
<1> QED
  BY <1>5, <1>8, <1>9, <1>10, <1>11, <1>12 DEF Inv

LEMMA ReadsNonceKeeps ==
  ASSUME Inv, NEW s \in Sends, ReadsNonce(s)
  PROVE  Inv'
<1>1. /\ stage[s] = "reading"
      /\ UNCHANGED <<node, stray, kind, attempt, resigned, wire, unanswered>>
  BY DEF ReadsNonce
<1>2. PICK n \in Nat : nonce' = [nonce EXCEPT ![s] = n]
  <2>1. NonceReads \subseteq Nat
    BY MaxNonceAssumption DEF NonceReads, Nonces
  <2> QED
    BY <2>1, Zenon DEF ReadsNonce
<1>3. \A t \in Sends : Row(s) /\ Row(t) => t = s \/ t \in RowsAfter(s)
  BY <1>1, RowAssumption DEF Inv, FirstReads, RowsAfter, Row
<1>4. /\ \A t \in RowsAfter(s) : t \in Sends /\ t # s /\ stage[t] \in {"idle", "not_sent"}
      /\ \A t \in Sends : s \notin RowsAfter(t)
  BY <1>1, RowAssumption, RowsAreApart DEF Inv, FirstReads, RowsInOrder, RowsAfter, Row
<1>5. \A t \in accepted \cup stray : t.of # s
  BY <1>1 DEF Inv, Unborn, Unsigned
<1>6. wire[s] = "none"
  BY <1>1 DEF Inv, Typed, Wired, Wires
<1>7. /\ stage' \in [Sends -> Stages]
      /\ \A t \in Sends \ {s} : \/ stage'[t] = stage[t]
                                \/ t \in RowsAfter(s) /\ stage'[t] = "not_sent"
      /\ stage'[s] \in {"checking", "not_sent"}
  BY <1>1, <1>3 DEF ReadsNonce, Inv, Typed, Stages, Ended
<1>8. Typed' /\ Pooled' /\ Wired'
  BY <1>1, <1>2, <1>4, <1>6, <1>7 DEF Inv, Typed, Pooled, Wired, node
<1>9. Told' /\ Unborn'
  BY <1>1, <1>2, <1>4, <1>5, <1>6, <1>7 DEF Inv, Typed, Told, Unborn, Unsigned, Signed, node
<1>10. OneNonce' /\ Accounted'
  BY <1>1, <1>2, <1>4, <1>5, <1>7 DEF Inv, Typed, OneNonce, Accounted, Fixed, Row, node
<1>11. RowsInOrder' /\ FirstReads'
  BY <1>1, <1>4, <1>7 DEF Inv, Typed, RowsInOrder, FirstReads, RowsAfter, Row
<1>12. RowsLinked'
  <2> SUFFICES ASSUME NEW r \in Sends, NEW t \in Sends, IsNextRow(r, t),
                      stage'[t] \notin {"idle", "not_sent"}
               PROVE  nonce'[t] = nonce'[r] + 1
    BY DEF RowsLinked, IsNextRow, Row
  <2>1. t \in RowsAfter(r)
    BY NextIsAfter
  <2>2. t # s /\ stage'[t] = stage[t]
    BY <1>4, <1>7, <2>1
  <2>3. r # s
    BY <1>4, <2>1, <2>2
  <2> QED
    BY <1>2, <2>2, <2>3 DEF Inv, Typed, RowsLinked
<1> QED
  BY <1>8, <1>9, <1>10, <1>11, <1>12 DEF Inv

(* Only a send that is not posting fails without an answer.                *)
LEMMA FailsBeforePosting ==
  ASSUME Inv, NEW s \in Sends, ReadFails(s) \/ CheckFails(s) \/ NothingChanged(s)
  PROVE  Inv'
<1>1. stage[s] \in Active \ {"posting"} /\ Fails(s)
  BY DEF ReadFails, CheckFails, NothingChanged, Active
<1>2. UNCHANGED <<node, stray, kind, nonce, wire, unanswered>>
  BY DEF ReadFails, CheckFails, NothingChanged
<1>3. wire[s] = "none"
  BY <1>1 DEF Inv, Typed, Wired, Wires
<1>4. wire' = [wire EXCEPT ![s] = "none"]
  BY <1>2, <1>3 DEF Inv, Typed
<1> QED
  BY <1>1, <1>2, <1>3, <1>4, FailureKeeps, Zenon

(* A send that moves on by itself, without a word from the node: it is     *)
(* checked, posted, or about to be signed again.                           *)
LEMMA MovesOnKeeps ==
  ASSUME Inv, NEW s \in Sends, NEW st \in {"checking", "posting", "rereading"},
         stage[s] \in {"checking", "posting", "rereading"},
         UNCHANGED <<node, stray, kind, unanswered>>,
         stage' = [stage EXCEPT ![s] = st],
         wire' = [wire EXCEPT ![s] = IF st = "posting" THEN "request" ELSE "none"],
         wire[s] \notin {"accepted", "already"},
         \/ UNCHANGED nonce
         \/ ~Fixed(s) /\ wire[s] = "none" /\ \E n \in Nat : nonce' = [nonce EXCEPT ![s] = n],
         st = "rereading" => ~Fixed(s)
  PROVE  Inv'
<1>1. /\ nonce' \in [Sends -> Nat]
      /\ \A t \in Sends \ {s} : nonce'[t] = nonce[t]
      /\ Fixed(s) => nonce' = nonce
  BY DEF Inv, Typed
<1>2. Typed' /\ Pooled' /\ Wired' /\ Unborn'
  BY <1>1 DEF Inv, Typed, Pooled, Wired, Unborn, Unsigned, Stages, Wires, node
<1>3. Told'
  BY <1>1 DEF Inv, Typed, Told, Signed, node
<1>4. OneNonce'
  BY <1>1 DEF Inv, Typed, OneNonce, Fixed, Row, node
<1>5. Accounted'
  BY <1>1 DEF Inv, Typed, Accounted, node
<1>6. RowsInOrder' /\ FirstReads'
  BY DEF Inv, Typed, RowsInOrder, FirstReads, RowsAfter, Row
<1>7. RowsLinked'
  <2> SUFFICES ASSUME NEW r \in Sends, NEW t \in Sends, IsNextRow(r, t),
                      stage'[t] \notin {"idle", "not_sent"}
               PROVE  nonce'[t] = nonce'[r] + 1
    BY DEF RowsLinked, IsNextRow, Row
  <2>1. Row(r) /\ Row(t)
    BY NextIsAfter DEF IsNextRow
  <2>2. stage[t] \notin {"idle", "not_sent"}
    BY DEF Inv, Typed
  <2>3. nonce[t] = nonce[r] + 1
    BY <2>2 DEF Inv, RowsLinked
  <2> QED
    BY <1>1, <2>1, <2>3 DEF Fixed
<1> QED
  BY <1>2, <1>3, <1>4, <1>5, <1>6, <1>7 DEF Inv
-----------------------------------------------------------------------------
(* The wallet from the submission on.                                      *)

LEMMA CheckPassesKeeps ==
  ASSUME Inv, NEW s \in Sends, CheckPasses(s) \/ CheckFindsStale(s)
  PROVE  Inv'
<1>1. /\ stage[s] = "checking"
      /\ UNCHANGED <<node, stray, kind, nonce, unanswered>>
  BY DEF CheckPasses, CheckFindsStale
<1>2. wire[s] = "none"
  BY <1>1 DEF Inv, Typed, Wired, Wires
<1>3. CASE CheckPasses(s)
  <2> DEFINE st == "posting"
  <2>1. /\ stage' = [stage EXCEPT ![s] = st]
        /\ wire' = [wire EXCEPT ![s] = IF st = "posting" THEN "request" ELSE "none"]
    BY <1>3 DEF CheckPasses
  <2> QED
    BY <1>1, <1>2, <2>1, MovesOnKeeps
<1>4. CASE CheckFindsStale(s)
  <2> DEFINE st == "rereading"
  <2>1. /\ stage' = [stage EXCEPT ![s] = st]
        /\ wire' = [wire EXCEPT ![s] = IF st = "posting" THEN "request" ELSE "none"]
        /\ ~Fixed(s)
    BY <1>2, <1>4 DEF CheckFindsStale, MayResign, Fixed, Inv, Typed
  <2> QED
    BY <1>1, <1>2, <2>1, MovesOnKeeps
<1> QED
  BY <1>3, <1>4

LEMMA SuccessKeeps ==
  ASSUME Inv, NEW s \in Sends, stage[s] = "posting", wire[s] \in {"accepted", "already"},
         Succeeds(s), wire' = [wire EXCEPT ![s] = "none"],
         UNCHANGED <<node, stray, kind, unanswered>>
  PROVE  Inv'
<1>1. \A t \in RowsAfter(s) : t \in Sends /\ t # s /\ stage[t] \in {"idle", "not_sent"} /\ Row(t)
  BY RowsAreApart DEF Inv, RowsInOrder
<1>2. \A t \in Sends : nonce'[t] = IF IsNextRow(s, t) THEN nonce[s] + 1 ELSE nonce[t]
  BY DEF Succeeds
<1>3. \A t \in Sends : \/ t = s /\ stage'[t] = "sent"
                       \/ t \in RowsAfter(s) /\ stage'[t] \in {"idle", "not_sent"}
                       \/ t \in RowsAfter(s) /\ IsNextRow(s, t) /\ stage'[t] = "checking"
                       \/ t # s /\ t \notin RowsAfter(s) /\ stage'[t] = stage[t]
  BY <1>1, NextIsAfter DEF Succeeds
<1>4. \A t \in Sends : IsNextRow(s, t) => t \in RowsAfter(s)
  BY NextIsAfter
<1>5. Typed' /\ Pooled'
  <2>1. nonce' \in [Sends -> Nat]
    BY DEF Succeeds, Inv, Typed
  <2>2. stage' \in [Sends -> Stages]
    BY DEF Succeeds, Inv, Typed, Stages, Ended
  <2> QED
    BY <2>1, <2>2 DEF Inv, Typed, Pooled, Wires, node
<1>6. Wired'
  BY <1>1, <1>3 DEF Inv, Typed, Wired
<1>7. \A t \in RowsAfter(s) : wire[t] = "none" /\ \A x \in accepted \cup stray : x.of # t
  BY <1>1 DEF Inv, Typed, Wired, Wires, Unborn, Unsigned
<1>8. Told'
  BY <1>1, <1>2, <1>3, <1>4, <1>7 DEF Inv, Typed, Told, Signed, node
<1>9. Unborn'
  BY <1>3, <1>7 DEF Inv, Unborn, Unsigned, node
<1>10. OneNonce'
  BY <1>2, <1>3, <1>4, <1>7 DEF Inv, OneNonce, Fixed, Row, node
<1>11. Accounted'
  BY <1>1, <1>2, <1>3, <1>4, <1>7 DEF Inv, Typed, Accounted, node
<1>12. RowsInOrder'
  <2> SUFFICES ASSUME NEW u \in Sends, NEW t \in RowsAfter(u), stage'[u] # "sent"
               PROVE  stage'[t] \in {"idle", "not_sent"}
    BY DEF RowsInOrder, RowsAfter, Row
  <2>1. t \in Sends /\ u # s /\ stage[u] # "sent"
    BY <1>1, <1>3, RowsAreApart
  <2>2. stage[t] \in {"idle", "not_sent"}
    BY <2>1 DEF Inv, RowsInOrder
  <2>3. CASE IsNextRow(s, t)
    <3>1. s \in RowsAfter(u)
      BY <2>1, <2>3, RowsBefore
    <3> QED
      BY <2>1, <3>1 DEF Inv, RowsInOrder
  <2> QED
    BY <1>3, <2>1, <2>2, <2>3
<1>13. FirstReads'
  BY <1>3 DEF Inv, FirstReads, Row
<1>14. RowsLinked'
  <2> SUFFICES ASSUME NEW r \in Sends, NEW t \in Sends, IsNextRow(r, t),
                      stage'[t] \notin {"idle", "not_sent"}
               PROVE  nonce'[t] = nonce'[r] + 1
    BY DEF RowsLinked, IsNextRow, Row
  <2>1. CASE IsNextRow(s, t)
    <3>1. r = s
      BY <2>1, RowAssumption DEF IsNextRow, Row
    <3> QED
      BY <1>1, <1>2, <1>4, <2>1, <3>1
  <2>2. CASE ~IsNextRow(s, t)
    <3>1. t \notin RowsAfter(s)
      BY <1>1, <1>3, <2>2
    <3>2. ~IsNextRow(s, r)
      BY <3>1, RowAssumption DEF IsNextRow, Row, RowsAfter
    <3>3. stage[t] \notin {"idle", "not_sent"}
      BY <1>3, <3>1
    <3> QED
      BY <1>2, <2>2, <3>2, <3>3 DEF Inv, RowsLinked
  <2> QED
    BY <2>1, <2>2
<1> QED
  BY <1>5, <1>6, <1>8, <1>9, <1>10, <1>11, <1>12, <1>13, <1>14 DEF Inv

LEMMA AnswerArrivesKeeps ==
  ASSUME Inv, NEW s \in Sends, AnswerArrives(s)
  PROVE  Inv'
<1>1. /\ stage[s] = "posting" /\ wire' = [wire EXCEPT ![s] = "none"]
      /\ UNCHANGED <<node, stray, kind, unanswered>>
  BY DEF AnswerArrives
<1>2. CASE wire[s] \in {"accepted", "already"} /\ Succeeds(s)
  BY <1>1, <1>2, SuccessKeeps
<1>3. CASE wire[s] = "stale" /\ MayResign(s) /\ stage' = [stage EXCEPT ![s] = "rereading"]
           /\ UNCHANGED nonce
  <2> DEFINE st == "rereading"
  <2>1. wire' = [wire EXCEPT ![s] = IF st = "posting" THEN "request" ELSE "none"]
    BY <1>1
  <2>2. ~Fixed(s)
    BY <1>3 DEF MayResign, Fixed
  <2> QED
    BY <1>1, <1>3, <2>1, <2>2, MovesOnKeeps
<1>4. CASE wire[s] \in {"refused", "stale"} /\ Fails(s) /\ UNCHANGED nonce
  <2>1. stage[s] \in Active /\ wire[s] \notin {"accepted", "already"}
    BY <1>1, <1>4 DEF Active
  <2> QED
    BY <1>1, <1>4, <2>1, FailureKeeps
<1> QED
  BY <1>2, <1>3, <1>4, Zenon DEF AnswerArrives

(* The same bytes are posted again: the answer that is lost is written off, *)
(* and what it answered may be on its way.                                 *)
LEMMA RetryKeeps ==
  ASSUME Inv, NEW s \in Sends, stage[s] = "posting", Abandoned(s),
         unanswered' = unanswered \cup {s}, wire' = [wire EXCEPT ![s] = "request"],
         UNCHANGED <<node, kind, stage, nonce, resigned>>
  PROVE  Inv'
<1>1. stray' = stray \/ stray' = stray \cup {Signed(s)}
  BY DEF Abandoned
<1>2. Typed' /\ Pooled' /\ Wired' /\ Told'
  BY <1>1 DEF Inv, Typed, Pooled, Wired, Told, Signed, Txs, Wires, node
<1>3. Unborn'
  BY <1>1 DEF Inv, Unborn, Unsigned, Signed, node
<1>4. OneNonce'
  BY <1>1 DEF Inv, OneNonce, Fixed, Row, Signed, node
<1>5. Accounted'
  BY <1>1 DEF Inv, Typed, Accounted, Signed, node
<1>6. RowsInOrder' /\ FirstReads' /\ RowsLinked'
  BY DEF Inv, RowsInOrder, FirstReads, RowsLinked, RowsAfter, IsNextRow, Row
<1> QED
  BY <1>2, <1>3, <1>4, <1>5, <1>6 DEF Inv

LEMMA NoAnswerKeeps ==
  ASSUME Inv, NEW s \in Sends, EdgeFails(s) \/ Unreachable(s)
  PROVE  Inv'
<1>1. /\ stage[s] = "posting" /\ Abandoned(s) /\ unanswered' = unanswered \cup {s}
      /\ UNCHANGED <<node, kind, nonce, resigned>>
  BY DEF EdgeFails, Unreachable
<1>2. CASE wire' = [wire EXCEPT ![s] = "request"] /\ UNCHANGED stage
  BY <1>1, <1>2, RetryKeeps
<1>3. CASE wire' = [wire EXCEPT ![s] = "none"] /\ Fails(s)
  <2>1. stage[s] \in Active /\ s \in unanswered' /\ unanswered \subseteq unanswered'
    BY <1>1 DEF Active
  <2>2. \/ UNCHANGED stray
        \/ s \in unanswered' /\ stage[s] = "posting" /\ stray' = stray \cup {Signed(s)}
    BY <1>1 DEF Abandoned
  <2> QED
    BY <1>1, <1>3, <2>1, <2>2, FailureKeeps
<1> QED
  BY <1>2, <1>3, Zenon DEF EdgeFails, Unreachable

LEMMA ResignsKeeps ==
  ASSUME Inv, NEW s \in Sends, Resigns(s)
  PROVE  Inv'
<1>1. stage[s] = "rereading" /\ UNCHANGED <<node, stray, kind, unanswered>>
  BY DEF Resigns
<1>2. ~Fixed(s) /\ wire[s] = "none"
  BY <1>1 DEF Inv, Typed, OneNonce, Wired, Wires
<1>3. \E n \in Nat : nonce' = [nonce EXCEPT ![s] = n]
  <2>1. NonceReads \subseteq Nat
    BY MaxNonceAssumption DEF NonceReads, Nonces
  <2> QED
    BY <2>1, Zenon DEF Resigns
<1>4. PICK st \in {"checking", "posting"} :
        /\ stage' = [stage EXCEPT ![s] = st]
        /\ wire' = [wire EXCEPT ![s] = IF st = "posting" THEN "request" ELSE "none"]
  BY <1>2 DEF Resigns, Inv, Typed
<1> QED
  BY <1>1, <1>2, <1>3, <1>4, MovesOnKeeps

LEMMA StepKeeps ==
  ASSUME Inv, [Next]_vars
  PROVE  Inv'
<1>1. ASSUME NEW s \in Sends, SendStep(s)
      PROVE  Inv'
  BY <1>1, ReadsNonceKeeps, FailsBeforePosting, CheckPassesKeeps, AnswerArrivesKeeps,
     NoAnswerKeeps, ResignsKeeps, Zenon DEF SendStep
<1>2. CASE UNCHANGED vars
  <2>1. UNCHANGED <<chainNonce, mempool, included, accepted, stray, kind, stage, nonce,
                    wire, unanswered>>
    BY <1>2 DEF vars, node, wallet
  <2>2. Typed' /\ Pooled' /\ Wired' /\ Told' /\ Unborn'
    BY <2>1 DEF Inv, Typed, Pooled, Wired, Told, Unborn, Signed
  <2>3. OneNonce' /\ Accounted' /\ RowsInOrder' /\ FirstReads' /\ RowsLinked'
    BY <2>1 DEF Inv, OneNonce, Accounted, RowsInOrder, FirstReads, RowsLinked, Fixed,
                RowsAfter, IsNextRow, Row
  <2> QED
    BY <2>2, <2>3 DEF Inv
<1> QED
  BY <1>1, <1>2, BeginKeeps, NodeHandlesKeeps, NodeHandlesStrayKeeps, ChainKeeps, Zenon DEF Next

LEMMA InitKeeps == Init => Inv
<1> SUFFICES ASSUME Init PROVE Inv
  OBVIOUS
<1>1. Typed /\ Pooled /\ Wired /\ Told /\ Unborn
  BY DEF Init, Typed, Pooled, Wired, Told, Unborn, Kinds, Stages, Wires
<1>2. OneNonce /\ Accounted
  BY DEF Init, OneNonce, Accounted
<1>3. RowsInOrder /\ FirstReads /\ RowsLinked
  BY DEF Init, RowsInOrder, FirstReads, RowsLinked, RowsAfter
<1> QED
  BY <1>1, <1>2, <1>3 DEF Inv

(* The invariant the theorems of this module rest on.                      *)
THEOREM InvHolds == Spec => []Inv
BY InitKeeps, StepKeeps, PTL DEF Spec

-----------------------------------------------------------------------------
(* submitTransaction and submitRetry: while every submission was answered,  *)
(* an approval is included at most once, on a chain any number of devices   *)
(* write to and with any number of HTTP attempts.                          *)
THEOREM AnsweredSendsArePaidOnce == Spec => []PaidOnceIfAnswered
<1>1. ASSUME Inv PROVE PaidOnceIfAnswered
  <2> SUFFICES ASSUME NEW s \in Sends \ unanswered, PaidTwice(s) PROVE FALSE
    BY DEF PaidOnceIfAnswered
  <2>1. PICK t, u \in accepted : t.of = s /\ u.of = s /\ t # u
    BY DEF PaidTwice, TransactionsOf
  <2>2. t \in Txs /\ u \in Txs /\ t.nonce = nonce[s] /\ u.nonce = nonce[s]
    BY <1>1, <2>1 DEF Inv, Typed, Accounted
  <2> QED
    BY <2>1, <2>2 DEF Txs
<1> QED
  BY <1>1, InvHolds, PTL

(* A bulk row, and a transaction whose nonce the site chose, is never       *)
(* included twice, although the same bytes are posted again when an answer  *)
(* is lost.                                                                *)
THEOREM RowsArePaidOnce == Spec => []RowsPaidOnce
<1>1. ASSUME Inv PROVE RowsPaidOnce
  <2> SUFFICES ASSUME NEW s \in Sends, Fixed(s), PaidTwice(s) PROVE FALSE
    BY DEF RowsPaidOnce, Fixed
  <2>1. PICK t, u \in accepted : t.of = s /\ u.of = s /\ t # u
    BY DEF PaidTwice, TransactionsOf
  <2>2. t \in Txs /\ u \in Txs /\ t.nonce = nonce[s] /\ u.nonce = nonce[s]
    BY <1>1, <2>1 DEF Inv, Typed, OneNonce
  <2> QED
    BY <2>1, <2>2 DEF Txs
<1> QED
  BY <1>1, InvHolds, PTL

(* A failure shown to the user, all of whose submissions were answered,     *)
(* leaves no transaction behind: none pending, included or on its way.     *)
THEOREM FailuresLeaveNothing == Spec => []FailedMeansUnsent
<1>1. ASSUME Inv PROVE FailedMeansUnsent
  <2> SUFFICES ASSUME NEW s \in Sends \ unanswered, stage[s] \in {"failed", "not_sent"},
                      NEW t \in accepted \cup stray, t.of = s
               PROVE  FALSE
    BY DEF FailedMeansUnsent, TransactionsOf
  <2>1. wire[s] = "accepted"
    BY <1>1 DEF Inv, Accounted
  <2> QED
    BY <1>1, <2>1 DEF Inv, Wired
<1> QED
  BY <1>1, InvHolds, PTL

(* The loop of the bulk panel: a row that may have reached the node comes   *)
(* right after a row the node took, and carries the nonce after it.        *)
THEOREM RowsFollowOn == Spec => []RowsLeaveNoGap
<1>1. ASSUME Inv PROVE RowsLeaveNoGap
  <2> SUFFICES ASSUME NEW s \in Sends, NEW t \in Sends, IsNextRow(s, t),
                      NEW x \in accepted \cup stray, x.of = t
               PROVE  Signed(s) \in accepted /\ nonce[t] = nonce[s] + 1
    BY DEF RowsLeaveNoGap, TransactionsOf
  <2>1. stage[t] \notin {"idle", "not_sent"}
    BY <1>1 DEF Inv, Unborn, Unsigned
  <2>2. stage[s] = "sent"
    BY <1>1, <2>1, NextIsAfter DEF Inv, RowsInOrder
  <2> QED
    BY <1>1, <2>1, <2>2 DEF Inv, Told, RowsLinked
<1> QED
  BY <1>1, InvHolds, PTL

-----------------------------------------------------------------------------
(***************************************************************************)
(* The wallet screen, for every set of networks and of addresses.          *)
(***************************************************************************)
Payees == Addresses \cup {"bond", "unbond", "claim"}
Forms  == {Editing}
  \cup [stage : {"resolving"}, on : Networks, byName : BOOLEAN, asset : {"boing", "token"}]
  \cup [stage : {"review"}, byName : BOOLEAN, to : Addresses, asset : {"boing", "token"},
        sim : {"none", "ok", "fail"}]
Transfers == [stage : {"rechecking", "submitting", "waiting"}, on : Networks,
              byName : BOOLEAN, to : Payees, seen : SUBSET Addresses]
Errands   == {Resting} \cup Transfers \cup [stage : {"faucet"}, on : Networks]

DashTyped ==
  /\ names \in [Networks -> Addresses] /\ selected \in Networks
  /\ form \in Forms /\ job \in Errands

(* What a transfer saw of its name has what the name stands for while it is *)
(* looked up, and its payee from then on.                                   *)
NameIsSeen ==
  /\ job.stage = "rechecking" => names[job.on] \in job.seen
  /\ job.stage \in {"submitting", "waiting"} => (job.byName => job.to \in job.seen)

DashInv == DashTyped /\ NameIsSeen

LEMMA ErrandFacts ==
  ASSUME job \in Errands
  PROVE  /\ job.stage \in {"rechecking", "submitting", "waiting"} => job \in Transfers
         /\ job.stage = "idle" => job = Resting
BY DEF Errands, Resting, Transfers

LEMMA FormFacts ==
  ASSUME form \in Forms, form.stage \in {"resolving", "review"}
  PROVE  /\ form.byName \in BOOLEAN /\ form.asset \in {"boing", "token"}
         /\ form.stage = "resolving" => form.on \in Networks
         /\ form.stage = "review" => /\ form.to \in Addresses /\ form.sim \in {"none", "ok", "fail"}
                                     /\ form = [stage |-> "review", byName |-> form.byName,
                                                to |-> form.to, asset |-> form.asset,
                                                sim |-> form.sim]
BY DEF Forms, Editing

(* The screen, the selection and the forms leave the transfer alone.        *)
LEMMA FormsKeep ==
  ASSUME DashInv, UNCHANGED <<names, job>>, selected' \in Networks, form' \in Forms
  PROVE  DashInv'
BY DEF DashInv, DashTyped, NameIsSeen

LEMMA ReviewKeeps ==
  ASSUME DashInv,
         \/ \E asset \in {"boing", "token"}, byName \in BOOLEAN : HandleSend(asset, byName)
         \/ Resolved \/ HandleSendFails \/ Estimated \/ TipChosen \/ Back
  PROVE  DashInv'
<1>1. /\ UNCHANGED <<names, selected, job>> /\ selected \in Networks
      /\ form \in Forms /\ names \in [Networks -> Addresses]
  BY DEF DashInv, DashTyped, HandleSend, Resolved, HandleSendFails, Estimated, TipChosen, Back
<1>2. form' \in Forms
  <2>1. CASE HandleSendFails \/ Back
    BY <2>1 DEF HandleSendFails, Back, Forms
  <2>2. ASSUME NEW asset \in {"boing", "token"}, NEW byName \in BOOLEAN, HandleSend(asset, byName)
        PROVE  form' \in Forms
    BY <1>1, <2>2 DEF HandleSend, Forms
  <2>3. CASE Resolved
    <3>1. /\ form.byName \in BOOLEAN /\ form.asset \in {"boing", "token"}
          /\ form.on \in Networks
      BY <1>1, <2>3, FormFacts DEF Resolved
    <3>2. PICK a \in Addresses :
            form' = [stage |-> "review", byName |-> form.byName, to |-> a,
                     asset |-> form.asset, sim |-> "none"]
      BY <1>1, <2>3, <3>1 DEF Resolved
    <3> QED BY <3>1, <3>2 DEF Forms
  <2>4. CASE Estimated \/ TipChosen
    <3>1. /\ form.stage = "review"
          /\ \E s \in {"none", "ok", "fail"} : form' = [form EXCEPT !.sim = s]
      BY <2>4 DEF Estimated, TipChosen
    <3>2. /\ form.byName \in BOOLEAN /\ form.asset \in {"boing", "token"}
          /\ form.to \in Addresses
          /\ form = [stage |-> "review", byName |-> form.byName, to |-> form.to,
                     asset |-> form.asset, sim |-> form.sim]
      BY <1>1, <3>1, FormFacts
    <3>3. PICK s \in {"none", "ok", "fail"} : form' = [form EXCEPT !.sim = s]
      BY <3>1
    <3>4. form' = [stage |-> "review", byName |-> form.byName, to |-> form.to,
                   asset |-> form.asset, sim |-> s]
      BY <3>2, <3>3
    <3> QED BY <3>2, <3>4 DEF Forms
  <2> QED BY <2>1, <2>2, <2>3, <2>4
<1> QED BY <1>1, <1>2, FormsKeep

(* The transfer itself.                                                     *)
LEMMA TransferKeeps ==
  ASSUME DashInv,
         \/ DoSend \/ Rechecked \/ Submits \/ SendSucceeds \/ SendFails \/ HandleFaucet
         \/ \E pays \in BOOLEAN : FaucetAnswers(pays)
         \/ \E what \in {"bond", "unbond", "claim"} : HandleStake(what)
         \/ \E n \in Networks : NameChanges(n)
  PROVE  DashInv'
<1>1. /\ names \in [Networks -> Addresses] /\ selected \in Networks
      /\ form \in Forms /\ job \in Errands /\ NameIsSeen
  BY DEF DashInv, DashTyped
<1>2. CASE DoSend
  <2>1. form.byName \in BOOLEAN /\ form.to \in Addresses
    BY <1>1, <1>2, FormFacts DEF DoSend, MayConfirm
  <2>2. /\ UNCHANGED <<names, selected, form>>
        /\ job' = [stage |-> IF form.byName THEN "rechecking" ELSE "submitting",
                   on |-> selected, byName |-> form.byName, to |-> form.to,
                   seen |-> {names[selected]}]
    BY <1>2 DEF DoSend
  <2>3. job' \in Transfers
    BY <1>1, <2>1, <2>2 DEF Transfers, Payees
  <2> QED BY <1>1, <2>1, <2>2, <2>3 DEF DashInv, DashTyped, NameIsSeen, Errands
<1>3. CASE SendSucceeds \/ SendFails \/ \E pays \in BOOLEAN : FaucetAnswers(pays)
  <2>1. job' = Resting /\ UNCHANGED <<names, selected>> /\ form' \in {form, Editing}
    BY <1>3 DEF SendSucceeds, SendFails, FaucetAnswers
  <2> QED BY <1>1, <2>1 DEF DashInv, DashTyped, NameIsSeen, Errands, Resting, Forms
<1>4. CASE HandleFaucet
  BY <1>1, <1>4 DEF HandleFaucet, DashInv, DashTyped, NameIsSeen, Errands
<1>5. ASSUME NEW what \in {"bond", "unbond", "claim"}, HandleStake(what)
      PROVE  DashInv'
  <2>1. /\ UNCHANGED <<names, selected, form>>
        /\ job' = [stage |-> "submitting", on |-> selected, byName |-> FALSE, to |-> what,
                   seen |-> {}]
    BY <1>5 DEF HandleStake
  <2>2. job' \in Transfers
    BY <1>1, <2>1 DEF Transfers, Payees
  <2> QED BY <1>1, <2>1, <2>2 DEF DashInv, DashTyped, NameIsSeen, Errands
<1>6. CASE Rechecked \/ Submits
  <2>1. job \in Transfers /\ UNCHANGED <<names, selected, form>>
    BY <1>1, <1>6, ErrandFacts DEF Rechecked, Submits
  <2>2. CASE job' = Resting
    BY <1>1, <2>1, <2>2 DEF DashInv, DashTyped, NameIsSeen, Errands, Resting
  <2>3. CASE job' # Resting
    <3>1. PICK s \in {"submitting", "waiting"} : job' = [job EXCEPT !.stage = s]
      BY <1>6, <2>3 DEF Rechecked, Submits
    <3>2. job' \in Transfers /\ job'.to = job.to /\ job'.seen = job.seen /\ job'.stage = s
          /\ job'.byName = job.byName
      BY <2>1, <3>1 DEF Transfers
    <3>3. job.byName => job.to \in job.seen
      BY <1>1, <1>6, <2>3 DEF Rechecked, Submits, NameIsSeen
    <3> QED BY <1>1, <2>1, <3>2, <3>3 DEF DashInv, DashTyped, NameIsSeen, Errands
  <2> QED BY <2>2, <2>3
<1>7. ASSUME NEW n \in Networks, NameChanges(n)
      PROVE  DashInv'
  <2>1. PICK a \in Addresses :
          /\ names' = [names EXCEPT ![n] = a]
          /\ job' = IF job.stage = "rechecking" /\ job.on = n
                    THEN [job EXCEPT !.seen = @ \cup {a}] ELSE job
    BY <1>7 DEF NameChanges
  <2>2. UNCHANGED <<selected, form>> /\ names' \in [Networks -> Addresses]
    BY <1>1, <1>7, <2>1 DEF NameChanges
  <2>3. CASE job.stage = "rechecking" /\ job.on = n
    <3>1. job \in Transfers
      BY <1>1, <2>3, ErrandFacts
    <3>2. /\ job' \in Transfers /\ job'.on = n /\ job'.stage = "rechecking"
          /\ job'.seen = job.seen \cup {a}
      BY <2>1, <2>3, <3>1 DEF Transfers
    <3> QED BY <1>1, <2>1, <2>2, <3>2 DEF DashInv, DashTyped, NameIsSeen, Errands
  <2>4. CASE ~(job.stage = "rechecking" /\ job.on = n)
    <3>1. job' = job
      BY <2>1, <2>4
    <3>2. job.stage = "rechecking" => names'[job.on] = names[job.on]
      <4>1. job.stage = "rechecking" => job.on \in Networks /\ job.on # n
        BY <1>1, <2>4, ErrandFacts DEF Transfers
      <4> QED BY <1>1, <2>1, <4>1
    <3> QED BY <1>1, <2>2, <3>1, <3>2 DEF DashInv, DashTyped, NameIsSeen
  <2> QED BY <2>3, <2>4
<1> QED BY <1>2, <1>3, <1>4, <1>5, <1>6, <1>7

LEMMA DashKeeps ==
  ASSUME DashInv, [DashNext]_dashVars
  PROVE  DashInv'
<1>1. CASE \/ UNCHANGED dashVars \/ Unlocks \/ Locks \/ IntervalFires
           \/ \E n \in Networks : \/ SetNetwork(n) \/ CatchUpFires(n)
                                  \/ AccountArrives(n) \/ AccountFails(n)
  <2>1. UNCHANGED <<names, job>> /\ selected' \in Networks /\ form' \in Forms
    BY <1>1 DEF DashInv, DashTyped, dashVars, Unlocks, Locks, IntervalFires, SetNetwork,
                CatchUpFires, AccountArrives, AccountFails, amount, Forms
  <2> QED BY <2>1, FormsKeep
<1> QED BY <1>1, ReviewKeeps, TransferKeeps DEF DashNext

(* Money sent by name goes where the name stood for after the user          *)
(* confirmed, on the network it is sent on, whatever network the review was *)
(* of and however often the name moved (Dashboard.tsx: doSend).             *)
THEOREM NamesAreCheckedAgain == DashSpec => SentToWhatTheNameSays
<1>1. DashInit => DashInv
  BY DEF DashInit, DashInv, DashTyped, NameIsSeen, Errands, Forms, Resting
<1>2. DashInv /\ [DashNext]_dashVars =>
        [job.stage = "submitting" /\ job.byName /\ sent' # sent => job.to \in job.seen]_dashVars
  BY DEF DashInv, NameIsSeen
<1> QED
  BY <1>1, <1>2, DashKeeps, PTL DEF DashSpec, SentToWhatTheNameSays

=============================================================================
