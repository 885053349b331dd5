---------------------------- MODULE AssetsProofs ----------------------------
(***************************************************************************)
(* The assets of an account: what is selected in the NFT panel is owned    *)
(* (SelectionIsOwned), no reviewed row of a bulk transfer is taken twice by*)
(* the node (ReviewedPaidOnce), the history ends where the chain begins    *)
(* (EndIsTheEnd), the list of a load has every token watched before it     *)
(* (WatchedBeforeAreShown), and the scan for NFTs accounts for every block *)
(* it passed (KeepsScanPromise).                                           *)
(***************************************************************************)
EXTENDS NftScan, NftPanel, BulkPanel, ChainHistory, TokenHoldings, FiniteSetTheorems, TLAPS

-----------------------------------------------------------------------------
(* Every set of naturals has a least one: of the intervals below its        *)
(* elements one is in no other.                                             *)
LEMMA LeastNatural ==
  ASSUME NEW S \in SUBSET Nat, S # {}
  PROVE  \E m \in S : \A k \in S : m <= k
<1> PICK n \in S : TRUE
  OBVIOUS
<1> DEFINE Up == {0 .. m : m \in {k \in S : k <= n}}
           R == StrictSubsetOrdering(0 .. n)
<1>1. IsFiniteSet(0 .. n)
  BY FS_Interval
<1>2. IsWellFoundedOn(R, SUBSET (0 .. n))
  BY <1>1, FS_StrictSubsetOrderingWellFounded, FS_FiniteSubsetsOfFinite
<1>3. Up \subseteq SUBSET (0 .. n) /\ Up # {}
  OBVIOUS
<1>4. PICK x \in Up : \A y \in Up : <<y, x>> \notin R
  BY <1>2, <1>3, WFMin
<1>5. PICK m \in {k \in S : k <= n} : x = 0 .. m
  OBVIOUS
<1>6. ASSUME NEW k \in S, k < m PROVE FALSE
  <2>1. 0 .. k \in Up /\ 0 .. k \subseteq 0 .. m /\ m \notin 0 .. k
    BY <1>6
  <2>2. 0 .. k # 0 .. m
    BY <2>1
  <2>3. <<0 .. k, 0 .. m>> \in R
    <3>1. 0 .. k \in SUBSET (0 .. n) /\ 0 .. m \in SUBSET (0 .. n)
      BY <1>3, <1>5, <2>1
    <3> QED BY <2>1, <2>2, <3>1 DEF StrictSubsetOrdering
  <2> QED
    BY <1>4, <1>5, <2>1, <2>3
<1> QED
  BY <1>6

-----------------------------------------------------------------------------
(***************************************************************************)
(* The NFT panel, for every set of items and of overlapping refreshes.     *)
(* The property is inductive as it stands: every step that brings another  *)
(* list to the screen takes the selection along.                           *)
(***************************************************************************)
(* The steps of the chain, of refreshes under way and of a transfer that do *)
(* not touch the screen.                                                    *)
LEMMA OffScreen ==
  ASSUME SelectionIsOwned, UNCHANGED <<selected, statuses>>
  PROVE  SelectionIsOwned'
BY DEF SelectionIsOwned, Owned

(* The list on the screen stays, and nothing is selected in addition.       *)
LEMMA FewerSelected ==
  ASSUME SelectionIsOwned, UNCHANGED statuses, selected' \subseteq selected
  PROVE  SelectionIsOwned'
BY DEF SelectionIsOwned, Owned

LEMMA ShowsKeepsSelection ==
  ASSUME SelectionIsOwned, NEW p \in Refreshes, Shows(p)
  PROVE  SelectionIsOwned'
<1>1. CASE refresh[p].here
  BY <1>1 DEF Shows, SelectionIsOwned, Owned
<1>2. CASE ~refresh[p].here
  BY <1>2, OffScreen DEF Shows
<1> QED
  BY <1>1, <1>2

LEMMA UserKeepsSelection ==
  ASSUME SelectionIsOwned, NEW n \in Nfts,
         OpenDetail(n) \/ ToggleSelected(n)
  PROVE  SelectionIsOwned'
<1>1. CASE OpenDetail(n)
  BY <1>1 DEF OpenDetail, Listed, SelectionIsOwned, Owned
<1>2. CASE ToggleSelected(n)
  BY <1>2 DEF ToggleSelected, Listed, SelectionIsOwned, Owned
<1> QED
  BY <1>1, <1>2

LEMMA NextKeepsSelection ==
  ASSUME SelectionIsOwned, [NftsNext]_panelVars
  PROVE  SelectionIsOwned'
<1>1. CASE RefreshPressed \/ RefreshLater
  BY <1>1, OffScreen DEF RefreshPressed, RefreshLater, choice
<1>2. CASE EditWritten
  BY <1>2, FewerSelected DEF EditWritten
<1>3. CASE CloseDetail \/ HandleTransfer \/ RecipientFound \/ Confirm \/ TransferFails
  BY <1>3, OffScreen
     DEF CloseDetail, HandleTransfer, RecipientFound, Confirm, TransferFails, choice
<1>4. CASE LeavesTab
  BY <1>4 DEF LeavesTab, SelectionIsOwned
<1>5. CASE SelectAllOwned
  BY <1>5 DEF SelectAllOwned, SelectionIsOwned, Owned
<1>6. CASE ClearSelection
  BY <1>6, FewerSelected DEF ClearSelection
<1>7. ASSUME NEW n \in Nfts,
             Included(n) \/ Received(n) \/ HandleAdd(n) \/ HandleRemove(n)
      PROVE  SelectionIsOwned'
  BY <1>7, OffScreen DEF Included, Received, HandleAdd, HandleRemove, choice
<1>8. ASSUME NEW n \in Nfts, OpenDetail(n) \/ ToggleSelected(n)
      PROVE  SelectionIsOwned'
  BY <1>8, UserKeepsSelection
<1>9. ASSUME NEW n \in Nfts, TransferOne(n)
      PROVE  SelectionIsOwned'
  BY <1>9, FewerSelected DEF TransferOne
<1>10. ASSUME NEW p \in Refreshes, FindsRead(p) \/ FindsWritten(p) \/ Lists(p) \/ RefreshFails(p)
       PROVE  SelectionIsOwned'
  BY <1>10, OffScreen DEF FindsRead, FindsWritten, Lists, RefreshFails, choice
<1>11. ASSUME NEW p \in Refreshes, Shows(p)
       PROVE  SelectionIsOwned'
  BY <1>11, ShowsKeepsSelection
<1>12. CASE UNCHANGED panelVars
  BY <1>12, OffScreen DEF panelVars
<1> QED
  BY <1>1, <1>2, <1>3, <1>4, <1>5, <1>6, <1>7, <1>8, <1>9, <1>10, <1>11, <1>12 DEF NftsNext

(* An item that a refresh finds gone does not stay among the selected ones,  *)
(* in whatever order the refreshes come to the screen                       *)
(* (NftHoldingsPanel, refresh).                                             *)
THEOREM SelectionOwned == NftsSpec => []SelectionIsOwned
<1>1. NftsInit => SelectionIsOwned
  BY DEF NftsInit, SelectionIsOwned
<1>2. SelectionIsOwned /\ [NftsNext]_panelVars => SelectionIsOwned'
  BY NextKeepsSelection
<1> QED
  BY <1>1, <1>2, PTL DEF NftsSpec

-----------------------------------------------------------------------------
(***************************************************************************)
(* The bulk panel, for every set of numbered rows, and every balance, fee  *)
(* and limit.                                                              *)
(***************************************************************************)
(* Of the pending rows one is the next.                                     *)
LEMMA NextRow ==
  ASSUME NEW S \in SUBSET Rows, S # {}
  PROVE  \E s \in S : \A t \in S : s.no <= t.no
<1> DEFINE Nos == {s.no : s \in S}
<1>1. Nos \in SUBSET Nat /\ Nos # {}
  BY RowsAssumption
<1>2. PICK n \in Nos : \A k \in Nos : n <= k
  BY <1>1, LeastNatural
<1> QED
  BY <1>2

RunStages == {"idle", "nonce", "batch", "answer", "sequential", "row"}

BulkTyped ==
  /\ form \subseteq Rows
  /\ checking \subseteq SUBSET Rows /\ validated \subseteq SUBSET Rows
  /\ mode \in {"batch", "sequential"}
  /\ run \in [stage : RunStages, here : BOOLEAN, rows : SUBSET Rows]
  /\ paid \in [Rows -> Nat]

Running == run.stage # "idle"
Free(S) == \A r \in S : paid[r] = 0

(* A review is made of the form, and shown while nothing runs.              *)
ReviewsApart ==
  /\ checking # {} => stage = "edit" /\ ~Running
  /\ Running => stage # "review"

(* At most one set of rows is reviewed; what runs is that one.              *)
OneReview ==
  /\ \A S, T \in validated : S = T
  /\ Running => \A S \in validated : S = run.rows

(* The rows that may still be sent have not been taken.                     *)
FreeInReview == stage = "review" => \A S \in validated : Free(S)
FreeBefore   == run.stage \in {"nonce", "batch"} \/ (run.stage = "answer" /\ ~takes)
                  => Free(run.rows)
FreePending  == \A r \in run.rows :
                  run.stage \in {"sequential", "row"} /\ status[r] = "pending" => paid[r] = 0

StatusOfRun == Running => status = [r \in run.rows |-> status[r]]

BulkInv ==
  /\ BulkTyped /\ ReviewsApart /\ OneReview /\ StatusOfRun
  /\ FreeInReview /\ FreeBefore /\ FreePending
  /\ ReviewedPaidOnce

-----------------------------------------------------------------------------
(* Nothing is paid and no run moves on: it suffices to look at the reviews. *)
LEMMA RunUntouched ==
  ASSUME BulkInv, UNCHANGED <<takes, run, status, paid>>
  PROVE  StatusOfRun' /\ FreeBefore' /\ FreePending' /\ ReviewedPaidOnce'
BY DEF BulkInv, StatusOfRun, FreeBefore, FreePending, ReviewedPaidOnce, Free, Running

LEMMA FormSteps ==
  ASSUME BulkInv,
         \/ \E r \in Rows : EditRow(r)
         \/ \E lines \in SUBSET Rows : ImportCsv(lines)
         \/ Review \/ BackToEdit
  PROVE  BulkInv'
<1>1. UNCHANGED <<takes, run, status, paid, validated, mode>>
  BY DEF EditRow, ImportCsv, Review, BackToEdit, entered, reviewed, told
<1>2. BulkTyped' /\ ReviewsApart'
  <2>1. ASSUME NEW r \in Rows, EditRow(r) PROVE BulkTyped' /\ ReviewsApart'
    BY <2>1 DEF EditRow, BulkInv, BulkTyped, ReviewsApart, Running, reviewed, told
  <2>2. ASSUME NEW lines \in SUBSET Rows, ImportCsv(lines) PROVE BulkTyped' /\ ReviewsApart'
    BY <2>2 DEF ImportCsv, ParseBulkCsv, BulkInv, BulkTyped, ReviewsApart, Running, reviewed, told
  <2>3. CASE Review
    BY <2>3 DEF Review, FormShown, BulkInv, BulkTyped, ReviewsApart, Running, entered, told
  <2>4. CASE BackToEdit
    BY <2>4 DEF BackToEdit, BulkInv, BulkTyped, ReviewsApart, Running, entered, reviewed, told
  <2> QED
    BY <2>1, <2>2, <2>3, <2>4
<1>3. stage' = "review" => stage = "review"
  BY DEF EditRow, ImportCsv, Review, BackToEdit
<1>4. OneReview' /\ FreeInReview'
  BY <1>1, <1>3 DEF BulkInv, OneReview, FreeInReview, Free, Running
<1> QED
  BY <1>1, <1>2, <1>4, RunUntouched DEF BulkInv

(* The panel starts over, from its form or after a run.                     *)
LEMMA ResetStep ==
  ASSUME BulkInv, Reset
  PROVE  BulkInv'
<1>1. ~Running /\ UNCHANGED <<takes, run, paid, checking, mode>>
  BY DEF Reset, FormShown, Running
<1>2. validated' = {} /\ stage' = "edit" /\ form' = {}
  BY DEF Reset
<1>3. BulkTyped' /\ ReviewsApart' /\ OneReview' /\ FreeInReview'
  BY <1>1, <1>2 DEF BulkInv, BulkTyped, ReviewsApart, OneReview, FreeInReview, Running
<1>4. StatusOfRun' /\ FreeBefore' /\ FreePending' /\ ReviewedPaidOnce'
  BY <1>1 DEF BulkInv, StatusOfRun, FreeBefore, FreePending, ReviewedPaidOnce, Running
<1> QED
  BY <1>3, <1>4 DEF BulkInv

(* A review is made while nothing runs, and its rows begin unpaid.          *)
LEMMA ReviewMadeStep ==
  ASSUME BulkInv, ReviewMade
  PROVE  BulkInv'
<1>1. PICK S \in checking : checking' = {} /\
        \/ UNCHANGED <<stage, validated, paid>>
        \/ stage' = "review" /\ validated' = {S} /\ paid' = [r \in Rows |-> 0]
  BY DEF ReviewMade
<1>2. ~Running /\ S \in SUBSET Rows
  BY DEF BulkInv, BulkTyped, ReviewsApart
<1>3. UNCHANGED <<form, takes, run, status>> /\ mode' \in {"batch", "sequential"}
  BY DEF ReviewMade, PlanBulkMode, entered, told
<1>4. ~Running'
  BY <1>2, <1>3 DEF Running
<1>5. ReviewsApart' /\ OneReview'
  BY <1>1, <1>4 DEF BulkInv, ReviewsApart, OneReview
<1>6. paid' \in [Rows -> Nat] /\ ReviewedPaidOnce'
  BY <1>1 DEF BulkInv, BulkTyped, ReviewedPaidOnce
<1>7. BulkTyped'
  BY <1>1, <1>2, <1>3, <1>6 DEF BulkInv, BulkTyped
<1>8. FreeInReview'
  BY <1>1, <1>2 DEF BulkInv, FreeInReview, Free
<1>9. StatusOfRun' /\ FreeBefore' /\ FreePending'
  BY <1>4 DEF StatusOfRun, FreeBefore, FreePending, Running
<1> QED
  BY <1>5, <1>6, <1>7, <1>8, <1>9 DEF BulkInv

-----------------------------------------------------------------------------
(* The run begins with the rows of the review, unpaid.                      *)
LEMMA RunStep ==
  ASSUME BulkInv, NEW locked \in BOOLEAN, Run(locked)
  PROVE  BulkInv'
<1>1. PICK S \in validated :
        IF locked THEN stage' = "edit" /\ UNCHANGED <<run, told>>
        ELSE /\ stage' = "progress"
             /\ run' = [stage |-> "nonce", here |-> TRUE, rows |-> S]
             /\ status' = [r \in S |-> IF mode = "batch" THEN "signing" ELSE "pending"]
  BY DEF Run
<1>2. /\ stage = "review" /\ ~Running /\ checking = {} /\ Free(S) /\ S \in SUBSET Rows
      /\ UNCHANGED <<takes, form, checking, validated, mode, paid>>
  BY DEF Run, BulkInv, BulkTyped, ReviewsApart, FreeInReview, Running, entered, reviewed
<1>3. CASE locked
  <2>1. UNCHANGED <<run, status>> /\ stage' = "edit"
    BY <1>1, <1>3 DEF told
  <2>2. BulkTyped' /\ ReviewsApart' /\ OneReview' /\ FreeInReview'
    BY <1>2, <2>1 DEF BulkInv, BulkTyped, ReviewsApart, OneReview, FreeInReview, Running
  <2> QED
    BY <1>2, <2>1, <2>2, RunUntouched DEF BulkInv
<1>4. CASE ~locked
  <2>1. /\ run'.stage = "nonce" /\ run'.rows = S /\ stage' = "progress"
        /\ run' \in [stage : RunStages, here : BOOLEAN, rows : SUBSET Rows]
        /\ status' = [r \in S |-> status'[r]]
    <3>1. /\ stage' = "progress"
          /\ run' = [stage |-> "nonce", here |-> TRUE, rows |-> S]
          /\ status' = [r \in S |-> IF mode = "batch" THEN "signing" ELSE "pending"]
      BY <1>1, <1>4
    <3>2. run' \in [stage : RunStages, here : BOOLEAN, rows : SUBSET Rows]
      BY <1>2, <3>1 DEF RunStages
    <3>3. status' = [r \in S |-> status'[r]]
      BY <3>1
    <3> QED
      BY <3>1, <3>2, <3>3
  <2>2. BulkTyped' /\ ReviewsApart' /\ FreeInReview'
    BY <1>2, <2>1 DEF BulkInv, BulkTyped, ReviewsApart, FreeInReview
  <2>3. OneReview'
    BY <1>2, <2>1 DEF BulkInv, OneReview
  <2>4. StatusOfRun' /\ FreeBefore' /\ FreePending' /\ ReviewedPaidOnce'
    BY <1>2, <2>1 DEF BulkInv, StatusOfRun, FreeBefore, FreePending, Free, ReviewedPaidOnce
  <2> QED
    BY <2>2, <2>3, <2>4 DEF BulkInv
<1> QED
  BY <1>3, <1>4

(* A step of the run after which it still runs the same rows.               *)
LEMMA RunGoesOn ==
  ASSUME BulkInv, Running, NEW s \in RunStages \ {"idle"},
         run' = [run EXCEPT !.stage = s],
         UNCHANGED <<form, checking, validated, mode, stage>>,
         paid' \in [Rows -> Nat]
  PROVE  /\ BulkTyped' /\ ReviewsApart' /\ OneReview' /\ FreeInReview'
         /\ run'.stage = s /\ run'.rows = run.rows
<1>1. /\ run'.stage = s /\ run'.rows = run.rows
      /\ run' \in [stage : RunStages, here : BOOLEAN, rows : SUBSET Rows]
  BY DEF BulkInv, BulkTyped, RunStages
<1>2. BulkTyped'
  BY <1>1 DEF BulkInv, BulkTyped
<1>3. ReviewsApart' /\ OneReview' /\ FreeInReview'
  BY <1>1 DEF BulkInv, ReviewsApart, OneReview, FreeInReview, Running
<1> QED
  BY <1>1, <1>2, <1>3

LEMMA NonceStep ==
  ASSUME BulkInv, NonceArrives
  PROVE  BulkInv'
<1>1. /\ run.stage = "nonce" /\ run' = [run EXCEPT !.stage = mode] /\ mode \in RunStages \ {"idle"}
      /\ UNCHANGED <<takes, form, checking, validated, mode, stage, status, paid>>
  BY DEF NonceArrives, BulkInv, BulkTyped, RunStages, entered, reviewed, told
<1>2. /\ BulkTyped' /\ ReviewsApart' /\ OneReview' /\ FreeInReview'
      /\ run'.stage = mode /\ run'.rows = run.rows
  BY <1>1, RunGoesOn DEF Running, BulkInv, BulkTyped
<1>3. Free(run.rows) /\ StatusOfRun'
  BY <1>1, <1>2 DEF BulkInv, FreeBefore, StatusOfRun, Running
<1>4. FreeBefore' /\ FreePending' /\ ReviewedPaidOnce'
  BY <1>1, <1>2, <1>3 DEF BulkInv, FreeBefore, FreePending, Free, ReviewedPaidOnce
<1> QED
  BY <1>2, <1>3, <1>4 DEF BulkInv

-----------------------------------------------------------------------------
(* The batch.                                                              *)
LEMMA BatchStep ==
  ASSUME BulkInv, BatchSubmitted
  PROVE  BulkInv'
<1>1. /\ run.stage = "batch" /\ run' = [run EXCEPT !.stage = "answer"]
      /\ UNCHANGED <<takes, form, checking, validated, mode, stage, status>>
      /\ ~takes => paid' = paid
      /\ \/ paid' = paid
         \/ paid' = [r \in Rows |-> IF r \in run.rows THEN paid[r] + 1 ELSE paid[r]]
  BY DEF BatchSubmitted, MayTake, entered, reviewed, told
<1>2. Free(run.rows) /\ paid \in [Rows -> Nat]
  BY <1>1 DEF BulkInv, BulkTyped, FreeBefore
<1>3. paid' \in [Rows -> Nat] /\ ReviewedPaidOnce'
  BY <1>1, <1>2 DEF BulkInv, ReviewedPaidOnce, Free
<1>4. /\ BulkTyped' /\ ReviewsApart' /\ OneReview' /\ FreeInReview'
      /\ run'.stage = "answer" /\ run'.rows = run.rows
  BY <1>1, <1>3, RunGoesOn DEF Running, RunStages
<1>5. FreeBefore' /\ FreePending' /\ StatusOfRun'
  BY <1>1, <1>2, <1>4 DEF BulkInv, FreeBefore, FreePending, Free, StatusOfRun, Running
<1> QED
  BY <1>3, <1>4, <1>5 DEF BulkInv

(* The run is over, and no review is shown that was not before.             *)
LEMMA RunOver ==
  ASSUME BulkInv, Running, run' = NoRun,
         UNCHANGED <<form, checking, mode, stage, paid>>, validated' \subseteq validated
  PROVE  BulkInv'
<1>1. run'.stage = "idle" /\ run' \in [stage : RunStages, here : BOOLEAN, rows : SUBSET Rows]
  BY DEF NoRun, RunStages
<1>2. stage # "review" /\ checking = {}
  BY DEF BulkInv, ReviewsApart
<1>3. BulkTyped'
  BY <1>1 DEF BulkInv, BulkTyped
<1>4. ReviewsApart' /\ OneReview' /\ FreeInReview' /\ ReviewedPaidOnce'
  BY <1>1, <1>2 DEF BulkInv, ReviewsApart, OneReview, FreeInReview, ReviewedPaidOnce, Running
<1>5. StatusOfRun' /\ FreeBefore' /\ FreePending'
  BY <1>1 DEF StatusOfRun, FreeBefore, FreePending, Running
<1> QED
  BY <1>3, <1>4, <1>5 DEF BulkInv

LEMMA RunEndings ==
  ASSUME BulkInv, NonceFails \/ BatchAccepted \/ RunEnds
  PROVE  BulkInv'
<1>1. CASE NonceFails
  BY <1>1, RunOver DEF NonceFails, Running, entered, reviewed
<1>2. CASE BatchAccepted
  <2>1. validated' \subseteq validated
    BY <1>2 DEF BatchAccepted
  <2> QED
    BY <1>2, <2>1, RunOver DEF BatchAccepted, Running, entered
<1>3. CASE RunEnds
  <2>1. validated' \subseteq validated
    BY <1>3 DEF RunEnds
  <2> QED
    BY <1>3, <2>1, RunOver DEF RunEnds, Running, entered
<1> QED
  BY <1>1, <1>2, <1>3

(* A node that could not decode the batch has taken none of it: the same    *)
(* rows are reviewed again.                                                 *)
LEMMA BatchFailsStep ==
  ASSUME BulkInv, BatchFails
  PROVE  BulkInv'
<1>1. /\ run.stage = "answer" /\ run' = NoRun
      /\ UNCHANGED <<takes, form, checking, validated, paid>>
  BY DEF BatchFails, entered
<1>2. CASE UNCHANGED <<mode, stage>>
  BY <1>1, <1>2, RunOver DEF Running
<1>3. CASE ~UNCHANGED <<mode, stage>>
  <2>1. ~takes /\ mode' \in {"batch", "sequential"} /\ stage' \in {"review", stage}
    BY <1>3 DEF BatchFails, BulkInv, BulkTyped
  <2>2. Free(run.rows) /\ checking = {} /\ \A S \in validated : S = run.rows
    BY <1>1, <2>1 DEF BulkInv, FreeBefore, ReviewsApart, OneReview, Running
  <2>3. run'.stage = "idle" /\ run' \in [stage : RunStages, here : BOOLEAN, rows : SUBSET Rows]
    BY <1>1 DEF NoRun, RunStages
  <2>4. BulkTyped'
    BY <1>1, <2>1, <2>3 DEF BulkInv, BulkTyped
  <2>5. ReviewsApart' /\ OneReview' /\ ReviewedPaidOnce'
    BY <1>1, <2>2, <2>3 DEF BulkInv, ReviewsApart, OneReview, ReviewedPaidOnce, Running
  <2>6. FreeInReview'
    BY <1>1, <2>2 DEF FreeInReview, Free
  <2>7. StatusOfRun' /\ FreeBefore' /\ FreePending'
    BY <2>3 DEF StatusOfRun, FreeBefore, FreePending, Running
  <2> QED
    BY <2>4, <2>5, <2>6, <2>7 DEF BulkInv
<1> QED
  BY <1>2, <1>3

-----------------------------------------------------------------------------
(* One row after the other.                                                *)

(* The next row is a pending one, and no longer pending once it is sent.    *)
LEMMA RowStep ==
  ASSUME BulkInv, RowSubmitted
  PROVE  BulkInv'
<1> DEFINE r == CHOOSE s \in Pending : \A t \in Pending : s.no <= t.no
<1>1. /\ run.stage = "sequential" /\ run' = [run EXCEPT !.stage = "row"]
      /\ Pending # {} /\ status' = [status EXCEPT ![r] = "signing"]
      /\ UNCHANGED <<takes, form, checking, validated, mode, stage>>
      /\ MayTake({r})
  BY DEF RowSubmitted, entered, reviewed
<1>2. Pending \in SUBSET Rows /\ Pending = {s \in run.rows : status[s] = "pending"}
  BY <1>1 DEF Pending, BulkInv, BulkTyped
<1>3. r \in Pending
  <2>1. \E s \in Pending : \A t \in Pending : s.no <= t.no
    BY <1>1, <1>2, NextRow
  <2> QED
    BY <2>1
<1>4. r \in run.rows /\ r \in Rows /\ status[r] = "pending" /\ paid[r] = 0
      /\ paid \in [Rows -> Nat]
  BY <1>1, <1>2, <1>3 DEF BulkInv, BulkTyped, FreePending
<1> HIDE DEF r
<1>5. /\ paid' \in [Rows -> Nat] /\ ReviewedPaidOnce'
      /\ \A s \in Rows : s # r => paid'[s] = paid[s]
  <2>1. \/ paid' = paid
        \/ paid' = [s \in Rows |-> IF s \in {r} THEN paid[s] + 1 ELSE paid[s]]
    BY <1>1 DEF MayTake
  <2> QED
    BY <1>4, <2>1 DEF BulkInv, ReviewedPaidOnce
<1>6. status' = [s \in run.rows |-> IF s = r THEN "signing" ELSE status[s]]
  BY <1>1, <1>4 DEF BulkInv, StatusOfRun, Running
<1>7. /\ BulkTyped' /\ ReviewsApart' /\ OneReview' /\ FreeInReview'
      /\ run'.stage = "row" /\ run'.rows = run.rows
  BY <1>1, <1>5, RunGoesOn DEF Running, RunStages
<1>8. run.rows \subseteq Rows
  BY DEF BulkInv, BulkTyped
<1>9. FreePending'
  BY <1>1, <1>5, <1>6, <1>7, <1>8 DEF BulkInv, FreePending
<1>10. FreeBefore' /\ StatusOfRun'
  BY <1>6, <1>7 DEF FreeBefore, StatusOfRun
<1> QED
  BY <1>5, <1>7, <1>9, <1>10 DEF BulkInv

(* The answer for a row makes none pending.                                 *)
LEMMA RowAnswered ==
  ASSUME BulkInv, RowAccepted \/ RowFails
  PROVE  BulkInv'
<1>1. /\ run.stage = "row" /\ run' = [run EXCEPT !.stage = "sequential"]
      /\ UNCHANGED <<takes, form, checking, validated, mode, stage, paid>>
  BY DEF RowAccepted, RowFails, entered, reviewed
<1>2. status = [s \in run.rows |-> status[s]]
  BY <1>1 DEF BulkInv, StatusOfRun, Running
<1>3. /\ status' = [s \in run.rows |-> status'[s]]
      /\ \A s \in run.rows : status'[s] = "pending" => status[s] = "pending"
  <2>1. CASE RowAccepted
    <3>1. PICK r \in run.rows : status' = [status EXCEPT ![r] = "submitted"]
      BY <2>1 DEF RowAccepted
    <3>2. status' = [s \in run.rows |-> IF s = r THEN "submitted" ELSE status[s]]
      BY <1>2, <3>1
    <3> QED
      BY <3>2
  <2>2. CASE RowFails
    BY <2>2 DEF RowFails
  <2> QED
    BY <2>1, <2>2
<1>4. /\ BulkTyped' /\ ReviewsApart' /\ OneReview' /\ FreeInReview'
      /\ run'.stage = "sequential" /\ run'.rows = run.rows
  BY <1>1, RunGoesOn DEF Running, RunStages, BulkInv, BulkTyped
<1>5. FreePending' /\ FreeBefore' /\ StatusOfRun' /\ ReviewedPaidOnce'
  BY <1>1, <1>3, <1>4 DEF BulkInv, FreePending, FreeBefore, StatusOfRun, ReviewedPaidOnce
<1> QED
  BY <1>4, <1>5 DEF BulkInv

-----------------------------------------------------------------------------
LEMMA StopStep ==
  ASSUME BulkInv, StopAfterCurrent \/ UNCHANGED bulkVars
  PROVE  BulkInv'
<1>1. UNCHANGED <<takes, form, stage, checking, validated, mode, run, status, paid>>
  BY DEF StopAfterCurrent, bulkVars, entered, reviewed, told
<1>2. BulkTyped' /\ ReviewsApart' /\ OneReview' /\ FreeInReview'
  BY <1>1 DEF BulkInv, BulkTyped, ReviewsApart, OneReview, FreeInReview, Free, Running
<1> QED
  BY <1>1, <1>2, RunUntouched DEF BulkInv

(* The panel is left: a run goes on, with its rows and its mode.            *)
LEMMA LeavesStep ==
  ASSUME BulkInv, LeavesPane
  PROVE  BulkInv'
<1>1. /\ form' = {} /\ stage' = "edit" /\ checking' = {} /\ validated' = {}
      /\ mode' \in {"batch", "sequential"} /\ UNCHANGED <<takes, paid>>
      /\ Running => status' = status
      /\ run' = [run EXCEPT !.here = run.stage = "idle"]
  BY DEF LeavesPane, BulkInv, BulkTyped, Running
<1>2. run'.stage = run.stage /\ run'.rows = run.rows
  BY <1>1 DEF BulkInv, BulkTyped
<1>3. run' \in [stage : RunStages, here : BOOLEAN, rows : SUBSET Rows]
  BY <1>1 DEF BulkInv, BulkTyped
<1>4. BulkTyped' /\ ReviewsApart' /\ OneReview' /\ FreeInReview' /\ ReviewedPaidOnce'
  BY <1>1, <1>3
     DEF BulkInv, BulkTyped, ReviewsApart, OneReview, FreeInReview, ReviewedPaidOnce
<1>5. StatusOfRun' /\ FreeBefore' /\ FreePending'
  BY <1>1, <1>2 DEF BulkInv, StatusOfRun, FreeBefore, FreePending, Free, Running
<1> QED
  BY <1>4, <1>5 DEF BulkInv

LEMMA BulkKeepsInv ==
  ASSUME BulkInv, [BulkNext]_bulkVars
  PROVE  BulkInv'
<1>1. CASE Review \/ BackToEdit \/ (\E r \in Rows : EditRow(r))
           \/ (\E lines \in SUBSET Rows : ImportCsv(lines))
  BY <1>1, FormSteps
<1>2. CASE Reset \/ ReviewMade
  BY <1>2, ResetStep, ReviewMadeStep
<1>3. CASE (\E locked \in BOOLEAN : Run(locked)) \/ NonceArrives
  BY <1>3, RunStep, NonceStep
<1>4. CASE NonceFails \/ BatchAccepted \/ RunEnds
  BY <1>4, RunEndings
<1>5. CASE BatchSubmitted \/ BatchFails
  BY <1>5, BatchStep, BatchFailsStep
<1>6. CASE RowSubmitted \/ RowAccepted \/ RowFails
  BY <1>6, RowStep, RowAnswered
<1>7. CASE StopAfterCurrent \/ LeavesPane \/ UNCHANGED bulkVars
  BY <1>7, StopStep, LeavesStep
<1> QED
  BY <1>1, <1>2, <1>3, <1>4, <1>5, <1>6, <1>7 DEF BulkNext

(* By a batch, by one transaction per row, or by the one after the other was *)
(* refused, the node takes no row of a review twice, though the panel is    *)
(* left or edited in the middle (BulkTransferPanel, runSequentialBulkTransfer). *)
THEOREM RowsPaidOnceByPanel == BulkSpec => []ReviewedPaidOnce
<1>1. BulkInit => BulkInv
  <2> SUFFICES ASSUME BulkInit PROVE BulkInv
    OBVIOUS
  <2>1. run.stage = "idle" /\ run \in [stage : RunStages, here : BOOLEAN, rows : SUBSET Rows]
    BY DEF BulkInit, NoRun, RunStages
  <2>2. BulkTyped /\ ReviewedPaidOnce
    BY <2>1 DEF BulkInit, BulkTyped, ReviewedPaidOnce
  <2>3. ReviewsApart /\ OneReview /\ StatusOfRun /\ FreeInReview
    BY <2>1 DEF BulkInit, ReviewsApart, OneReview, StatusOfRun, FreeInReview, Running
  <2>4. FreeBefore /\ FreePending
    BY <2>1 DEF FreeBefore, FreePending
  <2> QED
    BY <2>2, <2>3, <2>4 DEF BulkInv
<1>2. BulkInv /\ [BulkNext]_bulkVars => BulkInv'
  BY BulkKeepsInv
<1>3. BulkInv => ReviewedPaidOnce
  BY DEF BulkInv
<1> QED
  BY <1>1, <1>2, <1>3, PTL DEF BulkSpec
-----------------------------------------------------------------------------
(***************************************************************************)
(* The transaction history of the dashboard, for every length of the chain *)
(* and of a page. A cursor that a load may start from always has older     *)
(* transactions below it.                                                  *)
(***************************************************************************)
(* A cursor is a row that has older ones, or none.                          *)
IsCursor(c) == c = {} \/ \E t \in 2 .. committed : c = {t}

RowsReachTheEnd == rows # {} /\ older = {} => 1 \in rows

HistoryInv ==
  /\ committed \in Nat
  /\ IsCursor(older)
  /\ \A l \in loads : IsCursor(l.cursor)
  /\ RowsReachTheEnd

LEMMA MinIsLeast ==
  ASSUME NEW S \in SUBSET Nat, S # {}
  PROVE  Min(S) \in S /\ \A k \in S : Min(S) <= k
BY LeastNatural DEF Min

(* A page that does not reach the end has rows, all of them newer than some *)
(* row it leaves out; so its cursor has older rows.                         *)
LEMMA NextIsCursor ==
  ASSUME committed \in Nat, NEW c, IsCursor(c)
  PROVE  /\ IsCursor(NextCursor(c))
         /\ NextCursor(c) = {} <=> PageAt(c) = Below(c)
<1>1. PageAt(c) \subseteq Below(c) /\ Below(c) \subseteq 1 .. committed
  BY DEF PageAt, Below
<1>2. CASE PageAt(c) = Below(c)
  BY <1>2 DEF NextCursor, IsCursor
<1>3. CASE PageAt(c) # Below(c)
  <2> DEFINE Newer(t) == {u \in Below(c) : u > t}
  <2>1. \A t \in Nat : IsFiniteSet(Newer(t)) /\ Cardinality(Newer(t)) \in Nat
    <3>1. IsFiniteSet(1 .. committed)
      BY FS_Interval
    <3>2. \A t : Newer(t) \in SUBSET (1 .. committed)
      BY <1>1
    <3> QED BY <3>1, <3>2, FS_Subset, FS_CardinalityType
  <2>2. PICK left \in Below(c) : left \notin PageAt(c)
    BY <1>1, <1>3
  <2>3. \A t \in PageAt(c) : left < t
    <3> SUFFICES ASSUME NEW t \in PageAt(c), ~(left < t) PROVE FALSE
      OBVIOUS
    <3>1. t \in Below(c) /\ Cardinality(Newer(t)) < PageSize
      BY DEF PageAt
    <3>2. ~(Cardinality(Newer(left)) < PageSize)
      BY <2>2 DEF PageAt
    <3>3. t \in Nat /\ left \in Nat /\ t <= left
      BY <1>1, <2>2, <3>1
    <3>4. Newer(left) \in SUBSET Newer(t)
      BY <1>1, <3>3
    <3>5. Cardinality(Newer(left)) <= Cardinality(Newer(t))
      BY <2>1, <3>3, <3>4, FS_Subset
    <3> QED
      BY <2>1, <3>1, <3>2, <3>3, <3>5, PageSizeAssumption
  <2>4. PageAt(c) # {}
    <3>1. PICK top \in Below(c) : \A u \in Below(c) : u <= top
      <4>1. CASE c = {}
        <5>1. committed \in Below(c)
          BY <1>1, <2>2, <4>1 DEF Below
        <5> QED BY <1>1, <5>1
      <4>2. CASE c # {}
        <5>1. PICK t \in 2 .. committed : c = {t}
          BY <4>2 DEF IsCursor
        <5>2. t - 1 \in Below(c) /\ \A u \in Below(c) : u <= t - 1
          BY <5>1 DEF Below
        <5> QED BY <5>2
      <4> QED BY <4>1, <4>2
    <3>2. Newer(top) = {}
      BY <1>1, <3>1
    <3>3. Cardinality(Newer(top)) < PageSize
      BY <3>2, FS_EmptySet, PageSizeAssumption
    <3> QED BY <3>1, <3>3 DEF PageAt
  <2>5. PageAt(c) \in SUBSET Nat
    BY <1>1
  <2>6. Min(PageAt(c)) \in PageAt(c)
    BY <2>4, <2>5, MinIsLeast
  <2>7. Min(PageAt(c)) \in 2 .. committed
    BY <1>1, <2>2, <2>3, <2>6
  <2> QED
    BY <1>3, <2>7 DEF NextCursor, IsCursor
<1> QED
  BY <1>2, <1>3

LEMMA HistoryStarts ==
  ASSUME HistoryInit
  PROVE  HistoryInv
BY DEF HistoryInit, HistoryInv, IsCursor, RowsReachTheEnd

(* A load begins at a cursor.                                               *)
LEMMA LoadKeeps ==
  ASSUME HistoryInv, NEW c, IsCursor(c), LoadBegins(c), UNCHANGED <<committed, rows, older>>
  PROVE  HistoryInv'
<1>1. \A l \in loads' : l \in loads \/ l.cursor = c
  BY DEF LoadBegins
<1> QED
  BY <1>1 DEF HistoryInv, IsCursor, RowsReachTheEnd

(* Rows and cursor are those of one load: where it ends, the first row of    *)
(* the chain is among them, unless there are none.                          *)
LEMMA PageKeeps ==
  ASSUME HistoryInv, NEW l \in loads, PageArrives(l)
  PROVE  HistoryInv'
<1> DEFINE c == l.cursor
<1>1. /\ rows' = PageAt(c) \cup (IF c = {} THEN {} ELSE rows)
      /\ older' = NextCursor(c) /\ loads' \subseteq loads /\ committed' = committed
  BY DEF PageArrives
<1>2. IsCursor(c) /\ committed \in Nat
  BY DEF HistoryInv
<1>3. IsCursor(older') /\ (older' = {} <=> PageAt(c) = Below(c))
  BY <1>1, <1>2, NextIsCursor
<1>4. RowsReachTheEnd'
  <2> SUFFICES ASSUME rows' # {}, older' = {} PROVE 1 \in rows'
    BY DEF RowsReachTheEnd
  <2>1. PageAt(c) = Below(c)
    BY <1>3
  <2>2. CASE c = {}
    <3>1. Below(c) = 1 .. committed /\ rows' = Below(c)
      BY <1>1, <2>1, <2>2 DEF Below
    <3> QED BY <1>2, <3>1
  <2>3. CASE c # {}
    <3>1. PICK t \in 2 .. committed : c = {t}
      BY <1>2, <2>3 DEF IsCursor
    <3>2. 1 \in Below(c)
      BY <1>2, <3>1 DEF Below
    <3> QED BY <1>1, <2>1, <3>2
  <2> QED BY <2>2, <2>3
<1> QED
  BY <1>1, <1>2, <1>3, <1>4 DEF HistoryInv, IsCursor

LEMMA HistoryKeeps ==
  ASSUME HistoryInv, [HistoryNext]_historyVars
  PROVE  HistoryInv'
<1>1. CASE UNCHANGED historyVars
  BY <1>1 DEF historyVars, HistoryInv, IsCursor, RowsReachTheEnd
<1>2. CASE Commits
  BY <1>2 DEF Commits, HistoryInv, IsCursor, RowsReachTheEnd
<1>3. CASE Sends
  BY <1>3 DEF Sends, HistoryInv, IsCursor, RowsReachTheEnd
<1>4. CASE OpensTab \/ ReloadFires
  BY <1>4, LoadKeeps DEF OpensTab, ReloadFires, IsCursor
<1>5. CASE LoadOlder
  BY <1>5, LoadKeeps DEF LoadOlder, HistoryInv
<1>6. ASSUME NEW l \in loads, LoadFails(l) \/ Unsupported(l)
      PROVE  HistoryInv'
  BY <1>6 DEF LoadFails, Unsupported, HistoryInv, IsCursor, RowsReachTheEnd
<1> QED
  BY <1>1, <1>2, <1>3, <1>4, <1>5, <1>6, PageKeeps DEF HistoryNext

(* Where the tab offers no older transactions, it lists the oldest one, for *)
(* every length of the chain and of a page and however loads overlap        *)
(* (Dashboard.tsx: loadChainHistory).                                       *)
THEOREM EndsWhereTheChainBegins == HistorySpec => []EndIsTheEnd
<1>1. ASSUME HistoryInv PROVE EndIsTheEnd
  <2> DEFINE fromChain == {e.tx : e \in {f \in Merged : f.source # "local"}}
  <2>1. \A t \in rows : t \in fromChain
    <3> SUFFICES ASSUME NEW t \in rows PROVE t \in fromChain
      OBVIOUS
    <3> DEFINE e == [tx |-> t, status |-> {Status(t)},
                     source |-> IF t \in local THEN "both" ELSE "chain"]
    <3>1. e \in Merged /\ e.source # "local" /\ e.tx = t
      BY DEF Merged
    <3> QED BY <3>1
  <2>2. \A t \in fromChain : t \in rows
    BY DEF Merged
  <2> QED
    BY <1>1, <2>1, <2>2 DEF HistoryInv, RowsReachTheEnd, EndIsTheEnd
<1> QED
  BY <1>1, HistoryStarts, HistoryKeeps, PTL DEF HistorySpec

-----------------------------------------------------------------------------
(***************************************************************************)
(* The token list, for every set of tokens and of overlapping loads. What  *)
(* was watched before a load began is in what it reads, and the load hands *)
(* it on through its list, the cache and the screen, in whatever order the *)
(* loads end.                                                              *)
(***************************************************************************)
Stages == {"idle", "opening", "listing", "probing", "remembering", "writing"}

IsLoad(r) ==
  r = [stage |-> r.stage, no |-> r.no, bypass |-> r.bypass, here |-> r.here,
       watched |-> r.watched, recent |-> r.recent, list |-> r.list, held |-> r.held,
       gone |-> r.gone, kept |-> r.kept]

(* No load or list has a number that is yet to be given.                    *)
TokensTyped ==
  /\ loadsBegun \in Nat
  /\ load = [l \in Loads |-> load[l]]
  /\ \A l \in Loads : /\ IsLoad(load[l]) /\ load[l].stage \in Stages
                      /\ load[l].no \in 0 .. loadsBegun
  /\ \A c \in cache : c.no \in 0 .. loadsBegun
  /\ source \in 0 .. loadsBegun
  /\ \A t \in Range(watch) : since[t] \in Nat

(* What load no has found, T, has every token watched before it began.      *)
Whole(no, T) == \A t \in Range(watch) : since[t] < no => t \in T

Reads(l) ==
  IF load[l].stage \in {"listing", "probing"} THEN load[l].watched
  ELSE IF load[l].stage \in {"remembering", "writing"} THEN load[l].list
  ELSE Range(watch)

LoadsWhole == \A l \in Loads : Whole(load[l].no, Reads(l))
CacheWhole == \A c \in cache : Whole(c.no, c.list)
ScreenWhole == mounted => Whole(source, shown)

TokensInv == TokensTyped /\ LoadsWhole /\ CacheWhole /\ ScreenWhole

LEMMA TokensStart ==
  ASSUME TokensInit
  PROVE  TokensInv
BY DEF TokensInit, TokensInv, TokensTyped, LoadsWhole, CacheWhole, ScreenWhole, Whole,
       NoLoad, IsLoad, Stages, Reads, Range

(* The watch list as it was, or as an edit has written it.                  *)
WatchStep ==
  \/ UNCHANGED <<watch, since>>
  \/ since' = [t \in Range(watch') |-> IF t \in Range(watch) THEN since[t] ELSE loadsBegun]

(* What was whole stays so: a token that is added was not watched before any *)
(* load there is began.                                                     *)
LEMMA WholeStays ==
  ASSUME TokensInv, WatchStep
  PROVE  /\ \A no \in 0 .. loadsBegun : \A t \in Range(watch') :
              since'[t] < no => t \in Range(watch) /\ since[t] < no
         /\ \A t \in Range(watch') : since'[t] \in Nat
<1>1. CASE UNCHANGED <<watch, since>>
  BY <1>1 DEF TokensInv, TokensTyped, Range
<1>2. CASE since' = [t \in Range(watch') |-> IF t \in Range(watch) THEN since[t]
                                             ELSE loadsBegun]
  BY <1>2 DEF TokensInv, TokensTyped
<1> QED BY <1>1, <1>2 DEF WatchStep

(* A load begins, and the watch list may have changed.                      *)
LEMMA BeginKeeps ==
  ASSUME TokensInv, NEW l \in Loads, NEW bypass, NEW here, Begins(l, bypass, here),
         WatchStep, UNCHANGED cache,
         UNCHANGED <<shown, mounted, source>> \/ source' = 0
  PROVE  TokensInv'
<1>1. /\ loadsBegun' = loadsBegun + 1
      /\ load'[l].stage = "opening" /\ load'[l].no = loadsBegun + 1 /\ IsLoad(load'[l])
      /\ load' = [k \in Loads |-> load'[k]]
      /\ \A k \in Loads : k # l => load'[k] = load[k]
  BY DEF Begins, NoLoad, IsLoad, TokensInv, TokensTyped
<1>2. TokensTyped'
  BY <1>1, WholeStays DEF TokensInv, TokensTyped, Stages
<1>3. LoadsWhole'
  <2> SUFFICES ASSUME NEW k \in Loads, NEW t \in Range(watch'), since'[t] < load'[k].no
               PROVE  t \in Reads(k)'
    BY DEF LoadsWhole, Whole
  <2>1. CASE load'[k].stage \in {"idle", "opening"}
    BY <2>1 DEF Reads
  <2>2. CASE load'[k].stage \notin {"idle", "opening"}
    <3>1. k # l /\ load'[k] = load[k]
      BY <1>1, <2>2
    <3>2. t \in Range(watch) /\ since[t] < load[k].no
      BY <3>1, WholeStays DEF TokensInv, TokensTyped
    <3>3. t \in Reads(k)
      BY <3>2 DEF TokensInv, LoadsWhole, Whole
    <3>4. load[k].stage \in Stages
      BY DEF TokensInv, TokensTyped
    <3> QED BY <2>2, <3>1, <3>3, <3>4 DEF Reads, Stages
  <2> QED BY <2>1, <2>2
<1>4. CacheWhole'
  BY WholeStays DEF TokensInv, TokensTyped, CacheWhole, Whole
<1>5. ScreenWhole'
  <2>1. CASE UNCHANGED <<shown, mounted, source>>
    BY <2>1, WholeStays DEF TokensInv, TokensTyped, ScreenWhole, Whole
  <2>2. CASE source' = 0
    BY <2>2, WholeStays DEF ScreenWhole, Whole
  <2> QED BY <2>1, <2>2
<1> QED
  BY <1>2, <1>3, <1>4, <1>5 DEF TokensInv

(* A load goes on with what it has read.                                    *)
LEMMA LoadGoesOn ==
  ASSUME TokensInv, NEW l \in Loads,
         load' = [k \in Loads |-> load'[k]], \A k \in Loads : k # l => load'[k] = load[k],
         load'[l].stage \in {"listing", "probing", "remembering", "writing"},
         load'[l].no = load[l].no, IsLoad(load'[l]),
         Reads(l) \subseteq Reads(l)',
         UNCHANGED <<watch, loadsBegun, shown, cache, mounted, source, since>>
  PROVE  TokensInv'
<1>1. TokensTyped'
  BY DEF TokensInv, TokensTyped, Stages, Range
<1>2. \A k \in Loads : Reads(k) \subseteq Reads(k)' /\ load'[k].no = load[k].no
  BY DEF Reads
<1>3. LoadsWhole'
  BY <1>2 DEF TokensInv, LoadsWhole, Whole, Range
<1>4. CacheWhole' /\ ScreenWhole'
  BY DEF TokensInv, CacheWhole, ScreenWhole, Whole, Range
<1> QED
  BY <1>1, <1>3, <1>4 DEF TokensInv

(* A load ends: its list, or one from the cache, comes to its screen.       *)
LEMMA EndKeeps ==
  ASSUME TokensInv, NEW l \in Loads, load' = [load EXCEPT ![l] = NoLoad],
         NEW no \in 0 .. loadsBegun, NEW list, ShowsTokens(l, no, list), Whole(no, list),
         UNCHANGED cache \/ cache' = {[no |-> no, list |-> list]},
         UNCHANGED <<watch, loadsBegun, mounted, since>>
  PROVE  TokensInv'
<1>1. /\ load'[l] = NoLoad /\ load' = [k \in Loads |-> load'[k]]
      /\ \A k \in Loads : k # l => load'[k] = load[k]
  BY DEF TokensInv, TokensTyped
<1>2. NoLoad.stage = "idle" /\ NoLoad.no = 0 /\ IsLoad(NoLoad)
  BY DEF NoLoad, IsLoad
<1>3. \A c \in cache' : c \in cache \/ (c.no = no /\ c.list = list)
  OBVIOUS
<1>4. \/ source' = source /\ shown' = shown
      \/ source' = no /\ shown' = list
  BY DEF ShowsTokens
<1>5. TokensTyped'
  <2>1. \A c \in cache' : c.no \in 0 .. loadsBegun
    BY <1>3 DEF TokensInv, TokensTyped
  <2>2. source' \in 0 .. loadsBegun
    BY <1>4 DEF TokensInv, TokensTyped
  <2>3. \A k \in Loads : /\ IsLoad(load'[k]) /\ load'[k].stage \in Stages
                         /\ load'[k].no \in 0 .. loadsBegun
    BY <1>1, <1>2 DEF TokensInv, TokensTyped, Stages
  <2> QED
    BY <1>1, <2>1, <2>2, <2>3 DEF TokensInv, TokensTyped, Range
<1>6. LoadsWhole'
  <2>1. \A k \in Loads : k # l => Reads(k)' = Reads(k)
    BY <1>1 DEF Reads, Range
  <2>2. Reads(l)' = Range(watch)'
    BY <1>1, <1>2 DEF Reads
  <2> QED BY <1>1, <2>1, <2>2 DEF TokensInv, LoadsWhole, Whole, Range
<1>7. CacheWhole' /\ ScreenWhole'
  BY <1>3, <1>4 DEF TokensInv, CacheWhole, ScreenWhole, Whole, Range
<1> QED
  BY <1>5, <1>6, <1>7 DEF TokensInv

LEMMA CachedKeeps ==
  ASSUME TokensInv, NEW l \in Loads, TakesCached(l)
  PROVE  TokensInv'
<1>1. PICK c \in cache : ShowsTokens(l, c.no, c.list)
  BY DEF TakesCached
<1> DEFINE no == c.no
           list == c.list
<1>2. ShowsTokens(l, no, list) /\ no \in 0 .. loadsBegun /\ Whole(no, list)
  BY <1>1 DEF TokensInv, TokensTyped, CacheWhole
<1>3. /\ load' = [load EXCEPT ![l] = NoLoad]
      /\ UNCHANGED <<watch, loadsBegun, cache, mounted, since>>
  BY DEF TakesCached
<1> HIDE DEF no, list
<1> QED
  BY <1>2, <1>3, EndKeeps

LEMMA RemembersKeeps ==
  ASSUME TokensInv, NEW l \in Loads, RemembersWrites(l)
  PROVE  TokensInv'
<1> DEFINE no == load[l].no
           list == load[l].list
<1>1. no \in 0 .. loadsBegun /\ Whole(no, list)
  BY DEF RemembersWrites, TokensInv, TokensTyped, LoadsWhole, Reads
<1> HIDE DEF no, list
<1>2. /\ ShowsTokens(l, no, list) /\ cache' = {[no |-> no, list |-> list]}
      /\ load' = [load EXCEPT ![l] = NoLoad]
      /\ UNCHANGED <<watch, loadsBegun, mounted, since>>
  BY DEF RemembersWrites, no, list
<1> QED
  BY <1>1, <1>2, EndKeeps

(* The other steps of a load.                                               *)
LEMMA StepsKeep ==
  ASSUME TokensInv, NEW l \in Loads,
         ReadsWatched(l) \/ ReadsRecent(l) \/ Probes(l) \/ RemembersReads(l)
  PROVE  TokensInv'
<1>0. IsLoad(load[l]) /\ load = [k \in Loads |-> load[k]]
  BY DEF TokensInv, TokensTyped
<1>1. CASE ReadsWatched(l)
  <2>1. /\ load[l].stage = "opening"
        /\ UNCHANGED <<watch, loadsBegun, shown, cache, mounted, source, since>>
    BY <1>1 DEF ReadsWatched
  <2>2. /\ load' = [k \in Loads |-> load'[k]]
        /\ \A k \in Loads : k # l => load'[k] = load[k]
        /\ load'[l] = [load[l] EXCEPT !.stage = "listing", !.watched = Range(watch)]
    BY <1>1, <1>0 DEF ReadsWatched
  <2>3. /\ load'[l].stage = "listing" /\ load'[l].no = load[l].no /\ IsLoad(load'[l])
        /\ load'[l].watched = Range(watch)
    BY <1>0, <2>2 DEF IsLoad
  <2>4. Reads(l)' = Reads(l)
    BY <2>1, <2>3 DEF Reads
  <2> QED BY <2>1, <2>2, <2>3, <2>4, LoadGoesOn
<1>2. CASE ReadsRecent(l)
  <2>1. /\ load[l].stage = "listing"
        /\ UNCHANGED <<watch, loadsBegun, shown, cache, mounted, source, since>>
    BY <1>2 DEF ReadsRecent
  <2>2. /\ load' = [k \in Loads |-> load'[k]]
        /\ \A k \in Loads : k # l => load'[k] = load[k]
        /\ load'[l] = [load[l] EXCEPT !.stage = "probing", !.recent = Range(recent)]
    BY <1>2, <1>0 DEF ReadsRecent
  <2>3. /\ load'[l].stage = "probing" /\ load'[l].no = load[l].no /\ IsLoad(load'[l])
        /\ load'[l].watched = load[l].watched
    BY <1>0, <2>2 DEF IsLoad
  <2>4. Reads(l)' = Reads(l)
    BY <2>1, <2>3 DEF Reads
  <2> QED BY <2>1, <2>2, <2>3, <2>4, LoadGoesOn
<1>3. CASE Probes(l)
  <2>1. /\ load[l].stage = "probing"
        /\ UNCHANGED <<watch, loadsBegun, shown, cache, mounted, source, since>>
    BY <1>3 DEF Probes
  <2>2. PICK held, gone :
          load' = [load EXCEPT ![l].stage = "remembering", ![l].recent = {}, ![l].watched = {},
                     ![l].list = load[l].watched \cup held, ![l].held = held, ![l].gone = gone]
    BY <1>3, Zenon DEF Probes
  <2>3. /\ load' = [k \in Loads |-> load'[k]]
        /\ \A k \in Loads : k # l => load'[k] = load[k]
        /\ load'[l] = [load[l] EXCEPT !.stage = "remembering", !.recent = {}, !.watched = {},
                         !.list = load[l].watched \cup held, !.held = held, !.gone = gone]
    BY <1>0, <2>2
  <2>4. /\ load'[l].stage = "remembering" /\ load'[l].no = load[l].no /\ IsLoad(load'[l])
        /\ load'[l].list = load[l].watched \cup held
    BY <1>0, <2>3 DEF IsLoad
  <2>5. Reads(l) \subseteq Reads(l)'
    BY <2>1, <2>4 DEF Reads
  <2> QED BY <2>1, <2>3, <2>4, <2>5, LoadGoesOn
<1>4. CASE RemembersReads(l)
  <2> DEFINE kept == Without(recent, DOMAIN load[l].gone)
  <2>1. /\ load[l].stage = "remembering"
        /\ load' = [load EXCEPT ![l].stage = "writing", ![l].gone = <<>>, ![l].kept = kept]
        /\ UNCHANGED <<watch, loadsBegun, shown, cache, mounted, source, since>>
    BY <1>4 DEF RemembersReads
  <2> HIDE DEF kept
  <2>2. /\ load' = [k \in Loads |-> load'[k]]
        /\ \A k \in Loads : k # l => load'[k] = load[k]
        /\ load'[l] = [load[l] EXCEPT !.stage = "writing", !.gone = <<>>, !.kept = kept]
    BY <1>0, <2>1
  <2>3. /\ load'[l].stage = "writing" /\ load'[l].no = load[l].no /\ IsLoad(load'[l])
        /\ load'[l].list = load[l].list
    BY <1>0, <2>2 DEF IsLoad
  <2>4. Reads(l) \subseteq Reads(l)'
    BY <2>1, <2>3 DEF Reads
  <2>5. /\ load' = [k \in Loads |-> load'[k]]
        /\ \A k \in Loads : k # l => load'[k] = load[k]
    BY <2>2
  <2> QED BY <2>1, <2>3, <2>4, <2>5, LoadGoesOn
<1> QED
  BY <1>1, <1>2, <1>3, <1>4

(* The screen goes, and the loads go on for nobody.                         *)
LEMMA GoingKeeps ==
  ASSUME TokensInv, ScreenGoes
  PROVE  TokensInv'
<1>1. /\ ~mounted' /\ load' = [k \in Loads |-> [load[k] EXCEPT !.here = FALSE]]
      /\ source' = 0
      /\ UNCHANGED <<watch, loadsBegun, cache, since>>
  BY DEF ScreenGoes
<1>2. load' = [k \in Loads |-> load'[k]]
  BY <1>1
<1>3. \A k \in Loads : /\ load'[k].stage = load[k].stage /\ load'[k].no = load[k].no
                       /\ load'[k].watched = load[k].watched
                       /\ load'[k].list = load[k].list /\ IsLoad(load'[k])
  <2> TAKE k \in Loads
  <2>1. IsLoad(load[k]) /\ load'[k] = [load[k] EXCEPT !.here = FALSE]
    BY <1>1 DEF TokensInv, TokensTyped
  <2> QED BY <2>1 DEF IsLoad
<1>4. TokensTyped'
  BY <1>1, <1>2, <1>3 DEF TokensInv, TokensTyped, Range
<1>5. \A k \in Loads : Reads(k)' = Reads(k)
  BY <1>1, <1>3 DEF Reads, Range
<1>6. LoadsWhole' /\ CacheWhole'
  BY <1>1, <1>3, <1>5 DEF TokensInv, LoadsWhole, CacheWhole, Whole, Range
<1> QED
  BY <1>1, <1>4, <1>6 DEF TokensInv, ScreenWhole

LEMMA TokensKeep ==
  ASSUME TokensInv, [TokensNext]_tokenVars
  PROVE  TokensInv'
<1>1. CASE /\ UNCHANGED <<watch, load, loadsBegun, shown, mounted, source, since>>
           /\ cache' \subseteq cache
  <2>1. Range(watch)' = Range(watch) /\ \A l \in Loads : Reads(l)' = Reads(l)
    BY <1>1 DEF Reads, Range
  <2> QED
    BY <1>1, <2>1 DEF TokensInv, TokensTyped, LoadsWhole, CacheWhole, ScreenWhole, Whole
<1>2. CASE UNCHANGED tokenVars
  BY <1>1, <1>2 DEF tokenVars
<1>3. CASE CacheExpires \/ \E op \in {"add", "remove"}, t \in Tokens : WatchEdited(op, t)
  BY <1>1, <1>3 DEF CacheExpires, WatchEdited
<1>4. ASSUME NEW l \in Loads,
             ScreenAppears(l) \/ TokensRefreshed(l) \/ RefreshedForNobody(l) \/ WatchWritten(l)
      PROVE  TokensInv'
  BY <1>4, BeginKeeps DEF ScreenAppears, TokensRefreshed, RefreshedForNobody, WatchWritten,
     WatchStep
<1> QED
  BY <1>1, <1>2, <1>3, <1>4, GoingKeeps, CachedKeeps, StepsKeep, RemembersKeeps DEF TokensNext

(* "Watchlist entries are always shown", as far as the code keeps it: the    *)
(* list on the screen has every token that was watched when its load began   *)
(* and has stayed so, for every number of overlapping loads in whatever order*)
(* they end, and of edits, screens and cached lists                          *)
(* (tokenHoldings.ts: loadTokenHoldings, useTokenHoldings.ts).              *)
THEOREM WatchedTokensAreShown == TokensSpec => []WatchedBeforeAreShown
<1>1. TokensInv => WatchedBeforeAreShown
  BY DEF TokensInv, ScreenWhole, Whole, WatchedBeforeAreShown
<1> QED
  BY <1>1, TokensStart, TokensKeep, PTL DEF TokensSpec

-----------------------------------------------------------------------------
(***************************************************************************)
(* The scan for NFTs, for every window, cap on items and length of the     *)
(* list of gaps.                                                           *)
(***************************************************************************)
GapRecs == [height : Nat, first : Nat, attempts : Nat, last : Nat]
Apart(G) == \A g, k \in G : g.height = k.height => g = k
GapLists == {G \in SUBSET GapRecs : IsFiniteSet(G) /\ Apart(G)}
HeightSets == {H \in SUBSET Nat : IsFiniteSet(H)}

(* A list has as many entries as heights.                                   *)
LEMMA HeightsCount ==
  ASSUME NEW G, Apart(G)
  PROVE  /\ IsFiniteSet(G) <=> IsFiniteSet(Heights(G))
         /\ IsFiniteSet(G) => Cardinality(Heights(G)) = Cardinality(G)
<1> DEFINE f == [g \in G |-> g.height]
<1>1. f \in Injection(G, Heights(G)) /\ f \in Surjection(G, Heights(G))
  BY DEF Heights, Apart, Injection, IsInjective, Surjection
<1>2. ASSUME IsFiniteSet(Heights(G)) PROVE IsFiniteSet(G)
  BY <1>1, <1>2, FS_Injection
<1>3. ASSUME IsFiniteSet(G)
      PROVE  IsFiniteSet(Heights(G)) /\ Cardinality(Heights(G)) = Cardinality(G)
  BY <1>1, <1>3, FS_Surjection
<1> QED BY <1>2, <1>3

LEMMA HeightsOfLists ==
  ASSUME NEW G \in GapLists
  PROVE  Heights(G) \in HeightSets /\ Cardinality(Heights(G)) = Cardinality(G)
<1>1. Heights(G) \in SUBSET Nat
  BY DEF Heights, GapLists, GapRecs
<1> QED BY <1>1, HeightsCount DEF GapLists, HeightSets

LEMMA PartOfList ==
  ASSUME NEW G \in GapLists, NEW K \in SUBSET G
  PROVE  K \in GapLists /\ Heights(K) \subseteq Heights(G)
BY FS_Subset DEF GapLists, Apart, Heights

(* The cap leaves at least so many: the first entry that it drops comes     *)
(* after none but kept ones.                                                *)
LEMMA CapKeepsEnough ==
  ASSUME NEW G \in GapLists, Cardinality(G) > MaxGaps
  PROVE  Cardinality(CapGapEntries(G)) >= MaxGaps
<1> DEFINE Pred(g) == {k \in G : KeptBefore(k, g)}
           Rank(g) == Cardinality(Pred(g))
           K == {g \in G : Rank(g) < MaxGaps}
<1>1. IsFiniteSet(G) /\ G \subseteq GapRecs /\ MaxGaps \in Nat /\ Cardinality(G) \in Nat
  BY FS_CardinalityType, ScanAssumption DEF GapLists
<1>2. CapGapEntries(G) = K
  BY <1>1 DEF CapGapEntries
<1>3. \A g \in G : IsFiniteSet(Pred(g)) /\ Rank(g) \in Nat
  <2> SUFFICES ASSUME NEW g \in G PROVE IsFiniteSet(Pred(g)) /\ Rank(g) \in Nat
    OBVIOUS
  <2>1. Pred(g) \in SUBSET G
    OBVIOUS
  <2> QED BY <1>1, <2>1, FS_Subset, FS_CardinalityType
<1>4. IsFiniteSet(K) /\ Cardinality(K) \in Nat
  <2>1. K \in SUBSET G
    OBVIOUS
  <2> QED BY <1>1, <2>1, FS_Subset, FS_CardinalityType
<1> SUFFICES ASSUME Cardinality(K) < MaxGaps PROVE FALSE
  BY <1>1, <1>2, <1>4
<1>5. G \ K # {}
  <2> SUFFICES ASSUME G = K PROVE FALSE
    OBVIOUS
  <2> HIDE DEF K
  <2> QED BY <1>1
<1>6. PICK g \in G \ K : \A k \in G \ K : Rank(g) <= Rank(k)
  <2> DEFINE R == {Rank(k) : k \in G \ K}
  <2>1. R \in SUBSET Nat /\ R # {}
    BY <1>3, <1>5
  <2>2. PICK m \in R : \A k \in R : m <= k
    <3> HIDE DEF R
    <3> QED BY <2>1, LeastNatural
  <2>3. PICK g \in G \ K : Rank(g) = m
    BY <2>2
  <2>4. ASSUME NEW k \in G \ K PROVE m <= Rank(k)
    <3>1. Rank(k) \in R
      OBVIOUS
    <3> HIDE DEF R, K, Rank
    <3> QED BY <2>2, <3>1
  <2> HIDE DEF Rank, K
  <2> QED BY <2>3, <2>4
<1>7. ASSUME NEW k \in G \ K, KeptBefore(k, g) PROVE FALSE
  <2>1. Pred(k) \subseteq Pred(g)
    BY <1>1, <1>7 DEF KeptBefore, GapRecs
  <2>2. k \in Pred(g) /\ k \notin Pred(k)
    BY <1>1, <1>7 DEF KeptBefore, GapRecs
  <2>3. Rank(k) <= Rank(g) /\ Rank(k) # Rank(g)
    <3> DEFINE A == Pred(k)
               B == Pred(g)
    <3>1. IsFiniteSet(B) /\ A \in SUBSET B /\ A # B
      BY <1>3, <2>1, <2>2
    <3> HIDE DEF A, B
    <3>2. Cardinality(A) <= Cardinality(B) /\ Cardinality(A) # Cardinality(B)
      BY <3>1, FS_Subset
    <3> QED BY <3>2 DEF A, B
  <2>4. Rank(g) <= Rank(k)
    BY <1>6
  <2>5. Rank(k) \in Nat /\ Rank(g) \in Nat
    BY <1>3
  <2> QED BY <2>3, <2>4, <2>5
<1>8. Rank(g) <= Cardinality(K)
  <2> DEFINE A == Pred(g)
  <2>1. A \in SUBSET K
    BY <1>7
  <2> HIDE DEF A, K
  <2>2. Cardinality(A) <= Cardinality(K)
    BY <1>4, <2>1, FS_Subset
  <2> QED BY <2>2 DEF A
<1> QED
  <2>1. Rank(g) \in Nat
    BY <1>3
  <2>2. Rank(g) < MaxGaps
    BY <1>1, <1>4, <1>8, <2>1
  <2> QED BY <1>6, <2>2

(* What is recorded as failed is listed, unless the list is full; then it   *)
(* stays full.                                                              *)
LEMMA FailuresRecorded ==
  ASSUME NEW G \in GapLists, NEW H \in HeightSets, NEW time \in Nat
  PROVE  LET W == WithFailures(G, H, time)
             all == Heights(G) \cup H
         IN /\ W \in GapLists
            /\ Heights(W) \subseteq all
            /\ \/ Heights(W) = all
               \/ Cardinality(all) > MaxGaps /\ Cardinality(Heights(W)) >= MaxGaps
<1> DEFINE all == Heights(G) \cup H
           Bump(g) == IF g.height \in H THEN [g EXCEPT !.attempts = @ + 1, !.last = time]
                      ELSE g
           Added(h) == [height |-> h, first |-> time, attempts |-> 1, last |-> time]
           L == {Bump(g) : g \in G} \cup {Added(h) : h \in H \ Heights(G)}
<1>1. G \subseteq GapRecs /\ Apart(G) /\ H \subseteq Nat
  BY DEF GapLists, HeightSets
<1>2. Heights(G) \in HeightSets
  BY HeightsOfLists
<1>3. \A g \in G : /\ Bump(g) \in GapRecs /\ Bump(g).height = g.height
                   /\ g.height \in Heights(G)
  <2> SUFFICES ASSUME NEW g \in G
               PROVE  /\ Bump(g) \in GapRecs /\ Bump(g).height = g.height
                      /\ g.height \in Heights(G)
    OBVIOUS
  <2>1. g \in GapRecs /\ g.attempts + 1 \in Nat
    BY <1>1 DEF GapRecs
  <2> QED BY <2>1 DEF GapRecs, Heights
<1>4. \A h \in H \ Heights(G) : Added(h) \in GapRecs /\ Added(h).height = h
  BY <1>1 DEF GapRecs
<1>5. \A x \in L : \/ \E g \in G : x = Bump(g)
                 \/ \E h \in H \ Heights(G) : x = Added(h)
  OBVIOUS
<1>6. /\ \A g \in G : Bump(g) \in L
      /\ \A h \in H \ Heights(G) : Added(h) \in L
  OBVIOUS
<1>7. WithFailures(G, H, time) = CapGapEntries(L)
  BY DEF WithFailures
<1> HIDE DEF L, Bump, Added
<1>8. L \subseteq GapRecs
  BY <1>3, <1>4, <1>5
<1>9. Apart(L)
  <2> SUFFICES ASSUME NEW x \in L, NEW y \in L, x.height = y.height PROVE x = y
    BY DEF Apart
  <2>1. CASE \E g \in G : x = Bump(g)
    <3>1. PICK g \in G : x = Bump(g)
      BY <2>1
    <3>2. PICK k \in G : y = Bump(k)
      BY <1>3, <1>4, <1>5, <3>1
    <3>3. g = k
      BY <1>1, <1>3, <3>1, <3>2 DEF Apart
    <3> QED BY <3>1, <3>2, <3>3
  <2>2. CASE \E h \in H \ Heights(G) : x = Added(h)
    <3>1. PICK h \in H \ Heights(G) : x = Added(h)
      BY <2>2
    <3>2. PICK k \in H \ Heights(G) : y = Added(k)
      BY <1>3, <1>4, <1>5, <3>1
    <3> QED BY <1>4, <3>1, <3>2
  <2> QED BY <1>5, <2>1, <2>2
<1>10. Heights(L) = all
  <2>1. ASSUME NEW h \in all PROVE \E x \in L : h = x.height
    BY <1>3, <1>4, <1>6 DEF Heights
  <2>2. ASSUME NEW x \in L PROVE x.height \in all
    BY <1>3, <1>4, <1>5
  <2> HIDE DEF all
  <2> QED BY <2>1, <2>2 DEF Heights
<1>11. IsFiniteSet(all)
  BY <1>2, FS_Union DEF HeightSets
<1>12. L \in GapLists
  BY <1>8, <1>9, <1>10, <1>11, HeightsCount DEF GapLists
<1>13. CapGapEntries(L) \in SUBSET L
  BY DEF CapGapEntries
<1> HIDE DEF all
<1>14. CapGapEntries(L) \in GapLists /\ Heights(CapGapEntries(L)) \subseteq all
  BY <1>10, <1>12, <1>13, PartOfList
<1>15. CASE Cardinality(L) <= MaxGaps
  BY <1>7, <1>10, <1>14, <1>15 DEF CapGapEntries, all
<1>16. CASE ~(Cardinality(L) <= MaxGaps)
  <2>1. Cardinality(L) > MaxGaps /\ Cardinality(all) = Cardinality(L)
    BY <1>10, <1>12, <1>16, HeightsOfLists, FS_CardinalityType, ScanAssumption DEF GapLists
  <2>2. Cardinality(Heights(CapGapEntries(L))) >= MaxGaps
    BY <1>12, <1>14, <2>1, CapKeepsEnough, HeightsOfLists
  <2> QED BY <1>7, <1>14, <2>1, <2>2 DEF all
<1> QED BY <1>15, <1>16
-----------------------------------------------------------------------------
ScanStages == {"idle", "ranging", "picking", "fetching", "retrying", "moving", "noting",
               "resolving", "renoting", "closing"}
PassRecs == [stage : ScanStages, at : Nat, tip : Nat, from : Nat, skipped : SUBSET Int,
             retry : GapLists, stop : Int, finds : Nat, failed : HeightSets,
             recovered : SUBSET Nat, stillFailed : HeightSets, read : SUBSET GapLists]

ScanTyped ==
  /\ tip \in Nat /\ scansBegun \in Nat
  /\ cursor \in Nat \cup {-1} /\ gaps \in GapLists
  /\ pass \in [Passes -> PassRecs]

(* Blocks that were read, are owed another try, or were given up.           *)
Known == looked \cup Owed \cup forgotten

(* What the cursor has passed is known, as is what a pass has gone over but *)
(* for what it will give up as it moves the cursor.                         *)
PassedIsKnown == 0 .. cursor \subseteq Known
WindowIsKnown(p) ==
  /\ pass[p].stage \in {"picking", "fetching"}
       => /\ 0 .. pass[p].from - 1 \subseteq Known \cup pass[p].skipped
          /\ pass[p].from <= pass[p].tip
  /\ pass[p].stage = "retrying" => 0 .. pass[p].stop \subseteq Known \cup pass[p].skipped
  /\ pass[p].stage = "moving" => 0 .. pass[p].tip \subseteq Known \cup pass[p].skipped

(* What a pass fetched again it has read, or gives up with the cursor.      *)
RecoveredIsKnown(p) ==
  /\ pass[p].stage = "moving" => pass[p].recovered \subseteq looked \cup pass[p].skipped
  /\ pass[p].stage \in {"noting", "resolving"} => pass[p].recovered \subseteq looked \cup forgotten

(* Nothing failed again before it was fetched again; what an edit read of   *)
(* the list is the list; and what failed again is on it in the end, or      *)
(* given up.                                                                *)
EditsAreOfTheList(p) ==
  /\ pass[p].stage \in {"ranging", "picking", "fetching", "retrying"} => pass[p].stillFailed = {}
  /\ pass[p].read # {} => pass[p].stage \in Edits /\ pass[p].read = {gaps}
  /\ pass[p].stage = "closing" => pass[p].stillFailed \subseteq Heights(gaps) \cup forgotten

ScanInv(p) == /\ ScanTyped /\ PassedIsKnown
              /\ WindowIsKnown(p) /\ RecoveredIsKnown(p) /\ EditsAreOfTheList(p)
(* The one pass is what runs and owes.                                      *)
LEMMA LonePass ==
  ASSUME NEW p, Passes = {p}
  PROVE  /\ Owed = Heights(gaps) \cup Unnoted(p)
         /\ Owed' = Heights(gaps') \cup Unnoted(p)'
         /\ (\E q \in Passes : pass[q].stage # "idle") <=> pass[p].stage # "idle"
         /\ (\E q \in Passes : pass'[q].stage # "idle") <=> pass'[p].stage # "idle"
BY DEF Owed

(* What the promise sees of a step.                                         *)
PromiseSame == /\ UNCHANGED <<cursor, looked, forgotten, Owed>>
               /\ (\E q \in Passes : pass'[q].stage # "idle")
                    <=> (\E q \in Passes : pass[q].stage # "idle")

LEMMA SameStutters ==
  ASSUME PromiseSame
  PROVE  [Promise!Next]_(Promise!vars)
<1> DEFINE passing == \E q \in Passes : pass[q].stage # "idle"
<1>1. passing' = passing
  BY DEF PromiseSame
<1>2. UNCHANGED Promise!vars
  BY <1>1 DEF PromiseSame, Promise!vars
<1> QED BY <1>2

(* Every step of the promise leaves known what the cursor has passed.       *)
LEMMA PromiseKeeps ==
  ASSUME PassedIsKnown, [Promise!Next]_(Promise!vars), cursor \in Int
  PROVE  PassedIsKnown'
<1> USE DEF PassedIsKnown, Known
<1>1. CASE UNCHANGED Promise!vars
  BY <1>1 DEF Promise!vars
<1>2. CASE Promise!Begin
  BY <1>2 DEF Promise!Begin
<1>3. ASSUME Promise!OwedIsKept, UNCHANGED cursor, looked \subseteq looked',
             forgotten \subseteq forgotten'
      PROVE  PassedIsKnown'
  <2> SUFFICES ASSUME NEW h \in 0 .. cursor PROVE h \in looked' \cup Owed' \cup forgotten'
    BY <1>3
  <2>1. h \in looked \cup Owed \cup forgotten /\ ~(h > cursor)
    OBVIOUS
  <2>2. h \in Owed \ Owed' => h \in looked' \cup forgotten'
    BY <1>3, <2>1 DEF Promise!OwedIsKept
  <2> QED BY <1>3, <2>1, <2>2
<1>4. CASE Promise!Fetch
  BY <1>3, <1>4 DEF Promise!Fetch
<1>5. CASE Promise!Advance
  BY <1>5 DEF Promise!Advance
<1>6. CASE Promise!Overflow
  BY <1>3, <1>6 DEF Promise!Overflow
<1>7. CASE Promise!End
  BY <1>3, <1>7 DEF Promise!End
<1> QED
  BY <1>1, <1>2, <1>4, <1>5, <1>6, <1>7 DEF Promise!Next

(* Everything the lone pass keeps but what follows from the promise.        *)
ScanRest(p) == ScanTyped /\ WindowIsKnown(p) /\ RecoveredIsKnown(p) /\ EditsAreOfTheList(p)

ScanStep(p) == [Promise!Next]_(Promise!vars) /\ ScanRest(p)'

LEMMA BlockStep ==
  ASSUME NEW p, Passes = {p}, ScanInv(p), BlockArrives
  PROVE  ScanStep(p)
<1>1. PromiseSame
  BY DEF BlockArrives, PromiseSame, stored, history, Owed, Unnoted
<1>2. ScanRest(p)'
  BY DEF BlockArrives, ScanInv, ScanRest, ScanTyped, WindowIsKnown, RecoveredIsKnown,
         EditsAreOfTheList, Known, Owed, Unnoted, stored, history
<1> QED BY <1>1, <1>2, SameStutters DEF ScanStep

LEMMA BeginsStep ==
  ASSUME NEW p, Passes = {p}, ScanInv(p), ScanBegins(p)
  PROVE  ScanStep(p)
<1>1. PICK t \in {tip, tip - 1} \cap Nat :
        pass' = [pass EXCEPT ![p] = [NoPass EXCEPT !.stage = "ranging", !.tip = t,
                                                   !.at = scansBegun]]
  BY DEF ScanBegins
<1>2. /\ pass[p].stage = "idle" /\ UNCHANGED <<cursor, gaps, looked, forgotten, tip>>
      /\ scansBegun' = scansBegun + 1 /\ pass \in [Passes -> PassRecs]
  BY DEF ScanBegins, stored, history, ScanInv, ScanTyped
<1>3. pass'[p] = [NoPass EXCEPT !.stage = "ranging", !.tip = t, !.at = scansBegun]
  BY <1>1, <1>2
<1>4. /\ pass'[p].stage = "ranging" /\ pass'[p].stillFailed = {} /\ pass'[p].failed = {}
      /\ pass'[p].read = {}
  BY <1>3 DEF NoPass
<1>5. pass'[p] \in PassRecs
  <2>1. {} \in HeightSets /\ {} \in GapLists
    BY FS_EmptySet DEF HeightSets, GapLists, Apart
  <2>2. NoPass \in PassRecs
    BY <2>1 DEF NoPass, PassRecs, ScanStages
  <2>3. scansBegun \in Nat /\ t \in Nat /\ "ranging" \in ScanStages
    BY DEF ScanInv, ScanTyped, ScanStages
  <2> QED BY <1>3, <2>2, <2>3 DEF PassRecs
<1>6. Owed' = Heights(gaps) /\ Owed = Heights(gaps)
  <2>1. Unnoted(p)' = {}
    BY <1>4 DEF Unnoted
  <2>2. Unnoted(p) = {}
    BY <1>2 DEF Unnoted
  <2> QED BY <1>2, <2>1, <2>2, LonePass
<1>7. Promise!Begin
  BY <1>2, <1>4, <1>6, LonePass DEF Promise!Begin
<1>8. ScanRest(p)'
  <2>1. ScanTyped'
    BY <1>1, <1>2, <1>5 DEF ScanInv, ScanTyped
  <2> QED
    BY <1>4, <2>1 DEF ScanRest, WindowIsKnown, RecoveredIsKnown, EditsAreOfTheList
<1> QED BY <1>7, <1>8 DEF ScanStep, Promise!Next

LEMMA RangeStep ==
  ASSUME NEW p, Passes = {p}, ScanInv(p), ReadsCursor(p)
  PROVE  ScanStep(p)
<1> DEFINE end == pass[p].tip
           from == ScanFrom(end)
           skip == cursor + 1 .. Higher(cursor + 1, end - Window + 1) - 1
<1>1. /\ pass[p].stage = "ranging" /\ UNCHANGED <<cursor, gaps, looked, forgotten, tip, scansBegun>>
      /\ pass' = [pass EXCEPT ![p].stage = "picking", ![p].from = from, ![p].skipped = skip]
      /\ pass \in [Passes -> PassRecs] /\ end \in Nat /\ cursor \in Nat \cup {-1}
      /\ Window \in Nat \ {0}
  BY ScanAssumption DEF ReadsCursor, stored, history, ScanInv, ScanTyped, PassRecs
<1>2. pass'[p] = [pass[p] EXCEPT !.stage = "picking", !.from = from, !.skipped = skip]
  BY <1>1
<1>3. from \in Nat /\ from <= end /\ skip \in SUBSET Int
  BY <1>1 DEF ScanFrom, Lower, Higher
<1>4. 0 .. from - 1 \subseteq (0 .. cursor) \cup skip
  BY <1>1, <1>3 DEF ScanFrom, Lower, Higher
<1> HIDE DEF from, skip, end
<1>5. /\ pass'[p] \in PassRecs /\ pass'[p].stage = "picking"
      /\ pass'[p].failed = pass[p].failed /\ pass'[p].stillFailed = pass[p].stillFailed
      /\ pass'[p].read = pass[p].read /\ pass'[p].tip = pass[p].tip
      /\ pass'[p].from = from /\ pass'[p].skipped = skip
  <2>1. pass[p] \in PassRecs /\ "picking" \in ScanStages
    BY <1>1 DEF ScanStages
  <2>2. pass'[p] \in PassRecs
    BY <1>2, <1>3, <2>1 DEF PassRecs
  <2> QED BY <1>2, <2>1, <2>2 DEF PassRecs
<1>6. Owed' = Owed
  <2>1. Unnoted(p)' = Unnoted(p)
    BY <1>1, <1>5 DEF Unnoted
  <2> QED BY <1>1, <2>1, LonePass
<1>7. PromiseSame
  BY <1>1, <1>5, <1>6, LonePass DEF PromiseSame
<1>8. ScanTyped'
  BY <1>1, <1>5 DEF ScanInv, ScanTyped
<1>9. WindowIsKnown(p)'
  <2>1. Known' = Known
    BY <1>1, <1>6 DEF Known
  <2>2. 0 .. cursor \subseteq Known
    BY DEF ScanInv, PassedIsKnown
  <2> QED BY <1>3, <1>4, <1>5, <2>1, <2>2 DEF WindowIsKnown, end
<1>10. RecoveredIsKnown(p)' /\ EditsAreOfTheList(p)'
  BY <1>1, <1>5 DEF RecoveredIsKnown, EditsAreOfTheList, ScanInv, Edits
<1> QED BY <1>7, <1>8, <1>9, <1>10, SameStutters DEF ScanStep, ScanRest

LEMMA PicksStep ==
  ASSUME NEW p, Passes = {p}, ScanInv(p), PicksGaps(p)
  PROVE  ScanStep(p)
<1> DEFINE again == {g \in PickGapHeightsToRetry(gaps) :
                       g.height \notin pass[p].from .. pass[p].tip}
<1>1. /\ pass[p].stage = "picking" /\ UNCHANGED <<cursor, gaps, looked, forgotten, tip, scansBegun>>
      /\ pass' = [pass EXCEPT ![p].stage = "fetching", ![p].retry = again]
      /\ pass \in [Passes -> PassRecs] /\ gaps \in GapLists
  BY DEF PicksGaps, stored, history, ScanInv, ScanTyped, PassRecs
<1>2. again \in GapLists
  <2>1. again \in SUBSET gaps
    BY DEF PickGapHeightsToRetry
  <2> QED BY <1>1, <2>1, PartOfList
<1> HIDE DEF again
<1>3. /\ pass'[p] \in PassRecs /\ pass'[p].stage = "fetching"
      /\ pass'[p].failed = pass[p].failed /\ pass'[p].stillFailed = pass[p].stillFailed
      /\ pass'[p].read = pass[p].read /\ pass'[p].tip = pass[p].tip
      /\ pass'[p].from = pass[p].from /\ pass'[p].skipped = pass[p].skipped
  <2>1. pass[p] \in PassRecs /\ "fetching" \in ScanStages
    BY <1>1 DEF ScanStages
  <2>2. pass'[p] = [pass[p] EXCEPT !.stage = "fetching", !.retry = again]
    BY <1>1
  <2>3. pass'[p] \in PassRecs
    BY <1>2, <2>1, <2>2 DEF PassRecs
  <2> QED BY <2>1, <2>2, <2>3 DEF PassRecs
<1>4. Owed' = Owed
  <2>1. Unnoted(p)' = Unnoted(p)
    BY <1>1, <1>3 DEF Unnoted
  <2> QED BY <1>1, <2>1, LonePass
<1>5. PromiseSame
  BY <1>1, <1>3, <1>4, LonePass DEF PromiseSame
<1>6. ScanTyped'
  BY <1>1, <1>3 DEF ScanInv, ScanTyped
<1>7. WindowIsKnown(p)'
  <2>1. Known' = Known
    BY <1>1, <1>4 DEF Known
  <2> QED BY <1>1, <1>3, <2>1 DEF ScanInv, WindowIsKnown
<1>8. RecoveredIsKnown(p)' /\ EditsAreOfTheList(p)'
  BY <1>1, <1>3 DEF RecoveredIsKnown, EditsAreOfTheList, ScanInv, Edits
<1> QED BY <1>5, <1>6, <1>7, <1>8, SameStutters DEF ScanStep, ScanRest
LEMMA WindowStep ==
  ASSUME NEW p, Passes = {p}, ScanInv(p), FetchesWindow(p)
  PROVE  ScanStep(p)
<1> DEFINE from == pass[p].from
           end == pass[p].tip
           window == from .. end
<1>1. /\ pass[p].stage = "fetching" /\ UNCHANGED <<cursor, gaps, forgotten, tip, scansBegun>>
      /\ pass \in [Passes -> PassRecs] /\ pass[p] \in PassRecs /\ cursor \in Int
  <2>1. pass \in [Passes -> PassRecs] /\ cursor \in Int
    BY DEF ScanInv, ScanTyped
  <2>2. pass[p].stage = "fetching" /\ UNCHANGED <<tip, inbound, stored, scansBegun, forgotten>>
    BY DEF FetchesWindow
  <2> QED BY <2>1, <2>2 DEF stored
<1>2. from \in Nat /\ end \in Nat /\ from <= end /\ MaxItems \in Nat
  BY <1>1, ScanAssumption DEF PassRecs, ScanInv, WindowIsKnown
<1>3. IsFiniteSet(window) /\ window \in SUBSET Nat /\ end \in window
  <2>1. from \in Int /\ end \in Int
    BY <1>2
  <2>2. \A i, j \in Int : IsFiniteSet(i .. j)
    BY FS_Interval
  <2>3. IsFiniteSet(window)
    BY <2>1, <2>2
  <2> QED BY <1>2, <2>3
<1>4. PICK lost \in SUBSET window :
        LET FindsTo(h) == FoundIn({k \in window \ lost : k <= h})
            stop == CHOOSE h \in window :
                      /\ FindsTo(h) >= MaxItems \/ h = end
                      /\ \A k \in window : k < h => FindsTo(k) < MaxItems
        IN /\ pass' = [pass EXCEPT ![p].stage = "retrying", ![p].stop = stop,
                         ![p].finds = FindsTo(stop),
                         ![p].failed = {h \in lost : h <= stop}]
           /\ looked' = looked \cup {h \in window \ lost : h <= stop}
  BY DEF FetchesWindow
<1> DEFINE FindsTo(h) == FoundIn({k \in window \ lost : k <= h})
           stop == CHOOSE h \in window :
                     /\ FindsTo(h) >= MaxItems \/ h = end
                     /\ \A k \in window : k < h => FindsTo(k) < MaxItems
           failed == {h \in lost : h <= stop}
           finds == FindsTo(stop)
<1>5. /\ pass' = [pass EXCEPT ![p].stage = "retrying", ![p].stop = stop,
                    ![p].finds = finds, ![p].failed = failed]
      /\ looked' = looked \cup {h \in window \ lost : h <= stop}
  BY <1>4
<1>6. ASSUME NEW h PROVE FindsTo(h) \in Nat
  <2> DEFINE B == {k \in window \ lost : k <= h}
  <2>1. B \cap inbound \in SUBSET window
    OBVIOUS
  <2>2. Cardinality(B \cap inbound) \in Nat
    BY <1>3, <2>1, FS_Subset, FS_CardinalityType
  <2> QED BY <2>2 DEF FoundIn
<1>7. stop \in window
  <2> HIDE DEF window, FindsTo
  <2> DEFINE S == {h \in window : FindsTo(h) >= MaxItems \/ h = end}
  <2>1. PICK m \in S : \A k \in S : m <= k
    <3>1. S \in SUBSET Nat /\ S # {}
      BY <1>3
    <3> HIDE DEF S
    <3> QED BY <3>1, LeastNatural
  <2>2. \A k \in window : k < m => FindsTo(k) < MaxItems
    BY <1>2, <1>3, <1>6, <2>1
  <2>3. \E h \in window : /\ FindsTo(h) >= MaxItems \/ h = end
                          /\ \A k \in window : k < h => FindsTo(k) < MaxItems
    BY <2>1, <2>2
  <2> QED BY <2>3
<1>8. finds \in Nat
  BY <1>6
<1> HIDE DEF FindsTo, stop, finds
<1>9. failed \in HeightSets
  BY <1>3, FS_Subset DEF HeightSets
<1> HIDE DEF failed
<1>10. /\ pass'[p] \in PassRecs /\ pass'[p].stage = "retrying"
       /\ pass'[p].stop = stop /\ pass'[p].failed = failed
       /\ pass'[p].stillFailed = pass[p].stillFailed /\ pass'[p].read = pass[p].read
       /\ pass'[p].skipped = pass[p].skipped
  <2>1. stop \in Int /\ "retrying" \in ScanStages
    BY <1>3, <1>7 DEF ScanStages
  <2>2. pass'[p] = [pass[p] EXCEPT !.stage = "retrying", !.stop = stop, !.finds = finds,
                                   !.failed = failed]
    BY <1>1, <1>5
  <2>3. pass'[p] \in PassRecs
    BY <1>1, <1>8, <1>9, <2>1, <2>2 DEF PassRecs
  <2> QED BY <1>1, <2>2, <2>3 DEF PassRecs
<1>11. Owed' = Owed \cup failed
  <2>1. Unnoted(p)' = Unnoted(p) \cup failed
    BY <1>1, <1>10 DEF Unnoted
  <2> QED BY <1>1, <2>1, LonePass
<1>12. Promise!Fetch
  BY <1>1, <1>5, <1>10, <1>11, LonePass DEF Promise!Fetch, Promise!OwedIsKept
<1>13. ScanTyped'
  BY <1>1, <1>5, <1>10 DEF ScanInv, ScanTyped
<1>14. WindowIsKnown(p)'
  <2>1. Known' = Known \cup failed \cup {h \in window \ lost : h <= stop}
    BY <1>1, <1>5, <1>11 DEF Known
  <2>2. 0 .. from - 1 \subseteq Known \cup pass[p].skipped
    BY <1>1 DEF ScanInv, WindowIsKnown
  <2>3. \A h \in 0 .. stop : h \in 0 .. from - 1 \/ (h \in window /\ h <= stop)
    BY <1>2, <1>7
  <2>4. \A h \in window : h <= stop => h \in failed \/ h \in {k \in window \ lost : k <= stop}
    BY DEF failed
  <2>5. 0 .. stop \subseteq Known' \cup pass[p].skipped
    BY <2>1, <2>2, <2>3, <2>4
  <2> QED BY <1>10, <2>5 DEF WindowIsKnown
<1>15. RecoveredIsKnown(p)' /\ EditsAreOfTheList(p)'
  BY <1>1, <1>10 DEF RecoveredIsKnown, EditsAreOfTheList, ScanInv, Edits
<1> QED BY <1>12, <1>13, <1>14, <1>15 DEF ScanStep, ScanRest, Promise!Next

LEMMA RetriesStep ==
  ASSUME NEW p, Passes = {p}, ScanInv(p), RetriesGaps(p)
  PROVE  ScanStep(p)
<1>1. /\ pass[p].stage = "retrying" /\ UNCHANGED <<cursor, gaps, forgotten, tip, scansBegun>>
      /\ pass \in [Passes -> PassRecs] /\ pass[p] \in PassRecs /\ cursor \in Int
      /\ pass[p].stillFailed = {}
  BY DEF RetriesGaps, stored, ScanInv, ScanTyped, EditsAreOfTheList
<1>2. PICK back \in SUBSET pass[p].retry :
        LET Before(g) == FoundIn(Heights({k \in back : TriedBefore(k, g)}))
            read == {g \in back : pass[p].finds + Before(g) < MaxItems}
        IN /\ pass' = [pass EXCEPT ![p].stage = "moving", ![p].recovered = Heights(back),
                         ![p].stillFailed = Heights(pass[p].retry \ back),
                         ![p].skipped = @ \cup (pass[p].stop + 1 .. pass[p].tip)
                                          \cup Heights(back \ read)]
           /\ looked' = looked \cup Heights(read)
  BY DEF RetriesGaps
<1> DEFINE Before(g) == FoundIn(Heights({k \in back : TriedBefore(k, g)}))
           seen == {g \in back : pass[p].finds + Before(g) < MaxItems}
           lost == Heights(pass[p].retry \ back)
           came == Heights(back)
           rest == Heights(back \ seen)
           behind == pass[p].stop + 1 .. pass[p].tip
           skipped == pass[p].skipped \cup behind \cup rest
<1>3. /\ pass'[p] = [pass[p] EXCEPT !.stage = "moving", !.recovered = came,
                                    !.stillFailed = lost, !.skipped = skipped]
      /\ pass' = [pass EXCEPT ![p] = pass'[p]]
      /\ looked' = looked \cup Heights(seen)
  BY <1>1, <1>2
<1>4. came \subseteq Heights(seen) \cup rest
  BY DEF Heights
<1>5. lost \in HeightSets /\ came \in SUBSET Nat /\ rest \in SUBSET Nat
  <2>1. pass[p].retry \in GapLists
    BY <1>1 DEF PassRecs
  <2>2. /\ pass[p].retry \ back \in SUBSET pass[p].retry
        /\ back \ seen \in SUBSET pass[p].retry
    OBVIOUS
  <2> HIDE DEF seen
  <2> QED BY <2>1, <2>2, PartOfList, HeightsOfLists DEF HeightSets
<1> HIDE DEF seen, lost, came, rest
<1>6. behind \in SUBSET Int /\ pass[p].stop \in Int /\ pass[p].tip \in Int
  BY <1>1 DEF PassRecs
<1>7. skipped \in SUBSET Int
  <2>1. pass[p].skipped \in SUBSET Int
    BY <1>1 DEF PassRecs
  <2>2. \A x \in behind \cup rest : x \in Int
    BY <1>5, <1>6
  <2> HIDE DEF behind
  <2> QED BY <2>1, <2>2
<1> HIDE DEF skipped
<1>8. /\ pass'[p] \in PassRecs /\ pass'[p].stage = "moving"
      /\ pass'[p].failed = pass[p].failed /\ pass'[p].stillFailed = lost
      /\ pass'[p].recovered = came /\ pass'[p].skipped = skipped
      /\ pass'[p].read = pass[p].read /\ pass'[p].tip = pass[p].tip
  <2>1. "moving" \in ScanStages
    BY DEF ScanStages
  <2>2. /\ pass[p] \in PassRecs
        /\ pass'[p] = [pass[p] EXCEPT !.stage = "moving", !.recovered = came,
                                      !.stillFailed = lost, !.skipped = skipped]
    BY <1>1, <1>3
  <2> HIDE DEF behind
  <2>3. pass'[p] \in PassRecs
    BY <1>5, <1>7, <2>1, <2>2 DEF PassRecs
  <2>4. /\ pass'[p].stage = "moving" /\ pass'[p].failed = pass[p].failed
        /\ pass'[p].stillFailed = lost /\ pass'[p].recovered = came
    BY <2>2 DEF PassRecs
  <2>5. /\ pass'[p].skipped = skipped
        /\ pass'[p].read = pass[p].read /\ pass'[p].tip = pass[p].tip
    BY <2>2 DEF PassRecs
  <2> QED BY <2>3, <2>4, <2>5
<1>9. Owed' = Owed \cup lost
  <2>1. Unnoted(p)' = Unnoted(p) \cup lost
    BY <1>1, <1>8 DEF Unnoted
  <2> QED BY <1>1, <2>1, LonePass
<1>10. Promise!Fetch
  BY <1>1, <1>3, <1>8, <1>9, LonePass DEF Promise!Fetch, Promise!OwedIsKept
<1>11. ScanTyped'
  BY <1>1, <1>3, <1>8 DEF ScanInv, ScanTyped
<1>12. WindowIsKnown(p)'
  <2>1. Known \subseteq Known'
    BY <1>1, <1>3, <1>9 DEF Known
  <2>2. 0 .. pass[p].stop \subseteq Known \cup pass[p].skipped
    BY <1>1 DEF ScanInv, WindowIsKnown
  <2>3. \A h \in 0 .. pass[p].tip : h \in 0 .. pass[p].stop \/ h \in behind
    BY <1>6
  <2>4. 0 .. pass[p].tip \subseteq Known' \cup skipped
    BY <2>1, <2>2, <2>3 DEF skipped
  <2> QED BY <1>8, <2>4 DEF WindowIsKnown
<1>13. RecoveredIsKnown(p)'
  BY <1>3, <1>4, <1>8 DEF RecoveredIsKnown, skipped
<1>14. EditsAreOfTheList(p)'
  BY <1>1, <1>8 DEF EditsAreOfTheList, ScanInv, Edits
<1> QED BY <1>10, <1>11, <1>12, <1>13, <1>14 DEF ScanStep, ScanRest, Promise!Next

LEMMA CursorStep ==
  ASSUME NEW p, Passes = {p}, ScanInv(p), SetsCursor(p)
  PROVE  ScanStep(p)
<1>1. /\ pass[p].stage = "moving" /\ UNCHANGED <<gaps, looked, tip, scansBegun>>
      /\ pass \in [Passes -> PassRecs] /\ pass[p] \in PassRecs
      /\ cursor' = pass[p].tip /\ forgotten' = forgotten \cup pass[p].skipped
      /\ pass' = [pass EXCEPT ![p].stage = "noting"]
  BY DEF SetsCursor, ScanInv, ScanTyped
<1>2. /\ pass'[p] \in PassRecs /\ pass'[p].stage = "noting"
      /\ pass'[p].failed = pass[p].failed /\ pass'[p].stillFailed = pass[p].stillFailed
      /\ pass'[p].recovered = pass[p].recovered /\ pass'[p].read = pass[p].read
  BY <1>1 DEF PassRecs, ScanStages
<1>3. Owed' = Owed
  <2>1. Unnoted(p)' = Unnoted(p)
    BY <1>1, <1>2 DEF Unnoted
  <2> QED BY <1>1, <2>1, LonePass
<1>4. Promise!Advance
  <2>1. 0 .. pass[p].tip \subseteq Known \cup pass[p].skipped
    BY <1>1 DEF ScanInv, WindowIsKnown
  <2> QED BY <1>1, <1>2, <1>3, <2>1, LonePass DEF Promise!Advance, Known
<1>5. ScanTyped'
  <2>1. pass[p].tip \in Nat
    BY <1>1 DEF PassRecs
  <2> QED BY <1>1, <1>2, <2>1 DEF ScanInv, ScanTyped
<1>6. WindowIsKnown(p)' /\ EditsAreOfTheList(p)' /\ RecoveredIsKnown(p)'
  BY <1>1, <1>2 DEF WindowIsKnown, EditsAreOfTheList, RecoveredIsKnown, ScanInv, Edits
<1> QED BY <1>4, <1>5, <1>6 DEF ScanStep, ScanRest, Promise!Next
LEMMA SkippedStep ==
  ASSUME NEW p, Passes = {p}, ScanInv(p), EditSkipped(p)
  PROVE  ScanStep(p)
<1>1. /\ pass[p].stage \in Edits /\ pass[p].read = {} /\ HeightsToEdit(p) = {}
      /\ UNCHANGED <<cursor, gaps, looked, forgotten, tip, scansBegun>>
      /\ pass \in [Passes -> PassRecs] /\ pass[p] \in PassRecs
      /\ pass' = [pass EXCEPT ![p].stage = AfterEdit(pass[p].stage)]
  BY DEF EditSkipped, stored, history, ScanInv, ScanTyped
<1>2. AfterEdit(pass[p].stage) \in {"resolving", "renoting", "closing"}
  BY <1>1 DEF AfterEdit, Edits
<1>3. /\ pass'[p] \in PassRecs /\ pass'[p].stage = AfterEdit(pass[p].stage)
      /\ pass'[p].failed = pass[p].failed /\ pass'[p].stillFailed = pass[p].stillFailed
      /\ pass'[p].recovered = pass[p].recovered /\ pass'[p].read = {}
  BY <1>1, <1>2 DEF PassRecs, ScanStages
<1>4. Owed' = Owed
  <2>1. Unnoted(p)' = Unnoted(p)
    BY <1>1, <1>3 DEF Unnoted, HeightsToEdit, AfterEdit, Edits
  <2> QED BY <1>1, <2>1, LonePass
<1>5. PromiseSame
  BY <1>1, <1>2, <1>3, <1>4, LonePass DEF PromiseSame, Edits
<1>6. ScanTyped'
  BY <1>1, <1>3 DEF ScanInv, ScanTyped
<1>7. WindowIsKnown(p)' /\ EditsAreOfTheList(p)' /\ RecoveredIsKnown(p)'
  BY <1>1, <1>2, <1>3 DEF WindowIsKnown, EditsAreOfTheList, RecoveredIsKnown, ScanInv, Edits,
                         AfterEdit, HeightsToEdit
<1> QED BY <1>5, <1>6, <1>7, SameStutters DEF ScanStep, ScanRest

LEMMA ReadsStep ==
  ASSUME NEW p, Passes = {p}, ScanInv(p), EditReads(p)
  PROVE  ScanStep(p)
<1>1. /\ pass[p].stage \in Edits
      /\ UNCHANGED <<cursor, gaps, looked, forgotten, tip, scansBegun>>
      /\ pass \in [Passes -> PassRecs] /\ pass[p] \in PassRecs /\ gaps \in GapLists
      /\ pass' = [pass EXCEPT ![p].read = {gaps}]
  BY DEF EditReads, stored, history, ScanInv, ScanTyped
<1>2. /\ pass'[p] \in PassRecs /\ pass'[p].stage = pass[p].stage
      /\ pass'[p].failed = pass[p].failed /\ pass'[p].stillFailed = pass[p].stillFailed
      /\ pass'[p].recovered = pass[p].recovered /\ pass'[p].read = {gaps}
  BY <1>1 DEF PassRecs
<1>3. Owed' = Owed
  <2>1. Unnoted(p)' = Unnoted(p)
    BY <1>1, <1>2 DEF Unnoted
  <2> QED BY <1>1, <2>1, LonePass
<1>4. PromiseSame
  BY <1>1, <1>2, <1>3, LonePass DEF PromiseSame
<1>5. ScanTyped'
  BY <1>1, <1>2 DEF ScanInv, ScanTyped
<1>6. WindowIsKnown(p)' /\ EditsAreOfTheList(p)' /\ RecoveredIsKnown(p)'
  BY <1>1, <1>2 DEF WindowIsKnown, EditsAreOfTheList, RecoveredIsKnown, ScanInv, Edits
<1> QED BY <1>4, <1>5, <1>6, SameStutters DEF ScanStep, ScanRest

(* What all edits do to the record of the pass.                             *)
LEMMA EditFacts ==
  ASSUME NEW p, Passes = {p}, ScanInv(p), EditWrites(p)
  PROVE  /\ pass[p].stage \in Edits /\ UNCHANGED <<cursor, looked, tip, scansBegun>>
         /\ pass[p] \in PassRecs /\ pass'[p] \in PassRecs /\ gaps \in GapLists
         /\ gaps' = IF pass[p].stage = "resolving"
                    THEN {g \in gaps : g.height \notin HeightsToEdit(p)}
                    ELSE WithFailures(gaps, HeightsToEdit(p), pass[p].at)
         /\ forgotten' = IF pass[p].stage = "resolving" THEN forgotten
                         ELSE forgotten \cup ((Heights(gaps) \cup HeightsToEdit(p)) \ Heights(gaps'))
         /\ pass'[p].stage = AfterEdit(pass[p].stage) /\ pass'[p].read = {}
         /\ pass'[p].failed = pass[p].failed /\ pass'[p].stillFailed = pass[p].stillFailed
         /\ pass'[p].recovered = pass[p].recovered
         /\ gaps' \in GapLists => ScanTyped'
<1>1. /\ pass[p].read # {}
      /\ UNCHANGED <<tip, inbound, cursor, clean, scansBegun, looked, failedOnce>>
      /\ pass' = [pass EXCEPT ![p].stage = AfterEdit(pass[p].stage), ![p].read = {}]
  BY DEF EditWrites
<1>2. /\ pass[p].stage \in Edits /\ pass[p].read = {gaps}
      /\ pass \in [Passes -> PassRecs] /\ gaps \in GapLists
      /\ tip \in Nat /\ scansBegun \in Nat /\ cursor \in Nat \cup {-1}
  BY <1>1 DEF ScanInv, ScanTyped, EditsAreOfTheList
<1>3. (CHOOSE G \in pass[p].read : TRUE) = gaps
  BY <1>2
<1>4. /\ gaps' = IF pass[p].stage = "resolving"
                 THEN {g \in gaps : g.height \notin HeightsToEdit(p)}
                 ELSE WithFailures(gaps, HeightsToEdit(p), pass[p].at)
      /\ forgotten' = IF pass[p].stage = "resolving" THEN forgotten
                      ELSE forgotten \cup ((Heights(gaps) \cup HeightsToEdit(p)) \ Heights(gaps'))
  <2> DEFINE list == CHOOSE G \in pass[p].read : TRUE
  <2>1. /\ gaps' = IF pass[p].stage = "resolving"
                   THEN {g \in list : g.height \notin HeightsToEdit(p)}
                   ELSE WithFailures(list, HeightsToEdit(p), pass[p].at)
        /\ forgotten' = IF pass[p].stage = "resolving" THEN forgotten
                        ELSE forgotten \cup ((Heights(gaps) \cup HeightsToEdit(p)) \ Heights(gaps'))
    BY DEF EditWrites
  <2>2. list = gaps
    BY <1>3
  <2> HIDE DEF list
  <2> QED BY <2>1, <2>2
<1>5. AfterEdit(pass[p].stage) \in {"resolving", "renoting", "closing"}
  BY <1>2 DEF AfterEdit, Edits
<1>6. pass[p] \in PassRecs
  BY <1>2
<1>7. pass'[p] = [pass[p] EXCEPT !.stage = AfterEdit(pass[p].stage), !.read = {}]
  BY <1>1, <1>2
<1>8. pass'[p] \in PassRecs
  BY <1>5, <1>6, <1>7 DEF PassRecs, ScanStages
<1>9. /\ pass'[p].stage = AfterEdit(pass[p].stage) /\ pass'[p].read = {}
      /\ pass'[p].failed = pass[p].failed /\ pass'[p].stillFailed = pass[p].stillFailed
      /\ pass'[p].recovered = pass[p].recovered
  BY <1>6, <1>7 DEF PassRecs
<1>10. gaps' \in GapLists => ScanTyped'
  BY <1>1, <1>2, <1>8 DEF ScanTyped
<1> QED BY <1>1, <1>2, <1>4, <1>6, <1>8, <1>9, <1>10

LEMMA WritesStep ==
  ASSUME NEW p, Passes = {p}, ScanInv(p), EditWrites(p)
  PROVE  ScanStep(p)
<1> DEFINE H == HeightsToEdit(p)
           all == Heights(gaps) \cup H
<1>1. /\ pass[p].stage \in Edits /\ UNCHANGED <<cursor, looked>>
      /\ pass[p] \in PassRecs /\ gaps \in GapLists
      /\ pass'[p].stage = AfterEdit(pass[p].stage) /\ pass'[p].read = {}
      /\ pass'[p].failed = pass[p].failed /\ pass'[p].stillFailed = pass[p].stillFailed
      /\ pass'[p].recovered = pass[p].recovered
      /\ gaps' \in GapLists => ScanTyped'
  BY EditFacts
<1>2. /\ pass[p].failed \in HeightSets /\ pass[p].stillFailed \in HeightSets
      /\ pass[p].at \in Nat /\ MaxGaps \in Nat
  BY <1>1, ScanAssumption DEF PassRecs
<1>3. CASE pass[p].stage = "resolving"
  <2>1. /\ gaps' = {g \in gaps : g.height \notin pass[p].recovered} /\ forgotten' = forgotten
        /\ pass'[p].stage = "renoting"
    BY <1>1, <1>3, EditFacts DEF HeightsToEdit, AfterEdit
  <2>2. /\ Heights(gaps') \subseteq Heights(gaps)
        /\ Heights(gaps) \ Heights(gaps') \subseteq pass[p].recovered
    BY <2>1 DEF Heights
  <2>3. gaps' \in GapLists
    <3>1. gaps' \in SUBSET gaps
      BY <2>1
    <3> QED BY <1>1, <3>1, PartOfList
  <2>4. /\ Owed = Heights(gaps) \cup pass[p].stillFailed
        /\ Owed' = Heights(gaps') \cup pass[p].stillFailed
    <3>1. Unnoted(p) = pass[p].stillFailed /\ Unnoted(p)' = pass[p].stillFailed
      BY <1>1, <1>3, <2>1 DEF Unnoted
    <3> QED BY <3>1, LonePass
  <2>5. pass[p].recovered \subseteq looked \cup forgotten
    BY <1>3 DEF ScanInv, RecoveredIsKnown
  <2>6. Promise!Fetch
    BY <1>1, <1>3, <2>1, <2>2, <2>4, <2>5, LonePass DEF Promise!Fetch, Promise!OwedIsKept
  <2>7. WindowIsKnown(p)' /\ EditsAreOfTheList(p)' /\ RecoveredIsKnown(p)'
    BY <1>1, <2>1 DEF WindowIsKnown, EditsAreOfTheList, RecoveredIsKnown
  <2> QED BY <1>1, <2>3, <2>6, <2>7 DEF ScanStep, ScanRest, Promise!Next
<1>4. CASE pass[p].stage \in {"noting", "renoting"}
  <2>1. /\ gaps' = WithFailures(gaps, H, pass[p].at)
        /\ forgotten' = forgotten \cup (all \ Heights(gaps'))
    BY <1>4, EditFacts
  <2>2. H \in HeightSets /\ H \subseteq pass[p].failed \cup pass[p].stillFailed
    BY <1>2, <1>4 DEF HeightsToEdit
  <2>3. /\ gaps' \in GapLists /\ Heights(gaps') \subseteq all
        /\ \/ Heights(gaps') = all
           \/ Cardinality(all) > MaxGaps /\ Cardinality(Heights(gaps')) >= MaxGaps
    BY <1>1, <1>2, <2>1, <2>2, FailuresRecorded
  <2>4. pass'[p].stage \in {"resolving", "closing"}
    BY <1>1, <1>4 DEF AfterEdit
  <2>5. Owed = all \cup pass[p].stillFailed /\ Owed' = Heights(gaps') \cup pass[p].stillFailed
    <3>1. /\ H \cup pass[p].stillFailed = Unnoted(p)
          /\ Unnoted(p)' = pass[p].stillFailed
      BY <1>1, <1>4, <2>4 DEF Unnoted, HeightsToEdit
    <3> QED BY <3>1, LonePass
  <2> HIDE DEF H, all
  <2>6. [Promise!Next]_(Promise!vars)
    <3>1. CASE Heights(gaps') = all
      <4>1. PromiseSame
        BY <1>1, <1>4, <2>1, <2>4, <2>5, <3>1, LonePass DEF PromiseSame
      <4> QED BY <4>1, SameStutters
    <3>2. CASE Cardinality(all) > MaxGaps /\ Cardinality(Heights(gaps')) >= MaxGaps
      <4>1. Owed \in HeightSets /\ Owed' \in HeightSets /\ all \in SUBSET Owed
            /\ Heights(gaps') \in SUBSET Owed'
        <5>1. Heights(gaps) \in HeightSets /\ Heights(gaps') \in HeightSets
          BY <1>1, <2>3, HeightsOfLists
        <5>2. \A A, B \in HeightSets : A \cup B \in HeightSets
          BY FS_Union DEF HeightSets
        <5> QED BY <1>2, <2>2, <2>5, <5>1, <5>2 DEF all
      <4>2. Cardinality(all) <= Cardinality(Owed)
        BY <4>1, FS_Subset DEF HeightSets
      <4>3. Cardinality(Heights(gaps')) <= Cardinality(Owed')
        BY <4>1, FS_Subset DEF HeightSets
      <4>4. /\ Cardinality(Owed) \in Nat /\ Cardinality(Owed') \in Nat
            /\ Cardinality(all) \in Nat /\ Cardinality(Heights(gaps')) \in Nat
        <5>1. IsFiniteSet(all) /\ IsFiniteSet(Heights(gaps'))
          BY <4>1, FS_Subset DEF HeightSets
        <5> QED BY <4>1, <5>1, FS_CardinalityType DEF HeightSets
      <4>5. Cardinality(Owed) > MaxGaps /\ Cardinality(Owed') >= MaxGaps
        BY <1>2, <3>2, <4>2, <4>3, <4>4
      <4>6. /\ \A h \in Owed \ Owed' : h \in forgotten'
            /\ forgotten \subseteq forgotten' /\ forgotten' \subseteq forgotten \cup Owed
        BY <2>1, <2>5
      <4>7. Promise!OwedIsKept
        BY <4>6 DEF Promise!OwedIsKept
      <4>8. pass[p].stage # "idle" /\ pass'[p].stage # "idle"
        BY <1>4, <2>4
      <4>9. /\ \E q \in Passes : pass[q].stage # "idle"
            /\ \E q \in Passes : pass'[q].stage # "idle"
        BY <4>8
      <4>10. /\ Promise!Cardinality(Owed) = Cardinality(Owed)
             /\ Promise!Cardinality(Owed') = Cardinality(Owed')
        BY DEF Promise!Cardinality, Cardinality
      <4>11. Promise!Overflow
        BY <1>1, <4>5, <4>6, <4>7, <4>9, <4>10 DEF Promise!Overflow
      <4> QED BY <4>11 DEF Promise!Next
    <3> QED BY <2>3, <3>1, <3>2
  <2>7. WindowIsKnown(p)'
    BY <2>4 DEF WindowIsKnown
  <2>8. RecoveredIsKnown(p)'
    <3>1. pass'[p].stage = "resolving" => pass[p].stage = "noting"
      BY <1>1, <1>4 DEF AfterEdit
    <3> QED BY <1>1, <2>1, <2>4, <3>1 DEF RecoveredIsKnown, ScanInv
  <2>9. EditsAreOfTheList(p)'
    <3>1. pass'[p].stage = "closing" => pass[p].stillFailed \subseteq all
      BY <1>1, <1>4 DEF AfterEdit, all, H, HeightsToEdit
    <3> QED BY <1>1, <2>1, <2>4, <3>1 DEF EditsAreOfTheList
  <2> QED BY <1>1, <2>3, <2>6, <2>7, <2>8, <2>9 DEF ScanStep, ScanRest
<1> QED BY <1>1, <1>3, <1>4 DEF Edits

(* A pass that ends, or is ended, leaves the list as what is owed.          *)
LEMMA OverStep ==
  ASSUME NEW p, Passes = {p}, ScanInv(p), SetsLastSuccessfulHeight(p) \/ PageCloses(p)
  PROVE  ScanStep(p)
<1>1. /\ pass[p].stage # "idle" /\ UNCHANGED <<cursor, gaps, looked, tip, scansBegun>>
      /\ pass \in [Passes -> PassRecs] /\ pass[p] \in PassRecs /\ gaps \in GapLists
      /\ cursor \in Int
      /\ pass' = [pass EXCEPT ![p] = NoPass]
  BY DEF SetsLastSuccessfulHeight, PageCloses, stored, history, ScanInv, ScanTyped
<1>2. pass'[p] = NoPass
  BY <1>1
<1>3. NoPass \in PassRecs /\ NoPass.stage = "idle" /\ NoPass.read = {}
  <2>1. {} \in HeightSets /\ {} \in GapLists
    BY FS_EmptySet DEF HeightSets, GapLists, Apart
  <2> QED BY <2>1 DEF NoPass, PassRecs, ScanStages
<1>4. Owed = Heights(gaps) \cup Unnoted(p) /\ Owed' = Heights(gaps)
  <2>1. Unnoted(p)' = {}
    BY <1>2, <1>3 DEF Unnoted
  <2> QED BY <1>1, <2>1, LonePass
<1>5. /\ forgotten \subseteq forgotten' /\ forgotten' \subseteq forgotten \cup Owed
      /\ \A h \in Owed \ Owed' : h \in looked' \cup forgotten' \/ h > cursor
  <2>1. CASE SetsLastSuccessfulHeight(p)
    <3>1. /\ pass[p].stage = "closing" /\ forgotten' = forgotten
          /\ pass[p].stillFailed \subseteq Heights(gaps) \cup forgotten
      BY <2>1 DEF SetsLastSuccessfulHeight, history, ScanInv, EditsAreOfTheList
    <3>2. Unnoted(p) = pass[p].stillFailed
      BY <3>1 DEF Unnoted
    <3> QED BY <1>4, <3>1, <3>2
  <2>2. CASE PageCloses(p)
    <3>1. forgotten' = forgotten \cup {h \in Unnoted(p) \ Heights(gaps) : h <= cursor}
      BY <2>2 DEF PageCloses
    <3>2. Unnoted(p) \subseteq Nat
      BY <1>1 DEF Unnoted, PassRecs, HeightSets
    <3> QED BY <1>1, <1>4, <3>1, <3>2
  <2> QED BY <2>1, <2>2
<1>6. Promise!End
  BY <1>1, <1>2, <1>3, <1>5, LonePass DEF Promise!End, Promise!OwedIsKept
<1>7. ScanTyped'
  BY <1>1, <1>2, <1>3 DEF ScanInv, ScanTyped
<1>8. WindowIsKnown(p)' /\ EditsAreOfTheList(p)' /\ RecoveredIsKnown(p)'
  BY <1>2, <1>3 DEF WindowIsKnown, EditsAreOfTheList, RecoveredIsKnown
<1> QED BY <1>6, <1>7, <1>8 DEF ScanStep, ScanRest, Promise!Next

LEMMA ScanImplements ==
  ASSUME NEW p, Passes = {p}, ScanInv(p), [ScanNext]_scanVars
  PROVE  [Promise!Next]_(Promise!vars) /\ ScanInv(p)'
<1>1. CASE UNCHANGED scanVars
  <2>1. UNCHANGED <<tip, cursor, gaps, pass, scansBegun, looked, forgotten>>
    BY <1>1 DEF scanVars, stored, history
  <2>2. Owed' = Owed
    BY <2>1 DEF Owed, Unnoted
  <2>3. PromiseSame
    BY <2>1, <2>2 DEF PromiseSame
  <2>4. ScanInv(p)'
    BY <2>1, <2>2 DEF ScanInv, ScanTyped, PassedIsKnown, WindowIsKnown, RecoveredIsKnown,
                      EditsAreOfTheList, Known
  <2> QED BY <2>3, <2>4, SameStutters
<1>2. CASE ScanNext
  <2>1. ScanStep(p)
    BY <1>2, BlockStep, BeginsStep, RangeStep, PicksStep, WindowStep, RetriesStep, CursorStep,
       SkippedStep, ReadsStep, WritesStep, OverStep DEF ScanNext
  <2>2. PassedIsKnown'
    BY <2>1, PromiseKeeps DEF ScanStep, ScanInv, ScanTyped
  <2> QED BY <2>1, <2>2 DEF ScanStep, ScanRest, ScanInv
<1> QED BY <1>1, <1>2

(* One pass after the other, wherever the page is closed, the scan keeps    *)
(* what ScanPromise says of every block (nftDiscovery.ts).                  *)
THEOREM ScanKeepsItsPromise ==
  ASSUME NEW p, Passes = {p}
  PROVE  ScanSpec => KeepsScanPromise
<1>1. ScanInit => Promise!Init /\ ScanInv(p)
  <2> SUFFICES ASSUME ScanInit PROVE Promise!Init /\ ScanInv(p)
    OBVIOUS
  <2>1. /\ pass[p] = NoPass /\ gaps = {} /\ cursor = -1 /\ looked = {} /\ forgotten = {}
        /\ pass \in [Passes -> {NoPass}] /\ tip = 0 /\ scansBegun = 0
    BY DEF ScanInit
  <2>2. NoPass \in PassRecs /\ NoPass.stage = "idle" /\ NoPass.read = {} /\ {} \in GapLists
    <3>1. {} \in HeightSets /\ {} \in GapLists
      BY FS_EmptySet DEF HeightSets, GapLists, Apart
    <3> QED BY <3>1 DEF NoPass, PassRecs, ScanStages
  <2>3. Owed = {}
    <3>1. Unnoted(p) = {} /\ Heights(gaps) = {}
      BY <2>1, <2>2 DEF Unnoted, Heights
    <3> QED BY <3>1, LonePass
  <2>4. Promise!Init
    BY <2>1, <2>2, <2>3, LonePass DEF Promise!Init
  <2>5. ScanTyped /\ PassedIsKnown
    BY <2>1, <2>2 DEF ScanTyped, PassedIsKnown
  <2>6. WindowIsKnown(p) /\ EditsAreOfTheList(p) /\ RecoveredIsKnown(p)
    BY <2>1, <2>2 DEF WindowIsKnown, EditsAreOfTheList, RecoveredIsKnown
  <2> QED BY <2>4, <2>5, <2>6 DEF ScanInv
<1>2. ScanInv(p) /\ [ScanNext]_scanVars => [Promise!Next]_(Promise!vars) /\ ScanInv(p)'
  BY ScanImplements
<1> QED BY <1>1, <1>2, PTL DEF ScanSpec, KeepsScanPromise, Promise!Spec
=============================================================================
