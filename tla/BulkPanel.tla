----------------------------- MODULE BulkPanel -----------------------------
(***************************************************************************)
(* The bulk transfer pane: rows of recipient, asset and amount are entered *)
(* or pasted, checked and reviewed, and sent as one batch transaction where *)
(* the node takes batches and the rows fit, and otherwise one transaction   *)
(* per row, one after the other.  A node that rejects the batch as a format *)
(* it does not know has the pane fall back to single transactions.  One run *)
(* at a time; the network stays.                                            *)
(***************************************************************************)
EXTENDS Naturals, FiniteSets, FiniteSetsExt

CONSTANTS Rows,     \* rows that can be entered: [no, to, asset, amount]
          Items,     \* items, as assets of rows
          Held,     \* items the user holds
          Self,     \* the user's address
          Balance,  \* spendable, of each asset that is not an NFT
          Fee,      \* of a batch
          MaxSteps, \* BATCH_MAX_STEPS
          MaxRows,  \* BULK_MAX_ROWS
          MaxRuns   \* bound: runs begun

ASSUME RowsAssumption == \A r \in Rows : r.no \in Nat

VARIABLES takes,       \* whether the node takes batches
          form,        \* rows entered
          stage,       \* "edit", "review" or "progress"
          checking,    \* rows whose review is being made, {} or {rows}
          validated,   \* rows that passed, {} or {rows}
          mode,        \* "batch" or "sequential"
          unsupported, \* batchUnsupportedRef
          cancel,      \* cancelRef
          run,         \* the run under way
          status,      \* what the list says of each row
          said,        \* the line above the list: "none", "nothing" or "sent"
          paid,        \* history: how often each row reviewed was taken by the node
          runs         \* runs begun

bulkVars == <<takes, form, stage, checking, validated, mode, unsupported, cancel, run, status,
              said, paid, runs>>

NoRun == [stage |-> "idle", here |-> TRUE, rows |-> {}]

BulkInit ==
  /\ takes \in BOOLEAN
  /\ form = {} /\ stage = "edit" /\ checking = {} /\ validated = {}
  /\ mode = "sequential" /\ unsupported = FALSE /\ cancel = FALSE
  /\ run = NoRun /\ status = [r \in {} |-> "pending"] /\ said = "none"
  /\ paid = [r \in Rows |-> 0] /\ runs = 0

entered == <<takes, form>>
reviewed == <<checking, validated, mode, unsupported>>
told == <<status, said>>

-----------------------------------------------------------------------------
(* The rows.                                                               *)

IsNft(r) == r.asset \in Items
Total(S, asset) == MapThenSumSet(LAMBDA r : r.amount, {r \in S : r.asset = asset})

(* An asset that is not an NFT: an amount for each row, one row for each      *)
(* recipient, and no more than there is.                                     *)
ValidAsset(S, asset) ==
  LET of == {r \in S : r.asset = asset}
  IN /\ asset \in DOMAIN Balance
     /\ \A r \in of : r.amount > 0
     /\ \A r, s \in of : r.to = s.to => r = s
     /\ Total(S, asset) <= Balance[asset]

(* An NFT is held and sent once.                                             *)
ValidNft(S, asset) ==
  /\ asset \in Held
  /\ \A r, s \in S : r.asset = asset /\ s.asset = asset => r = s

Valid(S) ==
  /\ Cardinality(S) \in 1 .. MaxRows
  /\ \A r \in S : r.to # Self
  /\ \A r \in S : IF IsNft(r) THEN ValidNft(S, r.asset) ELSE ValidAsset(S, r.asset)

PlanBulkMode(S, supported) ==
  IF supported /\ Cardinality(S) \in 1 .. MaxSteps THEN "batch" ELSE "sequential"

(* The form shows the rows while they are edited, whether or not a review is *)
(* being made.                                                              *)
FormShown == stage = "edit" /\ run.stage = "idle"

EditRow(r) ==
  /\ FormShown
  /\ form' = IF r \in form THEN form \ {r} ELSE form \cup {r}
  /\ UNCHANGED <<takes, stage, reviewed, cancel, run, told, paid, runs>>

(* Lines are pasted, and added to the rows that are filled in. One whose      *)
(* asset is unknown is left out.                                             *)
ResolveCsvAsset(asset) == asset \in Items \cup DOMAIN Balance
ParseBulkCsv(lines) == {r \in lines : ResolveCsvAsset(r.asset)}

ImportCsv(lines) ==
  /\ FormShown
  /\ form' = form \cup ParseBulkCsv(lines)
  /\ UNCHANGED <<takes, stage, reviewed, cancel, run, told, paid, runs>>

(* "Clear" and "Done": everything starts over, except what is known of the    *)
(* node. A review that is being made is not stopped.                         *)
Reset ==
  /\ FormShown \/ (stage = "progress" /\ run.stage = "idle" /\ said # "none")
  /\ form' = {} /\ stage' = "edit" /\ validated' = {}
  /\ status' = [r \in {} |-> "pending"] /\ said' = "none"
  /\ UNCHANGED <<takes, checking, mode, unsupported, cancel, run, paid, runs>>

-----------------------------------------------------------------------------
(* The review.                                                             *)

(* "Review": rows that are not valid are reported and the form stays.        *)
Review ==
  /\ FormShown /\ checking = {}
  /\ checking' = IF Valid(form) THEN {form} ELSE {}
  /\ UNCHANGED <<entered, stage, validated, mode, unsupported, cancel, run, told, paid, runs>>

(* The node says whether it takes batches, unless it refused one before; the  *)
(* answer may fail to arrive. A batch is simulated: it may turn out that the  *)
(* node cannot decode it, or that the batch would fail.                       *)
ReviewMade ==
  \E S \in checking, answered \in BOOLEAN, simulated \in {"ok", "unsupported", "fails", "lost"} :
    LET plan == PlanBulkMode(S, takes /\ answered /\ ~unsupported)
        refused == plan = "batch" /\ simulated = "unsupported"
        covered == Total(S, "boing") + Fee <= Balance["boing"]
        stops == plan = "batch" /\ ~refused /\ (simulated = "fails" \/ ~covered)
    IN /\ simulated = "unsupported" => ~takes
       /\ checking' = {}
       /\ mode' = IF refused THEN "sequential" ELSE plan
       /\ unsupported' = (unsupported \/ refused)
       /\ IF stops THEN UNCHANGED <<stage, validated, paid>>
          ELSE /\ stage' = "review" /\ validated' = {S}
               /\ paid' = [r \in Rows |-> 0]
       /\ UNCHANGED <<entered, cancel, run, told, runs>>

BackToEdit ==
  /\ stage = "review"
  /\ stage' = "edit"
  /\ UNCHANGED <<entered, reviewed, cancel, run, told, paid, runs>>

-----------------------------------------------------------------------------
(* The run.                                                                *)

(* "Sign & send": the nonce is asked for. A locked wallet leads back to the   *)
(* form.                                                                    *)
Run(locked) ==
  /\ stage = "review" /\ run.stage = "idle" /\ runs < MaxRuns
  /\ \E S \in validated :
       IF locked
       THEN stage' = "edit" /\ UNCHANGED <<cancel, run, told, runs>>
       ELSE /\ runs' = runs + 1
            /\ cancel' = FALSE /\ stage' = "progress" /\ said' = "none"
            /\ run' = [stage |-> "nonce", here |-> TRUE, rows |-> S]
            /\ status' = [r \in S |-> IF mode = "batch" THEN "signing" ELSE "pending"]
  /\ UNCHANGED <<entered, reviewed, paid>>

NonceArrives ==
  /\ run.stage = "nonce"
  /\ run' = [run EXCEPT !.stage = mode]
  /\ UNCHANGED <<entered, stage, reviewed, cancel, told, paid, runs>>

(* "Could not start" or "Could not send the batch", "Nothing was sent."       *)
NonceFails ==
  /\ run.stage = "nonce"
  /\ run' = NoRun
  /\ said' = IF run.here THEN "nothing" ELSE said
  /\ UNCHANGED <<entered, stage, reviewed, cancel, status, paid, runs>>

(* The node takes the rows of a transaction, or does not.                    *)
MayTake(S) == paid' \in {paid, [r \in Rows |-> IF r \in S THEN paid[r] + 1 ELSE paid[r]]}

(* The batch is submitted. A node that does not know batches cannot decode it. *)
BatchSubmitted ==
  /\ run.stage = "batch"
  /\ run' = [run EXCEPT !.stage = "answer"]
  /\ IF takes THEN MayTake(run.rows) ELSE UNCHANGED paid
  /\ UNCHANGED <<entered, stage, reviewed, cancel, told, runs>>

(* It was taken, says the answer.                                           *)
BatchAccepted ==
  /\ run.stage = "answer"
  /\ \A r \in run.rows : paid[r] > 0
  /\ run' = NoRun
  /\ IF run.here
     THEN /\ status' = [r \in run.rows |-> "submitted"] /\ said' = "sent" /\ validated' = {}
     ELSE UNCHANGED <<told, validated>>
  /\ UNCHANGED <<entered, stage, checking, mode, unsupported, cancel, paid, runs>>

\* Mutant: any failure counts as a node that does not know batches.
BatchFailsAsUnsupported ==
  /\ run.stage = "answer"
  /\ run' = NoRun
  /\ mode' = "sequential" /\ unsupported' = TRUE /\ stage' = "review"
  /\ UNCHANGED <<entered, checking, validated, cancel, told, paid, runs>>

(* It was rejected, or there is no answer: "Nothing was sent." Where the node *)
(* could not decode it the review is shown again, with one transaction per   *)
(* row.                                                                     *)
BatchFails ==
  /\ run.stage = "answer"
  /\ run' = NoRun
  /\ \/ /\ ~takes
        /\ unsupported' = (unsupported \/ run.here)
        /\ mode' = IF run.here THEN "sequential" ELSE mode
        /\ stage' = IF run.here THEN "review" ELSE stage
        /\ UNCHANGED told
     \/ /\ status' = IF run.here THEN [r \in run.rows |-> "failed"] ELSE status
        /\ said' = IF run.here THEN "nothing" ELSE said
        /\ UNCHANGED <<unsupported, mode, stage>>
  /\ UNCHANGED <<entered, checking, validated, cancel, paid, runs>>

Pending == {r \in run.rows : run.stage = "sequential" /\ status[r] = "pending"}

(* One row after the other is signed and submitted.                          *)
RowSubmitted ==
  /\ run.stage = "sequential" /\ ~cancel /\ Pending # {}
  /\ LET r == CHOOSE s \in Pending : \A t \in Pending : s.no <= t.no
     IN /\ status' = [status EXCEPT ![r] = "signing"]
        /\ MayTake({r})
  /\ run' = [run EXCEPT !.stage = "row"]
  /\ UNCHANGED <<entered, stage, reviewed, cancel, said, runs>>

RowAccepted ==
  /\ run.stage = "row"
  /\ \E r \in run.rows : /\ status[r] = "signing" /\ paid[r] > 0
                         /\ status' = [status EXCEPT ![r] = "submitted"]
  /\ run' = [run EXCEPT !.stage = "sequential"]
  /\ UNCHANGED <<entered, stage, reviewed, cancel, said, paid, runs>>

(* A row failed, or there is no answer: the others are not sent.             *)
RowFails ==
  /\ run.stage = "row"
  /\ status' = [r \in run.rows |-> CASE status[r] = "signing" -> "failed"
                                     [] status[r] = "pending" -> "not_sent"
                                     [] OTHER -> status[r]]
  /\ run' = [run EXCEPT !.stage = "sequential"]
  /\ UNCHANGED <<entered, stage, reviewed, cancel, said, paid, runs>>

StopAfterCurrent ==
  /\ run.stage \in {"nonce", "row", "sequential"} /\ mode = "sequential" /\ run.here /\ ~cancel
  /\ cancel' = TRUE
  /\ UNCHANGED <<entered, stage, reviewed, run, told, paid, runs>>

(* The report of the run.                                                   *)
RunEnds ==
  /\ run.stage = "sequential" /\ (cancel \/ Pending = {})
  /\ run' = NoRun
  /\ IF run.here
     THEN /\ status' = [r \in run.rows |-> IF status[r] = "pending" THEN "not_sent" ELSE status[r]]
          /\ said' = "sent" /\ validated' = {}
     ELSE status' = [r \in {} |-> "pending"] /\ UNCHANGED <<said, validated>>
  /\ UNCHANGED <<entered, stage, checking, mode, unsupported, cancel, paid, runs>>

(* Another pane is opened: this one goes with all it knows, a run goes on     *)
(* without it, and its list with it.                                         *)
LeavesPane ==
  /\ form' = {} /\ stage' = "edit" /\ checking' = {} /\ validated' = {}
  /\ run.stage # "idle" => run.here
  /\ mode' = IF run.stage = "idle" THEN "sequential" ELSE mode
  /\ unsupported' = FALSE /\ said' = "none"
  /\ cancel' = (cancel /\ run.stage # "idle")
  /\ run' = [run EXCEPT !.here = run.stage = "idle"]
  /\ status' = IF run.stage = "idle" THEN [r \in {} |-> "pending"] ELSE status
  /\ UNCHANGED <<takes, paid, runs>>

BulkNext ==
  \/ Reset \/ Review \/ ReviewMade \/ BackToEdit \/ NonceArrives \/ NonceFails
  \/ BatchSubmitted \/ BatchAccepted \/ BatchFails \/ RowSubmitted \/ RowAccepted \/ RowFails
  \/ StopAfterCurrent \/ RunEnds \/ LeavesPane
  \/ \E r \in Rows : EditRow(r)
  \/ \E lines \in SUBSET Rows : ImportCsv(lines)
  \/ \E locked \in BOOLEAN : Run(locked)

BulkSpec == BulkInit /\ [][BulkNext]_bulkVars

-----------------------------------------------------------------------------
(* However the mode changes after the review, by the simulation or by a node *)
(* that rejects the batch, no row that was reviewed is taken twice.          *)
ReviewedPaidOnce == \A r \in Rows : paid[r] <= 1
=============================================================================
