------------------------------ MODULE NftScan ------------------------------
(***************************************************************************)
(* The scan for received NFTs: discoverAndPersistOwnedNfts over a window   *)
(* of recent blocks, its cursor, and the list of the blocks that could not *)
(* be fetched (nftScanGaps.ts), of one account on one network. A pass runs *)
(* when the NFT panel refreshes; nothing keeps two from overlapping, and   *)
(* the page can be closed at any await.                                    *)
(***************************************************************************)
EXTENDS Integers, FiniteSets

CONSTANTS Passes,        \* passes that may run at the same time
          Window,        \* NFT_DISCOVERY_SCAN_WINDOW
          MaxItems,      \* NFT_DISCOVERY_MAX_ITEMS
          RetryLimit,    \* NFT_DISCOVERY_GAP_RETRY_LIMIT
          MaxGaps,       \* NFT_SCAN_GAP_MAX_ENTRIES
          MaxTip,        \* bound: height of the chain
          MaxPasses,     \* bound: passes begun
          PageMayClose   \* whether the page closes in the middle of a pass

ASSUME ScanAssumption ==
  /\ Window \in Nat \ {0} /\ MaxItems \in Nat \ {0}
  /\ RetryLimit \in Nat /\ MaxGaps \in Nat

VARIABLES tip,        \* height of the chain
          inbound,    \* blocks with an NFT for the account
          cursor,     \* stored: tip of the last pass, -1 for null
          gaps,       \* stored: blocks that failed, with their history
          clean,      \* stored: lastSuccessfulHeight, -1 for null
          pass,       \* what each pass is doing
          scansBegun, \* passes begun, the time of the model
          looked,     \* history: blocks whose transactions were read
          failedOnce, \* history: blocks a pass could not fetch
          forgotten   \* history: blocks given up

stored == <<cursor, gaps, clean>>
history == <<looked, failedOnce, forgotten>>
scanVars == <<tip, inbound, stored, pass, scansBegun, history>>

NoPass == [stage |-> "idle", at |-> 0, tip |-> 0, from |-> 0, skipped |-> {},
           retry |-> {}, stop |-> 0, finds |-> 0, failed |-> {},
           recovered |-> {}, stillFailed |-> {}, read |-> {}]

ScanInit ==
  /\ tip = 0 /\ inbound \in {{}, {0}}
  /\ cursor = -1 /\ gaps = {} /\ clean = -1
  /\ pass = [p \in Passes |-> NoPass]
  /\ scansBegun = 0
  /\ looked = {} /\ failedOnce = {} /\ forgotten = {}

Lower(i, j) == IF i < j THEN i ELSE j
Higher(i, j) == IF i < j THEN j ELSE i

(* The chain grows, with or without something for the account.             *)
BlockArrives ==
  /\ tip < MaxTip
  /\ tip' = tip + 1
  /\ \/ inbound' = inbound \cup {tip + 1}
     \/ UNCHANGED inbound
  /\ UNCHANGED <<stored, pass, scansBegun, history>>

-----------------------------------------------------------------------------
(* The list of gaps.                                                       *)

Heights(G) == {g.height : g \in G}

(* Over the cap, the gaps that failed most often go, of these the oldest.  *)
KeptBefore(g, k) ==
  \/ g.attempts < k.attempts
  \/ g.attempts = k.attempts /\ g.first > k.first
  \/ g.attempts = k.attempts /\ g.first = k.first /\ g.height < k.height

CapGapEntries(G) ==
  IF Cardinality(G) <= MaxGaps THEN G
  ELSE {g \in G : Cardinality({k \in G : KeptBefore(k, g)}) < MaxGaps}

(* The list with the heights H recorded as failed at a time.               *)
WithFailures(G, H, time) ==
  CapGapEntries(
    {IF g.height \in H THEN [g EXCEPT !.attempts = @ + 1, !.last = time] ELSE g : g \in G}
    \cup {[height |-> h, first |-> time, attempts |-> 1, last |-> time] :
            h \in H \ Heights(G)})

(* The gaps to try again, those that have waited longest first.            *)
TriedBefore(g, k) == \/ g.last < k.last
                     \/ g.last = k.last /\ g.height < k.height

PickGapHeightsToRetry(G) ==
  {g \in G : Cardinality({k \in G : TriedBefore(k, g)}) < RetryLimit}

-----------------------------------------------------------------------------
(* One pass.                                                               *)

(* The pass asks for the height of the chain; a node may be a block behind. *)
(* A pass that gets no answer ends.                                        *)
ScanBegins(p) ==
  /\ pass[p].stage = "idle" /\ scansBegun < MaxPasses
  /\ \E t \in {tip, tip - 1} \cap Nat :
       pass' = [pass EXCEPT ![p] = [NoPass EXCEPT !.stage = "ranging", !.tip = t,
                                                  !.at = scansBegun]]
  /\ scansBegun' = scansBegun + 1
  /\ UNCHANGED <<tip, inbound, stored, history>>

\* Mutant: the scan resumes one block too late.
ScanFromOneLate(t) ==
  IF cursor < 0 THEN Higher(0, t - Window + 1)
  ELSE Lower(Higher(cursor + 2, t - Window + 1), t)

(* The first block to scan: after the cursor, but at most a window of them, *)
(* and never none.                                                         *)
ScanFrom(t) ==
  IF cursor < 0 THEN Higher(0, t - Window + 1)
  ELSE Lower(Higher(cursor + 1, t - Window + 1), t)

ReadsCursor(p) ==
  /\ pass[p].stage = "ranging"
  /\ LET from == ScanFrom(pass[p].tip) IN
       pass' = [pass EXCEPT ![p].stage = "picking", ![p].from = from,
                  ![p].skipped = cursor + 1 .. Higher(cursor + 1, pass[p].tip - Window + 1) - 1]
  /\ UNCHANGED <<tip, inbound, stored, scansBegun, history>>

PicksGaps(p) ==
  /\ pass[p].stage = "picking"
  /\ pass' = [pass EXCEPT ![p].stage = "fetching",
                ![p].retry = {g \in PickGapHeightsToRetry(gaps) :
                                g.height \notin pass[p].from .. pass[p].tip}]
  /\ UNCHANGED <<tip, inbound, stored, scansBegun, history>>

(* What the transactions of some blocks hold for the account.               *)
FoundIn(B) == Cardinality(B \cap inbound)

(* Every block of the window is fetched, twice if need be; then they are    *)
(* read in order, up to the one with which MaxItems NFTs are found. What    *)
(* lies behind it is not looked at, nor whether it could be fetched.        *)
FetchesWindow(p) ==
  /\ pass[p].stage = "fetching"
  /\ \E lost \in SUBSET (pass[p].from .. pass[p].tip) :
       LET window == pass[p].from .. pass[p].tip
           FindsTo(h) == FoundIn({k \in window \ lost : k <= h})
           stop == CHOOSE h \in window :
                     /\ FindsTo(h) >= MaxItems \/ h = pass[p].tip
                     /\ \A k \in window : k < h => FindsTo(k) < MaxItems
       IN /\ pass' = [pass EXCEPT ![p].stage = "retrying", ![p].stop = stop,
                        ![p].finds = FindsTo(stop),
                        ![p].failed = {h \in lost : h <= stop}]
          /\ looked' = looked \cup {h \in window \ lost : h <= stop}
          /\ failedOnce' = failedOnce \cup lost
  /\ UNCHANGED <<tip, inbound, stored, scansBegun, forgotten>>

(* The gaps are fetched again. Those that come back count as recovered,     *)
(* also when enough NFTs were found and they are not read.                  *)
RetriesGaps(p) ==
  /\ pass[p].stage = "retrying"
  /\ \E back \in SUBSET pass[p].retry :
       LET Before(g) == FoundIn(Heights({k \in back : TriedBefore(k, g)}))
           read == {g \in back : pass[p].finds + Before(g) < MaxItems}
       IN /\ pass' = [pass EXCEPT ![p].stage = "moving", ![p].recovered = Heights(back),
                        ![p].stillFailed = Heights(pass[p].retry \ back),
                        ![p].skipped = @ \cup (pass[p].stop + 1 .. pass[p].tip)
                                         \cup Heights(back \ read)]
          /\ looked' = looked \cup Heights(read)
  /\ UNCHANGED <<tip, inbound, stored, scansBegun, failedOnce, forgotten>>

(* The cursor goes to the tip, whatever failed.                             *)
SetsCursor(p) ==
  /\ pass[p].stage = "moving"
  /\ cursor' = pass[p].tip
  /\ forgotten' = forgotten \cup pass[p].skipped
  /\ pass' = [pass EXCEPT ![p].stage = "noting"]
  /\ UNCHANGED <<tip, inbound, gaps, clean, scansBegun, looked, failedOnce>>

(* Three calls change the list of gaps one after the other. Each reads it   *)
(* and writes it back.                                                      *)
Edits == {"noting", "resolving", "renoting"}
AfterEdit(stage) == CASE stage = "noting" -> "resolving"
                      [] stage = "resolving" -> "renoting"
                      [] stage = "renoting" -> "closing"

HeightsToEdit(p) ==
  CASE pass[p].stage = "noting" -> pass[p].failed
    [] pass[p].stage = "resolving" -> pass[p].recovered
    [] pass[p].stage = "renoting" -> pass[p].stillFailed

(* A call for no block is not made.                                         *)
EditSkipped(p) ==
  /\ pass[p].stage \in Edits /\ pass[p].read = {} /\ HeightsToEdit(p) = {}
  /\ pass' = [pass EXCEPT ![p].stage = AfterEdit(@)]
  /\ UNCHANGED <<tip, inbound, stored, scansBegun, history>>

EditReads(p) ==
  /\ pass[p].stage \in Edits /\ pass[p].read = {} /\ HeightsToEdit(p) # {}
  /\ pass' = [pass EXCEPT ![p].read = {gaps}]
  /\ UNCHANGED <<tip, inbound, stored, scansBegun, history>>

EditWrites(p) ==
  /\ pass[p].read # {}
  /\ LET list == CHOOSE G \in pass[p].read : TRUE
         H == HeightsToEdit(p)
     IN gaps' = IF pass[p].stage = "resolving" THEN {g \in list : g.height \notin H}
                ELSE WithFailures(list, H, pass[p].at)
  /\ forgotten' = IF pass[p].stage = "resolving" THEN forgotten
                  ELSE forgotten \cup ((Heights(gaps) \cup HeightsToEdit(p)) \ Heights(gaps'))
  /\ pass' = [pass EXCEPT ![p].stage = AfterEdit(@), ![p].read = {}]
  /\ UNCHANGED <<tip, inbound, cursor, clean, scansBegun, looked, failedOnce>>

(* What the pass reports as scanned without a gap: below the lowest one.    *)
SetsLastSuccessfulHeight(p) ==
  /\ pass[p].stage = "closing"
  /\ clean' = IF gaps = {} THEN pass[p].tip
              ELSE Higher(0, (CHOOSE h \in Heights(gaps) :
                                \A k \in Heights(gaps) : h <= k) - 1)
  /\ pass' = [pass EXCEPT ![p] = NoPass]
  /\ UNCHANGED <<tip, inbound, cursor, gaps, scansBegun, history>>

(* What a pass has to note counts as owed before it has.                    *)
Unnoted(p) ==
  (IF pass[p].stage \in {"retrying", "moving", "noting"} THEN pass[p].failed ELSE {})
  \cup (IF pass[p].stage = "idle" THEN {} ELSE pass[p].stillFailed)

(* The page goes in the middle of a pass. Once the cursor is past them,     *)
(* blocks that failed and are not noted yet are gone.                       *)
PageCloses(p) ==
  /\ PageMayClose /\ pass[p].stage # "idle"
  /\ forgotten' = forgotten \cup {h \in Unnoted(p) \ Heights(gaps) : h <= cursor}
  /\ pass' = [pass EXCEPT ![p] = NoPass]
  /\ UNCHANGED <<tip, inbound, stored, scansBegun, looked, failedOnce>>

ScanNext ==
  \/ BlockArrives
  \/ \E p \in Passes :
       \/ ScanBegins(p) \/ ReadsCursor(p) \/ PicksGaps(p) \/ FetchesWindow(p)
       \/ RetriesGaps(p) \/ SetsCursor(p) \/ EditSkipped(p) \/ EditReads(p)
       \/ EditWrites(p) \/ SetsLastSuccessfulHeight(p) \/ PageCloses(p)

ScanSpec == ScanInit /\ [][ScanNext]_scanVars

-----------------------------------------------------------------------------
Owed == Heights(gaps) \cup UNION {Unnoted(p) : p \in Passes}

Promise == INSTANCE ScanPromise WITH
             passing <- \E p \in Passes : pass[p].stage # "idle",
             owed <- Owed, MaxOwed <- MaxGaps

(* Of one pass after the other, also if the page is closed in any of them:  *)
(* every block behind the cursor was read, is owed another try, or was      *)
(* given up in one of four ways: it fell out of the window, lay behind the  *)
(* last NFT a pass takes, fell off the full list of gaps, or failed in a    *)
(* pass that was closed between moving the cursor and noting it.            *)
KeepsScanPromise == Promise!Spec
=============================================================================
