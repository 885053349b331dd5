------------------------------ MODULE NftPanel ------------------------------
(***************************************************************************)
(* The NFT panel: the stored watch list, the refreshes that add what the   *)
(* owner index and the scan find and then ask the chain who owns each item, *)
(* the user's selection, and the transfer of the selected items, one       *)
(* transaction each.  It is on the wallet tab, where one item is opened,    *)
(* or on the transfer tab, where several are selected.  Refreshes overlap.  *)
(***************************************************************************)
EXTENDS Naturals, FiniteSets

CONSTANTS Nfts,         \* items
          Refreshes,    \* refreshes that may run at the same time
          MaxRefreshes, \* bound: refreshes begun
          MaxTransfers  \* bound: transfers confirmed

VARIABLES panel,      \* where the panel is: "view" or "transfer"
          mine,      \* items the chain has as the account's
          leaving,   \* items in a transaction that the node took
          watched,   \* stored: the watch list
          edit,      \* the user's change of it, between its read and its write
          statuses,  \* the items shown, and whether each is owned
          selected,  \* selectedKeys
          detail,    \* detailKey: {} or the item that is open
          recipient, \* "none", "asked" for, or "found": the review is shown
          refresh,   \* what each refresh is doing
          begun,     \* refreshes begun
          later,     \* refreshes to come after a transfer
          job,       \* the items of the transfer that goes on
          transfers  \* transfers confirmed

panelVars == <<panel, mine, leaving, watched, edit, statuses, selected, detail, recipient,
               refresh, begun, later, job, transfers>>
onChain == <<mine, leaving>>
choice  == <<selected, detail, recipient>>
ahead   == <<begun, later, job, transfers>>

Resting == [stage |-> "idle", here |-> FALSE, found |-> {}, read |-> {}]
NoEdit  == [op |-> "none"]

NftsInit ==
  /\ panel \in {"view", "transfer"}
  /\ mine \in SUBSET Nfts /\ leaving = {}
  /\ watched \in SUBSET Nfts /\ edit = NoEdit
  /\ statuses = [n \in {} |-> FALSE]
  /\ selected = {} /\ detail = {} /\ recipient = "none"
  /\ refresh = [p \in Refreshes |-> Resting]
  /\ begun = 0 /\ later = 0 /\ job = {} /\ transfers = 0

(* filterOwnedHoldings.                                                     *)
Owned(shown) == {n \in DOMAIN shown : shown[n]}

Reviewing == recipient = "found"
Transferring == job # {}

-----------------------------------------------------------------------------
(* The chain.                                                              *)

(* A transaction is included; or an item comes to the account or leaves it  *)
(* from elsewhere.                                                          *)
Included(n) ==
  /\ n \in leaving
  /\ leaving' = leaving \ {n} /\ mine' = mine \ {n}
  /\ UNCHANGED <<panel, watched, edit, statuses, choice, refresh, ahead>>

Received(n) ==
  /\ n \notin mine \cup leaving
  /\ begun = 1
  /\ mine' = mine \cup {n}
  /\ UNCHANGED <<panel, leaving, watched, edit, statuses, choice, refresh, ahead>>

-----------------------------------------------------------------------------
(* Refreshes.                                                              *)

(* What the owner index answers, if it is there, and what the scan finds.   *)
IndexAnswers == SUBSET mine
ScanFinds    == SUBSET mine

RefreshBegins ==
  /\ begun < MaxRefreshes /\ begun' = begun + 1
  /\ \E p \in Refreshes : refresh[p] = Resting
  /\ LET p == CHOOSE q \in Refreshes : refresh[q] = Resting
     IN \E found \in IndexAnswers \cup ScanFinds :
          refresh' = [refresh EXCEPT ![p] = [Resting EXCEPT !.stage = "finding",
                                                       !.here = TRUE, !.found = found]]

(* When the panel appears, and by its button once no refresh runs.           *)
RefreshPressed ==
  /\ \A p \in Refreshes : ~refresh[p].here
  /\ RefreshBegins
  /\ UNCHANGED <<panel, onChain, watched, edit, statuses, choice, later, job, transfers>>

RefreshLater ==
  /\ later > 0 /\ later' = later - 1
  /\ RefreshBegins
  /\ UNCHANGED <<panel, onChain, watched, edit, statuses, choice, job, transfers>>

(* What was found is added to the watch list: it is read, then written.      *)
FindsRead(p) ==
  /\ refresh[p].stage = "finding"
  /\ refresh' = [refresh EXCEPT ![p].stage = IF refresh[p].found = {} THEN "listing" ELSE "adding",
                                ![p].read = watched]
  /\ UNCHANGED <<panel, onChain, watched, edit, statuses, choice, ahead>>

FindsWritten(p) ==
  /\ refresh[p].stage = "adding"
  /\ watched' = refresh[p].read \cup refresh[p].found
  /\ refresh' = [refresh EXCEPT ![p].stage = "listing"]
  /\ UNCHANGED <<panel, onChain, edit, statuses, choice, ahead>>

Lists(p) ==
  /\ refresh[p].stage = "listing"
  /\ refresh' = [refresh EXCEPT ![p].stage = "probing", ![p].found = {}, ![p].read = watched]
  /\ UNCHANGED <<panel, onChain, watched, edit, statuses, choice, ahead>>

(* Who owns an item, as the chain says now; a read that fails counts as not  *)
(* owned.                                                                   *)
ProbeAnswers(n) == IF n \in mine THEN BOOLEAN ELSE {FALSE}

Probed(p) == {s \in [refresh[p].read -> BOOLEAN] :
                \A n \in refresh[p].read : s[n] \in ProbeAnswers(n)}

\* Mutant: the selection stays as it is.
ShowsKeepingSelection(p) ==
  /\ refresh[p].stage = "probing"
  /\ statuses' \in IF refresh[p].here THEN Probed(p) ELSE {statuses}
  /\ refresh' = [refresh EXCEPT ![p] = Resting]
  /\ UNCHANGED <<panel, onChain, watched, edit, choice, ahead>>

(* The items come to the screen, if it is still there; of the selected ones   *)
(* those stay selected that are owned.                                      *)
Shows(p) ==
  /\ refresh[p].stage = "probing"
  /\ statuses' \in IF refresh[p].here THEN Probed(p) ELSE {statuses}
  /\ selected' = IF refresh[p].here THEN selected \cap Owned(statuses') ELSE selected
  /\ refresh' = [refresh EXCEPT ![p] = Resting]
  /\ UNCHANGED <<panel, onChain, watched, edit, detail, recipient, ahead>>

RefreshFails(p) ==
  /\ refresh[p].stage # "idle"
  /\ refresh' = [refresh EXCEPT ![p] = Resting]
  /\ UNCHANGED <<panel, onChain, watched, edit, statuses, choice, ahead>>

-----------------------------------------------------------------------------
(* The watch list.                                                         *)

HandleAdd(n) ==
  /\ panel = "view" /\ edit = NoEdit
  /\ edit' = [op |-> "add", nft |-> n, read |-> watched]
  /\ UNCHANGED <<panel, onChain, watched, statuses, choice, refresh, ahead>>

HandleRemove(n) ==
  /\ panel = "view" /\ edit = NoEdit /\ n \in detail \cap DOMAIN statuses
  /\ edit' = [op |-> "remove", nft |-> n, read |-> watched]
  /\ UNCHANGED <<panel, onChain, watched, statuses, choice, refresh, ahead>>

(* The list is written, and a refresh follows. A removed item is no longer   *)
(* selected or open.                                                        *)
EditWritten ==
  /\ edit # NoEdit /\ edit' = NoEdit
  /\ watched' = IF edit.op = "add" THEN edit.read \cup {edit.nft} ELSE edit.read \ {edit.nft}
  /\ selected' = IF edit.op = "add" THEN selected ELSE selected \ {edit.nft}
  /\ detail' = IF edit.op = "add" THEN detail ELSE detail \ {edit.nft}
  /\ RefreshBegins
  /\ UNCHANGED <<panel, onChain, statuses, recipient, later, job, transfers>>

-----------------------------------------------------------------------------
(* The selection.                                                          *)

(* The items in the grid, and those in the list with the check boxes.        *)
Listed == IF panel = "view" THEN DOMAIN statuses ELSE Owned(statuses)

OpenDetail(n) ==
  /\ panel = "view" /\ detail = {} /\ n \in Listed
  /\ detail' = {n} /\ recipient' = "none"
  /\ selected' = IF statuses[n] THEN {n} ELSE selected
  /\ UNCHANGED <<panel, onChain, watched, edit, statuses, refresh, ahead>>

CloseDetail ==
  /\ detail # {}
  /\ detail' = {} /\ recipient' = "none"
  /\ UNCHANGED <<panel, onChain, watched, edit, statuses, selected, refresh, ahead>>

ToggleSelected(n) ==
  /\ panel = "transfer" /\ n \in Listed
  /\ selected' = IF n \in selected THEN selected \ {n} ELSE selected \cup {n}
  /\ recipient' = "none"
  /\ UNCHANGED <<panel, onChain, watched, edit, statuses, detail, refresh, ahead>>

SelectAllOwned ==
  /\ panel = "transfer" /\ Owned(statuses) # {}
  /\ selected' = Owned(statuses) /\ recipient' = "none"
  /\ UNCHANGED <<panel, onChain, watched, edit, statuses, detail, refresh, ahead>>

ClearSelection ==
  /\ panel = "transfer" /\ selected # {}
  /\ selected' = {} /\ recipient' = "none"
  /\ UNCHANGED <<panel, onChain, watched, edit, statuses, detail, refresh, ahead>>

-----------------------------------------------------------------------------
(* The transfer.                                                           *)

(* The items to send: the one that is open, or the selected ones.            *)
Targets == Owned(statuses) \cap (IF detail # {} /\ panel = "view" THEN detail ELSE selected)

(* The form is in the sheet of the item that is open and owned, and below    *)
(* the list.                                                                *)
SendShown == Targets # {} /\ (panel = "view" => detail # {})

(* "Transfer": the recipient is looked up, then the review is shown.         *)
HandleTransfer ==
  /\ SendShown /\ ~Reviewing /\ ~Transferring
  /\ recipient' = "asked"
  /\ UNCHANGED <<panel, onChain, watched, edit, statuses, selected, detail, refresh, ahead>>

RecipientFound ==
  /\ recipient = "asked"
  /\ recipient' \in {"found", "none"}
  /\ UNCHANGED <<panel, onChain, watched, edit, statuses, selected, detail, refresh, ahead>>

(* The review, on the transfer tab of as many transactions as are selected.  *)
ReviewShown == Reviewing /\ IF panel = "view" THEN Targets # {} ELSE selected # {}

Confirm ==
  /\ ReviewShown /\ ~Transferring /\ Targets # {}
  /\ transfers < MaxTransfers /\ transfers' = transfers + 1
  /\ job' = Targets
  /\ UNCHANGED <<panel, onChain, watched, edit, statuses, choice, refresh, begun, later>>

(* One transaction after the other: the node takes it, or does not, or the   *)
(* answer is lost. The last one ends the transfer: the selection and the     *)
(* review go, and two refreshes follow.                                     *)
TransferOne(n) ==
  /\ n \in job
  /\ leaving' \in {leaving, leaving \cup ({n} \cap mine)}
  /\ job' = job \ {n}
  /\ IF job' = {}
     THEN /\ selected' \in {{}, selected} /\ recipient' = "none"
          /\ later' = later + 2
     ELSE UNCHANGED <<selected, recipient, later>>
  /\ UNCHANGED <<panel, mine, watched, edit, statuses, detail, refresh, begun, transfers>>

(* The name does not stand for the address reviewed any more.               *)
TransferFails ==
  /\ Transferring
  /\ job' = {} /\ recipient' = "none"
  /\ UNCHANGED <<panel, onChain, watched, edit, statuses, selected, detail, refresh, begun,
                 later, transfers>>

(* The user leaves the tab: the panel goes. A transfer and the refreshes go  *)
(* on without it.                                                           *)
LeavesTab ==
  /\ panel' = IF panel = "view" THEN "transfer" ELSE "view"
  /\ statuses' = [n \in {} |-> FALSE]
  /\ selected' = {} /\ detail' = {} /\ recipient' = "none"
  /\ edit' = NoEdit /\ later' = 0 /\ job' = {}
  /\ \E taken \in SUBSET (job \cap mine) : leaving' = leaving \cup taken
  /\ refresh' = [p \in Refreshes |-> [refresh[p] EXCEPT !.here = FALSE]]
  /\ UNCHANGED <<mine, watched, begun, transfers>>

NftsNext ==
  \/ RefreshPressed \/ RefreshLater \/ EditWritten \/ CloseDetail \/ SelectAllOwned
  \/ ClearSelection \/ HandleTransfer \/ RecipientFound \/ Confirm \/ TransferFails \/ LeavesTab
  \/ \E n \in Nfts : \/ Included(n) \/ Received(n) \/ HandleAdd(n) \/ HandleRemove(n)
                     \/ OpenDetail(n) \/ ToggleSelected(n) \/ TransferOne(n)
  \/ \E p \in Refreshes : FindsRead(p) \/ FindsWritten(p) \/ Lists(p) \/ Shows(p) \/ RefreshFails(p)

NftsSpec == NftsInit /\ [][NftsNext]_panelVars

-----------------------------------------------------------------------------
(* The review says how many items are sent, by counting the selected ones,   *)
(* and what is sent are the selected ones that are owned: although refreshes *)
(* overlap and come in any order, these are the same.                        *)
SelectionIsOwned == selected \subseteq Owned(statuses)
=============================================================================
