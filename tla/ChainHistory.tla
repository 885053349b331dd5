---------------------------- MODULE ChainHistory ----------------------------
(***************************************************************************)
(* The transactions tab: the account's transactions from the node, a page  *)
(* at a time from the newest on, merged with the ones recorded on this     *)
(* device.  Loads of pages may overlap: the buttons wait for the load under *)
(* way, the reload some seconds after a transaction does not.              *)
(***************************************************************************)
EXTENDS Naturals, FiniteSets, FiniteSetsExt

CONSTANTS PageSize,   \* rows of a page (25 in the code)
          MaxTx,      \* bound: transactions
          MaxPages,   \* bound: loads that run at the same time
          MaxLocal    \* bound: transactions sent from here

ASSUME PageSizeAssumption == PageSize \in Nat \ {0}

VARIABLES committed, \* transactions on the chain: 1 .. committed
          rows,     \* chainTx: rows shown from the chain
          older,    \* chainCursor: where the next page begins, {} for null
          loading,  \* chainLoading: the buttons wait
          loads,    \* loads under way, with their cursors
          local,    \* stored: transactions sent from here
          reverted, \* transactions that fail when they are executed
          reloads   \* reloads to come, four seconds after a transaction

historyVars == <<committed, rows, older, loading, loads, local, reverted, reloads>>

HistoryInit ==
  /\ committed \in 0 .. MaxTx - 1
  /\ rows = {} /\ older = {} /\ loading = FALSE
  /\ loads = {} /\ local = {} /\ reloads = 0
  /\ reverted \in SUBSET (1 .. MaxTx)

-----------------------------------------------------------------------------
(* The node and the record of this device.                                 *)

(* A transaction of the account is committed, sent from here or not.        *)
Commits ==
  /\ committed < MaxTx
  /\ committed' = committed + 1
  /\ UNCHANGED <<rows, older, loading, loads, local, reverted, reloads>>

(* One is sent from here, which will be committed next: it is recorded, in   *)
(* front of the ones before it, and the chain is asked later.                *)
Sends ==
  /\ Cardinality(local) < MaxLocal /\ committed < MaxTx
  /\ local' = local \cup {committed + 1}
  /\ reloads' = reloads + 1
  /\ UNCHANGED <<committed, rows, older, loading, loads, reverted>>

(* The rows of a page: the newest below its cursor.                         *)
Below(cursor) == {t \in 1 .. committed : \A c \in cursor : t < c}
PageAt(cursor) == {t \in Below(cursor) : Cardinality({u \in Below(cursor) : u > t}) < PageSize}
NextCursor(cursor) == IF PageAt(cursor) = Below(cursor) THEN {} ELSE {Min(PageAt(cursor))}

-----------------------------------------------------------------------------
(* Loading.                                                                *)

LoadBegins(cursor) ==
  /\ Cardinality(loads) < MaxPages
  /\ loads' = loads \cup {[cursor |-> cursor, no |-> n] :
                            n \in {Min((1 .. MaxPages) \ {l.no : l \in loads})}}
  /\ loading' = TRUE

(* The tab is opened, or its rows are asked for again.                       *)
OpensTab ==
  /\ ~loading
  /\ LoadBegins({})
  /\ UNCHANGED <<committed, rows, older, local, reverted, reloads>>

LoadOlder ==
  /\ ~loading /\ older # {}
  /\ LoadBegins(older)
  /\ UNCHANGED <<committed, rows, older, local, reverted, reloads>>

ReloadFires ==
  /\ reloads > 0 /\ reloads' = reloads - 1
  /\ LoadBegins({})
  /\ UNCHANGED <<committed, rows, older, local, reverted>>

\* Mutant: the cursor of the rows that are replaced stays.
PageArrivesKeepingCursor(l) ==
  /\ rows' = PageAt(l.cursor) \cup (IF l.cursor = {} THEN {} ELSE rows)
  /\ older' = IF l.cursor = {} /\ rows # {} THEN older ELSE NextCursor(l.cursor)
  /\ loading' = FALSE
  /\ loads' = loads \ {l}
  /\ UNCHANGED <<committed, local, reverted, reloads>>

(* A page arrives: the first one replaces the rows, another is added to      *)
(* whatever rows there are.                                                  *)
PageArrives(l) ==
  /\ rows' = PageAt(l.cursor) \cup (IF l.cursor = {} THEN {} ELSE rows)
  /\ older' = NextCursor(l.cursor)
  /\ loading' = FALSE
  /\ loads' = loads \ {l}
  /\ UNCHANGED <<committed, local, reverted, reloads>>

LoadFails(l) ==
  /\ loading' = FALSE
  /\ loads' = loads \ {l}
  /\ UNCHANGED <<committed, rows, older, local, reverted, reloads>>

(* A node that has no history: the rows go.                                  *)
Unsupported(l) ==
  /\ rows' = {} /\ older' = {} /\ loading' = FALSE
  /\ loads' = loads \ {l}
  /\ UNCHANGED <<committed, local, reverted, reloads>>

HistoryNext ==
  \/ Commits \/ Sends \/ OpensTab \/ LoadOlder \/ ReloadFires
  \/ \E l \in loads : PageArrives(l) \/ LoadFails(l) \/ Unsupported(l)

HistorySpec == HistoryInit /\ [][HistoryNext]_historyVars

-----------------------------------------------------------------------------
(* What the tab lists: the rows of the chain, with the summary recorded here *)
(* for those sent from here and not reverted, and the ones recorded here     *)
(* without a row.  Such a one is pending while it is recent or nothing has   *)
(* been loaded, and counts as confirmed later.                               *)
Status(t) == IF t \in reverted THEN "failed" ELSE "confirmed"
Merged ==
  {[tx |-> t, status |-> {Status(t)}, source |-> IF t \in local THEN "both" ELSE "chain"] :
      t \in rows} \cup
  {[tx |-> t, status |-> {"pending", "confirmed"}, source |-> "local"] : t \in local \ rows}

(* However loads overlap, when older transactions are not offered any more,  *)
(* the oldest one of the chain is listed as such: rows and cursor are those  *)
(* of one load.                                                              *)
EndIsTheEnd ==
  LET fromChain == {e.tx : e \in {f \in Merged : f.source # "local"}}
  IN fromChain # {} /\ older = {} => 1 \in fromChain
=============================================================================
