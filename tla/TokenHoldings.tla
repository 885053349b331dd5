--------------------------- MODULE TokenHoldings ---------------------------
(***************************************************************************)
(* The token list of the wallet: loadTokenHoldings with its cache, the     *)
(* stored watch list and the stored list of recent holdings, and the hook  *)
(* and panel that start loads. A load reads both lists, asks the node for   *)
(* more candidates, reads a balance for each, and writes the recent        *)
(* holdings back. Loads may overlap, and nothing orders their results.     *)
(***************************************************************************)
EXTENDS Naturals, FiniteSets, Sequences, SequencesExt

CONSTANTS Tokens,      \* token contracts
          Loads,       \* loads that may run at the same time
          MaxWatched,  \* MAX_ENTRIES of tokenWatchlist.ts
          MaxRecent,   \* MAX_ENTRIES of tokenRecentHoldings.ts
          MaxTokenLoads \* bound: loads begun

VARIABLES watch,     \* stored: the watch list, newest first
          recent,    \* stored: the recent holdings, newest first
          watchEdit, \* a change of the watch list that has read the list
          load,      \* what each load is doing
          loadsBegun, \* loads begun
          shown,     \* the list on the screen
          cache,     \* holdingsCache: {} or a load and its list
          mounted,   \* whether the wallet screen is there
          owed,      \* whether a screen that went left a refresh behind
          source,    \* history: the load that read the list on the screen, or 0
          since      \* history: the loads begun when each watched token was added

tokenVars == <<watch, recent, watchEdit, load, loadsBegun, shown, cache, mounted,
               owed, source, since>>

NoLoad == [stage |-> "idle", no |-> 0, bypass |-> FALSE, here |-> FALSE, watched |-> {},
           recent |-> {}, list |-> {}, held |-> {}, gone |-> <<>>, kept |-> <<>>]
NoWatchEdit == [op |-> "none"]

Newest(s, max) == SubSeq(s, 1, IF Len(s) < max THEN Len(s) ELSE max)
Without(s, T) == SelectSeq(s, LAMBDA t : t \notin T)

TokensInit ==
  /\ watch = <<>> /\ recent = <<>>
  /\ watchEdit = NoWatchEdit
  /\ load = [l \in Loads |-> NoLoad]
  /\ loadsBegun = 0
  /\ shown = {} /\ cache = {} /\ mounted = FALSE /\ owed = FALSE
  /\ source = 0 /\ since = <<>>

Idle(l) == load[l].stage = "idle"

(* A load begins. The panel's refreshes pass over the cache, that of a       *)
(* screen which appears does not.                                            *)
Begins(l, bypass, here) ==
  /\ Idle(l) /\ l = CHOOSE k \in Loads : Idle(k)
  /\ loadsBegun < MaxTokenLoads /\ loadsBegun' = loadsBegun + 1
  /\ load' = [load EXCEPT ![l] = [NoLoad EXCEPT !.stage = "opening", !.no = loadsBegun + 1,
                                                !.bypass = bypass, !.here = here]]

ScreenAppears(l) ==
  /\ ~mounted /\ mounted' = TRUE
  /\ shown' = {} /\ source' = 0
  /\ Begins(l, FALSE, TRUE)
  /\ UNCHANGED <<watch, recent, watchEdit, cache, owed, since>>

(* The wallet locks: the screen goes, and the loads go on without it. So     *)
(* does the refresh that was set for two seconds after a send.              *)
ScreenGoes ==
  /\ mounted /\ mounted' = FALSE
  /\ shown' = {} /\ source' = 0
  /\ watchEdit' = NoWatchEdit
  /\ load' = [l \in Loads |-> [load[l] EXCEPT !.here = FALSE]]
  /\ owed' = TRUE
  /\ UNCHANGED <<watch, recent, loadsBegun, cache, since>>

(* The button of the panel, and the refresh two seconds after a send. The    *)
(* button waits for the first load to end, the other for none.              *)
TokensRefreshed(l) ==
  /\ mounted
  /\ Begins(l, TRUE, TRUE)
  /\ UNCHANGED <<watch, recent, watchEdit, shown, cache, mounted, owed, source, since>>

RefreshedForNobody(l) ==
  /\ owed /\ owed' = FALSE
  /\ Begins(l, TRUE, FALSE)
  /\ UNCHANGED <<watch, recent, watchEdit, shown, cache, mounted, source, since>>

(* The user watches a token or stops watching it: the list is read, and     *)
(* written back; then the panel refreshes.                                  *)
WatchEdited(op, t) ==
  /\ mounted /\ watchEdit = NoWatchEdit
  /\ op = "remove" => t \in shown
  /\ watchEdit' = [op |-> op, token |-> t, list |-> watch]
  /\ UNCHANGED <<watch, recent, load, loadsBegun, shown, cache, mounted, owed, source, since>>

WatchWritten(l) ==
  /\ watchEdit # NoWatchEdit
  /\ watch' = IF watchEdit.op = "remove" THEN Without(watchEdit.list, {watchEdit.token})
              ELSE Newest(<<watchEdit.token>> \o Without(watchEdit.list, {watchEdit.token}), MaxWatched)
  /\ watchEdit' = NoWatchEdit
  /\ since' = [t \in Range(watch') |-> IF t \in Range(watch) THEN since[t] ELSE loadsBegun]
  /\ Begins(l, TRUE, TRUE)
  /\ UNCHANGED <<recent, shown, cache, mounted, owed, source>>

(* The list that load no has read comes to the screen that load l is for.   *)
ShowsTokens(l, no, list) ==
  /\ shown' = IF load[l].here THEN list ELSE shown
  /\ source' = IF load[l].here THEN no ELSE source

(* The watch list is read; a list in the cache is taken unless it is passed  *)
(* over or older than 20 seconds.                                            *)
TakesCached(l) ==
  /\ load[l].stage = "opening" /\ ~load[l].bypass
  /\ \E c \in cache : ShowsTokens(l, c.no, c.list)
  /\ load' = [load EXCEPT ![l] = NoLoad]
  /\ UNCHANGED <<watch, recent, watchEdit, loadsBegun, cache, mounted, owed, since>>

ReadsWatched(l) ==
  /\ load[l].stage = "opening" /\ (load[l].bypass \/ cache = {})
  /\ load' = [load EXCEPT ![l].stage = "listing", ![l].watched = Range(watch)]
  /\ UNCHANGED <<watch, recent, watchEdit, loadsBegun, shown, cache, mounted, owed, source, since>>

CacheExpires ==
  /\ cache # {}
  /\ cache' = {}
  /\ UNCHANGED <<watch, recent, watchEdit, load, loadsBegun, shown, mounted, owed, source, since>>

ReadsRecent(l) ==
  /\ load[l].stage = "listing"
  /\ load' = [load EXCEPT ![l].stage = "probing", ![l].recent = Range(recent)]
  /\ UNCHANGED <<watch, recent, watchEdit, loadsBegun, shown, cache, mounted, owed, source, since>>

(* What the node may list: pages of its directory, the legs of its pools,    *)
(* and the deployments of recent blocks. Each list stops at a number of      *)
(* pages or blocks, and what fails to arrive is left out.                    *)
DexDirectory == SUBSET Tokens
PoolLegs     == SUBSET Tokens
Deployments  == SUBSET Tokens
ListedByNode == {d \cup p \cup e : d \in DexDirectory, p \in PoolLegs, e \in Deployments}

(* A balance is read for each candidate, or the read fails.                 *)
BalanceReads(T) == [T -> {"some", "zero", "failed"}]

\* Mutant: a watched token whose balance cannot be read is left out.
ProbesHidingFailed(l) ==
  /\ load[l].stage = "probing"
  /\ \E listed \in ListedByNode :
     \E read \in BalanceReads(load[l].watched \cup load[l].recent \cup listed) :
       LET held == {t \in DOMAIN read : read[t] = "some"}
           gone == load[l].recent \ (load[l].watched \cup held)
       IN load' = [load EXCEPT ![l].stage = "remembering", ![l].recent = {}, ![l].watched = {},
                     ![l].list = held \cup {t \in load[l].watched : read[t] = "zero"},
                     ![l].held = held, ![l].gone = [t \in gone |-> read[t]]]
  /\ UNCHANGED <<watch, recent, watchEdit, loadsBegun, shown, cache, mounted, owed, source, since>>

(* Shown are the watched and those with a balance. The unwatched recent      *)
(* holdings that are not shown will be dropped from their list.              *)
Probes(l) ==
  /\ load[l].stage = "probing"
  /\ \E listed \in ListedByNode :
     \E read \in BalanceReads(load[l].watched \cup load[l].recent \cup listed) :
       LET held == {t \in DOMAIN read : read[t] = "some"}
           gone == load[l].recent \ (load[l].watched \cup held)
       IN load' = [load EXCEPT ![l].stage = "remembering", ![l].recent = {}, ![l].watched = {},
                     ![l].list = load[l].watched \cup held, ![l].held = held,
                     ![l].gone = [t \in gone |-> read[t]]]
  /\ UNCHANGED <<watch, recent, watchEdit, loadsBegun, shown, cache, mounted, owed, source, since>>

(* The recent holdings are read once more and written back, those found held *)
(* in front. The list goes into the cache and to the screen.                 *)
RemembersReads(l) ==
  /\ load[l].stage = "remembering"
  /\ load' = [load EXCEPT ![l].stage = "writing", ![l].gone = <<>>,
                          ![l].kept = Without(recent, DOMAIN load[l].gone)]
  /\ UNCHANGED <<watch, recent, watchEdit, loadsBegun, shown, cache, mounted, owed, source, since>>

RemembersWrites(l) ==
  /\ load[l].stage = "writing"
  /\ recent' = Newest(SetToSeq(load[l].held) \o Without(load[l].kept, load[l].held), MaxRecent)
  /\ cache' = {[no |-> load[l].no, list |-> load[l].list]}
  /\ ShowsTokens(l, load[l].no, load[l].list)
  /\ load' = [load EXCEPT ![l] = NoLoad]
  /\ UNCHANGED <<watch, watchEdit, loadsBegun, mounted, owed, since>>

TokensNext ==
  \/ ScreenGoes \/ CacheExpires
  \/ \E op \in {"add", "remove"}, t \in Tokens : WatchEdited(op, t)
  \/ \E l \in Loads :
       \/ ScreenAppears(l) \/ TokensRefreshed(l) \/ RefreshedForNobody(l) \/ WatchWritten(l) \/ TakesCached(l)
       \/ ReadsWatched(l) \/ ReadsRecent(l) \/ Probes(l) \/ RemembersReads(l)
       \/ RemembersWrites(l)

TokensSpec == TokensInit /\ [][TokensNext]_tokenVars

-----------------------------------------------------------------------------
(* Whatever list is on the screen, it has every token that was on the watch  *)
(* list when its load began and has stayed there: of a load that ends after *)
(* later ones, of a screen that went, or from the cache                      *)
(* (tokenHoldings.ts: loadTokenHoldings, useTokenHoldings.ts).              *)
WatchedBeforeAreShown ==
  mounted => \A t \in Range(watch) : since[t] < source => t \in shown

(* "Watchlist entries are always shown" (tokenHoldings.ts:12): with no load  *)
(* under way, every watched token is on the screen. The code does not keep  *)
(* it: the hook takes the result of whichever load ends last, also of one    *)
(* that began before the token was added.                                   *)
WatchedAlwaysShown ==
  mounted /\ (\A l \in Loads : Idle(l)) => Range(watch) \subseteq shown
=============================================================================
