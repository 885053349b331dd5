------------------------------- MODULE Names -------------------------------
(***************************************************************************)
(* Claiming a .boing name: the one reservation that is stored when an       *)
(* account is created, the banner that claims it once the account is        *)
(* funded, and the names panel of the settings.  A claim is three           *)
(* transactions in a row (commit, register, primary name), each waited for; *)
(* it goes on when the page that began it is left.                          *)
(***************************************************************************)
EXTENDS Naturals, FiniteSets

CONSTANTS Names,
          Addresses,
          Claims,     \* claims that may be made, each with a salt of its own
          MaxTries,   \* bound: registrations refused as too early (the code's 10)
          MaxReads,   \* bound: lookups, and reloads of the owned names, under way
          MaxChanges, \* bound: what the user and the others do
          Nothing

VARIABLES owner,      \* on chain: who has each name
          commits,    \* on chain: the claims whose commitment is included
          registered, \* on chain: the claims whose registration succeeded
          pool,       \* transactions taken by the node, not in a block yet
          reserved,   \* stored: None or the name to claim, and for whom
          view,       \* "create" (the name step) or "dashboard"
          me,         \* the account of the page
          banner,     \* PendingNameBanner: its entry, running
          funded,     \* the page knows a balance that pays for the entry
          query,      \* the name typed in the form that is shown
          check,      \* what the node said of it: {} or {TRUE} or {FALSE}
          lookups,    \* lookups under way, and whether they are the latest
          claim,      \* what each claim is doing
          busy,       \* the claim the panel waits for
          listed,     \* the names the panel lists as owned
          reads,      \* reloads under way
          changes     \* what the user and the others have done

nameVars == <<owner, commits, registered, pool, reserved, view, me, banner, funded, query,
              check, lookups, claim, busy, listed, reads, changes>>
onNameChain == <<owner, commits, registered>>
form == <<query, check, lookups>>
list == <<listed, reads>>

NoClaim == [step |-> "none"]
Unmounted == [entry |-> Nothing, running |-> FALSE]

NamesInit ==
  /\ owner = [n \in Names |-> Nothing] /\ commits = {} /\ registered = {} /\ pool = {}
  /\ reserved = Nothing /\ view = "create" /\ me \in Addresses
  /\ banner = Unmounted /\ funded = FALSE
  /\ query = Nothing /\ check = {} /\ lookups = {}
  /\ claim = [c \in Claims |-> NoClaim] /\ busy = Nothing
  /\ listed = {} /\ reads = {} /\ changes = 0

Counted == changes < MaxChanges /\ changes' = changes + 1

-----------------------------------------------------------------------------
(* The chain.  A claim reads the receipt of its latest transaction.         *)

Tx(kind, c, n, a, to) == [kind |-> kind, claim |-> c, name |-> n, by |-> a, to |-> to]

Accepted(t) ==
  CASE t.kind = "commit"   -> TRUE
    [] t.kind = "register" -> owner[t.name] = Nothing /\ t.claim \in commits
    [] t.kind = "grab"     -> owner[t.name] = Nothing
    [] OTHER               -> owner[t.name] = t.by

OwnerAfter(t) ==
  CASE t.kind = "release"                        -> Nothing
    [] t.kind \in {"register", "transfer", "grab"} -> t.to
    [] OTHER                                     -> owner[t.name]

Waits(c, kind) == claim[c].step = "wait" /\ claim[c].tx = kind

Included(t) ==
  /\ t \in pool /\ pool' = pool \ {t}
  /\ owner' = IF Accepted(t) THEN [owner EXCEPT ![t.name] = OwnerAfter(t)] ELSE owner
  /\ commits' = IF t.kind = "commit" THEN commits \cup {t.claim} ELSE commits
  /\ registered' = IF t.kind = "register" /\ Accepted(t) THEN registered \cup {t.claim}
                   ELSE registered
  /\ claim' = IF t.claim # Nothing /\ Waits(t.claim, t.kind)
              THEN [claim EXCEPT ![t.claim].receipt = IF Accepted(t) THEN "ok" ELSE "failed"]
              ELSE claim
  /\ UNCHANGED <<reserved, view, me, banner, funded, form, busy, list, changes>>

(* Somebody else takes a name; the account comes to money, or spends it.    *)
TakenElsewhere(n) ==
  /\ Counted
  /\ owner[n] = Nothing /\ pool = {}
  /\ pool' = {Tx("grab", Nothing, n, Nothing, "others")}
  /\ UNCHANGED <<onNameChain, reserved, view, me, banner, funded, form, claim, busy, list>>

FundsChange ==
  /\ Counted
  /\ view = "dashboard"
  /\ funded' = ~funded
  /\ UNCHANGED <<onNameChain, pool, reserved, view, me, banner, form, claim, busy, list>>

-----------------------------------------------------------------------------
(* The forms: the step after creating an account, and the panel.           *)

(* normalizeName and isReservedName: what is typed is a name or nothing.    *)
Normalized == Names \cup {Nothing}

(* Typing drops the answer and makes the lookups under way out of date.     *)
Types(n) ==
  /\ Counted
  /\ busy = Nothing /\ n \in Normalized /\ n # query /\ Cardinality(lookups) < MaxReads
  /\ query' = n /\ check' = {}
  /\ lookups' = {[l EXCEPT !.latest = FALSE] : l \in lookups}
                \cup IF n = Nothing THEN {} ELSE {[name |-> n, latest |-> TRUE]}
  /\ UNCHANGED <<onNameChain, pool, reserved, view, me, banner, funded, claim, busy, list>>

LookupArrives(l) ==
  /\ l \in lookups /\ lookups' = lookups \ {l}
  /\ check' = IF l.latest THEN {owner[l.name] = Nothing} ELSE check
  /\ UNCHANGED <<onNameChain, pool, reserved, view, me, banner, funded, query, claim, busy, list,
                 changes>>

LookupFails(l) ==
  /\ l \in lookups /\ lookups' = lookups \ {l}
  /\ UNCHANGED <<onNameChain, pool, reserved, view, me, banner, funded, query, check, claim, busy,
                 list, changes>>

(* The dashboard opens: the banner is mounted with the stored entry, bound  *)
(* to this account if it was bound to none; the panel reads the names.      *)
BoundTo(a, r) == IF r # Nothing /\ r.by = Nothing THEN [r EXCEPT !.by = a] ELSE r

Left(k) == IF "here" \in DOMAIN k THEN [k EXCEPT !.here = FALSE] ELSE k

Opens(a, stored) ==
  /\ Counted
  /\ view' = "dashboard" /\ me' = a
  /\ reserved' = BoundTo(a, stored)
  /\ banner' = [entry |-> BoundTo(a, stored), running |-> FALSE]
  /\ funded' = FALSE
  /\ query' = Nothing /\ check' = {} /\ lookups' = {}
  /\ listed' = {} /\ busy' = Nothing /\ claim' = [c \in Claims |-> Left(claim[c])]
  /\ reads' = {[by |-> a, names |-> {n \in Names : owner[n] = a}]}
  /\ UNCHANGED <<onNameChain, pool>>

MayReserve == check = {TRUE} /\ query # Nothing

Reserve == view = "create" /\ MayReserve /\ Opens(me, [name |-> query, by |-> Nothing])
Skip    == view = "create" /\ Opens(me, reserved)

(* Another account is created, or the wallet is created anew.               *)
AddAccount ==
  /\ Counted
  /\ view = "dashboard"
  /\ view' = "create" /\ me' \in Addresses
  /\ banner' = Unmounted /\ funded' = FALSE
  /\ query' = Nothing /\ check' = {} /\ lookups' = {} /\ listed' = {} /\ reads' = {}
  /\ busy' = Nothing /\ claim' = [c \in Claims |-> Left(claim[c])]
  /\ UNCHANGED <<onNameChain, pool, reserved>>

(* The account select of the dashboard locks the wallet: the dashboard      *)
(* opens again once the other account is unlocked.                          *)
SwitchAccount(a) == view = "dashboard" /\ a # me /\ Opens(a, reserved)

-----------------------------------------------------------------------------
(* Claims.                                                                 *)

Begins(c, n, from, first) ==
  claim[c] = NoClaim
  /\ claim' = [claim EXCEPT ![c] = [step |-> first, tx |-> "commit", name |-> n, by |-> me,
                                    from |-> from, here |-> TRUE, receipt |-> "none",
                                    tries |-> 0]]

(* The banner's effect: what it was bound to is this account's, and it has  *)
(* not run since it was mounted.  It asks about the name first.             *)
Mine(r) == r # Nothing /\ r.by = me

BannerRuns ==
  /\ view = "dashboard" /\ Mine(banner.entry) /\ funded /\ ~banner.running
  /\ banner' = [banner EXCEPT !.running = TRUE]
  /\ \E c \in Claims : Begins(c, banner.entry.name, "banner", "checking")
  /\ UNCHANGED <<onNameChain, pool, reserved, view, me, funded, form, busy, list, changes>>

(* The end of the banner's run, well or not: the entry is dropped from the  *)
(* store, or written back with the error.                                   *)
Dropped(c) == IF claim[c].here THEN [banner EXCEPT !.entry = Nothing] ELSE banner

BannerEnds(c, done) ==
  IF done THEN reserved' = Nothing /\ banner' = Dropped(c)
  ELSE reserved' = [name |-> claim[c].name, by |-> claim[c].by] /\ UNCHANGED banner

Ends(c, done) ==
  /\ claim' = [claim EXCEPT ![c] = [step |-> IF done THEN "done" ELSE "failed",
                                    name |-> claim[c].name, by |-> claim[c].by]]
  /\ IF claim[c].from = "banner" THEN BannerEnds(c, done) /\ UNCHANGED busy
     ELSE busy' = (IF busy = c THEN Nothing ELSE busy) /\ UNCHANGED <<reserved, banner>>
  /\ UNCHANGED <<onNameChain, pool, view, me, funded, form, list, changes>>

NameIsMine(c) ==
  /\ claim[c].step = "checking" /\ owner[claim[c].name] = claim[c].by
  /\ reserved' = Nothing /\ banner' = Dropped(c)
  /\ claim' = [claim EXCEPT ![c] = [step |-> "owned", name |-> @.name, by |-> @.by]]
  /\ UNCHANGED <<onNameChain, pool, view, me, funded, form, busy, list, changes>>

NameIsFree(c) ==
  /\ claim[c].step = "checking" /\ owner[claim[c].name] = Nothing
  /\ claim' = [claim EXCEPT ![c].step = "send"]
  /\ UNCHANGED <<onNameChain, pool, reserved, view, me, banner, funded, form, busy, list, changes>>

CheckFails(c) == claim[c].step = "checking" /\ Ends(c, FALSE)

(* The panel's button.                                                      *)
MayClaim == view = "dashboard" /\ busy = Nothing /\ MayReserve /\ funded

PanelClaims(c) ==
  /\ MayClaim /\ busy' = c /\ Begins(c, query, "panel", "send")
  /\ UNCHANGED <<onNameChain, pool, reserved, view, me, banner, funded, form, list, changes>>

(* sendNamePayload: the node takes the transaction, and its receipt is      *)
(* waited for.                                                              *)
Sends(c) ==
  /\ claim[c].step = "send"
  /\ pool' = pool \cup {Tx(claim[c].tx, c, claim[c].name, claim[c].by, claim[c].by)}
  /\ claim' = [claim EXCEPT ![c].step = "wait", ![c].receipt = "none"]
  /\ UNCHANGED <<onNameChain, reserved, view, me, banner, funded, form, busy, list, changes>>

(* It does not take it, or the answer is lost; a registration that comes    *)
(* too early is tried again.                                                *)
SendFails(c) == claim[c].step = "send" /\ Ends(c, FALSE)

AnswerLost(c) ==
  /\ claim[c].step = "send"
  /\ pool' = pool \cup {Tx(claim[c].tx, c, claim[c].name, claim[c].by, claim[c].by)}
  /\ claim' = [claim EXCEPT ![c].step = "lost"]
  /\ UNCHANGED <<onNameChain, reserved, view, me, banner, funded, form, busy, list, changes>>

LostFails(c) == claim[c].step = "lost" /\ Ends(c, FALSE)

TooNew(c) ==
  /\ claim[c].step = "send" /\ claim[c].tx = "register" /\ claim[c].tries < MaxTries
  /\ claim' = [claim EXCEPT ![c].tries = @ + 1]
  /\ UNCHANGED <<onNameChain, pool, reserved, view, me, banner, funded, form, busy, list, changes>>

(* waitForReceipt: the receipt says it is well, that it failed, or does not *)
(* come in time.  (A plausible mistake: the next transaction is sent when   *)
(* the node has only taken the one before.)                                 *)
Next3 == [commit |-> "register", register |-> "primary"]

ReceiptFoundAtOnce(c) ==
  /\ claim[c].step = "wait" /\ claim[c].receipt # "failed" /\ claim[c].tx # "primary"
  /\ claim' = [claim EXCEPT ![c].step = "send", ![c].tx = Next3[@], ![c].receipt = "none"]
  /\ UNCHANGED <<onNameChain, pool, reserved, view, me, banner, funded, form, busy, list, changes>>

ReceiptFound(c) ==
  /\ claim[c].step = "wait" /\ claim[c].receipt = "ok" /\ claim[c].tx # "primary"
  /\ claim' = [claim EXCEPT ![c].step = "send", ![c].tx = Next3[@], ![c].receipt = "none"]
  /\ UNCHANGED <<onNameChain, pool, reserved, view, me, banner, funded, form, busy, list, changes>>

(* The panel sets no primary name when there is one already.                *)
LastReceiptFound(c) ==
  /\ claim[c].step = "wait" /\ claim[c].receipt = "ok"
  /\ \/ claim[c].tx = "primary"
     \/ claim[c].tx = "register" /\ claim[c].from = "panel"
  /\ Ends(c, TRUE)

ReceiptFails(c) ==
  claim[c].step = "wait" /\ claim[c].receipt \in {"none", "failed"} /\ Ends(c, FALSE)

(* Cancel and Dismiss: the button is there while no step of a claim shows.  *)
StatusShown(c) ==
  /\ claim[c].step \in {"send", "wait", "lost"}
  /\ claim[c].from = "banner" /\ claim[c].here

Cancel ==
  /\ view = "dashboard" /\ Mine(banner.entry)
  /\ \A c \in Claims : ~StatusShown(c)
  /\ reserved' = Nothing /\ banner' = [banner EXCEPT !.entry = Nothing]
  /\ UNCHANGED <<onNameChain, pool, view, me, funded, form, claim, busy, list, changes>>

-----------------------------------------------------------------------------
(* The names that are owned.                                               *)

Reloads ==
  /\ Counted
  /\ view = "dashboard" /\ Cardinality(reads) < MaxReads
  /\ reads' = reads \cup {[by |-> me, names |-> {n \in Names : owner[n] = me}]}
  /\ UNCHANGED <<onNameChain, pool, reserved, view, me, banner, funded, form, claim, busy, listed>>

ReloadArrives(r) ==
  /\ r \in reads /\ reads' = reads \ {r}
  /\ \E names \in {r.names, {}} : listed' = names
  /\ UNCHANGED <<onNameChain, pool, reserved, view, me, banner, funded, form, claim, busy, changes>>

(* Renew, point to and primary ("update"), transfer, release: one           *)
(* transaction each.  The recipient is resolved and the user asked to        *)
(* confirm before.                                                          *)
ActKinds == {"update", "transfer", "release"}

Acts(kind, n, to) ==
  /\ Counted
  /\ view = "dashboard" /\ busy = Nothing /\ n \in listed
  /\ pool' = pool \cup {Tx(kind, Nothing, n, me, IF kind = "transfer" THEN to ELSE Nothing)}
  /\ UNCHANGED <<onNameChain, reserved, view, me, banner, funded, form, claim, busy, list>>

-----------------------------------------------------------------------------
NamesNext ==
  \/ \E t \in pool : Included(t)
  \/ \E n \in Names : TakenElsewhere(n)
  \/ FundsChange
  \/ \E n \in Normalized : Types(n)
  \/ \E l \in lookups : LookupArrives(l) \/ LookupFails(l)
  \/ Reserve \/ Skip \/ AddAccount
  \/ \E a \in Addresses : SwitchAccount(a)
  \/ BannerRuns
  \/ \E c \in Claims : PanelClaims(c) \/ NameIsMine(c) \/ NameIsFree(c) \/ CheckFails(c)
  \/ \E c \in Claims : Sends(c) \/ SendFails(c) \/ AnswerLost(c) \/ LostFails(c) \/ TooNew(c)
  \/ \E c \in Claims : ReceiptFound(c) \/ LastReceiptFound(c) \/ ReceiptFails(c)
  \/ Cancel
  \/ Reloads
  \/ \E r \in reads : ReloadArrives(r)
  \/ \E k \in ActKinds, n \in listed,
        a \in Addresses : Acts(k, n, a)


NamesSpec == NamesInit /\ [][NamesNext]_nameVars

-----------------------------------------------------------------------------
(* A claim keeps its order.  The salt is shown to others, in the            *)
(* registration, only when its commitment is in a block, so that nobody can *)
(* register the name first with what they read; and a claim that is         *)
(* reported as done, the reservation being dropped, has registered its name *)
(* (claimName, waitForReceipt).                                             *)
ClaimKeepsOrder ==
  /\ \A t \in pool : t.kind = "register" => t.claim \in commits
  /\ \A c \in Claims : claim[c].step = "done" => c \in registered
=============================================================================
