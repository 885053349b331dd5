----------------------------- MODULE Dashboard -----------------------------
(***************************************************************************)
(* The wallet screen: the balance it shows and how it refreshes it, and    *)
(* the forms that send native BOING or a token and bond or unbond stake.   *)
(* The user may select another network at any moment, and every request    *)
(* keeps the network of the render it was started from.  Amounts and their *)
(* units are left out.                                                     *)
(***************************************************************************)
EXTENDS Naturals, Functions

CONSTANTS Networks,     \* networks the user can select
          Addresses,    \* what a name can stand for
          CatchUps,     \* delayed refreshes after a transaction (two in the code)
          MaxRefreshes, \* bound: refreshes that run at the same time
          MaxSends,     \* bound: transactions begun
          MaxChanges    \* bound: networks selected and names changed

VARIABLES names,     \* what the name stands for on each network
          selected,  \* the selected network
          unlocked,  \* whether there is a key, and this screen with it
          shown,     \* the network the balance on the screen is of: {} or {network}
          refreshes, \* refreshes under way, for each network
          catchUps,  \* delayed refreshes to come, for each network
          form,      \* the send form and its review
          job,       \* the transaction under way
          sent,      \* history: the last transaction handed to a node
          sends,     \* transactions begun
          changes    \* networks selected and names changed

dashVars == <<names, selected, unlocked, shown, refreshes, catchUps, form, job,
              sent, sends, changes>>

Resting == [stage |-> "idle"]
Editing == [stage |-> "editing"]

DashInit ==
  /\ names \in [Networks -> Addresses]
  /\ selected \in Networks
  /\ unlocked = FALSE
  /\ shown = {}
  /\ refreshes = [n \in Networks |-> 0]
  /\ catchUps = [n \in Networks |-> 0]
  /\ form = Editing /\ job = Resting
  /\ sent = {} /\ sends = 0 /\ changes = 0

amount == <<form, job, sent, sends>>

-----------------------------------------------------------------------------
(* The balance.                                                            *)

RefreshBegins(n) ==
  /\ SumFunction(refreshes) < MaxRefreshes
  /\ refreshes' = [refreshes EXCEPT ![n] = @ + 1]

(* The wallet is unlocked, and the screen appears.                          *)
Unlocks ==
  /\ ~unlocked /\ unlocked' = TRUE
  /\ RefreshBegins(selected)
  /\ UNCHANGED <<names, selected, shown, catchUps, amount, changes>>

(* The screen goes with what it shows. A transaction under way has its key. *)
Locks ==
  /\ unlocked /\ unlocked' = FALSE
  /\ shown' = {} /\ form' = Editing
  /\ refreshes' = [n \in Networks |-> 0]
  /\ catchUps' = [n \in Networks |-> 0]
  /\ UNCHANGED <<names, selected, job, sent, sends, changes>>

(* Another network is selected. The balance stays until there is a newer    *)
(* one, the review stays as well.                                           *)
SetNetwork(n) ==
  /\ unlocked /\ n # selected
  /\ changes < MaxChanges /\ changes' = changes + 1
  /\ selected' = n
  /\ RefreshBegins(n)
  /\ UNCHANGED <<names, unlocked, shown, catchUps, amount>>

\* Mutant: the interval keeps the refresh of the network it was set up for.
IntervalFiresForShown ==
  /\ unlocked
  /\ RefreshBegins(IF shown = {} THEN selected ELSE CHOOSE n \in shown : TRUE)
  /\ UNCHANGED <<names, selected, unlocked, shown, catchUps, amount, changes>>

(* Every 45 seconds, when the page becomes visible, and when the user asks.  *)
IntervalFires ==
  /\ unlocked
  /\ RefreshBegins(selected)
  /\ UNCHANGED <<names, selected, unlocked, shown, catchUps, amount, changes>>

(* Two and five seconds after a transaction, for the network it was sent on. *)
CatchUpFires(n) ==
  /\ catchUps[n] > 0
  /\ catchUps' = [catchUps EXCEPT ![n] = @ - 1]
  /\ RefreshBegins(n)
  /\ UNCHANGED <<names, selected, unlocked, shown, amount, changes>>

(* The account arrives, and the balance comes to the screen whatever is      *)
(* selected by now.                                                          *)
AccountArrives(n) ==
  /\ refreshes[n] > 0
  /\ refreshes' = [refreshes EXCEPT ![n] = @ - 1]
  /\ shown' = {n}
  /\ UNCHANGED <<names, selected, unlocked, catchUps, amount, changes>>

(* There is no answer. The balance on the screen stays.                      *)
AccountFails(n) ==
  /\ refreshes[n] > 0
  /\ refreshes' = [refreshes EXCEPT ![n] = @ - 1]
  /\ UNCHANGED <<names, selected, unlocked, shown, catchUps, amount, changes>>

-----------------------------------------------------------------------------
(* The forms.                                                              *)

(* What the name stands for changes.                                        *)
NameChanges(n) ==
  /\ changes < MaxChanges /\ changes' = changes + 1
  /\ \E a \in Addresses \ {names[n]} :
       /\ names' = [names EXCEPT ![n] = a]
       /\ job' = IF job.stage = "rechecking" /\ job.on = n
                 THEN [job EXCEPT !.seen = @ \cup {a}] ELSE job
  /\ UNCHANGED <<selected, unlocked, shown, refreshes, catchUps, form, sent, sends>>

(* The button of the form, and that of the review: the review must not have  *)
(* failed to simulate.                                                      *)
MayReview == unlocked /\ form = Editing /\ job = Resting
MayConfirm == unlocked /\ form.stage = "review" /\ form.sim # "fail" /\ job = Resting

(* Those of the stake forms and of the faucet, which have no review.         *)
MayStake == unlocked /\ job = Resting
MayAskFaucet == unlocked /\ job = Resting

(* "Review send", of BOING or a token: the recipient is looked up, if it is   *)
(* a name.                                                                  *)
HandleSend(asset, byName) ==
  /\ MayReview
  /\ form' = [stage |-> "resolving", on |-> selected, byName |-> byName,
              asset |-> asset]
  /\ UNCHANGED <<names, selected, unlocked, shown, refreshes, catchUps, job, sent, sends, changes>>

Resolved ==
  /\ form.stage = "resolving"
  /\ \E a \in IF form.byName THEN {names[form.on]} ELSE Addresses :
       form' = [stage |-> "review", byName |-> form.byName, to |-> a,
                asset |-> form.asset, sim |-> "none"]
  /\ UNCHANGED <<names, selected, unlocked, shown, refreshes, catchUps, job, sent, sends, changes>>

(* No such name, an amount that is not one or more than the balance.        *)
HandleSendFails ==
  /\ form.stage = "resolving"
  /\ form' = Editing
  /\ UNCHANGED <<names, selected, unlocked, shown, refreshes, catchUps, job, sent, sends, changes>>

(* The review simulates the transaction, once for each tip that is chosen.   *)
Estimated ==
  /\ form.stage = "review" /\ form.sim = "none"
  /\ \E s \in {"ok", "fail"} : form' = [form EXCEPT !.sim = s]
  /\ UNCHANGED <<names, selected, unlocked, shown, refreshes, catchUps, job, sent, sends, changes>>

TipChosen ==
  /\ form.stage = "review" /\ form.asset = "boing" /\ job = Resting
  /\ form.sim # "none"
  /\ form' = [form EXCEPT !.sim = "none"]
  /\ UNCHANGED <<names, selected, unlocked, shown, refreshes, catchUps, job, sent, sends, changes>>

Back ==
  /\ form.stage = "review" /\ job = Resting
  /\ form' = Editing
  /\ UNCHANGED <<names, selected, unlocked, shown, refreshes, catchUps, job, sent, sends, changes>>

\* Mutant: the name is not looked up again.
DoSendAtOnce ==
  /\ MayConfirm
  /\ sends < MaxSends /\ sends' = sends + 1
  /\ job' = [stage |-> "submitting", on |-> selected, byName |-> form.byName,
             to |-> form.to, seen |-> {names[selected]}]
  /\ UNCHANGED <<names, selected, unlocked, shown, refreshes, catchUps, form, sent, changes>>

(* The user confirms. A name is looked up again, on the network that is      *)
(* selected now.                                                            *)
DoSend ==
  /\ MayConfirm
  /\ sends < MaxSends /\ sends' = sends + 1
  /\ job' = [stage |-> IF form.byName THEN "rechecking" ELSE "submitting",
             on |-> selected, byName |-> form.byName, to |-> form.to,
             seen |-> {names[selected]}]
  /\ UNCHANGED <<names, selected, unlocked, shown, refreshes, catchUps, form, sent, changes>>

(* It goes on only if the name still stands for the address reviewed.        *)
Rechecked ==
  /\ job.stage = "rechecking"
  /\ job' = IF names[job.on] = job.to THEN [job EXCEPT !.stage = "submitting"] ELSE Resting
  /\ UNCHANGED <<names, selected, unlocked, shown, refreshes, catchUps, form, sent, sends, changes>>

(* Bonding and unbonding have no review; nor has the claim of what was       *)
(* unbonded.                                                                 *)
HandleStake(kind) ==
  /\ MayStake
  /\ sends < MaxSends /\ sends' = sends + 1
  /\ job' = [stage |-> "submitting", on |-> selected, byName |-> FALSE, to |-> kind,
             seen |-> {}]
  /\ UNCHANGED <<names, selected, unlocked, shown, refreshes, catchUps, form, sent, changes>>

(* The transaction is signed for the network of the click and handed to its  *)
(* node (SubmitTransaction).                                                *)
Submits ==
  /\ job.stage = "submitting"
  /\ sent' = {job}
  /\ job' = [job EXCEPT !.stage = "waiting"]
  /\ UNCHANGED <<names, selected, unlocked, shown, refreshes, catchUps, form, sends, changes>>

(* A success clears the form, whatever it holds by now, and has the balance  *)
(* refreshed now and twice later.                                           *)
SendSucceeds ==
  /\ job.stage = "waiting"
  /\ form' = IF job.byName \/ job.to \in Addresses THEN Editing ELSE form
  /\ job' = Resting
  /\ IF unlocked
     THEN /\ RefreshBegins(job.on)
          /\ catchUps' = [catchUps EXCEPT ![job.on] = CatchUps]
     ELSE UNCHANGED <<refreshes, catchUps>>
  /\ UNCHANGED <<names, selected, unlocked, shown, sent, sends, changes>>

SendFails ==
  /\ job.stage \in {"rechecking", "submitting", "waiting"}
  /\ job' = Resting
  /\ UNCHANGED <<names, selected, unlocked, shown, refreshes, catchUps, form, sent, sends, changes>>

(* The faucet of a test network is asked. When it pays, the balance is       *)
(* refreshed now and later, for the network of the click.                    *)
HandleFaucet ==
  /\ MayAskFaucet
  /\ sends < MaxSends /\ sends' = sends + 1
  /\ job' = [stage |-> "faucet", on |-> selected]
  /\ UNCHANGED <<names, selected, unlocked, shown, refreshes, catchUps, form, sent, changes>>

FaucetAnswers(pays) ==
  /\ job.stage = "faucet"
  /\ job' = Resting
  /\ IF pays /\ unlocked
     THEN /\ RefreshBegins(job.on)
          /\ catchUps' = [catchUps EXCEPT ![job.on] = CatchUps]
     ELSE UNCHANGED <<refreshes, catchUps>>
  /\ UNCHANGED <<names, selected, unlocked, shown, form, sent, sends, changes>>

DashNext ==
  \/ Unlocks \/ Locks \/ IntervalFires \/ Resolved \/ HandleSendFails \/ Estimated
  \/ TipChosen \/ Back \/ DoSend \/ Rechecked \/ Submits \/ SendSucceeds \/ SendFails
  \/ HandleFaucet
  \/ \E pays \in BOOLEAN : FaucetAnswers(pays)
  \/ \E n \in Networks :
       \/ SetNetwork(n) \/ CatchUpFires(n) \/ NameChanges(n)
       \/ AccountArrives(n) \/ AccountFails(n)
  \/ \E asset \in {"boing", "token"}, byName \in BOOLEAN : HandleSend(asset, byName)
  \/ \E kind \in {"bond", "unbond", "claim"} : HandleStake(kind)

(* The interval and the delayed refreshes fire, and a node that is asked     *)
(* again and again answers in the end. A request whose body stalls for ever  *)
(* would harm nobody, but here it would hold one of the MaxRefreshes for     *)
(* good, so the fairness lets answers for every network arrive.              *)
DashFairness ==
  /\ WF_dashVars(IntervalFires)
  /\ \A n \in Networks : WF_dashVars(CatchUpFires(n)) /\ SF_dashVars(AccountArrives(n))

DashSpec == DashInit /\ [][DashNext]_dashVars /\ DashFairness

-----------------------------------------------------------------------------
(* Answers for a network that is no longer selected may overwrite the        *)
(* balance, but when the selection stays, the balance on the screen comes to *)
(* be of the selected network and stays so.                                  *)
BalanceComesRight ==
  \A n \in Networks :
    <>[](unlocked /\ selected = n) => <>[](shown = {n})

(* Money sent by name goes to an address that the name stood for, on the     *)
(* network it is sent on, after the user confirmed: the review may be of     *)
(* another network or out of date.                                           *)
SentToWhatTheNameSays ==
  [][job.stage = "submitting" /\ job.byName /\ sent' # sent => job.to \in job.seen]_dashVars
=============================================================================
