----------------------------- MODULE PopupWallet -----------------------------
(***************************************************************************)
(* The popup of the extension: its screens, the key it holds, and how an   *)
(* account is created, imported, backed up, unlocked, switched and         *)
(* removed.  Checking a password and deriving a key take a while: every    *)
(* such handler is a job that begins on one screen and may end on another. *)
(* What overlapping jobs that add an account do to the vault is looked at  *)
(* in WalletVault.                                                         *)
(***************************************************************************)
EXTENDS FiniteSets

CONSTANTS PopupAccounts,  \* accounts of the wallet
          Jobs,          \* handlers that may wait for something at the same time
          UserWaits,     \* whether the user adds one account after the other
          Nobody         \* no account, no password, no phrase

ASSUME PopupAssumption == Nobody \notin PopupAccounts

VARIABLES accounts,  \* stored: the accounts of the vault
          chosen,    \* stored: the active one
          worker,    \* the account whose key the service worker holds
          screen,    \* currentScreen; "settings" is the dashboard with that panel
          user,      \* accountId and privateKey
          adding,    \* addingAccountMode
          password,  \* pendingBackupPassword: the account it was typed for
          words,     \* pendingPhrase: the account it is of
          revealed,  \* what revealSession and phraseSession hold
          job        \* what each handler is waiting for

popupStored == <<accounts, chosen>>
memory == <<user, adding, password, words, revealed>>
popupVars == <<popupStored, worker, screen, memory, job>>

NoJob == [op |-> "none"]
Adds(j) == job[j].op \in {"create", "import"}

PopupInit ==
  /\ accounts \in SUBSET PopupAccounts
  /\ chosen \in IF accounts = {} THEN {Nobody} ELSE accounts
  /\ worker = Nobody /\ screen = "closed"
  /\ user = Nobody /\ adding = FALSE /\ password = Nobody /\ words = Nobody /\ revealed = {}
  /\ job = [j \in Jobs |-> NoJob]

Starts(j, what) ==
  /\ job[j] = NoJob /\ j = CHOOSE k \in Jobs : job[k] = NoJob
  /\ job' = [job EXCEPT ![j] = what]

JobEnds(j) == job' = [job EXCEPT ![j] = NoJob]

ShowsChoose(all) == screen' = IF all = {} THEN "choose" ELSE "unlock"

(* goDashboard does nothing without a key.                                  *)
GoDashboard(key) == screen' = IF key = Nobody THEN screen ELSE "dashboard"

-----------------------------------------------------------------------------
(* The popup opens with the key of the worker, if it has one. When it is    *)
(* closed, all that it holds is gone.                                       *)
OpensPopup ==
  /\ screen = "closed"
  /\ user' = IF accounts = {} THEN Nobody ELSE worker
  /\ IF user' = Nobody THEN ShowsChoose(accounts) ELSE GoDashboard(user')
  /\ UNCHANGED <<popupStored, worker, adding, password, words, revealed, job>>

ClosesPopup ==
  /\ screen # "closed" /\ screen' = "closed"
  /\ user' = Nobody /\ adding' = FALSE /\ password' = Nobody /\ words' = Nobody /\ revealed' = {}
  /\ job' = [j \in Jobs |-> NoJob]
  /\ UNCHANGED <<popupStored, worker>>

(* The worker locks by itself, or is restarted without a session.           *)
WorkerForgets ==
  /\ worker # Nobody /\ worker' = Nobody
  /\ UNCHANGED <<popupStored, screen, memory, job>>

(* The ways between screens that change nothing else: from the screen for a *)
(* wallet without accounts, to the account to add, and back; "Back" on the  *)
(* unlock screen; the tabs, also next to the settings.                      *)
Goes ==
  /\ \/ screen = "choose" /\ screen' \in {"create", "import"}
     \/ screen = "dashboard" /\ screen' = "pick"
     \/ screen = "pick" /\ GoDashboard(user)
     \/ screen = "unlock" /\ ShowsChoose(accounts)
     \/ screen = "settings" /\ screen' = "dashboard"
  /\ UNCHANGED <<popupStored, worker, memory, job>>

(* "Add account", to create or to import one.                               *)
PicksHow ==
  /\ screen = "pick" /\ screen' \in {"create", "import"}
  /\ adding' = TRUE
  /\ UNCHANGED <<popupStored, worker, user, password, words, revealed, job>>

(* "Back" on the create and the import screen.                              *)
GoesBack ==
  /\ screen \in {"create", "import"}
  /\ IF adding THEN GoDashboard(user) ELSE screen' = "choose"
  /\ adding' = FALSE
  /\ UNCHANGED <<popupStored, worker, user, password, words, revealed, job>>

(* The lock button, or after a while without an interaction its click, on    *)
(* whatever screen.                                                         *)
Lock ==
  /\ user # Nobody
  /\ user' = Nobody /\ worker' = Nobody /\ revealed' = {}
  /\ ShowsChoose(accounts)
  /\ UNCHANGED <<popupStored, adding, password, words, job>>

-----------------------------------------------------------------------------
(* Adding an account. A new key is one that nobody has. What is not         *)
(* additional replaces the vault, and so does a key if there is none. Only  *)
(* the button of the import form is disabled while its job runs.            *)
Submits(j, op, phrase, a) ==
  /\ screen = op
  /\ \A k \in Jobs : Adds(k) => ~UserWaits /\ ~(op = "import" /\ job[k].op = "import")
  /\ op = "import" \/ a \notin accounts
  /\ Starts(j, [op |-> op, stage |-> "deriving", phrase |-> phrase, account |-> a,
                replaces |-> ~adding \/ (~phrase /\ accounts = {}),
                base |-> IF adding THEN accounts ELSE {}])
  /\ UNCHANGED <<popupStored, worker, screen, memory>>

(* A phrase goes to the vault that was there when the handler began, which   *)
(* must not have its account; a key to the one there now, if there is one.   *)
AdditionRefused(j) ==
  IF job[j].phrase THEN job[j].account \in job[j].base
  ELSE ~job[j].replaces /\ accounts = {}

Saves(j) ==
  /\ Adds(j) /\ job[j].stage = "deriving" /\ ~AdditionRefused(j)
  /\ chosen' = job[j].account
  /\ accounts' = {chosen'} \cup (CASE job[j].replaces -> {}
                                   [] ~job[j].replaces /\ job[j].phrase -> job[j].base
                                   [] OTHER -> accounts)
  /\ job' = [job EXCEPT ![j].stage = "saved"]
  /\ UNCHANGED <<worker, screen, memory>>

SaveFails(j) ==
  /\ Adds(j) /\ job[j].stage = "deriving" /\ AdditionRefused(j)
  /\ JobEnds(j)
  /\ UNCHANGED <<popupStored, worker, screen, memory>>

\* Mutant: not if the user has left the create screen.
ShowsBackupThere(j) ==
  /\ job[j].op = "create" /\ job[j].stage = "saved"
  /\ password' = job[j].account
  /\ words' = IF job[j].phrase THEN job[j].account ELSE Nobody
  /\ screen' = IF screen = "create" THEN "backup" ELSE screen
  /\ JobEnds(j)
  /\ UNCHANGED <<popupStored, worker, user, adding, revealed>>

(* The words or the key of the new account, wherever the user is by now.     *)
ShowsBackup(j) ==
  /\ job[j].op = "create" /\ job[j].stage = "saved"
  /\ password' = job[j].account
  /\ words' = IF job[j].phrase THEN job[j].account ELSE Nobody
  /\ screen' = "backup"
  /\ JobEnds(j)
  /\ UNCHANGED <<popupStored, worker, user, adding, revealed>>

(* "Continue" when the words or the end of the key were typed. The button    *)
(* stays enabled. The first account of a wallet is offered a name.           *)
ContinuesToName ==
  /\ screen = "backup" /\ ~adding
  /\ screen' = "claim"
  /\ UNCHANGED <<popupStored, worker, memory, job>>

FinishBackup(j) ==
  /\ \/ screen = "backup" /\ adding
     \/ screen = "claim" /\ \A k \in Jobs : job[k].op # "finish"
  /\ Starts(j, [op |-> "finish", stage |-> "checking", typed |-> password, account |-> chosen])
  /\ password' = Nobody
  /\ UNCHANGED <<popupStored, worker, screen, user, adding, words, revealed>>

-----------------------------------------------------------------------------
(* Unlocking. An imported account is unlocked with the password it was given. *)
SubmitsUnlock(j, typed) ==
  /\ screen = "unlock" /\ chosen # Nobody
  /\ Starts(j, [op |-> "unlock", stage |-> "checking", typed |-> typed, account |-> chosen])
  /\ UNCHANGED <<popupStored, worker, screen, memory>>

UnlocksImported(j) ==
  /\ job[j].op = "import" /\ job[j].stage = "saved"
  /\ job' = [job EXCEPT ![j] = [op |-> "import", stage |-> "checking",
                                typed |-> job[j].account, account |-> chosen]]
  /\ UNCHANGED <<popupStored, worker, screen, memory>>

(* The password of one account may be that of another as well.              *)
JobUnlocks(j) ==
  /\ job[j].op # "none" /\ job[j].stage = "checking"
  /\ job[j].typed # Nobody /\ job[j].account # Nobody
  /\ user' = job[j].account /\ worker' = user'
  /\ adding' = (adding /\ job[j].op = "unlock")
  /\ words' = IF job[j].op = "finish" THEN Nobody ELSE words
  /\ GoDashboard(user')
  /\ JobEnds(j)
  /\ UNCHANGED <<popupStored, password, revealed>>

(* Without a key, a backup that was to be finished is shown again.          *)
UnlockFails(j) ==
  /\ job[j].op # "none" /\ job[j].stage = "checking"
  /\ job[j].typed # job[j].account \/ job[j].account = Nobody
  /\ screen' = IF job[j].op = "finish" THEN "backup" ELSE screen
  /\ JobEnds(j)
  /\ UNCHANGED <<popupStored, worker, memory>>

(* Another account is selected, or the active one removed. The vault is      *)
(* changed at once; the key goes when it is stored.                         *)
SelectsAccount(j, a) ==
  /\ screen \in {"dashboard", "settings"} /\ a \in accounts \ {chosen}
  /\ Starts(j, [op |-> "switch", stage |-> "storing"])
  /\ chosen' = a
  /\ UNCHANGED <<accounts, worker, screen, memory>>

RemovesAccount(j) ==
  /\ screen \in {"dashboard", "settings"}
  /\ Starts(j, [op |-> "remove", stage |-> "storing"])
  /\ accounts' = accounts \ {chosen}
  /\ chosen' \in IF accounts' = {} THEN {Nobody} ELSE accounts'
  /\ UNCHANGED <<worker, screen, memory>>

KeyGoes(j) ==
  /\ job[j].op \in {"switch", "remove"}
  /\ user' = Nobody /\ worker' = Nobody
  /\ IF job[j].op = "switch" THEN screen' = "unlock" ELSE ShowsChoose(accounts)
  /\ JobEnds(j)
  /\ UNCHANGED <<popupStored, adding, password, words, revealed>>

-----------------------------------------------------------------------------
(* Settings. Opening them hides a phrase, leaving them by their own buttons  *)
(* all that was shown.                                                      *)
TogglesSettings ==
  /\ \/ screen = "dashboard" /\ screen' = "settings" /\ revealed' = revealed \ {"phrase"}
     \/ screen = "settings" /\ screen' = "dashboard" /\ revealed' = {}
  /\ UNCHANGED <<popupStored, worker, user, adding, password, words, job>>

(* The key or the words are shown again for the password.                    *)
SubmitsReveal(j, what) ==
  /\ screen = "settings"
  /\ Starts(j, [op |-> "reveal", stage |-> "revealing", what |-> what])
  /\ UNCHANGED <<popupStored, worker, screen, memory>>

Reveals(j) ==
  /\ job[j].op = "reveal"
  /\ revealed' \in {revealed, revealed \cup {job[j].what}}
  /\ JobEnds(j)
  /\ UNCHANGED <<popupStored, worker, screen, user, adding, password, words>>

(* "Done", 30 seconds, or the page is hidden.                               *)
Hides ==
  /\ revealed # {}
  /\ revealed' \in {{}} \cup {revealed \ {what} : what \in revealed}
  /\ UNCHANGED <<popupStored, worker, screen, user, adding, password, words, job>>

PopupNext ==
  \/ OpensPopup \/ ClosesPopup \/ WorkerForgets \/ Goes \/ PicksHow \/ GoesBack \/ Lock
  \/ ContinuesToName \/ TogglesSettings \/ Hides
  \/ \E j \in Jobs :
       \/ \E op \in {"create", "import"}, phrase \in BOOLEAN, a \in PopupAccounts :
            Submits(j, op, phrase, a)
       \/ Saves(j) \/ SaveFails(j) \/ ShowsBackup(j) \/ FinishBackup(j)
       \/ \E typed \in {chosen, Nobody} : SubmitsUnlock(j, typed)
       \/ UnlocksImported(j) \/ JobUnlocks(j) \/ UnlockFails(j)
       \/ \E a \in PopupAccounts : SelectsAccount(j, a)
       \/ RemovesAccount(j) \/ KeyGoes(j) \/ Reveals(j)
       \/ \E what \in {"key", "phrase"} : SubmitsReveal(j, what)

PopupSpec == PopupInit /\ [][PopupNext]_popupVars

-----------------------------------------------------------------------------
(* As long as the user adds one account after the other, adding one never    *)
(* drops another: when a job replaces the vault, the vault has no account,   *)
(* through whatever screens the user has gone since the job began.          *)
AddingKeepsAccounts ==
  [][\A j \in Jobs :
       UserWaits /\ Adds(j) /\ job[j].stage = "deriving"
         /\ job'[j].op = job[j].op /\ job'[j].stage = "saved"
       => accounts \subseteq accounts']_popupVars
=============================================================================
