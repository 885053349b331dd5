----------------------------- MODULE WebSession -----------------------------
(***************************************************************************)
(* The unlocked session of the web wallet (src/storage/sessionStore.ts and *)
(* src/context/WalletContext.tsx).  Each tab holds the key in memory, and  *)
(* its sealed form in sessionStorage, which survives a reload.  What seals *)
(* it is in IndexedDB, one entry per tab, named by an id that is in the    *)
(* tab's sessionStorage too.  All tabs share IndexedDB, whose transactions *)
(* run in the order they were made; a tab that is duplicated takes its     *)
(* sessionStorage along.                                                   *)
(*                                                                         *)
(* The clock counts in units of minutes.  Deriving, sealing and storage    *)
(* take milliseconds: it stands still while one of them is under way, and  *)
(* a timer fires in the unit in which it is due.                           *)
(***************************************************************************)
EXTENDS Naturals, Sequences, FiniteSets, Functions

CONSTANTS
  Tabs,
  LockAfter,       \* the settings of the auto-lock, 0 for never
  MaxSession,      \* MAX_SESSION_MS
  UserIsQuick,     \* may the user enter a password before a page has looked for
                   \* its session, or leave a form while its password is checked?
  MaxClock,        \* bound on the clock
  MaxKeys,         \* bound on the sealing keys that are made
  MaxOps           \* bound on what IndexedDB owes when a page begins

ASSUME SessionParameters ==
  /\ LockAfter \subseteq Nat
  /\ MaxSession \in Nat
  /\ MaxKeys \in Nat
  /\ UserIsQuick \in BOOLEAN

VARIABLES
  clock,
  lockAfter,       \* the setting in localStorage
  hasWallet,       \* is there a vault in localStorage?
  tabs,            \* the tabs that are open
  envelope,        \* the sealed session in each tab's sessionStorage
  kid,             \* the id of its sealing key there, 0 for none
  isUnlocked,      \* the tabs with the key in memory
  lockAfterMinutes, \* the setting each page works with
  deadline,        \* when its inactivity timer is due, 0 if it has none
  restoring,       \* the envelope that getSession is opening
  saving,          \* an unlock: the sealing key it stores
  keyStore,        \* IndexedDB: the sealing key under each id
  keyOps,          \* its transactions that have not run
  made,            \* sealing keys made so far: their names are 1 .. made
  entered,         \* history: when the password of a tab's session was entered
  acted,           \* history: when its user was last active, while that matters
  copied           \* history: ids that were taken along by a duplicated tab

shared  == <<lockAfter, hasWallet>>
stored  == <<envelope, kid>>
page    == <<isUnlocked, lockAfterMinutes, deadline>>
job     == <<restoring, saving>>
past == <<entered, acted, copied>>
sessionVars ==
  <<clock, shared, tabs, stored, page, job, keyStore, keyOps, made, past>>

None == [key |-> 0, createdAt |-> 0, lastActiveAt |-> 0]
Off  == [at |-> "off"]
NoKey == [key |-> 0, at |-> 0]

SessionInit ==
  /\ clock = 1
  /\ lockAfter \in LockAfter
  /\ hasWallet \in BOOLEAN
  /\ tabs = {}
  /\ envelope = [t \in Tabs |-> None]
  /\ kid = [t \in Tabs |-> 0]
  /\ isUnlocked = {}
  /\ lockAfterMinutes = [t \in Tabs |-> 0]
  /\ deadline = [t \in Tabs |-> 0]
  /\ restoring = [t \in Tabs |-> Off]
  /\ saving = [t \in Tabs |-> Off]
  /\ keyStore = [k \in 1 .. MaxKeys |-> NoKey]
  /\ keyOps = <<>>
  /\ made = 0
  /\ entered = [t \in Tabs |-> 0]
  /\ acted = [t \in Tabs |-> 0]
  /\ copied = {}

-----------------------------------------------------------------------------
(***************************************************************************)
(* What the handlers are made of.                                          *)
(***************************************************************************)
\* clearSession: the envelope and the id go at once, the key in its turn.
ClearSession(t, queue) ==
  /\ envelope' = [envelope EXCEPT ![t] = None]
  /\ kid' = [kid EXCEPT ![t] = 0]
  /\ keyOps' = IF kid[t] = 0 THEN queue
               ELSE Append(queue, [op |-> "delete", kid |-> kid[t]])
  /\ entered' = [entered EXCEPT ![t] = 0]

\* isSessionExpired.
IsSessionExpired(env, idle) ==
  \/ clock - env.createdAt > MaxSession
  \/ idle > 0 /\ clock - env.lastActiveAt > idle

\* Mutant: only activity arms the timer.
UnlocksWithoutTimer(t) ==
  /\ isUnlocked' = isUnlocked \cup {t}
  /\ UNCHANGED deadline

\* The effect that arms the timer, when a tab becomes unlocked.
Unlocks(t) ==
  /\ isUnlocked' = isUnlocked \cup {t}
  /\ deadline' = [deadline EXCEPT
       ![t] = IF t \in isUnlocked THEN @
              ELSE IF lockAfterMinutes[t] = 0 THEN 0
              ELSE clock + lockAfterMinutes[t]]

\* The key leaves the memory, and with it the timer.
Locks(t) ==
  /\ isUnlocked' = isUnlocked \ {t}
  /\ deadline' = [deadline EXCEPT ![t] = 0]

\* Mutant: activity makes the session a new one.
TouchRenews(env) ==
  IF env = None THEN None ELSE [env EXCEPT !.lastActiveAt = clock, !.createdAt = clock]

\* touchSession.  It writes once in 15 seconds, which is one unit or less.
Touch(env) ==
  IF env = None THEN None ELSE [env EXCEPT !.lastActiveAt = clock]

\* The user's hand, to which the page listens while it has a timer.
OnActivity(t) ==
  LET listens == t \in isUnlocked /\ lockAfterMinutes[t] # 0
  IN /\ acted' = [acted EXCEPT ![t] = clock]
     /\ deadline' = [deadline EXCEPT ![t] = IF listens THEN clock + lockAfterMinutes[t] ELSE @]
     /\ envelope' = [envelope EXCEPT ![t] = IF listens THEN Touch(@) ELSE @]

\* What IndexedDB owes when only the operations at these places are left.
Rest(places) ==
  LET InOrder == {f \in Bijection(1 .. Cardinality(places), places) :
                    \A i, j \in DOMAIN f : i < j => f[i] < f[j]}
  IN {[n \in DOMAIN f |-> keyOps[f[n]]] : f \in InOrder}

\* A page that goes takes its jobs along, and reads that nobody waits for; what
\* it has yet to write may be lost.
WithoutOps(t, kinds) == {i \in DOMAIN keyOps : keyOps[i].op \in kinds => keyOps[i].tab # t}

LeftBehind(t) == Rest(WithoutOps(t, {"get"})) \cup Rest(WithoutOps(t, {"get", "put"}))

\* A page of tab t begins, with the session env under id k in sessionStorage, of
\* a password entered then: restoreSession up to its first await, for which queue
\* is what IndexedDB owes.
Mounts(t, env, k, then, queue) ==
  /\ Len(queue) < MaxOps
  /\ isUnlocked' = isUnlocked \ {t}
  /\ deadline' = [deadline EXCEPT ![t] = 0]
  /\ lockAfterMinutes' = [lockAfterMinutes EXCEPT ![t] = lockAfter]
  /\ saving' = [saving EXCEPT ![t] = Off]
  /\ IF env # None /\ ~IsSessionExpired(env, lockAfter) /\ k # 0
     THEN /\ restoring' = [restoring EXCEPT ![t] = [at |-> "reading", env |-> env]]
          /\ envelope' = [envelope EXCEPT ![t] = env]
          /\ kid' = [kid EXCEPT ![t] = k]
          /\ entered' = [entered EXCEPT ![t] = then]
          /\ keyOps' = Append(queue, [op |-> "get", tab |-> t, kid |-> k])
     ELSE /\ restoring' = [restoring EXCEPT ![t] = Off]
          /\ envelope' = [envelope EXCEPT ![t] = None]
          /\ kid' = [kid EXCEPT ![t] = IF env = None THEN k ELSE 0]
          /\ entered' = [entered EXCEPT ![t] = 0]
          /\ keyOps' = IF env = None \/ k = 0 THEN queue
                       ELSE Append(queue, [op |-> "delete", kid |-> k])

-----------------------------------------------------------------------------
(***************************************************************************)
(* Tabs.                                                                   *)
(***************************************************************************)
OpenTab(t) ==
  /\ t \notin tabs
  /\ tabs' = tabs \cup {t}
  /\ Mounts(t, None, 0, 0, keyOps)
  /\ acted' = [acted EXCEPT ![t] = clock]
  /\ UNCHANGED <<clock, shared, keyStore, made, copied>>

Reload(t) ==
  /\ t \in tabs
  /\ \E queue \in LeftBehind(t) : Mounts(t, envelope[t], kid[t], entered[t], queue)
  /\ UNCHANGED <<clock, shared, tabs, keyStore, made, acted, copied>>

\* The new tab begins with a copy of the sessionStorage of the old one.
Duplicate(t, u) ==
  /\ t \in tabs
  /\ u \notin tabs
  /\ tabs' = tabs \cup {u}
  /\ Mounts(u, envelope[t], kid[t], entered[t], keyOps)
  /\ acted' = [acted EXCEPT ![u] = acted[t]]
  /\ copied' = copied \cup ({kid[t]} \ {0})
  /\ UNCHANGED <<clock, shared, keyStore, made>>

\* Nothing is cleared when a tab is closed but its sessionStorage.
CloseTab(t) ==
  /\ t \in tabs
  /\ tabs' = tabs \ {t}
  /\ Locks(t)
  /\ restoring' = [restoring EXCEPT ![t] = Off]
  /\ saving' = [saving EXCEPT ![t] = Off]
  /\ keyOps' \in LeftBehind(t)
  /\ envelope' = [envelope EXCEPT ![t] = None]
  /\ kid' = [kid EXCEPT ![t] = 0]
  /\ lockAfterMinutes' = [lockAfterMinutes EXCEPT ![t] = 0]
  /\ entered' = [entered EXCEPT ![t] = 0]
  /\ acted' = [acted EXCEPT ![t] = 0]
  /\ UNCHANGED <<clock, shared, keyStore, made, copied>>

-----------------------------------------------------------------------------
(***************************************************************************)
(* Unlocking, and restoring what was unlocked.                             *)
(***************************************************************************)
\* unlock, where there is a vault, or an import, which stores one first: the
\* password is checked.
EnterPassword(t) ==
  /\ t \in tabs
  /\ saving[t] = Off
  /\ UserIsQuick \/ restoring[t] = Off
  /\ hasWallet' = TRUE
  /\ saving' = [saving EXCEPT ![t] = [at |-> "deriving"]]
  /\ OnActivity(t)
  /\ UNCHANGED <<clock, lockAfter, tabs, kid, isUnlocked, lockAfterMinutes, restoring,
                 keyStore, keyOps, made, entered, copied>>

\* The password is wrong.
WrongPassword(t) ==
  /\ saving[t].at = "deriving"
  /\ saving' = [saving EXCEPT ![t] = Off]
  /\ UNCHANGED <<clock, shared, tabs, stored, page, restoring, keyStore, keyOps,
                 made, past>>

\* Mutant: there is one id for all tabs.
OneIdForAll(t) == 1

\* The id of this tab, or a new one.
KeyId(t) == IF kid[t] = 0 THEN made + 1 ELSE kid[t]

\* saveSession up to the await of put: the key pair is sealed with a new key, to
\* be stored under its id.
Seal(t) ==
  /\ saving[t].at = "deriving"
  /\ made < MaxKeys
  /\ made' = made + 1
  /\ saving' = [saving EXCEPT ![t] = [at |-> "storing", key |-> made']]
  /\ keyOps' = Append(keyOps, [op |-> "put", tab |-> t, kid |-> KeyId(t), key |-> made'])
  /\ UNCHANGED <<clock, shared, tabs, stored, page, restoring, keyStore, past>>

\* There is no WebCrypto: the session is not saved, the tab is unlocked.
SealFails(t) ==
  /\ saving[t].at = "deriving"
  /\ ClearSession(t, keyOps)
  /\ saving' = [saving EXCEPT ![t] = Off]
  /\ Unlocks(t)
  /\ UNCHANGED <<clock, shared, tabs, lockAfterMinutes, restoring, keyStore, made, acted,
                 copied>>

\* put stores a key, and then prunes those that are too old.
WithKey(k, key) ==
  [i \in DOMAIN keyStore |->
     IF i = k THEN [key |-> key, at |-> clock]
     ELSE IF clock - keyStore[i].at > MaxSession THEN NoKey
     ELSE keyStore[i]]

\* The page that waits for this put, if it is still there.
Awaited(o) == saving[o.tab].at = "storing" /\ saving[o.tab].key = o.key

\* put returns: id and envelope are written and the tab is unlocked, unless
\* either of them fails.
RunPut ==
  /\ keyOps # <<>>
  /\ LET o == Head(keyOps)
         t == o.tab
     IN /\ o.op = "put"
        /\ IF ~Awaited(o)
           THEN /\ keyStore' = WithKey(o.kid, o.key)
                /\ keyOps' = Tail(keyOps)
                /\ UNCHANGED <<stored, isUnlocked, deadline, saving, entered>>
           ELSE /\ saving' = [saving EXCEPT ![t] = Off]
                /\ Unlocks(t)
                /\ \/ /\ keyStore' = WithKey(o.kid, o.key)
                      /\ kid' = [kid EXCEPT ![t] = o.kid]
                      /\ envelope' = [envelope EXCEPT
                           ![t] = [key |-> o.key, createdAt |-> clock, lastActiveAt |-> clock]]
                      /\ entered' = [entered EXCEPT ![t] = clock]
                      /\ keyOps' = Tail(keyOps)
                   \/ /\ keyStore' \in {keyStore, WithKey(o.kid, o.key)}
                      /\ ClearSession(t, Tail(keyOps))
  /\ UNCHANGED <<clock, shared, tabs, lockAfterMinutes, restoring, made, acted, copied>>

RunDelete ==
  /\ keyOps # <<>>
  /\ Head(keyOps).op = "delete"
  /\ keyStore' = [keyStore EXCEPT ![Head(keyOps).kid] = NoKey]
  /\ keyOps' = Tail(keyOps)
  /\ UNCHANGED <<clock, shared, tabs, stored, page, job, made, past>>

\* get returns: without a key, or if it fails, the session is cleared; else it is
\* deciphered.
RunGet ==
  /\ keyOps # <<>>
  /\ LET o == Head(keyOps)
         t == o.tab
     IN /\ o.op = "get"
        /\ \/ /\ ClearSession(t, Tail(keyOps))
              /\ restoring' = [restoring EXCEPT ![t] = Off]
           \/ /\ keyStore[o.kid] # NoKey
              /\ restoring' = [restoring EXCEPT
                   ![t] = [at |-> "deciphering", env |-> @.env, key |-> keyStore[o.kid].key]]
              /\ keyOps' = Tail(keyOps)
              /\ UNCHANGED <<stored, entered>>
  /\ UNCHANGED <<clock, shared, tabs, page, saving, keyStore, made, acted, copied>>

\* The key fits and there is a wallet: the tab is unlocked.  Otherwise the
\* session is cleared.
Restore(t) ==
  /\ restoring[t].at = "deciphering"
  /\ restoring' = [restoring EXCEPT ![t] = Off]
  /\ IF restoring[t].key = restoring[t].env.key /\ hasWallet
     THEN /\ Unlocks(t)
          /\ UNCHANGED <<stored, keyOps, entered>>
     ELSE /\ ClearSession(t, keyOps)
          /\ UNCHANGED <<isUnlocked, deadline>>
  /\ UNCHANGED <<clock, shared, tabs, lockAfterMinutes, saving, keyStore, made, acted,
                 copied>>

-----------------------------------------------------------------------------
(***************************************************************************)
(* An unlocked tab.                                                        *)
(***************************************************************************)
\* lock and switchVaultAccount: the form that checks a password has neither, but
\* the user may have left it.
Lock(t) ==
  /\ t \in isUnlocked
  /\ UserIsQuick \/ saving[t] = Off
  /\ ClearSession(t, keyOps)
  /\ Locks(t)
  /\ UNCHANGED <<clock, shared, tabs, lockAfterMinutes, job, keyStore, made, acted, copied>>

\* logout: the wallet is gone for all tabs, the session for this one.
Logout(t) ==
  /\ t \in isUnlocked
  /\ UserIsQuick \/ saving[t] = Off
  /\ hasWallet' = FALSE
  /\ ClearSession(t, keyOps)
  /\ Locks(t)
  /\ UNCHANGED <<clock, lockAfter, tabs, lockAfterMinutes, job, keyStore, made, acted,
                 copied>>

\* The inactivity timer is due.
InactivityLocks(t) ==
  /\ t \in isUnlocked
  /\ deadline[t] = clock
  /\ ClearSession(t, keyOps)
  /\ Locks(t)
  /\ UNCHANGED <<clock, shared, tabs, lockAfterMinutes, job, keyStore, made, acted, copied>>

\* A click or a key.
Activity(t) ==
  /\ t \in isUnlocked
  /\ OnActivity(t)
  /\ UNCHANGED <<clock, shared, tabs, kid, isUnlocked, lockAfterMinutes, job, keyStore,
                 keyOps, made, entered, copied>>

\* The user picks another setting, for this page and for those to come.
SetLockAfterMinutes(t, value) ==
  /\ t \in isUnlocked
  /\ lockAfter' = value
  /\ lockAfterMinutes' = [lockAfterMinutes EXCEPT ![t] = value]
  /\ deadline' = [deadline EXCEPT ![t] = IF value = 0 THEN 0 ELSE clock + value]
  /\ acted' = [acted EXCEPT ![t] = clock]
  /\ UNCHANGED <<clock, hasWallet, tabs, stored, isUnlocked, job, keyStore, keyOps,
                 made, entered, copied>>

Tick ==
  /\ clock < MaxClock
  /\ keyOps = <<>>
  /\ \A t \in Tabs : restoring[t] = Off /\ saving[t] = Off
  /\ \A t \in isUnlocked : deadline[t] # clock
  /\ clock' = clock + 1
  /\ acted' = [t \in Tabs |-> IF t \in isUnlocked THEN acted[t] ELSE 0]
  /\ UNCHANGED <<shared, tabs, stored, page, job, keyStore, keyOps, made, entered, copied>>

SessionNext ==
  \/ \E t \in Tabs :
       \/ OpenTab(t)
       \/ Reload(t)
       \/ CloseTab(t)
       \/ \E u \in Tabs : Duplicate(t, u)
       \/ EnterPassword(t)
       \/ WrongPassword(t)
       \/ Seal(t)
       \/ SealFails(t)
       \/ Restore(t)
       \/ Lock(t)
       \/ Logout(t)
       \/ InactivityLocks(t)
       \/ Activity(t)
       \/ \E value \in LockAfter : SetLockAfterMinutes(t, value)
  \/ RunPut
  \/ RunDelete
  \/ RunGet
  \/ Tick

SessionSpec == SessionInit /\ [][SessionNext]_sessionVars

-----------------------------------------------------------------------------
(***************************************************************************)
(* Properties.                                                             *)
(***************************************************************************)

\* A reload skips the password only within MAX_SESSION_MS of the time it was
\* entered and within the auto-lock of the last sign of the user, however often
\* the session was touched, reloaded and taken along to other tabs.
RestoredWithinPolicy ==
  [][\A t \in Tabs :
       t \notin isUnlocked /\ t \in isUnlocked' /\ restoring[t] # restoring'[t] =>
         /\ clock - entered[t] <= MaxSession
         /\ lockAfterMinutes[t] > 0 => clock - acted[t] <= lockAfterMinutes[t]]_sessionVars

Still(t) == keyOps = <<>> /\ restoring[t] = Off /\ saving[t] = Off

\* tests/sessionStore.test.ts: a tab has its own sealing key "so a second tab
\* cannot lock out the first".  Once nothing is under way, a locked tab has left
\* no session behind, and the session of an unlocked one can be restored: no late
\* delete, and no other tab, took its key.  This is so unless the tab was duplicated: a copy
\* has the same id, and puts and deletes keys under it.
SessionIsWhole ==
  \A t \in tabs : Still(t) =>
    /\ t \notin isUnlocked => envelope[t] = None
    /\ envelope[t] # None /\ clock - envelope[t].createdAt <= MaxSession =>
         kid[t] \in copied \/ keyStore[kid[t]].key = envelope[t].key

\* "The idle auto-lock also holds across refreshes": a reload starts the timer
\* anew, but no tab is unlocked for longer than twice the time without its user.
IdleTabsLock ==
  \A t \in isUnlocked : lockAfterMinutes[t] > 0 =>
    clock - acted[t] <= 2 * lockAfterMinutes[t]
=============================================================================
