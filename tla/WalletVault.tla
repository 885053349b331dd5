----------------------------- MODULE WalletVault -----------------------------
(***************************************************************************)
(* The accounts of the wallet: one record in storage, which every page     *)
(* reads, changes and writes back whole.  The web wallet reads it from     *)
(* localStorage when a call begins (src/storage/walletStore.ts); a popup   *)
(* of the extension reads it once, when it opens, and from then on works   *)
(* on its own copy (src/storage/walletStore.extension.ts).                 *)
(*                                                                         *)
(* Deriving and encrypting a key takes a while: adding an account is a     *)
(* Begin and a Write, other pages and calls move in between.               *)
(***************************************************************************)
EXTENDS Naturals, Sequences, FiniteSets, SequencesExt

CONSTANTS
  VaultPages,    \* tabs of the web wallet, or popups of the extension
  Calls,         \* calls that add an account
  VaultAccounts, \* addresses
  Stores,        \* which wallets to look at: "web", "extension"
  UserLeavesForms, \* may the user leave a form of the web wallet while it works?
  MaxAccounts    \* bound: entries a page sees when a call begins, and one more

VARIABLES
  store,         \* which wallet this is
  open,          \* the pages the user has open
  vault,         \* the record in storage
  cacheVault,    \* the copy of each popup
  choosing,      \* pages that show the screen of a wallet without accounts
  call,          \* the calls in progress
  kept           \* history: accounts that were added and that nobody removed

vaultVars == <<store, open, vault, cacheVault, choosing, call, kept>>

Empty == [activeIndex |-> 1, accounts |-> <<>>]
Idle  == [how |-> "idle"]

Held(v) == {v.accounts[i] : i \in DOMAIN v.accounts}

\* The vault as the code of a page finds it.
View(p) == IF store = "web" THEN vault ELSE cacheVault[p]

\* persistVault / writeVault.
Persist(p, v) ==
  /\ vault' = v
  /\ cacheVault' = IF store = "web" THEN cacheVault ELSE [cacheVault EXCEPT ![p] = v]

Running == {c \in Calls : call[c] # Idle}

VaultInit ==
  /\ store \in Stores
  /\ open \in SUBSET VaultPages \ {{}}
  /\ vault = Empty
  /\ cacheVault = [p \in VaultPages |-> Empty]
  /\ choosing = open
  /\ call = [c \in Calls |-> Idle]
  /\ kept = {}

-----------------------------------------------------------------------------
\* A page is loaded or loaded again; what it was doing is gone.
PageLoads(p) ==
  /\ cacheVault' = IF store = "web" THEN cacheVault ELSE [cacheVault EXCEPT ![p] = vault]
  /\ choosing' = IF vault = Empty THEN choosing \cup {p} ELSE choosing \ {p}
  /\ call' = [c \in Calls |-> IF call[c] # Idle /\ call[c].page = p THEN Idle ELSE call[c]]
  /\ UNCHANGED <<store, open, vault, kept>>

\* After a lock, and on the way back from a form, a page shows what it finds.
RenderChoose(p) ==
  /\ choosing' = IF View(p) = Empty THEN choosing \cup {p} ELSE choosing \ {p}
  /\ UNCHANGED <<store, open, vault, cacheVault, call, kept>>

\* Mutant: the submit button is not disabled.
MaySubmitAgain(p, import) == TRUE

\* A form of the web wallet cannot be submitted while its call runs, but another
\* one that the user goes to knows nothing of that; the import form of the popup
\* cannot be while an import runs, and its create form always can.
MaySubmit(p, import) ==
  \A c \in Running : call[c].page = p =>
    \/ store = "web" /\ UserLeavesForms
    \/ store = "extension" /\ ~(import /\ call[c].import)

\* A new key is one that nobody has; an imported one is any.
MayBe(a, import) ==
  import \/ a \notin kept \cup Held(vault)
                     \cup UNION {Held(cacheVault[p]) : p \in VaultPages}
                     \cup {call[c].account : c \in Running}

\* Does a call keep the vault it reads when it begins?
Reads(how) == how = "phrase" \/ (how = "key" /\ store = "web")

\* Someone creates or imports an account on page p.
Begin(c, p, a, import, how) ==
  /\ call[c] = Idle
  /\ MaySubmit(p, import)
  /\ MayBe(a, import)
  /\ Len(View(p).accounts) < MaxAccounts
  /\ call' = [call EXCEPT ![c] = [page |-> p, account |-> a, import |-> import, how |-> how,
                                  base |-> IF Reads(how) THEN View(p) ELSE Empty]]
  /\ UNCHANGED <<store, open, vault, cacheVault, choosing, kept>>

\* createAndSaveWallet, importAndSaveWallet and a phrase that is not additional:
\* from the screen of a wallet without accounts, the vault is replaced.
AddFirst(c, p, a, import) ==
  /\ p \in choosing
  /\ Begin(c, p, a, import, "replace")

\* createAdditionalAccount and importAdditionalAccount, which fall back to the
\* above; createWalletWithPhrase and importWalletFromPhrase with additional.
AddAnother(c, p, a, import) ==
  /\ p \notin choosing
  /\ \/ Begin(c, p, a, import, IF View(p) = Empty THEN "replace" ELSE "key")
     \/ Begin(c, p, a, import, "phrase")

\* What the end of a call builds on: the popup appends a key to the copy it has
\* by then, all others to what they read first.
Base(c) ==
  IF store = "extension" /\ call[c].how = "key" THEN cacheVault[call[c].page] ELSE call[c].base

\* vaultWithEntry, and its like in importAdditionalAccount: one more entry, active.
WithEntry(v, a) ==
  [activeIndex |-> Len(v.accounts) + 1, accounts |-> Append(v.accounts, a)]

\* Mutant: the check of buildPhraseEntry is gone.
RefusedNever(c) == call[c].how = "key" /\ Base(c) = Empty

\* buildPhraseEntry refuses an account that the vault it was given has; a popup
\* that lost its copy meanwhile throws.
Refused(c) ==
  \/ call[c].how = "phrase" /\ call[c].account \in Held(call[c].base)
  \/ call[c].how = "key" /\ Base(c) = Empty

AddFails(c) ==
  /\ c \in Running
  /\ Refused(c)
  /\ call' = [call EXCEPT ![c] = Idle]
  /\ UNCHANGED <<store, open, vault, cacheVault, choosing, kept>>

Write(c) ==
  /\ c \in Running
  /\ ~Refused(c)
  /\ Persist(call[c].page, WithEntry(Base(c), call[c].account))
  /\ choosing' = choosing \ {call[c].page}
  /\ kept' = kept \cup {call[c].account}
  /\ call' = [call EXCEPT ![c] = Idle]
  /\ UNCHANGED <<store, open>>

-----------------------------------------------------------------------------
\* setActiveAccountIndex, and the unlock screen after it.
SetActiveAccountIndex(p, i) ==
  /\ p \notin choosing
  /\ i \in DOMAIN View(p).accounts
  /\ Persist(p, [View(p) EXCEPT !.activeIndex = i])
  /\ UNCHANGED <<store, open, choosing, call, kept>>

\* Mutant: the index is not moved.
WithoutMoving(v, i) ==
  [accounts |-> RemoveAt(v.accounts, i), activeIndex |-> v.activeIndex]

\* removeAccountAtIndex: the index stays on the account it was on, or moves to
\* the neighbour of a removed one.
Without(v, i) ==
  LET rest  == RemoveAt(v.accounts, i)
      moved == IF i < v.activeIndex THEN v.activeIndex - 1 ELSE v.activeIndex
  IN [accounts |-> rest, activeIndex |-> IF moved > Len(rest) THEN Len(rest) ELSE moved]

\* The popup removes the active account; the last one takes the wallet with it.
RemoveAccount(p) ==
  /\ store = "extension"
  /\ p \notin choosing
  /\ LET v == View(p)
         rest == IF Len(v.accounts) <= 1 THEN Empty ELSE Without(v, v.activeIndex)
     IN /\ Persist(p, rest)
        /\ choosing' = IF rest = Empty THEN choosing \cup {p} ELSE choosing
        /\ kept' = kept \ (Held(v) \ Held(rest))
  /\ UNCHANGED <<store, open, call>>

\* The web wallet forgets everything (clearWallet).
Logout(p) ==
  /\ store = "web"
  /\ p \notin choosing
  /\ vault' = Empty
  /\ kept' = {}
  /\ choosing' = choosing \cup {p}
  /\ UNCHANGED <<store, open, cacheVault, call>>

VaultNext ==
  \/ \E p \in open :
       \/ PageLoads(p)
       \/ RenderChoose(p)
       \/ \E c \in Calls : \E a \in VaultAccounts : \E import \in BOOLEAN :
            \/ AddFirst(c, p, a, import)
            \/ AddAnother(c, p, a, import)
       \/ \E i \in 1 .. Len(View(p).accounts) : SetActiveAccountIndex(p, i)
       \/ RemoveAccount(p)
       \/ Logout(p)
  \/ \E c \in Calls : AddFails(c) \/ Write(c)

VaultSpec == VaultInit /\ [][VaultNext]_vaultVars

-----------------------------------------------------------------------------
(***************************************************************************)
(* Properties.                                                             *)
(***************************************************************************)

\* src/storage/walletStore.ts:202: "With `additional`, the account is appended to
\* the existing vault": where the accounts that the call read are still there, and
\* others have been added, all of them stay. The code does not keep it: the call
\* writes back the vault it read before it derived and encrypted the key.
AppendedToTheVault ==
  [][\A c \in Calls :
       /\ call[c] # Idle /\ call'[c] = Idle /\ call[c].how = "phrase"
       /\ vault' # vault
       /\ Held(call[c].base) \subseteq Held(vault)
       => Held(vault) \subseteq Held(vault')]_vaultVars

\* Every account that was added and that nobody removed is in the vault.
AddedStays == kept \subseteq Held(vault)

\* That is so in the web wallet open in one tab, as long as its user waits for
\* each form to end: no two calls overlap then, so none writes back what it read
\* before another one wrote, also when the page is loaded again or logged out.
LoneTabKeepsAll ==
  store = "web" /\ (\E p \in open : open = {p}) /\ ~UserLeavesForms => AddedStays

\* Whatever copies are written back over each other, a record or a copy with
\* accounts has its active one: the account that unlocks and signs exists.
ActiveAccountExists ==
  \A v \in {vault} \cup {cacheVault[p] : p \in VaultPages} :
    v.accounts # <<>> => v.activeIndex \in DOMAIN v.accounts

\* However calls and pages overlap, the entry of a phrase never becomes a second
\* one of an account: it is written next to the very entries it was compared with.
PhraseAddsNoTwin ==
  [][\A c \in Calls :
       /\ call[c] # Idle /\ call'[c] = Idle /\ call[c].how = "phrase"
       /\ vault' # vault
       => Cardinality({i \in DOMAIN vault'.accounts :
                         vault'.accounts[i] = call[c].account}) <= 1]_vaultVars
=============================================================================
