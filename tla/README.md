# Boing Express, verified in TLA+

Boing Express is a browser wallet: an extension (a service worker, an approval
page, a popup, and a provider injected into pages) and a web wallet, over one
library of chain code and a gateway to the nodes. These modules model the parts
in which order, failure and timing decide whether the wallet is right: who may
sign, with which key, what the user agreed to, who gets an answer, how often a
payment is made, and what the screens say of an account while answers arrive late.

Paths below are relative to the repository; `background.ts`, `popup.ts` and
their neighbours are in `src/extension/`, the other sources in `src/src/`.

## 1. Inventory

| Component | State | Operations | What is hard | What makes it correct |
|---|---|---|---|---|
| Signature approvals (`background.ts` 755-1044, `approval.ts`) | pending approvals, window index, timers, id counter | ask, window created, window closed, answer, timeout, reject all | four ways to settle, windows that outlive the worker, ids that start over | settles once, only by the consent given to it, and always in the end |
| Unlock queue (`background.ts` 797-951, 1264-1498) | queue, timers, unlock window id | queue, unlock and drain, time out, reject all | two drains over one queue, ids chosen by pages, callbacks of windows | each request answered once, no timeout hits another |
| Lock and signing requests (`background.ts` 221-330, 522-728, 1093-1249; `popup.ts`) | key in memory and in session storage, active account, PutBlob sessions, a handler per request | unlock, lock, auto-lock, account change, sign, send | addresses and keys read before an await and used after it; a popup that closes halfway; restarts | nothing signed without consent, within budget, or with another key |
| Site connections (`background.ts` 332-436; `popup.ts` 387-442) | list of sites in storage, prompt in flight per origin | connect, disconnect | read-modify-write by two processes, one prompt for many requests | only sites the user agreed to, nobody left waiting |
| Provider bridge (`inpage.ts`, `content.ts`, `background.ts` 1223-1665) | pending calls per page, timers | call, answer, time out, reload | two hops, each may be missing; a page that stops waiting before the worker does | each call settles once; a value only for what was done |
| Transaction submission (`boing/rpc.ts`, `submitRetry.ts`, `boingAdapter.ts`, `background.ts` 615-728) | nonce, attempt, verdict per send | read nonce, simulate, submit, retry, sign again | lost answers, HTTP retries, other devices, a timeout that ends with the headers | paid once, told the truth, ends or waits for a body that stalls |
| Bulk transfer (`boing/bulkTransfer.ts`, `BulkTransferPanel.tsx`) | rows, review, row statuses, next nonce | enter, import, review, run, cancel | a row whose fate is unknown; a list edited during its review; the fallback from a batch | no row twice, no gap |
| PutBlob sessions (`boing/putBlobSession.ts`) | budget, bytes, expiry per origin | create, consume, end | concurrent consumers | budget and expiry kept |
| Web wallet session (`sessionStore.ts`, `WalletContext.tsx`) | sealed session of the tab, its key in IndexedDB, timers | unlock, restore, touch, lock | restore racing a new unlock, several tabs | no session outlives its policy, none is lost |
| Wallet vault (`walletVault.ts`, `walletStore*.ts`) | accounts, active account | add, import, switch, remove | read-modify-write in storage | no account lost, the active one exists |
| Popup wallet (`popup.ts`) | screen, key, phrase to back up, form in progress | create, back up, import, unlock, switch, add, reveal, lock, forget | a handler begins on one screen and ends on another | adding an account drops none |
| Dashboard (`Dashboard.tsx`) | network, balance shown, refreshes, review of a send | refresh, switch network, review, confirm | answers of a network that was left; a review of another network | the balance comes to be right, money goes to whom the name says |
| Transaction history (`txHistory.ts`, `Dashboard.tsx`) | rows, cursor, local records | load, load older, record, reload | overlapping loads | "no older" is true |
| NFT scan (`nftDiscovery.ts`, `nftScanCursor.ts`, `nftScanGaps.ts`) | cursor, gaps | scan, record gap, resolve | failed blocks, a capped list, a page closed between two writes | a block is read, owed or knowingly given up |
| Token holdings (`tokenHoldings.ts`, `useTokenHoldings.ts`) | watch list, recent list, cache, loads | load, watch, hide | overlapping loads that end in any order, failing probes | what was watched when a list was read is on it |
| NFT panel (`NftHoldingsPanel.tsx`, `nftWatchlist.ts`) | watch list, ownership, selection, transfer | refresh, select, transfer | refreshes change what is owned under a selection | only owned items are sent, as counted |
| Names (`names.ts`, `NamesPanel.tsx`, `pendingName.ts`) | reservation, claims, owned names | reserve, claim, look up, renew, transfer, release | three transactions in a row, receipts that are late, pages that are left | a claim keeps its order |
| Web signing links (`webSigning.ts`, `WebSign.tsx`) | replay store, connected sites | open, connect, sign, send, prune | pruning against expiry | a link is handled once |
| RPC gateway (`workers/rpc-gateway`) | counters, answer cache | forward, limit, cache | counters without atomic update, a store that fails | nobody is refused for nothing |
| Encoding, cryptography, networks, QA, other screens, build | none or caches | pure functions, rendering | - | tests reach them well; see 7 |

How they meet: a page calls the provider, the content script relays, the
worker's message listener starts a handler per request. A handler reads the
active address and the key; without a key it goes to the unlock queue, which an
unlock drains; with one it may ask the user through a signature approval, or be
covered by a PutBlob session, and then signs or submits. Connecting uses the
same approvals. The popup writes the vault and the list of sites directly to
storage and sends messages to the worker after. The worker can be killed
between any two events: its variables go, storage and windows stay. The web
wallet has no worker: its screens call the library themselves, each with its own
records in localStorage, and what goes out to the chain goes out through
`buildAndSubmit`, that is `SubmitTransaction`. Nothing of what the asset screens
keep is read by the signing path.

## 2. Modules

| Module | Models | Composes |
|---|---|---|
| `ApprovalPromise` | what awaiting `requestSignatureApproval` promises | - |
| `SignatureApprovals` | how the worker keeps it | implements `ApprovalPromise` |
| `UnlockQueue` | the queue, its timers, windows and drains | - |
| `SigningRequests` | requests against key, account and sessions | uses the actions of `ApprovalPromise` as its prompts |
| `SiteConnections` | the list of sites and its shared prompts | takes from `ApprovalPromise` that prompts settle |
| `CallPromise` | what `window.boing.request` promises a page | - |
| `ProviderBridge` | how page, content script and worker keep it | implements `CallPromise` |
| `WalletVault` | the accounts in storage, of the web wallet and of popups | - |
| `PopupWallet` | the screens and handlers of the popup | - |
| `WebSession` | the unlocked session of the web wallet, over tabs and reloads | - |
| `SubmitTransaction` | from an approved send to the chain | - |
| `BulkPanel` | rows, review, batch and fallback of a bulk transfer | takes from `SubmitTransaction` how a row ends |
| `Dashboard` | balance, network and review of a send | - |
| `ChainHistory` | the transactions tab | - |
| `ScanPromise` | what the scan for NFTs promises of every block | - |
| `NftScan` | cursor, window and gaps of the scan | implements `ScanPromise` |
| `TokenHoldings` | the token list and its loads | - |
| `NftPanel` | the NFT list, selection and transfer | - |
| `Names` | reserving and claiming a name, the names panel | - |
| `WebSigning` | signing links of the web wallet | - |
| `RpcGateway` | the limiter and the cache of the gateway | - |

`SignatureApprovalsProofs`, `SiteConnectionsProofs`, `SigningRequestsProofs`,
`SubmitTransactionProofs` and `WebSessionProofs` hold the theorems about the module
they are named for, and `SubmitTransactionProofs` those about `Dashboard` as well, `ProviderProofs` those about `ProviderBridge` and `UnlockQueue`,
`PagesProofs` those about `WebSigning`, `Names`,
`WalletVault`, `PopupWallet` and `RpcGateway`, `AssetsProofs` those about
`NftPanel`, `BulkPanel`, `ChainHistory`, `TokenHoldings` and `NftScan`.

The `MC*` modules are the instances for TLC. Components that share no state need
no product: five of them hold several components and one variable, chosen in
`Init` and never changed, that says which one moves.

| Instance | Variable | Components |
|---|---|---|
| `MCWaiting` | `place` | `SiteConnections`, `UnlockQueue`, `ProviderBridge`, `SignatureApprovals` |
| `MCUnlockedKey` | `holder` | `SigningRequests`, `WebSession` |
| `MCSending` | `side` | `SubmitTransaction`, `Dashboard` |
| `MCAssets` | `part` | `NftScan`, `TokenHoldings`, `NftPanel`, `ChainHistory`, `BulkPanel` |
| `MCPages` | `part` | `WalletVault`, `PopupWallet`, `Names`, `WebSigning`, `SigningRequests`, `RpcGateway` |

Rules all modules of the worker follow:

- JavaScript runs one event to its end. An action is what runs between two
  awaits that yield to something else. An `await` on a value that is ready
  yields only to other ready continuations; the drains of `UnlockQueue` and
  `SigningRequests` therefore have a `Quiet` condition: while the loop can go on
  with what it has, no new event is handled.
- Calls of `chrome.storage` by one process are served and called back in the
  order they were made (`SiteConnections`); another process may write between.
- A restart of the worker clears every module-level variable and leaves
  storage, windows and messages in flight.
- History variables (`consent`, `ticket`, `agreed`, `signedBy`, `unprompted`,
  `accepted`, `included`, `unanswered`, `replies`) are written and never
  guard a step of the code; `outcome` is the promise the caller holds.
- Operators headed `Mutant` are broken variants of the definition they precede.
  They are part of no specification; each shows that a property can fail.

### SignatureApprovals

`pendingSignatureApprovals` is the Map as a set of entries; a request id is
`<<Date.now(), nextApprovalId>>`, and the clock (`now`, bounded by `MaxTime`)
may stand still over a restart, which sets the counter back to 1. A page
(`approvalPage`, `winId`, `shown`) loads by asking the worker what to show, the user
answers, the message travels (`messages`), and its answer may fail
(`AnswerFails`, `setBusy(false)` in `approval.ts`), after which the user may
answer again. `ClearPendingApprovals` is `clearPendingApproval`,
`SettlePendingApprovals` the rejection that also closes windows.

### UnlockQueue

`timers` are the armed unlock timeouts in the order they fire (all have one
length). `IdOf` gives the ids pages chose, two of them equal. A drain goes
`begun` (the read of the key is issued), `keyed` (it came back), `looping`,
`working` (an item is being awaited). `PutBlobSessionRequests` are the requests
for which the loop body has no branch.

### SigningRequests

A task is a request handler or a drain; `address` and `unlockedState` are what
it read and keeps. `unlocked` and `unlockedSession` are the key in memory and in
`chrome.storage.session`. The prompt of a request is an instance of
`ApprovalPromise`. There is no clock: where the code tests for expiry of the
session or of the idle time, either outcome is possible. `RequestFails` is any
error of a request: bad parameters, unknown chain, a failing read.

### SiteConnections

`callbacks` are the answers storage owes the worker, with what was in storage
when the call was made. `pendingConnectApprovals[o]` says what the one prompt
of an origin is waiting for. The popup reads (`Disconnect`) and writes
(`DisconnectWrites`) as another process.

### WalletVault

`store` says which wallet it is. The web wallet reads `vault` when a call
begins (`base`) and writes it when it ends; a popup reads it on loading
(`cacheVault`) and works on that copy, from which a key is appended at the end
of the call and a phrase at its beginning. `MaySubmit` is the `loading` flag of
the forms of `Welcome.tsx` and the disabled import button of `popup.ts`; the
create form of the popup has neither. The flag belongs to a form: a user who
leaves it while it works (`UserLeavesForms`) can submit the next one, so the
runs assume that users wait the second it takes. `choosing` are the pages that show the
screen of a wallet without accounts, from which the vault is replaced.
Writing to storage and being called back are one step: until then nobody else
of that page looks at storage. Passwords and keys are left out: unlocking
changes no account. `kept` is what the user has reason to expect.

### WebSession

`envelope` and `kid` are the tab's sessionStorage (`boing_session`,
`boing_session_kid`), `isUnlocked` the tabs whose `WalletContext` has the key,
`keyStore` the entries in IndexedDB and `keyOps` its transactions that have yet
to run, in order. A sealed session is the number of the key that sealed it, with
its two times. `restoring` and `saving` are what a page is in the middle of:
`getSession` waits for a key and then for the deciphering, an unlock for the
password (`deriving`) and then for its key to be stored (`storing`). Lock and
`switchVaultAccount` do the same to the session. A new tab begins without one,
`Duplicate` with that of another. A page that goes leaves deletes behind, and
perhaps a put. `UserIsQuick` allows a password before the page has looked for
its session and a lock while a password is checked: the run does without both,
which are a matter of milliseconds and of leaving the form. With it a restore
that fails may clear the session that an unlock is saving, and an unlock undoes
a lock; no run covers these, and the histories are not kept for them.

Two things hold less than one would expect. A reload starts the inactivity timer
anew, so a tab may stay unlocked for twice the time without its user, which is
what `IdleTabsLock` says. And the ceiling of `MAX_SESSION_MS` is looked at when a
page begins: a tab that is used and never loaded again stays unlocked.

### SubmitTransaction

`Sends` are the things the user approved once; `RowNo` numbers those that are
rows of a bulk transfer. `kind` is the code that submits: `wallet`
(`buildAndSubmit` over the adapter), `dapp` (`signOrSendBoingTransaction`) and
`given` (the same with a nonce chosen by the site, never signed again). The
single transaction of a batch behaves like one row. A transaction is its send
and its nonce: signing again with the same nonce gives the same bytes.
`EdgeFails` is a 429 or 5xx in `rpcCall`, `Unreachable` a timeout, a network
error or another status; either may leave the request on its way (`stray`).
The node, the blocks and the other device are external: the node's verdicts are
the ones the comments and patterns of `submitRejection.ts` describe (a lower
nonce is stale, the same bytes are already pending, a future nonce waits).
`MayStall` is a send that may have the headers of an answer and wait for its body:
`fetchOnce` has cleared its timer by then (`rpc.ts:132`), nothing bounds `res.json()`
(line 152), and the body may come, break off, or neither.

### ProviderBridge

A call is `page[c]` (what the promise of the page is), `wire[c]` (where its
request or answer is: `asked` on its way, `handled`, `queued`, `approving`,
`working` in the worker, then the answer travelling back) and `saw[c]` (what
`isConnected` returned to its handler). `pending` of `inpage.ts` is the calls
whose page is `pending`; a timer of the page settles its side and tells the
worker nothing, so the work may still be done. `drains` says that an unlock has begun
to work off the queue and may not have come to its end. A lock (`Locks`) leaves the queue, a
drain with the key it read and the open prompts as they are, so a prompt may be approved
after it; an account change (`SwitchesAccount`) rejects the queue and the prompts. The stages in the worker are one
state each here; `SignatureApprovals`, `UnlockQueue`, `SigningRequests` and
`SiteConnections` have them in detail.

### PopupWallet

`screen` is `currentScreen`, `user` the key in the popup's memory, `words` and
`password` the phrase and password kept for the backup screens. Every handler
that awaits a derivation or a password check is a `job`; it reads variables of
the popup again when it goes on, as the code does, whatever screen the user has
gone to since. `UserWaits` says that the user begins no second addition while one
runs: the create form can be submitted twice, and then the property fails.

### Dashboard, ChainHistory

`refreshes` counts the requests of `refresh` under way per network; an answer
sets the balance without looking which network is selected now, and the interval
of the selected one corrects it. `form` is the send form with the review, `job`
the transaction that goes on after the screen has left. In `ChainHistory` the
chain's transactions are numbers, `rows` is `chainTx`, `older` the cursor, and
`loads` the requests under way: the buttons wait for `chainLoading`, the reload
after a transaction does not. `Merged` is the list the tab renders.

### NftScan

`stored` is what localStorage has: cursor, gaps with their attempts and times,
last clean height. A pass goes from the tip through the range, the gaps it tries
again and the write-backs, each a step, and may end between any two
(`PageMayClose`). `looked`, `failedOnce` and `forgotten` are histories that map to
`ScanPromise`. Blocks are given up in four ways, each a branch of the code:
out of the window, behind the last NFT one pass takes, off the full list of gaps,
and failed in a pass that was closed after it moved the cursor and before it noted
the gap. Passes that overlap are in the module; the promise is claimed for one after
the other, since a pass writes back a list of gaps that another has changed.

### TokenHoldings, NftPanel

A load reads the stored lists, asks for candidates, reads balances and writes
`recent` back, each a step. Its list goes to the screen whatever has come there since
it began. Refreshes begin while others run: the button waits for the first of them
(`loading` is reset by it), those after an edit of the watch list and two seconds after a
send do not wait, and the latter come also when the screen has gone (`owed`). `source` is the load
whose reads are on the screen, `since` how many loads had begun when a watched token was
added. `NftPanel` reads `watched` and writes it back around an await, `statuses` is
the list with what the chain said, and every refresh that brings one also takes the
selection along (`Shows`). The panel exists twice, as `panel` says.

### BulkPanel

`form` are the rows entered, `checking` the rows whose validation is awaited,
`validated` the review. A run takes the rows of the review: as one batch
(`BatchFails`, also as a format the node does not know, after which `mode` is
sequential), or row by row. `paid` counts what the node took. How nonces go
with the rows is in `SubmitTransaction`.

### Names

`claim[c]` is one run of `claimName` with its salt: look the name up, commit,
wait, register, wait, set the primary name, wait; it goes on when its page is
left. `reserved` is `pendingName.ts`, `banner` the component that claims
it. The chain is external: a registration succeeds if the commitment is included
and the name is free.

### WebSigning

A page goes from `received` through validation to `open`, and on to connecting,
signing or sending. `seen` is the replay store, pruned whenever it is read,
`accepted` counts how many pages took a request as new. A page looks up the
connected site when it is drawn, and uses that (`connected`) later.

### RpcGateway

Requests of one client for one query in isolates that share the key-value store
and the cache. `kv` keeps every count written, since a read may return an old one;
`soft` is the limiter an isolate uses while the store is paused after a failure. The key
of the store is built before the store is asked (`AsksStore`), so the minute a request is
counted in may be over when it is. `counted` is history: when a request was let through
or its count was written, which may also happen to one that is then refused, as a put can
fail and be done all the same.

## 3. Runs

| Run | Result | Shows |
|---|---|---|
| `Waiting` | holds | of the list of sites `OnlyAgreedSites`, `WaitersHaveFlight`, `EveryRequestSettles`; of the queue `TimersFollowQueue`, `AnsweredOnce`, `OnlyOwnTimeout`, `EveryRequestAnswered`; of the provider `ImplementsCallPromise`; of the prompts `ApprovedByConsent`, `OpenHasTimer`, `WindowIndexAgrees`, `ImplementsPromise`, `EverySettles` |
| `UnlockedKey` | holds | of the worker, while it and the popup live on, `SessionBudget`, `KeyOfActiveAccount`, `OnlyUserUnlocks`; of the web wallet `SessionIsWhole`, `IdleTabsLock`, `RestoredWithinPolicy` |
| `Sending` | holds | of submission `PaidOnceIfAnswered`, `RowsPaidOnce`, `FailedMeansUnsent`, `RowsLeaveNoGap`, `EverySendEnds` (a send is over in the end, or waits for an answer whose body may stall); of the wallet screen `SentToWhatTheNameSays`, `BalanceComesRight` |
| `Assets` | holds | `KeepsScanPromise`, `WatchedBeforeAreShown`, `SelectionIsOwned`, `EndIsTheEnd`, `ReviewedPaidOnce` |
| `Pages` | holds | of the vault `LoneTabKeepsAll`, `ActiveAccountExists`, `PhraseAddsNoTwin`; of the popup `AddingKeepsAccounts`; `ClaimKeepsOrder`, `HandledOnce`, `RefusedMeansBusy`; of the worker with restarts, auto-lock and a popup that closes halfway `Authorised`, `WaitingIsReachable` |
| `UnlockQueueDropped` | violated | `PutBlobSessionsAnswered`: a queued `boing_requestPutBlobSession` is never answered |
| `SigningRequestsLocked` | violated | `ApprovedOnlyUnlocked`: a prompt open at Lock still signs when approved |
| `SigningRequestsSwitched` | violated | `SignsAsShown`: address read before an account switch, key after it |
| `SiteConnectionsBack` | violated | `OnlyUserConnects`: connecting one site undoes the disconnecting of another |
| `WalletVaultLost` | violated | `AppendedToTheVault`: two tabs add another account each, one is lost |
| `SubmitTransactionTwice` | violated | `RetryIsSafe`: a retried submission finds its own nonce stale and is signed and paid again |
| `TokenHoldingsOvertaken` | violated | `WatchedAlwaysShown`: a load that was overtaken takes a watched token off the screen |

The seven violated properties state what
the documentation or a comment promises; each counterexample is short enough to
read next to the code:

- `UnlockQueueDropped`: queue the request while locked, unlock. The drain
  shifts it, clears its timeout and goes on; nothing refers to it any more.
- `SigningRequestsLocked`: ask for a signature, lock, approve the open prompt.
- `SigningRequestsSwitched`: a request reads the address, the user switches
  account (which locks) and unlocks, the request reads the key.
- `SiteConnectionsBack`: a connect reads the list of sites, the popup removes
  another site, the connect writes its list.
- `WalletVaultLost`: one tab creates the first account and begins to add another, a
  second tab is loaded and begins to add one too, both having read the vault with
  the first account; each appends to what it read, and the account written first is
  gone, though "with `additional`, the account is appended to the existing vault"
  (`walletStore.ts:202`).
- `SubmitTransactionTwice`: the node takes the transaction, the edge in front
  of it answers 502, a block includes it, the retry is stale, the nonce is read again, the
  same intent is signed with it and included.
- `TokenHoldingsOvertaken`: a load reads the watch list, the user adds a token, the load
  that the panel then begins shows it, and the first one ends after it with a list
  that lacks the token. "Watchlist entries are always shown" (`tokenHoldings.ts:12`) holds
  again after the next refresh only.

A disagreement that no run shows: the timeout of a call "prevents hanging on slow or
unresponsive RPC" (`rpc.ts:70`), and `signing.ts:119` says of it "a hung node cannot stall
signing". It ends with the headers of an answer (`rpc.ts:132`); a body that then stalls
(line 152) holds the call, and the send, for ever. The model owes such an answer to
nobody, and `EverySendEnds` leaves out a send that waits for one.

Seen while modelling, and not run because no text of the repository promises
otherwise:

- The worker broadcasts provider events with `runtime.sendMessage`
  (`background.ts:745`), which content scripts do not receive.
- A site that is disconnected while its request is queued or its signing page is
  open is still served (`background.ts:883`, `WebSign.tsx:231`).
- The phrase kept for the backup outlives a lock of the popup, Continue can be
  clicked twice, and the create form submitted twice (`popup.ts:1301`).
- "Nothing was sent" is also said when only the answer to a batch was lost
  (`BulkTransferPanel.tsx:274`).
- A page of older transactions asked for before a reload and appended after it
  leaves a hole in the middle of the list (`Dashboard.tsx:302`).
- A recent token leaves the list also when its balance could not be read
  (`tokenHoldings.ts:488`).
- Two claims at once share the one reservation; the first to end drops it
  (`pendingName.ts:25`).
- The gateway counts a request whose put fails and is done all the same, and may refuse
  it; so Limit requests that counted, not that were let through, precede a refusal.
- The gateway undercounts when two requests read one count (`rateLimit.ts:74`),
  and a cached answer has the JSON-RPC id of the call that filled the cache
  (`index.ts:146`).

### Bounds

- `Waiting`, the prompts: two of them, two windows, `MaxTime = 2`, `MaxApprovals = 2`: one request of
  an earlier worker life and one of the present, each with a window, with and
  without the same id. Hazards are between two prompts; a third only waits.
- `Waiting`, the rest: two sites, three requests: two share a prompt while a third writes the list.
  Three queued requests, two drains, two windows: two requests with one id and
  a third behind them, two drains that shift alternately, an unlock window that
  is reopened before it closed; one request asks for a PutBlob session. Two calls of
  a page with six methods and two changes among reload, disconnect, lock and
  restart: a call and its late answer, and one that is made after it.
- `UnlockedKey`: two accounts, one site, three requests, one drain, sessions of one
  blob: two blobs compete for the last unit, and an account can be left and come
  back to. Two tabs, two sealing keys, a ceiling and an auto-lock of one unit (or none) and
  a clock of four: a session past either and one within, a tab that is locked
  and unlocked again, or one session each, and copies of it. A page begins with at
  most one transaction owed (`MaxOps = 2`, with its own). Tabs, accounts and blobs are
  symmetric; none of this run's properties is about liveness.
- `Sending`: one send and two rows, `MaxAttempts = 2` (the code has 3: the third attempt
  does what the second does), `MaxNonce = 2`: enough blocks for a send to be
  included twice, or for a rival or another device to come first. Two networks and
  two addresses of a name, two refreshes at once, one change: an answer of
  each network in either order around the change.
- `SubmitTransactionTwice` has one send, `TokenHoldingsOvertaken` one token and two loads.
- `Assets`: a window of two blocks on a chain of four, one NFT and one retry per pass, one
  gap kept: each of the four ways to give up a block happens. Two tokens and three
  loads, two at once, one recent holding: a load that is overtaken, a list in the cache that
  an edit has made old. Two NFTs, two
  refreshes, one transfer. Four transactions by pages of one, two loads at once.
  Four rows of which three fit, batches of two, two runs: a repeated recipient,
  a total over the balance, a batch and its fallback, and a second run.
- `Pages`: two pages, two calls, `MaxAccounts = 2`: a copy that is one account behind, two
  calls in one page or in two, removals at both ends of the list. Two handlers of the popup.
  Two names, two claims, four changes: a rival, and a page left in each
  step. Three links and three pages in a clock of five around an expiry at three, with a skew of
  one. One site, a PutBlob and a grant of a session, one drain. Two requests of the
  gateway in two isolates, a limit of one and a window of two ticks.

Deadlock is not checked where an instance may simply have nothing left to do: all
prompts settled, all requests answered.

### Fairness

- An armed timer fires: `ApprovalTimesOut`, `UnlockTimesOut`.
- The event loop runs what is due: storage calls back, a handler's work ends, a
  drain goes on. The RPC calls in a handler are bounded by `RPC_TIMEOUT_MS` only until
  the headers of an answer are in; one whose body stalls ends with the worker, which the
  browser stops. So `QueueFairness` says that the work on a request ends or the queue is
  lost with the worker.
- A prompt settles (`SiteConnections`): that is `EverySettles`, checked of
  `SignatureApprovals` under the fairness of its timeouts alone (the fairness of the other
  components of `MCWaiting` is about steps that are never enabled where the prompts move).
- `SubmitTransaction`: some send that does not wait for a body moves while one can;
  `fetchOnce` aborts what waits for headers, the pauses between attempts are bounded, the
  rest are the next lines of an async function. A body that stalls is under no fairness,
  so `EverySendEnds` leaves such a send out. The node, the blocks, the
  browser and the user owe nothing.
- `Dashboard`: the interval and the delayed refreshes fire, and a node that is asked for ever
  answers in the end (`SF` of `AccountArrives`): without it no balance need ever be shown.
  A single request may stay without its body for ever.

`CallPromise`, `ScanPromise` and the other new modules promise no more than safety: what they
wait for is a user, a node or a page that may be closed.

## 4. Proofs

All theorems hold for every value of the constants, under the named assumptions
of the modules (sentinels are not elements, bounds are naturals, `Parameters`) and
those stated below. What each inductive invariant adds:

`SignatureApprovalsProofs`: `TypeCorrect`, `Consented` (`ApprovedByConsent`),
`NothingWaitsForever` (`OpenHasTimer`), `WindowsStandForRequests`
(`WindowIndexAgrees`) and `Refinement`: the windows, messages, timeouts and
restarts implement `ApprovalPromise`.

`PromptsTypeOK` is not inductive: a page that is asked, busy or loading must have a
request id, which `PagesAreBound` adds. `ApprovedByConsent` rests on
`IdsIdentify`: an id names at most one request, for ever. After a restart the
counter starts over, so the argument is that of the clock: tickets are never of
the future (`TicketsAreOld`), two requests never have the same one
(`TicketsAreUnique`), and every entry, page and answer in flight carries the
ticket of the request it is about (`EntriesMatchTickets`, `PagesMatchTickets`,
`AnswersMatchTickets`). A restart in the model costs at least a tick of the
clock, as a worker cannot be stopped and started within a millisecond; without
this the theorem is false. With it, an answer that settles a request came from a page that showed it,
and a step of the prompts is a step of the promise or a stutter
(`StepImplements`, by cases on the action). For the windows, a request is owed the callback
of at most one window, or stands in the index, and never both (`OpeningIsApart`).

`SiteConnectionsProofs`: `TypeCorrect`, `Agreed` (`OnlyAgreedSites`) and
`NobodyIsLeftWaiting` (`WaitersHaveFlight`).

`OnlyAgreedSites` is about the stored list and the requests that were answered.
It is not inductive, because worker and popup write back lists they read
earlier: `CopiesAgreed` adds that the popup's copy, the copy in every callback
that storage owes, and the site such a callback is about, are within what the
user agreed to. What the user agreed to only grows, so a copy that is moved along
stays good (`CopiesStay`, `CopiesServed`, `CopiesRead`), and the stale copies
that undo a removal (`SiteConnectionsBack`) can never add a site nobody agreed to.
That nobody is left waiting is inductive together with the types; its lemmas say what
a served, added or dropped callback does to the flights that storage owes one.

`SigningRequestsProofs`: `NothingUnauthorised` (`Authorised`) and
`WaitingReached` (`WaitingIsReachable`). A PutBlob may be signed unasked because a
session of its site and address exists when it is looked at, and both can change
before it signs. The invariant says that an address is settled once its request is
asked about or signs (`AskedIsPast`), that one which signs is permitted
(`SigningIsPermitted`) and every session was granted (`SessionsArePermitted`). A drain gives
its own address to the request it serves, so the argument needs that it serves
only queued ones, which is `WaitingIsReachable`. `QuotaHolds` (`SessionBudget`) counts:
the blobs let through and what the session still allows are never more than the
approved sessions brought, since one that is replaced, ended or lost takes its rest
along (`WithinQuota`). `KeyFollowsAccount` (`KeyOfActiveAccount`) and `NothingElseUnlocks`
(`OnlyUserUnlocks`) assume that the worker is not restarted and the popup not closed
halfway (`LivesOn`), as the run does: without that an account change whose lock never
came leaves the key of another. Then the key in memory and the one in session storage
are set and cleared together, and a request that began to restore has nothing to
restore (`KeysAgree`).

`SubmitTransactionProofs`: `AnsweredSendsArePaidOnce` (`PaidOnceIfAnswered`),
`RowsArePaidOnce` (`RowsPaidOnce`), `FailuresLeaveNothing` (`FailedMeansUnsent`) and
`RowsFollowOn` (`RowsLeaveNoGap`). The four share one
invariant. What the node has of a send that was always answered is exactly what the
send holds now, and what is on its way is nothing (`Accounted`); so signing again
after a stale nonce leaves nothing behind. What is never signed again has one nonce
throughout (`OneNonce`). Rows follow one after the other, each with the nonce after the
last (`RowsInOrder`, `RowsLinked`), before which nothing of them is out (`Unborn`).

There too, of the wallet screen, `NamesAreCheckedAgain` (`SentToWhatTheNameSays`): what a
transfer saw of its name has what the name stands for while it is looked up, and its
payee from then on (`NameIsSeen`), though names, selection and form change meanwhile.

`WebSessionProofs`: `IdleTabsAreLocked` (`IdleTabsLock`), `RestoresObeyThePolicy`
(`RestoredWithinPolicy`) and `SessionsStayWhole` (`SessionIsWhole`), assuming that users
are not quicker than the page (`~UserIsQuick`). The first two rest on how the times of a
session, its copies and what a page read of it relate to when the password was entered
and the user acted (`PolicyInv`). The third is about one queue of transactions from
many pages, whose order decides which key stays. A put under the id of a tab is its own,
and is awaited or comes before the tab looks (`PutsComeFirst`), no two puts compete for
one id (`LonePuts`), and a delete that is owed is of an id that no tab has any more
(`DeletesAreOver`); so what is under the id of a session is its key, of its age
(`KeysKept`, `SameAge`), which pruning does not reach. Copies are apart throughout.

`ProviderProofs`: `BridgeImplements`, that the bridge implements
`CallPromise`, also where a prompt is approved after a lock and a queue is worked off
while the wallet is locked and unlocked again. The page is told at the end of a way on
which the decision was taken long before: `WireOf` says, for each place on the wire, what was
done and seen by then.

There too, of the unlock queue: `TimersAreTheQueue` (`TimersFollowQueue`),
`NobodyIsAnsweredTwice` (`AnsweredOnce`) and `TimeoutsHitTheirOwn` (`OnlyOwnTimeout`).
The code looks for a queued request by an id that pages share, and finds the first. That
is the right one for a timeout, since timers are in the order of the queue and the first
fires first. How often a request was answered follows from where it stands
(`RepliesCounted`), and what a drain works on left the queue unanswered and is no other
drain's (`DrainsApart`). The lemmas before say what removing from a sequence without
repetition leaves.

`PagesProofs`: `LinksHandledOnce` (`HandledOnce`), assuming that the clock
skew is positive (`Clock`): a link that was taken and can still be taken is in the
replay store (`TakenIsSeen`). With no skew the entry is gone at the last moment of its request.

There too, `ClaimsInOrder` (`ClaimKeepsOrder`): what a claim under way
knows by its step (`InOrder`) and that a receipt that says ok is of a transaction in a block.

Of the vault, `ActiveExists` (`ActiveAccountExists`), `LoneTabLosesNone`
(`LoneTabKeepsAll`) and `PhrasesAddNoTwins` (`PhraseAddsNoTwin`). The first is inductive
with the type of a record, whose index is good or which is `Empty` (`Records`). The
second needs that one tab whose user waits runs one call at a time (`CallsWait`), which has
read what was added (`AddedAreRead`), and that the screen of a wallet without accounts
tells the truth (`ChoosingEmpty`); both fail with a second tab.

Of the popup, `AddingKeeps` (`AddingKeepsAccounts`), assuming that no account is the
absence of one (`PopupAssumption`). A screen on which an addition would replace the
vault (`BareScreen`) is only gone to while the vault is empty. It stops being so by an
addition alone, whose handler then has stored its account and will leave the screen: its
password is right, since the active account cannot change before (`BareMeansEmpty`).

And `RefusalsMeanBusy` (`RefusedMeansBusy`): a count in the store is never more than the
requests that counted since its minute began, nor a count that was read (`StoreIsBehind`,
`ReadIsBehind`), and a bucket of an isolate never more than those since it was begun
(`SoftIsBehind`). A request counts once, so each one that is counted makes room for one
more (`MoreCounted`, with the cardinalities of finite sets).

`AssetsProofs`: `RowsPaidOnceByPanel` (`ReviewedPaidOnce`): a row of a review not yet
run, or still to be sent by the run under way, is unpaid; there is one review at a time
(`ReviewsApart`, `OneReview`), and of the pending rows one is the first, since their
numbers are naturals (`LeastNatural`, got from the sets below each number instead of by
induction).

There too, `SelectionOwned` (`SelectionIsOwned`), inductive as it stands;
`EndsWhereTheChainBegins` (`EndIsTheEnd`): every cursor a load was given has older
transactions below it (`IsCursor`, `NextIsCursor`), so a page without a cursor is the
last; and `WatchedTokensAreShown` (`WatchedBeforeAreShown`), for loads that end in any
order: a token that is added was not watched before any load there is began
(`WholeStays`), so what a load has read, its list, the cache and the screen keep having what was
watched before it (`LoadsWhole`, `CacheWhole`, `ScreenWhole`). That every watched token is
shown is more than the code keeps (`TokenHoldingsOvertaken`).

And `ScanKeepsItsPromise` (`KeepsScanPromise`), for one pass after the other
(`Passes = {p}`), wherever the page is closed in it: a step of the scan is one of
`ScanPromise` or none. What the cursor passed is read, owed or given up
(`PassedIsKnown`), which every step of the promise keeps (`PromiseKeeps`); that moving
the cursor is such a step needs the same of all a pass has gone over
(`WindowIsKnown`), and taking a gap off the list that what came back was read or given
up (`RecoveredIsKnown`). The cap is stated by ranks: an entry stays if fewer than
`MaxGaps` come before it. The first one dropped comes after none but kept ones, so a
full list stays full (`CapKeepsEnough`).

Only model-checked are the liveness properties (`EverySettles`, `EveryRequestSettles`,
`EveryRequestAnswered`, `EverySendEnds`, `BalanceComesRight`): fairness and `ENABLED` are
beyond this prover.

## 5. Plan

Models that are left: the byte arithmetic of PutBlob sessions and of the auto-lock,
tips, access lists and the amounts with their units (also at the height of the
redenomination) as pure algorithms against reference definitions; the provider
events; sends from the popup; the network the worker uses while it is changed.

Theorems that are left: every invariant and action property a run checks has one. What
is worth more of them: the properties without the assumptions they rest on now, such as
those of `WebSession` for quick users (`UserIsQuick`) where a weaker one holds, and what
of `ScanPromise` is left when passes overlap.

## 6. What the models leave out

- Requests that only read (`boing_accounts`, `boing_chainId`,
  `GET_SESSION_RESTORE`, `GET_SIGN_APPROVAL` outside a prompt) change nothing
  and are not actions of `SigningRequests`; an error reply is `RequestFails`.
- The migrations of a vault and of a session of the first format, which a page
  does when it first reads them. `isSessionExpired` also refuses a clock that went
  backwards; the clock of `WebSession` does not, nor that of `WebSigning`.
- Bytes, texts, amounts, fees and the speed chooser: a message or a
  transaction is the request it belongs to. `BulkPanel` has amounts, where they
  decide what is valid.
- The network the user selects in the extension: a request that
  reads the RPC url, chain id and units at different times is a listed hazard
  without a run. In `TokenHoldings`, `ChainHistory`, `NftScan` and `BulkPanel`
  network and account stay.
- Closing the page of a running wallet send: it leaves the request at the node
  and no page to tell; `stray` covers the former.
- Nodes behind one URL that disagree by more than one block: in
  `SubmitTransaction` a read of the nonce is at most one block old, and the
  verdict on a submission is that of one pool.
- `Dashboard` has one transaction under way; staking, tokens and the faucet are
  jobs like it. `ProviderBridge` has one page of one site, and no events.
- `WebSigning`: storage that is full. `RpcGateway`: other clients and queries, which have
  counters and entries of their own; copies of the store that disagree
  other than by an old count.
- `PopupWallet` for users who wait (`UserWaits`); two additions at once are those of
  two popups, in `WalletVault`. Its sends, tokens and NFTs are those of the
  web wallet.

## 7. Not modelled

Cryptography, encodings and parsers are functions of their input that tests
reach well; networks and QA are queries to contracts and catalogues; the other
screens render. Build scripts and the static site worker keep no state.
