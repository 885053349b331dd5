----------------------------- MODULE WebSigning -----------------------------
(***************************************************************************)
(* The web signing flow of boing.express/connect: pages that an app opens    *)
(* with a request, the store of requests that were handled, the store of    *)
(* the sites the user connected, and the page's steps from the validation   *)
(* of the request to the answer.  The links of one app are modelled, and    *)
(* every link may be opened in more than one page.                          *)
(***************************************************************************)
EXTENDS Naturals, FiniteSets

CONSTANTS Pages, WebAccounts, None,
          Links,   \* "accounts", "message", "transaction", "send": one of each
          IssuedAt, ExpiresAt, Skew, \* of every request; WEB_CLOCK_SKEW_MS
          MaxTime,    \* bound on the clock
          MaxOpened   \* bound: pages opened

VARIABLES now,
          seen,     \* stored: the requests handled, until they are pruned
          sites,    \* stored: None, or the account the site is connected to
          active,   \* stored: the account that a password unlocks
          page,     \* what each page is doing
          opened,   \* pages opened
          accepted, \* how many pages have taken each request as new
          sent,     \* requests whose transaction the node has taken
          told      \* what the app was told of each request

webVars == <<now, seen, sites, active, page, opened, accepted, sent, told>>
stores == <<seen, sites, active>>
outcomes == <<sent, told>>

Blank == [stage |-> "blank"]

LinksInit ==
  /\ now = 0 /\ seen = {} /\ sites = None /\ active \in WebAccounts
  /\ page = [p \in Pages |-> Blank] /\ opened = 0
  /\ accepted = [r \in Links |-> 0]
  /\ sent = {} /\ told = [r \in Links |-> {}]

Later ==
  /\ now < MaxTime /\ now' = now + 1
  /\ UNCHANGED <<stores, page, opened, accepted, outcomes>>

Tell(r, what) == told' = [told EXCEPT ![r] = @ \cup {what}]

(* respond: a page answers once.                                            *)
Answers(p, what) ==
  /\ page' = [page EXCEPT ![p] = [stage |-> "done", req |-> page[p].req]]
  /\ Tell(page[p].req, what)

(* The page is drawn again, and looks up the site, whenever its own state   *)
(* changes; a change of the store by another tab does not draw it again.    *)
Drawn(k) == [k EXCEPT !.connected = sites]

-----------------------------------------------------------------------------
(* The request arrives, from the opener's message or in the fragment.       *)
Receives(p, r) ==
  /\ page[p] = Blank /\ opened < MaxOpened /\ opened' = opened + 1
  /\ \E chain \in BOOLEAN :
       page' = [page EXCEPT ![p] = [stage |-> "received", req |-> r, onChain |-> chain]]
  /\ UNCHANGED <<now, stores, accepted, outcomes>>

(* No request, one that cannot be decoded, or whose origin, referrer or     *)
(* return address do not agree: the page says so and answers nobody.        *)
ReceivesNothing(p) ==
  /\ page[p] = Blank /\ opened < MaxOpened /\ opened' = opened + 1
  /\ page' = [page EXCEPT ![p] = [stage |-> "fatal"]]
  /\ UNCHANGED <<now, stores, accepted, outcomes>>

(* The replay store: what has expired by more than the skew is pruned when  *)
(* the store is read.  (A plausible mistake: without the skew, an entry is  *)
(* gone at the last moment of its request.)                                 *)
Expired == now > ExpiresAt
NotYetValid == IssuedAt > now + Skew
KeptAtExpiry(ids) == {r \in ids : ExpiresAt > now}
Kept(ids) == {r \in ids : ExpiresAt + Skew > now}

(* validateWebRequest: a request that is not valid yet or any more, or for  *)
(* another chain, is answered; a replay is not.                             *)
Refuses(p) ==
  /\ page[p].stage = "received"
  /\ \/ NotYetValid \/ Expired
     \/ page[p].req \notin Kept(seen) /\ ~page[p].onChain
  /\ Answers(p, "error")
  /\ UNCHANGED <<now, stores, opened, accepted, sent>>

FindsReplay(p) ==
  /\ page[p].stage = "received"
  /\ ~NotYetValid /\ ~Expired /\ page[p].req \in Kept(seen)
  /\ page' = [page EXCEPT ![p] = [stage |-> "fatal"]]
  /\ UNCHANGED <<now, stores, opened, accepted, outcomes>>

Accepts(p) ==
  /\ page[p].stage = "received"
  /\ ~NotYetValid /\ ~Expired /\ page[p].req \notin Kept(seen) /\ page[p].onChain
  /\ seen' = Kept(seen) \cup {page[p].req}
  /\ accepted' = [accepted EXCEPT ![page[p].req] = @ + 1]
  /\ \E bad \in {FALSE, page[p].req = "message"} :
       page' = [page EXCEPT ![p] = [stage |-> "open", req |-> page[p].req, account |-> None,
                                    connected |-> sites, tx |-> None, bad |-> bad]]
  /\ UNCHANGED <<now, sites, active, opened, outcomes>>

-----------------------------------------------------------------------------
(* The page that shows the request.                                        *)
Shows(p) == page[p].stage \in {"open", "signing", "sending", "taken"}
Busy(p)  == page[p].stage # "open"
Unsealed(p) == page[p].account # None

NeedsConnection(p) ==
  page[p].req # "accounts" /\ page[p].connected # page[p].account

Unlocks(p) ==
  /\ page[p].stage = "open" /\ ~Unsealed(p)
  /\ page' = [page EXCEPT ![p] = Drawn([@ EXCEPT !.account = active])]
  /\ UNCHANGED <<now, stores, opened, accepted, outcomes>>

(* The wallet locks by itself, whatever the page is doing.                  *)
AutoLocks(p) ==
  /\ Shows(p) /\ Unsealed(p)
  /\ page' = [page EXCEPT ![p] = Drawn([@ EXCEPT !.account = None])]
  /\ UNCHANGED <<now, stores, opened, accepted, outcomes>>

(* The transaction is decoded, with its nonce and its tip, for review; or   *)
(* it cannot be.  What is shown stays when the account changes.             *)
Prepares(p) ==
  /\ Shows(p) /\ Unsealed(p) /\ ~NeedsConnection(p)
  /\ page[p].req \in {"transaction", "send"} /\ page[p].tx # page[p].account
  /\ \E ok \in BOOLEAN :
       page' = [page EXCEPT ![p] = Drawn(IF ok THEN [@ EXCEPT !.tx = page[p].account]
                                         ELSE [@ EXCEPT !.bad = TRUE])]
  /\ UNCHANGED <<now, stores, opened, accepted, outcomes>>

(* messageToBytes and looksLikeTransactionPreimage, or the prepared         *)
(* transaction and a tip that is valid.                                     *)
Ready(p) ==
  CASE page[p].req = "accounts" -> TRUE
    [] page[p].req = "message"  -> ~page[p].bad
    [] OTHER -> page[p].tx # None /\ ~page[p].bad

MayApprove(p) ==
  page[p].stage = "open" /\ Unsealed(p) /\ ~NeedsConnection(p) /\ Ready(p)

ApproveTooLate(p) ==
  /\ MayApprove(p) /\ Expired /\ Answers(p, "error")
  /\ UNCHANGED <<now, stores, opened, accepted, sent>>

Connects(p) ==
  /\ MayApprove(p) /\ ~Expired /\ page[p].req = "accounts"
  /\ sites' = page[p].account
  /\ Answers(p, "result")
  /\ UNCHANGED <<now, seen, active, opened, accepted, sent>>

Approve(p) ==
  /\ MayApprove(p) /\ ~Expired /\ page[p].req # "accounts"
  /\ page' = [page EXCEPT ![p] = Drawn([@ EXCEPT !.stage = "signing"])]
  /\ UNCHANGED <<now, stores, opened, accepted, outcomes>>

(* signMessage, buildSignedTransactionHex: signed, or it fails.             *)
Signs(p) ==
  /\ page[p].stage = "signing" /\ page[p].req \in {"message", "transaction"}
  /\ Answers(p, "result")
  /\ UNCHANGED <<now, stores, opened, accepted, sent>>

SigningFails(p) ==
  /\ page[p].stage = "signing" /\ Answers(p, "error")
  /\ UNCHANGED <<now, stores, opened, accepted, sent>>

SignsToSend(p) ==
  /\ page[p].stage = "signing" /\ page[p].req = "send"
  /\ page' = [page EXCEPT ![p] = Drawn([@ EXCEPT !.stage = "sending"])]
  /\ UNCHANGED <<now, stores, opened, accepted, outcomes>>

(* buildAndSubmit or submitTransaction: the node takes the transaction, and *)
(* the page learns it or does not; or it does not take it.  A page that was *)
(* answered for or closed meanwhile is not waiting any more.                *)
Takes(p) ==
  /\ page[p].stage = "sending"
  /\ sent' = sent \cup {page[p].req}
  /\ page' = [page EXCEPT ![p].stage = "taken"]
  /\ UNCHANGED <<now, stores, opened, accepted, told>>

SubmitAnswered(p) ==
  /\ page[p].stage = "taken" /\ \E what \in {"result", "error"} : Answers(p, what)
  /\ UNCHANGED <<now, stores, opened, accepted, sent>>

SubmitFails(p) ==
  /\ page[p].stage = "sending" /\ Answers(p, "error")
  /\ UNCHANGED <<now, stores, opened, accepted, sent>>

Unreadable(p) == page[p].bad /\ page[p].req # "message"

(* Reject, or Cancel on the page that asks for the password.                *)
Reject(p) ==
  /\ Shows(p)
  /\ \/ ~Unsealed(p)
     \/ ~NeedsConnection(p) /\ ~Busy(p) /\ ~Unreadable(p)
  /\ Answers(p, "rejected")
  /\ UNCHANGED <<now, stores, opened, accepted, sent>>

(* Close, where the site is not connected or the transaction not readable.  *)
Refuse(p) ==
  /\ Shows(p) /\ Unsealed(p)
  /\ NeedsConnection(p) \/ Unreadable(p)
  /\ Answers(p, "error")
  /\ UNCHANGED <<now, stores, opened, accepted, sent>>

(* The window is closed, which an app that waits takes for a rejection.     *)
Closes(p) ==
  /\ page[p] # Blank /\ page' = [page EXCEPT ![p] = Blank]
  /\ IF page[p].stage \in {"done", "fatal"} THEN UNCHANGED told ELSE Tell(page[p].req, "rejected")
  /\ UNCHANGED <<now, stores, opened, accepted, sent>>

-----------------------------------------------------------------------------
(* Other tabs.                                                             *)
SwitchesAccount ==
  /\ active' \in WebAccounts \ {active}
  /\ UNCHANGED <<now, seen, sites, page, opened, accepted, outcomes>>

(* ConnectedSitesPanel.                                                     *)
Disconnects ==
  /\ sites # None /\ sites' = None
  /\ UNCHANGED <<now, seen, active, page, opened, accepted, outcomes>>

-----------------------------------------------------------------------------
LinksNext ==
  \/ Later
  \/ \E p \in Pages, r \in Links : Receives(p, r)
  \/ \E p \in Pages : ReceivesNothing(p) \/ Refuses(p) \/ FindsReplay(p) \/ Accepts(p)
  \/ \E p \in Pages : Unlocks(p) \/ AutoLocks(p) \/ Prepares(p)
  \/ \E p \in Pages : ApproveTooLate(p) \/ Connects(p) \/ Approve(p)
  \/ \E p \in Pages : Signs(p) \/ SigningFails(p) \/ SignsToSend(p)
  \/ \E p \in Pages : Takes(p) \/ SubmitAnswered(p) \/ SubmitFails(p)
  \/ \E p \in Pages : Reject(p) \/ Refuse(p) \/ Closes(p)
  \/ SwitchesAccount \/ Disconnects

LinksSpec == LinksInit /\ [][LinksNext]_webVars

-----------------------------------------------------------------------------
(* A request is taken as new by one page, ever: no page misses an entry     *)
(* that was pruned, for the request has expired by then                     *)
(* (createStorageReplayStore, validateWebRequest).                          *)
HandledOnce == \A r \in Links : accepted[r] <= 1
=============================================================================
