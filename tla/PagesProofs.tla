---------------------------- MODULE PagesProofs -----------------------------
(***************************************************************************)
(* The pages of the wallet: a signing link is taken as new by one page     *)
(* only, a claim of a name keeps its order, the vault and the popup keep   *)
(* what was added as far as they do, and the gateway they ask refuses only *)
(* a client that is busy.                                                  *)
(***************************************************************************)
EXTENDS WebSigning, Names, WalletVault, PopupWallet, RpcGateway, FiniteSetTheorems, TLAPS

-----------------------------------------------------------------------------
(***************************************************************************)
(* Signing links, for every set of pages and links, every life of a link   *)
(* and every positive clock skew.                                          *)
(***************************************************************************)
Clock == ExpiresAt \in Nat /\ Skew \in Nat /\ Skew > 0

CountsAreNumbers == now \in Nat /\ accepted \in [Links -> Nat]

(* What was taken is in the replay store as long as the link can be taken.  *)
TakenIsSeen == \A r \in Links : accepted[r] = 0 \/ r \in seen \/ Expired

LinksInv == CountsAreNumbers /\ TakenIsSeen /\ HandledOnce

(* Reading the store drops no link that can still be taken.                 *)
LEMMA KeptWhileValid ==
  ASSUME Clock, now \in Nat, ~Expired
  PROVE  Kept(seen) = seen
BY DEF Clock, Expired, Kept

(* Nothing but the clock and the acceptance of a link touches these.        *)
Untouched == UNCHANGED <<now, seen, accepted>>

LEMMA OthersLeaveStore ==
  ASSUME LinksNext
  PROVE  Untouched \/ Later \/ \E p \in Pages : Accepts(p)
<1>1. CASE Later
  BY <1>1
<1>2. CASE \E p \in Pages, r \in Links : Receives(p, r)
  BY <1>2 DEF Receives, Untouched, stores, outcomes
<1>3. CASE \E p \in Pages : ReceivesNothing(p) \/ Refuses(p) \/ FindsReplay(p) \/ Accepts(p)
  BY <1>3 DEF ReceivesNothing, Refuses, FindsReplay, Untouched, stores, outcomes
<1>4. CASE \E p \in Pages : Unlocks(p) \/ AutoLocks(p) \/ Prepares(p)
  BY <1>4 DEF Unlocks, AutoLocks, Prepares, Untouched, stores, outcomes
<1>5. CASE \E p \in Pages : ApproveTooLate(p) \/ Connects(p) \/ Approve(p)
  BY <1>5 DEF ApproveTooLate, Connects, Approve, Untouched, stores, outcomes
<1>6. CASE \E p \in Pages : Signs(p) \/ SigningFails(p) \/ SignsToSend(p)
  BY <1>6 DEF Signs, SigningFails, SignsToSend, Untouched, stores, outcomes
<1>7. CASE \E p \in Pages : Takes(p) \/ SubmitAnswered(p) \/ SubmitFails(p)
  BY <1>7 DEF Takes, SubmitAnswered, SubmitFails, Untouched, stores, outcomes
<1>8. CASE \E p \in Pages : Reject(p) \/ Refuse(p) \/ Closes(p)
  BY <1>8 DEF Reject, Refuse, Closes, Untouched, stores, outcomes
<1>9. CASE SwitchesAccount \/ Disconnects
  BY <1>9 DEF SwitchesAccount, Disconnects, Untouched, outcomes
<1> QED
  BY <1>1, <1>2, <1>3, <1>4, <1>5, <1>6, <1>7, <1>8, <1>9 DEF LinksNext

(* The step that takes a link: while the link is valid the store has every  *)
(* link that was taken, so this one was not.                                *)
LEMMA AcceptsKeepsInv ==
  ASSUME Clock, LinksInv, NEW p \in Pages, Accepts(p)
  PROVE  LinksInv'
<1> DEFINE q == page[p].req
<1>1. ~Expired /\ now \in Nat /\ Kept(seen) = seen
  BY KeptWhileValid DEF Accepts, LinksInv, CountsAreNumbers
<1>2. /\ seen' = seen \cup {q} /\ q \notin seen
      /\ accepted' = [accepted EXCEPT ![q] = @ + 1]
      /\ now' = now
  BY <1>1 DEF Accepts
<1>3. \A r \in Links : accepted[r] = 0 \/ r \in seen
  BY <1>1 DEF LinksInv, TakenIsSeen
<1>4. accepted \in [Links -> Nat]
  BY DEF LinksInv, CountsAreNumbers
<1>5. \A r \in Links : accepted'[r] = IF r = q THEN accepted[r] + 1 ELSE accepted[r]
  BY <1>2, <1>4
<1>6. CountsAreNumbers'
  <2>1. accepted' = [r \in Links |-> IF r = q THEN accepted[r] + 1 ELSE accepted[r]]
    BY <1>2, <1>4, <1>5
  <2>2. accepted' \in [Links -> Nat]
    BY <2>1, <1>4
  <2> QED
    BY <1>1, <1>2, <2>2 DEF CountsAreNumbers
<1>7. TakenIsSeen'
  BY <1>2, <1>3, <1>5 DEF TakenIsSeen
<1>8. HandledOnce'
  BY <1>2, <1>3, <1>4, <1>5 DEF HandledOnce, LinksInv
<1> QED
  BY <1>6, <1>7, <1>8 DEF LinksInv

LEMMA LinksKeepInv ==
  ASSUME Clock, LinksInv, [LinksNext]_webVars
  PROVE  LinksInv'
<1>1. CASE Untouched \/ UNCHANGED webVars
  BY <1>1 DEF Untouched, webVars, LinksInv, CountsAreNumbers, TakenIsSeen, HandledOnce, Expired
<1>2. CASE Later
  <2>1. now' = now + 1 /\ UNCHANGED <<seen, accepted>>
    BY <1>2 DEF Later, stores, outcomes
  <2>2. Expired => Expired'
    BY <2>1 DEF Expired, Clock, LinksInv, CountsAreNumbers
  <2> QED
    BY <2>1, <2>2 DEF LinksInv, CountsAreNumbers, TakenIsSeen, HandledOnce
<1>3. CASE \E p \in Pages : Accepts(p)
  BY <1>3, AcceptsKeepsInv
<1> QED
  BY <1>1, <1>2, <1>3, OthersLeaveStore

(* However often a link is opened, reloaded and pruned from the store, one   *)
(* page at most goes on to show it: validateWebRequest and                  *)
(* createStorageReplayStore together.                                       *)
THEOREM LinksHandledOnce ==
  ASSUME Clock
  PROVE  LinksSpec => []HandledOnce
<1>1. LinksInit => LinksInv
  BY DEF LinksInit, LinksInv, CountsAreNumbers, TakenIsSeen, HandledOnce
<1>2. LinksInv /\ [LinksNext]_webVars => LinksInv'
  BY LinksKeepInv
<1>3. LinksInv => HandledOnce
  BY DEF LinksInv
<1> QED
  BY <1>1, <1>2, <1>3, PTL DEF LinksSpec

-----------------------------------------------------------------------------
(***************************************************************************)
(* Claims, for every set of names, accounts and claims: no registration is *)
(* sent before its commitment is in a block, and no claim is done before   *)
(* its registration succeeded.                                             *)
(*                                                                         *)
(* The property speaks of the pool and of claims that are done.  In between*)
(* is what a claim under way knows: it goes on after a receipt only, and a *)
(* receipt that says ok is of a transaction that is in a block (InOrder).  *)
(***************************************************************************)
Working == {"checking", "send", "wait", "lost"}
TxKinds   == {"commit", "register", "primary"}
Fields  == {"step", "tx", "name", "by", "from", "here", "receipt", "tries"}

(* What the record of a claim is made of.                                   *)
Shaped(k) == k.step \in Working => DOMAIN k = Fields /\ k.tx \in TxKinds

(* The receipt that a claim waits for has come.                             *)
Receipt(k) == k.step = "wait" /\ k.receipt = "ok"

(* What a record says of the chain: that the commitment is in a block, and  *)
(* that the registration succeeded.                                        *)
SaysCommitted(k)  == k.step \in Working /\ (k.tx # "commit" \/ Receipt(k))
SaysRegistered(k) ==
  \/ k.step = "done"
  \/ k.step \in Working /\ (k.tx = "primary" \/ (k.tx = "register" /\ Receipt(k)))

ClaimsShaped == claim = [c \in Claims |-> claim[c]] /\ \A c \in Claims : Shaped(claim[c])

InOrder ==
  \A c \in Claims : /\ SaysCommitted(claim[c]) => c \in commits
                    /\ SaysRegistered(claim[c]) => c \in registered

PoolInOrder == \A t \in pool : t.kind = "register" => t.claim \in commits

NamesInv == ClaimsShaped /\ InOrder /\ PoolInOrder

-----------------------------------------------------------------------------
(* One claim gets another record, of which what it says is true.            *)
LEMMA ClaimUpdated ==
  ASSUME ClaimsShaped, InOrder, NEW c \in Claims, NEW k,
         claim' = [claim EXCEPT ![c] = k], UNCHANGED <<commits, registered>>,
         Shaped(k),
         SaysCommitted(k) => c \in commits,
         SaysRegistered(k) => c \in registered
  PROVE  ClaimsShaped' /\ InOrder'
<1>1. claim' = [d \in Claims |-> IF d = c THEN k ELSE claim[d]]
  BY DEF ClaimsShaped
<1>2. \A d \in Claims : claim'[d] = IF d = c THEN k ELSE claim[d]
  BY <1>1
<1>3. claim' = [d \in Claims |-> claim'[d]]
  BY <1>1, <1>2
<1>4. \A d \in Claims : Shaped(claim'[d])
  BY <1>2 DEF ClaimsShaped
<1>5. InOrder'
  BY <1>2 DEF InOrder
<1> QED
  BY <1>3, <1>4, <1>5 DEF ClaimsShaped

(* The claims stay, and the chain keeps what it has.                        *)
LEMMA ClaimsStay ==
  ASSUME NamesInv, UNCHANGED <<claim, commits, registered>>
  PROVE  ClaimsShaped' /\ InOrder'
BY DEF NamesInv, ClaimsShaped, InOrder

(* The pool gets no registration.                                           *)
LEMMA PoolStays ==
  ASSUME NamesInv, UNCHANGED <<commits>>,
         \A t \in pool' : t \in pool \/ t.kind # "register"
  PROVE  PoolInOrder'
BY DEF NamesInv, PoolInOrder

(* A claim that ends: it is done only if it was registered.                 *)
LEMMA EndsInOrder ==
  ASSUME NamesInv, NEW c \in Claims, NEW done \in BOOLEAN, Ends(c, done), UNCHANGED <<pool>>,
         done => c \in registered
  PROVE  NamesInv'
<1> DEFINE k == [step |-> IF done THEN "done" ELSE "failed",
                 name |-> claim[c].name, by |-> claim[c].by]
<1>1. claim' = [claim EXCEPT ![c] = k] /\ UNCHANGED <<commits, registered>>
  BY DEF Ends, onNameChain
<1>2. k.step = (IF done THEN "done" ELSE "failed")
  OBVIOUS
<1>3. Shaped(k) /\ ~SaysCommitted(k) /\ (SaysRegistered(k) => c \in registered)
  BY <1>2 DEF Shaped, SaysCommitted, SaysRegistered, Working
<1>4. ClaimsShaped' /\ InOrder'
  BY <1>1, <1>3, ClaimUpdated DEF NamesInv
<1>5. PoolInOrder'
  BY <1>1, PoolStays
<1> QED
  BY <1>4, <1>5 DEF NamesInv

-----------------------------------------------------------------------------
(* A block includes a transaction.                                          *)
LEMMA IncludedInOrder ==
  ASSUME NamesInv, NEW t \in pool, Included(t)
  PROVE  NamesInv'
<1>1. commits \subseteq commits' /\ registered \subseteq registered'
  BY DEF Included
<1>2. PoolInOrder'
  BY <1>1 DEF Included, NamesInv, PoolInOrder
<1>3. CASE t.claim # Nothing /\ Waits(t.claim, t.kind) /\ t.claim \in Claims
  <2> DEFINE c == t.claim
             k == [claim[c] EXCEPT !.receipt = IF Accepted(t) THEN "ok" ELSE "failed"]
  <2>1. claim' = [d \in Claims |-> IF d = c THEN k ELSE claim[d]]
    BY <1>3 DEF Included, NamesInv, ClaimsShaped
  <2>2. /\ Shaped(claim[c]) /\ claim[c].step = "wait" /\ claim[c].tx = t.kind
        /\ SaysCommitted(claim[c]) => c \in commits
        /\ SaysRegistered(claim[c]) => c \in registered
    BY <1>3 DEF Waits, NamesInv, ClaimsShaped, InOrder
  <2>3. DOMAIN claim[c] = Fields /\ claim[c].tx \in TxKinds
    BY <2>2 DEF Shaped, Working
  <2>4. /\ k.step = "wait" /\ k.tx = t.kind /\ DOMAIN k = Fields
        /\ k.receipt = IF Accepted(t) THEN "ok" ELSE "failed"
    BY <2>2, <2>3 DEF Fields
  <2>5. Shaped(k)
    BY <2>2, <2>3, <2>4 DEF Shaped
  <2>6. SaysCommitted(k) => c \in commits'
    BY <1>1, <2>2, <2>4 DEF SaysCommitted, Receipt, Included, Working
  <2>7. SaysRegistered(k) => c \in registered'
    BY <1>1, <2>2, <2>4 DEF SaysRegistered, Receipt, Included, Working
  <2>8. \A d \in Claims : claim'[d] = IF d = c THEN k ELSE claim[d]
    BY <2>1
  <2>9. ClaimsShaped'
    <3>1. claim' = [d \in Claims |-> claim'[d]]
      BY <2>1, <2>8
    <3>2. \A d \in Claims : Shaped(claim'[d])
      BY <2>5, <2>8 DEF NamesInv, ClaimsShaped
    <3> QED
      BY <3>1, <3>2 DEF ClaimsShaped
  <2>10. InOrder'
    BY <1>1, <2>6, <2>7, <2>8 DEF NamesInv, InOrder
  <2> QED
    BY <1>2, <2>9, <2>10 DEF NamesInv
<1>4. CASE ~(t.claim # Nothing /\ Waits(t.claim, t.kind) /\ t.claim \in Claims)
  <2>1. claim' = claim
    BY <1>4 DEF Included, NamesInv, ClaimsShaped
  <2>2. ClaimsShaped' /\ InOrder'
    BY <1>1, <2>1 DEF NamesInv, ClaimsShaped, InOrder
  <2> QED
    BY <1>2, <2>2 DEF NamesInv
<1> QED
  BY <1>3, <1>4

-----------------------------------------------------------------------------
(* The steps of a claim.                                                    *)
LEMMA BeginsInOrder ==
  ASSUME NamesInv, NEW c \in Claims, NEW n, NEW from, NEW first \in {"checking", "send"},
         Begins(c, n, from, first), UNCHANGED <<pool, commits, registered>>
  PROVE  NamesInv'
<1> DEFINE k == [step |-> first, tx |-> "commit", name |-> n, by |-> me, from |-> from,
                 here |-> TRUE, receipt |-> "none", tries |-> 0]
<1>1. claim' = [claim EXCEPT ![c] = k]
  BY DEF Begins
<1>2. /\ Shaped(k) /\ ~SaysCommitted(k) /\ ~SaysRegistered(k)
  BY DEF Shaped, SaysCommitted, SaysRegistered, Receipt, Working, TxKinds, Fields
<1>3. ClaimsShaped' /\ InOrder'
  BY <1>1, <1>2, ClaimUpdated DEF NamesInv
<1>4. PoolInOrder'
  BY PoolStays
<1> QED
  BY <1>3, <1>4 DEF NamesInv

(* The page is left: the claims go on, and know it.                         *)
LEMMA LeftInOrder ==
  ASSUME NamesInv, claim' = [c \in Claims |-> Left(claim[c])],
         UNCHANGED <<pool, commits, registered>>
  PROVE  NamesInv'
<1>1. \A c \in Claims : claim'[c] = Left(claim[c])
  OBVIOUS
<1>2. ASSUME NEW c \in Claims
      PROVE  /\ Shaped(claim'[c])
             /\ SaysCommitted(claim'[c]) => SaysCommitted(claim[c])
             /\ SaysRegistered(claim'[c]) => SaysRegistered(claim[c])
  <2>1. CASE claim[c].step \in Working
    <3>1. DOMAIN claim[c] = Fields /\ claim[c].tx \in TxKinds
      BY <2>1 DEF NamesInv, ClaimsShaped, Shaped
    <3>2. claim'[c] = [claim[c] EXCEPT !.here = FALSE]
      BY <1>1, <3>1 DEF Left, Fields
    <3>3. /\ claim'[c].step = claim[c].step /\ claim'[c].tx = claim[c].tx
          /\ claim'[c].receipt = claim[c].receipt /\ DOMAIN claim'[c] = Fields
      BY <3>1, <3>2 DEF Fields
    <3> QED
      BY <3>1, <3>3 DEF Shaped, SaysCommitted, SaysRegistered, Receipt
  <2>2. CASE claim[c].step \notin Working
    <3>1. claim'[c].step = claim[c].step
      BY <1>1 DEF Left
    <3> QED
      BY <2>2, <3>1 DEF Shaped, SaysCommitted, SaysRegistered
  <2> QED
    BY <2>1, <2>2
<1>3. ClaimsShaped'
  BY <1>2 DEF ClaimsShaped
<1>4. InOrder'
  BY <1>2 DEF NamesInv, InOrder
<1>5. PoolInOrder'
  BY PoolStays
<1> QED
  BY <1>3, <1>4, <1>5 DEF NamesInv

(* What is known of a claim under way.                                      *)
LEMMA WorkingKnows ==
  ASSUME NamesInv, NEW c \in Claims, claim[c].step \in Working
  PROVE  /\ DOMAIN claim[c] = Fields
         /\ claim[c].tx \in TxKinds
         /\ claim[c].tx # "commit" \/ Receipt(claim[c]) => c \in commits
         /\ claim[c].tx = "primary" \/ (claim[c].tx = "register" /\ Receipt(claim[c]))
              => c \in registered
BY DEF NamesInv, ClaimsShaped, Shaped, InOrder, SaysCommitted, SaysRegistered

LEMMA SendsInOrder ==
  ASSUME NamesInv, NEW c \in Claims, Sends(c) \/ AnswerLost(c)
  PROVE  NamesInv'
<1> DEFINE k == [claim[c] EXCEPT !.step = "wait", !.receipt = "none"]
           l == [claim[c] EXCEPT !.step = "lost"]
<1>1. claim[c].step = "send" /\ UNCHANGED <<commits, registered>>
  BY DEF Sends, AnswerLost, onNameChain
<1>2. /\ DOMAIN claim[c] = Fields /\ claim[c].tx \in TxKinds
      /\ claim[c].tx # "commit" => c \in commits
      /\ claim[c].tx = "primary" => c \in registered
  BY <1>1, WorkingKnows DEF Working
<1>3. PoolInOrder'
  <2>1. pool' = pool \cup {Tx(claim[c].tx, c, claim[c].name, claim[c].by, claim[c].by)}
    BY DEF Sends, AnswerLost
  <2>2. \A t \in pool' : t \in pool \/ (t.kind = claim[c].tx /\ t.claim = c)
    BY <2>1 DEF Tx
  <2> QED
    BY <1>1, <1>2, <2>2 DEF NamesInv, PoolInOrder
<1>4. CASE Sends(c)
  <2>1. claim' = [claim EXCEPT ![c] = k]
    BY <1>4 DEF Sends, NamesInv, ClaimsShaped
  <2>2. k.step = "wait" /\ k.receipt = "none" /\ k.tx = claim[c].tx /\ DOMAIN k = Fields
    BY <1>2 DEF Fields
  <2>3. /\ Shaped(k)
        /\ SaysCommitted(k) => c \in commits
        /\ SaysRegistered(k) => c \in registered
    BY <1>2, <2>2 DEF Shaped, SaysCommitted, SaysRegistered, Receipt
  <2> QED
    BY <1>1, <1>3, <2>1, <2>3, ClaimUpdated DEF NamesInv
<1>5. CASE AnswerLost(c)
  <2>1. claim' = [claim EXCEPT ![c] = l]
    BY <1>5 DEF AnswerLost, NamesInv, ClaimsShaped
  <2>2. l.step = "lost" /\ l.tx = claim[c].tx /\ DOMAIN l = Fields
    BY <1>2 DEF Fields
  <2>3. /\ Shaped(l)
        /\ SaysCommitted(l) => c \in commits
        /\ SaysRegistered(l) => c \in registered
    BY <1>2, <2>2 DEF Shaped, SaysCommitted, SaysRegistered, Receipt
  <2> QED
    BY <1>1, <1>3, <2>1, <2>3, ClaimUpdated DEF NamesInv
<1> QED
  BY <1>4, <1>5

(* A claim that goes on without a transaction: the name is free, or a        *)
(* registration came too early.                                             *)
LEMMA GoesOnInOrder ==
  ASSUME NamesInv, NEW c \in Claims, NameIsFree(c) \/ TooNew(c)
  PROVE  NamesInv'
<1> DEFINE k == [claim[c] EXCEPT !.step = "send"]
           l == [claim[c] EXCEPT !.tries = @ + 1]
<1>1. claim[c].step \in {"checking", "send"} /\ UNCHANGED <<pool, commits, registered>>
  BY DEF NameIsFree, TooNew, onNameChain
<1>2. /\ DOMAIN claim[c] = Fields /\ claim[c].tx \in TxKinds
      /\ claim[c].tx # "commit" => c \in commits
      /\ claim[c].tx = "primary" => c \in registered
  BY <1>1, WorkingKnows DEF Working
<1>3. PoolInOrder'
  BY <1>1, PoolStays
<1>4. CASE NameIsFree(c)
  <2>1. claim' = [claim EXCEPT ![c] = k]
    BY <1>4 DEF NameIsFree, NamesInv, ClaimsShaped
  <2>2. k.step = "send" /\ k.tx = claim[c].tx /\ DOMAIN k = Fields
    BY <1>2 DEF Fields
  <2>3. /\ Shaped(k)
        /\ SaysCommitted(k) => c \in commits
        /\ SaysRegistered(k) => c \in registered
    BY <1>2, <2>2 DEF Shaped, SaysCommitted, SaysRegistered, Receipt
  <2> QED
    BY <1>1, <1>3, <2>1, <2>3, ClaimUpdated DEF NamesInv
<1>5. CASE TooNew(c)
  <2>1. claim' = [claim EXCEPT ![c] = l]
    BY <1>5 DEF TooNew, NamesInv, ClaimsShaped
  <2>2. l.step = "send" /\ l.tx = claim[c].tx /\ DOMAIN l = Fields
    BY <1>2, <1>5 DEF Fields, TooNew
  <2>3. /\ Shaped(l)
        /\ SaysCommitted(l) => c \in commits
        /\ SaysRegistered(l) => c \in registered
    BY <1>2, <2>2 DEF Shaped, SaysCommitted, SaysRegistered, Receipt
  <2> QED
    BY <1>1, <1>3, <2>1, <2>3, ClaimUpdated DEF NamesInv
<1> QED
  BY <1>4, <1>5

(* The receipt of a commitment, then that of a registration: what the next   *)
(* transaction rests on is in a block.                                      *)
LEMMA ReceiptInOrder ==
  ASSUME NamesInv, NEW c \in Claims, ReceiptFound(c)
  PROVE  NamesInv'
<1> DEFINE k == [claim[c] EXCEPT !.step = "send", !.tx = Next3[@], !.receipt = "none"]
<1>1. /\ Receipt(claim[c]) /\ claim[c].step = "wait" /\ claim[c].tx # "primary"
      /\ UNCHANGED <<pool, commits, registered>>
  BY DEF ReceiptFound, Receipt, onNameChain
<1>2. /\ DOMAIN claim[c] = Fields /\ claim[c].tx \in {"commit", "register"}
      /\ c \in commits
      /\ claim[c].tx = "register" => c \in registered
  BY <1>1, WorkingKnows DEF Working, TxKinds
<1>3. claim' = [claim EXCEPT ![c] = k]
  BY DEF ReceiptFound, NamesInv, ClaimsShaped
<1>4. k.step = "send" /\ k.tx = Next3[claim[c].tx] /\ DOMAIN k = Fields
  BY <1>2 DEF Fields
<1>5. k.tx = IF claim[c].tx = "commit" THEN "register" ELSE "primary"
  BY <1>2, <1>4 DEF Next3
<1>6. /\ Shaped(k)
      /\ SaysCommitted(k) => c \in commits
      /\ SaysRegistered(k) => c \in registered
  BY <1>2, <1>4, <1>5 DEF Shaped, SaysCommitted, SaysRegistered, Receipt, TxKinds
<1>7. ClaimsShaped' /\ InOrder'
  BY <1>1, <1>3, <1>6, ClaimUpdated DEF NamesInv
<1>8. PoolInOrder'
  BY <1>1, PoolStays
<1> QED
  BY <1>7, <1>8 DEF NamesInv

LEMMA LastReceiptInOrder ==
  ASSUME NamesInv, NEW c \in Claims, LastReceiptFound(c)
  PROVE  NamesInv'
<1>1. Receipt(claim[c]) /\ claim[c].tx \in {"register", "primary"} /\ Ends(c, TRUE)
  BY DEF LastReceiptFound, Receipt
<1>2. c \in registered
  BY <1>1, WorkingKnows DEF Receipt, Working
<1>3. UNCHANGED pool
  BY <1>1 DEF Ends
<1> QED
  BY <1>1, <1>2, <1>3, EndsInOrder

LEMMA FailuresInOrder ==
  ASSUME NamesInv, NEW c \in Claims,
         CheckFails(c) \/ SendFails(c) \/ LostFails(c) \/ ReceiptFails(c)
  PROVE  NamesInv'
<1>1. Ends(c, FALSE)
  BY DEF CheckFails, SendFails, LostFails, ReceiptFails
<1>2. UNCHANGED pool
  BY <1>1 DEF Ends
<1> QED
  BY <1>1, <1>2, EndsInOrder

LEMMA OwnedInOrder ==
  ASSUME NamesInv, NEW c \in Claims, NameIsMine(c)
  PROVE  NamesInv'
<1> DEFINE k == [step |-> "owned", name |-> claim[c].name, by |-> claim[c].by]
<1>1. claim' = [claim EXCEPT ![c] = k] /\ UNCHANGED <<pool, commits, registered>>
  BY DEF NameIsMine, onNameChain, NamesInv, ClaimsShaped
<1>2. Shaped(k) /\ ~SaysCommitted(k) /\ ~SaysRegistered(k)
  BY DEF Shaped, SaysCommitted, SaysRegistered, Working
<1>3. ClaimsShaped' /\ InOrder'
  BY <1>1, <1>2, ClaimUpdated DEF NamesInv
<1>4. PoolInOrder'
  BY <1>1, PoolStays
<1> QED
  BY <1>3, <1>4 DEF NamesInv

-----------------------------------------------------------------------------
LEMMA OpensInOrder ==
  ASSUME NamesInv, NEW a, NEW stored, Opens(a, stored)
  PROVE  NamesInv'
BY LeftInOrder DEF Opens, onNameChain

(* The steps that move no claim and send no registration.                   *)
LEMMA OthersInOrder ==
  ASSUME NamesInv, UNCHANGED <<claim, commits, registered>>,
         \A t \in pool' : t \in pool \/ t.kind # "register"
  PROVE  NamesInv'
BY ClaimsStay, PoolStays DEF NamesInv

LEMMA NextInOrder ==
  ASSUME NamesInv, [NamesNext]_nameVars
  PROVE  NamesInv'
<1>1. ASSUME NEW t \in pool, Included(t)
      PROVE  NamesInv'
  BY <1>1, IncludedInOrder
<1>2. ASSUME NEW n \in Names, TakenElsewhere(n)
      PROVE  NamesInv'
  <2>1. \A t \in pool' : t.kind = "grab"
    BY <1>2 DEF TakenElsewhere, Tx
  <2> QED
    BY <1>2, <2>1, OthersInOrder DEF TakenElsewhere, onNameChain
<1>3. CASE FundsChange \/ Cancel \/ Reloads \/ UNCHANGED nameVars
  BY <1>3, OthersInOrder DEF FundsChange, Cancel, Reloads, nameVars, onNameChain
<1>4. ASSUME NEW n \in Normalized, Types(n)
      PROVE  NamesInv'
  BY <1>4, OthersInOrder DEF Types, onNameChain
<1>5. ASSUME NEW l \in lookups, LookupArrives(l) \/ LookupFails(l)
      PROVE  NamesInv'
  BY <1>5, OthersInOrder DEF LookupArrives, LookupFails, onNameChain
<1>6. CASE Reserve \/ Skip \/ \E a \in Addresses : SwitchAccount(a)
  BY <1>6, OpensInOrder DEF Reserve, Skip, SwitchAccount
<1>7. CASE AddAccount
  BY <1>7, LeftInOrder DEF AddAccount, onNameChain
<1>8. CASE BannerRuns
  <2>1. PICK c \in Claims : Begins(c, banner.entry.name, "banner", "checking")
    BY <1>8 DEF BannerRuns
  <2> QED
    BY <1>8, <2>1, BeginsInOrder DEF BannerRuns, onNameChain
<1>9. ASSUME NEW c \in Claims, PanelClaims(c)
      PROVE  NamesInv'
  BY <1>9, BeginsInOrder DEF PanelClaims, onNameChain
<1>10. ASSUME NEW c \in Claims,
              \/ NameIsMine(c) \/ NameIsFree(c) \/ CheckFails(c)
              \/ Sends(c) \/ SendFails(c) \/ AnswerLost(c) \/ LostFails(c) \/ TooNew(c)
              \/ ReceiptFound(c) \/ LastReceiptFound(c) \/ ReceiptFails(c)
       PROVE  NamesInv'
  BY <1>10, OwnedInOrder, GoesOnInOrder, FailuresInOrder, SendsInOrder, ReceiptInOrder,
     LastReceiptInOrder
<1>11. ASSUME NEW r \in reads, ReloadArrives(r)
       PROVE  NamesInv'
  BY <1>11, OthersInOrder DEF ReloadArrives, onNameChain
<1>12. ASSUME NEW kind \in ActKinds, NEW n \in listed, NEW a \in Addresses, Acts(kind, n, a)
       PROVE  NamesInv'
  <2>1. \A t \in pool' : t \in pool \/ t.kind # "register"
    BY <1>12 DEF Acts, Tx, ActKinds
  <2> QED
    BY <1>12, <2>1, OthersInOrder DEF Acts, onNameChain
<1> QED
  BY <1>1, <1>2, <1>3, <1>4, <1>5, <1>6, <1>7, <1>8, <1>9, <1>10, <1>11, <1>12
     DEF NamesNext

(* A name is registered only with a commitment that is in a block, and a     *)
(* claim that says done has registered its name, through lost answers, late *)
(* receipts, pages that are left and others who take names (claimName).     *)
THEOREM ClaimsInOrder == NamesSpec => []ClaimKeepsOrder
<1>1. NamesInit => NamesInv
  <2>1. ASSUME NamesInit PROVE ClaimsShaped
    BY <2>1 DEF NamesInit, ClaimsShaped, Shaped, NoClaim, Working
  <2>2. ASSUME NamesInit PROVE InOrder /\ PoolInOrder
    BY <2>2 DEF NamesInit, InOrder, PoolInOrder, SaysCommitted, SaysRegistered, NoClaim, Working
  <2> QED
    BY <2>1, <2>2 DEF NamesInv
<1>2. NamesInv /\ [NamesNext]_nameVars => NamesInv'
  BY NextInOrder
<1>3. NamesInv => ClaimKeepsOrder
  BY DEF NamesInv, InOrder, PoolInOrder, SaysRegistered, ClaimKeepsOrder
<1> QED
  BY <1>1, <1>2, <1>3, PTL DEF NamesSpec

-----------------------------------------------------------------------------
(***************************************************************************)
(* The vault, for every set of pages, calls and accounts, and both kinds of*)
(* wallet.                                                                 *)
(***************************************************************************)
(* A record of the vault: without accounts it is Empty, with some its index *)
(* is of one.                                                               *)
Entries == [activeIndex : Nat, accounts : Seq(VaultAccounts)]
Records == {v \in Entries : IF v.accounts = <<>> THEN v = Empty
                            ELSE v.activeIndex \in 1 .. Len(v.accounts)}
Hows    == {"replace", "key", "phrase"}
CallsOf == [page : VaultPages, account : VaultAccounts, import : BOOLEAN,
            how : Hows, base : Records]

VaultTyped ==
  /\ open \in SUBSET VaultPages
  /\ vault \in Records /\ cacheVault \in [VaultPages -> Records]
  /\ choosing \in SUBSET open
  /\ call \in [Calls -> {Idle} \cup CallsOf]
  /\ \A c \in Running : call[c].page \in open

(* One tab, whose user waits: there is at most one call, it has read what   *)
(* was added, and the screen of a wallet without accounts tells the truth.  *)
Lone == store = "web" /\ (\E p \in open : open = {p}) /\ ~UserLeavesForms

CallsWait     == \A c, d \in Running : c = d
AddedAreRead  == \A c \in Running : kept \subseteq Held(call[c].base)
ChoosingEmpty == choosing # {} => vault = Empty

LoneInv == Lone => CallsWait /\ AddedAreRead /\ ChoosingEmpty /\ AddedStays

VaultInv == VaultTyped /\ LoneInv

LEMMA EmptyIsRecord == Empty \in Records /\ Held(Empty) = {}
BY DEF Empty, Records, Entries, Held

(* A record with one more entry.                                            *)
LEMMA WithEntryFacts ==
  ASSUME NEW v \in Records, NEW a \in VaultAccounts
  PROVE  /\ WithEntry(v, a) \in Records /\ WithEntry(v, a) # Empty
         /\ Held(WithEntry(v, a)) = Held(v) \cup {a}
         /\ a \notin Held(v) =>
              {i \in DOMAIN WithEntry(v, a).accounts : WithEntry(v, a).accounts[i] = a}
                = {Len(v.accounts) + 1}
<1> DEFINE s == v.accounts
           n == Len(s) + 1
           w == Append(s, a)
<1>1. s \in Seq(VaultAccounts) /\ n \in Nat /\ n > 0
  BY DEF Records, Entries
<1> HIDE DEF s
<1>2. /\ w \in Seq(VaultAccounts) /\ Len(w) = n /\ DOMAIN w = 1 .. n
      /\ DOMAIN s = 1 .. (n - 1) /\ w # <<>>
      /\ \A i \in 1 .. (n - 1) : w[i] = s[i]
      /\ w[n] = a
  BY <1>1
<1>3. WithEntry(v, a) = [activeIndex |-> n, accounts |-> w]
  BY DEF WithEntry, s
<1> HIDE DEF w, n
<1>4. WithEntry(v, a) \in Records /\ WithEntry(v, a) # Empty
  BY <1>1, <1>2, <1>3 DEF Records, Entries, Empty
<1>5. Held(v) = {s[i] : i \in DOMAIN s} /\ Held(WithEntry(v, a)) = {w[i] : i \in DOMAIN w}
  BY <1>3 DEF Held, s
<1>6. DOMAIN w = DOMAIN s \cup {n} /\ n \notin DOMAIN s
  BY <1>1, <1>2
<1>7. Held(WithEntry(v, a)) = Held(v) \cup {a}
  BY <1>2, <1>5, <1>6
<1>8. ASSUME a \notin Held(v)
      PROVE  {i \in DOMAIN w : w[i] = a} = {n}
  BY <1>2, <1>5, <1>6, <1>8
<1> QED BY <1>3, <1>4, <1>7, <1>8 DEF n, s

(* What is left of a record is one, and moving its index changes no entry.  *)
LEMMA WithoutFacts ==
  ASSUME NEW v \in Records, Len(v.accounts) > 1
  PROVE  Without(v, v.activeIndex) \in Records
<1> DEFINE s == v.accounts
           i == v.activeIndex
           rest == RemoveAt(s, i)
<1>1. /\ s \in Seq(VaultAccounts) /\ Len(s) \in Nat /\ Len(s) > 1
      /\ i \in 1 .. Len(s) /\ i \in Nat
  BY DEF Records, Entries
<1> HIDE DEF s, i
<1>2. rest \in Seq(VaultAccounts) /\ Len(rest) = Len(s) - 1
  <2> DEFINE x == SubSeq(s, 1, i - 1)
             y == SubSeq(s, i + 1, Len(s))
  <2>1. x \in Seq(VaultAccounts) /\ Len(x) = i - 1
    BY <1>1
  <2>2. y \in Seq(VaultAccounts) /\ Len(y) = Len(s) - i
    BY <1>1
  <2>3. rest = x \o y
    BY DEF RemoveAt
  <2> HIDE DEF x, y, rest
  <2> QED BY <1>1, <2>1, <2>2, <2>3
<1> HIDE DEF rest
<1>3. Without(v, i) = [accounts |-> rest, activeIndex |-> IF i > Len(rest) THEN Len(rest) ELSE i]
  BY <1>1 DEF Without, i, s, rest
<1> QED BY <1>1, <1>2, <1>3 DEF i, Records, Entries

LEMMA SelectedFacts ==
  ASSUME NEW v \in Records, NEW i \in DOMAIN v.accounts
  PROVE  /\ [v EXCEPT !.activeIndex = i] \in Records /\ v # Empty
         /\ Held([v EXCEPT !.activeIndex = i]) = Held(v)
BY DEF Records, Entries, Held, Empty

LEMMA VaultStarts ==
  ASSUME VaultInit
  PROVE  VaultInv
<1>1. Running = {} /\ Held(Empty) = {}
  BY EmptyIsRecord DEF VaultInit, Running
<1>2. VaultTyped
  BY <1>1, EmptyIsRecord DEF VaultInit, VaultTyped
<1>3. LoneInv
  BY <1>1 DEF VaultInit, LoneInv, CallsWait, AddedAreRead, ChoosingEmpty, AddedStays
<1> QED BY <1>2, <1>3 DEF VaultInv

(* What a page finds is a record, and a call that runs has its fields.      *)
LEMMA ViewIsRecord ==
  ASSUME VaultInv
  PROVE  /\ \A p \in open : p \in VaultPages /\ View(p) \in Records
         /\ \A c \in Running : c \in Calls /\ call[c] \in CallsOf /\ call[c].page \in open
                               /\ Base(c) \in Records
         /\ Lone => \A p, q \in open : p = q
<1>1. \A c \in Running : c \in Calls /\ call[c] \in CallsOf /\ call[c].page \in open
  BY DEF VaultInv, VaultTyped, Running
<1>2. \A c \in Running : Base(c) \in Records
  BY <1>1 DEF VaultInv, VaultTyped, Base, CallsOf
<1>3. \A p \in open : p \in VaultPages /\ View(p) \in Records
  BY DEF VaultInv, VaultTyped, View
<1> QED BY <1>1, <1>2, <1>3 DEF Lone

LEMMA BeginKeeps ==
  ASSUME VaultInv, NEW c \in Calls, NEW p \in open, NEW a \in VaultAccounts,
         NEW import \in BOOLEAN, NEW how \in Hows, Begin(c, p, a, import, how),
         how = "replace" => p \in choosing \/ View(p) = Empty
  PROVE  VaultInv'
<1> DEFINE R == [page |-> p, account |-> a, import |-> import, how |-> how,
                 base |-> IF Reads(how) THEN View(p) ELSE Empty]
<1>1. /\ call[c] = Idle /\ call' = [call EXCEPT ![c] = R] /\ MaySubmit(p, import)
      /\ UNCHANGED <<store, open, vault, cacheVault, choosing, kept>>
      /\ call \in [Calls -> {Idle} \cup CallsOf]
  BY DEF Begin, VaultInv, VaultTyped
<1>2. R \in CallsOf /\ R # Idle /\ R.page = p
  <2>1. View(p) \in Records /\ p \in VaultPages /\ Empty \in Records
    BY ViewIsRecord, EmptyIsRecord
  <2>2. R.how # Idle.how
    BY DEF Hows, Idle
  <2> QED BY <2>1, <2>2 DEF CallsOf
<1>3. R.base = IF Reads(how) THEN View(p) ELSE Empty
  OBVIOUS
<1> HIDE DEF R
<1>4. /\ call' \in [Calls -> {Idle} \cup CallsOf] /\ call'[c] = R
      /\ Running' = Running \cup {c} /\ c \notin Running
      /\ \A d \in Running : call'[d] = call[d]
  BY <1>1, <1>2 DEF Running
<1>5. VaultTyped'
  <2>1. \A d \in Running' : call'[d].page \in open'
    BY <1>1, <1>2, <1>4 DEF VaultInv, VaultTyped
  <2> QED BY <1>1, <1>4, <2>1 DEF VaultInv, VaultTyped
<1>6. LoneInv'
  <2> SUFFICES ASSUME Lone
               PROVE  CallsWait' /\ AddedAreRead' /\ ChoosingEmpty' /\ AddedStays'
    BY <1>1 DEF LoneInv, Lone
  <2>1. ChoosingEmpty /\ AddedStays /\ store = "web" /\ ~UserLeavesForms
    BY DEF VaultInv, LoneInv, Lone
  <2>2. Running = {}
    BY <1>1, <2>1, ViewIsRecord DEF MaySubmit
  <2>3. kept \subseteq Held(R.base)
    <3>1. CASE Reads(how)
      BY <1>3, <2>1, <3>1 DEF View, AddedStays
    <3>2. CASE ~Reads(how)
      <4>1. how = "replace"
        BY <2>1, <3>2 DEF Reads, Hows
      <4>2. vault = Empty
        BY <4>1, <2>1 DEF View, ChoosingEmpty
      <4> QED BY <1>3, <2>1, <3>2, <4>2 DEF AddedStays
    <3> QED BY <3>1, <3>2
  <2>4. CallsWait' /\ AddedAreRead'
    BY <1>1, <1>4, <2>2, <2>3 DEF CallsWait, AddedAreRead
  <2>5. ChoosingEmpty' /\ AddedStays'
    BY <1>1, <2>1 DEF ChoosingEmpty, AddedStays, Held
  <2> QED BY <2>4, <2>5
<1> QED BY <1>5, <1>6 DEF VaultInv

(* A call ends, having written or not.                                      *)
LEMMA CallEnds ==
  ASSUME VaultInv, NEW c \in Running, call' = [call EXCEPT ![c] = Idle]
  PROVE  /\ call' \in [Calls -> {Idle} \cup CallsOf]
         /\ Running' = Running \ {c}
         /\ \A d \in Running' : call'[d] = call[d]
BY ViewIsRecord DEF VaultInv, VaultTyped, Running

LEMMA WriteKeeps ==
  ASSUME VaultInv, NEW c \in Calls, Write(c)
  PROVE  VaultInv'
<1> DEFINE p == call[c].page
           a == call[c].account
<1>1. /\ c \in Running /\ call' = [call EXCEPT ![c] = Idle]
      /\ Persist(p, WithEntry(Base(c), a))
      /\ choosing' = choosing \ {p} /\ kept' = kept \cup {a}
      /\ UNCHANGED <<store, open>>
  BY DEF Write
<1>2. p \in open /\ p \in VaultPages /\ a \in VaultAccounts /\ Base(c) \in Records
  BY <1>1, ViewIsRecord DEF CallsOf
<1>3. PICK v \in Records : v = WithEntry(Base(c), a) /\ Held(v) = Held(Base(c)) \cup {a}
  BY <1>2, WithEntryFacts
<1>4. vault' = v /\ cacheVault' \in {cacheVault, [cacheVault EXCEPT ![p] = v]}
  BY <1>1, <1>3 DEF Persist
<1>5. VaultTyped'
  <2>1. Running' \subseteq Running /\ \A d \in Running' : call'[d] = call[d]
    BY <1>1, CallEnds
  <2>2. call' \in [Calls -> {Idle} \cup CallsOf]
    BY <1>1, CallEnds
  <2>3. choosing' \in SUBSET open'
    BY <1>1 DEF VaultInv, VaultTyped
  <2>4. vault' \in Records /\ cacheVault' \in [VaultPages -> Records]
    BY <1>2, <1>4 DEF VaultInv, VaultTyped
  <2>5. \A d \in Running' : call'[d].page \in open'
    BY <1>1, <2>1, ViewIsRecord
  <2> QED BY <2>2, <2>3, <2>4, <2>5, <1>1 DEF VaultInv, VaultTyped
<1>6. LoneInv'
  <2> SUFFICES ASSUME Lone
               PROVE  CallsWait' /\ AddedAreRead' /\ ChoosingEmpty' /\ AddedStays'
    BY <1>1 DEF LoneInv, Lone
  <2>1. CallsWait /\ AddedAreRead /\ store = "web"
    BY DEF VaultInv, LoneInv, Lone
  <2>2. Running' = {}
    BY <1>1, <2>1, CallEnds DEF CallsWait
  <2>3. choosing' = {}
    BY <1>1, <1>2, ViewIsRecord DEF VaultInv, VaultTyped
  <2>4. kept' \subseteq Held(v)
    BY <1>1, <1>3, <2>1 DEF AddedAreRead, Base
  <2>5. AddedStays'
    BY <1>4, <2>4 DEF AddedStays, Held
  <2> QED BY <2>2, <2>3, <2>5 DEF CallsWait, AddedAreRead, ChoosingEmpty
<1> QED BY <1>5, <1>6 DEF VaultInv

LEMMA AddFailsKeeps ==
  ASSUME VaultInv, NEW c \in Calls, AddFails(c)
  PROVE  VaultInv'
<1>1. /\ c \in Running /\ call' = [call EXCEPT ![c] = Idle]
      /\ UNCHANGED <<store, open, vault, cacheVault, choosing, kept>>
  BY DEF AddFails
<1>2. /\ call' \in [Calls -> {Idle} \cup CallsOf] /\ Running' = Running \ {c}
      /\ \A d \in Running' : call'[d] = call[d]
  BY <1>1, CallEnds
<1>3. VaultTyped'
  BY <1>1, <1>2 DEF VaultInv, VaultTyped
<1>4. LoneInv'
  BY <1>1, <1>2 DEF VaultInv, LoneInv, Lone, CallsWait, AddedAreRead, ChoosingEmpty, AddedStays, Held
<1> QED BY <1>3, <1>4 DEF VaultInv

LEMMA PageLoadsKeeps ==
  ASSUME VaultInv, NEW p \in open, PageLoads(p)
  PROVE  VaultInv'
<1>1. /\ call' = [c \in Calls |-> IF call[c] # Idle /\ call[c].page = p THEN Idle ELSE call[c]]
      /\ choosing' = IF vault = Empty THEN choosing \cup {p} ELSE choosing \ {p}
      /\ cacheVault' \in {cacheVault, [cacheVault EXCEPT ![p] = vault]}
      /\ UNCHANGED <<store, open, vault, kept>>
  BY DEF PageLoads
<1>2. /\ call' \in [Calls -> {Idle} \cup CallsOf] /\ Running' \subseteq Running
      /\ \A c \in Running' : call'[c] = call[c]
  BY <1>1 DEF VaultInv, VaultTyped, Running
<1>3. VaultTyped'
  BY <1>1, <1>2 DEF VaultInv, VaultTyped
<1>4. LoneInv'
  <2> SUFFICES ASSUME Lone
               PROVE  CallsWait' /\ AddedAreRead' /\ ChoosingEmpty' /\ AddedStays'
    BY <1>1 DEF LoneInv, Lone
  <2>1. CallsWait /\ AddedAreRead /\ AddedStays
    BY DEF VaultInv, LoneInv
  <2>2. ChoosingEmpty'
    BY <1>1, ViewIsRecord DEF VaultInv, VaultTyped, ChoosingEmpty
  <2>3. CallsWait' /\ AddedAreRead' /\ AddedStays'
    BY <1>1, <1>2, <2>1 DEF CallsWait, AddedAreRead, AddedStays, Held
  <2> QED BY <2>2, <2>3
<1> QED BY <1>3, <1>4 DEF VaultInv

LEMMA RenderChooseKeeps ==
  ASSUME VaultInv, NEW p \in open, RenderChoose(p)
  PROVE  VaultInv'
<1>1. /\ choosing' = IF View(p) = Empty THEN choosing \cup {p} ELSE choosing \ {p}
      /\ UNCHANGED <<store, open, vault, cacheVault, call, kept>> /\ Running' = Running
  BY DEF RenderChoose, Running
<1>2. VaultTyped'
  BY <1>1 DEF VaultInv, VaultTyped
<1>3. LoneInv'
  <2> SUFFICES ASSUME Lone
               PROVE  CallsWait' /\ AddedAreRead' /\ ChoosingEmpty' /\ AddedStays'
    BY <1>1 DEF LoneInv, Lone
  <2>1. View(p) = vault /\ CallsWait /\ AddedAreRead /\ AddedStays
    BY DEF VaultInv, LoneInv, Lone, View
  <2>2. ChoosingEmpty'
    BY <1>1, <2>1, ViewIsRecord DEF VaultInv, VaultTyped, ChoosingEmpty
  <2>3. CallsWait' /\ AddedAreRead' /\ AddedStays'
    BY <1>1, <2>1 DEF CallsWait, AddedAreRead, AddedStays, Held
  <2> QED BY <2>2, <2>3
<1> QED BY <1>2, <1>3 DEF VaultInv

(* Another account is selected, one is removed, or all are.                 *)
LEMMA ChangesKeep ==
  ASSUME VaultInv, NEW p \in open,
         \/ \E i \in 1 .. Len(View(p).accounts) : SetActiveAccountIndex(p, i)
         \/ RemoveAccount(p)
         \/ Logout(p)
  PROVE  VaultInv'
<1>1. p \in VaultPages /\ View(p) \in Records
  BY ViewIsRecord
<1>2. CASE \E i \in 1 .. Len(View(p).accounts) : SetActiveAccountIndex(p, i)
  <2>1. PICK i \in DOMAIN View(p).accounts : SetActiveAccountIndex(p, i)
    BY <1>2 DEF SetActiveAccountIndex
  <2>2. PICK v \in Records : v = [View(p) EXCEPT !.activeIndex = i] /\ Held(v) = Held(View(p))
    BY <1>1, SelectedFacts
  <2>3. /\ p \notin choosing /\ vault' = v
        /\ cacheVault' \in {cacheVault, [cacheVault EXCEPT ![p] = v]}
        /\ UNCHANGED <<store, open, choosing, call, kept>> /\ Running' = Running
    BY <2>1, <2>2 DEF SetActiveAccountIndex, Persist, Running
  <2>4. VaultTyped'
    BY <1>1, <2>3 DEF VaultInv, VaultTyped
  <2>5. LoneInv'
    <3> SUFFICES ASSUME Lone
                 PROVE  CallsWait' /\ AddedAreRead' /\ ChoosingEmpty' /\ AddedStays'
      BY <2>3 DEF LoneInv, Lone
    <3>1. View(p) = vault /\ CallsWait /\ AddedAreRead /\ AddedStays
      BY DEF VaultInv, LoneInv, Lone, View
    <3>2. choosing' = {}
      BY <2>3, ViewIsRecord DEF VaultInv, VaultTyped
    <3>3. AddedStays'
      BY <2>2, <2>3, <3>1 DEF AddedStays, Held
    <3> QED BY <2>3, <3>1, <3>2, <3>3 DEF CallsWait, AddedAreRead, ChoosingEmpty
  <2> QED BY <2>4, <2>5 DEF VaultInv
<1>3. CASE RemoveAccount(p)
  <2> DEFINE rest == IF Len(View(p).accounts) <= 1 THEN Empty
                     ELSE Without(View(p), View(p).activeIndex)
  <2>1. rest \in Records
    <3>1. Len(View(p).accounts) \in Nat
      BY <1>1 DEF Records, Entries
    <3>2. CASE Len(View(p).accounts) <= 1
      BY <3>2, EmptyIsRecord
    <3>3. CASE ~(Len(View(p).accounts) <= 1)
      BY <1>1, <3>1, <3>3, WithoutFacts
    <3> QED BY <3>2, <3>3
  <2>2. /\ store = "extension" /\ vault' = rest
        /\ cacheVault' \in {cacheVault, [cacheVault EXCEPT ![p] = rest]}
        /\ choosing' \in {choosing, choosing \cup {p}}
        /\ UNCHANGED <<store, open, call>> /\ Running' = Running
    BY <1>3 DEF RemoveAccount, Persist, Running
  <2> HIDE DEF rest
  <2>3. VaultTyped'
    BY <1>1, <2>1, <2>2 DEF VaultInv, VaultTyped
  <2>4. LoneInv'
    BY <2>2 DEF LoneInv, Lone
  <2> QED BY <2>3, <2>4 DEF VaultInv
<1>4. CASE Logout(p)
  <2>1. /\ vault' = Empty /\ kept' = {} /\ choosing' = choosing \cup {p}
        /\ UNCHANGED <<store, open, cacheVault, call>> /\ Running' = Running
    BY <1>4 DEF Logout, Running
  <2>2. VaultTyped'
    BY <1>1, <2>1, EmptyIsRecord DEF VaultInv, VaultTyped
  <2>3. LoneInv'
    BY <2>1 DEF VaultInv, LoneInv, Lone, CallsWait, AddedAreRead, ChoosingEmpty, AddedStays
  <2> QED BY <2>2, <2>3 DEF VaultInv
<1> QED BY <1>2, <1>3, <1>4

LEMMA VaultKeeps ==
  ASSUME VaultInv, [VaultNext]_vaultVars
  PROVE  VaultInv'
<1>1. CASE UNCHANGED vaultVars
  <2>1. /\ UNCHANGED <<store, open, vault, cacheVault, choosing, call, kept>>
        /\ Running' = Running
    BY <1>1 DEF vaultVars, Running
  <2> QED
    BY <2>1 DEF VaultInv, VaultTyped, LoneInv, Lone, CallsWait, AddedAreRead, ChoosingEmpty,
                AddedStays, Held
<1>2. ASSUME NEW p \in open, NEW c \in Calls, NEW a \in VaultAccounts, NEW import \in BOOLEAN,
             AddFirst(c, p, a, import) \/ AddAnother(c, p, a, import)
      PROVE  VaultInv'
  <2>1. \E how \in Hows : /\ Begin(c, p, a, import, how)
                          /\ how = "replace" => p \in choosing \/ View(p) = Empty
    BY <1>2 DEF AddFirst, AddAnother, Hows
  <2> QED BY <2>1, BeginKeeps
<1> QED
  BY <1>1, <1>2, WriteKeeps, AddFailsKeeps, PageLoadsKeeps, RenderChooseKeeps, ChangesKeep
     DEF VaultNext

(* The account that unlocks and signs exists in every record and every copy *)
(* of a popup that has accounts, whatever is written back over what         *)
(* (walletStore.ts: removeAccountAtIndex; walletVault.ts: vaultWithEntry).  *)
THEOREM ActiveExists == VaultSpec => []ActiveAccountExists
<1>1. VaultInv => ActiveAccountExists
  BY DEF VaultInv, VaultTyped, ActiveAccountExists, Records, Entries
<1> QED
  BY <1>1, VaultStarts, VaultKeeps, PTL DEF VaultSpec

(* The web wallet in one tab, with a user who waits for each form, loses no *)
(* account that was added (walletStore.ts: importAdditionalAccount).        *)
THEOREM LoneTabLosesNone == VaultSpec => []LoneTabKeepsAll
<1>1. VaultInv => LoneTabKeepsAll
  BY DEF VaultInv, LoneInv, Lone, LoneTabKeepsAll
<1> QED
  BY <1>1, VaultStarts, VaultKeeps, PTL DEF VaultSpec

(* An entry of a phrase is never a second one of its account: what it is    *)
(* written next to is what it was compared with (recoveryVault.ts:          *)
(* buildPhraseEntry; walletStore.ts: createWalletWithPhrase).               *)
THEOREM PhrasesAddNoTwins == VaultSpec => PhraseAddsNoTwin
<1>1. ASSUME VaultInv, VaultNext, NEW c \in Calls,
             call[c] # Idle, call'[c] = Idle, call[c].how = "phrase", vault' # vault
      PROVE  Cardinality({i \in DOMAIN vault'.accounts :
                            vault'.accounts[i] = call[c].account}) <= 1
  <2>1. Write(c)
    <3>1. PICK d \in Calls : Write(d)
      <4>1. ASSUME NEW d \in Calls, AddFails(d) PROVE FALSE
        BY <4>1, <1>1 DEF AddFails
      <4>2. ASSUME NEW p \in open, PageLoads(p) \/ RenderChoose(p) PROVE FALSE
        BY <4>2, <1>1 DEF PageLoads, RenderChoose
      <4>3. ASSUME NEW p \in open, NEW d \in Calls, NEW a \in VaultAccounts, NEW import \in BOOLEAN,
                   AddFirst(d, p, a, import) \/ AddAnother(d, p, a, import)
            PROVE  FALSE
        BY <4>3, <1>1 DEF AddFirst, AddAnother, Begin
      <4>4. ASSUME NEW p \in open,
                   \/ \E i \in 1 .. Len(View(p).accounts) : SetActiveAccountIndex(p, i)
                   \/ RemoveAccount(p) \/ Logout(p)
            PROVE  FALSE
        BY <4>4, <1>1 DEF SetActiveAccountIndex, RemoveAccount, Logout
      <4> QED BY <1>1, <4>1, <4>2, <4>3, <4>4 DEF VaultNext
    <3>2. call \in [Calls -> {Idle} \cup CallsOf]
      BY <1>1 DEF VaultInv, VaultTyped
    <3> QED BY <1>1, <3>1, <3>2 DEF Write
  <2>2. /\ c \in Running /\ call[c] \in CallsOf /\ Base(c) = call[c].base
        /\ call[c].base \in Records /\ call[c].account \in VaultAccounts
    BY <1>1, <2>1, ViewIsRecord DEF Write, Base, CallsOf
  <2>3. call[c].account \notin Held(call[c].base)
    BY <1>1, <2>1 DEF Write, Refused
  <2>4. vault' = WithEntry(call[c].base, call[c].account)
    BY <2>1, <2>2 DEF Write, Persist
  <2>5. {i \in DOMAIN vault'.accounts : vault'.accounts[i] = call[c].account}
          = {Len(call[c].base.accounts) + 1}
    BY <2>2, <2>3, <2>4, WithEntryFacts
  <2> DEFINE n == Len(call[c].base.accounts) + 1
  <2>6. Cardinality({n}) = 1
    BY FS_Singleton
  <2>7. Cardinality({n}) <= 1
    BY <2>6
  <2> HIDE DEF n
  <2> QED BY <2>5, <2>7, Zenon DEF n
<1>2. VaultInv /\ [VaultNext]_vaultVars =>
        [\A c \in Calls :
           /\ call[c] # Idle /\ call'[c] = Idle /\ call[c].how = "phrase"
           /\ vault' # vault
           => Cardinality({i \in DOMAIN vault'.accounts :
                             vault'.accounts[i] = call[c].account}) <= 1]_vaultVars
  BY <1>1
<1> QED
  BY <1>2, VaultStarts, VaultKeeps, PTL DEF VaultSpec, PhraseAddsNoTwin

-----------------------------------------------------------------------------
(***************************************************************************)
(* The popup, for every set of accounts and of handlers.                   *)
(***************************************************************************)
(* What a handler waits for.                                                *)
OrNobody == PopupAccounts \cup {Nobody}
Additions == [op : {"create", "import"}, stage : {"deriving", "saved"}, phrase : BOOLEAN,
              account : PopupAccounts, replaces : BOOLEAN, base : SUBSET PopupAccounts]
Checks    == [op : {"import", "unlock", "finish"}, stage : {"checking"},
              typed : OrNobody, account : OrNobody]
Switches  == [op : {"switch", "remove"}, stage : {"storing"}]
Showings  == [op : {"reveal"}, stage : {"revealing"}, what : {"key", "phrase"}]
Handlers  == {NoJob} \cup Additions \cup Checks \cup Switches \cup Showings

PopupTyped ==
  /\ accounts \in SUBSET PopupAccounts
  /\ chosen \in OrNobody /\ password \in OrNobody
  /\ adding \in BOOLEAN
  /\ job \in [Jobs -> Handlers]

KeylessScreens == user = Nobody => screen \notin {"dashboard", "settings", "pick"}

(* A screen on which what is added would replace the vault, or which "Back" *)
(* makes one.                                                               *)
BareScreen == \/ screen = "choose"
              \/ screen \in {"create", "import"} /\ (~adding \/ user = Nobody)

(* A handler that has stored its account and will leave the screen.         *)
MovesOn(j) ==
  \/ job[j].op = "create" /\ job[j].stage = "saved"
  \/ job[j].op = "import" /\ job[j].stage = "saved" /\ job[j].account = chosen
  \/ /\ job[j].op = "import" /\ job[j].stage = "checking"
     /\ job[j].typed = job[j].account /\ job[j].account # Nobody

OneAddition    == \A j, k \in Jobs : Adds(j) /\ Adds(k) => j = k
BareMeansEmpty == BareScreen => accounts = {} \/ \E j \in Jobs : MovesOn(j)
NothingMissed  == \A j \in Jobs : Adds(j) /\ job[j].stage = "deriving" =>
  /\ job[j].replaces => accounts = {}
  /\ ~job[j].replaces /\ job[j].phrase => accounts \subseteq job[j].base

WaitingInv == OneAddition /\ BareMeansEmpty /\ NothingMissed
PopupInv == PopupTyped /\ KeylessScreens /\ (UserWaits => WaitingInv)

LEMMA PopupStarts ==
  ASSUME PopupInit
  PROVE  PopupInv
<1>1. \A j \in Jobs : job[j] = NoJob /\ ~Adds(j)
  BY DEF PopupInit, NoJob, Adds
<1>2. PopupTyped /\ KeylessScreens
  BY DEF PopupInit, PopupTyped, KeylessScreens, OrNobody, Handlers
<1>3. WaitingInv
  BY <1>1 DEF PopupInit, WaitingInv, OneAddition, BareMeansEmpty, BareScreen, NothingMissed
<1> QED BY <1>2, <1>3 DEF PopupInv

(* Which of the records a handler is.                                       *)
LEMMA HandlerFacts ==
  ASSUME PopupTyped, NEW j \in Jobs
  PROVE  /\ job[j] \in Handlers
         /\ Adds(j) /\ job[j].stage \in {"deriving", "saved"} => job[j] \in Additions
         /\ job[j].stage = "checking" /\ job[j].op # "none" => job[j] \in Checks
         /\ MovesOn(j) => Adds(j)
BY DEF PopupTyped, Handlers, Adds, NoJob, Additions, Checks, Switches, Showings, MovesOn

(* A screen gives way to another.                                           *)
LEMMA ScreenStep ==
  ASSUME PopupInv, UNCHANGED <<accounts, chosen, password, job>>, adding' \in BOOLEAN,
         KeylessScreens', BareScreen' => accounts = {} \/ BareScreen
  PROVE  PopupInv'
<1>1. PopupTyped'
  BY DEF PopupInv, PopupTyped
<1>2. ASSUME UserWaits PROVE WaitingInv'
  <2>1. \A j \in Jobs : MovesOn(j)' = MovesOn(j) /\ Adds(j)' = Adds(j)
    BY DEF MovesOn, Adds
  <2>2. WaitingInv
    BY <1>2 DEF PopupInv
  <2>3. OneAddition' /\ NothingMissed'
    BY <2>1, <2>2 DEF WaitingInv, OneAddition, NothingMissed
  <2>4. BareMeansEmpty'
    BY <2>1, <2>2 DEF WaitingInv, BareMeansEmpty
  <2> QED BY <2>3, <2>4 DEF WaitingInv
<1> QED BY <1>1, <1>2 DEF PopupInv

(* A handler becomes one that adds nothing.                                 *)
LEMMA HandlerStep ==
  ASSUME PopupInv, NEW j \in Jobs, NEW R \in Handlers, R.op \notin {"create", "import"},
         job' = [job EXCEPT ![j] = R],
         accounts' \subseteq accounts, chosen' \in OrNobody, password' \in OrNobody,
         adding' \in BOOLEAN, KeylessScreens',
         BareScreen' => accounts' = {} \/ (BareScreen /\ chosen' = chosen /\ ~MovesOn(j))
  PROVE  PopupInv'
<1>1. job' \in [Jobs -> Handlers] /\ job'[j] = R /\ \A k \in Jobs : k # j => job'[k] = job[k]
  BY DEF PopupInv, PopupTyped
<1>2. PopupTyped'
  BY <1>1 DEF PopupInv, PopupTyped
<1>3. ASSUME UserWaits PROVE WaitingInv'
  <2>1. WaitingInv
    BY <1>3 DEF PopupInv
  <2>2. ~Adds(j)' /\ \A k \in Jobs : k # j => Adds(k)' = Adds(k)
    BY <1>1 DEF Adds
  <2>3. OneAddition'
    BY <2>1, <2>2 DEF WaitingInv, OneAddition
  <2>4. NothingMissed'
    <3> SUFFICES ASSUME NEW k \in Jobs, Adds(k)', job'[k].stage = "deriving"
                 PROVE  /\ job'[k].replaces => accounts' = {}
                        /\ ~job'[k].replaces /\ job'[k].phrase => accounts' \subseteq job'[k].base
      BY DEF NothingMissed
    <3>1. k # j /\ job'[k] = job[k] /\ Adds(k)
      BY <1>1, <2>2
    <3> QED BY <2>1, <3>1 DEF WaitingInv, NothingMissed
  <2>5. BareMeansEmpty'
    <3> SUFFICES ASSUME BareScreen', accounts' # {}
                 PROVE  \E k \in Jobs : MovesOn(k)'
      BY DEF BareMeansEmpty
    <3>1. BareScreen /\ chosen' = chosen /\ ~MovesOn(j) /\ accounts # {}
      OBVIOUS
    <3>2. PICK k \in Jobs : MovesOn(k)
      BY <2>1, <3>1 DEF WaitingInv, BareMeansEmpty
    <3>3. MovesOn(k)'
      BY <1>1, <3>1, <3>2 DEF MovesOn
    <3> QED BY <3>3
  <2> QED BY <2>3, <2>4, <2>5 DEF WaitingInv
<1> QED BY <1>2, <1>3 DEF PopupInv

LEMMA ScreensKeep ==
  ASSUME PopupInv,
         \/ UNCHANGED popupVars \/ OpensPopup \/ WorkerForgets \/ Goes \/ PicksHow \/ GoesBack
         \/ Lock \/ ContinuesToName \/ TogglesSettings \/ Hides
  PROVE  PopupInv'
<1>1. UNCHANGED <<accounts, chosen, password, job>> /\ adding' \in BOOLEAN
  BY DEF PopupInv, PopupTyped, popupVars, popupStored, memory, OpensPopup, WorkerForgets, Goes, PicksHow,
         GoesBack, Lock, ContinuesToName, TogglesSettings, Hides
<1>2. KeylessScreens
  BY DEF PopupInv
<1>3. KeylessScreens' /\ (BareScreen' => accounts = {} \/ BareScreen)
  <2>1. CASE UNCHANGED popupVars \/ WorkerForgets \/ Hides
    BY <1>2, <2>1 DEF popupVars, popupStored, memory, WorkerForgets, Hides, KeylessScreens, BareScreen
  <2>2. CASE OpensPopup
    BY <2>2 DEF OpensPopup, ShowsChoose, GoDashboard, KeylessScreens, BareScreen
  <2>3. CASE Goes
    BY <1>2, <2>3 DEF Goes, ShowsChoose, GoDashboard, KeylessScreens, BareScreen, memory
  <2>4. CASE PicksHow
    BY <1>2, <2>4 DEF PicksHow, KeylessScreens, BareScreen
  <2>5. CASE GoesBack
    BY <1>2, <2>5 DEF GoesBack, GoDashboard, KeylessScreens, BareScreen
  <2>6. CASE Lock
    BY <2>6 DEF Lock, ShowsChoose, KeylessScreens, BareScreen
  <2>7. CASE ContinuesToName
    BY <2>7 DEF ContinuesToName, KeylessScreens, BareScreen
  <2>8. CASE TogglesSettings
    BY <1>2, <2>8 DEF TogglesSettings, KeylessScreens, BareScreen
  <2> QED BY <2>1, <2>2, <2>3, <2>4, <2>5, <2>6, <2>7, <2>8
<1> QED BY <1>1, <1>3, ScreenStep

LEMMA ClosesKeeps ==
  ASSUME PopupInv, ClosesPopup
  PROVE  PopupInv'
<1>1. job' = [j \in Jobs |-> NoJob] /\ screen' = "closed"
      /\ password' = Nobody /\ adding' = FALSE /\ UNCHANGED <<accounts, chosen>>
  BY DEF ClosesPopup, popupStored
<1>2. \A j \in Jobs : ~Adds(j)'
  BY <1>1 DEF Adds, NoJob
<1>3. PopupTyped' /\ KeylessScreens'
  BY <1>1 DEF PopupInv, PopupTyped, KeylessScreens, Handlers, OrNobody
<1>4. WaitingInv'
  BY <1>1, <1>2 DEF WaitingInv, OneAddition, BareMeansEmpty, BareScreen, NothingMissed
<1> QED BY <1>3, <1>4 DEF PopupInv

(* Handlers that begin and add nothing.                                     *)
LEMMA OthersBegin ==
  ASSUME PopupInv, NEW j \in Jobs,
         \/ FinishBackup(j)
         \/ \E typed \in {chosen, Nobody} : SubmitsUnlock(j, typed)
         \/ \E a \in PopupAccounts : SelectsAccount(j, a)
         \/ RemovesAccount(j)
         \/ \E what \in {"key", "phrase"} : SubmitsReveal(j, what)
  PROVE  PopupInv'
<1>1. /\ accounts \in SUBSET PopupAccounts /\ chosen \in OrNobody /\ password \in OrNobody
      /\ adding \in BOOLEAN /\ Nobody \in OrNobody /\ KeylessScreens
      /\ job[j] = NoJob /\ ~MovesOn(j)
  <2>1. job[j] = NoJob
    BY DEF FinishBackup, SubmitsUnlock, SelectsAccount, RemovesAccount, SubmitsReveal, Starts
  <2> QED BY <2>1 DEF PopupInv, PopupTyped, OrNobody, MovesOn, NoJob
<1>2. CASE FinishBackup(j)
  <2> DEFINE R == [op |-> "finish", stage |-> "checking", typed |-> password, account |-> chosen]
  <2>1. R \in Handlers /\ R.op = "finish"
    BY <1>1 DEF Handlers, Checks
  <2>2. /\ job' = [job EXCEPT ![j] = R] /\ password' = Nobody
        /\ UNCHANGED <<accounts, chosen, adding, screen, user>>
    BY <1>2 DEF FinishBackup, Starts, popupStored
  <2> HIDE DEF R
  <2>3. KeylessScreens' /\ BareScreen' = BareScreen
    BY <1>1, <2>2 DEF KeylessScreens, BareScreen
  <2> QED BY <1>1, <2>1, <2>2, <2>3, HandlerStep
<1>3. ASSUME NEW typed \in {chosen, Nobody}, SubmitsUnlock(j, typed) PROVE PopupInv'
  <2> DEFINE R == [op |-> "unlock", stage |-> "checking", typed |-> typed, account |-> chosen]
  <2>1. R \in Handlers /\ R.op = "unlock"
    BY <1>1 DEF Handlers, Checks
  <2>2. /\ job' = [job EXCEPT ![j] = R]
        /\ UNCHANGED <<accounts, chosen, password, adding, screen, user>>
    BY <1>3 DEF SubmitsUnlock, Starts, popupStored, memory
  <2> HIDE DEF R
  <2>3. KeylessScreens' /\ BareScreen' = BareScreen
    BY <1>1, <2>2 DEF KeylessScreens, BareScreen
  <2> QED BY <1>1, <2>1, <2>2, <2>3, HandlerStep
<1>4. CASE (\E a \in PopupAccounts : SelectsAccount(j, a)) \/ RemovesAccount(j)
  <2>1. PICK R \in Switches : job' = [job EXCEPT ![j] = R]
    BY <1>4 DEF SelectsAccount, RemovesAccount, Starts, Switches
  <2>2. R \in Handlers /\ R.op \notin {"create", "import"}
    BY DEF Handlers, Switches
  <2>3. /\ accounts' \subseteq accounts /\ chosen' \in OrNobody
        /\ screen \in {"dashboard", "settings"}
        /\ UNCHANGED <<password, adding, screen, user>>
    BY <1>1, <1>4 DEF SelectsAccount, RemovesAccount, memory, OrNobody
  <2>4. KeylessScreens' /\ ~BareScreen'
    BY <1>1, <2>3 DEF KeylessScreens, BareScreen
  <2> QED BY <1>1, <2>1, <2>2, <2>3, <2>4, HandlerStep
<1>5. ASSUME NEW what \in {"key", "phrase"}, SubmitsReveal(j, what) PROVE PopupInv'
  <2> DEFINE R == [op |-> "reveal", stage |-> "revealing", what |-> what]
  <2>1. R \in Handlers /\ R.op = "reveal"
    BY DEF Handlers, Showings
  <2>2. /\ job' = [job EXCEPT ![j] = R]
        /\ UNCHANGED <<accounts, chosen, password, adding, screen, user>>
    BY <1>5 DEF SubmitsReveal, Starts, popupStored, memory
  <2> HIDE DEF R
  <2>3. KeylessScreens' /\ BareScreen' = BareScreen
    BY <1>1, <2>2 DEF KeylessScreens, BareScreen
  <2> QED BY <1>1, <2>1, <2>2, <2>3, HandlerStep
<1> QED BY <1>2, <1>3, <1>4, <1>5

(* Handlers that end, additions too: what moves on leaves the screen.       *)
LEMMA HandlersEnd ==
  ASSUME PopupInv, NEW j \in Jobs,
         \/ SaveFails(j) \/ ShowsBackup(j) \/ JobUnlocks(j) \/ UnlockFails(j)
         \/ KeyGoes(j) \/ Reveals(j)
  PROVE  PopupInv'
<1>1. /\ accounts \in SUBSET PopupAccounts /\ chosen \in OrNobody /\ password \in OrNobody
      /\ adding \in BOOLEAN /\ KeylessScreens
  BY DEF PopupInv, PopupTyped
<1>2. NoJob \in Handlers /\ NoJob.op = "none"
  BY DEF Handlers, NoJob
<1>3. job' = [job EXCEPT ![j] = NoJob] /\ UNCHANGED <<accounts, chosen>>
  BY DEF SaveFails, ShowsBackup, JobUnlocks, UnlockFails, KeyGoes, Reveals, JobEnds, popupStored
<1>4. /\ password' \in OrNobody /\ adding' \in BOOLEAN /\ KeylessScreens'
      /\ BareScreen' => accounts' = {} \/ (BareScreen /\ ~MovesOn(j))
  <2>1. CASE SaveFails(j)
    BY <1>1, <2>1 DEF SaveFails, memory, KeylessScreens, BareScreen, MovesOn, Adds
  <2>2. CASE ShowsBackup(j)
    <3>1. job[j] \in Additions
      BY <2>2, HandlerFacts DEF ShowsBackup, PopupInv, Adds
    <3> QED BY <1>1, <2>2, <3>1 DEF ShowsBackup, KeylessScreens, BareScreen, Additions, OrNobody
  <2>3. CASE JobUnlocks(j)
    BY <1>1, <2>3 DEF JobUnlocks, GoDashboard, KeylessScreens, BareScreen
  <2>4. CASE UnlockFails(j)
    BY <1>1, <2>4 DEF UnlockFails, memory, KeylessScreens, BareScreen, MovesOn
  <2>5. CASE KeyGoes(j)
    BY <1>1, <1>3, <2>5 DEF KeyGoes, ShowsChoose, KeylessScreens, BareScreen
  <2>6. CASE Reveals(j)
    BY <1>1, <2>6 DEF Reveals, KeylessScreens, BareScreen, MovesOn
  <2> QED BY <2>1, <2>2, <2>3, <2>4, <2>5, <2>6
<1> QED BY <1>1, <1>2, <1>3, <1>4, HandlerStep

LEMMA SubmitsKeeps ==
  ASSUME PopupInv, NEW j \in Jobs, NEW op \in {"create", "import"}, NEW phrase \in BOOLEAN,
         NEW a \in PopupAccounts, Submits(j, op, phrase, a)
  PROVE  PopupInv'
<1> DEFINE R == [op |-> op, stage |-> "deriving", phrase |-> phrase, account |-> a,
                 replaces |-> ~adding \/ (~phrase /\ accounts = {}),
                 base |-> IF adding THEN accounts ELSE {}]
<1>1. /\ screen = op /\ job' = [job EXCEPT ![j] = R] /\ job[j] = NoJob
      /\ UNCHANGED <<accounts, chosen, password, adding, screen, user>>
      /\ accounts \in SUBSET PopupAccounts /\ adding \in BOOLEAN
  BY DEF Submits, Starts, popupStored, memory, PopupInv, PopupTyped
<1>2. /\ R \in Additions /\ R \in Handlers /\ R.op = op /\ R.stage = "deriving"
      /\ R.replaces => ~adding \/ accounts = {}
      /\ ~R.replaces => R.base = accounts
  BY <1>1 DEF Additions, Handlers
<1> HIDE DEF R
<1>3. job' \in [Jobs -> Handlers] /\ job'[j] = R /\ \A k \in Jobs : k # j => job'[k] = job[k]
  BY <1>1, <1>2 DEF PopupInv, PopupTyped
<1>4. PopupTyped' /\ KeylessScreens'
  BY <1>1, <1>3 DEF PopupInv, PopupTyped, KeylessScreens
<1>5. ASSUME UserWaits PROVE WaitingInv'
  <2>1. \A k \in Jobs : ~Adds(k) /\ ~MovesOn(k)
    BY <1>5, HandlerFacts DEF Submits, PopupInv
  <2>2. BareScreen => accounts = {}
    BY <1>5, <2>1 DEF PopupInv, WaitingInv, BareMeansEmpty
  <2>3. \A k \in Jobs : k # j => ~Adds(k)'
    BY <1>3, <2>1 DEF Adds
  <2>4. OneAddition'
    BY <2>3 DEF OneAddition
  <2>5. BareMeansEmpty'
    BY <1>1, <2>2 DEF BareMeansEmpty, BareScreen
  <2>6. ~adding => accounts = {}
    BY <1>1, <2>2 DEF BareScreen
  <2>7. NothingMissed'
    BY <1>1, <1>2, <1>3, <2>3, <2>6 DEF NothingMissed
  <2> QED BY <2>4, <2>5, <2>7 DEF WaitingInv
<1> QED BY <1>4, <1>5 DEF PopupInv

LEMMA SavesKeeps ==
  ASSUME PopupInv, NEW j \in Jobs, Saves(j)
  PROVE  PopupInv' /\ (UserWaits => accounts \subseteq accounts')
<1> DEFINE R == [job[j] EXCEPT !.stage = "saved"]
<1>1. /\ Adds(j) /\ job[j].stage = "deriving" /\ job[j] \in Additions
      /\ job[j].account \in PopupAccounts /\ job[j].base \in SUBSET PopupAccounts
      /\ job[j].replaces \in BOOLEAN /\ job[j].phrase \in BOOLEAN
  BY HandlerFacts DEF Saves, PopupInv, Additions
<1>2. /\ chosen' = job[j].account /\ job' = [job EXCEPT ![j] = R]
      /\ UNCHANGED <<screen, user, adding, password>>
      /\ accounts' = {job[j].account} \cup
           (CASE job[j].replaces -> {}
              [] ~job[j].replaces /\ job[j].phrase -> job[j].base
              [] OTHER -> accounts)
  BY DEF Saves, memory, PopupInv, PopupTyped
<1>3. R \in Handlers /\ R.op = job[j].op /\ R.stage = "saved" /\ R.account = job[j].account
  BY <1>1 DEF Additions, Handlers
<1> HIDE DEF R
<1>4. job' \in [Jobs -> Handlers] /\ job'[j] = R /\ \A k \in Jobs : k # j => job'[k] = job[k]
  BY <1>2, <1>3 DEF PopupInv, PopupTyped
<1>5. accounts' \in SUBSET PopupAccounts
  BY <1>1, <1>2 DEF PopupInv, PopupTyped
<1>6. PopupTyped' /\ KeylessScreens'
  BY <1>1, <1>2, <1>4, <1>5 DEF PopupInv, PopupTyped, KeylessScreens, OrNobody
<1>7. ASSUME UserWaits PROVE WaitingInv' /\ accounts \subseteq accounts'
  <2>1. WaitingInv
    BY <1>7 DEF PopupInv
  <2>2. \A k \in Jobs : Adds(k)' = Adds(k)
    BY <1>3, <1>4 DEF Adds
  <2>3. OneAddition'
    BY <2>1, <2>2 DEF WaitingInv, OneAddition
  <2>4. MovesOn(j)'
    BY <1>1, <1>2, <1>3, <1>4 DEF MovesOn, Adds
  <2>5. \A k \in Jobs : Adds(k)' => k = j
    BY <1>1, <2>1, <2>2 DEF WaitingInv, OneAddition
  <2>6. NothingMissed'
    BY <1>3, <1>4, <2>5 DEF NothingMissed
  <2>7. accounts \subseteq accounts'
    BY <1>1, <1>2, <2>1 DEF WaitingInv, NothingMissed
  <2> QED BY <2>3, <2>4, <2>6, <2>7 DEF WaitingInv, BareMeansEmpty
<1> QED BY <1>6, <1>7 DEF PopupInv

LEMMA UnlocksImportedKeeps ==
  ASSUME PopupInv, NEW j \in Jobs, UnlocksImported(j)
  PROVE  PopupInv'
<1> DEFINE R == [op |-> "import", stage |-> "checking",
                 typed |-> job[j].account, account |-> chosen]
<1>1. /\ job[j].op = "import" /\ job[j].stage = "saved" /\ Adds(j) /\ job[j] \in Additions
      /\ job[j].account \in PopupAccounts
  BY HandlerFacts DEF UnlocksImported, PopupInv, Adds, Additions
<1>2. /\ job' = [job EXCEPT ![j] = R]
      /\ UNCHANGED <<accounts, chosen, password, adding, screen, user>>
  BY DEF UnlocksImported, popupStored, memory
<1>3. /\ R \in Handlers /\ R.op = "import" /\ R.stage = "checking"
      /\ R.typed = job[j].account /\ R.account = chosen
  BY <1>1 DEF Handlers, Checks, OrNobody, PopupInv, PopupTyped
<1> HIDE DEF R
<1>4. job' \in [Jobs -> Handlers] /\ job'[j] = R /\ \A k \in Jobs : k # j => job'[k] = job[k]
  BY <1>2, <1>3 DEF PopupInv, PopupTyped
<1>5. PopupTyped' /\ KeylessScreens'
  BY <1>2, <1>4 DEF PopupInv, PopupTyped, KeylessScreens
<1>6. ASSUME UserWaits PROVE WaitingInv'
  <2>1. WaitingInv
    BY <1>6 DEF PopupInv
  <2>2. \A k \in Jobs : Adds(k)' = Adds(k)
    BY <1>1, <1>3, <1>4 DEF Adds
  <2>3. OneAddition'
    BY <2>1, <2>2 DEF WaitingInv, OneAddition
  <2>4. \A k \in Jobs : MovesOn(k) => MovesOn(k)'
    BY <1>1, <1>2, <1>3, <1>4, PopupAssumption DEF MovesOn
  <2>5. BareMeansEmpty'
    BY <1>2, <2>1, <2>4 DEF WaitingInv, BareMeansEmpty, BareScreen
  <2>6. NothingMissed'
    BY <1>2, <1>3, <1>4, <2>1, <2>2 DEF WaitingInv, NothingMissed
  <2> QED BY <2>3, <2>5, <2>6 DEF WaitingInv
<1> QED BY <1>5, <1>6 DEF PopupInv

LEMMA PopupKeeps ==
  ASSUME PopupInv, [PopupNext]_popupVars
  PROVE  PopupInv'
BY ScreensKeep, ClosesKeeps, OthersBegin, HandlersEnd, SubmitsKeeps, SavesKeeps,
   UnlocksImportedKeeps DEF PopupNext

(* Only its own step stores what a handler adds.                            *)
LEMMA StoresItself ==
  ASSUME PopupInv, PopupNext, NEW j \in Jobs, Adds(j), job[j].stage = "deriving",
         job'[j].op = job[j].op, job'[j].stage = "saved"
  PROVE  Saves(j)
<1>1. job \in [Jobs -> Handlers] /\ job[j].op \in {"create", "import"}
  BY DEF PopupInv, PopupTyped, Adds
<1>2. job' # job
  OBVIOUS
<1>3. ~ClosesPopup
  BY <1>1 DEF ClosesPopup, NoJob
<1>4. \A k \in Jobs : job' = [job EXCEPT ![k] = NoJob] => FALSE
  BY <1>1 DEF NoJob
<1>5. \A k \in Jobs : \A R : job' = [job EXCEPT ![k] = R] => k = j /\ R.stage = "saved"
  BY <1>1, <1>2
<1>6. PICK k \in Jobs :
        \/ \E op \in {"create", "import"}, phrase \in BOOLEAN, a \in PopupAccounts :
             Submits(k, op, phrase, a)
        \/ Saves(k) \/ SaveFails(k) \/ ShowsBackup(k) \/ FinishBackup(k)
        \/ \E typed \in {chosen, Nobody} : SubmitsUnlock(k, typed)
        \/ UnlocksImported(k) \/ JobUnlocks(k) \/ UnlockFails(k)
        \/ \E a \in PopupAccounts : SelectsAccount(k, a)
        \/ RemovesAccount(k) \/ KeyGoes(k) \/ Reveals(k)
        \/ \E what \in {"key", "phrase"} : SubmitsReveal(k, what)
  BY <1>2, <1>3 DEF PopupNext, OpensPopup, WorkerForgets, Goes, PicksHow, GoesBack, Lock,
                    ContinuesToName, TogglesSettings, Hides, memory
<1>7. ~(SaveFails(k) \/ ShowsBackup(k) \/ JobUnlocks(k) \/ UnlockFails(k) \/ KeyGoes(k) \/ Reveals(k))
  BY <1>4 DEF SaveFails, ShowsBackup, JobUnlocks, UnlockFails, KeyGoes, Reveals, JobEnds
<1>8. ~(\/ \E op \in {"create", "import"}, phrase \in BOOLEAN, a \in PopupAccounts :
             Submits(k, op, phrase, a)
        \/ FinishBackup(k) \/ RemovesAccount(k)
        \/ \E typed \in {chosen, Nobody} : SubmitsUnlock(k, typed)
        \/ \E a \in PopupAccounts : SelectsAccount(k, a)
        \/ \E what \in {"key", "phrase"} : SubmitsReveal(k, what))
  BY <1>1, <1>5 DEF Submits, FinishBackup, RemovesAccount, SubmitsUnlock, SelectsAccount,
                    SubmitsReveal, Starts, NoJob
<1>9. ~UnlocksImported(k)
  BY <1>1, <1>5 DEF UnlocksImported
<1>10. Saves(k)
  BY <1>6, <1>7, <1>8, <1>9
<1> QED BY <1>1, <1>2, <1>5, <1>10 DEF Saves

(* Adding an account drops none as long as the user adds one after the      *)
(* other, whatever screens were gone through and however late the handlers  *)
(* end (popup.ts: form-create and form-import submit, renderChoose).        *)
THEOREM AddingKeeps == PopupSpec => AddingKeepsAccounts
<1>1. PopupInv /\ [PopupNext]_popupVars =>
        [\A j \in Jobs :
           UserWaits /\ Adds(j) /\ job[j].stage = "deriving"
             /\ job'[j].op = job[j].op /\ job'[j].stage = "saved"
           => accounts \subseteq accounts']_popupVars
  BY StoresItself, SavesKeeps
<1> QED
  BY <1>1, PopupStarts, PopupKeeps, PTL DEF PopupSpec, AddingKeepsAccounts

-----------------------------------------------------------------------------
(***************************************************************************)
(* The gateway's limiter, for every set of requests and of isolates, every *)
(* limit and every length of the minute.                                   *)
(***************************************************************************)
Early == {"none", "asked", "getting", "counting"}
Ways  == Early \cup {"upstream", "limited", "answered"}
Reading == [since : Nat, count : Nat]
Bucket  == [count : Nat, end : Nat]

CountedSince(t) == {q \in Queries : counted[q] # NoCount /\ counted[q] >= t}
SoFar(t) == Cardinality(CountedSince(t))

GatewayTyped ==
  /\ tick \in 0 .. LastTick
  /\ at \in [Queries -> Ways]
  /\ counted \in [Queries -> Nat \cup {NoCount}]
  /\ read \in [Queries -> Reading \cup {NoCount}]
  /\ isolate = [r \in Queries |-> isolate[r]]
  /\ soft \in [Isolates -> Bucket \cup {NoCount}]
  /\ kv \in [0 .. MinuteOf(LastTick) -> SUBSET Nat]

(* A request counts once, after the limiter has looked at the clock for it. *)
StagesFit == \A r \in Queries :
  /\ at[r] \in Early => counted[r] = NoCount
  /\ at[r] \in {"asked", "getting", "counting"} => isolate[r] \in Isolates
  /\ at[r] \in {"getting", "counting"} => read[r] \in Reading
  /\ read[r] # NoCount => read[r].since <= tick

(* No count is ahead of the requests that counted in its minute.            *)
StoreIsBehind == \A m \in DOMAIN kv : \A n \in kv[m] : n <= SoFar(m * Minute)
ReadIsBehind  == \A r \in Queries : at[r] = "counting" => read[r].count <= SoFar(KeyMinute(r) * Minute)
SoftIsBehind  == \A i \in Isolates : soft[i] # NoCount =>
  \E t \in Nat : soft[i].end = t + Minute /\ t <= tick /\ soft[i].count <= SoFar(t)

GatewayInv == GatewayTyped /\ StagesFit /\ StoreIsBehind /\ ReadIsBehind /\ SoftIsBehind

(* The minute of a tick.                                                    *)
LEMMA MinuteFacts ==
  ASSUME NEW t \in 0 .. LastTick
  PROVE  /\ MinuteOf(t) \in 0 .. MinuteOf(LastTick)
         /\ MinuteOf(t) * Minute \in Nat
         /\ MinuteOf(t) * Minute <= t /\ t < MinuteOf(t) * Minute + Minute
BY GatewayAssumption DEF MinuteOf

LEMMA SoFarIsNumber ==
  ASSUME NEW t
  PROVE  SoFar(t) \in Nat
<1>1. CountedSince(t) \in SUBSET Queries
  BY DEF CountedSince
<1> QED
  BY <1>1, GatewayAssumption, FS_Subset, FS_CardinalityType DEF SoFar

(* What has counted can be counted, and becomes more.                       *)
LEMMA MoreCounted ==
  ASSUME GatewayInv, NEW r \in Queries,
         counted' = counted \/ (at[r] \in Early /\ counted' = [counted EXCEPT ![r] = tick])
  PROVE  /\ \A t \in Nat : SoFar(t) \in Nat /\ SoFar(t)' \in Nat /\ SoFar(t) <= SoFar(t)'
         /\ at[r] \in Early /\ counted' = [counted EXCEPT ![r] = tick] =>
              \A t \in 0 .. tick : SoFar(t)' = SoFar(t) + 1
         /\ counted' \in [Queries -> Nat \cup {NoCount}]
         /\ \A q \in Queries : q # r => counted'[q] = counted[q]
<1>1. /\ tick \in Nat /\ tick # NoCount /\ counted \in [Queries -> Nat \cup {NoCount}]
      /\ at[r] \in Early => counted[r] = NoCount
  BY GatewayAssumption DEF GatewayInv, GatewayTyped, StagesFit
<1>2. \A t \in Nat : IsFiniteSet(CountedSince(t)) /\ IsFiniteSet(CountedSince(t)')
  <2>1. \A t : CountedSince(t) \in SUBSET Queries /\ CountedSince(t)' \in SUBSET Queries
    BY DEF CountedSince
  <2> QED BY <2>1, GatewayAssumption, FS_Subset
<1>3. /\ counted' \in [Queries -> Nat \cup {NoCount}]
      /\ \A q \in Queries : q # r => counted'[q] = counted[q]
      /\ counted'[r] = counted[r] \/ (at[r] \in Early /\ counted'[r] = tick)
  <2>1. CASE counted' = counted
    BY <1>1, <2>1
  <2>2. CASE at[r] \in Early /\ counted' = [counted EXCEPT ![r] = tick]
    BY <1>1, <2>2
  <2> QED BY <2>1, <2>2
<1>4. \A t \in Nat : CountedSince(t) \in SUBSET (CountedSince(t)')
  BY <1>1, <1>3 DEF CountedSince
<1>5. ASSUME at[r] \in Early, counted' = [counted EXCEPT ![r] = tick], NEW t \in 0 .. tick
      PROVE  CountedSince(t)' = CountedSince(t) \cup {r} /\ r \notin CountedSince(t)
  <2>1. counted'[r] = tick /\ counted[r] = NoCount
    BY <1>1, <1>5
  <2> QED BY <1>1, <1>5, <1>3, <2>1 DEF CountedSince
<1>6. ASSUME NEW t \in Nat
      PROVE  SoFar(t) \in Nat /\ SoFar(t)' \in Nat /\ SoFar(t) <= SoFar(t)'
  <2>1. SoFar(t) = Cardinality(CountedSince(t)) /\ SoFar(t)' = Cardinality(CountedSince(t)')
    BY DEF SoFar
  <2>2. IsFiniteSet(CountedSince(t)) /\ IsFiniteSet(CountedSince(t)')
    BY <1>2
  <2> QED
    BY <1>4, <2>1, <2>2, FS_Subset, FS_CardinalityType
<1>7. ASSUME at[r] \in Early, counted' = [counted EXCEPT ![r] = tick], NEW t \in 0 .. tick
      PROVE  SoFar(t)' = SoFar(t) + 1
  <2>1. SoFar(t) = Cardinality(CountedSince(t)) /\ SoFar(t)' = Cardinality(CountedSince(t)')
    BY DEF SoFar
  <2>2. IsFiniteSet(CountedSince(t)) /\ t \in Nat
    BY <1>1, <1>2
  <2> QED
    BY <1>5, <1>7, <2>1, <2>2, FS_AddElement
<1> QED
  BY <1>6, <1>7, <1>3

LEMMA GatewayStarts ==
  ASSUME GatewayInit
  PROVE  GatewayInv
<1>1. MinuteOf(LastTick) \in Nat
  BY GatewayAssumption DEF MinuteOf
<1>2. GatewayTyped /\ StagesFit
  BY <1>1, GatewayAssumption DEF GatewayInit, GatewayTyped, StagesFit, Ways, Early
<1>3. \A t \in Nat : 0 <= SoFar(t)
  <2>1. \A t : CountedSince(t) = {}
    BY DEF GatewayInit, CountedSince
  <2> QED BY <2>1, FS_EmptySet DEF SoFar
<1>4. \A m \in DOMAIN kv : m * Minute \in Nat /\ kv[m] = {0}
  BY <1>1, GatewayAssumption DEF GatewayInit
<1>5. StoreIsBehind
  BY <1>3, <1>4 DEF StoreIsBehind
<1> QED
  BY <1>2, <1>5 DEF GatewayInit, GatewayInv, ReadIsBehind, SoftIsBehind

(* What a request does changes nothing for the others.                      *)
LEMMA OthersFit ==
  ASSUME GatewayInv, NEW r \in Queries,
         counted' = counted \/ (at[r] \in Early /\ counted' = [counted EXCEPT ![r] = tick]),
         UNCHANGED tick,
         at' = [q \in Queries |-> at'[q]], read' = [q \in Queries |-> read'[q]],
         isolate' = [q \in Queries |-> isolate'[q]],
         \A q \in Queries : q # r =>
           at'[q] = at[q] /\ read'[q] = read[q] /\ isolate'[q] = isolate[q],
         at'[r] \in Ways, read'[r] \in Reading \cup {NoCount},
         at'[r] \in Early => counted' = counted /\ at[r] \in Early,
         at'[r] \in {"asked", "getting", "counting"} => isolate'[r] \in Isolates,
         at'[r] \in {"getting", "counting"} => read'[r] \in Reading,
         read'[r] # NoCount => read'[r].since <= tick,
         at'[r] = "counting" =>
           \E k \in Nat : KeyMinute(r)' = k /\ read'[r].count <= SoFar(k * Minute)
  PROVE  /\ at' \in [Queries -> Ways] /\ read' \in [Queries -> Reading \cup {NoCount}]
         /\ counted' \in [Queries -> Nat \cup {NoCount}]
         /\ StagesFit' /\ ReadIsBehind'
<1>1. /\ at \in [Queries -> Ways] /\ read \in [Queries -> Reading \cup {NoCount}]
      /\ tick \in 0 .. LastTick /\ StagesFit /\ ReadIsBehind
  BY DEF GatewayInv, GatewayTyped
<1>2. /\ \A t \in Nat : SoFar(t) \in Nat /\ SoFar(t)' \in Nat /\ SoFar(t) <= SoFar(t)'
      /\ counted' \in [Queries -> Nat \cup {NoCount}]
      /\ \A q \in Queries : q # r => counted'[q] = counted[q]
  BY MoreCounted
<1>3. /\ at' \in [Queries -> Ways] /\ read' \in [Queries -> Reading \cup {NoCount}]
  BY <1>1
<1>4. StagesFit'
  <2> SUFFICES ASSUME NEW q \in Queries
               PROVE  /\ at'[q] \in Early => counted'[q] = NoCount
                      /\ at'[q] \in {"asked", "getting", "counting"} => isolate'[q] \in Isolates
                      /\ at'[q] \in {"getting", "counting"} => read'[q] \in Reading
                      /\ read'[q] # NoCount => read'[q].since <= tick
    BY DEF StagesFit
  <2>1. CASE q = r
    BY <1>1, <2>1 DEF StagesFit
  <2>2. CASE q # r
    BY <1>1, <1>2, <2>2 DEF StagesFit
  <2> QED BY <2>1, <2>2
<1>5. \A k \in Nat : k * Minute \in Nat
  BY GatewayAssumption
<1>6. ReadIsBehind'
  <2> SUFFICES ASSUME NEW q \in Queries, at'[q] = "counting"
               PROVE  read'[q].count <= SoFar(KeyMinute(q) * Minute)'
    BY DEF ReadIsBehind
  <2>1. PICK k \in Nat : KeyMinute(q)' = k /\ read'[q].count <= SoFar(k * Minute)
    <3>1. CASE q = r
      BY <3>1
    <3>2. CASE q # r
      <4>1. read[q] \in Reading /\ read[q] # NoCount
        BY <1>1, <3>2, GatewayAssumption DEF StagesFit, Reading
      <4>2. read[q].since \in 0 .. LastTick /\ read'[q] = read[q] /\ at[q] = "counting"
        BY <1>1, <3>2, <4>1, GatewayAssumption DEF StagesFit, Reading
      <4>3. KeyMinute(q)' = KeyMinute(q) /\ KeyMinute(q) \in Nat
        BY <4>2, MinuteFacts DEF KeyMinute
      <4> QED BY <1>1, <4>2, <4>3 DEF ReadIsBehind
    <3> QED BY <3>1, <3>2
  <2>2. read'[q].count \in Nat
    <3>1. read'[q] \in Reading
      BY <1>4 DEF StagesFit
    <3> QED BY <3>1 DEF Reading
  <2> DEFINE t == k * Minute
  <2>3. t \in Nat /\ read'[q].count <= SoFar(t)
    BY <1>5, <2>1
  <2> HIDE DEF t
  <2>4. read'[q].count <= SoFar(t)'
    BY <1>2, <2>2, <2>3
  <2>5. SoFar(KeyMinute(q) * Minute)' = SoFar(t)'
    BY <2>1 DEF t
  <2> QED BY <2>4, <2>5
<1> QED
  BY <1>2, <1>3, <1>4, <1>6

(* What a request does that does not touch the counters.                    *)
LEMMA UncountedStep ==
  ASSUME GatewayInv, NEW r \in Queries,
         counted' = counted \/ (at[r] \in Early /\ counted' = [counted EXCEPT ![r] = tick]),
         UNCHANGED <<kv, soft>>, tick' \in tick .. LastTick
  PROVE  /\ StoreIsBehind' /\ SoftIsBehind'
<1>1. \A t \in Nat : SoFar(t) \in Nat /\ SoFar(t)' \in Nat /\ SoFar(t) <= SoFar(t)'
  BY MoreCounted
<1>2. \A m \in DOMAIN kv : m * Minute \in Nat /\ kv[m] \in SUBSET Nat
  BY GatewayAssumption DEF GatewayInv, GatewayTyped, MinuteOf
<1>3. StoreIsBehind'
  BY <1>1, <1>2 DEF GatewayInv, StoreIsBehind
<1>4. SoftIsBehind'
  BY <1>1 DEF GatewayInv, GatewayTyped, SoftIsBehind, Bucket
<1> QED
  BY <1>3, <1>4

(* checkSoftRateLimit, with what is noted of the request.                   *)
LEMMA SoftStep ==
  ASSUME GatewayInv, NEW r \in Queries, NEW written \in BOOLEAN,
         at[r] \in {"asked", "getting", "counting"},
         CheckSoft(r), NotesCount(r, written), UNCHANGED tick
  PROVE  /\ soft' \in [Isolates -> Bucket \cup {NoCount}] /\ SoftIsBehind'
         /\ at' \in [Queries -> Ways] /\ at'[r] \in {"upstream", "limited"}
         /\ \A q \in Queries : q # r => at'[q] = at[q]
         /\ counted' \in {counted, [counted EXCEPT ![r] = tick]}
         /\ written => counted' = [counted EXCEPT ![r] = tick]
<1> DEFINE i == isolate[r]
<1>1. /\ i \in Isolates /\ at[r] \in Early /\ tick \in Nat
      /\ at \in [Queries -> Ways] /\ soft \in [Isolates -> Bucket \cup {NoCount}]
      /\ NoCount \notin Bucket
  BY GatewayAssumption DEF GatewayInv, GatewayTyped, StagesFit, Early, Bucket
<1>2. /\ counted' \in {counted, [counted EXCEPT ![r] = tick]}
      /\ written \/ at'[r] = "upstream" => counted' = [counted EXCEPT ![r] = tick]
  BY DEF NotesCount
<1>3. /\ \A t \in Nat : SoFar(t) \in Nat /\ SoFar(t)' \in Nat /\ SoFar(t) <= SoFar(t)'
      /\ counted' = [counted EXCEPT ![r] = tick] => \A t \in 0 .. tick : SoFar(t)' = SoFar(t) + 1
  BY <1>1, <1>2, MoreCounted
<1>4. \A j \in Isolates : j # i /\ soft'[j] = soft[j] /\ soft[j] # NoCount =>
        \E t \in Nat : soft'[j].end = t + Minute /\ t <= tick' /\ soft'[j].count <= SoFar(t)'
  BY <1>1, <1>3 DEF GatewayInv, SoftIsBehind, Bucket
<1>5. CASE Renewed(i)
  <2>1. /\ soft' = [soft EXCEPT ![i] = [count |-> 1, end |-> tick + Minute]]
        /\ at' = [at EXCEPT ![r] = "upstream"]
    BY <1>5 DEF CheckSoft, LetThrough
  <2>2. [count |-> 1, end |-> tick + Minute] \in Bucket
    BY <1>1, GatewayAssumption DEF Bucket
  <2>3. at'[r] = "upstream" /\ at' \in [Queries -> Ways]
        /\ \A q \in Queries : q # r => at'[q] = at[q]
    BY <1>1, <2>1 DEF Ways
  <2>4. 1 <= SoFar(tick)'
    <3>1. SoFar(tick)' = SoFar(tick) + 1 /\ SoFar(tick) \in Nat
      BY <1>1, <1>2, <1>3, <2>3
    <3> QED BY <3>1
  <2>5. soft' \in [Isolates -> Bucket \cup {NoCount}] /\ SoftIsBehind'
    <3>1. /\ soft' \in [Isolates -> Bucket \cup {NoCount}]
          /\ soft'[i].end = tick + Minute /\ soft'[i].count = 1
          /\ \A j \in Isolates : j # i => soft'[j] = soft[j]
      BY <1>1, <2>1, <2>2
    <3> QED BY <1>1, <1>4, <2>4, <3>1 DEF SoftIsBehind
  <2> QED BY <1>2, <2>3, <2>5
<1>6. CASE ~Renewed(i)
  <2>1. soft[i] # NoCount /\ soft[i] \in Bucket
    BY <1>1, <1>6 DEF Renewed
  <2>2. PICK t \in Nat : soft[i].end = t + Minute /\ t <= tick /\ soft[i].count <= SoFar(t)
    BY <1>1, <2>1 DEF GatewayInv, SoftIsBehind
  <2>3. CASE soft[i].count >= Limit
    <3>1. soft' = soft /\ at' = [at EXCEPT ![r] = "limited"]
      BY <1>6, <2>3 DEF CheckSoft, Limited, Answered
    <3>2. at'[r] = "limited" /\ at' \in [Queries -> Ways]
          /\ \A q \in Queries : q # r => at'[q] = at[q]
      BY <1>1, <3>1 DEF Ways
    <3>3. soft'[i].end = t + Minute /\ t <= tick' /\ soft'[i].count <= SoFar(t)'
      BY <1>3, <2>1, <2>2, <3>1 DEF Bucket
    <3>4. SoftIsBehind'
      BY <1>4, <3>1, <3>3 DEF SoftIsBehind
    <3> QED BY <1>1, <1>2, <3>1, <3>2, <3>4
  <2>4. CASE ~(soft[i].count >= Limit)
    <3>1. /\ soft' = [soft EXCEPT ![i].count = @ + 1]
          /\ at' = [at EXCEPT ![r] = "upstream"]
      BY <1>6, <2>4 DEF CheckSoft, LetThrough
    <3>2. at'[r] = "upstream" /\ at' \in [Queries -> Ways]
          /\ \A q \in Queries : q # r => at'[q] = at[q]
      BY <1>1, <3>1 DEF Ways
    <3>3. /\ soft' \in [Isolates -> Bucket \cup {NoCount}]
          /\ soft'[i].end = soft[i].end /\ soft'[i].count = soft[i].count + 1
          /\ \A j \in Isolates : j # i => soft'[j] = soft[j]
      BY <1>1, <2>1, <3>1 DEF Bucket
    <3>4. SoFar(t)' = SoFar(t) + 1 /\ SoFar(t) \in Nat
      BY <1>1, <1>2, <1>3, <2>2, <3>2
    <3>5. soft'[i].end = t + Minute /\ t <= tick' /\ soft'[i].count <= SoFar(t)'
      BY <2>1, <2>2, <3>3, <3>4 DEF Bucket
    <3>6. SoftIsBehind'
      BY <1>4, <3>3, <3>5 DEF SoftIsBehind
    <3> QED BY <1>2, <3>2, <3>3, <3>6
  <2> QED BY <2>3, <2>4
<1> QED BY <1>5, <1>6

(* What is written into the store counts the request that writes it.        *)
LEMMA StoreStep ==
  ASSUME GatewayInv, NEW r \in Queries, NEW written \in BOOLEAN, at[r] \in Early,
         written => at[r] = "counting" /\ counted' = [counted EXCEPT ![r] = tick],
         counted' \in {counted, [counted EXCEPT ![r] = tick]},
         kv' = IF written THEN WithCount(r) ELSE kv
  PROVE  kv' \in [0 .. MinuteOf(LastTick) -> SUBSET Nat] /\ StoreIsBehind'
<1>1. kv \in [0 .. MinuteOf(LastTick) -> SUBSET Nat] /\ StoreIsBehind /\ tick \in 0 .. LastTick
  BY DEF GatewayInv, GatewayTyped
<1>2. \A t \in Nat : SoFar(t) \in Nat /\ SoFar(t)' \in Nat /\ SoFar(t) <= SoFar(t)'
  BY MoreCounted
<1>3. MinuteOf(LastTick) \in Nat /\ \A m \in Nat : m * Minute \in Nat
  BY GatewayAssumption DEF MinuteOf
<1>4. \A m \in DOMAIN kv : \A n \in kv[m] : n \in Nat /\ n <= SoFar(m * Minute)'
  <2> SUFFICES ASSUME NEW m \in DOMAIN kv, NEW n \in kv[m]
               PROVE  n \in Nat /\ n <= SoFar(m * Minute)'
    OBVIOUS
  <2>1. n \in Nat /\ m \in Nat /\ n <= SoFar(m * Minute)
    <3>1. m \in 0 .. MinuteOf(LastTick) /\ kv[m] \in SUBSET Nat
      BY <1>1
    <3>2. n <= SoFar(m * Minute)
      BY <1>1, Zenon DEF StoreIsBehind
    <3> QED BY <1>3, <3>1, <3>2
  <2> DEFINE t == m * Minute
  <2>2. t \in Nat /\ n <= SoFar(t)
    BY <1>3, <2>1
  <2> HIDE DEF t
  <2>3. n <= SoFar(t)'
    BY <1>2, <2>1, <2>2
  <2> QED BY <2>1, <2>3 DEF t
<1>5. CASE ~written
  BY <1>1, <1>4, <1>5 DEF StoreIsBehind
<1>6. CASE written
  <2> PICK k, n : k = KeyMinute(r) /\ n = read[r].count + 1
    OBVIOUS
  <2>1. read[r] \in Reading /\ read[r].since \in 0 .. LastTick /\ read[r].since <= tick
        /\ read[r].count <= SoFar(k * Minute)
    <3>1. read[r] \in Reading
      BY <1>6 DEF GatewayInv, StagesFit
    <3>2. read[r] # NoCount
      BY <3>1, GatewayAssumption DEF Reading
    <3>3. read[r].since <= tick /\ read[r].count <= SoFar(k * Minute)
      BY <1>6, <3>2 DEF GatewayInv, StagesFit, ReadIsBehind
    <3> QED BY <1>1, <3>1, <3>3, GatewayAssumption DEF Reading
  <2>2. k \in 0 .. MinuteOf(LastTick) /\ k * Minute \in 0 .. tick
    BY <1>1, <2>1, MinuteFacts DEF KeyMinute
  <2>3. SoFar(k * Minute)' = SoFar(k * Minute) + 1 /\ SoFar(k * Minute) \in Nat
    <3> DEFINE t == k * Minute
    <3>1. t \in 0 .. tick /\ t \in Nat
      BY <1>1, <2>2
    <3>2. \A u \in 0 .. tick : SoFar(u)' = SoFar(u) + 1
      BY <1>6, MoreCounted
    <3> HIDE DEF t
    <3>3. SoFar(t)' = SoFar(t) + 1 /\ SoFar(t) \in Nat
      BY <1>2, <3>1, <3>2
    <3> QED BY <3>3 DEF t
  <2>4. n \in Nat /\ n <= SoFar(k * Minute)'
    BY <2>1, <2>3 DEF Reading
  <2>5. kv' = [kv EXCEPT ![k] = @ \cup {n}]
    BY <1>6 DEF WithCount
  <2>6. kv' \in [0 .. MinuteOf(LastTick) -> SUBSET Nat]
    BY <1>1, <2>2, <2>4, <2>5
  <2>7. \A m \in DOMAIN kv' : \A c \in kv'[m] : c \in kv[m] \/ (m = k /\ c = n)
    <3> SUFFICES ASSUME NEW m \in DOMAIN kv, NEW c \in kv'[m]
                 PROVE  c \in kv[m] \/ (m = k /\ c = n)
      BY <1>1, <2>6
    <3>1. kv'[m] = IF m = k THEN kv[m] \cup {n} ELSE kv[m]
      BY <2>5
    <3> QED BY <3>1
  <2>8. StoreIsBehind'
    <3> SUFFICES ASSUME NEW m \in DOMAIN kv', NEW c \in kv'[m]
                 PROVE  c <= SoFar(m * Minute)'
      BY DEF StoreIsBehind
    <3>1. CASE c \in kv[m]
      BY <1>1, <1>4, <2>6, <3>1
    <3>2. CASE m = k /\ c = n
      BY <2>4, <3>2
    <3> QED BY <2>7, <3>1, <3>2
  <2> QED BY <2>6, <2>8
<1> QED BY <1>5, <1>6

LEMMA TickKeeps ==
  ASSUME GatewayInv, tick' \in tick .. LastTick,
         UNCHANGED <<at, isolate, read, kv, soft, counted>>
  PROVE  GatewayInv'
<1>1. \A t : SoFar(t)' = SoFar(t)
  BY DEF SoFar, CountedSince
<1>2. tick \in Nat /\ tick' \in 0 .. LastTick /\ tick <= tick'
  BY GatewayAssumption DEF GatewayInv, GatewayTyped
<1>3. GatewayTyped'
  BY <1>2 DEF GatewayInv, GatewayTyped
<1>4. StagesFit'
  <2> SUFFICES ASSUME NEW r \in Queries, read[r] # NoCount PROVE read[r].since <= tick'
    BY DEF GatewayInv, StagesFit
  <2>1. read[r] \in Reading /\ read[r].since <= tick
    BY DEF GatewayInv, GatewayTyped, StagesFit
  <2> QED BY <1>2, <2>1 DEF Reading
<1>5. StoreIsBehind'
  BY <1>1 DEF GatewayInv, StoreIsBehind
<1>6. ReadIsBehind'
  BY <1>1 DEF GatewayInv, ReadIsBehind, KeyMinute, MinuteOf
<1>7. SoftIsBehind'
  BY <1>1, <1>2 DEF GatewayInv, SoftIsBehind
<1> QED
  BY <1>3, <1>4, <1>5, <1>6, <1>7 DEF GatewayInv

(* The cache and the node, which answer a request.                          *)
LEMMA AnsweredKeeps ==
  ASSUME GatewayInv, NEW r \in Queries,
         AnswersItself(r) \/ Denies(r) \/ LooksInCache(r) \/ NodeAnswers(r) \/ NodeUnreachable(r)
  PROVE  GatewayInv'
<1>1. UNCHANGED <<tick, read, kv, soft, counted>>
  BY DEF AnswersItself, Denies, LooksInCache, NodeAnswers, NodeUnreachable, Unlimited
<1>2. \/ /\ at' = [at EXCEPT ![r] = "answered"]
         /\ isolate' = isolate
      \/ /\ at[r] = "none" /\ at' = [at EXCEPT ![r] = "asked"]
         /\ \E i \in Isolates : isolate' = [isolate EXCEPT ![r] = i]
  BY DEF AnswersItself, Denies, LooksInCache, NodeAnswers, NodeUnreachable, Unlimited, Answered
<1>3. /\ at \in [Queries -> Ways] /\ isolate = [q \in Queries |-> isolate[q]]
      /\ read \in [Queries -> Reading \cup {NoCount}] /\ tick \in 0 .. LastTick
      /\ read[r] # NoCount => read[r].since <= tick
  BY DEF GatewayInv, GatewayTyped, StagesFit
<1>4. /\ at' = [q \in Queries |-> at'[q]] /\ isolate' = [q \in Queries |-> isolate'[q]]
      /\ \A q \in Queries : q # r => at'[q] = at[q] /\ isolate'[q] = isolate[q]
      /\ \/ at'[r] = "answered"
         \/ at[r] = "none" /\ at'[r] = "asked" /\ isolate'[r] \in Isolates
  BY <1>2, <1>3
<1>5. /\ at' \in [Queries -> Ways] /\ read' \in [Queries -> Reading \cup {NoCount}]
      /\ counted' \in [Queries -> Nat \cup {NoCount}]
      /\ StagesFit' /\ ReadIsBehind'
  <2>1. at'[r] \in Ways /\ at'[r] # "counting" /\ at'[r] # "getting"
        /\ (at'[r] \in Early => counted' = counted /\ at[r] \in Early)
        /\ (at'[r] \in {"asked", "getting", "counting"} => isolate'[r] \in Isolates)
    BY <1>1, <1>4 DEF Ways, Early
  <2> QED BY <1>1, <1>3, <1>4, <2>1, OthersFit
<1>6. StoreIsBehind' /\ SoftIsBehind'
  BY <1>1, <1>3, UncountedStep
<1> QED
  BY <1>1, <1>4, <1>5, <1>6 DEF GatewayInv, GatewayTyped

(* The limiter asks the store, or lets the request through.                 *)
LEMMA AsksKeeps ==
  ASSUME GatewayInv, NEW r \in Queries, AsksStore(r) \/ FailsOpen(r)
  PROVE  GatewayInv'
<1>1. at[r] = "asked" /\ UNCHANGED <<tick, isolate, kv, soft>>
  BY DEF AsksStore, FailsOpen
<1>2. /\ at \in [Queries -> Ways] /\ isolate = [q \in Queries |-> isolate[q]]
      /\ read \in [Queries -> Reading \cup {NoCount}] /\ tick \in 0 .. LastTick /\ tick \in Nat
      /\ isolate[r] \in Isolates /\ (read[r] # NoCount => read[r].since <= tick)
      /\ at[r] \in Early
  BY <1>1, GatewayAssumption DEF GatewayInv, GatewayTyped, StagesFit, Early
<1>3. \/ /\ at'[r] = "getting" /\ counted' = counted
         /\ read' = [read EXCEPT ![r] = [since |-> tick, count |-> 0]]
         /\ at' = [at EXCEPT ![r] = "getting"]
      \/ /\ at'[r] = "upstream" /\ read' = read
         /\ counted' = [counted EXCEPT ![r] = tick]
         /\ at' = [at EXCEPT ![r] = "upstream"]
  BY <1>2 DEF AsksStore, FailsOpen, LetThrough, NotesCount
<1>4. [since |-> tick, count |-> 0] \in Reading
  BY <1>2 DEF Reading
<1>5. /\ at' = [q \in Queries |-> at'[q]] /\ read' = [q \in Queries |-> read'[q]]
      /\ \A q \in Queries : q # r => at'[q] = at[q] /\ read'[q] = read[q]
      /\ at'[r] \in Ways /\ at'[r] # "counting"
      /\ read'[r] \in Reading \cup {NoCount}
      /\ (at'[r] = "getting" => read'[r] \in Reading)
      /\ (read'[r] # NoCount => read'[r].since <= tick)
  BY <1>2, <1>3, <1>4 DEF Ways, Early
<1>6. at'[r] \in Early => counted' = counted
  BY <1>3 DEF Early
<1>7. counted' = counted \/ (at[r] \in Early /\ counted' = [counted EXCEPT ![r] = tick])
  BY <1>2, <1>3
<1>8. /\ at' \in [Queries -> Ways] /\ read' \in [Queries -> Reading \cup {NoCount}]
      /\ counted' \in [Queries -> Nat \cup {NoCount}]
      /\ StagesFit' /\ ReadIsBehind'
  BY <1>1, <1>2, <1>5, <1>6, <1>7, OthersFit
<1>9. StoreIsBehind' /\ SoftIsBehind'
  BY <1>1, <1>2, <1>7, UncountedStep
<1> QED
  BY <1>1, <1>8, <1>9 DEF GatewayInv, GatewayTyped

(* The store gives a count.                                                 *)
LEMMA GetsKeeps ==
  ASSUME GatewayInv, NEW r \in Queries, StoreGets(r)
  PROVE  GatewayInv'
<1>1. at[r] = "getting" /\ UNCHANGED <<tick, isolate, kv, soft, counted>>
  BY DEF StoreGets
<1>2. /\ at \in [Queries -> Ways] /\ isolate = [q \in Queries |-> isolate[q]]
      /\ read \in [Queries -> Reading \cup {NoCount}] /\ tick \in 0 .. LastTick /\ tick \in Nat
      /\ isolate[r] \in Isolates /\ at[r] \in Early
      /\ read[r] \in Reading /\ read[r] # NoCount /\ read[r].since <= tick
      /\ kv \in [0 .. MinuteOf(LastTick) -> SUBSET Nat]
  BY <1>1, GatewayAssumption DEF GatewayInv, GatewayTyped, StagesFit, Early, Reading
<1>3. read[r].since \in 0 .. LastTick
  BY <1>2, GatewayAssumption DEF Reading
<1>4. KeyMinute(r) \in 0 .. MinuteOf(LastTick) /\ KeyMinute(r) \in Nat
  BY <1>3, MinuteFacts DEF KeyMinute
<1>5. PICK n \in kv[KeyMinute(r)] :
        \/ at' = [at EXCEPT ![r] = "limited"] /\ read' = read
        \/ at' = [at EXCEPT ![r] = "counting"] /\ read' = [read EXCEPT ![r].count = n]
  BY DEF StoreGets, Limited, Answered
<1>6. n \in Nat /\ n <= SoFar(KeyMinute(r) * Minute)
  BY <1>2, <1>4 DEF GatewayInv, StoreIsBehind
<1>7. /\ at' = [q \in Queries |-> at'[q]] /\ read' = [q \in Queries |-> read'[q]]
      /\ \A q \in Queries : q # r => at'[q] = at[q] /\ read'[q] = read[q]
      /\ at'[r] \in {"limited", "counting"}
      /\ read'[r] \in Reading /\ read'[r].since = read[r].since
      /\ (at'[r] = "counting" => read'[r].count = n)
  BY <1>2, <1>5, <1>6 DEF Reading
<1>8. KeyMinute(r)' = KeyMinute(r)
  BY <1>7 DEF KeyMinute, MinuteOf
<1>9. at'[r] = "counting" =>
        \E k \in Nat : KeyMinute(r)' = k /\ read'[r].count <= SoFar(k * Minute)
  BY <1>4, <1>6, <1>7, <1>8
<1>10. /\ at' \in [Queries -> Ways] /\ read' \in [Queries -> Reading \cup {NoCount}]
       /\ counted' \in [Queries -> Nat \cup {NoCount}]
       /\ StagesFit' /\ ReadIsBehind'
  <2>1. /\ at'[r] \in Ways /\ (at'[r] \in Early => counted' = counted /\ at[r] \in Early)
        /\ read'[r] \in Reading \cup {NoCount} /\ read'[r].since <= tick
        /\ isolate'[r] \in Isolates
    BY <1>1, <1>2, <1>7 DEF Ways, Early
  <2> QED BY <1>1, <1>2, <1>7, <1>9, <2>1, OthersFit
<1>11. StoreIsBehind' /\ SoftIsBehind'
  BY <1>1, <1>2, UncountedStep
<1> QED
  BY <1>1, <1>10, <1>11 DEF GatewayInv, GatewayTyped

(* A request is counted, in the store or by the isolate.                    *)
LEMMA CountsKeep ==
  ASSUME GatewayInv, NEW r \in Queries, CountsSoftly(r) \/ StorePuts(r) \/ StoreFails(r)
  PROVE  GatewayInv'
<1>1. at[r] \in {"asked", "getting", "counting"} /\ at[r] \in Early
      /\ UNCHANGED <<tick, isolate, read>>
  BY DEF CountsSoftly, StorePuts, StoreFails, Early
<1>2. /\ at \in [Queries -> Ways] /\ isolate = [q \in Queries |-> isolate[q]]
      /\ read \in [Queries -> Reading \cup {NoCount}] /\ tick \in 0 .. LastTick
      /\ (read[r] # NoCount => read[r].since <= tick)
  BY <1>1 DEF GatewayInv, GatewayTyped, StagesFit
<1>3. \E written \in BOOLEAN :
        /\ written => at[r] = "counting" /\ counted' = [counted EXCEPT ![r] = tick]
        /\ kv' = IF written THEN WithCount(r) ELSE kv
        /\ counted' \in {counted, [counted EXCEPT ![r] = tick]}
        /\ at' \in [Queries -> Ways] /\ at'[r] \in {"upstream", "limited"}
        /\ \A q \in Queries : q # r => at'[q] = at[q]
        /\ soft' \in [Isolates -> Bucket \cup {NoCount}] /\ SoftIsBehind'
  <2>1. CASE CountsSoftly(r)
    <3>1. CheckSoft(r) /\ NotesCount(r, FALSE) /\ kv' = kv
      BY <2>1 DEF CountsSoftly
    <3> QED BY <1>1, <3>1, SoftStep
  <2>2. CASE StorePuts(r)
    <3>1. /\ at[r] = "counting" /\ kv' = WithCount(r) /\ soft' = soft
          /\ counted' = [counted EXCEPT ![r] = tick] /\ at' = [at EXCEPT ![r] = "upstream"]
      BY <2>2 DEF StorePuts, LetThrough, NotesCount
    <3>2. SoftIsBehind'
      <4>1. \A t \in Nat : SoFar(t) \in Nat /\ SoFar(t)' \in Nat /\ SoFar(t) <= SoFar(t)'
        BY <1>1, <3>1, MoreCounted
      <4> QED BY <1>1, <3>1, <4>1 DEF GatewayInv, GatewayTyped, SoftIsBehind, Bucket
    <3>3. at' \in [Queries -> Ways] /\ at'[r] = "upstream"
          /\ \A q \in Queries : q # r => at'[q] = at[q]
      BY <1>2, <3>1 DEF Ways
    <3> QED BY <3>1, <3>2, <3>3 DEF GatewayInv, GatewayTyped
  <2>3. CASE StoreFails(r)
    <3>1. PICK written \in {FALSE, at[r] = "counting"} :
            /\ kv' = IF written THEN WithCount(r) ELSE kv
            /\ NotesCount(r, written)
      BY <2>3 DEF StoreFails
    <3>2. written \in BOOLEAN /\ (written => at[r] = "counting") /\ CheckSoft(r)
      BY <2>3 DEF StoreFails
    <3> QED BY <1>1, <3>1, <3>2, SoftStep
  <2> QED BY <2>1, <2>2, <2>3
<1>4. PICK written \in BOOLEAN :
        /\ written => at[r] = "counting" /\ counted' = [counted EXCEPT ![r] = tick]
        /\ kv' = IF written THEN WithCount(r) ELSE kv
  BY <1>3
<1>5. kv' \in [0 .. MinuteOf(LastTick) -> SUBSET Nat] /\ StoreIsBehind'
  BY <1>1, <1>3, <1>4, StoreStep
<1>6. counted' = counted \/ (at[r] \in Early /\ counted' = [counted EXCEPT ![r] = tick])
  BY <1>1, <1>3
<1>7. /\ at' \in [Queries -> Ways] /\ read' \in [Queries -> Reading \cup {NoCount}]
      /\ counted' \in [Queries -> Nat \cup {NoCount}]
      /\ StagesFit' /\ ReadIsBehind'
  <2>1. at' = [q \in Queries |-> at'[q]] /\ at'[r] \in Ways /\ at'[r] \notin Early
        /\ at'[r] # "counting" /\ at'[r] # "getting" /\ at'[r] # "asked"
        /\ \A q \in Queries : q # r => at'[q] = at[q]
    BY <1>3 DEF Ways, Early
  <2>2. read' = [q \in Queries |-> read'[q]] /\ read'[r] \in Reading \cup {NoCount}
    BY <1>1, <1>2
  <2> QED BY <1>1, <1>2, <1>6, <2>1, <2>2, OthersFit
<1> QED
  BY <1>1, <1>3, <1>5, <1>7 DEF GatewayInv, GatewayTyped

LEMMA GatewayKeeps ==
  ASSUME GatewayInv, [GatewayNext]_gatewayVars
  PROVE  GatewayInv'
<1>1. CASE UNCHANGED gatewayVars \/ CachePuts
  <2>1. UNCHANGED <<tick, at, isolate, read, kv, soft, counted>> /\ tick \in tick .. LastTick
    BY <1>1 DEF gatewayVars, CachePuts, GatewayInv, GatewayTyped
  <2> QED BY <2>1, TickKeeps
<1>2. CASE Tick
  <2>1. UNCHANGED <<at, isolate, read, kv, soft, counted>> /\ tick' \in tick .. LastTick
    BY <1>2, GatewayAssumption DEF Tick, GatewayInv, GatewayTyped
  <2> QED BY <2>1, TickKeeps
<1>3. ASSUME NEW i \in Isolates, IsolateStarts(i)
      PROVE  GatewayInv'
  <2>1. UNCHANGED <<tick, at, isolate, read, kv, counted>> /\ soft' = [soft EXCEPT ![i] = NoCount]
    BY <1>3 DEF IsolateStarts
  <2>2. \A t : SoFar(t)' = SoFar(t)
    BY <2>1 DEF SoFar, CountedSince
  <2>3. \A r \in Queries : KeyMinute(r)' = KeyMinute(r)
    BY <2>1 DEF KeyMinute, MinuteOf
  <2>4. GatewayTyped' /\ StagesFit'
    BY <2>1 DEF GatewayInv, GatewayTyped, StagesFit
  <2>5. SoftIsBehind'
    BY <2>1, <2>2 DEF GatewayInv, GatewayTyped, SoftIsBehind
  <2>6. StoreIsBehind' /\ ReadIsBehind'
    BY <2>1, <2>2, <2>3 DEF GatewayInv, StoreIsBehind, ReadIsBehind
  <2> QED BY <2>4, <2>5, <2>6 DEF GatewayInv
<1> QED
  BY <1>1, <1>2, <1>3, AnsweredKeeps, AsksKeeps, GetsKeeps, CountsKeep DEF GatewayNext

(* Requests that counted since a tick of the window before count against r. *)
LEMMA EnoughCounted ==
  ASSUME GatewayInv, NEW r \in Queries, counted[r] = NoCount,
         NEW t \in Nat, Limit <= SoFar(t), t + Minute >= Since(r)
  PROVE  Cardinality({q \in Queries \ {r} :
                        counted[q] # NoCount /\ counted[q] + Minute >= Since(r)}) >= Limit
<1> DEFINE W == {q \in Queries \ {r} : counted[q] # NoCount /\ counted[q] + Minute >= Since(r)}
<1>1. Since(r) \in Nat /\ counted \in [Queries -> Nat \cup {NoCount}]
  BY GatewayAssumption DEF GatewayInv, GatewayTyped, Since, Reading
<1>2. CountedSince(t) \in SUBSET W
  BY <1>1, GatewayAssumption DEF CountedSince
<1>3. W \in SUBSET Queries
  OBVIOUS
<1> HIDE DEF W
<1>4. IsFiniteSet(W) /\ IsFiniteSet(CountedSince(t))
  BY <1>2, <1>3, GatewayAssumption, FS_Subset
<1>5. Cardinality(CountedSince(t)) <= Cardinality(W)
      /\ Cardinality(W) \in Nat /\ Cardinality(CountedSince(t)) \in Nat
  BY <1>2, <1>4, FS_Subset, FS_CardinalityType
<1>6. Cardinality(W) >= Limit
  BY <1>5, GatewayAssumption DEF SoFar
<1> QED BY <1>6 DEF W

LEMMA LimitedMeansBusy ==
  ASSUME GatewayInv, [GatewayNext]_gatewayVars, NEW r \in Queries,
         at[r] # "limited", at'[r] = "limited"
  PROVE  Cardinality({q \in Queries \ {r} :
                        counted[q] # NoCount /\ counted[q] + Minute >= Since(r)}) >= Limit
<1>1. /\ at \in [Queries -> Ways] /\ tick \in 0 .. LastTick
      /\ soft \in [Isolates -> Bucket \cup {NoCount}]
      /\ (read[r] # NoCount => read[r] \in Reading /\ read[r].since <= tick)
      /\ (at[r] \in Early => counted[r] = NoCount)
  BY DEF GatewayInv, GatewayTyped, StagesFit
<1>2. StoreGets(r) \/ (CheckSoft(r) /\ at[r] \in {"asked", "getting", "counting"})
  <2>1. at' # at
    BY <1>1
  <2>2. PICK q \in Queries :
          \/ AnswersItself(q) \/ Denies(q) \/ LooksInCache(q)
          \/ CountsSoftly(q) \/ AsksStore(q) \/ StoreGets(q) \/ StorePuts(q) \/ StoreFails(q)
          \/ FailsOpen(q) \/ NodeAnswers(q) \/ NodeUnreachable(q)
    BY <2>1 DEF GatewayNext, gatewayVars, Tick, IsolateStarts, CachePuts
  <2>3. \E w \in Ways : at' = [at EXCEPT ![q] = w]
    BY <2>2 DEF AnswersItself, Denies, LooksInCache, CountsSoftly, AsksStore, StoreGets, StorePuts,
                StoreFails, FailsOpen, NodeAnswers, NodeUnreachable, Answered, CheckSoft,
                LetThrough, Limited, Ways, Early
  <2>4. q = r
    BY <1>1, <2>3
  <2>5. ~(AnswersItself(r) \/ Denies(r) \/ LooksInCache(r) \/ AsksStore(r) \/ StorePuts(r)
          \/ FailsOpen(r) \/ NodeAnswers(r) \/ NodeUnreachable(r))
    BY <1>1 DEF AnswersItself, Denies, LooksInCache, AsksStore, StorePuts, FailsOpen,
                NodeAnswers, NodeUnreachable, Answered, LetThrough
  <2> QED
    BY <2>2, <2>4, <2>5 DEF CountsSoftly, StoreFails
<1>3. CASE StoreGets(r)
  <2>1. /\ at[r] = "getting" /\ counted[r] = NoCount /\ read[r] \in Reading
        /\ read[r] # NoCount
    BY <1>3, <1>1, GatewayAssumption DEF StoreGets, Early, GatewayInv, StagesFit, Reading
  <2>2. read[r].since \in 0 .. LastTick
    BY <1>1, <2>1, GatewayAssumption DEF Reading
  <2>3. /\ KeyMinute(r) \in 0 .. MinuteOf(LastTick) /\ KeyMinute(r) * Minute \in Nat
        /\ Since(r) < KeyMinute(r) * Minute + Minute
    BY <2>1, <2>2, MinuteFacts DEF KeyMinute, Since
  <2>4. PICK n \in kv[KeyMinute(r)] : n >= Limit
    BY <1>1, <1>3 DEF StoreGets
  <2>5. n \in Nat /\ n <= SoFar(KeyMinute(r) * Minute)
    BY <2>3 DEF GatewayInv, GatewayTyped, StoreIsBehind
  <2> DEFINE t == KeyMinute(r) * Minute
  <2>6. t \in Nat /\ t + Minute >= Since(r) /\ n <= SoFar(t)
    BY <2>1, <2>2, <2>3, <2>5, GatewayAssumption DEF Since
  <2>7. SoFar(t) \in Nat
    BY SoFarIsNumber
  <2> HIDE DEF t
  <2>8. Limit <= SoFar(t)
    BY <2>4, <2>5, <2>6, <2>7, GatewayAssumption
  <2> QED BY <2>1, <2>6, <2>8, EnoughCounted
<1>4. CASE CheckSoft(r) /\ at[r] \in {"asked", "getting", "counting"}
  <2> DEFINE i == isolate[r]
  <2>1. i \in Isolates /\ counted[r] = NoCount
    BY <1>1, <1>4 DEF Early, GatewayInv, StagesFit
  <2>2. ~Renewed(i) /\ soft[i].count >= Limit
    BY <1>1, <1>4 DEF CheckSoft, LetThrough
  <2>3. soft[i] \in Bucket /\ soft[i] # NoCount /\ tick < soft[i].end
    BY <1>1, <2>1, <2>2, GatewayAssumption DEF Renewed, Bucket
  <2>4. PICK t \in Nat : soft[i].end = t + Minute /\ t <= tick /\ soft[i].count <= SoFar(t)
    BY <2>1, <2>3 DEF GatewayInv, SoftIsBehind
  <2>5. Since(r) <= tick /\ Since(r) \in Nat /\ tick \in Nat
    BY <1>1, GatewayAssumption DEF Since, Reading
  <2>6. SoFar(t) \in Nat
    BY SoFarIsNumber
  <2>7. Limit <= SoFar(t) /\ t + Minute >= Since(r)
    BY <2>2, <2>3, <2>4, <2>5, <2>6, GatewayAssumption DEF Bucket
  <2> QED BY <2>1, <2>7, EnoughCounted
<1> QED
  BY <1>2, <1>3, <1>4

(* A client is told to wait only when as many of its requests as it may send *)
(* in a minute counted in one, for every limit and number of isolates and   *)
(* whenever the store fails (rateLimit.ts: withinLimit).                    *)
THEOREM RefusalsMeanBusy == GatewaySpec => RefusedMeansBusy
<1>1. GatewayInv /\ [GatewayNext]_gatewayVars =>
        [\A r \in Queries :
           at[r] # "limited" /\ at'[r] = "limited"
             => Cardinality({q \in Queries \ {r} :
                                counted[q] # NoCount /\ counted[q] + Minute >= Since(r)})
                  >= Limit]_gatewayVars
  BY LimitedMeansBusy
<1> QED
  BY <1>1, GatewayStarts, GatewayKeeps, PTL DEF GatewaySpec, RefusedMeansBusy

=============================================================================
