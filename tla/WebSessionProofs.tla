-------------------------- MODULE WebSessionProofs --------------------------
(***************************************************************************)
(* The unlocked session of the web wallet, for every set of tabs, every    *)
(* setting of the auto-lock and every length of the queue of IndexedDB: a  *)
(* reload skips the password only within the policy (RestoredWithinPolicy),*)
(* an idle tab locks (IdleTabsLock), and the session of a tab keeps its    *)
(* sealing key (SessionIsWhole).                                           *)
(***************************************************************************)
EXTENDS WebSession, FiniteSetTheorems, TLAPS

Envelopes == [key : Nat, createdAt : Nat, lastActiveAt : Nat]
Kids == 1 .. MaxKeys
Gets == [op : {"get"}, tab : Tabs, kid : Kids]
Puts == [op : {"put"}, tab : Tabs, kid : Kids, key : Nat \ {0}]
Deletes == [op : {"delete"}, kid : Kids]
Ops == Gets \cup Puts \cup Deletes
Readings == [at : {"reading"}, env : Envelopes]
Decipherings == [at : {"deciphering"}, env : Envelopes, key : Nat]
Savings == [at : {"deriving"}] \cup [at : {"storing"}, key : Nat]

Typed ==
  /\ clock \in Nat \ {0}
  /\ lockAfter \in LockAfter
  /\ hasWallet \in BOOLEAN
  /\ tabs \subseteq Tabs
  /\ envelope \in [Tabs -> Envelopes]
  /\ kid \in [Tabs -> 0 .. MaxKeys]
  /\ isUnlocked \subseteq tabs
  /\ lockAfterMinutes \in [Tabs -> Nat]
  /\ deadline \in [Tabs -> Nat]
  /\ restoring \in [Tabs -> {Off} \cup Readings \cup Decipherings]
  /\ saving \in [Tabs -> {Off} \cup Savings]
  /\ keyStore \in [Kids -> [key : Nat, at : Nat]]
  /\ keyOps \in Seq(Ops)
  /\ made \in 0 .. MaxKeys
  /\ entered \in [Tabs -> Nat]
  /\ acted \in [Tabs -> Nat]

Busy(t) == restoring[t].at # "off"
Stores(t) == saving[t].at # "off"
HasEnvelope(t) == envelope[t].key # 0

(* A job belongs to an open page, which does one thing at a time.           *)
Jobs ==
  \A t \in Tabs :
    /\ Busy(t) => /\ t \in tabs \ isUnlocked /\ ~Stores(t) /\ HasEnvelope(t)
                  /\ envelope[t] = restoring[t].env
    /\ Stores(t) => t \in tabs /\ acted[t] = clock

(* What is being restored was not expired when the page began.              *)
Fresh ==
  \A t \in Tabs : Busy(t) => ~IsSessionExpired(envelope[t], lockAfterMinutes[t])

(* A session has its id, its password was entered when it says, and its     *)
(* user was seen since.                                                     *)
Sessions ==
  \A t \in Tabs :
    /\ kid[t] # 0 <=> HasEnvelope(t)
    /\ HasEnvelope(t) => /\ envelope[t].createdAt = entered[t]
                         /\ envelope[t].lastActiveAt <= acted[t]
                         /\ t \in tabs
                         /\ t \in isUnlocked \/ Busy(t)
    /\ ~HasEnvelope(t) => envelope[t] = None
    /\ acted[t] <= clock

(* The timer runs, and was last started within the time of one setting      *)
(* from the last sign of the user.                                          *)
Timers ==
  \A t \in isUnlocked :
    /\ lockAfterMinutes[t] = 0 => deadline[t] = 0
    /\ lockAfterMinutes[t] > 0 => /\ clock <= deadline[t]
                                  /\ deadline[t] <= acted[t] + 2 * lockAfterMinutes[t]
                                  /\ Stores(t) => clock < deadline[t]

(* A read is waited for by the page that asked for it.                      *)
Reads ==
  \A i \in DOMAIN keyOps : keyOps[i].op = "get" =>
    /\ restoring[keyOps[i].tab].at = "reading"
    /\ keyOps[i].kid = kid[keyOps[i].tab]
    /\ \A j \in DOMAIN keyOps :
         keyOps[j].op = "get" /\ keyOps[j].tab = keyOps[i].tab => i = j

(* Ids and sealing keys are counted in made.                                *)
Counted ==
  /\ \A t \in Tabs : kid[t] <= made /\ envelope[t].key <= made
  /\ \A i \in DOMAIN keyOps : keyOps[i].kid <= made
  /\ \A i \in DOMAIN keyOps : keyOps[i].op = "put" =>
       /\ keyOps[i].key <= made
       /\ \A t \in Tabs : envelope[t].key # keyOps[i].key
       /\ \A j \in DOMAIN keyOps :
            keyOps[j].op = "put" /\ keyOps[j].key = keyOps[i].key => i = j

(* The page that saves waits for this put.                                  *)
AwaitedBy(saves, o) == saves[o.tab].at = "storing" /\ saves[o.tab].key = o.key

(* Two tabs with one id are copies.                                         *)
OwnIds ==
  \A t, u \in Tabs : t # u /\ kid[t] # 0 /\ kid[t] = kid[u] => kid[t] \in copied

(* A put under the id of a session is awaited by its tab, or is run before  *)
(* its tab reads what it finds.                                             *)
PutsComeFirst ==
  \A t \in Tabs : \A i \in DOMAIN keyOps :
    keyOps[i].op = "put" /\ keyOps[i].kid = kid[t] => 
      \/ kid[t] \in copied
      \/ /\ keyOps[i].tab = t
         /\ \/ AwaitedBy(saving, keyOps[i])
            \/ \E j \in DOMAIN keyOps : j > i /\ keyOps[j].op = "get" /\ keyOps[j].tab = t

(* An awaited put is the only one under its id.                             *)
LonePuts ==
  \A i, j \in DOMAIN keyOps :
    /\ i # j /\ keyOps[i].op = "put" /\ keyOps[j].op = "put"
    /\ keyOps[i].kid = keyOps[j].kid
    /\ AwaitedBy(saving, keyOps[i])
    => keyOps[i].kid \in copied

(* No delete is owed under the id of a session that is there or to be.      *)
DeletesAreOver ==
  \A i \in DOMAIN keyOps : keyOps[i].op = "delete" /\ keyOps[i].kid \notin copied =>
    /\ \A t \in Tabs : kid[t] # keyOps[i].kid
    /\ \A j \in DOMAIN keyOps :
         keyOps[j].op = "put" /\ keyOps[j].kid = keyOps[i].kid => ~AwaitedBy(saving, keyOps[j])

(* A sealing key is as old as the session it seals.                         *)
SameAge ==
  \A t \in Tabs : HasEnvelope(t) /\ keyStore[kid[t]].key = envelope[t].key =>
    keyStore[kid[t]].at = envelope[t].createdAt

Restorable(t) ==
  \/ t \in isUnlocked
  \/ restoring[t].at = "deciphering" /\ restoring[t].key = envelope[t].key

KeysKept ==
  \A t \in Tabs :
    /\ HasEnvelope(t) /\ Restorable(t) /\ kid[t] \notin copied
    /\ clock - envelope[t].createdAt <= MaxSession
    => keyStore[kid[t]].key = envelope[t].key


QueueInv == Reads /\ Counted /\ OwnIds /\ PutsComeFirst /\ LonePuts /\ DeletesAreOver
StoreInv == SameAge /\ KeysKept
PolicyInv == Jobs /\ Fresh /\ Sessions /\ Timers
Inv == Typed /\ PolicyInv /\ QueueInv /\ StoreInv

-----------------------------------------------------------------------------
(***************************************************************************)
(* Operations of IndexedDB.                                                *)
(***************************************************************************)
Get(t, k) == [op |-> "get", tab |-> t, kid |-> k]
Put(t, k, key) == [op |-> "put", tab |-> t, kid |-> k, key |-> key]
Delete(k) == [op |-> "delete", kid |-> k]

(* q is what is left of the queue, in its order: its n-th operation was the *)
(* f[n]-th.                                                                *)
Shortens(q, f) ==
  /\ q \in Seq(Ops)
  /\ f \in [DOMAIN q -> DOMAIN keyOps]
  /\ \A m, n \in DOMAIN q : m < n <=> f[m] < f[n]
  /\ \A n \in DOMAIN q : q[n] = keyOps[f[n]]

(* The reads of other tabs than t are among it.                             *)
LeavesReads(q, f, t) ==
  \A i \in DOMAIN keyOps : keyOps[i].op = "get" /\ keyOps[i].tab # t =>
    \E n \in DOMAIN q : f[n] = i

NoReads(q, t) == \A n \in DOMAIN q : q[n].op = "get" => q[n].tab # t

LEMMA OpKinds ==
  ASSUME NEW o \in Ops
  PROVE  /\ o.op = "get" => o \in Gets
         /\ o.op = "put" => o \in Puts
         /\ o.op = "delete" => o \in Deletes
         /\ o.op \in {"get", "put", "delete"}
         /\ o.kid \in Kids
BY DEF Ops, Gets, Puts, Deletes

LEMMA QueueKinds ==
  ASSUME NEW q \in Seq(Ops), NEW i \in DOMAIN q
  PROVE  /\ q[i] \in Ops
         /\ q[i].op = "get" => q[i] \in Gets
         /\ q[i].op = "put" => q[i] \in Puts
         /\ q[i].op = "delete" => q[i] \in Deletes
         /\ q[i].op \in {"get", "put", "delete"}
         /\ q[i].kid \in Kids
<1>1. q[i] \in Ops OBVIOUS
<1> QED BY <1>1, OpKinds

LEMMA NewOps ==
  ASSUME NEW t \in Tabs, NEW k \in Kids, NEW key \in Nat \ {0}
  PROVE  Get(t, k) \in Ops /\ Put(t, k, key) \in Ops /\ Delete(k) \in Ops
BY DEF Get, Put, Delete, Ops, Gets, Puts, Deletes

LEMMA Appended ==
  ASSUME NEW q \in Seq(Ops), NEW o \in Ops
  PROVE  /\ Append(q, o) \in Seq(Ops)
         /\ DOMAIN q = 1 .. Len(q) /\ Len(q) \in Nat
         /\ DOMAIN Append(q, o) = DOMAIN q \cup {Len(q) + 1}
         /\ Append(q, o)[Len(q) + 1] = o
         /\ \A i \in DOMAIN q : Append(q, o)[i] = q[i] /\ i < Len(q) + 1
OBVIOUS

LEMMA WholeQueue ==
  ASSUME keyOps \in Seq(Ops), NEW t
  PROVE  \E f : Shortens(keyOps, f) /\ LeavesReads(keyOps, f, t)
<1> DEFINE f == [n \in DOMAIN keyOps |-> n]
<1>1. Shortens(keyOps, f) BY DEF Shortens
<1>2. LeavesReads(keyOps, f, t) BY DEF LeavesReads
<1> QED BY <1>1, <1>2

LEMMA TailQueue ==
  ASSUME keyOps \in Seq(Ops), keyOps # <<>>, NEW t,
         Head(keyOps).op = "get" => Head(keyOps).tab = t
  PROVE  \E f : Shortens(Tail(keyOps), f) /\ LeavesReads(Tail(keyOps), f, t)
<1> DEFINE q == Tail(keyOps)
           f == [n \in DOMAIN q |-> n + 1]
<1>1. /\ q \in Seq(Ops) /\ Len(keyOps) \in Nat \ {0}
      /\ DOMAIN keyOps = 1 .. Len(keyOps) /\ DOMAIN q = 1 .. Len(keyOps) - 1
      /\ \A n \in DOMAIN q : q[n] = keyOps[n + 1]
      /\ Head(keyOps) = keyOps[1]
  OBVIOUS
<1> HIDE DEF q
<1>2. Shortens(q, f) BY <1>1 DEF Shortens
<1>3. LeavesReads(q, f, t)
  <2> SUFFICES ASSUME NEW i \in DOMAIN keyOps, keyOps[i].op = "get", keyOps[i].tab # t
               PROVE  \E n \in DOMAIN q : f[n] = i
    BY DEF LeavesReads
  <2>1. i # 1 BY <1>1
  <2>2. i - 1 \in DOMAIN q BY <1>1, <2>1
  <2> QED BY <1>1, <2>2
<1> QED BY <1>2, <1>3 DEF q

LEMMA RestOfQueue ==
  ASSUME keyOps \in Seq(Ops), NEW places \in SUBSET DOMAIN keyOps, NEW q \in Rest(places)
  PROVE  \E f : /\ Shortens(q, f)
                /\ \A n \in DOMAIN q : f[n] \in places
                /\ \A i \in places : \E n \in DOMAIN q : f[n] = i
<1> DEFINE size == Cardinality(places)
<1>1. DOMAIN keyOps = 1 .. Len(keyOps) /\ Len(keyOps) \in Nat OBVIOUS
<1>2. size \in Nat
  <2>1. IsFiniteSet(1 .. Len(keyOps)) BY <1>1, FS_Interval
  <2>2. IsFiniteSet(places) BY <1>1, <2>1, FS_Subset
  <2> QED BY <2>2, FS_CardinalityType
<1>3. PICK f \in Bijection(1 .. size, places) :
        /\ \A i, j \in DOMAIN f : i < j => f[i] < f[j]
        /\ q = [n \in DOMAIN f |-> keyOps[f[n]]]
  BY DEF Rest
<1>4. /\ f \in [1 .. size -> places]
      /\ \A i \in places : \E n \in 1 .. size : f[n] = i
  BY <1>3 DEF Bijection, Injection, Surjection
<1>5. DOMAIN q = 1 .. size BY <1>3, <1>4
<1>6. \A n \in 1 .. size : f[n] \in DOMAIN keyOps /\ f[n] \in Nat /\ keyOps[f[n]] \in Ops
  BY <1>1, <1>4
<1>7. q \in Seq(Ops)
  <2> HIDE DEF size
  <2>1. q = [n \in 1 .. size |-> keyOps[f[n]]] BY <1>3, <1>4
  <2> QED BY <1>2, <1>6, <2>1
<1>8. \A m, n \in DOMAIN q : m < n <=> f[m] < f[n]
  <2> SUFFICES ASSUME NEW m \in DOMAIN q, NEW n \in DOMAIN q PROVE m < n <=> f[m] < f[n]
    OBVIOUS
  <2> HIDE DEF size
  <2>1. m \in Nat /\ n \in Nat /\ f[m] \in Nat /\ f[n] \in Nat BY <1>2, <1>5, <1>6
  <2>2. m < n \/ m = n \/ n < m BY <2>1
  <2>3. DOMAIN f = 1 .. size BY <1>4
  <2> QED BY <1>3, <1>5, <2>1, <2>2, <2>3
<1>9. Shortens(q, f)
  <2> HIDE DEF size
  <2> QED BY <1>3, <1>4, <1>5, <1>6, <1>7, <1>8 DEF Shortens
<1> QED BY <1>4, <1>5, <1>9

(* What a page leaves behind has no reads of its own, and all the others.   *)
LEMMA LeftBehindIsRest ==
  ASSUME keyOps \in Seq(Ops), NEW t \in Tabs, NEW q \in LeftBehind(t)
  PROVE  \E f : Shortens(q, f) /\ LeavesReads(q, f, t) /\ NoReads(q, t)
<1>1. PICK kinds \in {{"get"}, {"get", "put"}} : q \in Rest(WithoutOps(t, kinds))
  BY DEF LeftBehind
<1>2. WithoutOps(t, kinds) \in SUBSET DOMAIN keyOps BY DEF WithoutOps
<1>3. PICK f : /\ Shortens(q, f)
               /\ \A n \in DOMAIN q : f[n] \in WithoutOps(t, kinds)
               /\ \A i \in WithoutOps(t, kinds) : \E n \in DOMAIN q : f[n] = i
  BY <1>1, <1>2, RestOfQueue
<1>4. NoReads(q, t)
  BY <1>1, <1>3 DEF NoReads, WithoutOps, Shortens
<1>5. LeavesReads(q, f, t)
  <2> SUFFICES ASSUME NEW i \in DOMAIN keyOps, keyOps[i].op = "get", keyOps[i].tab # t
               PROVE  \E n \in DOMAIN q : f[n] = i
    BY DEF LeavesReads
  <2>1. i \in WithoutOps(t, kinds) BY DEF WithoutOps
  <2> QED BY <1>3, <2>1
<1> QED BY <1>3, <1>4, <1>5

-----------------------------------------------------------------------------
(***************************************************************************)
(* What actions do to the queue.                                           *)
(***************************************************************************)
(* A tab without a session is none that another invariant speaks of.        *)
IsGone(t) == envelope'[t] = None /\ kid'[t] = 0

OthersStay(t) ==
  \A u \in Tabs \ {t} :
    /\ kid'[u] = kid[u]
    /\ envelope'[u] = envelope[u]
    /\ saving'[u] = saving[u]
    /\ restoring'[u] = restoring[u]

(* A tab gives up its session: what is left of the queue, and perhaps the   *)
(* delete of its own key, or of one that was copied.                        *)
LEMMA QueueWhenGone ==
  ASSUME Typed, QueueInv, NEW t \in Tabs, NEW q, NEW f,
         Shortens(q, f), LeavesReads(q, f, t), NoReads(q, t),
         IsGone(t), OthersStay(t), saving'[t].at # "storing",
         kid' \in [Tabs -> 0 .. MaxKeys],
         copied \subseteq copied', made' = made,
         \/ keyOps' = q
         \/ \E k \in Kids : /\ k = kid[t] \/ k \in copied'
                            /\ k <= made
                            /\ keyOps' = Append(q, Delete(k))
  PROVE  QueueInv'
<1>1. \A k \in Kids : /\ Delete(k) \in Ops
                      /\ Delete(k).op = "delete" /\ Delete(k).kid = k
  BY DEF Delete, Ops, Deletes
<1> DEFINE Owed(i) == /\ keyOps'[i].op = "delete"
                      /\ keyOps'[i].kid = kid[t] \/ keyOps'[i].kid \in copied'
                      /\ keyOps'[i].kid <= made
           Kept(i) == keyOps'[i] = q[i]
<1>2. /\ q \in Seq(Ops) /\ keyOps' \in Seq(Ops) /\ keyOps \in Seq(Ops)
      /\ \A i \in DOMAIN keyOps' : (i \in DOMAIN q /\ Kept(i)) \/ Owed(i)
      /\ DOMAIN q \subseteq DOMAIN keyOps'
      /\ \A i \in DOMAIN q : Kept(i)
  <2>1. q \in Seq(Ops) /\ keyOps \in Seq(Ops) BY DEF Shortens, Typed
  <2>2. CASE keyOps' = q BY <2>1, <2>2
  <2>3. CASE \E k \in Kids : /\ k = kid[t] \/ k \in copied'
                             /\ k <= made
                             /\ keyOps' = Append(q, Delete(k))
    <3>1. PICK k \in Kids : /\ k = kid[t] \/ k \in copied'
                           /\ k <= made
                           /\ keyOps' = Append(q, Delete(k))
      BY <2>3
    <3>2. /\ keyOps' \in Seq(Ops) /\ DOMAIN keyOps' = DOMAIN q \cup {Len(q) + 1}
          /\ \A i \in DOMAIN q : Kept(i)
          /\ keyOps'[Len(q) + 1] = Delete(k)
      BY <1>1, <2>1, <3>1, Appended
    <3>3. Owed(Len(q) + 1) BY <1>1, <3>1, <3>2
    <3> QED BY <2>1, <3>2, <3>3
  <2> QED BY <2>2, <2>3
<1>4. \A i \in DOMAIN keyOps' : keyOps'[i].op \in {"get", "put"} =>
        /\ i \in DOMAIN q
        /\ f[i] \in DOMAIN keyOps
        /\ keyOps'[i] = keyOps[f[i]]
  BY <1>2 DEF Shortens
<1>5. \A i \in DOMAIN keyOps' : keyOps'[i].op = "delete" =>
        \/ i \in DOMAIN q /\ f[i] \in DOMAIN keyOps /\ keyOps'[i] = keyOps[f[i]]
        \/ keyOps'[i].kid = kid[t]
        \/ keyOps'[i].kid \in copied'
  BY <1>2 DEF Shortens
<1>6. \A i, j \in DOMAIN q : f[i] = f[j] => i = j BY <1>2 DEF Shortens
<1>7. \A i \in DOMAIN keyOps : keyOps[i].op = "put" => keyOps[i] \in Puts
  BY <1>2, QueueKinds
<1>8. \A i \in DOMAIN keyOps : keyOps[i].op = "get" => keyOps[i] \in Gets
  BY <1>2, QueueKinds
<1>9. \A i \in DOMAIN keyOps : keyOps[i].op = "put" => (AwaitedBy(saving', keyOps[i]) <=>
        keyOps[i].tab # t /\ AwaitedBy(saving, keyOps[i]))
  BY <1>7 DEF AwaitedBy, OthersStay, Puts
<1>10. Reads'
  <2>1. \A i \in DOMAIN q : q[i].op = "get" => q[i].tab \in Tabs \ {t}
    BY <1>2, QueueKinds DEF NoReads, Gets
  <2> QED BY <1>4, <1>6, <2>1 DEF Reads, QueueInv, OthersStay, Shortens
<1>11. Counted'
  <2>1. \A u \in Tabs : kid'[u] <= made' /\ envelope'[u].key <= made'
    <3>1. made \in Nat BY DEF Typed
    <3>2. kid'[t] = 0 /\ envelope'[t].key = 0 BY DEF IsGone, None
    <3> QED BY <3>1, <3>2 DEF QueueInv, Counted, OthersStay
  <2>2. \A i \in DOMAIN keyOps' : keyOps'[i].kid <= made'
    BY <1>2 DEF QueueInv, Counted, Shortens
  <2>3. \A i \in DOMAIN keyOps' : keyOps'[i].op = "put" =>
          /\ keyOps'[i].key <= made'
          /\ \A u \in Tabs : envelope'[u].key # keyOps'[i].key
    BY <1>4, <1>7 DEF QueueInv, Counted, OthersStay, IsGone, None, Puts
  <2>4. \A i, j \in DOMAIN keyOps' :
          keyOps'[i].op = "put" /\ keyOps'[j].op = "put" /\ keyOps'[j].key = keyOps'[i].key => i = j
    BY <1>4, <1>6 DEF QueueInv, Counted
  <2> QED BY <2>1, <2>2, <2>3, <2>4 DEF Counted
<1>12. OwnIds' BY DEF QueueInv, OwnIds, OthersStay, IsGone
<1>13. PutsComeFirst'
  <2> SUFFICES ASSUME NEW u \in Tabs, NEW i \in DOMAIN keyOps',
                      keyOps'[i].op = "put", keyOps'[i].kid = kid'[u], kid'[u] \notin copied'
               PROVE  /\ keyOps'[i].tab = u
                      /\ \/ AwaitedBy(saving', keyOps'[i])
                         \/ \E j \in DOMAIN keyOps' :
                              j > i /\ keyOps'[j].op = "get" /\ keyOps'[j].tab = u
    BY DEF PutsComeFirst
  <2>1. /\ i \in DOMAIN q /\ f[i] \in DOMAIN keyOps /\ keyOps'[i] = keyOps[f[i]]
        /\ keyOps[f[i]] \in Puts
    BY <1>4, <1>7
  <2>2. u # t BY <2>1 DEF IsGone, Puts, Kids
  <2>3. /\ keyOps[f[i]].tab = u
        /\ \/ AwaitedBy(saving, keyOps[f[i]])
           \/ \E j \in DOMAIN keyOps : j > f[i] /\ keyOps[j].op = "get" /\ keyOps[j].tab = u
    BY <2>1, <2>2 DEF QueueInv, PutsComeFirst, OthersStay
  <2>4. CASE AwaitedBy(saving, keyOps[f[i]]) BY <1>9, <2>1, <2>2, <2>3, <2>4
  <2>5. CASE \E j \in DOMAIN keyOps : j > f[i] /\ keyOps[j].op = "get" /\ keyOps[j].tab = u
    <3>1. PICK j \in DOMAIN keyOps : j > f[i] /\ keyOps[j].op = "get" /\ keyOps[j].tab = u
      BY <2>5
    <3>2. PICK n \in DOMAIN q : f[n] = j BY <2>2, <3>1 DEF LeavesReads
    <3>3. n > i BY <2>1, <3>1, <3>2 DEF Shortens
    <3>4. n \in DOMAIN keyOps' /\ keyOps'[n] = keyOps[j] BY <1>2, <3>2 DEF Shortens
    <3> QED BY <2>1, <2>3, <3>1, <3>3, <3>4
  <2> QED BY <2>1, <2>3, <2>4, <2>5
<1>14. LonePuts'
  <2> SUFFICES ASSUME NEW i \in DOMAIN keyOps', NEW j \in DOMAIN keyOps',
                      i # j, keyOps'[i].op = "put", keyOps'[j].op = "put",
                      keyOps'[i].kid = keyOps'[j].kid, AwaitedBy(saving', keyOps'[i])
               PROVE  keyOps'[i].kid \in copied'
    BY DEF LonePuts
  <2>1. /\ f[i] # f[j] /\ keyOps'[i] = keyOps[f[i]] /\ keyOps'[j] = keyOps[f[j]]
        /\ f[i] \in DOMAIN keyOps /\ f[j] \in DOMAIN keyOps
    BY <1>4, <1>6
  <2>2. AwaitedBy(saving, keyOps[f[i]]) BY <1>9, <2>1
  <2> QED BY <2>1, <2>2 DEF QueueInv, LonePuts
<1>15. DeletesAreOver'
  <2> SUFFICES ASSUME NEW i \in DOMAIN keyOps', keyOps'[i].op = "delete",
                      keyOps'[i].kid \notin copied'
               PROVE  /\ \A u \in Tabs : kid'[u] # keyOps'[i].kid
                      /\ \A j \in DOMAIN keyOps' :
                           keyOps'[j].op = "put" /\ keyOps'[j].kid = keyOps'[i].kid =>
                             ~AwaitedBy(saving', keyOps'[j])
    BY DEF DeletesAreOver
  <2>1. CASE i \in DOMAIN q /\ f[i] \in DOMAIN keyOps /\ keyOps'[i] = keyOps[f[i]]
    <3>1. /\ \A u \in Tabs : kid[u] # keyOps'[i].kid
          /\ \A j \in DOMAIN keyOps :
               keyOps[j].op = "put" /\ keyOps[j].kid = keyOps'[i].kid => ~AwaitedBy(saving, keyOps[j])
      BY <2>1 DEF QueueInv, DeletesAreOver
    <3>2. keyOps'[i].kid # 0 BY <1>2, QueueKinds DEF Kids
    <3>3. \A u \in Tabs : kid'[u] # keyOps'[i].kid
      BY <3>1, <3>2 DEF IsGone, OthersStay
    <3>4. \A j \in DOMAIN keyOps' :
            keyOps'[j].op = "put" /\ keyOps'[j].kid = keyOps'[i].kid => ~AwaitedBy(saving', keyOps'[j])
      BY <1>4, <1>9, <3>1
    <3> QED BY <3>3, <3>4
  <2>2. CASE keyOps'[i].kid = kid[t]
    <3>1. keyOps'[i].kid # 0 BY <1>2, QueueKinds DEF Kids
    <3>2. \A u \in Tabs : kid'[u] # keyOps'[i].kid
      BY <2>2, <3>1 DEF IsGone, OthersStay, QueueInv, OwnIds
    <3>3. \A j \in DOMAIN keyOps' :
            keyOps'[j].op = "put" /\ keyOps'[j].kid = kid[t] => ~AwaitedBy(saving', keyOps'[j])
      BY <1>4, <1>9, <2>2 DEF QueueInv, PutsComeFirst
    <3> QED BY <2>2, <3>2, <3>3
  <2> QED BY <1>5, <2>1, <2>2
<1> QED BY <1>10, <1>11, <1>12, <1>13, <1>14, <1>15 DEF QueueInv

(* A page of tab t begins to read the key under the id it has, which is its *)
(* own or the one of a tab s that was duplicated.                           *)
LEMMA QueueWhenReading ==
  ASSUME Typed, QueueInv, NEW t \in Tabs, NEW s \in Tabs, NEW q, NEW f, NEW k \in Kids,
         Shortens(q, f), LeavesReads(q, f, t), NoReads(q, t),
         kid[s] = k, s = t \/ k \in copied',
         kid'[t] = k, envelope'[t].key = envelope[s].key,
         restoring'[t].at = "reading", saving'[t].at # "storing", OthersStay(t),
         copied \subseteq copied', made' = made,
         keyOps' = Append(q, Get(t, k))
  PROVE  QueueInv'
<1> DEFINE last == Len(q) + 1
<1>1. Get(t, k) \in Ops BY DEF Get, Ops, Gets
<1>2. /\ q \in Seq(Ops) /\ keyOps' \in Seq(Ops) /\ keyOps \in Seq(Ops)
      /\ DOMAIN keyOps' = DOMAIN q \cup {last} /\ last \notin DOMAIN q
      /\ \A i \in DOMAIN q : keyOps'[i] = q[i] /\ i < last
      /\ keyOps'[last] = Get(t, k)
  <2>1. q \in Seq(Ops) BY DEF Shortens
  <2>2. last \notin DOMAIN q BY <2>1
  <2>3. keyOps \in Seq(Ops) BY DEF Typed
  <2> QED BY <1>1, <2>1, <2>2, <2>3, Appended
<1>3. Get(t, k).op = "get" /\ Get(t, k).kid = k /\ Get(t, k).tab = t BY DEF Get
<1> HIDE DEF last
<1>4. \A i \in DOMAIN q :
        f[i] \in DOMAIN keyOps /\ keyOps'[i] = keyOps[f[i]]
  BY <1>2 DEF Shortens
<1>5. \A i \in DOMAIN keyOps' : keyOps'[i].op # "get" => i \in DOMAIN q
  BY <1>2, <1>3
<1>6. \A i, j \in DOMAIN q : f[i] = f[j] => i = j BY <1>2 DEF Shortens
<1>7. \A i \in DOMAIN keyOps : keyOps[i].op = "put" => keyOps[i] \in Puts
  BY <1>2, QueueKinds
<1>8. \A i \in DOMAIN keyOps : keyOps[i].op = "put" => (AwaitedBy(saving', keyOps[i]) <=>
        keyOps[i].tab # t /\ AwaitedBy(saving, keyOps[i]))
  BY <1>7 DEF AwaitedBy, OthersStay, Puts
<1>9. k # 0 /\ made \in Nat BY DEF Kids, Typed
<1>10. Reads'
  <2>1. \A i \in DOMAIN q : q[i].op = "get" => q[i].tab \in Tabs \ {t}
    BY <1>2, QueueKinds DEF NoReads, Gets
  <2>2. \A i \in DOMAIN q : keyOps'[i].op = "get" =>
          /\ keyOps'[i].tab # t
          /\ restoring'[keyOps'[i].tab].at = "reading"
          /\ keyOps'[i].kid = kid'[keyOps'[i].tab]
          /\ \A j \in DOMAIN q :
               keyOps'[j].op = "get" /\ keyOps'[j].tab = keyOps'[i].tab => i = j
    BY <1>2, <1>4, <1>6, <2>1, SMTT(30) DEF Reads, QueueInv, OthersStay
  <2> QED BY <1>2, <1>3, <2>2 DEF Reads
<1>11. Counted'
  <2>1. \A u \in Tabs : kid'[u] <= made' /\ envelope'[u].key <= made'
    BY DEF QueueInv, Counted, OthersStay
  <2>2. \A i \in DOMAIN keyOps' : keyOps'[i].kid <= made'
    <3>1. k <= made' BY DEF QueueInv, Counted
    <3>2. \A i \in DOMAIN q : keyOps'[i].kid <= made' BY <1>4 DEF QueueInv, Counted
    <3> QED BY <1>2, <1>3, <3>1, <3>2
  <2>3. \A i \in DOMAIN keyOps' : keyOps'[i].op = "put" =>
          /\ keyOps'[i].key <= made'
          /\ \A u \in Tabs : envelope'[u].key # keyOps'[i].key
    BY <1>4, <1>5 DEF QueueInv, Counted, OthersStay
  <2>4. \A i, j \in DOMAIN keyOps' :
          keyOps'[i].op = "put" /\ keyOps'[j].op = "put" /\ keyOps'[j].key = keyOps'[i].key => i = j
    BY <1>4, <1>5, <1>6 DEF QueueInv, Counted
  <2> QED BY <2>1, <2>2, <2>3, <2>4 DEF Counted
<1>12. OwnIds' BY DEF QueueInv, OwnIds, OthersStay
<1>13. PutsComeFirst'
  <2> SUFFICES ASSUME NEW u \in Tabs, NEW i \in DOMAIN keyOps',
                      keyOps'[i].op = "put", keyOps'[i].kid = kid'[u], kid'[u] \notin copied'
               PROVE  /\ keyOps'[i].tab = u
                      /\ \/ AwaitedBy(saving', keyOps'[i])
                         \/ \E j \in DOMAIN keyOps' :
                              j > i /\ keyOps'[j].op = "get" /\ keyOps'[j].tab = u
    BY DEF PutsComeFirst
  <2>1. /\ i \in DOMAIN q /\ f[i] \in DOMAIN keyOps /\ keyOps'[i] = keyOps[f[i]]
        /\ keyOps[f[i]] \in Puts
    BY <1>4, <1>5, <1>7
  <2>2. CASE u = t
    <3>1. s = t /\ kid[t] = k BY <2>2
    <3>2. keyOps'[i].tab = t BY <2>1, <2>2, <3>1 DEF QueueInv, PutsComeFirst
    <3>3. last \in DOMAIN keyOps' /\ i < last BY <1>2, <2>1
    <3>4. last > i BY <1>2, <2>1
    <3> QED BY <1>2, <1>3, <2>2, <3>2, <3>3, <3>4
  <2>3. CASE u # t
    <3>1. /\ keyOps[f[i]].tab = u
          /\ \/ AwaitedBy(saving, keyOps[f[i]])
             \/ \E j \in DOMAIN keyOps : j > f[i] /\ keyOps[j].op = "get" /\ keyOps[j].tab = u
      BY <2>1, <2>3 DEF QueueInv, PutsComeFirst, OthersStay
    <3>2. CASE AwaitedBy(saving, keyOps[f[i]]) BY <1>8, <2>1, <2>3, <3>1, <3>2
    <3>3. CASE \E j \in DOMAIN keyOps : j > f[i] /\ keyOps[j].op = "get" /\ keyOps[j].tab = u
      <4>1. PICK j \in DOMAIN keyOps : j > f[i] /\ keyOps[j].op = "get" /\ keyOps[j].tab = u
        BY <3>3
      <4>2. PICK n \in DOMAIN q : f[n] = j BY <2>3, <4>1 DEF LeavesReads
      <4>3. n > i BY <2>1, <4>1, <4>2 DEF Shortens
      <4>4. n \in DOMAIN keyOps' /\ keyOps'[n] = keyOps[j] BY <1>2, <1>4, <4>2
      <4> QED BY <2>1, <3>1, <4>1, <4>3, <4>4
    <3> QED BY <2>1, <3>1, <3>2, <3>3
  <2> QED BY <2>2, <2>3
<1>14. LonePuts'
  <2> SUFFICES ASSUME NEW i \in DOMAIN keyOps', NEW j \in DOMAIN keyOps',
                      i # j, keyOps'[i].op = "put", keyOps'[j].op = "put",
                      keyOps'[i].kid = keyOps'[j].kid, AwaitedBy(saving', keyOps'[i])
               PROVE  keyOps'[i].kid \in copied'
    BY DEF LonePuts
  <2>1. /\ f[i] # f[j] /\ keyOps'[i] = keyOps[f[i]] /\ keyOps'[j] = keyOps[f[j]]
        /\ f[i] \in DOMAIN keyOps /\ f[j] \in DOMAIN keyOps
    BY <1>4, <1>5, <1>6
  <2>2. AwaitedBy(saving, keyOps[f[i]]) BY <1>8, <2>1
  <2> QED BY <2>1, <2>2 DEF QueueInv, LonePuts
<1>15. DeletesAreOver'
  <2> SUFFICES ASSUME NEW i \in DOMAIN keyOps', keyOps'[i].op = "delete",
                      keyOps'[i].kid \notin copied'
               PROVE  /\ \A u \in Tabs : kid'[u] # keyOps'[i].kid
                      /\ \A j \in DOMAIN keyOps' :
                           keyOps'[j].op = "put" /\ keyOps'[j].kid = keyOps'[i].kid =>
                             ~AwaitedBy(saving', keyOps'[j])
    BY DEF DeletesAreOver
  <2>1. i \in DOMAIN q /\ f[i] \in DOMAIN keyOps /\ keyOps'[i] = keyOps[f[i]]
    BY <1>4, <1>5
  <2>2. /\ \A u \in Tabs : kid[u] # keyOps'[i].kid
        /\ \A j \in DOMAIN keyOps :
             keyOps[j].op = "put" /\ keyOps[j].kid = keyOps'[i].kid => ~AwaitedBy(saving, keyOps[j])
    BY <2>1 DEF QueueInv, DeletesAreOver
  <2>3. \A u \in Tabs : kid'[u] # keyOps'[i].kid BY <2>2 DEF OthersStay
  <2>4. \A j \in DOMAIN keyOps' :
          keyOps'[j].op = "put" /\ keyOps'[j].kid = keyOps'[i].kid =>
            ~AwaitedBy(saving', keyOps'[j])
    BY <1>4, <1>5, <1>8, <2>2
  <2> QED BY <2>3, <2>4
<1> QED BY <1>10, <1>11, <1>12, <1>13, <1>14, <1>15 DEF QueueInv

(* Nothing happens to the queue or to what it is about.                     *)
LEMMA QueueWhenStill ==
  ASSUME Typed, QueueInv,
         UNCHANGED <<keyOps, kid, made, copied>>,
         \A t \in Tabs :
           /\ envelope'[t].key = envelope[t].key
           /\ restoring[t].at = "reading" => restoring'[t].at = "reading"
           /\ "storing" \in {saving[t].at, saving'[t].at} => saving'[t] = saving[t]
  PROVE  QueueInv'
<1>1. \A i \in DOMAIN keyOps : keyOps[i].op = "get" => keyOps[i] \in Gets
  BY QueueKinds DEF Typed
<1>2. \A i \in DOMAIN keyOps : keyOps[i].op = "put" => keyOps[i] \in Puts
  BY QueueKinds DEF Typed
<1>3. \A i \in DOMAIN keyOps : keyOps[i].op = "put" =>
        (AwaitedBy(saving', keyOps[i]) <=> AwaitedBy(saving, keyOps[i]))
  BY <1>2 DEF AwaitedBy, Puts
<1>4. Reads' BY <1>1 DEF QueueInv, Reads, Gets
<1>5. Counted' BY DEF QueueInv, Counted
<1>6. OwnIds' BY DEF QueueInv, OwnIds
<1>7. PutsComeFirst' BY <1>3 DEF QueueInv, PutsComeFirst
<1>8. LonePuts' BY <1>3 DEF QueueInv, LonePuts
<1>9. DeletesAreOver' BY <1>3 DEF QueueInv, DeletesAreOver
<1> QED BY <1>4, <1>5, <1>6, <1>7, <1>8, <1>9 DEF QueueInv

(* The first operation is run, and changes nothing that the queue is about  *)
(* but, if it was a read, what its page does.                               *)
LEMMA QueueWhenRun ==
  ASSUME Typed, QueueInv, keyOps # <<>>,
         UNCHANGED <<kid, envelope, saving, made, copied>>,
         keyOps' = Tail(keyOps),
         \A u \in Tabs : restoring'[u] = restoring[u]
                         \/ (Head(keyOps).op = "get" /\ Head(keyOps).tab = u)
  PROVE  QueueInv'
<1>1. /\ keyOps \in Seq(Ops) /\ keyOps' \in Seq(Ops) /\ Head(keyOps) = keyOps[1]
      /\ 1 \in DOMAIN keyOps /\ DOMAIN keyOps \subseteq Nat
      /\ \A i \in DOMAIN keyOps' : i + 1 \in DOMAIN keyOps /\ keyOps'[i] = keyOps[i + 1]
                                   /\ i \in Nat /\ i + 1 # 1
      /\ \A i \in DOMAIN keyOps : i # 1 => i - 1 \in DOMAIN keyOps' /\ keyOps[i] = keyOps'[i - 1]
  BY DEF Typed
<1>2. \A i \in DOMAIN keyOps' : keyOps'[i].op = "get" => keyOps'[i].tab \in Tabs
  BY <1>1, QueueKinds DEF Gets
<1>3. Reads'
  <2> SUFFICES ASSUME NEW i \in DOMAIN keyOps', keyOps'[i].op = "get"
               PROVE  /\ restoring'[keyOps'[i].tab].at = "reading"
                      /\ keyOps'[i].kid = kid'[keyOps'[i].tab]
                      /\ \A j \in DOMAIN keyOps' :
                           keyOps'[j].op = "get" /\ keyOps'[j].tab = keyOps'[i].tab => i = j
    BY DEF Reads
  <2>1. /\ restoring[keyOps'[i].tab].at = "reading"
        /\ keyOps'[i].kid = kid[keyOps'[i].tab]
        /\ \A j \in DOMAIN keyOps :
             keyOps[j].op = "get" /\ keyOps[j].tab = keyOps'[i].tab => j = i + 1
    BY <1>1 DEF QueueInv, Reads
  <2>2. ~(Head(keyOps).op = "get" /\ Head(keyOps).tab = keyOps'[i].tab) BY <1>1, <2>1
  <2>3. \A j \in DOMAIN keyOps' :
          keyOps'[j].op = "get" /\ keyOps'[j].tab = keyOps'[i].tab => i = j
    BY <1>1, <2>1
  <2> QED BY <1>2, <2>1, <2>2, <2>3
<1>4. Counted'
  <2>1. \A i \in DOMAIN keyOps' : keyOps'[i].op = "put" =>
          /\ keyOps'[i].key <= made'
          /\ \A u \in Tabs : envelope'[u].key # keyOps'[i].key
    BY <1>1 DEF QueueInv, Counted
  <2>2. \A i, j \in DOMAIN keyOps' :
          keyOps'[i].op = "put" /\ keyOps'[j].op = "put" /\ keyOps'[j].key = keyOps'[i].key => i = j
    BY <1>1 DEF QueueInv, Counted
  <2> QED BY <1>1, <2>1, <2>2 DEF QueueInv, Counted
<1>5. OwnIds' BY DEF QueueInv, OwnIds
<1>6. PutsComeFirst'
  <2> SUFFICES ASSUME NEW u \in Tabs, NEW i \in DOMAIN keyOps',
                      keyOps'[i].op = "put", keyOps'[i].kid = kid'[u], kid'[u] \notin copied'
               PROVE  /\ keyOps'[i].tab = u
                      /\ \/ AwaitedBy(saving', keyOps'[i])
                         \/ \E j \in DOMAIN keyOps' :
                              j > i /\ keyOps'[j].op = "get" /\ keyOps'[j].tab = u
    BY DEF PutsComeFirst
  <2>1. /\ keyOps'[i].tab = u
        /\ \/ AwaitedBy(saving', keyOps'[i])
           \/ \E j \in DOMAIN keyOps : j > i + 1 /\ keyOps[j].op = "get" /\ keyOps[j].tab = u
    BY <1>1 DEF QueueInv, PutsComeFirst
  <2>2. CASE AwaitedBy(saving', keyOps'[i])
    BY <2>1, <2>2
  <2>3. CASE ~AwaitedBy(saving', keyOps'[i])
    <3>1. PICK j \in DOMAIN keyOps : j > i + 1 /\ keyOps[j].op = "get" /\ keyOps[j].tab = u
      BY <2>1, <2>3
    <3>2. i \in Nat /\ j \in Nat
      BY <1>1
    <3>3. j # 1 /\ j - 1 > i
      BY <3>1, <3>2
    <3>4. j - 1 \in DOMAIN keyOps' /\ keyOps'[j - 1] = keyOps[j]
      BY <1>1, <3>3
    <3> QED BY <2>1, <3>1, <3>3, <3>4
  <2> QED BY <2>2, <2>3
<1>7. LonePuts' BY <1>1 DEF QueueInv, LonePuts
<1>8. DeletesAreOver' BY <1>1 DEF QueueInv, DeletesAreOver
<1> QED BY <1>3, <1>4, <1>5, <1>6, <1>7, <1>8 DEF QueueInv

(* An awaited put is run, and the session written.                          *)
LEMMA QueueWhenStored ==
  ASSUME Typed, Jobs, QueueInv, keyOps # <<>>,
         NEW o, o = Head(keyOps), o.op = "put", AwaitedBy(saving, o),
         NEW t \in Tabs, t = o.tab,
         kid'[t] = o.kid, envelope'[t].key = o.key, saving'[t] = Off, OthersStay(t),
         UNCHANGED <<restoring, made, copied>>,
         keyOps' = Tail(keyOps)
  PROVE  QueueInv'
<1>1. /\ keyOps \in Seq(Ops) /\ keyOps' \in Seq(Ops) /\ o = keyOps[1]
      /\ 1 \in DOMAIN keyOps /\ DOMAIN keyOps \subseteq Nat
      /\ \A i \in DOMAIN keyOps' : i + 1 \in DOMAIN keyOps /\ keyOps'[i] = keyOps[i + 1]
                                   /\ i \in Nat /\ i + 1 # 1
      /\ \A i \in DOMAIN keyOps : i # 1 => i - 1 \in DOMAIN keyOps' /\ keyOps[i] = keyOps'[i - 1]
  BY SMTT(30) DEF Typed
<1>2. /\ \A i \in DOMAIN keyOps' : keyOps'[i].op = "get" => keyOps'[i].tab \in Tabs
      /\ \A i \in DOMAIN keyOps' : keyOps'[i].op = "put" => keyOps'[i] \in Puts
      /\ o \in Puts
  BY <1>1, QueueKinds DEF Gets
<1>3. restoring[t].at # "reading" BY DEF AwaitedBy, Jobs, Stores, Busy
<1>4. \A i \in DOMAIN keyOps' : keyOps'[i].op = "put" => (AwaitedBy(saving', keyOps'[i]) <=>
        keyOps'[i].tab # t /\ AwaitedBy(saving, keyOps'[i]))
  BY <1>2 DEF AwaitedBy, OthersStay, Puts, Off
<1>5. Reads'
  <2> SUFFICES ASSUME NEW i \in DOMAIN keyOps', keyOps'[i].op = "get"
               PROVE  /\ restoring'[keyOps'[i].tab].at = "reading"
                      /\ keyOps'[i].kid = kid'[keyOps'[i].tab]
                      /\ \A j \in DOMAIN keyOps' :
                           keyOps'[j].op = "get" /\ keyOps'[j].tab = keyOps'[i].tab => i = j
    BY DEF Reads
  <2>1. /\ restoring[keyOps'[i].tab].at = "reading"
        /\ keyOps'[i].kid = kid[keyOps'[i].tab]
        /\ \A j \in DOMAIN keyOps :
             keyOps[j].op = "get" /\ keyOps[j].tab = keyOps'[i].tab => j = i + 1
    BY <1>1 DEF QueueInv, Reads
  <2>2. keyOps'[i].tab # t BY <1>3, <2>1
  <2>3. \A j \in DOMAIN keyOps' :
          keyOps'[j].op = "get" /\ keyOps'[j].tab = keyOps'[i].tab => i = j
    BY <1>1, <2>1
  <2> QED BY <1>2, <2>1, <2>2, <2>3 DEF OthersStay
<1>6. Counted'
  <2>1. \A u \in Tabs : kid'[u] <= made' /\ envelope'[u].key <= made'
    BY <1>1 DEF QueueInv, Counted, OthersStay
  <2>2. \A i \in DOMAIN keyOps' : keyOps'[i].op = "put" =>
          /\ keyOps'[i].key <= made'
          /\ keyOps'[i].key # o.key
          /\ \A u \in Tabs : envelope[u].key # keyOps'[i].key
    BY <1>1 DEF QueueInv, Counted
  <2>3. \A i, j \in DOMAIN keyOps' :
          keyOps'[i].op = "put" /\ keyOps'[j].op = "put" /\ keyOps'[j].key = keyOps'[i].key => i = j
    BY <1>1 DEF QueueInv, Counted
  <2>4. \A i \in DOMAIN keyOps' : keyOps'[i].kid <= made' BY <1>1 DEF QueueInv, Counted
  <2> QED BY <2>1, <2>2, <2>3, <2>4 DEF Counted, OthersStay
<1>7. \A u \in Tabs \ {t} : kid[u] = o.kid => o.kid \in copied
  BY <1>1 DEF QueueInv, PutsComeFirst
<1>8. OwnIds' BY <1>7 DEF QueueInv, OwnIds, OthersStay
<1>9. \A i \in DOMAIN keyOps' : keyOps'[i].op = "put" /\ keyOps'[i].kid = o.kid => o.kid \in copied
  <2> SUFFICES ASSUME NEW i \in DOMAIN keyOps', keyOps'[i].op = "put", keyOps'[i].kid = o.kid
               PROVE  o.kid \in copied
    OBVIOUS
  <2>1. 1 # i + 1 /\ keyOps[i + 1].op = "put" /\ keyOps[1].kid = keyOps[i + 1].kid BY <1>1
  <2> QED BY <1>1, <2>1 DEF QueueInv, LonePuts
<1>10. PutsComeFirst'
  <2> SUFFICES ASSUME NEW u \in Tabs, NEW i \in DOMAIN keyOps',
                      keyOps'[i].op = "put", keyOps'[i].kid = kid'[u], kid'[u] \notin copied'
               PROVE  /\ keyOps'[i].tab = u
                      /\ \/ AwaitedBy(saving', keyOps'[i])
                         \/ \E j \in DOMAIN keyOps' :
                              j > i /\ keyOps'[j].op = "get" /\ keyOps'[j].tab = u
    BY DEF PutsComeFirst
  <2>1. u # t BY <1>9
  <2>2. /\ keyOps'[i].tab = u
        /\ \/ AwaitedBy(saving, keyOps'[i])
           \/ \E j \in DOMAIN keyOps : j > i + 1 /\ keyOps[j].op = "get" /\ keyOps[j].tab = u
    BY <1>1, <2>1 DEF QueueInv, PutsComeFirst, OthersStay
  <2>3. ASSUME NEW j \in DOMAIN keyOps, j > i + 1 PROVE j - 1 > i /\ j # 1 BY <1>1, <2>3
  <2> QED BY <1>1, <1>4, <2>1, <2>2, <2>3
<1>11. LonePuts' BY <1>1, <1>4 DEF QueueInv, LonePuts
<1>12. DeletesAreOver'
  <2> SUFFICES ASSUME NEW i \in DOMAIN keyOps', keyOps'[i].op = "delete",
                      keyOps'[i].kid \notin copied'
               PROVE  /\ \A u \in Tabs : kid'[u] # keyOps'[i].kid
                      /\ \A j \in DOMAIN keyOps' :
                           keyOps'[j].op = "put" /\ keyOps'[j].kid = keyOps'[i].kid =>
                             ~AwaitedBy(saving', keyOps'[j])
    BY DEF DeletesAreOver
  <2>1. /\ \A u \in Tabs : kid[u] # keyOps'[i].kid
        /\ \A j \in DOMAIN keyOps :
             keyOps[j].op = "put" /\ keyOps[j].kid = keyOps'[i].kid => ~AwaitedBy(saving, keyOps[j])
    BY <1>1 DEF QueueInv, DeletesAreOver
  <2>2. o.kid # keyOps'[i].kid BY <1>1, <2>1
  <2> QED BY <1>1, <1>4, <2>1, <2>2 DEF OthersStay
<1> QED BY <1>5, <1>6, <1>8, <1>10, <1>11, <1>12 DEF QueueInv

(* A session is sealed with a new key, to be stored.                        *)
LEMMA QueueWhenSealed ==
  ASSUME Typed, Jobs, QueueInv, NEW t \in Tabs, Seal(t)
  PROVE  QueueInv'
<1> DEFINE last == Len(keyOps) + 1
           k == KeyId(t)
           o == Put(t, k, made + 1)
<1>1. /\ made \in Nat /\ made + 1 \in Kids /\ k \in Kids /\ k <= made + 1
      /\ made' = made + 1
      /\ kid[t] # 0 => k = kid[t]
      /\ kid[t] = 0 => k = made + 1
  <2>1. made \in Nat /\ made' = made + 1 BY DEF Typed, Seal
  <2>2. made + 1 \in Kids BY <2>1, SessionParameters DEF Seal, Kids
  <2>3. kid[t] \in 0 .. MaxKeys /\ kid[t] <= made BY DEF Typed, QueueInv, Counted
  <2>4. kid[t] # 0 => k = kid[t] BY DEF KeyId
  <2>5. kid[t] = 0 => k = made + 1 BY DEF KeyId
  <2> HIDE DEF k
  <2>6. k \in Kids /\ k <= made + 1 BY <2>1, <2>2, <2>3, <2>4, <2>5 DEF Kids
  <2> QED BY <2>1, <2>2, <2>4, <2>5, <2>6
<1>2. UNCHANGED <<kid, envelope, restoring, copied>> BY DEF Seal, stored, past
<1>3. saving[t].at = "deriving" BY DEF Seal
<1>4. saving' = [saving EXCEPT ![t] = [at |-> "storing", key |-> made + 1]] BY DEF Seal
<1>5. keyOps' = Append(keyOps, o) BY DEF Seal, Put
<1>6. o \in Ops /\ o.op = "put" /\ o.tab = t /\ o.kid = k /\ o.key = made + 1
  <2>1. o \in Ops BY <1>1, NewOps DEF Kids
  <2> QED BY <2>1 DEF Put
<1> HIDE DEF o, k
<1>7. /\ keyOps' \in Seq(Ops) /\ keyOps \in Seq(Ops)
      /\ DOMAIN keyOps' = DOMAIN keyOps \cup {last} /\ last \notin DOMAIN keyOps
      /\ \A i \in DOMAIN keyOps : keyOps'[i] = keyOps[i] /\ i < last
      /\ keyOps'[last] = o
  <2>1. keyOps \in Seq(Ops) BY DEF Typed
  <2>2. last \notin DOMAIN keyOps BY <2>1
  <2> QED BY <1>5, <1>6, <2>1, <2>2, Appended
<1> HIDE DEF last
<1>8. restoring[t].at # "reading" BY <1>3 DEF Jobs, Stores, Busy
<1>9. \A i \in DOMAIN keyOps : keyOps[i].op = "put" =>
        keyOps[i] \in Puts /\ keyOps[i].key # made + 1 /\ keyOps[i].key \in Nat
  BY <1>1, <1>7, QueueKinds DEF QueueInv, Counted, Puts
<1>10. \A i \in DOMAIN keyOps : keyOps[i].op = "put" =>
        (AwaitedBy(saving', keyOps[i]) <=> AwaitedBy(saving, keyOps[i]))
  BY <1>3, <1>4, <1>9 DEF AwaitedBy, Puts, Typed
<1>11. AwaitedBy(saving', o) BY <1>4, <1>6 DEF AwaitedBy, Typed
<1>12. \A i \in DOMAIN keyOps : keyOps[i].op = "put" /\ keyOps[i].kid = k => k \in copied
  <2> SUFFICES ASSUME NEW i \in DOMAIN keyOps, keyOps[i].op = "put", keyOps[i].kid = k,
                      k \notin copied
               PROVE  FALSE
    OBVIOUS
  <2>1. keyOps[i].kid <= made BY DEF QueueInv, Counted
  <2>2. kid[t] = k BY <1>1, <2>1
  <2>3. /\ keyOps[i].tab = t
        /\ \/ AwaitedBy(saving, keyOps[i])
           \/ \E j \in DOMAIN keyOps : j > i /\ keyOps[j].op = "get" /\ keyOps[j].tab = t
    BY <2>2 DEF QueueInv, PutsComeFirst
  <2>4. ~AwaitedBy(saving, keyOps[i]) BY <1>3, <2>3 DEF AwaitedBy
  <2> QED BY <1>8, <2>3, <2>4 DEF QueueInv, Reads
<1>13. Reads' BY <1>2, <1>6, <1>7 DEF QueueInv, Reads
<1>14. Counted'
  <2>1. \A u \in Tabs : kid'[u] <= made' /\ envelope'[u].key <= made' /\ envelope'[u].key # made + 1
    <3>1. \A u \in Tabs : kid[u] \in Nat /\ envelope[u].key \in Nat BY DEF Typed, Envelopes
    <3>2. \A u \in Tabs : kid[u] <= made /\ envelope[u].key <= made BY DEF QueueInv, Counted
    <3> QED BY <1>1, <1>2, <3>1, <3>2
  <2>2. \A i \in DOMAIN keyOps' : keyOps'[i].kid <= made'
    <3>1. \A i \in DOMAIN keyOps : keyOps[i].kid \in Nat BY <1>7, QueueKinds DEF Kids
    <3> QED BY <1>1, <1>6, <1>7, <3>1 DEF QueueInv, Counted
  <2>3. \A i \in DOMAIN keyOps : keyOps'[i].op = "put" =>
          /\ keyOps'[i].key <= made'
          /\ \A u \in Tabs : envelope'[u].key # keyOps'[i].key
          /\ \A j \in DOMAIN keyOps : keyOps'[j].op = "put" /\ keyOps'[j].key = keyOps'[i].key => i = j
    BY <1>1, <1>2, <1>7, <1>9 DEF QueueInv, Counted
  <2> QED BY <1>1, <1>6, <1>7, <1>9, <2>1, <2>2, <2>3 DEF Counted
<1>15. OwnIds' BY <1>2 DEF QueueInv, OwnIds
<1>16. \A u \in Tabs \ {t} : kid[u] = k => k \in copied
  BY <1>1 DEF QueueInv, OwnIds, Counted, Typed
<1>17. PutsComeFirst'
  <2> SUFFICES ASSUME NEW u \in Tabs, NEW i \in DOMAIN keyOps',
                      keyOps'[i].op = "put", keyOps'[i].kid = kid'[u], kid'[u] \notin copied'
               PROVE  /\ keyOps'[i].tab = u
                      /\ \/ AwaitedBy(saving', keyOps'[i])
                         \/ \E j \in DOMAIN keyOps' :
                              j > i /\ keyOps'[j].op = "get" /\ keyOps'[j].tab = u
    BY DEF PutsComeFirst
  <2>1. CASE i = last BY <1>2, <1>6, <1>7, <1>11, <1>16, <2>1
  <2>2. CASE i \in DOMAIN keyOps
    BY <1>2, <1>7, <1>10, <2>2 DEF QueueInv, PutsComeFirst
  <2> QED BY <1>7, <2>1, <2>2
<1>18. LonePuts'
  <2> SUFFICES ASSUME NEW i \in DOMAIN keyOps', NEW j \in DOMAIN keyOps',
                      i # j, keyOps'[i].op = "put", keyOps'[j].op = "put",
                      keyOps'[i].kid = keyOps'[j].kid, AwaitedBy(saving', keyOps'[i])
               PROVE  keyOps'[i].kid \in copied'
    BY DEF LonePuts
  <2>1. CASE i = last \/ j = last BY <1>2, <1>6, <1>7, <1>12, <2>1
  <2>2. CASE i # last /\ j # last BY <1>2, <1>7, <1>10, <2>2 DEF QueueInv, LonePuts
  <2> QED BY <2>1, <2>2
<1>19. DeletesAreOver'
  <2> SUFFICES ASSUME NEW i \in DOMAIN keyOps', keyOps'[i].op = "delete",
                      keyOps'[i].kid \notin copied'
               PROVE  /\ \A u \in Tabs : kid'[u] # keyOps'[i].kid
                      /\ \A j \in DOMAIN keyOps' :
                           keyOps'[j].op = "put" /\ keyOps'[j].kid = keyOps'[i].kid =>
                             ~AwaitedBy(saving', keyOps'[j])
    BY DEF DeletesAreOver
  <2>1. i \in DOMAIN keyOps /\ keyOps'[i] = keyOps[i] BY <1>6, <1>7
  <2>2. /\ \A u \in Tabs : kid[u] # keyOps[i].kid
        /\ \A j \in DOMAIN keyOps :
             keyOps[j].op = "put" /\ keyOps[j].kid = keyOps[i].kid => ~AwaitedBy(saving, keyOps[j])
    BY <1>2, <2>1 DEF QueueInv, DeletesAreOver
  <2>3. k # keyOps[i].kid BY <1>1, <2>1, <2>2 DEF QueueInv, Counted
  <2> QED BY <1>2, <1>6, <1>7, <1>10, <2>1, <2>2, <2>3
<1> QED BY <1>13, <1>14, <1>15, <1>17, <1>18, <1>19 DEF QueueInv

-----------------------------------------------------------------------------
(***************************************************************************)
(* What actions do to the sealing keys.                                    *)
(***************************************************************************)

(* No key is stored or deleted, and no session becomes restorable whose key *)
(* is not there.                                                           *)
LEMMA StoreWhenStill ==
  ASSUME Typed, Typed', StoreInv, keyStore' = keyStore, copied \subseteq copied', clock <= clock',
         \A t \in Tabs :
           \/ IsGone(t)
           \/ \E s \in Tabs :
                /\ kid'[t] = kid[s]
                /\ envelope'[t].key = envelope[s].key
                /\ envelope'[t].createdAt = envelope[s].createdAt
                /\ Restorable(t)' => /\ s = t
                                     /\ Restorable(t) \/ keyStore[kid[t]].key = envelope[t].key
  PROVE  StoreInv'
<1>1. SameAge'
  <2> SUFFICES ASSUME NEW t \in Tabs, HasEnvelope(t)', keyStore'[kid'[t]].key = envelope'[t].key
               PROVE  keyStore'[kid'[t]].at = envelope'[t].createdAt
    BY DEF SameAge
  <2>1. ~IsGone(t) BY DEF IsGone, HasEnvelope, None
  <2>2. PICK s \in Tabs :
          /\ kid'[t] = kid[s]
          /\ envelope'[t].key = envelope[s].key
          /\ envelope'[t].createdAt = envelope[s].createdAt
    BY <2>1
  <2> QED BY <2>2 DEF StoreInv, SameAge, HasEnvelope
<1>2. KeysKept'
  <2> SUFFICES ASSUME NEW t \in Tabs, HasEnvelope(t)', Restorable(t)', kid'[t] \notin copied',
                      clock' - envelope'[t].createdAt <= MaxSession
               PROVE  keyStore'[kid'[t]].key = envelope'[t].key
    BY DEF KeysKept
  <2>1. ~IsGone(t) BY DEF IsGone, HasEnvelope, None
  <2>2. /\ kid'[t] = kid[t]
        /\ envelope'[t].key = envelope[t].key
        /\ envelope'[t].createdAt = envelope[t].createdAt
        /\ Restorable(t) \/ keyStore[kid[t]].key = envelope[t].key
    BY <2>1
  <2>3. clock - envelope[t].createdAt <= MaxSession
    <3>1. clock \in Nat /\ clock' \in Nat /\ envelope[t].createdAt \in Nat /\ MaxSession \in Nat
      BY SessionParameters DEF Typed, Envelopes
    <3> QED BY <2>2, <3>1
  <2> QED BY <2>2, <2>3 DEF StoreInv, KeysKept, HasEnvelope
<1> QED BY <1>1, <1>2 DEF StoreInv

LEMMA StoreWhenSame ==
  ASSUME Typed, Typed', StoreInv, keyStore' = keyStore, copied \subseteq copied', clock <= clock',
         \A t \in Tabs :
           \/ IsGone(t)
           \/ /\ kid'[t] = kid[t]
              /\ envelope'[t].key = envelope[t].key
              /\ envelope'[t].createdAt = envelope[t].createdAt
              /\ Restorable(t)' => Restorable(t)
  PROVE  StoreInv'
<1>1. \A t \in Tabs :
           \/ IsGone(t)
           \/ \E s \in Tabs :
                /\ kid'[t] = kid[s]
                /\ envelope'[t].key = envelope[s].key
                /\ envelope'[t].createdAt = envelope[s].createdAt
                /\ Restorable(t)' => /\ s = t
                                     /\ Restorable(t) \/ keyStore[kid[t]].key = envelope[t].key
  OBVIOUS
<1> QED BY <1>1, StoreWhenStill

(* A put stores its key.  No session that can be restored has its id, but   *)
(* that of the page that waits for it.                                     *)
LEMMA StoreWhenPut ==
  ASSUME Typed, Typed', PolicyInv, QueueInv, StoreInv, keyOps # <<>>,
         NEW o, o = Head(keyOps), o.op = "put",
         keyStore' = WithKey(o.kid, o.key),
         UNCHANGED <<clock, copied, restoring>>,
         \A t \in Tabs :
           \/ IsGone(t)
           \/ /\ kid'[t] = kid[t] /\ envelope'[t] = envelope[t]
              /\ t \in isUnlocked' => t \in isUnlocked
              /\ t # o.tab \/ ~AwaitedBy(saving, o)
           \/ kid'[t] = o.kid /\ envelope'[t].key = o.key /\ envelope'[t].createdAt = clock
  PROVE  StoreInv'
<1>1. /\ keyOps \in Seq(Ops) /\ 1 \in DOMAIN keyOps /\ o = keyOps[1] /\ o \in Puts
      /\ \A j \in DOMAIN keyOps : j \in Nat
  BY QueueKinds DEF Typed
<1>2. /\ o.kid \in Kids /\ o.key \in Nat \ {0} /\ clock \in Nat /\ MaxSession \in Nat
      /\ \A i \in Kids : keyStore[i].key \in Nat /\ keyStore[i].at \in Nat
      /\ \A t \in Tabs : /\ kid[t] \in 0 .. MaxKeys /\ envelope[t].createdAt \in Nat
                         /\ envelope[t].key \in Nat
  BY <1>1, SessionParameters DEF Typed, Puts, Envelopes
<1>3. /\ DOMAIN keyStore = Kids
      /\ keyStore'[o.kid] = [key |-> o.key, at |-> clock]
      /\ \A i \in Kids \ {o.kid} :
           keyStore'[i] = IF clock - keyStore[i].at > MaxSession THEN NoKey ELSE keyStore[i]
  BY <1>2 DEF WithKey, Typed
<1>4. \A t \in Tabs : o.key # envelope[t].key BY <1>1 DEF QueueInv, Counted
<1>5. ASSUME NEW t \in Tabs, HasEnvelope(t)
      PROVE  kid[t] \in Kids
  BY <1>2, <1>5 DEF PolicyInv, Sessions, Kids
<1>6. SameAge'
  <2> SUFFICES ASSUME NEW t \in Tabs, HasEnvelope(t)', keyStore'[kid'[t]].key = envelope'[t].key
               PROVE  keyStore'[kid'[t]].at = envelope'[t].createdAt
    BY DEF SameAge
  <2>1. ~IsGone(t) BY DEF IsGone, HasEnvelope, None
  <2>2. CASE kid'[t] = o.kid /\ envelope'[t].key = o.key /\ envelope'[t].createdAt = clock
    BY <1>3, <2>2
  <2>3. CASE kid'[t] = kid[t] /\ envelope'[t] = envelope[t]
    <3>1. kid[t] # o.kid BY <1>3, <1>4, <2>3
    <3>2. HasEnvelope(t) /\ kid[t] \in Kids BY <1>5, <2>3 DEF HasEnvelope
    <3>3. keyStore'[kid[t]] = keyStore[kid[t]]
      BY <1>3, <2>3, <3>1, <3>2 DEF NoKey, HasEnvelope
    <3> QED BY <2>3, <3>2, <3>3 DEF StoreInv, SameAge
  <2> QED BY <2>1, <2>2, <2>3
<1>7. KeysKept'
  <2> SUFFICES ASSUME NEW t \in Tabs, HasEnvelope(t)', Restorable(t)', kid'[t] \notin copied',
                      clock' - envelope'[t].createdAt <= MaxSession
               PROVE  keyStore'[kid'[t]].key = envelope'[t].key
    BY DEF KeysKept
  <2>1. ~IsGone(t) BY DEF IsGone, HasEnvelope, None
  <2>2. CASE kid'[t] = o.kid /\ envelope'[t].key = o.key /\ envelope'[t].createdAt = clock
    BY <1>3, <2>2
  <2>3. CASE /\ kid'[t] = kid[t] /\ envelope'[t] = envelope[t]
             /\ t \in isUnlocked' => t \in isUnlocked
             /\ t # o.tab \/ ~AwaitedBy(saving, o)
    <3>1. HasEnvelope(t) /\ kid[t] \in Kids BY <1>5, <2>3 DEF HasEnvelope
    <3>2. Restorable(t) BY <2>3 DEF Restorable
    <3>3. keyStore[kid[t]].key = envelope[t].key
      BY <2>3, <3>1, <3>2 DEF StoreInv, KeysKept
    <3>4. keyStore[kid[t]].at = envelope[t].createdAt BY <3>1, <3>3 DEF StoreInv, SameAge
    <3>5. kid[t] # o.kid
      <4> SUFFICES ASSUME kid[t] = o.kid PROVE FALSE OBVIOUS
      <4>1. /\ o.tab = t
            /\ \/ AwaitedBy(saving, o)
               \/ \E j \in DOMAIN keyOps : j > 1 /\ keyOps[j].op = "get" /\ keyOps[j].tab = t
        BY <1>1, <2>3 DEF QueueInv, PutsComeFirst
      <4>2. restoring[t].at = "reading" BY <2>3, <4>1 DEF QueueInv, Reads
      <4> QED BY <3>2, <4>2 DEF Restorable, PolicyInv, Jobs, Busy
    <3>6. ~(clock - keyStore[kid[t]].at > MaxSession)
      BY <1>2, <2>3, <3>1, <3>4
    <3> QED BY <1>3, <2>3, <3>1, <3>3, <3>5, <3>6
  <2> QED BY <2>1, <2>2, <2>3
<1> QED BY <1>6, <1>7 DEF StoreInv

-----------------------------------------------------------------------------
(***************************************************************************)
(* Every action keeps the invariant.                                       *)
(***************************************************************************)
LEMMA Clearing ==
  ASSUME Typed, Counted, NEW t \in Tabs, NEW q \in Seq(Ops), ClearSession(t, q)
  PROVE  /\ IsGone(t)
         /\ \A u \in Tabs \ {t} :
              envelope'[u] = envelope[u] /\ kid'[u] = kid[u] /\ entered'[u] = entered[u]
         /\ envelope' \in [Tabs -> Envelopes]
         /\ kid' \in [Tabs -> 0 .. MaxKeys]
         /\ entered' \in [Tabs -> Nat]
         /\ keyOps' \in Seq(Ops)
         /\ \/ keyOps' = q
            \/ \E k \in Kids : /\ k = kid[t]
                               /\ k <= made
                               /\ keyOps' = Append(q, Delete(k))
<1>1. None \in Envelopes BY DEF None, Envelopes
<1>2. 0 \in 0 .. MaxKeys BY SessionParameters
<1>3. \/ keyOps' = q
      \/ \E k \in Kids : k = kid[t] /\ k <= made /\ keyOps' = Append(q, Delete(k))
  <2>1. CASE kid[t] = 0 BY <2>1 DEF ClearSession
  <2>2. CASE kid[t] # 0
    <3>1. kid[t] \in Kids BY <2>2 DEF Typed, Kids
    <3>2. keyOps' = Append(q, Delete(kid[t])) BY <2>2 DEF ClearSession, Delete
    <3> QED BY <3>1, <3>2 DEF Counted
  <2> QED BY <2>1, <2>2
<1>4. keyOps' \in Seq(Ops)
  <2>1. \A k \in Kids : Delete(k) \in Ops BY DEF Delete, Ops, Deletes
  <2> QED BY <1>3, <2>1, Appended
<1> QED BY <1>1, <1>2, <1>3, <1>4 DEF ClearSession, IsGone, Typed

LEMMA NobodyReads ==
  ASSUME Reads, NEW t, restoring[t].at # "reading"
  PROVE  NoReads(keyOps, t)
BY DEF Reads, NoReads

(* A session is cleared: what follows for the queue.                        *)
LEMMA QueueWhenCleared ==
  ASSUME Typed, QueueInv, NEW t \in Tabs, NEW q, NEW f,
         Shortens(q, f), LeavesReads(q, f, t), NoReads(q, t),
         ClearSession(t, q), saving'[t].at # "storing",
         \A u \in Tabs \ {t} : saving'[u] = saving[u] /\ restoring'[u] = restoring[u],
         UNCHANGED <<made, copied>>
  PROVE  QueueInv'
<1>1. q \in Seq(Ops) BY DEF Shortens
<1>2. /\ IsGone(t) /\ OthersStay(t)
      /\ kid' \in [Tabs -> 0 .. MaxKeys]
      /\ \/ keyOps' = q
         \/ \E k \in Kids : k = kid[t] /\ k <= made /\ keyOps' = Append(q, Delete(k))
  BY <1>1, Clearing DEF OthersStay, QueueInv
<1> QED BY <1>2, QueueWhenGone

LEMMA OffIsOff ==
  ASSUME NEW x \in {Off} \cup Readings \cup Decipherings \cup Savings
  PROVE  /\ x = Off <=> x.at = "off"
         /\ x.at = "reading" => x \in Readings
         /\ x.at = "deciphering" => x \in Decipherings
BY DEF Off, Readings, Decipherings, Savings

LEMMA NoneIsNone ==
  ASSUME Typed, Sessions, NEW t \in Tabs
  PROVE  envelope[t] = None <=> ~HasEnvelope(t)
BY DEF Sessions, HasEnvelope, None

(* The user's hand, which may enter a password.                             *)
LEMMA HandKeeps ==
  ASSUME Inv, NEW t \in tabs, OnActivity(t), hasWallet' \in BOOLEAN,
         UNCHANGED <<clock, lockAfter, tabs, kid, isUnlocked, lockAfterMinutes, restoring,
                     keyStore, keyOps, made, entered, copied>>,
         \/ saving' = saving
         \/ /\ saving[t] = Off /\ restoring[t] = Off
            /\ saving' = [saving EXCEPT ![t] = [at |-> "deriving"]]
  PROVE  Inv'
<1>1. /\ t \in Tabs /\ clock \in Nat
      /\ acted'[t] = clock /\ \A u \in Tabs \ {t} : acted'[u] = acted[u]
      /\ \A u \in Tabs \ {t} : deadline'[u] = deadline[u] /\ envelope'[u] = envelope[u]
      /\ deadline'[t] = IF t \in isUnlocked /\ lockAfterMinutes[t] # 0
                        THEN clock + lockAfterMinutes[t] ELSE deadline[t]
      /\ envelope'[t] \in {envelope[t], Touch(envelope[t])}
  BY DEF OnActivity, Inv, Typed
<1>2. \A u \in Tabs :
        /\ envelope[u] \in Envelopes
        /\ envelope'[u] \in Envelopes
        /\ envelope'[u].key = envelope[u].key
        /\ envelope'[u].createdAt = envelope[u].createdAt
        /\ envelope[u] = None => envelope'[u] = None
        /\ envelope'[u] # envelope[u] => envelope'[u].lastActiveAt = clock
  BY <1>1, SMTT(30) DEF Inv, Typed, Envelopes, Touch
<1>3. \A u \in Tabs : u \notin isUnlocked => envelope'[u] = envelope[u]
  BY DEF OnActivity, Inv, Typed
<1>4. \A u \in Tabs :
        /\ Stores(u)' => Stores(u) \/ (u = t /\ restoring[t] = Off)
        /\ "storing" \in {saving[u].at, saving'[u].at} => saving'[u] = saving[u]
  BY <1>1 DEF Inv, Typed, Stores, Off
<1>5. Typed' 
  <2>1. /\ acted' \in [Tabs -> Nat] /\ deadline' \in [Tabs -> Nat]
        /\ envelope' \in [Tabs -> Envelopes]
    BY <1>1, <1>2 DEF OnActivity, Inv, Typed
  <2>2. saving' \in [Tabs -> {Off} \cup Savings]
    <3>1. saving \in [Tabs -> {Off} \cup Savings] /\ [at |-> "deriving"] \in Savings
      BY DEF Inv, Typed, Savings
    <3> QED BY <3>1
  <2> QED BY <2>1, <2>2 DEF Inv, Typed
<1>6. Jobs'
  BY <1>1, <1>2, <1>3, <1>4 DEF Inv, PolicyInv, Jobs, Busy, HasEnvelope, Off, Stores
<1>7. Fresh'
  BY <1>3 DEF Inv, PolicyInv, Jobs, Fresh, Busy, IsSessionExpired
<1>8. Sessions'
  <2>1. \A u \in Tabs : /\ acted[u] \in Nat /\ acted[u] <= clock
                        /\ envelope[u].lastActiveAt \in Nat
                        /\ HasEnvelope(u) => envelope[u].lastActiveAt <= acted[u]
    BY <1>2 DEF Inv, PolicyInv, Sessions, Typed, Envelopes
  <2>2. \A u \in Tabs : /\ acted'[u] <= clock'
                        /\ HasEnvelope(u) => envelope'[u].lastActiveAt <= acted'[u]
    BY <1>1, <1>2, <2>1
  <2> QED BY <1>2, <2>2 DEF Inv, PolicyInv, Sessions, HasEnvelope, Busy
<1>9. Timers'
  <2> SUFFICES ASSUME NEW u \in isUnlocked
               PROVE  /\ lockAfterMinutes[u] = 0 => deadline'[u] = 0
                      /\ lockAfterMinutes[u] > 0 =>
                           /\ clock <= deadline'[u]
                           /\ deadline'[u] <= acted'[u] + 2 * lockAfterMinutes[u]
                           /\ Stores(u)' => clock < deadline'[u]
    BY DEF Timers
  <2>1. u \in Tabs /\ lockAfterMinutes[u] \in Nat BY DEF Inv, Typed
  <2>2. CASE u = t BY <1>1, <2>1, <2>2 DEF Inv, PolicyInv, Timers
  <2>3. CASE u # t BY <1>1, <1>4, <2>1, <2>3 DEF Inv, PolicyInv, Timers
  <2> QED BY <2>2, <2>3
<1>10. QueueInv' BY <1>2, <1>4, QueueWhenStill DEF Inv
<1>11. StoreInv'
  <2>1. \A u \in Tabs : Restorable(u)' => Restorable(u) BY <1>2 DEF Restorable
  <2>2. clock <= clock' BY <1>1
  <2> QED BY <1>2, <1>5, <2>1, <2>2, StoreWhenSame DEF Inv
<1> QED BY <1>5, <1>6, <1>7, <1>8, <1>9, <1>10, <1>11 DEF Inv, PolicyInv

LEMMA EnterPasswordKeeps ==
  ASSUME Inv, ~UserIsQuick, NEW t \in Tabs, EnterPassword(t)
  PROVE  Inv'
BY HandKeeps DEF EnterPassword

LEMMA ActivityKeeps ==
  ASSUME Inv, NEW t \in Tabs, Activity(t)
  PROVE  Inv'
<1>1. t \in tabs BY DEF Activity, Inv, Typed
<1>2. saving' = saving /\ hasWallet' \in BOOLEAN BY DEF Activity, Inv, Typed, shared, job
<1> QED BY <1>1, <1>2, HandKeeps DEF Activity, shared, job

LEMMA WrongPasswordKeeps ==
  ASSUME Inv, NEW t \in Tabs, WrongPassword(t)
  PROVE  Inv'
<1> USE DEF Inv, PolicyInv
<1>1. /\ saving[t].at = "deriving" /\ saving' = [saving EXCEPT ![t] = Off]
      /\ UNCHANGED <<clock, lockAfter, hasWallet, tabs, envelope, kid, isUnlocked,
                     lockAfterMinutes, deadline, restoring, keyStore, keyOps, made, entered,
                     acted, copied>>
  BY DEF WrongPassword, shared, stored, page, past
<1>2. \A u \in Tabs :
        /\ Stores(u)' => Stores(u)
        /\ "storing" \in {saving[u].at, saving'[u].at} => saving'[u] = saving[u]
  BY <1>1 DEF Typed, Stores, Off
<1>3. Typed' BY <1>1 DEF Typed
<1>4. Jobs' BY <1>1, <1>2 DEF Jobs, Busy, HasEnvelope
<1>5. Fresh' BY <1>1 DEF Fresh, Busy, IsSessionExpired
<1>6. Sessions' BY <1>1 DEF Sessions, HasEnvelope, Busy
<1>7. Timers' BY <1>1, <1>2 DEF Timers, Typed
<1>8. QueueInv' BY <1>1, <1>2, QueueWhenStill
<1>9. StoreInv'
  <2>1. \A u \in Tabs : Restorable(u)' => Restorable(u) BY <1>1 DEF Restorable
  <2>2. clock <= clock' BY <1>1 DEF Typed
  <2> QED BY <1>1, <1>3, <2>1, <2>2, StoreWhenSame
<1> QED BY <1>3, <1>4, <1>5, <1>6, <1>7, <1>8, <1>9

LEMMA SetLockKeeps ==
  ASSUME Inv, NEW t \in Tabs, NEW value \in LockAfter, SetLockAfterMinutes(t, value)
  PROVE  Inv'
<1> USE DEF Inv, PolicyInv
<1>1. /\ t \in isUnlocked /\ lockAfter' = value
      /\ lockAfterMinutes' = [lockAfterMinutes EXCEPT ![t] = value]
      /\ deadline' = [deadline EXCEPT ![t] = IF value = 0 THEN 0 ELSE clock + value]
      /\ acted' = [acted EXCEPT ![t] = clock]
      /\ UNCHANGED <<clock, hasWallet, tabs, envelope, kid, isUnlocked, restoring, saving,
                     keyStore, keyOps, made, entered, copied>>
  BY DEF SetLockAfterMinutes, stored, job
<1>2. value \in Nat /\ clock \in Nat BY SessionParameters DEF Typed
<1>3. Typed' BY <1>1, <1>2 DEF Typed
<1>4. /\ acted'[t] = clock /\ lockAfterMinutes'[t] = value
      /\ deadline'[t] = (IF value = 0 THEN 0 ELSE clock + value)
      /\ \A u \in Tabs \ {t} : /\ acted'[u] = acted[u] /\ deadline'[u] = deadline[u]
                              /\ lockAfterMinutes'[u] = lockAfterMinutes[u]
  BY <1>1 DEF Typed
<1>5. Jobs' BY <1>1, <1>4 DEF Jobs, Busy, HasEnvelope, Stores
<1>6. Fresh' BY <1>1, <1>4 DEF Jobs, Fresh, Busy, IsSessionExpired
<1>7. Sessions'
  <2>1. \A u \in Tabs : acted[u] \in Nat /\ acted[u] <= clock /\ envelope[u].lastActiveAt \in Nat
    BY DEF Sessions, Typed, Envelopes
  <2>2. \A u \in Tabs : acted[u] <= acted'[u] /\ acted'[u] <= clock /\ acted'[u] \in Nat
    BY <1>2, <1>4, <2>1
  <2> QED BY <1>1, <2>1, <2>2 DEF Sessions, HasEnvelope, Busy
<1>8. Timers'
  <2> SUFFICES ASSUME NEW u \in isUnlocked
               PROVE  /\ lockAfterMinutes'[u] = 0 => deadline'[u] = 0
                      /\ lockAfterMinutes'[u] > 0 =>
                           /\ clock <= deadline'[u]
                           /\ deadline'[u] <= acted'[u] + 2 * lockAfterMinutes'[u]
                           /\ Stores(u) => clock < deadline'[u]
    BY <1>1 DEF Timers, Stores
  <2>1. u \in Tabs BY DEF Typed
  <2>2. CASE u = t BY <1>2, <1>4, <2>2
  <2>3. CASE u # t BY <1>4, <2>1, <2>3 DEF Timers
  <2> QED BY <2>2, <2>3
<1>9. QueueInv' BY <1>1, QueueWhenStill
<1>10. StoreInv'
  <2>1. \A u \in Tabs : Restorable(u)' => Restorable(u) BY <1>1 DEF Restorable
  <2>2. clock <= clock' BY <1>1, <1>2
  <2> QED BY <1>1, <1>3, <2>1, <2>2, StoreWhenSame
<1> QED BY <1>3, <1>5, <1>6, <1>7, <1>8, <1>9, <1>10

LEMMA TickKeeps ==
  ASSUME Inv, Tick
  PROVE  Inv'
<1> USE DEF Inv, PolicyInv
<1>1. /\ \A t \in Tabs : restoring[t] = Off /\ saving[t] = Off
      /\ \A t \in isUnlocked : deadline[t] # clock
      /\ clock' = clock + 1
      /\ acted' = [t \in Tabs |-> IF t \in isUnlocked THEN acted[t] ELSE 0]
      /\ UNCHANGED <<lockAfter, hasWallet, tabs, envelope, kid, isUnlocked,
                     lockAfterMinutes, deadline, restoring, saving, keyStore, keyOps, made, entered,
                     copied>>
  BY DEF Tick, shared, stored, page, job
<1>2. Typed' BY <1>1 DEF Typed
<1>3. clock \in Nat BY DEF Typed
<1>4. \A t \in Tabs : ~Busy(t) /\ ~Stores(t) BY <1>1 DEF Busy, Stores, Off
<1>5. Jobs' BY <1>1, <1>4 DEF Jobs, Busy, Stores
<1>6. Fresh' BY <1>1, <1>4 DEF Fresh, Busy
<1>7. Sessions'
  <2>1. \A t \in Tabs : acted'[t] \in Nat /\ acted'[t] <= acted[t] /\ acted[t] \in Nat
    BY <1>1 DEF Typed
  <2>2. \A t \in Tabs : acted'[t] <= clock' BY <1>1, <1>3, <2>1 DEF Sessions
  <2>3. \A t \in Tabs : HasEnvelope(t) => t \in isUnlocked BY <1>4 DEF Sessions
  <2> QED BY <1>1, <2>2, <2>3 DEF Sessions, HasEnvelope, Busy
<1>8. Timers' BY <1>1, <1>3, <1>4 DEF Timers, Typed, Stores
<1>9. QueueInv' BY <1>1, QueueWhenStill
<1>10. StoreInv'
  <2>1. \A u \in Tabs : Restorable(u)' => Restorable(u) BY <1>1 DEF Restorable
  <2>2. clock <= clock' BY <1>1, <1>3
  <2> QED BY <1>1, <1>2, <2>1, <2>2, StoreWhenSame
<1> QED BY <1>2, <1>5, <1>6, <1>7, <1>8, <1>9, <1>10

(* The conditions of the timer, of one tab.                                 *)
TimerRuns(t) ==
  /\ lockAfterMinutes[t] = 0 => deadline[t] = 0
  /\ lockAfterMinutes[t] > 0 => /\ clock <= deadline[t]
                                /\ deadline[t] <= acted[t] + 2 * lockAfterMinutes[t]
                                /\ Stores(t) => clock < deadline[t]

(* Tab t has no session and restores none; the others are as they were.     *)
LEMMA PolicyWhenGone ==
  ASSUME Typed, PolicyInv, NEW t \in Tabs, IsGone(t), OthersStay(t),
         restoring'[t] = Off, clock' = clock,
         tabs' \ {t} = tabs \ {t}, isUnlocked' \ {t} = isUnlocked \ {t},
         \A u \in Tabs \ {t} :
           /\ entered'[u] = entered[u] /\ acted'[u] = acted[u]
           /\ lockAfterMinutes'[u] = lockAfterMinutes[u] /\ deadline'[u] = deadline[u],
         acted'[t] <= clock,
         Stores(t)' => t \in tabs' /\ acted'[t] = clock,
         t \in isUnlocked' => TimerRuns(t)'
  PROVE  PolicyInv'
<1>1. ~HasEnvelope(t)' /\ ~Busy(t)' /\ kid'[t] = 0 /\ envelope'[t] = None
  BY DEF IsGone, HasEnvelope, Busy, None, Off
<1>2. \A u \in Tabs \ {t} : /\ HasEnvelope(u)' <=> HasEnvelope(u)
                            /\ Busy(u)' <=> Busy(u)
                            /\ Stores(u)' <=> Stores(u)
                            /\ u \in tabs' <=> u \in tabs
                            /\ u \in isUnlocked' <=> u \in isUnlocked
  BY DEF OthersStay, HasEnvelope, Busy, Stores
<1>3. Jobs' BY <1>1, <1>2 DEF PolicyInv, Jobs, OthersStay
<1>4. Fresh' BY <1>1, <1>2 DEF PolicyInv, Fresh, IsSessionExpired, OthersStay
<1>5. Sessions' BY <1>1, <1>2 DEF PolicyInv, Sessions, OthersStay
<1>6. Timers'
  <2> SUFFICES ASSUME NEW u \in isUnlocked', u # t PROVE TimerRuns(u)'
    BY DEF Timers, TimerRuns
  <2>1. u \in isUnlocked /\ u \in Tabs \ {t} BY DEF Typed
  <2> QED BY <1>2, <2>1 DEF PolicyInv, Timers, TimerRuns
<1> QED BY <1>3, <1>4, <1>5, <1>6 DEF PolicyInv

LEMMA StoreWhenGone ==
  ASSUME Typed, Typed', StoreInv, NEW t \in Tabs, IsGone(t), OthersStay(t),
         isUnlocked' \ {t} = isUnlocked \ {t},
         keyStore' = keyStore, copied \subseteq copied', clock' = clock
  PROVE  StoreInv'
<1>1. \A u \in Tabs \ {t} : Restorable(u)' => Restorable(u) BY DEF OthersStay, Restorable
<1>2. clock <= clock' BY DEF Typed
<1> QED BY <1>1, <1>2, StoreWhenSame DEF OthersStay

(* lock, switchVaultAccount, logout and the inactivity timer.               *)
LEMMA LocksKeeps ==
  ASSUME Inv, NEW t \in isUnlocked, ClearSession(t, keyOps), Locks(t),
         saving[t] = Off \/ deadline[t] = clock, hasWallet' \in BOOLEAN,
         UNCHANGED <<clock, lockAfter, tabs, lockAfterMinutes, restoring, saving, keyStore,
                     made, acted, copied>>
  PROVE  Inv'
<1> USE DEF Inv
<1>1. t \in Tabs /\ keyOps \in Seq(Ops) /\ clock \in Nat \ {0} BY DEF Typed
<1>2. ~Stores(t)
  <2>1. lockAfterMinutes[t] \in Nat BY <1>1 DEF Typed
  <2> QED BY <1>1, <2>1 DEF PolicyInv, Timers, Stores, Off
<1>3. restoring[t] = Off
  BY <1>1, OffIsOff DEF PolicyInv, Jobs, Busy, Typed
<1>4. /\ IsGone(t) /\ OthersStay(t)
      /\ \A u \in Tabs \ {t} : entered'[u] = entered[u] /\ deadline'[u] = deadline[u]
      /\ envelope' \in [Tabs -> Envelopes] /\ kid' \in [Tabs -> 0 .. MaxKeys]
      /\ entered' \in [Tabs -> Nat] /\ keyOps' \in Seq(Ops)
  BY <1>1, Clearing DEF QueueInv, OthersStay, Locks
<1>5. t \notin isUnlocked' /\ isUnlocked' \ {t} = isUnlocked \ {t} BY DEF Locks
<1>6. Typed' BY <1>4 DEF Typed, Locks
<1>7. PolicyInv'
  <2>1. acted'[t] <= clock BY <1>1 DEF PolicyInv, Sessions
  <2>2. ~Stores(t)' BY <1>2 DEF Stores
  <2> QED BY <1>1, <1>3, <1>4, <1>5, <2>1, <2>2, PolicyWhenGone
<1>8. QueueInv'
  <2>1. NoReads(keyOps, t) BY <1>3, NobodyReads DEF QueueInv, Off
  <2>2. PICK f : Shortens(keyOps, f) /\ LeavesReads(keyOps, f, t) BY <1>1, WholeQueue
  <2>3. saving'[t].at # "storing" BY <1>2 DEF Stores
  <2> QED BY <1>1, <2>1, <2>2, <2>3, QueueWhenCleared
<1>9. StoreInv' BY <1>1, <1>4, <1>5, <1>6, StoreWhenGone
<1> QED BY <1>6, <1>7, <1>8, <1>9

LEMMA LockKeeps ==
  ASSUME Inv, ~UserIsQuick, NEW t \in Tabs, Lock(t)
  PROVE  Inv'
<1>1. hasWallet' \in BOOLEAN BY DEF Lock, shared, Inv, Typed
<1> QED BY <1>1, LocksKeeps DEF Lock, shared, job

LEMMA LogoutKeeps ==
  ASSUME Inv, ~UserIsQuick, NEW t \in Tabs, Logout(t)
  PROVE  Inv'
<1>1. hasWallet' \in BOOLEAN BY DEF Logout
<1> QED BY <1>1, LocksKeeps DEF Logout, job

LEMMA InactivityLocksKeeps ==
  ASSUME Inv, NEW t \in Tabs, InactivityLocks(t)
  PROVE  Inv'
<1>1. hasWallet' \in BOOLEAN BY DEF InactivityLocks, shared, Inv, Typed
<1> QED BY <1>1, LocksKeeps DEF InactivityLocks, shared, job

LEMMA SealKeeps ==
  ASSUME Inv, NEW t \in Tabs, Seal(t)
  PROVE  Inv'
<1> USE DEF Inv
<1>1. /\ saving[t].at = "deriving" /\ made' = made + 1 /\ made < MaxKeys
      /\ saving' = [saving EXCEPT ![t] = [at |-> "storing", key |-> made + 1]]
      /\ UNCHANGED <<clock, lockAfter, hasWallet, tabs, envelope, kid, isUnlocked,
                     lockAfterMinutes, deadline, restoring, keyStore, entered, acted, copied>>
  BY DEF Seal, shared, stored, page, past
<1>2. QueueInv' BY QueueWhenSealed DEF PolicyInv
<1>3. made \in Nat /\ made + 1 \in 1 .. MaxKeys BY <1>1, SessionParameters DEF Typed
<1>4. keyOps' \in Seq(Ops)
  <2>1. KeyId(t) \in Kids BY <1>3 DEF KeyId, Kids, Typed
  <2>2. Put(t, KeyId(t), made + 1) \in Ops BY <1>3, <2>1, NewOps
  <2>3. keyOps' = Append(keyOps, Put(t, KeyId(t), made + 1)) BY DEF Seal, Put
  <2> QED BY <2>2, <2>3, Appended DEF Typed
<1>5. \A u \in Tabs : Stores(u)' <=> Stores(u) BY <1>1 DEF Stores, Typed
<1>6. Typed'
  <2>1. saving' \in [Tabs -> {Off} \cup Savings]
    <3>1. [at |-> "storing", key |-> made + 1] \in Savings BY <1>3 DEF Savings
    <3> QED BY <1>1, <3>1 DEF Typed
  <2>2. made' \in 0 .. MaxKeys BY <1>1, <1>3
  <2> QED BY <1>1, <1>4, <2>1, <2>2 DEF Typed
<1>7. PolicyInv'
  <2>1. Jobs' BY <1>1, <1>5 DEF PolicyInv, Jobs, Busy, HasEnvelope
  <2>2. Fresh' BY <1>1 DEF PolicyInv, Fresh, Busy, IsSessionExpired
  <2>3. Sessions' BY <1>1 DEF PolicyInv, Sessions, HasEnvelope, Busy
  <2>4. Timers' BY <1>1, <1>5 DEF PolicyInv, Timers, Typed
  <2> QED BY <2>1, <2>2, <2>3, <2>4 DEF PolicyInv
<1>8. StoreInv'
  <2>1. \A u \in Tabs : Restorable(u)' => Restorable(u) BY <1>1 DEF Restorable
  <2>2. clock <= clock' BY <1>1 DEF Typed
  <2> QED BY <1>1, <1>6, <2>1, <2>2, StoreWhenSame
<1> QED BY <1>2, <1>6, <1>7, <1>8

LEMMA RunDeleteKeeps ==
  ASSUME Inv, RunDelete
  PROVE  Inv'
<1> USE DEF Inv
<1> DEFINE o == Head(keyOps)
<1>1. /\ keyOps # <<>> /\ o.op = "delete"
      /\ keyStore' = [keyStore EXCEPT ![o.kid] = NoKey]
      /\ keyOps' = Tail(keyOps)
      /\ UNCHANGED <<clock, lockAfter, hasWallet, tabs, envelope, kid, isUnlocked,
                     lockAfterMinutes, deadline, restoring, saving, made, entered, acted, copied>>
  BY DEF RunDelete, shared, stored, page, job, past
<1>2. /\ 1 \in DOMAIN keyOps /\ o = keyOps[1] /\ keyOps' \in Seq(Ops) /\ o.kid \in Kids
  BY <1>1, QueueKinds DEF Typed
<1> HIDE DEF o
<1>3. Typed' BY <1>1, <1>2 DEF Typed, NoKey
<1>4. PolicyInv'
  <2>1. Jobs' BY <1>1 DEF PolicyInv, Jobs, Busy, HasEnvelope, Stores
  <2>2. Fresh' BY <1>1 DEF PolicyInv, Fresh, Busy, IsSessionExpired
  <2>3. Sessions' BY <1>1 DEF PolicyInv, Sessions, HasEnvelope, Busy
  <2>4. Timers' BY <1>1 DEF PolicyInv, Timers, Stores
  <2> QED BY <2>1, <2>2, <2>3, <2>4 DEF PolicyInv
<1>5. QueueInv' BY <1>1, QueueWhenRun
<1>6. \A i \in Kids \ {o.kid} : keyStore'[i] = keyStore[i] BY <1>1 DEF Typed
<1>7. keyStore'[o.kid].key = 0 BY <1>1, <1>2 DEF Typed, NoKey
<1>8. \A t \in Tabs : HasEnvelope(t) => kid[t] \in Kids
  BY DEF PolicyInv, Sessions, Typed, Kids
<1>9. SameAge'
  <2> SUFFICES ASSUME NEW t \in Tabs, HasEnvelope(t), keyStore'[kid[t]].key = envelope[t].key
               PROVE  keyStore'[kid[t]].at = envelope[t].createdAt
    BY <1>1 DEF SameAge, HasEnvelope
  <2>1. kid[t] # o.kid BY <1>7 DEF HasEnvelope
  <2> QED BY <1>6, <1>8, <2>1 DEF StoreInv, SameAge
<1>10. KeysKept'
  <2> SUFFICES ASSUME NEW t \in Tabs, HasEnvelope(t), Restorable(t), kid[t] \notin copied,
                      clock - envelope[t].createdAt <= MaxSession
               PROVE  keyStore'[kid[t]].key = envelope[t].key
    BY <1>1 DEF KeysKept, HasEnvelope, Restorable
  <2>1. kid[t] # o.kid BY <1>1, <1>2 DEF QueueInv, DeletesAreOver
  <2> QED BY <1>6, <1>8, <2>1 DEF StoreInv, KeysKept
<1> QED BY <1>3, <1>4, <1>5, <1>9, <1>10 DEF StoreInv

(* What a page restored is given up.                                        *)
LEMMA GivesUpKeeps ==
  ASSUME Inv, NEW t \in Tabs, Busy(t), NEW q, NEW f,
         Shortens(q, f), LeavesReads(q, f, t), NoReads(q, t),
         ClearSession(t, q), restoring' = [restoring EXCEPT ![t] = Off],
         UNCHANGED <<clock, lockAfter, hasWallet, tabs, isUnlocked, deadline, lockAfterMinutes,
                     saving, keyStore, made, acted, copied>>
  PROVE  Inv'
<1> USE DEF Inv
<1>1. q \in Seq(Ops) BY DEF Shortens
<1>2. /\ IsGone(t) /\ OthersStay(t) /\ restoring'[t] = Off
      /\ \A u \in Tabs \ {t} : entered'[u] = entered[u] /\ restoring'[u] = restoring[u]
      /\ envelope' \in [Tabs -> Envelopes] /\ kid' \in [Tabs -> 0 .. MaxKeys]
      /\ entered' \in [Tabs -> Nat] /\ keyOps' \in Seq(Ops)
  BY <1>1, Clearing DEF QueueInv, OthersStay, Typed
<1>3. t \notin isUnlocked /\ ~Stores(t) BY DEF PolicyInv, Jobs
<1>4. Typed' BY <1>2 DEF Typed
<1>5. PolicyInv'
  <2>1. acted'[t] <= clock BY DEF PolicyInv, Sessions
  <2>2. ~Stores(t)' BY <1>3 DEF Stores
  <2> QED BY <1>2, <1>3, <2>1, <2>2, PolicyWhenGone
<1>6. QueueInv'
  <2>1. saving'[t].at # "storing" BY <1>3 DEF Stores
  <2> QED BY <1>2, <2>1, QueueWhenCleared
<1>7. StoreInv' BY <1>2, <1>4, StoreWhenGone DEF Typed
<1> QED BY <1>4, <1>5, <1>6, <1>7

LEMMA RunGetKeeps ==
  ASSUME Inv, RunGet
  PROVE  Inv'
<1> USE DEF Inv
<1> DEFINE o == Head(keyOps)
           t == o.tab
<1>1. /\ keyOps # <<>> /\ o.op = "get"
      /\ UNCHANGED <<clock, lockAfter, hasWallet, tabs, isUnlocked, lockAfterMinutes, deadline,
                     saving, keyStore, made, acted, copied>>
  BY DEF RunGet, shared, page
<1>2. /\ 1 \in DOMAIN keyOps /\ o = keyOps[1]
      /\ keyOps \in Seq(Ops) /\ DOMAIN keyOps \subseteq Nat
  BY <1>1 DEF Typed
<1>3. t \in Tabs /\ o.kid \in Kids
  <2>1. keyOps \in Seq(Ops) /\ 1 \in DOMAIN keyOps /\ o = keyOps[1] BY <1>1 DEF Typed
  <2> QED BY <1>1, <2>1, QueueKinds DEF Gets
<1>4. /\ restoring[t].at = "reading" /\ o.kid = kid[t]
      /\ \A j \in DOMAIN keyOps : keyOps[j].op = "get" /\ keyOps[j].tab = t => j = 1
  <2>1. 1 \in DOMAIN keyOps /\ o = keyOps[1] BY <1>1 DEF Typed
  <2> QED BY <1>1, <2>1 DEF QueueInv, Reads
<1>5. CASE ClearSession(t, Tail(keyOps)) /\ restoring' = [restoring EXCEPT ![t] = Off]
  <2>1. PICK f : Shortens(Tail(keyOps), f) /\ LeavesReads(Tail(keyOps), f, t)
    BY <1>1, TailQueue DEF Typed
  <2>2. NoReads(Tail(keyOps), t)
    <3>1. keyOps \in Seq(Ops) /\ keyOps # <<>> BY <1>1 DEF Typed
    <3>2. \A n \in DOMAIN Tail(keyOps) : /\ n + 1 \in DOMAIN keyOps /\ n + 1 # 1
                                         /\ Tail(keyOps)[n] = keyOps[n + 1]
      BY <3>1
    <3> QED BY <1>4, <3>2 DEF NoReads
  <2>3. Busy(t) BY <1>4 DEF Busy
  <2> HIDE DEF t
  <2> QED BY <1>1, <1>3, <1>5, <2>1, <2>2, <2>3, GivesUpKeeps
<1>6. CASE /\ keyStore[o.kid] # NoKey
           /\ restoring' = [restoring EXCEPT
                ![t] = [at |-> "deciphering", env |-> @.env, key |-> keyStore[o.kid].key]]
           /\ keyOps' = Tail(keyOps)
           /\ UNCHANGED <<envelope, kid, entered>>
  <2>1. /\ restoring'[t].at = "deciphering" /\ restoring'[t].env = restoring[t].env
        /\ restoring'[t].key = keyStore[kid[t]].key
        /\ \A u \in Tabs \ {t} : restoring'[u] = restoring[u]
    BY <1>3, <1>4, <1>6 DEF Typed
  <2>2. restoring' \in [Tabs -> {Off} \cup Readings \cup Decipherings]
    <3>1. restoring[t] \in Readings BY <1>3, <1>4, OffIsOff DEF Typed
    <3>2. restoring[t].env \in Envelopes BY <3>1 DEF Readings
    <3>3. keyStore[o.kid].key \in Nat BY <1>3 DEF Typed
    <3>4. [at |-> "deciphering", env |-> restoring[t].env, key |-> keyStore[o.kid].key]
            \in Decipherings
      BY <3>2, <3>3 DEF Decipherings
    <3> HIDE DEF t, o
    <3> QED BY <1>3, <1>6, <3>4 DEF Typed
  <2>3. keyOps' \in Seq(Ops) BY <1>1, <1>6 DEF Typed
  <2> HIDE DEF t
  <2>4. Typed' BY <1>1, <1>6, <2>2, <2>3 DEF Typed
  <2>5. \A u \in Tabs : Busy(u)' <=> Busy(u) BY <1>4, <2>1 DEF Busy
  <2>6. PolicyInv'
    <3>1. Jobs'
      <4>1. \A u \in Tabs : Busy(u) => restoring'[u].env = restoring[u].env BY <2>1
      <4> QED BY <1>1, <1>6, <2>5, <4>1 DEF PolicyInv, Jobs, HasEnvelope, Stores
    <3>2. Fresh' BY <1>1, <1>6, <2>5 DEF PolicyInv, Fresh, IsSessionExpired
    <3>3. Sessions' BY <1>1, <1>6, <2>5 DEF PolicyInv, Sessions, HasEnvelope
    <3>4. Timers' BY <1>1, <1>6 DEF PolicyInv, Timers, Stores
    <3> QED BY <3>1, <3>2, <3>3, <3>4 DEF PolicyInv
  <2>7. QueueInv'
    <3>1. \A u \in Tabs : restoring'[u] = restoring[u]
                          \/ (Head(keyOps).op = "get" /\ Head(keyOps).tab = u)
      BY <1>1, <2>1 DEF t
    <3> QED BY <1>1, <1>6, <3>1, QueueWhenRun
  <2>8. StoreInv'
    <3>1. \A u \in Tabs : Restorable(u)' => \/ Restorable(u)
                                            \/ keyStore[kid[u]].key = envelope[u].key
      BY <1>1, <1>6, <2>1 DEF Restorable
    <3>2. \A u \in Tabs : \E s \in Tabs :
            /\ kid'[u] = kid[s]
            /\ envelope'[u].key = envelope[s].key
            /\ envelope'[u].createdAt = envelope[s].createdAt
            /\ Restorable(u)' => /\ s = u
                                 /\ Restorable(u) \/ keyStore[kid[u]].key = envelope[u].key
      BY <1>6, <3>1
    <3>3. clock <= clock' BY <1>1 DEF Typed
    <3> QED BY <1>1, <2>4, <3>2, <3>3, StoreWhenStill
  <2> QED BY <2>4, <2>6, <2>7, <2>8
<1> QED BY <1>5, <1>6 DEF RunGet, stored

LEMMA RestoreKeeps ==
  ASSUME Inv, NEW t \in Tabs, Restore(t)
  PROVE  Inv'
<1> USE DEF Inv
<1>1. /\ restoring[t].at = "deciphering" /\ restoring' = [restoring EXCEPT ![t] = Off]
      /\ UNCHANGED <<clock, lockAfter, hasWallet, tabs, lockAfterMinutes, saving, keyStore,
                     made, acted, copied>>
  BY DEF Restore, shared
<1>2. /\ Busy(t) /\ ~Stores(t) /\ t \in tabs \ isUnlocked /\ HasEnvelope(t)
      /\ envelope[t] = restoring[t].env
  BY <1>1 DEF Busy, PolicyInv, Jobs
<1>3. CASE ~(restoring[t].key = restoring[t].env.key /\ hasWallet)
  <2>1. ClearSession(t, keyOps) /\ UNCHANGED <<isUnlocked, deadline>> BY <1>3 DEF Restore
  <2>2. PICK f : Shortens(keyOps, f) /\ LeavesReads(keyOps, f, t) BY WholeQueue DEF Typed
  <2>3. NoReads(keyOps, t) BY <1>1, NobodyReads DEF QueueInv
  <2> QED BY <1>1, <1>2, <2>1, <2>2, <2>3, GivesUpKeeps
<1>4. CASE restoring[t].key = restoring[t].env.key /\ hasWallet
  <2>1. Unlocks(t) /\ UNCHANGED <<envelope, kid, keyOps, entered>> BY <1>4 DEF Restore, stored
  <2>2. /\ isUnlocked' = isUnlocked \cup {t}
        /\ deadline' = [deadline EXCEPT ![t] = IF lockAfterMinutes[t] = 0 THEN 0
                                               ELSE clock + lockAfterMinutes[t]]
    BY <1>2, <2>1 DEF Unlocks
  <2>3. restoring'[t] = Off /\ \A u \in Tabs \ {t} : restoring'[u] = restoring[u]
    BY <1>1 DEF Typed
  <2>4. Typed' BY <1>1, <1>2, <2>1, <2>2 DEF Typed
  <2>5. Jobs' BY <1>1, <2>1, <2>2, <2>3 DEF PolicyInv, Jobs, Busy, HasEnvelope, Stores, Off
  <2>6. Fresh' BY <1>1, <2>1, <2>3 DEF PolicyInv, Fresh, Busy, IsSessionExpired, Off
  <2>7. Sessions' BY <1>1, <2>1, <2>2, <2>3 DEF PolicyInv, Sessions, HasEnvelope, Busy
  <2>8. Timers'
    <3> SUFFICES ASSUME NEW u \in isUnlocked' PROVE TimerRuns(u)' BY DEF Timers, TimerRuns
    <3>1. u \in Tabs BY <2>4 DEF Typed
    <3>2. CASE u # t BY <1>1, <2>2, <3>1, <3>2 DEF PolicyInv, Timers, TimerRuns, Stores
    <3>3. CASE u = t
      <4>1. /\ clock \in Nat /\ acted[t] \in Nat /\ lockAfterMinutes[t] \in Nat
            /\ envelope[t].lastActiveAt \in Nat
        BY DEF Typed, Envelopes
      <4>2. deadline'[t] = IF lockAfterMinutes[t] = 0 THEN 0 ELSE clock + lockAfterMinutes[t]
        BY <2>2 DEF Typed
      <4>3. envelope[t].lastActiveAt <= acted[t] BY <1>2 DEF PolicyInv, Sessions
      <4>4. lockAfterMinutes[t] > 0 => clock - envelope[t].lastActiveAt <= lockAfterMinutes[t]
        BY <1>2, <4>1 DEF PolicyInv, Fresh, IsSessionExpired
      <4>5. ~Stores(t)' BY <1>1, <1>2 DEF Stores
      <4> QED BY <1>1, <3>3, <4>1, <4>2, <4>3, <4>4, <4>5 DEF TimerRuns
    <3> QED BY <3>2, <3>3
  <2>9. QueueInv'
    <3>1. \A u \in Tabs : restoring[u].at = "reading" => restoring'[u].at = "reading"
      BY <1>1, <2>3
    <3> QED BY <1>1, <2>1, <3>1, QueueWhenStill
  <2>10. StoreInv'
    <3>1. Restorable(t) BY <1>1, <1>2, <1>4 DEF Restorable
    <3>2. \A u \in Tabs : Restorable(u)' => Restorable(u)
      BY <2>1, <2>2, <2>3, <3>1 DEF Restorable
    <3>3. clock <= clock' BY <1>1 DEF Typed
    <3> QED BY <1>1, <2>1, <2>4, <3>2, <3>3, StoreWhenSame
  <2> QED BY <2>4, <2>5, <2>6, <2>7, <2>8, <2>9, <2>10 DEF PolicyInv
<1> QED BY <1>3, <1>4

(* A tab is unlocked whose password was entered just now.                   *)
LEMMA UnlockedTimer ==
  ASSUME Inv, NEW t \in Tabs, Stores(t), Unlocks(t), saving'[t] = Off,
         UNCHANGED <<clock, acted, lockAfterMinutes>>
  PROVE  TimerRuns(t)'
<1>1. /\ acted[t] = clock /\ clock \in Nat /\ lockAfterMinutes[t] \in Nat
      /\ deadline[t] \in Nat
  BY DEF Inv, PolicyInv, Jobs, Typed
<1>2. deadline'[t] = IF t \in isUnlocked THEN deadline[t]
                     ELSE IF lockAfterMinutes[t] = 0 THEN 0 ELSE clock + lockAfterMinutes[t]
  BY DEF Unlocks, Inv, Typed
<1>3. ~Stores(t)' BY DEF Stores, Off
<1>4. CASE t \in isUnlocked
  BY <1>1, <1>2, <1>3, <1>4 DEF Inv, PolicyInv, Timers, TimerRuns
<1>5. CASE t \notin isUnlocked BY <1>1, <1>2, <1>3, <1>5 DEF TimerRuns
<1> QED BY <1>4, <1>5

LEMMA SealFailsKeeps ==
  ASSUME Inv, NEW t \in Tabs, SealFails(t)
  PROVE  Inv'
<1> USE DEF Inv
<1>1. /\ saving[t].at = "deriving" /\ ClearSession(t, keyOps)
      /\ saving' = [saving EXCEPT ![t] = Off] /\ Unlocks(t)
      /\ UNCHANGED <<clock, lockAfter, hasWallet, tabs, lockAfterMinutes, restoring, keyStore,
                     made, acted, copied>>
  BY DEF SealFails, shared
<1>2. Stores(t) /\ ~Busy(t) /\ t \in tabs BY <1>1 DEF Stores, PolicyInv, Jobs
<1>3. restoring[t] = Off BY <1>2, OffIsOff DEF Busy, Typed
<1>4. /\ saving'[t] = Off /\ \A u \in Tabs \ {t} : saving'[u] = saving[u] /\ deadline'[u] = deadline[u]
      /\ isUnlocked' \ {t} = isUnlocked \ {t}
  BY <1>1 DEF Typed, Unlocks
<1>5. /\ IsGone(t) /\ OthersStay(t)
      /\ \A u \in Tabs \ {t} : entered'[u] = entered[u]
      /\ envelope' \in [Tabs -> Envelopes] /\ kid' \in [Tabs -> 0 .. MaxKeys]
      /\ entered' \in [Tabs -> Nat] /\ keyOps' \in Seq(Ops)
  BY <1>1, <1>4, Clearing DEF QueueInv, OthersStay, Typed
<1>6. Typed'
  <2>1. clock \in Nat /\ lockAfterMinutes[t] \in Nat /\ deadline[t] \in Nat BY DEF Typed
  <2>2. deadline' \in [Tabs -> Nat] BY <1>1, <2>1 DEF Unlocks, Typed
  <2>3. isUnlocked' \subseteq tabs' BY <1>1, <1>2 DEF Unlocks, Typed
  <2> QED BY <1>1, <1>2, <1>5, <2>2, <2>3 DEF Typed
<1>7. PolicyInv'
  <2>1. acted'[t] <= clock BY <1>1 DEF PolicyInv, Sessions
  <2>2. ~Stores(t)' BY <1>4 DEF Stores, Off
  <2>3. TimerRuns(t)' BY <1>1, <1>2, <1>4, UnlockedTimer
  <2> QED BY <1>1, <1>3, <1>4, <1>5, <2>1, <2>2, <2>3, PolicyWhenGone
<1>8. QueueInv'
  <2>1. NoReads(keyOps, t) BY <1>3, NobodyReads DEF QueueInv, Off
  <2>2. PICK f : Shortens(keyOps, f) /\ LeavesReads(keyOps, f, t) BY WholeQueue DEF Typed
  <2>3. saving'[t].at # "storing" BY <1>4 DEF Off
  <2> QED BY <1>1, <1>4, <2>1, <2>2, <2>3, QueueWhenCleared
<1>9. StoreInv' BY <1>1, <1>4, <1>5, <1>6, StoreWhenGone DEF Typed
<1> QED BY <1>6, <1>7, <1>8, <1>9

LEMMA StoreTyped ==
  ASSUME Typed, NEW k \in Kids, NEW key \in Nat
  PROVE  WithKey(k, key) \in [Kids -> [key : Nat, at : Nat]]
BY DEF Typed, WithKey, NoKey

LEMMA RunPutKeeps ==
  ASSUME Inv, RunPut
  PROVE  Inv'
<1> USE DEF Inv
<1>1. /\ keyOps # <<>> /\ Head(keyOps).op = "put"
      /\ UNCHANGED <<clock, lockAfter, hasWallet, tabs, lockAfterMinutes, restoring, made,
                     acted, copied>>
  BY DEF RunPut, shared
<1>2. /\ keyOps \in Seq(Ops) /\ 1 \in DOMAIN keyOps /\ Head(keyOps) = keyOps[1]
      /\ Tail(keyOps) \in Seq(Ops) /\ DOMAIN keyOps \subseteq Nat
  BY <1>1 DEF Typed
<1>3. PICK o \in Puts, t \in Tabs : /\ o = Head(keyOps) /\ t = o.tab /\ o.op = "put"
                                   /\ o.kid \in Kids /\ o.key \in Nat \ {0}
  <2>1. Head(keyOps) \in Puts BY <1>1, <1>2, QueueKinds
  <2> QED BY <2>1 DEF Puts
<1>4. WithKey(o.kid, o.key) \in [Kids -> [key : Nat, at : Nat]] BY <1>3, StoreTyped
<1>5. Awaited(o) <=> AwaitedBy(saving, o) BY DEF Awaited, AwaitedBy
<1>6. CASE ~Awaited(o)
  <2>1. /\ keyStore' = WithKey(o.kid, o.key) /\ keyOps' = Tail(keyOps)
        /\ UNCHANGED <<envelope, kid, isUnlocked, deadline, saving, entered>>
    BY <1>3, <1>6 DEF RunPut, stored
  <2>2. Typed'
    <3> QED BY <1>1, <1>2, <1>4, <2>1 DEF Typed
  <2>3. PolicyInv'
    <3>1. Jobs' BY <1>1, <2>1 DEF PolicyInv, Jobs, Busy, HasEnvelope, Stores
    <3>2. Fresh' BY <1>1, <2>1 DEF PolicyInv, Fresh, Busy, IsSessionExpired
    <3>3. Sessions' BY <1>1, <2>1 DEF PolicyInv, Sessions, HasEnvelope, Busy
    <3>4. Timers' BY <1>1, <2>1 DEF PolicyInv, Timers, Stores
    <3> QED BY <3>1, <3>2, <3>3, <3>4 DEF PolicyInv
  <2>4. QueueInv'
    <3>1. UNCHANGED <<kid, envelope, saving, made, copied>> BY <1>1, <2>1
    <3> QED BY <1>1, <2>1, <3>1, QueueWhenRun
  <2>5. StoreInv'
    <3>1. UNCHANGED <<clock, copied, restoring>> BY <1>1
    <3>2. \A u \in Tabs : /\ kid'[u] = kid[u] /\ envelope'[u] = envelope[u]
                          /\ u \in isUnlocked' => u \in isUnlocked
                          /\ ~AwaitedBy(saving, o)
      BY <1>5, <1>6, <2>1
    <3>3. o = Head(keyOps) /\ keyOps # <<>> /\ o.op = "put" /\ keyStore' = WithKey(o.kid, o.key)
      BY <1>1, <1>3, <2>1
    <3> QED BY <2>2, <3>1, <3>2, <3>3, StoreWhenPut
  <2> QED BY <2>2, <2>3, <2>4, <2>5
<1>7. ASSUME Awaited(o)
      PROVE  /\ Stores(t) /\ ~Busy(t) /\ t \in tabs /\ restoring[t] = Off
             /\ saving' = [saving EXCEPT ![t] = Off] /\ Unlocks(t)
             /\ saving'[t] = Off
             /\ \A u \in Tabs \ {t} : saving'[u] = saving[u] /\ deadline'[u] = deadline[u]
             /\ isUnlocked' = isUnlocked \cup {t}
             /\ deadline' \in [Tabs -> Nat]
             /\ TimerRuns(t)'
  <2>1. Stores(t) BY <1>3, <1>7 DEF Awaited, Stores
  <2>2. ~Busy(t) /\ t \in tabs BY <1>3, <2>1 DEF PolicyInv, Jobs
  <2>3. restoring[t] = Off BY <1>3, <2>2, OffIsOff DEF Busy, Typed
  <2>4. saving' = [saving EXCEPT ![t] = Off] /\ Unlocks(t) BY <1>3, <1>7 DEF RunPut
  <2>5. saving'[t] = Off BY <1>3, <2>4 DEF Typed
  <2>6. /\ \A u \in Tabs \ {t} : saving'[u] = saving[u] /\ deadline'[u] = deadline[u]
        /\ isUnlocked' = isUnlocked \cup {t}
        /\ deadline' \in [Tabs -> Nat]
    BY <1>3, <2>4 DEF Typed, Unlocks
  <2>7. TimerRuns(t)' BY <1>1, <1>3, <2>1, <2>4, <2>5, UnlockedTimer
  <2> QED BY <2>1, <2>2, <2>3, <2>4, <2>5, <2>6, <2>7
<1>8. CASE /\ Awaited(o)
           /\ keyStore' = WithKey(o.kid, o.key)
           /\ kid' = [kid EXCEPT ![t] = o.kid]
           /\ envelope' = [envelope EXCEPT
                ![t] = [key |-> o.key, createdAt |-> clock, lastActiveAt |-> clock]]
           /\ entered' = [entered EXCEPT ![t] = clock]
           /\ keyOps' = Tail(keyOps)
  <2>1. /\ kid'[t] = o.kid /\ entered'[t] = clock
        /\ envelope'[t] = [key |-> o.key, createdAt |-> clock, lastActiveAt |-> clock]
        /\ \A u \in Tabs \ {t} : kid'[u] = kid[u] /\ envelope'[u] = envelope[u] /\ entered'[u] = entered[u]
    BY <1>3, <1>8 DEF Typed
  <2>2. envelope'[t].key = o.key /\ envelope'[t].createdAt = clock /\ envelope'[t].lastActiveAt = clock
    BY <2>1
  <2>3. /\ kid' \in [Tabs -> 0 .. MaxKeys] /\ entered' \in [Tabs -> Nat]
        /\ envelope' \in [Tabs -> Envelopes]
    <3>1. clock \in Nat BY DEF Typed
    <3>2. [key |-> o.key, createdAt |-> clock, lastActiveAt |-> clock] \in Envelopes
      BY <1>3, <3>1 DEF Envelopes
    <3>3. o.kid \in 0 .. MaxKeys BY <1>3 DEF Kids
    <3> QED BY <1>3, <1>8, <3>1, <3>2, <3>3 DEF Typed
  <2>4. OthersStay(t) BY <1>1, <1>7, <1>8, <2>1 DEF OthersStay
  <2>5. Typed'
    <3> QED BY <1>1, <1>2, <1>3, <1>4, <1>7, <1>8, <2>3 DEF Typed
  <2>6. \A u \in Tabs \ {t} : /\ HasEnvelope(u)' <=> HasEnvelope(u)
                              /\ Busy(u)' <=> Busy(u)
                              /\ Stores(u)' <=> Stores(u)
    BY <1>1, <1>7, <1>8, <2>1 DEF HasEnvelope, Busy, Stores
  <2>7. HasEnvelope(t)' /\ ~Busy(t)' /\ ~Stores(t)'
    BY <1>1, <1>3, <1>7, <1>8, <2>2 DEF HasEnvelope, Busy, Stores, Off
  <2>8. acted[t] = clock BY <1>3, <1>7, <1>8 DEF PolicyInv, Jobs
  <2>9. Jobs' BY <1>1, <1>7, <1>8, <2>1, <2>6, <2>7 DEF PolicyInv, Jobs
  <2>10. Fresh' BY <1>1, <2>1, <2>6, <2>7 DEF PolicyInv, Fresh, IsSessionExpired
  <2>11. Sessions'
    <3>1. kid'[t] # 0 /\ clock <= clock BY <1>3, <2>1 DEF Kids, Typed
    <3> QED BY <1>1, <1>3, <1>7, <1>8, <2>1, <2>2, <2>6, <2>7, <2>8, <3>1 DEF PolicyInv, Sessions
  <2>12. Timers'
    <3> SUFFICES ASSUME NEW u \in isUnlocked', u # t PROVE TimerRuns(u)'
      BY <1>7, <1>8 DEF Timers, TimerRuns
    <3>1. u \in isUnlocked /\ u \in Tabs \ {t} BY <1>7, <1>8 DEF Typed
    <3> QED BY <1>1, <1>7, <1>8, <2>6, <3>1 DEF PolicyInv, Timers, TimerRuns
  <2>13. QueueInv'
    <3>1. UNCHANGED <<restoring, made, copied>> BY <1>1
    <3>2. AwaitedBy(saving, o) BY <1>5, <1>8
    <3>3. t = o.tab BY <1>3
    <3>4. keyOps # <<>> /\ o.op = "put" /\ keyOps' = Tail(keyOps) BY <1>1, <1>3, <1>8
    <3>5. saving'[t] = Off BY <1>7, <1>8
    <3>6. Jobs /\ o = Head(keyOps) BY <1>3 DEF PolicyInv
    <3>7. kid'[t] = o.kid /\ envelope'[t].key = o.key BY <2>1, <2>2
    <3> QED BY <2>4, <3>1, <3>2, <3>3, <3>4, <3>5, <3>6, <3>7, QueueWhenStored
  <2>14. StoreInv'
    <3>1. UNCHANGED <<clock, copied, restoring>> BY <1>1
    <3>2. \A u \in Tabs \ {t} : /\ kid'[u] = kid[u] /\ envelope'[u] = envelope[u]
                                /\ u \in isUnlocked' => u \in isUnlocked
                                /\ u # o.tab
      BY <1>3, <1>7, <1>8, <2>1
    <3>3. o = Head(keyOps) /\ keyOps # <<>> /\ o.op = "put" /\ keyStore' = WithKey(o.kid, o.key)
      BY <1>1, <1>3, <1>8
    <3> QED BY <2>1, <2>2, <2>5, <3>1, <3>2, <3>3, StoreWhenPut
  <2> QED BY <2>5, <2>9, <2>10, <2>11, <2>12, <2>13, <2>14 DEF PolicyInv
<1>9. CASE /\ Awaited(o)
           /\ keyStore' \in {keyStore, WithKey(o.kid, o.key)}
           /\ ClearSession(t, Tail(keyOps))
  <2>1. /\ IsGone(t)
        /\ \A u \in Tabs \ {t} : /\ entered'[u] = entered[u] /\ kid'[u] = kid[u]
                                 /\ envelope'[u] = envelope[u]
        /\ envelope' \in [Tabs -> Envelopes] /\ kid' \in [Tabs -> 0 .. MaxKeys]
        /\ entered' \in [Tabs -> Nat] /\ keyOps' \in Seq(Ops)
    <3> QED BY <1>2, <1>3, <1>9, Clearing DEF QueueInv
  <2>2. OthersStay(t) BY <1>1, <1>7, <1>9, <2>1 DEF OthersStay
  <2>3. Typed'
    <3>1. keyStore' \in [Kids -> [key : Nat, at : Nat]] BY <1>4, <1>9 DEF Typed
    <3> QED BY <1>1, <1>2, <1>3, <1>7, <1>9, <2>1, <3>1 DEF Typed
  <2>4. isUnlocked' \ {t} = isUnlocked \ {t} BY <1>7, <1>9
  <2>5. PolicyInv'
    <3>1. acted'[t] <= clock BY <1>1, <1>3 DEF PolicyInv, Sessions
    <3>2. ~Stores(t)' BY <1>7, <1>9 DEF Stores, Off
    <3>3. restoring'[t] = Off BY <1>1, <1>7, <1>9
    <3>4. TimerRuns(t)' BY <1>7, <1>9
    <3>5. \A u \in Tabs \ {t} :
            /\ entered'[u] = entered[u] /\ acted'[u] = acted[u]
            /\ lockAfterMinutes'[u] = lockAfterMinutes[u] /\ deadline'[u] = deadline[u]
      BY <1>1, <1>7, <1>9, <2>1
    <3>6. clock' = clock /\ tabs' \ {t} = tabs \ {t} BY <1>1
    <3> QED BY <1>3, <2>1, <2>2, <2>4, <3>1, <3>2, <3>3, <3>4, <3>5, <3>6, PolicyWhenGone
  <2>6. QueueInv'
    <3>1. PICK f : Shortens(Tail(keyOps), f) /\ LeavesReads(Tail(keyOps), f, t)
      BY <1>1, <1>2, TailQueue
    <3>2. NoReads(Tail(keyOps), t)
      <4>1. \A n \in DOMAIN Tail(keyOps) : n + 1 \in DOMAIN keyOps /\ Tail(keyOps)[n] = keyOps[n + 1]
        BY <1>2
      <4>2. \A j \in DOMAIN keyOps : keyOps[j].op = "get" => keyOps[j].tab # t
        BY <1>7, <1>9 DEF QueueInv, Reads, Off
      <4> QED BY <4>1, <4>2 DEF NoReads
    <3>3. saving'[t].at # "storing" BY <1>7, <1>9 DEF Off
    <3>4. /\ \A u \in Tabs \ {t} : saving'[u] = saving[u] /\ restoring'[u] = restoring[u]
          /\ UNCHANGED <<made, copied>>
      BY <1>1, <1>7, <1>9
    <3> QED BY <1>3, <1>9, <3>1, <3>2, <3>3, <3>4, QueueWhenCleared
  <2>7. StoreInv'
    <3>1. CASE keyStore' = keyStore
      <4> QED BY <1>1, <1>3, <2>1, <2>2, <2>3, <2>4, <3>1, StoreWhenGone
    <3>2. CASE keyStore' = WithKey(o.kid, o.key)
      <4>1. UNCHANGED <<clock, copied, restoring>> BY <1>1
      <4>2. \A u \in Tabs \ {t} : /\ kid'[u] = kid[u] /\ envelope'[u] = envelope[u]
                                  /\ u \in isUnlocked' => u \in isUnlocked
                                  /\ u # o.tab
        BY <1>3, <1>7, <1>9, <2>1
      <4>3. o = Head(keyOps) /\ keyOps # <<>> /\ o.op = "put"
        BY <1>1, <1>3
      <4> QED BY <2>1, <2>3, <3>2, <4>1, <4>2, <4>3, StoreWhenPut
    <3> QED BY <1>9, <3>1, <3>2
  <2> QED BY <2>3, <2>5, <2>6, <2>7
<1> QED BY <1>3, <1>6, <1>8, <1>9 DEF RunPut

LEMMA CloseTabKeeps ==
  ASSUME Inv, NEW t \in Tabs, CloseTab(t)
  PROVE  Inv'
<1> USE DEF Inv
<1>1. /\ envelope' = [envelope EXCEPT ![t] = None] /\ kid' = [kid EXCEPT ![t] = 0]
      /\ entered' = [entered EXCEPT ![t] = 0] /\ acted' = [acted EXCEPT ![t] = 0]
      /\ lockAfterMinutes' = [lockAfterMinutes EXCEPT ![t] = 0]
      /\ deadline' = [deadline EXCEPT ![t] = 0] /\ isUnlocked' = isUnlocked \ {t}
      /\ restoring' = [restoring EXCEPT ![t] = Off] /\ saving' = [saving EXCEPT ![t] = Off]
      /\ tabs' = tabs \ {t} /\ keyOps' \in LeftBehind(t)
      /\ UNCHANGED <<clock, lockAfter, hasWallet, keyStore, made, copied>>
  BY DEF CloseTab, Locks, shared
<1>2. PICK f : Shortens(keyOps', f) /\ LeavesReads(keyOps', f, t) /\ NoReads(keyOps', t)
  BY <1>1, LeftBehindIsRest DEF Typed
<1>3. /\ IsGone(t) /\ restoring'[t] = Off /\ saving'[t] = Off /\ acted'[t] = 0
      /\ t \notin isUnlocked'
      /\ \A u \in Tabs \ {t} :
           /\ envelope'[u] = envelope[u] /\ kid'[u] = kid[u] /\ entered'[u] = entered[u]
           /\ acted'[u] = acted[u] /\ lockAfterMinutes'[u] = lockAfterMinutes[u]
           /\ deadline'[u] = deadline[u] /\ restoring'[u] = restoring[u]
           /\ saving'[u] = saving[u]
  BY <1>1 DEF Typed, IsGone
<1>4. OthersStay(t) BY <1>3 DEF OthersStay
<1>5. 0 \in 0 .. MaxKeys /\ None \in Envelopes BY SessionParameters DEF None, Envelopes
<1>6. Typed'
  <2>1. keyOps' \in Seq(Ops) BY <1>2 DEF Shortens
  <2> QED BY <1>1, <1>5, <2>1 DEF Typed
<1>7. PolicyInv'
  <2>1. ~Stores(t)' /\ acted'[t] <= clock BY <1>3 DEF Stores, Off, Typed
  <2> QED BY <1>1, <1>3, <1>4, <2>1, PolicyWhenGone
<1>8. QueueInv'
  <2>1. saving'[t].at # "storing" BY <1>3 DEF Off
  <2>2. kid' \in [Tabs -> 0 .. MaxKeys] BY <1>6 DEF Typed
  <2> QED BY <1>1, <1>2, <1>3, <1>4, <2>1, <2>2, QueueWhenGone
<1>9. StoreInv' BY <1>1, <1>3, <1>4, <1>6, StoreWhenGone
<1> QED BY <1>6, <1>7, <1>8, <1>9

(* A page begins with the session of tab s, which is its own or the one it  *)
(* was duplicated from.                                                    *)
LEMMA MountsKeeps ==
  ASSUME Inv, NEW t \in Tabs, NEW s \in Tabs, NEW q, NEW f,
         Shortens(q, f), LeavesReads(q, f, t), NoReads(q, t),
         Mounts(t, envelope[s], kid[s], entered[s], q),
         tabs' = tabs \cup {t}, acted' \in [Tabs -> Nat],
         \A u \in Tabs \ {t} : acted'[u] = acted[u],
         acted[s] <= acted'[t], acted'[t] <= clock,
         copied \subseteq copied', s = t \/ kid[s] \in copied' \cup {0},
         UNCHANGED <<clock, lockAfter, hasWallet, keyStore, made>>
  PROVE  Inv'
<1> USE DEF Inv
<1>1. /\ isUnlocked' = isUnlocked \ {t}
      /\ deadline' = [deadline EXCEPT ![t] = 0]
      /\ lockAfterMinutes' = [lockAfterMinutes EXCEPT ![t] = lockAfter]
      /\ saving' = [saving EXCEPT ![t] = Off]
  BY DEF Mounts
<1>2. /\ t \notin isUnlocked' /\ isUnlocked' \ {t} = isUnlocked \ {t}
      /\ lockAfterMinutes'[t] = lockAfter /\ saving'[t] = Off
      /\ \A u \in Tabs \ {t} : /\ lockAfterMinutes'[u] = lockAfterMinutes[u]
                               /\ deadline'[u] = deadline[u] /\ saving'[u] = saving[u]
  BY <1>1 DEF Typed
<1>3. /\ deadline' \in [Tabs -> Nat] /\ lockAfterMinutes' \in [Tabs -> Nat]
      /\ saving' \in [Tabs -> {Off} \cup Savings]
      /\ isUnlocked' \subseteq tabs' /\ tabs' \subseteq Tabs
  BY <1>1, SessionParameters DEF Typed
<1>4. ~Stores(t)' /\ saving'[t].at # "storing" BY <1>2 DEF Stores, Off
<1>5. q \in Seq(Ops) BY DEF Shortens
<1>6. kid[s] # 0 <=> envelope[s] # None BY NoneIsNone DEF PolicyInv, Sessions
<1>7. kid[s] # 0 => kid[s] \in Kids BY DEF Typed, Kids
<1>8. CASE envelope[s] # None /\ ~IsSessionExpired(envelope[s], lockAfter)
  <2>1. /\ restoring' = [restoring EXCEPT ![t] = [at |-> "reading", env |-> envelope[s]]]
        /\ envelope' = [envelope EXCEPT ![t] = envelope[s]]
        /\ kid' = [kid EXCEPT ![t] = kid[s]]
        /\ entered' = [entered EXCEPT ![t] = entered[s]]
        /\ keyOps' = Append(q, Get(t, kid[s]))
    BY <1>6, <1>8 DEF Mounts, Get
  <2>2. /\ restoring'[t].at = "reading" /\ restoring'[t].env = envelope[s]
        /\ envelope'[t] = envelope[s] /\ kid'[t] = kid[s] /\ entered'[t] = entered[s]
        /\ \A u \in Tabs \ {t} :
             /\ restoring'[u] = restoring[u] /\ envelope'[u] = envelope[u]
             /\ kid'[u] = kid[u] /\ entered'[u] = entered[u]
    BY <2>1 DEF Typed
  <2>3. OthersStay(t) BY <1>2, <2>2 DEF OthersStay
  <2>4. kid[s] \in Kids BY <1>6, <1>7, <1>8
  <2>5. Typed'
    <3>1. Get(t, kid[s]) \in Ops BY <2>4 DEF Get, Ops, Gets
    <3>2. keyOps' \in Seq(Ops) BY <1>5, <2>1, <3>1, Appended
    <3>3. [at |-> "reading", env |-> envelope[s]] \in Readings BY DEF Typed, Readings
    <3>4. restoring' \in [Tabs -> {Off} \cup Readings \cup Decipherings]
      BY <2>1, <3>3 DEF Typed
    <3>5. /\ envelope' \in [Tabs -> Envelopes] /\ kid' \in [Tabs -> 0 .. MaxKeys]
          /\ entered' \in [Tabs -> Nat]
      BY <2>1 DEF Typed
    <3> QED BY <1>3, <3>2, <3>4, <3>5 DEF Typed
  <2>6. \A u \in Tabs \ {t} : /\ HasEnvelope(u)' <=> HasEnvelope(u)
                              /\ Busy(u)' <=> Busy(u)
                              /\ Stores(u)' <=> Stores(u)
    BY <1>2, <2>2 DEF HasEnvelope, Busy, Stores
  <2>7. HasEnvelope(s) BY <1>8, NoneIsNone DEF PolicyInv
  <2>8. HasEnvelope(t)' /\ Busy(t)' BY <2>2, <2>7 DEF HasEnvelope, Busy
  <2>9. Jobs' BY <1>2, <1>4, <2>2, <2>6, <2>8 DEF PolicyInv, Jobs
  <2>10. Fresh'
    <3>1. ~IsSessionExpired(envelope[t], lockAfterMinutes[t])'
      BY <1>2, <1>8, <2>2 DEF IsSessionExpired
    <3> QED BY <1>2, <1>8, <2>2, <2>6 DEF PolicyInv, Fresh, IsSessionExpired
  <2>11. Sessions'
    <3>1. envelope[s].createdAt = entered[s] /\ envelope[s].lastActiveAt <= acted[s]
      BY <2>7 DEF PolicyInv, Sessions
    <3>2. envelope[s].lastActiveAt \in Nat /\ acted[s] \in Nat /\ acted'[t] \in Nat
      BY DEF Typed, Envelopes
    <3>3. envelope'[t].lastActiveAt <= acted'[t] BY <2>2, <3>1, <3>2
    <3>4. kid'[t] # 0 BY <2>2, <2>4 DEF Kids
    <3> QED BY <1>2, <2>2, <2>6, <2>8, <3>1, <3>3, <3>4 DEF PolicyInv, Sessions
  <2>12. Timers'
    <3> SUFFICES ASSUME NEW u \in isUnlocked' PROVE TimerRuns(u)' BY DEF Timers, TimerRuns
    <3>1. u \in isUnlocked /\ u \in Tabs \ {t} BY <1>1 DEF Typed
    <3> QED BY <1>2, <2>6, <3>1 DEF PolicyInv, Timers, TimerRuns
  <2>13. QueueInv'
    <3>1. envelope'[t].key = envelope[s].key /\ kid'[t] = kid[s] BY <2>2
    <3>2. s = t \/ kid[s] \in copied' BY <2>4 DEF Kids
    <3> QED BY <1>4, <2>1, <2>2, <2>3, <2>4, <3>1, <3>2, QueueWhenReading
  <2>14. StoreInv'
    <3>1. ~Restorable(t)' BY <1>2, <2>2 DEF Restorable
    <3>2. \A u \in Tabs \ {t} : Restorable(u)' => Restorable(u)
      BY <1>1, <2>2 DEF Restorable
    <3>3. \A u \in Tabs : \E v \in Tabs :
            /\ kid'[u] = kid[v]
            /\ envelope'[u].key = envelope[v].key
            /\ envelope'[u].createdAt = envelope[v].createdAt
            /\ Restorable(u)' => /\ v = u
                                 /\ Restorable(u) \/ keyStore[kid[u]].key = envelope[u].key
      BY <2>2, <3>1, <3>2
    <3>4. clock <= clock' BY DEF Typed
    <3> QED BY <2>5, <3>3, <3>4, StoreWhenStill
  <2> QED BY <2>5, <2>9, <2>10, <2>11, <2>12, <2>13, <2>14 DEF PolicyInv
<1>9. CASE ~(envelope[s] # None /\ ~IsSessionExpired(envelope[s], lockAfter))
  <2>1. /\ restoring' = [restoring EXCEPT ![t] = Off]
        /\ envelope' = [envelope EXCEPT ![t] = None]
        /\ kid' = [kid EXCEPT ![t] = 0]
        /\ entered' = [entered EXCEPT ![t] = 0]
        /\ keyOps' = IF envelope[s] = None THEN q ELSE Append(q, Delete(kid[s]))
    BY <1>6, <1>9 DEF Mounts, Delete
  <2>2. /\ IsGone(t) /\ restoring'[t] = Off
        /\ \A u \in Tabs \ {t} :
             /\ restoring'[u] = restoring[u] /\ envelope'[u] = envelope[u]
             /\ kid'[u] = kid[u] /\ entered'[u] = entered[u]
    BY <2>1 DEF Typed, IsGone
  <2>3. OthersStay(t) BY <1>2, <2>2 DEF OthersStay
  <2>4. \/ keyOps' = q
        \/ \E k \in Kids : /\ k = kid[t] \/ k \in copied'
                           /\ k <= made
                           /\ keyOps' = Append(q, Delete(k))
    <3>1. CASE envelope[s] = None BY <2>1, <3>1
    <3>2. CASE envelope[s] # None
      <4>1. kid[s] \in Kids /\ kid[s] # 0 BY <1>6, <1>7, <3>2
      <4>2. kid[s] = kid[t] \/ kid[s] \in copied' BY <4>1
      <4>3. kid[s] <= made BY DEF QueueInv, Counted
      <4> QED BY <2>1, <3>2, <4>1, <4>2, <4>3
    <3> QED BY <3>1, <3>2
  <2>5. Typed'
    <3>1. 0 \in 0 .. MaxKeys /\ None \in Envelopes BY SessionParameters DEF None, Envelopes
    <3>2. \A k \in Kids : Delete(k) \in Ops BY DEF Delete, Ops, Deletes
    <3>3. keyOps' \in Seq(Ops) BY <1>5, <2>4, <3>2, Appended
    <3> QED BY <1>3, <2>1, <3>1, <3>3 DEF Typed
  <2>6. PolicyInv'
    <3>1. tabs' \ {t} = tabs \ {t} OBVIOUS
    <3> QED BY <1>2, <1>4, <2>2, <2>3, <3>1, PolicyWhenGone
  <2>7. QueueInv'
    <3>1. kid' \in [Tabs -> 0 .. MaxKeys] BY <2>5 DEF Typed
    <3> QED BY <1>4, <2>2, <2>3, <2>4, <3>1, QueueWhenGone
  <2>8. StoreInv' BY <1>2, <2>2, <2>3, <2>5, StoreWhenGone
  <2> QED BY <2>5, <2>6, <2>7, <2>8
<1> QED BY <1>8, <1>9

LEMMA OpenTabKeeps ==
  ASSUME Inv, NEW t \in Tabs, OpenTab(t)
  PROVE  Inv'
<1> USE DEF Inv
<1>1. ~HasEnvelope(t) /\ ~Busy(t) BY DEF OpenTab, PolicyInv, Sessions, Jobs
<1>2. envelope[t] = None /\ kid[t] = 0 BY <1>1 DEF PolicyInv, Sessions
<1>3. Mounts(t, envelope[t], kid[t], entered[t], keyOps) BY <1>2 DEF OpenTab, Mounts
<1>4. PICK f : Shortens(keyOps, f) /\ LeavesReads(keyOps, f, t) BY WholeQueue DEF Typed
<1>5. NoReads(keyOps, t) BY <1>1, NobodyReads DEF QueueInv, Busy
<1>6. /\ acted' \in [Tabs -> Nat] /\ acted'[t] = clock /\ acted[t] <= clock /\ clock <= clock
      /\ \A u \in Tabs \ {t} : acted'[u] = acted[u]
  BY DEF OpenTab, Typed, PolicyInv, Sessions
<1>7. /\ tabs' = tabs \cup {t}
      /\ UNCHANGED <<clock, lockAfter, hasWallet, keyStore, made, copied>>
  BY DEF OpenTab, shared
<1> QED BY <1>3, <1>4, <1>5, <1>6, <1>7, MountsKeeps

LEMMA ReloadKeeps ==
  ASSUME Inv, NEW t \in Tabs, Reload(t)
  PROVE  Inv'
<1> USE DEF Inv
<1>1. PICK q \in LeftBehind(t) : Mounts(t, envelope[t], kid[t], entered[t], q) BY DEF Reload
<1>2. PICK f : Shortens(q, f) /\ LeavesReads(q, f, t) /\ NoReads(q, t)
  BY LeftBehindIsRest DEF Typed
<1>3. /\ acted' \in [Tabs -> Nat] /\ acted[t] <= acted'[t] /\ acted'[t] <= clock
      /\ \A u \in Tabs \ {t} : acted'[u] = acted[u]
  BY DEF Reload, Typed, PolicyInv, Sessions
<1>4. /\ tabs' = tabs \cup {t}
      /\ UNCHANGED <<clock, lockAfter, hasWallet, keyStore, made, copied>>
  BY DEF Reload, shared
<1> QED BY <1>1, <1>2, <1>3, <1>4, MountsKeeps

LEMMA DuplicateKeeps ==
  ASSUME Inv, NEW t \in Tabs, NEW u \in Tabs, Duplicate(t, u)
  PROVE  Inv'
<1> USE DEF Inv
<1>1. ~Busy(u) BY DEF Duplicate, PolicyInv, Jobs
<1>2. PICK f : Shortens(keyOps, f) /\ LeavesReads(keyOps, f, u) BY WholeQueue DEF Typed
<1>3. NoReads(keyOps, u) BY <1>1, NobodyReads DEF QueueInv, Busy
<1>4. /\ acted' \in [Tabs -> Nat] /\ acted[t] <= acted'[u] /\ acted'[u] <= clock
      /\ \A v \in Tabs \ {u} : acted'[v] = acted[v]
  BY DEF Duplicate, Typed, PolicyInv, Sessions
<1>5. /\ tabs' = tabs \cup {u} /\ copied \subseteq copied' /\ kid[t] \in copied' \cup {0}
      /\ Mounts(u, envelope[t], kid[t], entered[t], keyOps)
      /\ UNCHANGED <<clock, lockAfter, hasWallet, keyStore, made>>
  BY DEF Duplicate, shared
<1> QED BY <1>2, <1>3, <1>4, <1>5, MountsKeeps

-----------------------------------------------------------------------------
LEMMA StutterKeeps ==
  ASSUME Inv, UNCHANGED sessionVars
  PROVE  Inv'
<1>1. UNCHANGED <<clock, lockAfter, hasWallet, tabs, envelope, kid, isUnlocked,
                  lockAfterMinutes, deadline, restoring, saving, keyStore, keyOps, made, entered,
                  acted, copied>>
  BY DEF sessionVars, shared, stored, page, job, past
<1>2. Typed' BY <1>1 DEF Inv, Typed
<1>3. PolicyInv'
  <2>1. Jobs' BY <1>1 DEF Inv, PolicyInv, Jobs, Busy, Stores, HasEnvelope
  <2>2. Fresh' BY <1>1 DEF Inv, PolicyInv, Fresh, Busy, IsSessionExpired
  <2>3. Sessions' BY <1>1 DEF Inv, PolicyInv, Sessions, Busy, HasEnvelope
  <2>4. Timers' BY <1>1 DEF Inv, PolicyInv, Timers, Stores
  <2> QED BY <2>1, <2>2, <2>3, <2>4 DEF PolicyInv
<1>4. QueueInv' BY <1>1, QueueWhenStill DEF Inv
<1>5. StoreInv'
  <2>1. \A u \in Tabs : Restorable(u)' => Restorable(u) BY <1>1 DEF Restorable
  <2>2. clock <= clock' BY <1>1 DEF Inv, Typed
  <2> QED BY <1>1, <1>2, <2>1, <2>2, StoreWhenSame DEF Inv
<1> QED BY <1>2, <1>3, <1>4, <1>5 DEF Inv

LEMMA InvInit ==
  ASSUME SessionInit
  PROVE  Inv
<1> USE DEF SessionInit
<1>1. Typed
  <2>1. None \in Envelopes /\ 0 \in 0 .. MaxKeys BY SessionParameters DEF None, Envelopes
  <2>2. keyOps \in Seq(Ops) OBVIOUS
  <2>3. keyStore \in [Kids -> [key : Nat, at : Nat]] BY DEF NoKey, Kids
  <2> QED BY <2>1, <2>2, <2>3, SessionParameters DEF Typed
<1>2. \A t \in Tabs : ~Busy(t) /\ ~Stores(t) /\ ~HasEnvelope(t)
  BY DEF Busy, Stores, HasEnvelope, Off, None
<1>3. PolicyInv BY <1>2 DEF PolicyInv, Jobs, Fresh, Sessions, Timers, None
<1>4. QueueInv
  <2>1. DOMAIN keyOps = {} OBVIOUS
  <2>2. Counted BY <2>1 DEF Counted, None
  <2> QED BY <2>1, <2>2 DEF QueueInv, Reads, OwnIds, PutsComeFirst, LonePuts, DeletesAreOver
<1>5. StoreInv BY <1>2 DEF StoreInv, SameAge, KeysKept
<1> QED BY <1>1, <1>3, <1>4, <1>5 DEF Inv

LEMMA InvStep ==
  ASSUME ~UserIsQuick, Inv, [SessionNext]_sessionVars
  PROVE  Inv'
<1>1. ASSUME NEW t \in Tabs, OpenTab(t) PROVE Inv' BY <1>1, OpenTabKeeps
<1>2. ASSUME NEW t \in Tabs, Reload(t) PROVE Inv' BY <1>2, ReloadKeeps
<1>3. ASSUME NEW t \in Tabs, CloseTab(t) PROVE Inv' BY <1>3, CloseTabKeeps
<1>4. ASSUME NEW t \in Tabs, NEW u \in Tabs, Duplicate(t, u) PROVE Inv' BY <1>4, DuplicateKeeps
<1>5. ASSUME NEW t \in Tabs, EnterPassword(t) PROVE Inv' BY <1>5, EnterPasswordKeeps
<1>6. ASSUME NEW t \in Tabs, WrongPassword(t) PROVE Inv' BY <1>6, WrongPasswordKeeps
<1>7. ASSUME NEW t \in Tabs, Seal(t) PROVE Inv' BY <1>7, SealKeeps
<1>8. ASSUME NEW t \in Tabs, SealFails(t) PROVE Inv' BY <1>8, SealFailsKeeps
<1>9. ASSUME NEW t \in Tabs, Restore(t) PROVE Inv' BY <1>9, RestoreKeeps
<1>10. ASSUME NEW t \in Tabs, Lock(t) PROVE Inv' BY <1>10, LockKeeps
<1>11. ASSUME NEW t \in Tabs, Logout(t) PROVE Inv' BY <1>11, LogoutKeeps
<1>12. ASSUME NEW t \in Tabs, InactivityLocks(t) PROVE Inv' BY <1>12, InactivityLocksKeeps
<1>13. ASSUME NEW t \in Tabs, Activity(t) PROVE Inv' BY <1>13, ActivityKeeps
<1>14. ASSUME NEW t \in Tabs, NEW value \in LockAfter, SetLockAfterMinutes(t, value) PROVE Inv'
  BY <1>14, SetLockKeeps
<1>15. CASE RunPut BY <1>15, RunPutKeeps
<1>16. CASE RunDelete BY <1>16, RunDeleteKeeps
<1>17. CASE RunGet BY <1>17, RunGetKeeps
<1>18. CASE Tick BY <1>18, TickKeeps
<1>19. CASE UNCHANGED sessionVars BY <1>19, StutterKeeps
<1> QED
  BY <1>1, <1>2, <1>3, <1>4, <1>5, <1>6, <1>7, <1>8, <1>9, <1>10, <1>11, <1>12, <1>13, <1>14,
     <1>15, <1>16, <1>17, <1>18, <1>19
  DEF SessionNext

-----------------------------------------------------------------------------
(***************************************************************************)
(* The results.                                                            *)
(***************************************************************************)
(* The invariant holds where the page is used as it is meant to be          *)
(* (UserIsQuick is false): it looks for its session before it asks for a   *)
(* password, and the form that checks one is not left.                     *)
LEMMA InvAlways ==
  ASSUME ~UserIsQuick
  PROVE  SessionSpec => []Inv
<1>1. SessionInit => Inv BY InvInit
<1>2. Inv /\ [SessionNext]_sessionVars => Inv' BY InvStep
<1> QED BY <1>1, <1>2, PTL DEF SessionSpec

(* WalletContext.tsx, the inactivity timer: no tab is unlocked for longer   *)
(* than twice the setting without a sign of its user, in how many tabs and *)
(* however often its page is reloaded.                                     *)
THEOREM IdleTabsAreLocked ==
  ASSUME ~UserIsQuick
  PROVE  SessionSpec => []IdleTabsLock
<1>1. Inv => IdleTabsLock
  <2> SUFFICES ASSUME Inv, NEW t \in isUnlocked, lockAfterMinutes[t] > 0
               PROVE  clock - acted[t] <= 2 * lockAfterMinutes[t]
    BY DEF IdleTabsLock
  <2>1. /\ clock \in Nat /\ acted[t] \in Nat /\ lockAfterMinutes[t] \in Nat
        /\ deadline[t] \in Nat
    BY DEF Inv, Typed
  <2>2. clock <= deadline[t] /\ deadline[t] <= acted[t] + 2 * lockAfterMinutes[t]
    BY DEF Inv, PolicyInv, Timers
  <2> QED BY <2>1, <2>2
<1> QED BY <1>1, InvAlways, PTL

(* sessionStore.ts, getSession: whoever is let in without a password        *)
(* entered it no longer than MAX_SESSION_MS ago, and was there within the  *)
(* time of the auto-lock.                                                  *)
THEOREM RestoresObeyThePolicy ==
  ASSUME ~UserIsQuick
  PROVE  SessionSpec => RestoredWithinPolicy
<1>1. ASSUME Inv, SessionNext,
             NEW t \in Tabs, t \notin isUnlocked, t \in isUnlocked', restoring[t] # restoring'[t]
      PROVE  /\ clock - entered[t] <= MaxSession
             /\ lockAfterMinutes[t] > 0 => clock - acted[t] <= lockAfterMinutes[t]
  <2>1. Restore(t)
    <3>1. \A u \in Tabs :
            OpenTab(u) \/ Reload(u) \/ CloseTab(u) \/ Lock(u) \/ Logout(u) \/ InactivityLocks(u)
            => isUnlocked' \subseteq isUnlocked
      BY DEF OpenTab, Reload, CloseTab, Mounts, Locks, Lock, Logout, InactivityLocks
    <3>2. \A u, v \in Tabs : Duplicate(u, v) => isUnlocked' \subseteq isUnlocked
      BY DEF Duplicate, Mounts
    <3>3. \A u \in Tabs :
            EnterPassword(u) \/ WrongPassword(u) \/ Seal(u) \/ SealFails(u) \/ Activity(u)
            => restoring' = restoring
      BY DEF EnterPassword, WrongPassword, Seal, SealFails, Activity, job
    <3>4. \A u \in Tabs : \A value \in LockAfter :
            SetLockAfterMinutes(u, value) => restoring' = restoring
      BY DEF SetLockAfterMinutes, job
    <3>5. RunPut \/ RunDelete \/ Tick => restoring' = restoring
      BY DEF RunPut, RunDelete, Tick, job
    <3>6. RunGet => isUnlocked' = isUnlocked BY DEF RunGet, page
    <3>7. \A u \in Tabs \ {t} : Restore(u) => restoring'[t] = restoring[t]
      BY <1>1 DEF Restore, Inv, Typed
    <3> QED BY <1>1, <3>1, <3>2, <3>3, <3>4, <3>5, <3>6, <3>7 DEF SessionNext
  <2>2. Busy(t) BY <2>1 DEF Restore, Busy
  <2>3. /\ envelope[t].createdAt = entered[t] /\ envelope[t].lastActiveAt <= acted[t]
        /\ ~IsSessionExpired(envelope[t], lockAfterMinutes[t])
    BY <1>1, <2>2 DEF Inv, PolicyInv, Jobs, Fresh, Sessions
  <2>4. /\ clock \in Nat /\ entered[t] \in Nat /\ acted[t] \in Nat /\ lockAfterMinutes[t] \in Nat
        /\ envelope[t].lastActiveAt \in Nat /\ MaxSession \in Nat
    BY <1>1, SessionParameters DEF Inv, Typed, Envelopes
  <2> QED BY <2>3, <2>4 DEF IsSessionExpired
<1>2. Inv /\ [SessionNext]_sessionVars =>
        [\A t \in Tabs :
           t \notin isUnlocked /\ t \in isUnlocked' /\ restoring[t] # restoring'[t] =>
             /\ clock - entered[t] <= MaxSession
             /\ lockAfterMinutes[t] > 0 => clock - acted[t] <= lockAfterMinutes[t]]_sessionVars
  BY <1>1
<1> QED BY <1>2, InvAlways, PTL DEF SessionSpec, RestoredWithinPolicy

(* sessionStore.ts, saveSession and clearSession: no delete that comes      *)
(* late, no put of a page that is gone and no other tab takes the sealing  *)
(* key of a session away, unless the tab was duplicated.                   *)
THEOREM SessionsStayWhole ==
  ASSUME ~UserIsQuick
  PROVE  SessionSpec => []SessionIsWhole
<1>1. Inv => SessionIsWhole
  <2> SUFFICES ASSUME Inv, NEW t \in tabs, Still(t)
               PROVE  /\ t \notin isUnlocked => envelope[t] = None
                      /\ envelope[t] # None /\ clock - envelope[t].createdAt <= MaxSession =>
                           kid[t] \in copied \/ keyStore[kid[t]].key = envelope[t].key
    BY DEF SessionIsWhole
  <2>1. t \in Tabs /\ ~Busy(t) BY DEF Inv, Typed, Still, Busy, Off
  <2>2. envelope[t] # None => HasEnvelope(t) /\ t \in isUnlocked
    BY <2>1, NoneIsNone DEF Inv, PolicyInv, Sessions
  <2> QED BY <2>1, <2>2 DEF Inv, StoreInv, KeysKept, Restorable
<1> QED BY <1>1, InvAlways, PTL
=============================================================================
