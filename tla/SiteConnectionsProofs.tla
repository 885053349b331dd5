------------------------ MODULE SiteConnectionsProofs ------------------------
(***************************************************************************)
(* For every set of sites and of requests: the variables of                *)
(* SiteConnections have their types, and a site is listed, or told an      *)
(* account, only if the user approved it (OnlyAgreedSites).                *)
(*                                                                         *)
(* OnlyAgreedSites is about what is stored; a copy of the list is also in  *)
(* every callback that storage owes and in the popup, and is written back  *)
(* from there.  CopiesAgreed says that no copy is ahead of the user.       *)
(***************************************************************************)
EXTENDS SiteConnections, TLAPS

CopiesAgreed ==
  /\ popupSites \subseteq agreed
  /\ \A i \in DOMAIN callbacks :
       /\ callbacks[i].sites \subseteq agreed
       /\ callbacks[i].kind \in {"list", "write"} => callbacks[i].of \in agreed

Inv == TypeOK /\ OnlyAgreedSites /\ CopiesAgreed

-----------------------------------------------------------------------------
\* What a storage call is made of: the list as it is stored.
LEMMA CallTyped ==
  ASSUME TypeOK, NEW kind, NEW of,
         \/ kind = "sites" /\ of \in Requests
         \/ kind \in {"network", "list", "write"} /\ of \in Sites
  PROVE  /\ Call(kind, of) \in Callback
         /\ Call(kind, of).kind = kind
         /\ Call(kind, of).of = of
         /\ Call(kind, of).sites = connectedSites
  BY DEF TypeOK, Call, Callback

\* The callback that is due is one of them, and what its kind says it is.
LEMMA DueTyped ==
  ASSUME TypeOK, NEW kind, Due(kind)
  PROVE  /\ Head(callbacks) \in Callback
         /\ Head(callbacks) = callbacks[1]
         /\ 1 \in DOMAIN callbacks
         /\ Tail(callbacks) \in Seq(Callback)
         /\ \A i \in DOMAIN Tail(callbacks) :
              i + 1 \in DOMAIN callbacks /\ Tail(callbacks)[i] = callbacks[i + 1]
         /\ kind = "sites" => Head(callbacks).of \in Requests
         /\ kind \in {"network", "list", "write"} => Head(callbacks).of \in Sites
  BY DEF TypeOK, Due, Callback

\* Appending a callback adds one, at the end.
LEMMA Appended ==
  ASSUME NEW s \in Seq(Callback), NEW c \in Callback
  PROVE  /\ Append(s, c) \in Seq(Callback)
         /\ \A i \in DOMAIN Append(s, c) :
              \/ i \in DOMAIN s /\ Append(s, c)[i] = s[i]
              \/ Append(s, c)[i] = c
  OBVIOUS

-----------------------------------------------------------------------------
(***************************************************************************)
(* Type correctness.                                                       *)
(***************************************************************************)
\* Releasing those who wait leaves requests and flights well typed.
LEMMA ReleaseTyped ==
  ASSUME TypeOK, NEW o \in Sites, NEW result \in Standing, Release(o, result)
  PROVE  /\ request' \in [Requests -> Standing]
         /\ pendingConnectApprovals' \in [Sites -> Flight]
  BY DEF TypeOK, Release, Flies, Standing, Flight

\* Every variable keeps its type, whatever step is taken.
LEMMA TypeStep ==
  ASSUME TypeOK, [Next]_vars
  PROVE  TypeOK'
<1> USE DEF TypeOK
<1>1. ASSUME NEW r \in Requests, EnsureSiteConnected(r)
      PROVE  TypeOK'
  <2>1. Call("sites", r) \in Callback
    BY CallTyped
  <2>2. callbacks' \in Seq(Callback)
    BY <1>1, <2>1, Appended DEF EnsureSiteConnected
  <2>3. request' \in [Requests -> Standing]
    BY <1>1 DEF EnsureSiteConnected, Standing
  <2> QED
    BY <1>1, <2>2, <2>3 DEF EnsureSiteConnected, popup
<1>2. CASE SitesRead
  <2>1. Head(callbacks).of \in Requests /\ Tail(callbacks) \in Seq(Callback)
    BY <1>2, DueTyped DEF SitesRead
  <2> DEFINE r == Head(callbacks).of
             o == SiteOf[r]
  <2>2. o \in Sites
    BY <2>1, Parameters
  <2>3. Call("network", o) \in Callback
    BY <2>2, CallTyped
  <2>4. callbacks' \in Seq(Callback)
    BY <1>2, <2>1, <2>3, Appended, ZenonT(40) DEF SitesRead
  <2>5. request' \in [Requests -> Standing]
    BY <1>2, <2>1 DEF SitesRead, Standing
  <2>6. pendingConnectApprovals' \in [Sites -> Flight]
    BY <1>2, <2>2 DEF SitesRead, Flies, Flight
  <2> QED
    BY <1>2, <2>4, <2>5, <2>6 DEF SitesRead, popup
<1>3. CASE NetworkRead
  BY <1>3, DueTyped DEF NetworkRead, Flies, Flight, popup
<1>4. CASE ListRead
  <2> DEFINE o == Head(callbacks).of
  <2>1. /\ o \in Sites
        /\ Head(callbacks).sites \in SUBSET Sites
        /\ Tail(callbacks) \in Seq(Callback)
    BY <1>4, DueTyped DEF ListRead, Callback
  <2>2. connectedSites' \in SUBSET Sites
    BY <1>4, <2>1 DEF ListRead
  <2>3. [kind |-> "write", of |-> o, sites |-> connectedSites] \in Callback
    BY <2>1 DEF Callback
  <2>4. callbacks' \in Seq(Callback)
    BY <1>4, <2>1, <2>3, Appended, ZenonT(40) DEF ListRead, Call
  <2>5. /\ request' \in [Requests -> Standing]
        /\ pendingConnectApprovals' \in [Sites -> Flight]
    <3>1. CASE o \in Head(callbacks).sites
      <4>1. Release(o, "connected") /\ "connected" \in Standing
        BY <1>4, <3>1 DEF ListRead, Standing
      <4> QED
        BY <2>1, <4>1, ReleaseTyped
    <3>2. CASE o \notin Head(callbacks).sites
      BY <1>4, <2>1, <3>2 DEF ListRead, Flies, Flight
    <3> QED
      BY <3>1, <3>2
  <2> QED
    BY <1>4, <2>2, <2>4, <2>5 DEF ListRead, popup
<1>5. CASE ListWritten
  <2>1. Head(callbacks).of \in Sites /\ Tail(callbacks) \in Seq(Callback)
    BY <1>5, DueTyped DEF ListWritten
  <2>2. Release(Head(callbacks).of, "connected") /\ "connected" \in Standing
    BY <1>5 DEF ListWritten, Standing
  <2>3. /\ request' \in [Requests -> Standing]
        /\ pendingConnectApprovals' \in [Sites -> Flight]
    BY <2>1, <2>2, ReleaseTyped
  <2> QED
    BY <1>5, <2>1, <2>3 DEF ListWritten, popup
<1>6. ASSUME NEW o \in Sites, PromptApproved(o)
      PROVE  TypeOK'
  <2>1. Call("list", o) \in Callback
    BY CallTyped
  <2>2. callbacks' \in Seq(Callback)
    BY <1>6, <2>1, Appended DEF PromptApproved
  <2> QED
    BY <1>6, <2>2 DEF PromptApproved, Flies, Flight, popup
<1>7. ASSUME NEW o \in Sites, PromptRejected(o)
      PROVE  TypeOK'
  <2>1. Release(o, "refused") /\ "refused" \in Standing
    BY <1>7 DEF PromptRejected, Standing
  <2>2. /\ request' \in [Requests -> Standing]
        /\ pendingConnectApprovals' \in [Sites -> Flight]
    BY <2>1, ReleaseTyped
  <2> QED
    BY <1>7, <2>2 DEF PromptRejected, popup
<1>8. ASSUME NEW o \in Sites, Disconnect(o)
      PROVE  TypeOK'
  BY <1>8 DEF Disconnect
<1>9. CASE DisconnectWrites
  BY <1>9 DEF DisconnectWrites
<1>10. CASE PopupCloses
  BY <1>10 DEF PopupCloses
<1>11. CASE WorkerRestarts
  BY <1>11 DEF WorkerRestarts, Standing, Flight, popup
<1>12. CASE UNCHANGED vars
  BY <1>12 DEF vars, popup
<1> QED
  BY <1>1, <1>2, <1>3, <1>4, <1>5, <1>6, <1>7, <1>8, <1>9, <1>10, <1>11, <1>12
  DEF Next

-----------------------------------------------------------------------------
(***************************************************************************)
(* Only what the user agreed to.                                           *)
(***************************************************************************)
\* The user's agreement only grows.
LEMMA AgreedGrows ==
  ASSUME [Next]_vars
  PROVE  agreed \subseteq agreed'
  BY DEF Next, vars, popup, EnsureSiteConnected, SitesRead, NetworkRead, ListRead,
         ListWritten, PromptApproved, PromptRejected, Disconnect, DisconnectWrites,
         PopupCloses, WorkerRestarts

\* Consent to the copies a step leaves where they are outlives the step.
LEMMA CopiesStay ==
  ASSUME CopiesAgreed, agreed \subseteq agreed',
         callbacks' = callbacks, popupSites' \subseteq agreed'
  PROVE  CopiesAgreed'
  BY DEF CopiesAgreed

\* ... to those behind the one that is served, ...
LEMMA CopiesServed ==
  ASSUME TypeOK, CopiesAgreed, agreed \subseteq agreed', NEW kind, Due(kind),
         callbacks' = Tail(callbacks), UNCHANGED popupSites
  PROVE  CopiesAgreed'
  BY DueTyped DEF CopiesAgreed

\* ... and to what a storage call reads.
LEMMA CopiesRead ==
  ASSUME CopiesAgreed, agreed \subseteq agreed', UNCHANGED popupSites,
         NEW c \in Callback, c.sites \subseteq agreed',
         c.kind \in {"list", "write"} => c.of \in agreed',
         callbacks \in Seq(Callback), callbacks' = Append(callbacks, c)
  PROVE  CopiesAgreed'
  BY Appended DEF CopiesAgreed

\* Both at once: a callback is served, and ends with another storage call.
LEMMA CopiesServedAndRead ==
  ASSUME TypeOK, CopiesAgreed, agreed \subseteq agreed', UNCHANGED popupSites,
         NEW kind, Due(kind),
         NEW c \in Callback, c.sites \subseteq agreed',
         c.kind \in {"list", "write"} => c.of \in agreed',
         callbacks' = Append(Tail(callbacks), c)
  PROVE  CopiesAgreed'
<1> DEFINE t == Tail(callbacks)
<1>1. t \in Seq(Callback)
  BY DueTyped
<1>2. \A i \in DOMAIN t :
        /\ t[i].sites \subseteq agreed
        /\ t[i].kind \in {"list", "write"} => t[i].of \in agreed
  BY DueTyped DEF CopiesAgreed
<1>3. \A i \in DOMAIN Append(t, c) :
        \/ i \in DOMAIN t /\ Append(t, c)[i] = t[i]
        \/ Append(t, c)[i] = c
  BY <1>1, Appended
<1> QED
  BY <1>2, <1>3 DEF CopiesAgreed

\* Telling those who wait for a site that they are connected takes its consent.
LEMMA ReleaseAgreed ==
  ASSUME TypeOK, OnlyAgreedSites, agreed \subseteq agreed',
         NEW o \in Sites, NEW result \in Standing, Release(o, result),
         result = "connected" => o \in agreed',
         connectedSites' \subseteq agreed'
  PROVE  OnlyAgreedSites'
  BY DEF TypeOK, OnlyAgreedSites, Release

\* No step lists a site, tells an account or takes a copy ahead of the user.
LEMMA AgreedStep ==
  ASSUME Inv, [Next]_vars
  PROVE  OnlyAgreedSites' /\ CopiesAgreed'
<1>1. TypeOK /\ OnlyAgreedSites /\ CopiesAgreed /\ agreed \subseteq agreed'
  BY AgreedGrows DEF Inv
<1>2. connectedSites \subseteq agreed'
  BY <1>1 DEF OnlyAgreedSites
<1>3. ASSUME NEW r \in Requests, EnsureSiteConnected(r)
      PROVE  OnlyAgreedSites' /\ CopiesAgreed'
  <2>1. OnlyAgreedSites'
    BY <1>1, <1>3 DEF TypeOK, OnlyAgreedSites, EnsureSiteConnected
  <2>2. CopiesAgreed'
    <3>1. /\ Call("sites", r) \in Callback
          /\ Call("sites", r).kind = "sites"
          /\ Call("sites", r).sites = connectedSites
      BY <1>1, CallTyped
    <3> QED
      BY <1>1, <1>2, <1>3, <3>1, CopiesRead DEF TypeOK, EnsureSiteConnected, popup
  <2> QED
    BY <2>1, <2>2
<1>4. CASE SitesRead
  <2> DEFINE r == Head(callbacks).of
             o == SiteOf[r]
  <2>1. Due("sites") /\ r \in Requests /\ o \in Sites
    BY <1>1, <1>4, DueTyped, Parameters DEF SitesRead
  <2>2. Head(callbacks).sites \subseteq agreed
    BY <1>1, <2>1, DueTyped DEF CopiesAgreed
  <2>3. OnlyAgreedSites'
    BY <1>1, <1>4, <2>1, <2>2 DEF TypeOK, OnlyAgreedSites, SitesRead
  <2>4. CopiesAgreed'
    <3>1. CASE callbacks' = Tail(callbacks)
      BY <1>1, <1>4, <2>1, <3>1, CopiesServed DEF SitesRead, popup
    <3>2. CASE callbacks' = Append(Tail(callbacks), Call("network", o))
      <4>1. /\ Call("network", o) \in Callback
            /\ Call("network", o).kind = "network"
            /\ Call("network", o).sites = connectedSites
        BY <1>1, <2>1, CallTyped
      <4> QED
        BY <1>1, <1>2, <1>4, <2>1, <3>2, <4>1, CopiesServedAndRead DEF SitesRead, popup
    <3> QED
      BY <1>4, <3>1, <3>2 DEF SitesRead
  <2> QED
    BY <2>3, <2>4
<1>5. CASE NetworkRead
  <2>1. OnlyAgreedSites'
    BY <1>1, <1>5 DEF OnlyAgreedSites, NetworkRead
  <2>2. CopiesAgreed'
    BY <1>1, <1>5, CopiesServed DEF NetworkRead, popup
  <2> QED
    BY <2>1, <2>2
<1>6. CASE ListRead
  <2> DEFINE o == Head(callbacks).of
             sites == Head(callbacks).sites
  <2>1. /\ Due("list") /\ o \in Sites /\ o \in agreed
        /\ sites \subseteq agreed /\ sites \in SUBSET Sites
    BY <1>1, <1>6, DueTyped DEF ListRead, CopiesAgreed, Due, Callback
  <2>2. CASE o \in sites
    <3>1. Release(o, "connected") /\ "connected" \in Standing
      BY <1>6, <2>2 DEF ListRead, Standing
    <3>2. OnlyAgreedSites'
      BY <1>1, <1>2, <1>6, <2>1, <2>2, <3>1, ReleaseAgreed DEF ListRead
    <3>3. CopiesAgreed'
      BY <1>1, <1>6, <2>1, <2>2, CopiesServed DEF ListRead, popup
    <3> QED
      BY <3>2, <3>3
  <2>3. CASE o \notin sites
    <3> DEFINE c == Call("write", o)
    <3>1. /\ c \in Callback
          /\ c.of = o
          /\ c.sites = connectedSites
      BY <1>1, <2>1, CallTyped
    <3>2. OnlyAgreedSites'
      BY <1>1, <1>6, <2>1, <2>3 DEF OnlyAgreedSites, ListRead
    <3>3. CopiesAgreed'
      BY <1>1, <1>2, <1>6, <2>1, <2>3, <3>1, CopiesServedAndRead DEF ListRead, popup
    <3> QED
      BY <3>2, <3>3
  <2> QED
    BY <2>2, <2>3
<1>7. CASE ListWritten
  <2> DEFINE o == Head(callbacks).of
  <2>1. Due("write") /\ o \in Sites /\ o \in agreed
    BY <1>1, <1>7, DueTyped DEF ListWritten, CopiesAgreed, Due
  <2>2. Release(o, "connected") /\ "connected" \in Standing
    BY <1>7 DEF ListWritten, Standing
  <2>3. OnlyAgreedSites'
    BY <1>1, <1>2, <1>7, <2>1, <2>2, ReleaseAgreed DEF ListWritten
  <2>4. CopiesAgreed'
    BY <1>1, <1>7, <2>1, CopiesServed DEF ListWritten, popup
  <2> QED
    BY <2>3, <2>4
<1>8. ASSUME NEW o \in Sites, PromptApproved(o)
      PROVE  OnlyAgreedSites' /\ CopiesAgreed'
  <2>1. OnlyAgreedSites'
    BY <1>1, <1>8 DEF OnlyAgreedSites, PromptApproved
  <2>2. /\ Call("list", o) \in Callback
        /\ Call("list", o).of = o
        /\ Call("list", o).sites = connectedSites
    BY <1>1, CallTyped
  <2>3. o \in agreed'
    BY <1>8 DEF PromptApproved
  <2>4. CopiesAgreed'
    BY <1>1, <1>2, <1>8, <2>2, <2>3, CopiesRead DEF TypeOK, PromptApproved, popup
  <2> QED
    BY <2>1, <2>4
<1>9. ASSUME NEW o \in Sites, PromptRejected(o)
      PROVE  OnlyAgreedSites' /\ CopiesAgreed'
  <2>1. Release(o, "refused") /\ "refused" \in Standing
    BY <1>9 DEF PromptRejected, Standing
  <2>2. OnlyAgreedSites'
    BY <1>1, <1>2, <1>9, <2>1, ReleaseAgreed DEF PromptRejected
  <2>3. CopiesAgreed'
    BY <1>1, <1>9, CopiesStay DEF PromptRejected, popup, CopiesAgreed
  <2> QED
    BY <2>2, <2>3
<1>10. ASSUME NEW o \in Sites, Disconnect(o)
       PROVE  OnlyAgreedSites' /\ CopiesAgreed'
  BY <1>1, <1>2, <1>10, CopiesStay DEF OnlyAgreedSites, Disconnect
<1>11. CASE DisconnectWrites
  BY <1>1, <1>11, CopiesStay DEF OnlyAgreedSites, DisconnectWrites, CopiesAgreed
<1>12. CASE PopupCloses
  BY <1>1, <1>12, CopiesStay DEF OnlyAgreedSites, PopupCloses
<1>13. CASE WorkerRestarts
  BY <1>1, <1>13 DEF TypeOK, OnlyAgreedSites, CopiesAgreed, WorkerRestarts, popup
<1>14. CASE UNCHANGED vars
  BY <1>1, <1>14 DEF vars, popup, OnlyAgreedSites, CopiesAgreed
<1> QED
  BY <1>3, <1>4, <1>5, <1>6, <1>7, <1>8, <1>9, <1>10, <1>11, <1>12, <1>13, <1>14 DEF Next

\* The strengthened invariant is one.
LEMMA InvHolds == Spec => []Inv
<1>1. Init => Inv
  BY DEF Init, Inv, TypeOK, OnlyAgreedSites, CopiesAgreed, Standing, Flight, Callback
<1>2. Inv /\ [Next]_vars => Inv'
  BY TypeStep, AgreedStep DEF Inv
<1> QED
  BY <1>1, <1>2, PTL DEF Spec

\* Every variable of the site list, its prompts and its copies keeps its type.
THEOREM TypeCorrect == Spec => []TypeOK
<1>1. Inv => TypeOK
  BY DEF Inv
<1> QED
  BY <1>1, InvHolds, PTL

\* Whatever worker and popup overwrite of each other, a site is listed, or told
\* an account, only if the user approved a prompt of that site.
THEOREM Agreed == Spec => []OnlyAgreedSites
<1>1. Inv => OnlyAgreedSites
  BY DEF Inv
<1> QED
  BY <1>1, InvHolds, PTL

-----------------------------------------------------------------------------
(***************************************************************************)
(* Nobody is left waiting by a prompt that is over.                        *)
(***************************************************************************)
\* Storage owes the prompt of the site a callback of this kind.
OwesIn(s, kind, o) == \E i \in DOMAIN s : s[i].kind = kind /\ s[i].of = o
Owes(kind, o) == OwesIn(callbacks, kind, o)

\* What is owed stays owed when a call is appended, ...
LEMMA AppendOwes ==
  ASSUME NEW s \in Seq(Callback), NEW c \in Callback
  PROVE  /\ \A k, o : OwesIn(s, k, o) => OwesIn(Append(s, c), k, o)
         /\ OwesIn(Append(s, c), c.kind, c.of)
<1>1. /\ DOMAIN Append(s, c) = 1 .. Len(s) + 1 /\ DOMAIN s = 1 .. Len(s) /\ Len(s) \in Nat
      /\ Append(s, c)[Len(s) + 1] = c /\ \A i \in 1 .. Len(s) : Append(s, c)[i] = s[i]
  OBVIOUS
<1>2. Len(s) + 1 \in DOMAIN Append(s, c) /\ DOMAIN s \subseteq DOMAIN Append(s, c)
  BY <1>1
<1> QED
  BY <1>1, <1>2 DEF OwesIn

\* ... and but for the one that is due, when that is served.
LEMMA TailOwes ==
  ASSUME TypeOK, NEW kind, Due(kind)
  PROVE  \A k, o : OwesIn(callbacks, k, o) =>
           OwesIn(Tail(callbacks), k, o) \/ (k = kind /\ o = Head(callbacks).of)
<1> SUFFICES ASSUME NEW k, NEW o, NEW i \in DOMAIN callbacks,
                    callbacks[i].kind = k, callbacks[i].of = o,
                    ~(k = kind /\ o = Head(callbacks).of)
             PROVE  OwesIn(Tail(callbacks), k, o)
  BY DEF OwesIn
<1>1. Head(callbacks) = callbacks[1] /\ Head(callbacks).kind = kind
  BY DueTyped DEF Due
<1>2. i # 1
  BY <1>1
<1>3. i - 1 \in DOMAIN Tail(callbacks) /\ Tail(callbacks)[i - 1] = callbacks[i]
  BY <1>2 DEF TypeOK, Due
<1> QED
  BY <1>3 DEF OwesIn

Waiters == \A r \in Requests : request[r] = "waiting" => pendingConnectApprovals[SiteOf[r]] # "none"
OwedTo(o) == pendingConnectApprovals[o] \in {"network", "list", "write"} =>
               Owes(pendingConnectApprovals[o], o)

LEMMA WaitersAre == WaitersHaveFlight <=> Waiters /\ \A o \in Sites : OwedTo(o)
BY DEF WaitersHaveFlight, Waiters, OwedTo, Owes, OwesIn

\* The prompt of one site goes on to something, and the others are owed what they were.
LEMMA FlightGoesOn ==
  ASSUME TypeOK, WaitersHaveFlight, NEW o \in Sites, NEW what \in Flight, Flies(o, what),
         \A p \in Sites : p # o => \A k : Owes(k, p) => Owes(k, p)',
         what \in {"network", "list", "write"} => Owes(what, o)',
         \A r \in Requests : request'[r] = "waiting" =>
           \/ SiteOf[r] = o /\ what # "none"
           \/ SiteOf[r] # o /\ request[r] = "waiting"
  PROVE  WaitersHaveFlight'
<1>1. pendingConnectApprovals'[o] = what
      /\ \A p \in Sites : p # o => pendingConnectApprovals'[p] = pendingConnectApprovals[p]
  BY DEF TypeOK, Flies
<1>2. \A r \in Requests : SiteOf[r] \in Sites
  BY Parameters
<1>3. Waiters'
  BY <1>1, <1>2, WaitersAre DEF Waiters
<1>4. \A p \in Sites : OwedTo(p)'
  BY <1>1, WaitersAre DEF OwedTo
<1> QED
  BY <1>3, <1>4 DEF WaitersHaveFlight, Waiters, OwedTo, Owes, OwesIn

\* No prompt goes on, and no callback is served but a request's read of the list.
LEMMA FlightsStay ==
  ASSUME WaitersHaveFlight, UNCHANGED pendingConnectApprovals,
         \A p \in Sites : \A k \in {"network", "list", "write"} : Owes(k, p) => Owes(k, p)',
         \A r \in Requests : request'[r] = "waiting" =>
           request[r] = "waiting" \/ pendingConnectApprovals[SiteOf[r]] # "none"
  PROVE  WaitersHaveFlight'
<1>1. Waiters'
  BY WaitersAre DEF Waiters
<1>2. \A p \in Sites : OwedTo(p)'
  BY WaitersAre DEF OwedTo
<1> QED
  BY <1>1, <1>2 DEF WaitersHaveFlight, Waiters, OwedTo, Owes, OwesIn

\* No request comes to wait for, or is left by, a prompt that is over.
LEMMA FlightStep ==
  TypeOK /\ WaitersHaveFlight /\ [Next]_vars => WaitersHaveFlight'
<1> SUFFICES ASSUME TypeOK, WaitersHaveFlight, [Next]_vars PROVE WaitersHaveFlight'
  OBVIOUS
<1> DEFINE h == Head(callbacks)
<1>1. callbacks \in Seq(Callback)
  BY DEF TypeOK
<1>2. ASSUME NEW r \in Requests, EnsureSiteConnected(r) PROVE WaitersHaveFlight'
  <2>1. Call("sites", r) \in Callback /\ callbacks' = Append(callbacks, Call("sites", r))
    BY <1>2, CallTyped DEF EnsureSiteConnected
  <2>2. \A k, p : Owes(k, p) => Owes(k, p)'
    BY <1>1, <2>1, AppendOwes DEF Owes
  <2>3. \A x \in Requests : request'[x] = "waiting" => request[x] = "waiting"
    BY <1>2 DEF EnsureSiteConnected, TypeOK
  <2> QED
    BY <1>2, <2>2, <2>3, FlightsStay DEF EnsureSiteConnected
<1>3. CASE SitesRead
  <2> PICK r, o : r = h.of /\ o = SiteOf[r]
    OBVIOUS
  <2>1. Due("sites") /\ r \in Requests /\ o \in Sites /\ Tail(callbacks) \in Seq(Callback)
    BY <1>3, DueTyped, Parameters DEF SitesRead
  <2>2. \A p : \A k \in {"network", "list", "write"} : Owes(k, p) => OwesIn(Tail(callbacks), k, p)
    BY <2>1, TailOwes DEF Owes
  <2>3. CASE o \in h.sites
    <3>1. /\ callbacks' = Tail(callbacks) /\ UNCHANGED pendingConnectApprovals
          /\ request' = [request EXCEPT ![r] = "connected"]
      BY <1>3, <2>3 DEF SitesRead
    <3>2. \A x \in Requests : request'[x] = "waiting" => request[x] = "waiting"
      BY <2>1, <3>1 DEF TypeOK
    <3>3. \A p : \A k \in {"network", "list", "write"} : Owes(k, p) => Owes(k, p)'
      BY <2>2, <3>1 DEF Owes
    <3> QED
      BY <3>1, <3>2, <3>3, FlightsStay
  <2>4. CASE o \notin h.sites /\ pendingConnectApprovals[o] = "none"
    <3>1. /\ Flies(o, "network")
          /\ callbacks' = Append(Tail(callbacks), Call("network", o))
          /\ request' = [request EXCEPT ![r] = "waiting"]
      BY <1>3, <2>4 DEF SitesRead
    <3>2. Call("network", o) \in Callback /\ Call("network", o).kind = "network" /\ Call("network", o).of = o
      BY <2>1, CallTyped
    <3>3. Owes("network", o)' /\ \A p : \A k \in {"network", "list", "write"} : Owes(k, p) => Owes(k, p)'
      BY <2>1, <2>2, <3>1, <3>2, AppendOwes DEF Owes
    <3>4. pendingConnectApprovals'[o] = "network"
          /\ \A p \in Sites : p # o => pendingConnectApprovals'[p] = pendingConnectApprovals[p]
      BY <2>1, <3>1 DEF TypeOK, Flies
    <3>5. \A x \in Requests : request'[x] = "waiting" => request[x] = "waiting" \/ SiteOf[x] = o
      BY <2>1, <3>1 DEF TypeOK
    <3>6. Waiters'
      BY <3>4, <3>5, WaitersAre, Parameters DEF Waiters
    <3>7. \A p \in Sites : OwedTo(p)'
      BY <3>3, <3>4, WaitersAre DEF OwedTo
    <3> QED
      BY <3>6, <3>7 DEF WaitersHaveFlight, Waiters, OwedTo, Owes, OwesIn
  <2>5. CASE o \notin h.sites /\ pendingConnectApprovals[o] # "none"
    <3>1. /\ callbacks' = Tail(callbacks) /\ UNCHANGED pendingConnectApprovals
          /\ request' = [request EXCEPT ![r] = "waiting"]
      BY <1>3, <2>5 DEF SitesRead
    <3>2. \A x \in Requests : request'[x] = "waiting" =>
            request[x] = "waiting" \/ pendingConnectApprovals[SiteOf[x]] # "none"
      BY <2>1, <2>5, <3>1 DEF TypeOK
    <3>3. \A p : \A k \in {"network", "list", "write"} : Owes(k, p) => Owes(k, p)'
      BY <2>2, <3>1 DEF Owes
    <3> QED
      BY <3>1, <3>2, <3>3, FlightsStay
  <2> QED
    BY <2>3, <2>4, <2>5
<1>4. ASSUME NEW kind \in {"network", "list", "write"}, Due(kind), callbacks' = Tail(callbacks),
             NEW o, o = h.of
      PROVE  \A p \in Sites : p # o => \A k : Owes(k, p) => Owes(k, p)'
  BY <1>4, TailOwes DEF Owes
<1>5. CASE NetworkRead
  <2> PICK o : o = h.of
    OBVIOUS
  <2>1. /\ Due("network") /\ Flies(o, "prompt") /\ "prompt" \in Flight /\ o \in Sites
        /\ callbacks' = Tail(callbacks) /\ UNCHANGED request
    BY <1>5, DueTyped DEF NetworkRead, Flight
  <2> QED
    BY <1>4, <2>1, FlightGoesOn
<1>6. ASSUME NEW o \in Sites, NEW result \in {"connected", "refused"}, Release(o, result),
             \A p \in Sites : p # o => \A k : Owes(k, p) => Owes(k, p)'
      PROVE  WaitersHaveFlight'
  <2>1. Flies(o, "none") /\ "none" \in Flight
    BY <1>6 DEF Release, Flight
  <2>2. \A r \in Requests : request'[r] = "waiting" => SiteOf[r] # o /\ request[r] = "waiting"
    BY <1>6 DEF Release
  <2> QED
    BY <1>6, <2>1, <2>2, FlightGoesOn
<1>7. CASE ListRead
  <2> PICK o : o = h.of
    OBVIOUS
  <2>1. Due("list") /\ o \in Sites /\ Tail(callbacks) \in Seq(Callback)
    BY <1>7, DueTyped DEF ListRead
  <2>2. CASE o \in h.sites
    <3>1. Release(o, "connected") /\ callbacks' = Tail(callbacks)
      BY <1>7, <2>2 DEF ListRead
    <3> QED
      BY <1>4, <1>6, <2>1, <3>1
  <2>3. CASE o \notin h.sites
    <3>1. /\ Flies(o, "write") /\ "write" \in Flight /\ UNCHANGED request
          /\ callbacks' = Append(Tail(callbacks), Call("write", o))
      BY <1>7, <2>3 DEF ListRead, Flight
    <3>2. /\ Call("write", o) \in Callback
          /\ Call("write", o).kind = "write" /\ Call("write", o).of = o
      BY <2>1, CallTyped
    <3>3. Owes("write", o)' /\ \A p \in Sites : p # o => \A k : Owes(k, p) => Owes(k, p)'
      BY <2>1, <3>1, <3>2, AppendOwes, TailOwes DEF Owes
    <3>4. Call("write", o) \in Callback
      BY <3>2
    <3> QED
      BY <2>1, <3>1, <3>3, FlightGoesOn
  <2> QED
    BY <2>2, <2>3
<1>8. CASE ListWritten
  <2> PICK o : o = h.of
    OBVIOUS
  <2>1. Due("write") /\ o \in Sites /\ Release(o, "connected") /\ callbacks' = Tail(callbacks)
    BY <1>8, DueTyped DEF ListWritten
  <2> QED
    BY <1>4, <1>6, <2>1
<1>9. ASSUME NEW o \in Sites, PromptRejected(o) PROVE WaitersHaveFlight'
  BY <1>6, <1>9 DEF PromptRejected, Owes
<1>10. ASSUME NEW o \in Sites, PromptApproved(o) PROVE WaitersHaveFlight'
  <2>1. /\ Flies(o, "list") /\ "list" \in Flight /\ UNCHANGED request
        /\ callbacks' = Append(callbacks, Call("list", o))
    BY <1>10 DEF PromptApproved, Flight
  <2>2. Call("list", o) \in Callback /\ Call("list", o).kind = "list" /\ Call("list", o).of = o
    BY CallTyped
  <2>3. Owes("list", o)' /\ \A k, p : Owes(k, p) => Owes(k, p)'
    BY <1>1, <2>1, <2>2, AppendOwes DEF Owes
  <2> QED
    BY <2>1, <2>3, FlightGoesOn
<1>11. CASE \/ \E o \in Sites : Disconnect(o)
            \/ DisconnectWrites \/ PopupCloses \/ UNCHANGED vars
  <2>1. UNCHANGED <<request, pendingConnectApprovals, callbacks>>
    BY <1>11 DEF Disconnect, DisconnectWrites, PopupCloses, vars
  <2> QED
    BY <2>1, FlightsStay DEF Owes
<1>12. CASE WorkerRestarts
  BY <1>12 DEF WorkerRestarts, WaitersHaveFlight, TypeOK
<1> QED
  BY <1>2, <1>3, <1>5, <1>7, <1>8, <1>9, <1>10, <1>11, <1>12 DEF Next

\* A request waits only while the prompt of its site is in flight, and a flight
\* is with the user or is owed a callback: none ends without telling who waits.
THEOREM NobodyIsLeftWaiting == Spec => []WaitersHaveFlight
<1>1. Init => WaitersHaveFlight
  BY DEF Init, WaitersHaveFlight
<1> QED
  BY <1>1, TypeCorrect, FlightStep, PTL DEF Spec
=============================================================================
