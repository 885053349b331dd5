------------------------------ MODULE CallPromise ------------------------------
(***************************************************************************)
(* What window.boing.request promises a page: every call is settled at     *)
(* most once, a value is told only when the wallet did what the call asks, *)
(* and one that takes a connected site only when the site was connected at *)
(* one moment after the call was made.  A call that failed for the page    *)
(* may still have been done: the page stops waiting on its own clock.      *)
(***************************************************************************)
CONSTANTS Calls

VARIABLES
    gated,      \* calls that only a connected site gets a value for
    connected,  \* the site is on the list of connected sites
    outcome,    \* per call: "none", "pending", "value", "empty", "error" or "gone"
    saw,        \* per call: what the wallet saw of the list since it was made
    done        \* calls whose work the wallet did

promiseVars == <<gated, connected, outcome, saw, done>>

Init ==
    /\ gated \in SUBSET Calls
    /\ connected \in BOOLEAN
    /\ outcome = [c \in Calls |-> "none"]
    /\ saw = [c \in Calls |-> {}]
    /\ done = {}

\* A page calls request.
Call(c) ==
    /\ outcome[c] = "none"
    /\ outcome' = [outcome EXCEPT ![c] = "pending"]
    /\ UNCHANGED <<gated, connected, saw, done>>

\* The wallet looks once at the list of connected sites for a call.
Looks(c) ==
    /\ outcome[c] # "none"
    /\ saw[c] = {}
    /\ saw' = [saw EXCEPT ![c] = {connected}]
    /\ UNCHANGED <<gated, connected, outcome, done>>

\* The wallet does what the call asks, whether or not the page still waits;
\* a call to connect may add the site.
Does(c) ==
    /\ saw[c] # {} /\ c \notin done
    /\ done' = done \cup {c}
    /\ connected' \in {connected, TRUE}
    /\ UNCHANGED <<gated, outcome, saw>>

\* A value, or the empty one, told only after the work.
Tells(c) ==
    /\ outcome[c] = "pending" /\ c \in done
    /\ \E v \in {"value", "empty"} :
          /\ v = "value" /\ c \in gated => TRUE \in saw[c]
          /\ outcome' = [outcome EXCEPT ![c] = v]
    /\ UNCHANGED <<gated, connected, saw, done>>

\* A failure: refused, lost or late.
Fails(c) ==
    /\ outcome[c] = "pending"
    /\ outcome' = [outcome EXCEPT ![c] = "error"]
    /\ UNCHANGED <<gated, connected, saw, done>>

\* The page is reloaded: nobody waits for its calls any more.
Leaves ==
    /\ outcome' = [c \in Calls |-> IF outcome[c] = "pending" THEN "gone" ELSE outcome[c]]
    /\ UNCHANGED <<gated, connected, saw, done>>

\* The user connects or disconnects the site in the wallet.
Changes == connected' = ~connected /\ UNCHANGED <<gated, outcome, saw, done>>

Next ==
    \/ \E c \in Calls : Call(c) \/ Looks(c) \/ Does(c) \/ Tells(c) \/ Fails(c)
    \/ Leaves
    \/ Changes

Spec == Init /\ [][Next]_promiseVars
================================================================================
