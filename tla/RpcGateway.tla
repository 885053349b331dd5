------------------------------- MODULE RpcGateway -------------------------------
(***************************************************************************)
(* The JSON-RPC gateway (workers/rpc-gateway): a Cloudflare worker that    *)
(* answers a POST from its cache, or counts the client's requests and      *)
(* passes the call on.  The requests are those of one client for one       *)
(* query.  They run in isolates that share nothing but the key-value       *)
(* store and the cache: each isolate has its own soft counter and its own  *)
(* pause after a failure of the store.  Time is in ticks; Minute is the    *)
(* window of both counters.                                                *)
(***************************************************************************)
EXTENDS Naturals, FiniteSets

CONSTANTS
    Queries,    \* the requests
    Isolates,
    Limit,      \* GATEWAY_RATE_LIMIT_PER_MINUTE
    Minute,     \* ticks of a minute
    Cooldown,   \* ticks of KV_COOLDOWN_MS
    Ttl,        \* ticks of GATEWAY_CACHE_TTL_SECONDS
    LastTick,   \* the last tick
    NoCount

ASSUME GatewayAssumption ==
    /\ IsFiniteSet(Queries)
    /\ Limit \in Nat \ {0} /\ Minute \in Nat \ {0}
    /\ Cooldown \in Nat /\ Ttl \in Nat /\ LastTick \in Nat
    /\ NoCount \notin Nat \cup [since : Nat, count : Nat] \cup [count : Nat, end : Nat]

VARIABLES
    tick,
    at,       \* per request: "none", "asked", "getting", "counting", "upstream", or its answer
    isolate,  \* per request: the isolate that runs it
    read,     \* per request: when it built the key of the store, and the count it read
    kv,       \* per minute: the counts written under its key
    soft,     \* per isolate: the bucket of the client
    pausedTo, \* per isolate: kvDisabledUntil
    cache,    \* the tick up to which the query has a cached answer
    toCache,  \* answers on their way into the cache
    counted   \* history, per request: when it was let through, or its count written

gatewayVars ==
    <<tick, at, isolate, read, kv, soft, pausedTo, cache, toCache, counted>>

MinuteOf(t) == t \div Minute

GatewayInit ==
    /\ tick = 0
    /\ at = [r \in Queries |-> "none"]
    /\ isolate = [r \in Queries |-> NoCount]
    /\ read = [r \in Queries |-> NoCount]
    /\ kv = [m \in 0..MinuteOf(LastTick) |-> {0}]
    /\ soft = [i \in Isolates |-> NoCount]
    /\ pausedTo = [i \in Isolates |-> 0]
    /\ cache = 0 /\ toCache = 0 /\ counted = [r \in Queries |-> NoCount]

Tick ==
    /\ tick < LastTick
    /\ tick' = tick + 1
    /\ UNCHANGED <<at, isolate, read, kv, soft, pausedTo, cache, toCache, counted>>

\* A request is over with the answer `with`.
Answered(r, with) == at' = [at EXCEPT ![r] = with]

Unlimited == UNCHANGED <<isolate, read, kv, soft, pausedTo, counted>>

\* A preflight, the description, the health page, a wrong path, a missing key or
\* upstream, a body too long or unreadable: answered before the body is looked at.
AnswersItself(r) ==
    /\ at[r] = "none"
    /\ Answered(r, "answered")
    /\ Unlimited /\ UNCHANGED <<tick, cache, toCache>>

\* A call, or one call of a batch, names a method that is not on the list.
Denies(r) ==
    /\ at[r] = "none"
    /\ Answered(r, "answered")
    /\ Unlimited /\ UNCHANGED <<tick, cache, toCache>>

\* The cache has an answer under the key of the query, which is the body without
\* the ids of its calls.
Cached == tick < cache

\* A POST /v1/rpc that counted those checks looks into the cache first: a hit
\* costs neither a count nor a call of the node.
LooksInCache(r) ==
    /\ at[r] = "none"
    /\ IF Cached
       THEN Answered(r, "answered") /\ UNCHANGED isolate
       ELSE /\ at' = [at EXCEPT ![r] = "asked"]
            /\ \E i \in Isolates : isolate' = [isolate EXCEPT ![r] = i]
    /\ UNCHANGED <<tick, read, kv, soft, pausedTo, counted, cache, toCache>>

-----------------------------------------------------------------------------
(* The limiter.                                                             *)

StoreInUse(i) == tick >= pausedTo[i]

\* The request goes on to the node.
LetThrough(r) == at' = [at EXCEPT ![r] = "upstream"]

Limited(r) == Answered(r, "limited")

\* A request counts when it is let through, or when its count was written.
NotesCount(r, written) ==
    counted' = IF written \/ at'[r] = "upstream" THEN [counted EXCEPT ![r] = tick] ELSE counted

\* Mutant: a bucket is never renewed.
RenewedNever(i) == soft[i] = NoCount

\* checkSoftRateLimit: the bucket of the isolate, renewed when its minute is over.
Renewed(i) == soft[i] = NoCount \/ tick >= soft[i].end

CheckSoft(r) ==
    LET i == isolate[r] IN
    IF Renewed(i)
    THEN /\ soft' = [soft EXCEPT ![i] = [count |-> 1, end |-> tick + Minute]]
         /\ LetThrough(r)
    ELSE IF soft[i].count >= Limit
         THEN Limited(r) /\ UNCHANGED soft
         ELSE /\ soft' = [soft EXCEPT ![i].count = @ + 1]
              /\ LetThrough(r)

\* The store is paused for this isolate: the soft counter alone.
CountsSoftly(r) ==
    /\ at[r] = "asked" /\ ~StoreInUse(isolate[r])
    /\ CheckSoft(r)
    /\ NotesCount(r, FALSE)
    /\ UNCHANGED <<tick, isolate, read, kv, pausedTo, cache, toCache>>

\* checkKvRateLimit: the key has the minute in which the store is asked, however
\* long the answer takes.
AsksStore(r) ==
    /\ at[r] = "asked" /\ StoreInUse(isolate[r])
    /\ at' = [at EXCEPT ![r] = "getting"]
    /\ read' = [read EXCEPT ![r] = [since |-> tick, count |-> 0]]
    /\ UNCHANGED <<tick, isolate, kv, soft, pausedTo, counted, cache, toCache>>

KeyMinute(r) == MinuteOf(read[r].since)

\* kv.get: one of the counts written under the key, since a read may be served
\* from an older copy.
StoreGets(r) ==
    /\ at[r] = "getting"
    /\ \E n \in kv[KeyMinute(r)] :
          IF n >= Limit
          THEN Limited(r) /\ UNCHANGED read
          ELSE /\ read' = [read EXCEPT ![r].count = n]
               /\ at' = [at EXCEPT ![r] = "counting"]
    /\ UNCHANGED <<tick, isolate, kv, soft, pausedTo, counted, cache, toCache>>

WithCount(r) == [kv EXCEPT ![KeyMinute(r)] = @ \cup {read[r].count + 1}]

\* kv.put of the count that was read plus one.
StorePuts(r) ==
    /\ at[r] = "counting"
    /\ kv' = WithCount(r)
    /\ LetThrough(r)
    /\ NotesCount(r, TRUE)
    /\ UNCHANGED <<tick, isolate, read, soft, pausedTo, cache, toCache>>

\* The store fails, in get or in put, and the put may have been done all the
\* same: the isolate leaves the store alone for a while and counts softly.
StoreFails(r) ==
    /\ at[r] \in {"getting", "counting"}
    /\ pausedTo' = [pausedTo EXCEPT ![isolate[r]] = tick + Cooldown]
    /\ CheckSoft(r)
    /\ \E written \in {FALSE, at[r] = "counting"} :
          /\ kv' = IF written THEN WithCount(r) ELSE kv
          /\ NotesCount(r, written)
    /\ UNCHANGED <<tick, isolate, read, cache, toCache>>

\* Any other fault of the limiter lets the request through.
FailsOpen(r) ==
    /\ at[r] = "asked"
    /\ pausedTo' = [pausedTo EXCEPT ![isolate[r]] = tick + Cooldown]
    /\ LetThrough(r)
    /\ NotesCount(r, FALSE)
    /\ UNCHANGED <<tick, isolate, read, kv, soft, cache, toCache>>

\* An isolate is thrown away and started again: its module state is gone.
IsolateStarts(i) ==
    /\ soft[i] # NoCount \/ pausedTo[i] > 0
    /\ soft' = [soft EXCEPT ![i] = NoCount]
    /\ pausedTo' = [pausedTo EXCEPT ![i] = 0]
    /\ \A r \in Queries : isolate[r] = i => at[r] \in {"none", "limited", "answered"}
    /\ UNCHANGED <<tick, at, isolate, read, kv, cache, toCache, counted>>

-----------------------------------------------------------------------------
\* The node's answer is counted on with its status, and kept when that is 200.
NodeAnswers(r) ==
    /\ at[r] = "upstream"
    /\ Answered(r, "answered")
    /\ toCache' \in {toCache, toCache + 1}
    /\ Unlimited /\ UNCHANGED <<tick, cache>>

NodeUnreachable(r) ==
    /\ at[r] = "upstream"
    /\ Answered(r, "answered")
    /\ Unlimited /\ UNCHANGED <<tick, cache, toCache>>

\* ctx.waitUntil: the put ends after the answer was given, and stays for the time to live.
CachePuts ==
    /\ toCache > 0
    /\ toCache' = toCache - 1
    /\ cache' = tick + Ttl
    /\ UNCHANGED <<tick, at, isolate, read, kv, soft, pausedTo, counted>>

GatewayNext ==
    \/ Tick
    \/ \E r \in Queries :
          \/ AnswersItself(r) \/ Denies(r) \/ LooksInCache(r)
          \/ CountsSoftly(r) \/ AsksStore(r) \/ StoreGets(r) \/ StorePuts(r) \/ StoreFails(r) \/ FailsOpen(r)
          \/ NodeAnswers(r) \/ NodeUnreachable(r)
    \/ \E i \in Isolates : IsolateStarts(i)
    \/ CachePuts

GatewaySpec == GatewayInit /\ [][GatewayNext]_gatewayVars

-----------------------------------------------------------------------------
\* When the limiter last looked at the clock for a request.
Since(r) == IF read[r] = NoCount THEN tick ELSE read[r].since

\* A client is told to come back in a minute only if Limit other requests of it
\* counted in the minute before its own looked at the clock, or since: no count of
\* the store or of an isolate runs ahead, over failures of the store, puts that
\* fail and are done all the same, counts read late and isolates started again.
RefusedMeansBusy ==
    [][\A r \in Queries :
          at[r] # "limited" /\ at'[r] = "limited"
             => Cardinality({q \in Queries \ {r} :
                                counted[q] # NoCount /\ counted[q] + Minute >= Since(r)})
                  >= Limit]_gatewayVars
================================================================================
