-------------------------- MODULE MethodRateLimit ---------------------------
(***************************************************************************)
(* MethodRatelimiter (ratelimit.rs) over TokenBucketRateLimiter            *)
(* (window.rs): one token bucket per subscriber, method and limit, kept in *)
(* a map that every gc_tick-th request prunes of idle buckets. The layer   *)
(* runs under the mutex of AuthGuardedService, so a request reads the      *)
(* clock and takes its token in one step.                                  *)
(* Tokens are counted in units of 1/Window of a hit: a bucket of limit n   *)
(* holds n * Window and gains n per unit of time, as max_hits / window.    *)
(***************************************************************************)
EXTENDS Integers, Sequences, FiniteSets

CONSTANTS
    Window,             \* window
    MaxHitsFallback,    \* max_hits_fallback
    IdleTimeout,        \* idle_timeout
    GcTick,             \* gc_tick
    NoRatelimits,       \* ratelimits is None
    MaxClock            \* bound: the last instant

ASSUME MethodRateLimitAssumption ==
    /\ Window \in Nat \ {0}
    /\ GcTick \in Nat
    \* 300 s against a window of 10 s in the code: a bucket that idle is full again.
    /\ IdleTimeout \in Nat /\ IdleTimeout >= Window
    /\ MaxHitsFallback \in Int

VARIABLES
    clock,
    active_windows_map,     \* key -> [tokens, last_refill, last_seen]
    request_counter,        \* modulo GcTick
    hits                    \* history: key -> instants of the admitted hits

rateVars == <<clock, active_windows_map, request_counter, hits>>

RateInit ==
    /\ clock = 0
    /\ active_windows_map = [k \in {} |-> k]
    /\ request_counter = 0
    /\ hits = [k \in {} |-> k]

\* The limit of a subscriber for a method; a negative one is no limit.
RatelimitOf(info, method) ==
    IF info.ratelimits = NoRatelimits THEN MaxHitsFallback
    ELSE IF method \in DOMAIN info.ratelimits.methods THEN info.ratelimits.methods[method]
         ELSE info.ratelimits.default

\* MethodRatelimitKey: the limit is part of it, so that a new limit takes a new bucket.
RatelimitKey(info, method) == <<info.subscription_id, method, RatelimitOf(info, method)>>

LimitOf(key) == key[3]

Least(a, b) == IF a < b THEN a ELSE b

\* refill_state: only time that has passed refills, up to the burst.
Refill(bucket, limit, now) ==
    IF now > bucket.last_refill
    THEN [bucket EXCEPT !.tokens = Least(@ + (now - bucket.last_refill) * limit, limit * Window),
                        !.last_refill = now]
    ELSE bucket

\* The bucket made at the first request of a key is full.
NewBucket(limit, now) == [tokens |-> limit * Window, last_refill |-> now, last_seen |-> now]

\* check_at takes a token of a bucket that holds a whole one.
Allowed(bucket) == bucket.tokens >= Window

\* Mutant: gc drops a bucket as soon as its key was not seen for an instant.
KeptByGcBusyOnly(windows, now) == {k \in DOMAIN windows : now - windows[k].last_seen < 1}

\* retain of maybe_run_gc
KeptByGc(windows, now) == {k \in DOMAIN windows : now - windows[k].last_seen <= IdleTimeout}

AfterGc(windows, now) ==
    IF GcTick # 0 /\ (request_counter + 1) % GcTick = 0
    THEN [k \in KeptByGc(windows, now) |-> windows[k]]
    ELSE windows

\* fetch_add of maybe_run_gc
CountRequest == request_counter' = IF GcTick = 0 THEN 0 ELSE (request_counter + 1) % GcTick

\* The assert of inner_call, after maybe_run_gc: a limit of zero panics.
AssertFails(info, method) ==
    /\ RatelimitOf(info, method) = 0
    /\ CountRequest
    /\ active_windows_map' = AfterGc(active_windows_map, clock)
    /\ UNCHANGED <<clock, hits>>

\* inner_call of a request that carries info; passes says whether it goes on.
CheckLimit(info, method, passes) ==
    LET key == RatelimitKey(info, method)
        now == clock
        limit == LimitOf(key)
        windows == AfterGc(active_windows_map, now)
        bucket == Refill(IF key \in DOMAIN windows THEN windows[key] ELSE NewBucket(limit, now),
                         limit, now)
    IN  /\ limit # 0
        /\ CountRequest
        /\ IF limit < 0
           THEN passes /\ active_windows_map' = windows /\ UNCHANGED hits
           ELSE /\ passes = Allowed(bucket)
                /\ active_windows_map' = [k \in DOMAIN windows \cup {key} |->
                       IF k # key THEN windows[k]
                       ELSE [bucket EXCEPT !.tokens = IF passes THEN @ - Window ELSE @,
                                           !.last_seen = now]]
                /\ hits' = IF passes
                           THEN [k \in DOMAIN hits \cup {key} |->
                                   IF k # key THEN hits[k]
                                   ELSE IF k \notin DOMAIN hits THEN <<now>>
                                   ELSE Append(hits[k], now)]
                           ELSE hits
        /\ UNCHANGED clock

\* Time passes.
Tick ==
    /\ clock < MaxClock
    /\ clock' = clock + 1
    /\ UNCHANGED <<active_windows_map, request_counter, hits>>

-----------------------------------------------------------------------------
(* Properties                                                              *)

\* Between any two admitted hits of a key lie no more than the burst and what the time
\* between them refills, although gc drops buckets that are made anew, full, and the
\* subscriber's limit changes between requests.
RateHolds ==
    \A k \in DOMAIN hits : \A i \in DOMAIN hits[k] : \A j \in i .. Len(hits[k]) :
        (j - i + 1) * Window <= LimitOf(k) * Window + LimitOf(k) * (hits[k][j] - hits[k][i])
=============================================================================
