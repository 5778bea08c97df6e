----------------------------- MODULE Admission ------------------------------
(***************************************************************************)
(* What a request passes on its way to the Geyser service, composed as     *)
(* GrpcService::create and build_service compose it: AuthGuardedService,   *)
(* the x-token interceptor and MethodRatelimiter. The two interceptors run *)
(* inside the call of the guarded service, under its mutex.                *)
(***************************************************************************)
EXTENDS AuthGuard, MethodRateLimit

CONSTANTS
    Configs,            \* listener configurations to check: [kind, ratelimit, x_token]
    NoXToken,           \* no x_token is configured
    MethodOf            \* request -> method

ASSUME AdmissionAssumption ==
    \* without an auth configuration there is no limiter
    /\ \A c \in Configs : c.kind = "none" => ~c.ratelimit
    \* limits are numbers (Ratelimits of auth.rs), wherever a subscription comes from
    /\ \A q, r \in Requests : \A i \in (Infos \cup {FileAnswer(q), TrustedAnswer(q)}) \ {NotFound} :
          RatelimitOf(i, MethodOf[r]) \in Int

VARIABLES
    ratelimit, x_token, \* the rest of the listener's configuration; neither changes
    poisoned,           \* a panic has poisoned the mutex of the inner service
    stage               \* request -> what became of it behind the guard

config == <<ratelimit, x_token>>
vars == <<authVars, rateVars, config, poisoned, stage>>

\* create and build_service for one listener
Init ==
    /\ AuthInit /\ RateInit
    /\ \E c \in Configs : kind = c.kind /\ ratelimit = c.ratelimit /\ x_token = c.x_token
    /\ poisoned = FALSE
    /\ stage = [r \in Requests |-> "none"]

\* XTokenInterceptor
TokenAccepted(r) ==
    x_token = NoXToken \/ ("x-token" \in DOMAIN Headers[r] /\ Headers[r]["x-token"] = x_token)

\* The interceptors of build_service, outermost first: x-token, then the limiter, which
\* lets a request without SubscriptionInfo pass.
RunInterceptors(r) ==
    IF ~TokenAccepted(r)
    THEN stage' = [stage EXCEPT ![r] = "bad_token"] /\ UNCHANGED rateVars
    ELSE IF ~ratelimit
    THEN stage' = [stage EXCEPT ![r] = "served"] /\ UNCHANGED rateVars
    ELSE \E passes \in BOOLEAN :
            /\ CheckLimit(info[r], MethodOf[r], passes)
            /\ stage' = [stage EXCEPT ![r] = IF passes THEN "served" ELSE "limited"]

Send(r) ==
    /\ kind # "none"
    /\ Arrive(r)
    /\ UNCHANGED <<rateVars, config, poisoned, stage>>

SendUnguarded(r) ==
    /\ kind = "none" /\ stage[r] = "none"
    /\ RunInterceptors(r)
    /\ UNCHANGED <<authVars, config, poisoned>>

\* A step of the guard short of calling the inner service
Guard(r) ==
    /\ \/ PollReady(r)
       \/ Call(r)
       \/ CacheHit(r)
       \/ StartLookup(r)
       \/ JoinLookup(r)
       \/ Deny(r)
    /\ UNCHANGED <<rateVars, config, poisoned, stage>>

EndpointAnswers(r) ==
    /\ \E answer \in {directory[Credentials(r)], LookupError} : LookupAnswers(r, answer)
    /\ UNCHANGED <<rateVars, config, poisoned, stage>>

InnerNotReady(r) ==
    /\ ~poisoned
    /\ \E ready \in {"pending", "error"} : PollInner(r, ready)
    /\ UNCHANGED <<rateVars, config, poisoned, stage>>

EnterInner(r) ==
    /\ ~poisoned
    /\ PollInner(r, "ready")
    /\ RunInterceptors(r)
    /\ UNCHANGED <<config, poisoned>>

\* The limiter's assertion fails with the mutex held, which poisons it; every later
\* request of the listener that comes to lock() panics there.
InnerPanics(r) ==
    /\ PollInner(r, "panic")
    /\ \/ poisoned /\ UNCHANGED rateVars
       \/ ~poisoned /\ TokenAccepted(r) /\ ratelimit /\ AssertFails(info[r], MethodOf[r])
    /\ poisoned' = TRUE
    /\ UNCHANGED <<config, stage>>

\* The client resets the request or its connection closes.
Reset(r) ==
    /\ DropGuarded(r)
    /\ UNCHANGED <<rateVars, config, poisoned, stage>>

Environment == EndpointStep /\ UNCHANGED <<rateVars, config, poisoned, stage>>

\* Time matters to the limiter alone; the cache expires at any time.
TimePasses == ratelimit /\ Tick /\ UNCHANGED <<authVars, config, poisoned, stage>>

Next ==
    \/ \E r \in Requests : \/ Send(r) \/ SendUnguarded(r) \/ Guard(r) \/ EndpointAnswers(r)
                           \/ InnerNotReady(r) \/ EnterInner(r) \/ InnerPanics(r)
                           \/ Reset(r)
    \/ Environment
    \/ TimePasses

\* The runtime polls what can go on; the semaphore serves its waiters in turn. Whether
\* the endpoint answers and clients go on is up to them.
Fairness ==
    \A r \in Requests : WF_vars(Guard(r)) /\ SF_vars(PollReady(r) /\ UNCHANGED <<rateVars, config, poisoned, stage>>)
                                          /\ WF_vars(EnterInner(r) \/ InnerPanics(r))

Spec == Init /\ [][Next]_vars /\ Fairness

-----------------------------------------------------------------------------
(* Properties                                                              *)

\* A request that waits for a permit is answered or gone in the end, provided that no
\* look-up hangs for ever (the HTTP client sets no timeout) and the inner service becomes
\* ready: no permit is lost, and nobody waits for ever on another's look-up.
EveryRequestAnswered ==
    (\A r \in Requests : []<>(lookup[r] # "asking") /\ []<>(phase[r] # "polling"))
        => \A r \in Requests : (phase[r] = "waiting") ~> Answered(r)
=============================================================================
