----------------------------- MODULE AuthGuard ------------------------------
(***************************************************************************)
(* AuthGuardedService (tools, tonic/auth/service.rs) over the              *)
(* authenticators of auth.rs: a semaphore bounds the requests that are     *)
(* being authenticated, the HTTP repository caches what it looked up, and  *)
(* cache_ext.rs lets requests with the same credentials share one look-up. *)
(* The cache itself (moka) is external.                                    *)
(***************************************************************************)
EXTENDS Integers, Sequences, FiniteSets

CONSTANTS
    Requests,
    AuthKinds,              \* kinds of authenticator to check: see kind
    Host, NoHost,           \* request -> host of its URI
    Headers,                \* request -> function from its header names to values
    ForwardedHeaders,       \* forwarded_headers, in configured order
    Infos,                  \* values of SubscriptionInfo the endpoint may hold
    FileMappings,           \* the resolver file: sequence of [host, token, info]
    TrustedRatelimits,      \* ratelimits of TrustedMetadataAuthenticator
    NotFound, LookupError,  \* Ok(None) and Err, the other outcomes of authenticate
    ConcurrentAuthLimit,    \* concurrent_auth_limit
    MaxAttempts             \* MAX_ATTEMPTS

ASSUME AuthGuardAssumption ==
    /\ IsFiniteSet(Requests)
    /\ AuthKinds \subseteq {"cached", "direct", "file", "trusted", "none"}
    /\ NotFound \notin Infos /\ LookupError \notin Infos /\ NotFound # LookupError
    /\ ConcurrentAuthLimit \in Nat \ {0}
    /\ MaxAttempts \in Nat

Nobody == "nobody"

VARIABLES
    kind,           \* AuthConfig of the listener: HTTP with or without a cache, file, trusted
                    \* metadata, none; it never changes
    phase,          \* request -> where it is in the guard
    permits,        \* free permits of the semaphore
    lookup,         \* request -> state of its look-up
    attempts,       \* request -> loop_iteration
    info,           \* request -> the extension it carries, or why there is none
    cache,          \* cache key -> SubscriptionInfo or NotFound
    initializer,    \* cache key -> request whose look-up runs, or Nobody
    directory,      \* credentials -> what the subscription endpoint answers
    everHeld,       \* history: credentials -> every info the endpoint has held for them
    asked           \* history: the requests whose own look-up was answered

authVars == <<kind, phase, permits, lookup, attempts, info, cache, initializer, directory, everHeld, asked>>

Forwarded(r) == SelectSeq(ForwardedHeaders, LAMBDA h : h \in DOMAIN Headers[r])

\* What the endpoint sees of a request.
Credentials(r) ==
    <<Host[r], [h \in {Forwarded(r)[i] : i \in DOMAIN Forwarded(r)} |-> Headers[r][h]]>>

\* Mutant: the cache is keyed by the host alone.
CacheKeyHostOnly(r) == <<Host[r]>>

\* caching_key: the host and each forwarded header that is there, with its value.
CacheKey(r) ==
    <<Host[r], [i \in DOMAIN Forwarded(r) |-> <<Forwarded(r)[i], Headers[r][Forwarded(r)[i]]>>]>>

AllCredentials == {Credentials(r) : r \in Requests}
CacheKeys == {CacheKey(r) : r \in Requests}

AuthInit ==
    /\ kind \in AuthKinds
    /\ phase = [r \in Requests |-> "idle"]
    /\ permits = ConcurrentAuthLimit
    /\ lookup = [r \in Requests |-> "none"]
    /\ attempts = [r \in Requests |-> 0]
    /\ info = [r \in Requests |-> NotFound]
    /\ cache = [k \in CacheKeys |-> NotFound]
    /\ initializer = [k \in CacheKeys |-> Nobody]
    /\ directory = [c \in AllCredentials |-> NotFound]
    /\ everHeld = [c \in AllCredentials |-> {}]
    /\ asked = {}

\* The subscription is changed, created or revoked at the endpoint.
DirectoryChanges(c, new) ==
    /\ directory[c] # new
    /\ directory' = [directory EXCEPT ![c] = new]
    /\ everHeld' = [everHeld EXCEPT ![c] = @ \cup ({new} \ {NotFound})]
    /\ UNCHANGED <<kind, phase, permits, lookup, attempts, info, cache, initializer, asked>>

-----------------------------------------------------------------------------
(* The guard                                                               *)

Arrive(r) ==
    /\ phase[r] = "idle"
    /\ phase' = [phase EXCEPT ![r] = "waiting"]
    /\ UNCHANGED <<kind, permits, lookup, attempts, info, cache, initializer, directory, everHeld, asked>>

\* AuthGuardedService::poll_ready
PollReady(r) ==
    /\ phase[r] = "waiting"
    /\ permits > 0
    /\ permits' = permits - 1
    /\ phase' = [phase EXCEPT ![r] = "ready"]
    /\ UNCHANGED <<kind, lookup, attempts, info, cache, initializer, directory, everHeld, asked>>

\* ConstantSubscriptionRepository: a later line of the file replaces an earlier one.
FileAnswer(r) ==
    LET Lines == {i \in DOMAIN FileMappings : /\ "x-token" \in DOMAIN Headers[r]
                                              /\ FileMappings[i].host = Host[r]
                                              /\ FileMappings[i].token = Headers[r]["x-token"]}
    IN  IF Lines = {} THEN NotFound
        ELSE FileMappings[CHOOSE i \in Lines : \A j \in Lines : j <= i].info

\* TrustedMetadataAuthenticator
TrustedAnswer(r) ==
    IF "x-subscription-id" \in DOMAIN Headers[r]
    THEN [subscription_id |-> Headers[r]["x-subscription-id"], ratelimits |-> TrustedRatelimits]
    ELSE NotFound

\* An authenticator that needs no look-up: the file, the trusted header, and the HTTP
\* repository for a request without a host.
Immediate(r) == kind \in {"file", "trusted"} \/ Host[r] = NoHost

ImmediateAnswer(r) ==
    CASE kind = "trusted" -> TrustedAnswer(r)
      [] kind = "file"    -> FileAnswer(r)
      [] OTHER               -> NotFound

\* AuthGuardedService::call: the permit moves into the future, which starts out with
\* authenticate.
Call(r) ==
    /\ phase[r] = "ready"
    /\ phase' = [phase EXCEPT ![r] = "authenticating"]
    /\ IF Immediate(r)
       THEN /\ info' = [info EXCEPT ![r] = ImmediateAnswer(r)]
            /\ lookup' = [lookup EXCEPT ![r] = "answered"]
            /\ UNCHANGED attempts
       ELSE /\ lookup' = [lookup EXCEPT ![r] = "start"]
            /\ attempts' = [attempts EXCEPT ![r] = 1]
            /\ UNCHANGED info
    /\ UNCHANGED <<kind, permits, cache, initializer, directory, everHeld, asked>>

-----------------------------------------------------------------------------
(* The look-up: try_optionally_get_with over moka's optionally_get_with    *)

InitializerOf(r) == initializer[CacheKey(r)]
Cached(r) == cache[CacheKey(r)]

CacheHit(r) ==
    /\ lookup[r] = "start" /\ kind = "cached" /\ Cached(r) # NotFound
    /\ info' = [info EXCEPT ![r] = Cached(r)]
    /\ lookup' = [lookup EXCEPT ![r] = "answered"]
    /\ UNCHANGED <<kind, phase, permits, attempts, cache, initializer, directory, everHeld, asked>>

\* Its own initializer runs: the request goes to the endpoint.
StartLookup(r) ==
    /\ lookup[r] = "start"
    /\ \/ kind = "direct" /\ UNCHANGED initializer
       \/ /\ kind = "cached" /\ Cached(r) = NotFound /\ InitializerOf(r) = Nobody
          /\ initializer' = [initializer EXCEPT ![CacheKey(r)] = r]
    /\ lookup' = [lookup EXCEPT ![r] = "asking"]
    /\ UNCHANGED <<kind, phase, permits, attempts, info, cache, directory, everHeld, asked>>

\* Another request with the same key is being looked up.
JoinLookup(r) ==
    /\ lookup[r] = "start" /\ kind = "cached"
    /\ Cached(r) = NotFound /\ InitializerOf(r) # Nobody
    /\ lookup' = [lookup EXCEPT ![r] = "joined"]
    /\ UNCHANGED <<kind, phase, permits, attempts, info, cache, initializer, directory, everHeld, asked>>

Joined(r) == {w \in Requests : lookup[w] = "joined" /\ CacheKey(w) = CacheKey(r)}

\* What a request that waited for another's look-up does when that gave no value.
AfterJoinedNone(w) == IF attempts[w] >= MaxAttempts THEN "answered" ELSE "start"

\* The endpoint answers: 200 with what it holds, 404, or anything else is an error.
\* Only a value is cached; 404 and an error are None to those who joined.
LookupAnswers(r, answer) ==
    LET W == Joined(r)
    IN  /\ lookup[r] = "asking"
        /\ info' = [w \in Requests |->
                      CASE w = r -> answer
                        [] w \in W /\ answer \in Infos -> answer
                        [] w \in W /\ answer \notin Infos /\ AfterJoinedNone(w) = "answered" -> NotFound
                        [] OTHER -> info[w]]
        /\ lookup' = [w \in Requests |->
                        CASE w = r \/ (w \in W /\ answer \in Infos) -> "answered"
                          [] w \in W /\ answer \notin Infos -> AfterJoinedNone(w)
                          [] OTHER -> lookup[w]]
        /\ attempts' = [w \in Requests |-> IF w \in W /\ answer \notin Infos /\ AfterJoinedNone(w) = "start"
                                           THEN attempts[w] + 1 ELSE attempts[w]]
        /\ IF kind = "cached"
           THEN /\ initializer' = [initializer EXCEPT ![CacheKey(r)] = Nobody]
                /\ cache' = IF answer \in Infos THEN [cache EXCEPT ![CacheKey(r)] = answer]
                                                ELSE cache
           ELSE UNCHANGED <<initializer, cache>>
        /\ asked' = asked \cup {r}
        /\ UNCHANGED <<kind, phase, permits, directory, everHeld>>

\* time_to_live of the cache
CacheExpires(k) ==
    /\ cache[k] # NotFound
    /\ cache' = [cache EXCEPT ![k] = NotFound]
    /\ UNCHANGED <<kind, phase, permits, lookup, attempts, info, initializer, directory, everHeld, asked>>

-----------------------------------------------------------------------------
(* AuthGuardFuture::poll                                                   *)

Holding(r) == phase[r] \in {"ready", "authenticating", "polling"}

\* Mutant: only a request that goes on to the inner service returns its permit.
LeaveGuardForInnerOnly(r, to) ==
    /\ phase' = [phase EXCEPT ![r] = to]
    /\ permits' = IF to = "calling" THEN permits + 1 ELSE permits

\* The future's state is replaced by CallingInner or Denied, which hold no permit, or
\* the service or future is dropped.
LeaveGuard(r, to) ==
    /\ phase' = [phase EXCEPT ![r] = to]
    /\ permits' = IF Holding(r) THEN permits + 1 ELSE permits

\* What the future kept goes with it.
ForgetLookup(r) ==
    /\ attempts' = [attempts EXCEPT ![r] = 0]
    /\ asked' = asked \ {r}

Deny(r) ==
    /\ phase[r] = "authenticating" /\ lookup[r] = "answered"
    /\ \/ info[r] = NotFound /\ LeaveGuard(r, "unauthenticated")
       \/ info[r] = LookupError /\ LeaveGuard(r, "internal")
    /\ lookup' = [lookup EXCEPT ![r] = "none"]
    /\ ForgetLookup(r)
    /\ UNCHANGED <<kind, info, cache, initializer, directory, everHeld>>

\* The inner service is polled under its mutex, first in the state Authenticating and
\* again in PollingService until it is ready. A panic under the mutex, or of lock() on a
\* poisoned one, unwinds the task and drops the future with its permit.
PollInner(r, ready) ==
    /\ \/ phase[r] = "authenticating" /\ lookup[r] = "answered" /\ info[r] \notin {NotFound, LookupError}
       \/ phase[r] = "polling" /\ ready # "pending"
    /\ CASE ready = "ready"   -> LeaveGuard(r, "calling")
         [] ready = "error"   -> LeaveGuard(r, "internal")
         [] ready = "panic"   -> LeaveGuard(r, "dropped")
         [] ready = "pending" -> phase' = [phase EXCEPT ![r] = "polling"] /\ UNCHANGED permits
    /\ lookup' = [lookup EXCEPT ![r] = "none"]
    /\ ForgetLookup(r)
    /\ UNCHANGED <<kind, info, cache, initializer, directory, everHeld>>

Answered(r) == phase[r] \in {"unauthenticated", "internal", "calling", "dropped"}

\* The client resets the request: its future is dropped wherever it is. Those who
\* joined its look-up start over within moka.
DropGuarded(r) ==
    /\ phase[r] # "idle" /\ ~Answered(r)
    /\ LeaveGuard(r, "dropped")
    /\ lookup' = [w \in Requests |->
                    CASE w = r -> "none"
                      [] lookup[r] = "asking" /\ kind = "cached" /\ w \in Joined(r) -> "start"
                      [] OTHER -> lookup[w]]
    /\ initializer' = IF kind = "cached" /\ lookup[r] = "asking"
                      THEN [initializer EXCEPT ![CacheKey(r)] = Nobody]
                      ELSE initializer
    /\ ForgetLookup(r)
    /\ info' = [info EXCEPT ![r] = NotFound]
    /\ UNCHANGED <<kind, cache, directory, everHeld>>

\* Only the HTTP repository asks the endpoint and has a cache.
EndpointStep ==
    /\ kind \in {"cached", "direct"}
    /\ \/ \E c \in AllCredentials, new \in Infos \cup {NotFound} : DirectoryChanges(c, new)
       \/ \E k \in CacheKeys : CacheExpires(k)

-----------------------------------------------------------------------------
(* Properties                                                              *)

\* Every permit of concurrent_auth_limit is free or held by one request that is ready,
\* authenticating or polling the inner service, whichever way requests leave the guard.
AuthPermitsExact ==
    permits + Cardinality({r \in Requests : Holding(r)}) = ConcurrentAuthLimit

\* A request is judged by its own credentials, although requests share look-ups and cache
\* entries.  One that reaches the inner service carries a subscription that its credentials
\* were given at some time; one that joined another's failing look-up is not refused as
\* unknown because of it but asks itself, unless it has already waited for MaxAttempts of
\* them (the loop of try_optionally_get_with).
JudgedByItself ==
    \A r \in Requests :
        /\ phase[r] \in {"polling", "calling"} =>
              CASE kind \in {"cached", "direct"} -> info[r] \in everHeld[Credentials(r)]
                [] kind = "file"    -> info[r] = FileAnswer(r) /\ info[r] # NotFound
                [] kind = "trusted" -> info[r] = TrustedAnswer(r) /\ info[r] # NotFound
        /\ lookup[r] = "answered" /\ info[r] = NotFound /\ kind = "cached" /\ ~Immediate(r)
              => r \in asked \/ attempts[r] >= MaxAttempts
=============================================================================
