------------------------------ MODULE Metering ------------------------------
(***************************************************************************)
(* The bytes a response body emits, from the frame to the bill: the        *)
(* metered body and its two hooks (tools tonic/metered.rs, metered.rs),    *)
(* the channel of billing events and the HTTP sink that batches them       *)
(* (billing.rs).                                                           *)
(***************************************************************************)
EXTENDS Integers, Sequences, FiniteSets

CONSTANTS
    Requests,           \* bound: requests of one life of the server
    Callers,            \* who calls: [subscriber, info], info: SubscriptionInfo, not a header alone
    FrameSizes,         \* bytes of a data frame
    MaxBytes,           \* bound: bytes a body emits
    Threshold,          \* traffic_reporting_threshold
    FlushEvents         \* events that fill FLUSH_THRESHOLD_BYTES

ASSUME MeteringAssumption ==
    /\ IsFiniteSet(Requests)
    /\ \A c \in Callers : c.info \in BOOLEAN
    /\ FrameSizes \subseteq Nat \ {0}
    /\ {Threshold, FlushEvents} \subseteq Nat \ {0}

Nobody == "nobody"      \* no subscription id at all: no hooks
Subscribers == {c.subscriber : c \in Callers} \ {Nobody}

VARIABLES
    call,               \* request -> "new" | "calling" | "streaming" | "done"
    caller,             \* request -> who made it
    cumulative_bytes,   \* request -> bytes not yet reported
    emitted,            \* request -> history: bytes handed to the transport
    active,             \* subscriber -> ACTIVE_METERED_BODIES_PER_SUBSCRIBER_ID, 0 for a missing entry
    outbound,           \* subscriber -> grpc_service_outbound_bytes
    usage,              \* the unbounded channel of events
    buffer,             \* ndjson_buffer: events serialized and not flushed
    ongoing_flush,      \* the batch of the HTTP request under way, <<>> for none
    source_closed,      \* every sender of the channel is gone
    sink,               \* "running" | "done" | "dropped"
    billed,             \* what the endpoint has taken
    lost                \* history: what was in batches that failed or in a sink that was dropped

bodies == <<call, caller, cumulative_bytes, emitted, active, outbound>>
sinkVars == <<buffer, ongoing_flush, source_closed, sink, billed, lost>>
meteringVars == <<bodies, usage, sinkVars>>

MeteringInit ==
    /\ call = [r \in Requests |-> "new"]
    /\ caller \in [Requests -> Callers]
    /\ cumulative_bytes = [r \in Requests |-> 0]
    /\ emitted = [r \in Requests |-> 0]
    /\ active = [s \in Subscribers |-> 0]
    /\ outbound = [s \in Subscribers |-> 0]
    /\ usage = <<>> /\ buffer = <<>> /\ ongoing_flush = <<>>
    /\ source_closed = FALSE /\ sink = "running"
    /\ billed = <<>> /\ lost = <<>>

Bandwidth(r, n) == [code |-> "bandwidth", request |-> r, quantity |-> n]
Request(r) == [code |-> "requests", request |-> r, quantity |-> 1]

HasMetrics(r) == caller[r].subscriber # Nobody      \* PrometheusMeteredHooks
HasBilling(r) == caller[r].info                     \* BillingBandwidthMeteredHooks

\* Whoever sends after the sink is gone gets an error and logs it.
Sent(events) == IF sink = "running" THEN usage \o events ELSE usage
LostWith(events) == IF sink = "running" THEN lost ELSE lost \o events

-----------------------------------------------------------------------------
(* Requests and bodies                                                     *)

\* MeteredBandwidthService::call: on_method, then build_hooks of both managers.
Call(r) ==
    /\ call[r] = "new" /\ ~source_closed
    /\ call' = [call EXCEPT ![r] = "calling"]
    /\ active' = IF HasMetrics(r) THEN [active EXCEPT ![caller[r].subscriber] = @ + 1] ELSE active
    /\ usage' = Sent(<<Request(r)>>) /\ lost' = LostWith(<<Request(r)>>)
    /\ UNCHANGED <<caller, cumulative_bytes, emitted, outbound, buffer, ongoing_flush, source_closed, sink, billed>>

Respond(r) ==
    /\ call[r] = "calling"
    /\ call' = [call EXCEPT ![r] = "streaming"]
    /\ UNCHANGED <<caller, cumulative_bytes, emitted, active, outbound, usage, sinkVars>>

\* on_emit_bytes of both hooks
Report(r, n) ==
    LET events == IF HasBilling(r) THEN <<Bandwidth(r, n)>> ELSE <<>>
    IN  /\ usage' = Sent(events) /\ lost' = LostWith(events)
        /\ outbound' = IF HasMetrics(r) THEN [outbound EXCEPT ![caller[r].subscriber] = @ + n] ELSE outbound

\* poll_frame with a data frame
PollFrame(r, n) ==
    LET total == cumulative_bytes[r] + n
    IN  /\ call[r] = "streaming" /\ emitted[r] + n <= MaxBytes
        /\ emitted' = [emitted EXCEPT ![r] = @ + n]
        /\ cumulative_bytes' = [cumulative_bytes EXCEPT ![r] = IF total >= Threshold THEN 0 ELSE total]
        /\ IF total >= Threshold THEN Report(r, total) ELSE UNCHANGED <<usage, lost, outbound>>
        /\ UNCHANGED <<call, caller, active, buffer, ongoing_flush, source_closed, sink, billed>>

\* Drop of PrometheusMeteredHooks: the last hooks of a subscriber take its metric along.
Released(r, metric) ==
    IF HasMetrics(r) /\ active[caller[r].subscriber] = 1 THEN [metric EXCEPT ![caller[r].subscriber] = 0] ELSE metric
Lowered(r) == IF HasMetrics(r) THEN [active EXCEPT ![caller[r].subscriber] = @ - 1] ELSE active

\* The inner service fails, or the call is dropped before its response.
FailCall(r) ==
    /\ call[r] = "calling"
    /\ call' = [call EXCEPT ![r] = "done"]
    /\ active' = Lowered(r) /\ outbound' = Released(r, outbound)
    /\ UNCHANGED <<caller, cumulative_bytes, emitted, usage, sinkVars>>

\* The body ends or is dropped: PinnedDrop reports what is left, be it nothing, and then
\* the hooks are dropped.
DropBody(r) ==
    LET events == IF HasBilling(r) THEN <<Bandwidth(r, cumulative_bytes[r])>> ELSE <<>>
        metric == IF HasMetrics(r) THEN [outbound EXCEPT ![caller[r].subscriber] = @ + cumulative_bytes[r]] ELSE outbound
    IN  /\ call[r] = "streaming"
        /\ call' = [call EXCEPT ![r] = "done"]
        /\ cumulative_bytes' = [cumulative_bytes EXCEPT ![r] = 0]
        /\ usage' = Sent(events) /\ lost' = LostWith(events)
        /\ active' = Lowered(r) /\ outbound' = Released(r, metric)
        /\ UNCHANGED <<caller, emitted, buffer, ongoing_flush, source_closed, sink, billed>>

-----------------------------------------------------------------------------
(* HttpBillingEventSink::poll, one turn of its loop at a time              *)

Polling == sink = "running" /\ ongoing_flush = <<>>

\* try_flush_buffer_without_polling
StartFlush(events) == ongoing_flush' = events /\ buffer' = <<>>

TakeEvent ==
    /\ Polling /\ ~source_closed /\ usage # <<>>
    /\ usage' = Tail(usage)
    /\ LET events == Append(buffer, Head(usage))
       IN  IF Len(events) >= FlushEvents THEN StartFlush(events)
           ELSE buffer' = events /\ UNCHANGED ongoing_flush
    /\ UNCHANGED <<bodies, source_closed, sink, billed, lost>>

\* Mutant: only a full buffer is sent.
FlushWhenPendingNever == Polling /\ FALSE /\ UNCHANGED meteringVars

\* The source has nothing: what is buffered goes out.
FlushWhenPending ==
    /\ Polling /\ ~source_closed /\ usage = <<>> /\ buffer # <<>>
    /\ StartFlush(buffer)
    /\ UNCHANGED <<bodies, usage, source_closed, sink, billed, lost>>

\* The manager and all hooks are gone: the listener has ended and its bodies with it.
SourceEnds ==
    /\ Polling /\ ~source_closed /\ usage = <<>>
    /\ \A r \in Requests : call[r] \in {"new", "done"}
    /\ source_closed' = TRUE
    /\ UNCHANGED <<bodies, usage, buffer, ongoing_flush, sink, billed, lost>>

Drain ==
    /\ Polling /\ source_closed
    /\ IF buffer # <<>> THEN StartFlush(buffer) /\ UNCHANGED sink
       ELSE sink' = "done" /\ UNCHANGED <<buffer, ongoing_flush>>
    /\ UNCHANGED <<bodies, usage, source_closed, billed, lost>>

FlushSucceeds ==
    /\ sink = "running" /\ ongoing_flush # <<>>
    /\ billed' = billed \o ongoing_flush /\ ongoing_flush' = <<>>
    /\ UNCHANGED <<bodies, usage, buffer, source_closed, sink, lost>>

\* Mutant: a batch that failed is put back.
FlushFailsPutsBack(taken) ==
    /\ sink = "running" /\ ongoing_flush # <<>>
    /\ billed' = IF taken THEN billed \o ongoing_flush ELSE billed
    /\ buffer' = ongoing_flush \o buffer /\ ongoing_flush' = <<>>
    /\ UNCHANGED <<bodies, usage, source_closed, sink, lost>>

\* An error, an error status or 500 ms without an answer, which the endpoint may have
\* taken nevertheless: the batch is logged and gone.
FlushFails(taken) ==
    /\ sink = "running" /\ ongoing_flush # <<>>
    /\ billed' = IF taken THEN billed \o ongoing_flush ELSE billed
    /\ lost' = IF taken THEN lost ELSE lost \o ongoing_flush
    /\ ongoing_flush' = <<>>
    /\ UNCHANGED <<bodies, usage, buffer, source_closed, sink>>

\* The runtime is shut down; the sink's task is not waited for.
DropSink ==
    /\ sink = "running"
    /\ sink' = "dropped"
    /\ lost' = lost \o ongoing_flush \o buffer \o usage
    /\ usage' = <<>> /\ buffer' = <<>> /\ ongoing_flush' = <<>>
    /\ UNCHANGED <<bodies, source_closed, billed>>

Sink == TakeEvent \/ FlushWhenPending \/ Drain \/ FlushSucceeds \/ \E taken \in BOOLEAN : FlushFails(taken)

MeteringNext ==
    \/ \E r \in Requests :
         Call(r) \/ Respond(r) \/ FailCall(r) \/ DropBody(r) \/ \E n \in FrameSizes : PollFrame(r, n)
    \/ Sink \/ SourceEnds \/ DropSink

\* The sink's task runs, and the HTTP request ends within its timeout.
MeteringSpec == MeteringInit /\ [][MeteringNext]_meteringVars /\ WF_meteringVars(Sink)

-----------------------------------------------------------------------------
(* Properties                                                              *)

\* The sum of f over I, counted: f[i] cells for every i
Cells(f, I) == UNION {{i} \X (1..f[i]) : i \in I}
SumOver(f, I) == Cardinality(Cells(f, I))

\* What these events bill for a request under a code
Quantity(events, code, r) ==
    SumOver([i \in DOMAIN events |-> events[i].quantity],
            {i \in DOMAIN events : events[i].code = code /\ events[i].request = r})

Live(s) == {r \in Requests : caller[r].subscriber = s /\ call[r] \in {"calling", "streaming"}}

\* Every byte that was sent is in exactly one place: in the body's counter, on its way,
\* billed, or lost with a batch that failed.  None is billed twice, also when a timeout
\* races with an answer, and the same holds for the call itself.  Beside it the table of
\* active bodies is the number of hooks alive, and a subscriber's metric is what they and
\* those that ended beside them have reported, and goes with the last.
EveryByteAccounted ==
    /\ LET everywhere == usage \o buffer \o ongoing_flush \o billed \o lost
       IN  \A r \in Requests :
              /\ HasBilling(r) => emitted[r] = cumulative_bytes[r] + Quantity(everywhere, "bandwidth", r)
              /\ ~HasBilling(r) => Quantity(everywhere, "bandwidth", r) = 0
              /\ Quantity(everywhere, "requests", r) = IF call[r] = "new" THEN 0 ELSE 1
    /\ \A s \in Subscribers :
          /\ active[s] = Cardinality(Live(s))
          /\ Live(s) = {} => outbound[s] = 0
          /\ outbound[s] >= SumOver([r \in Requests |-> emitted[r] - cumulative_bytes[r]], Live(s))

\* Nothing stays in the buffer of a quiet server, however little it is.
EventuallySettled == <>[](usage = <<>> /\ buffer = <<>> /\ ongoing_flush = <<>>)
=============================================================================
