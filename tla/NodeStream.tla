----------------------------- MODULE NodeStream -----------------------------
(***************************************************************************)
(* The stream of the Node.js client: ClientDuplexStream (index.ts) pulls   *)
(* updates from, and writes requests to, the native DuplexStream           *)
(* (napi/src/lib.rs), whose SharedStream may be polled by several tasks at *)
(* once.  Promises are settled on the runtime's threads and handled later  *)
(* on the JavaScript thread, in any order.  The deshred classes are the    *)
(* same code without validation and without reconnection.                  *)
(*                                                                         *)
(* The wrapped stream, with the one waker it keeps, and Node's own Duplex  *)
(* (buffer, high watermark, destroy) are external.                         *)
(***************************************************************************)
EXTENDS Integers, Sequences, FiniteSets

CONSTANTS
    JsReads,        \* read() promises of the JavaScript wrapper
    Callers,        \* other calls of the native read(), one each
    Requests,       \* requests the user subscribes with and writes
    DeshredRequests,    \* the same for a deshred stream
    HighWaterMark,  \* of Node's read buffer
    Capacity,       \* of the request channel; that of a deshred stream is unbounded
    MaxUpdates,     \* bound: updates the server sends
    MaxWrites       \* bound: requests the user writes

ASSUME NodeAssumption ==
    /\ JsReads \cap Callers = {} /\ JsReads # {}
    /\ {HighWaterMark, Capacity} \subseteq Nat \ {0}
    /\ {MaxUpdates, MaxWrites} \subseteq Nat

VARIABLES
    \* the wrapped stream
    sent,       \* updates the server has sent
    source,     \* what has arrived and was not polled: updates, then perhaps StreamError
    ended,      \* the stream is over once source is empty
    registered, \* the proxy waker is in the stream's only waker slot
    waking,     \* the producer has taken the proxy waker and is to wake it
    \* SharedStream and DuplexStreamInner
    waiters,    \* wakers of the reads that got Pending
    towake,     \* waiters taken out of the list and not woken yet
    reads,      \* read -> "none", "ready", "pending", "ended", "settled"
    result,     \* read -> what its promise was settled with
    writable,   \* the sink is there
    terminal_error,
    \* the request channel
    deshred,    \* which of the two kinds of stream this is
    reconnects, \* an AutoReconnect holds the sender, too
    queued,     \* requests in the channel
    receiver,   \* the receiving end is alive
    \* ClientDuplexStream
    _readInFlight,
    destroyed,  \* _isDestroying, _isClosed: set together
    writing,    \* the write: "idle", "sending", "sent", "failed"
    writes,     \* writes so far
    buffer,     \* number of updates in Node's read buffer
    pushed,     \* updates pushed to the consumer
    outcome,    \* "opening", "rejected", "none" while the stream is open, and then how it
                \* ended for the consumer: "eof", "error", "user"
    failed      \* history: a send failed before a read of the wrapper saw the end

streamVars == <<sent, source, ended, registered, waking>>
sharedVars == <<waiters, towake, reads, result>>
channelVars == <<writable, terminal_error, deshred, reconnects, queued, receiver>>
jsVars == <<_readInFlight, destroyed, buffer, pushed, outcome>>
writeVars == <<writing, writes, failed>>
vars == <<streamVars, sharedVars, channelVars, jsVars, writeVars>>

Reads == JsReads \cup Callers

\* Results of a read that are no update
EndOfStream == 0
StreamError == -1
NoResult == -2

Init ==
    /\ sent = 0 /\ source = <<>> /\ ended = FALSE /\ registered = FALSE /\ waking = FALSE
    /\ waiters = {} /\ towake = {}
    /\ reads = [r \in Reads |-> "none"]
    /\ result = [r \in Reads |-> NoResult]
    /\ writable = FALSE /\ terminal_error = FALSE
    /\ deshred \in BOOLEAN
    /\ reconnects \in IF deshred THEN {FALSE} ELSE BOOLEAN
    /\ queued = 0 /\ receiver = TRUE
    /\ _readInFlight = FALSE /\ destroyed = TRUE
    /\ buffer = 0 /\ pushed = <<>> /\ outcome = "opening"
    /\ writing = "idle" /\ writes = 0 /\ failed = FALSE

\* There is a stream.
Opened == outcome \notin {"opening", "rejected"}

-----------------------------------------------------------------------------
(* The wrapped stream: what arrives takes the waker out of its slot, and   *)
(* the producer goes on when it has woken it.                              *)

Arrives ==
    /\ ~waking /\ towake = {}
    /\ registered' = FALSE
    /\ waking' = registered
    /\ UNCHANGED <<sharedVars, channelVars, jsVars, writeVars>>

ServerUpdate ==
    /\ Opened
    /\ ~ended /\ sent < MaxUpdates
    /\ sent' = sent + 1
    /\ source' = Append(source, sent + 1)
    /\ Arrives
    /\ UNCHANGED ended

\* The stream ends, cleanly or with a status.
ServerEnds ==
    /\ Opened
    /\ ~ended
    /\ ended' = TRUE
    /\ source' \in {source, Append(source, StreamError)}
    /\ Arrives
    /\ UNCHANGED sent

ServerTakesRequest ==
    /\ receiver /\ queued > 0
    /\ queued' = queued - 1
    /\ UNCHANGED <<streamVars, sharedVars, writable, terminal_error, deshred, reconnects, receiver,
                   jsVars, writeVars>>

\* The call is over for the transport, which drops the receiver of the requests.
ReceiverDropped ==
    /\ Opened
    /\ receiver
    /\ receiver' = FALSE
    /\ queued' = 0
    /\ UNCHANGED <<streamVars, sharedVars, writable, terminal_error, deshred, reconnects, jsVars, writeVars>>

-----------------------------------------------------------------------------
(* SharedStream                                                            *)

\* SharedStreamWaker::wake_by_ref empties the list under the lock ...
WakeByRef ==
    /\ waking
    /\ waking' = FALSE
    /\ towake' = waiters
    /\ waiters' = {}
    /\ UNCHANGED <<sent, source, ended, registered, reads, result, channelVars, jsVars, writeVars>>

\* ... and wakes the tasks after it.
Wake(r) ==
    /\ r \in towake
    /\ towake' = towake \ {r}
    /\ reads' = [reads EXCEPT ![r] = "ready"]
    /\ UNCHANGED <<streamVars, waiters, result, channelVars, jsVars, writeVars>>

\* Mutant: the task that polled last is the only one that is woken.
WaitersLastOnly(r) == {r}

\* poll_next keeps the waker of every task that got Pending.
Waiters(r) == waiters \cup {r}

Settle(r, value) ==
    /\ reads' = [reads EXCEPT ![r] = "settled"]
    /\ result' = [result EXCEPT ![r] = value]

\* SharedStream::poll_next, under the lock: the next item, the end, or Pending, which
\* leaves the proxy in the stream's slot and the task among the waiters.
PollNext(r) ==
    /\ reads[r] = "ready"
    /\ IF source # <<>>
       THEN /\ Settle(r, Head(source))
            /\ source' = Tail(source)
            /\ UNCHANGED <<registered, waiters>>
       ELSE /\ reads' = [reads EXCEPT ![r] = IF ended THEN "ended" ELSE "pending"]
            /\ registered' = (registered \/ ~ended)
            /\ waiters' = IF ended THEN waiters ELSE Waiters(r)
            /\ UNCHANGED <<result, source>>
    /\ UNCHANGED <<sent, ended, waking, towake, channelVars, jsVars, writeVars>>

-----------------------------------------------------------------------------
(* DuplexStreamInner                                                       *)

get_terminal_error == terminal_error

\* recv_update_or_error at the end of the stream: an error captured before is taken.
RecvEnd(r) ==
    /\ reads[r] = "ended"
    /\ Settle(r, IF get_terminal_error THEN StreamError ELSE EndOfStream)
    /\ terminal_error' = FALSE
    /\ UNCHANGED <<streamVars, waiters, towake, writable, deshred, reconnects, queued, receiver,
                   jsVars, writeVars>>

\* close revokes the sink.
Close == writable' = FALSE

\* Some clone of the sink keeps the channel open for the server.
SenderAlive == writable \/ writing = "sending" \/ reconnects

\* The send waits for room, if there is a bound.
Sent ==
    /\ writing = "sending"
    /\ receiver /\ (deshred \/ queued < Capacity)
    /\ queued' = queued + 1
    /\ writing' = "sent"
    /\ UNCHANGED <<streamVars, sharedVars, writable, terminal_error, deshred, reconnects, receiver, jsVars,
                   writes, failed>>

\* capture_terminal_error: the first failure is kept.
SendFails ==
    /\ writing = "sending"
    /\ ~receiver
    /\ terminal_error' = TRUE
    /\ writing' = "failed"
    /\ failed' = (failed \/ (outcome # "eof" /\ \A r \in JsReads : reads[r] # "ended" /\ result[r] # EndOfStream))
    /\ UNCHANGED <<streamVars, sharedVars, writable, deshred, reconnects, queued, receiver, jsVars, writes>>

-----------------------------------------------------------------------------
(* validate_subscribe_request                                              *)

\* u32::is_power_of_two, as far as the integers of TLC go
IsPowerOfTwo(n) == \E k \in 0..30 : n = 2 ^ k

validate_cuckoo_filter(c) ==
    /\ c.hash_algorithm = "siphash"
    /\ c.entries_per_bucket = 4
    /\ c.fingerprint_bits = 16
    /\ IsPowerOfTwo(c.bucket_count)
    /\ c.data_len = c.bucket_count * c.entries_per_bucket * (c.fingerprint_bits \div 8)

\* Account state filters: memcmp has data, lamports a comparator.
validate_memcmp_filter(f) == f.by = "memcmp" => f.operand # "none"
validate_lamports_filter(f) == f.by = "lamports" => f.operand # "none"

contains_reserved_autoreconnect_filter(request) == "__autoreconnect" \in request.names

validate_subscribe_request(request) ==
    /\ ~contains_reserved_autoreconnect_filter(request)
    /\ \A c \in request.cuckoo_filters : validate_cuckoo_filter(c)
    /\ \A f \in request.filters :
          f.by # "none" /\ validate_memcmp_filter(f) /\ validate_lamports_filter(f)

\* A deshred request is checked in JavaScript: its parts are objects, vote is a Boolean
\* where it is given.
parseStrictOptionalBool(value) == value \in {"absent", "true", "false"}
normalizeSubscribeDeshredRequest(request) ==
    request.is_object /\ \A f \in request.deshred_transactions : parseStrictOptionalBool(f.vote)

-----------------------------------------------------------------------------
(* ClientDuplexStream                                                      *)

\* The promise of subscribe is rejected when the call fails, else there is a stream.
Opens(accepted) ==
    /\ outcome = "opening"
    /\ outcome' \in IF accepted THEN {"none", "rejected"} ELSE {"rejected"}
    /\ destroyed' = (outcome' # "none")
    /\ writable' = (outcome' = "none")
    /\ UNCHANGED <<streamVars, sharedVars, terminal_error, deshred, reconnects, queued, receiver,
                   _readInFlight, buffer, pushed, writeVars>>

\* subscribe_duplex_stream validates the initial request; the deshred one has none.
Subscribe(request) == ~deshred /\ Opens(validate_subscribe_request(request))
SubscribeDeshred == deshred /\ Opens(TRUE)

\* Mutant: a read is started although one is in flight.
PullingAlways == ~destroyed

\* The guard of _pullNextUpdate
Pulling == ~destroyed /\ ~_readInFlight

\* A call of the native read(): a task of its own on the runtime.
StartRead(r, state) ==
    /\ state[r] = "none"
    /\ reads' = [state EXCEPT ![r] = "ready"]

\* Node asks for more: _read, once the buffer is below the high watermark.
Read(r) ==
    /\ buffer < HighWaterMark
    /\ Pulling
    /\ StartRead(r, reads)
    /\ r = CHOOSE free \in JsReads : reads[free] = "none"
    /\ _readInFlight' = TRUE
    /\ UNCHANGED <<streamVars, waiters, towake, result, channelVars, destroyed, buffer, pushed, outcome,
                   writeVars>>

\* The handlers of the promise
Handled(r) ==
    /\ reads[r] = "settled" /\ r \in JsReads
    /\ result' = [result EXCEPT ![r] = NoResult]

\* The promise of a read was settled when the stream was destroyed already.
ThenLate(r) ==
    /\ Handled(r)
    /\ destroyed
    /\ reads' = [reads EXCEPT ![r] = "none"]
    /\ _readInFlight' = FALSE
    /\ UNCHANGED <<streamVars, waiters, towake, channelVars, destroyed, buffer, pushed, outcome, writeVars>>

\* An update is pushed, and the next one pulled if the consumer keeps up.
ThenUpdate(r) ==
    /\ Handled(r)
    /\ ~destroyed
    /\ result[r] > 0
    /\ pushed' = Append(pushed, result[r])
    /\ buffer' = buffer + 1
    /\ IF buffer' < HighWaterMark
       THEN StartRead(r, [reads EXCEPT ![r] = "none"]) /\ _readInFlight' = TRUE
       ELSE reads' = [reads EXCEPT ![r] = "none"] /\ _readInFlight' = FALSE
    /\ UNCHANGED <<streamVars, waiters, towake, channelVars, destroyed, outcome, writeVars>>

\* _destroy: nothing that completes later is heard, and the native side is closed.
Destroy(how) ==
    /\ destroyed' = TRUE
    /\ outcome' = how
    /\ Close

\* The end or the error of the stream destroys it for the consumer.
ThenEnds(r) ==
    /\ Handled(r)
    /\ ~destroyed
    /\ result[r] \in {EndOfStream, StreamError}
    /\ reads' = [reads EXCEPT ![r] = "none"]
    /\ _readInFlight' = FALSE
    /\ Destroy(IF result[r] = EndOfStream THEN "eof" ELSE "error")
    /\ UNCHANGED <<streamVars, waiters, towake, terminal_error, deshred, reconnects, queued, receiver,
                   buffer, pushed, writeVars>>

\* Node hands out nothing more of a stream that is destroyed: what its buffer still holds
\* is lost to the consumer.
ConsumerTakes ==
    /\ ~destroyed
    /\ buffer > 0
    /\ buffer' = buffer - 1
    /\ UNCHANGED <<streamVars, sharedVars, channelVars, _readInFlight, destroyed, pushed, outcome, writeVars>>

UserDestroys ==
    /\ ~destroyed
    /\ Destroy("user")
    /\ UNCHANGED <<streamVars, sharedVars, terminal_error, deshred, reconnects, queued, receiver,
                   _readInFlight, buffer, pushed, writeVars>>

\* _write, which Node calls again only after the callback: a request that is not
\* accepted is an error of the stream, another one is sent on a clone of the sink.
WriteChecked(accepted) ==
    /\ writing = "idle" /\ writes < MaxWrites
    /\ ~destroyed
    /\ writes' = writes + 1
    /\ IF accepted
       THEN writing' = "sending" /\ UNCHANGED <<destroyed, outcome, writable>>
       ELSE Destroy("error") /\ UNCHANGED writing
    /\ UNCHANGED <<streamVars, sharedVars, terminal_error, deshred, reconnects, queued, receiver,
                   _readInFlight, buffer, pushed, failed>>

\* write_raw of the two streams
Write(request) == ~deshred /\ WriteChecked(validate_subscribe_request(request))
WriteDeshred(request) == deshred /\ WriteChecked(normalizeSubscribeDeshredRequest(request))

\* The callback of a write; its error destroys the stream.
WriteCallback ==
    /\ writing \in {"sent", "failed"}
    /\ writing' = "idle"
    /\ IF writing = "failed" /\ ~destroyed THEN Destroy("error")
                                           ELSE UNCHANGED <<destroyed, outcome, writable>>
    /\ UNCHANGED <<streamVars, sharedVars, terminal_error, deshred, reconnects, queued, receiver,
                   _readInFlight, buffer, pushed, writes, failed>>

\* Somebody else calls the native read().
CallerReads(r) ==
    /\ Opened
    /\ r \in Callers /\ reads[r] = "none"
    /\ StartRead(r, reads)
    /\ UNCHANGED <<streamVars, waiters, towake, result, channelVars, jsVars, writeVars>>

-----------------------------------------------------------------------------

Next ==
    \/ ServerUpdate \/ ServerEnds \/ ServerTakesRequest \/ ReceiverDropped
    \/ WakeByRef
    \/ \E r \in Reads : Wake(r) \/ PollNext(r) \/ RecvEnd(r) \/ CallerReads(r)
    \/ \E r \in JsReads : Read(r) \/ ThenLate(r) \/ ThenUpdate(r) \/ ThenEnds(r)
    \/ ConsumerTakes \/ UserDestroys \/ WriteCallback \/ Sent \/ SendFails
    \/ \E request \in Requests : Subscribe(request) \/ Write(request)
    \/ SubscribeDeshred
    \/ \E request \in DeshredRequests : WriteDeshred(request)

Spec == Init /\ [][Next]_vars

\* The runtime runs every task that is woken and the producer its wake; the server reads
\* the requests of an open call.
FairSpec ==
    /\ Spec
    /\ WF_vars(WakeByRef) /\ WF_vars(ServerTakesRequest) /\ WF_vars(Sent) /\ WF_vars(SendFails)
    /\ \A r \in Reads : WF_vars(Wake(r)) /\ WF_vars(PollNext(r)) /\ WF_vars(RecvEnd(r))

-----------------------------------------------------------------------------
(* Properties                                                              *)

TakenBy(R) == {result[r] : r \in R}

\* The updates are pushed in the order they were sent, although every promise is settled
\* on another thread, and the stream ends for the consumer as a clean one only if it was:
\* every update no other caller took was then pushed, and no request had failed to be sent
\* before ("surface that instead of a silent graceful EOF"). Of what was pushed the last
\* ones, still in Node's buffer, go with the stream: destroy() follows push(null).
ConsumerSeesTheStream ==
    /\ \A i, j \in DOMAIN pushed : i < j => pushed[i] < pushed[j]
    /\ outcome = "eof" =>
          /\ 1..sent \subseteq {pushed[i] : i \in DOMAIN pushed} \cup TakenBy(Callers)
          /\ StreamError \notin TakenBy(Callers) => ~failed

Available == source # <<>> \/ ended

\* No read is stranded: a pending one is woken for an update that is there and for the
\* end, however many tasks poll ("a `read()` promise that never resolves").  And a
\* stream that was destroyed lets go of its request channel, which an AutoReconnect
\* would hold.
NobodyStranded ==
    /\ \A r \in Reads :
          (reads[r] = "pending" /\ Available) ~> (reads[r] # "pending" \/ ~Available)
    /\ (destroyed /\ ~reconnects) ~> ~SenderAlive
=============================================================================
