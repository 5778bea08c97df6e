------------------------------ MODULE Sessions ------------------------------
(***************************************************************************)
(* The life of subscribe sessions on the server (grpc.rs): the permit of   *)
(* the SubscriptionTracker, and the tasks that share a stream: the ping    *)
(* task, the filter receiver, client_loop, and the task that sends a last  *)
(* error.  A send to the stream waits while its channel is full and no     *)
(* cancellation interrupts it.                                             *)
(***************************************************************************)
EXTENDS Integers, FiniteSets, Sequences, SequencesExt

CONSTANTS
    Sessions,       \* sessions of the run
    Keys,           \* subscriber ids
    Limit,          \* subscription_limit
    LimitEnforce,   \* limit_enforce
    Capacity,       \* capacity of the stream channel
    MaxRequests,    \* bound: requests a client sends before it half-closes
    MaxGossip       \* bound: gossip sessions of one subscriber

ASSUME SessionsAssumption ==
    /\ IsFiniteSet(Sessions)
    /\ {Limit, Capacity} \subseteq Nat \ {0}
    /\ LimitEnforce \in BOOLEAN
    /\ {MaxRequests, MaxGossip} \subseteq Nat

VARIABLES
    counters,   \* SubscriptionTracker.counters, 0 for a missing entry
    gossip,     \* permits a subscriber's gossip sessions hold
    key,        \* subscriber id of a session
    method,     \* the call that opens a session: "subscribe" or "subscribe_deshred"
    loop,       \* client_loop
    ping,       \* ping task
    incoming,   \* filter receiver
    last,       \* the spawned task that sends the last error
    cancelled,  \* the session's cancellation token
    shutdown,   \* the service's token, parent of the others
    snapshot_rx,    \* TRUE until the first client that asks for the snapshot takes it
    startup,    \* snapshot_channel: the plugin still has its sender
    stream,     \* the stream channel: "msg" and "err" items
    client,     \* the peer: "none", "there", "gone" (the receiver is dropped)
    client_rx,  \* channel from the filter receiver: "filter" and "close"
    requests,   \* requests the client has sent
    reason      \* disconnect_reason

taskVars == <<loop, ping, incoming, last>>
permitVars == <<counters, gossip>>
callVars == <<key, method>>
vars == <<permitVars, callVars, taskVars, cancelled, shutdown, snapshot_rx, startup, stream, client,
          client_rx, requests, reason>>

Init ==
    /\ counters = [k \in Keys |-> 0]
    /\ gossip = [k \in Keys |-> 0]
    /\ key \in [Sessions -> Keys]
    /\ method \in [Sessions -> {"subscribe", "subscribe_deshred"}]
    /\ loop = [i \in Sessions |-> "none"]
    /\ ping = [i \in Sessions |-> "none"]
    /\ incoming = [i \in Sessions |-> "none"]
    /\ last = [i \in Sessions |-> "none"]
    /\ cancelled = [i \in Sessions |-> FALSE]
    /\ shutdown = FALSE
    /\ snapshot_rx \in BOOLEAN
    /\ startup = snapshot_rx
    /\ stream = [i \in Sessions |-> <<>>]
    /\ client = [i \in Sessions |-> "none"]
    /\ client_rx = [i \in Sessions |-> <<>>]
    /\ requests = [i \in Sessions |-> 0]
    /\ reason = [i \in Sessions |-> "unknown"]

Cancelled(i) == shutdown \/ cancelled[i]
Room(i) == client[i] = "there" /\ Len(stream[i]) < Capacity
Closed(i) == client[i] = "gone"
Enqueue(i, item) == stream' = [stream EXCEPT ![i] = Append(@, item)]
Alive(t) == t \notin {"none", "done"}

-----------------------------------------------------------------------------
(* SubscriptionTracker                                                     *)

\* Mutant: one subscription too many.
AdmitsOneMore(k) == LimitEnforce => counters[k] <= Limit

\* try_insert returns a permit
Admits(k) == LimitEnforce => counters[k] < Limit

\* Drop of SubscriptionOwnedPermit
ReleasePermit(k) ==
    counters' = [counters EXCEPT ![k] = IF @ > 0 THEN @ - 1 ELSE 0]

-----------------------------------------------------------------------------
(* subscribe                                                               *)

\* The permit is taken and the session's tasks are spawned.
SpawnTasks(i, first) ==
    /\ loop[i] = "none"
    /\ ~shutdown
    /\ Admits(key[i])
    /\ counters' = [counters EXCEPT ![key[i]] = @ + 1]
    /\ loop' = [loop EXCEPT ![i] = first]
    /\ ping' = [ping EXCEPT ![i] = "idle"]
    /\ incoming' = [incoming EXCEPT ![i] = "reading"]
    /\ client' = [client EXCEPT ![i] = "there"]
    /\ UNCHANGED <<gossip, callVars, last, cancelled, shutdown, startup, stream, client_rx, requests,
                   reason>>

\* The first client with x-request-snapshot takes the snapshot channel.
Subscribe(i, wantsSnapshot) ==
    /\ method[i] = "subscribe"
    /\ snapshot_rx' = (snapshot_rx /\ ~wantsSnapshot)
    /\ SpawnTasks(i, IF wantsSnapshot /\ snapshot_rx THEN "snapshot_filter" ELSE "live")

\* The same with a ring of its own, no snapshot and no replay.
SubscribeDeshred(i) ==
    /\ method[i] = "subscribe_deshred"
    /\ SpawnTasks(i, "live")
    /\ UNCHANGED snapshot_rx

\* Drop of DeshredClientSession, and of ClientSession: the tasks see the token.
CancelSession(i) == cancelled' = [cancelled EXCEPT ![i] = TRUE]

\* Drop of ClientSession: the permit is returned and the session's token cancelled.
EndSession(i, why) ==
    /\ loop' = [loop EXCEPT ![i] = "done"]
    /\ reason' = [reason EXCEPT ![i] = why]
    /\ CancelSession(i)
    /\ ReleasePermit(key[i])
    /\ UNCHANGED gossip

-----------------------------------------------------------------------------
(* The ping task                                                           *)

PingTick(i) ==
    /\ ping[i] = "idle"
    /\ ping' = [ping EXCEPT ![i] = "sending"]
    /\ UNCHANGED <<permitVars, callVars, loop, incoming, last, cancelled, shutdown, snapshot_rx,
                   startup, stream, client, client_rx, requests, reason>>

PingSent(i) ==
    /\ ping[i] = "sending"
    /\ Room(i)
    /\ Enqueue(i, "msg")
    /\ ping' = [ping EXCEPT ![i] = "idle"]
    /\ UNCHANGED <<permitVars, callVars, loop, incoming, last, cancelled, shutdown, snapshot_rx,
                   startup, client, client_rx, requests, reason>>

\* Mutant: a failed ping ends the task and nothing else.
PingDetectsDeadIgnored(i) ==
    /\ ping[i] = "sending"
    /\ Closed(i)
    /\ ping' = [ping EXCEPT ![i] = "done"]
    /\ UNCHANGED <<permitVars, callVars, loop, incoming, last, cancelled, shutdown, snapshot_rx,
                   startup, stream, client, client_rx, requests, reason>>

PingDetectsDead(i) ==
    /\ ping[i] = "sending"
    /\ Closed(i)
    /\ cancelled' = [cancelled EXCEPT ![i] = TRUE]
    /\ ping' = [ping EXCEPT ![i] = "done"]
    /\ UNCHANGED <<permitVars, callVars, loop, incoming, last, shutdown, snapshot_rx, startup,
                   stream, client, client_rx, requests, reason>>

PingCancelled(i) ==
    /\ ping[i] = "idle"
    /\ Cancelled(i)
    /\ ping' = [ping EXCEPT ![i] = "done"]
    /\ UNCHANGED <<permitVars, callVars, loop, incoming, last, cancelled, shutdown, snapshot_rx,
                   startup, stream, client, client_rx, requests, reason>>

-----------------------------------------------------------------------------
(* The filter receiver                                                     *)

ToLoop(i, item) == client_rx' = [client_rx EXCEPT ![i] = Append(@, item)]

UnchangedByIncoming ==
    UNCHANGED <<permitVars, callVars, loop, ping, last, cancelled, shutdown, snapshot_rx, startup,
                reason>>

\* The receiver takes a request, for which it answers with `answers' or has a filter.
\* A filter for a loop that is gone is answered with an error, too.
TakesRequest(i, answers) ==
    /\ incoming[i] = "reading"
    /\ client[i] = "there"
    /\ requests[i] < MaxRequests
    /\ requests' = [requests EXCEPT ![i] = @ + 1]
    /\ \/ /\ Alive(loop[i])
          /\ ToLoop(i, "filter")
          /\ UNCHANGED incoming
       \/ /\ \E answer \in answers : incoming' = [incoming EXCEPT ![i] = answer]
          /\ UNCHANGED client_rx
    /\ UNCHANGED <<stream, client>>
    /\ UnchangedByIncoming

\* Filter::new makes a filter, or the request asks for a pong, or is invalid.
IncomingRequest(i) == method[i] = "subscribe" /\ TakesRequest(i, {"pong", "error"})

\* DeshredFilter::new does.
IncomingDeshredRequest(i) ==
    method[i] = "subscribe_deshred" /\ TakesRequest(i, {"pong", "error"})

IncomingAnswered(i) ==
    /\ incoming[i] \in {"pong", "error"}
    /\ Room(i)
    /\ Enqueue(i, IF incoming[i] = "pong" THEN "msg" ELSE "err")
    /\ incoming' = [incoming EXCEPT ![i] = "reading"]
    /\ UNCHANGED <<client, client_rx, requests>>
    /\ UnchangedByIncoming

\* The answer cannot be sent: the loop is told; only a pong ends the receiver.
IncomingAnswerFails(i) ==
    /\ incoming[i] \in {"pong", "error"}
    /\ Closed(i)
    /\ ToLoop(i, "close")
    /\ incoming' = [incoming EXCEPT ![i] = IF @ = "pong" THEN "done" ELSE "reading"]
    /\ UNCHANGED <<stream, client, requests>>
    /\ UnchangedByIncoming

\* The client half-closes: the receiver only waits for the cancellation.
IncomingHalfClosed(i) ==
    /\ incoming[i] = "reading"
    /\ client[i] = "there"
    /\ incoming' = [incoming EXCEPT ![i] = "waiting"]
    /\ UNCHANGED <<stream, client, client_rx, requests>>
    /\ UnchangedByIncoming

\* The request stream fails (a reset): the loop is told to stop.
IncomingFails(i) ==
    /\ incoming[i] = "reading"
    /\ ToLoop(i, "close")
    /\ incoming' = [incoming EXCEPT ![i] = "done"]
    /\ UNCHANGED <<stream, client, requests>>
    /\ UnchangedByIncoming

\* Mutant: a half-closed receiver does not look at the cancellation.
IncomingCancelledReadingOnly(i) ==
    /\ incoming[i] = "reading"
    /\ Cancelled(i)
    /\ incoming' = [incoming EXCEPT ![i] = "done"]
    /\ UNCHANGED <<stream, client, client_rx, requests>>
    /\ UnchangedByIncoming

IncomingCancelled(i) ==
    /\ incoming[i] \in {"reading", "waiting"}
    /\ Cancelled(i)
    /\ incoming' = [incoming EXCEPT ![i] = "done"]
    /\ UNCHANGED <<stream, client, client_rx, requests>>
    /\ UnchangedByIncoming

-----------------------------------------------------------------------------
(* client_loop                                                             *)

UnchangedByLoop ==
    UNCHANGED <<callVars, ping, incoming, shutdown, snapshot_rx, startup, client, requests>>

\* client_loop_snapshot: the first filter starts the snapshot.
SnapshotFilter(i) ==
    /\ loop[i] = "snapshot_filter"
    /\ \/ /\ client_rx[i] # <<>> /\ Head(client_rx[i]) = "filter"
          /\ client_rx' = [client_rx EXCEPT ![i] = Tail(@)]
          /\ loop' = [loop EXCEPT ![i] = "snapshot"]
          /\ UNCHANGED <<permitVars, reason, cancelled>>
       \/ /\ IF client_rx[i] = <<>> THEN ~Alive(incoming[i])
                                    ELSE Head(client_rx[i]) = "close"
          /\ EndSession(i, "client_closed")
          /\ UNCHANGED client_rx
    /\ UNCHANGED <<last, stream>>
    /\ UnchangedByLoop

\* ... whose messages are sent one by one, those left in the channel after the end of
\* startup included, unless the filter drops them.
SnapshotTake(i) ==
    /\ loop[i] = "snapshot" /\ ~Cancelled(i)
    /\ \E l \in {"snapshot", "snapshot_send"} : loop' = [loop EXCEPT ![i] = l]
    /\ UNCHANGED <<permitVars, last, cancelled, stream, client_rx, reason>>
    /\ UnchangedByLoop

SnapshotSent(i) ==
    /\ loop[i] = "snapshot_send"
    /\ Room(i)
    /\ Enqueue(i, "msg")
    /\ loop' = [loop EXCEPT ![i] = "snapshot"]
    /\ UNCHANGED <<permitVars, last, cancelled, client_rx, reason>>
    /\ UnchangedByLoop

SnapshotClosed(i) ==
    /\ loop[i] = "snapshot_send"
    /\ Closed(i)
    /\ EndSession(i, "client_closed")
    /\ UNCHANGED <<last, stream, client_rx>>
    /\ UnchangedByLoop

SnapshotDone(i) ==
    /\ loop[i] = "snapshot" /\ ~startup /\ ~Cancelled(i)
    /\ loop' = [loop EXCEPT ![i] = "live"]
    /\ UNCHANGED <<permitVars, last, cancelled, stream, client_rx, reason>>
    /\ UnchangedByLoop

\* Mutant: the snapshot phase does not look at the token.
LoopCancelledLiveOnly(i) ==
    /\ loop[i] = "live"
    /\ Cancelled(i)
    /\ EndSession(i, "server_shutdown")
    /\ IF Room(i) THEN Enqueue(i, "err") ELSE UNCHANGED stream
    /\ UNCHANGED <<last, client_rx>>
    /\ UnchangedByLoop

\* The token is looked at between two sends only.
LoopCancelled(i) ==
    /\ loop[i] \in {"snapshot_filter", "snapshot", "live"}
    /\ Cancelled(i)
    /\ EndSession(i, "server_shutdown")
    /\ IF Room(i) THEN Enqueue(i, "err") ELSE UNCHANGED stream
    /\ UNCHANGED <<last, client_rx>>
    /\ UnchangedByLoop

\* Only subscribe has a from_slot.
ReplayOf(i) == IF method[i] = "subscribe" THEN {"replay"} ELSE {}

\* The channel is read to its end and only the latest request counts; if it has a
\* from_slot the stored slots are replayed.
LoopRequests(i) ==
    /\ loop[i] = "live"
    /\ client_rx[i] # <<>> \/ ~Alive(incoming[i])
    /\ client_rx' = [client_rx EXCEPT ![i] = <<>>]
    /\ IF Alive(incoming[i]) /\ Last(client_rx[i]) = "filter"
       THEN /\ \E l \in {"live"} \cup ReplayOf(i) : loop' = [loop EXCEPT ![i] = l]
            /\ UNCHANGED <<permitVars, reason, cancelled>>
       ELSE EndSession(i, "client_disconnect")
    /\ UNCHANGED <<last, stream>>
    /\ UnchangedByLoop

\* One message stands for the replay, which waits for room like the snapshot.
ReplaySent(i) ==
    /\ loop[i] = "replay"
    /\ Room(i)
    /\ Enqueue(i, "msg")
    /\ loop' = [loop EXCEPT ![i] = "live"]
    /\ UNCHANGED <<permitVars, last, cancelled, client_rx, reason>>
    /\ UnchangedByLoop

ReplayClosed(i) ==
    /\ loop[i] = "replay"
    /\ Closed(i)
    /\ EndSession(i, "client_closed")
    /\ UNCHANGED <<last, stream, client_rx>>
    /\ UnchangedByLoop

\* An update passes the filter and fits.
LoopUpdate(i) ==
    /\ loop[i] = "live"
    /\ Room(i)
    /\ Enqueue(i, "msg")
    /\ UNCHANGED <<permitVars, loop, last, cancelled, client_rx, reason>>
    /\ UnchangedByLoop

LoopClosed(i) ==
    /\ loop[i] = "live"
    /\ Closed(i)
    /\ EndSession(i, "client_closed")
    /\ UNCHANGED <<last, stream, client_rx>>
    /\ UnchangedByLoop

\* Mutant: the error is tried once and dropped when the channel is full.
LoopLaggedTriesOnce(i) ==
    /\ loop[i] = "live" /\ ~Closed(i)
    /\ EndSession(i, "lagged")
    /\ IF Room(i) THEN Enqueue(i, "err") ELSE UNCHANGED stream
    /\ last' = [last EXCEPT ![i] = "done"]
    /\ UNCHANGED client_rx
    /\ UnchangedByLoop

\* The ring overran the receiver, the channel is full, or the replay was refused: a
\* task of its own sends the error.
LoopLagged(i) ==
    /\ loop[i] \in {"live", "replay"} /\ ~Closed(i)
    /\ EndSession(i, "lagged")
    /\ last' = [last EXCEPT ![i] = "sending"]
    /\ UNCHANGED <<stream, client_rx>>
    /\ UnchangedByLoop

LastSent(i) ==
    /\ last[i] = "sending"
    /\ Room(i) \/ Closed(i)
    /\ IF Room(i) THEN Enqueue(i, "err") ELSE UNCHANGED stream
    /\ last' = [last EXCEPT ![i] = "done"]
    /\ UNCHANGED <<permitVars, callVars, loop, ping, incoming, cancelled, shutdown, snapshot_rx,
                   startup, client, client_rx, requests, reason>>

-----------------------------------------------------------------------------
(* The peer, the validator and the service                                 *)

\* tonic takes an item; an error, or the last sender going away, ends the response.
ClientReads(i) ==
    /\ client[i] = "there"
    /\ \/ /\ stream[i] # <<>>
          /\ stream' = [stream EXCEPT ![i] = Tail(@)]
          /\ client' = IF Head(stream[i]) = "err" THEN [client EXCEPT ![i] = "gone"] ELSE client
       \/ /\ stream[i] = <<>>
          /\ \A t \in {loop[i], ping[i], incoming[i], last[i]} : ~Alive(t)
          /\ client' = [client EXCEPT ![i] = "gone"]
          /\ UNCHANGED stream
    /\ UNCHANGED <<permitVars, callVars, taskVars, cancelled, shutdown, snapshot_rx, startup,
                   client_rx, requests, reason>>

ClientLeaves(i) ==
    /\ client[i] = "there"
    /\ client' = [client EXCEPT ![i] = "gone"]
    /\ UNCHANGED <<permitVars, callVars, taskVars, cancelled, shutdown, snapshot_rx, startup, stream,
                   client_rx, requests, reason>>

StartupEnds ==
    /\ startup
    /\ startup' = FALSE
    /\ UNCHANGED <<permitVars, callVars, taskVars, cancelled, shutdown, snapshot_rx, stream, client,
                   client_rx, requests, reason>>

Shutdown ==
    /\ ~shutdown
    /\ shutdown' = TRUE
    /\ UNCHANGED <<permitVars, callVars, taskVars, cancelled, snapshot_rx, startup, stream, client,
                   client_rx, requests, reason>>

\* subscribe_gossip takes its permit from the same counters (the session itself is in
\* module Gossip).
SubscribeGossip(k) ==
    /\ ~shutdown
    /\ Admits(k)
    /\ gossip[k] < MaxGossip
    /\ counters' = [counters EXCEPT ![k] = @ + 1]
    /\ gossip' = [gossip EXCEPT ![k] = @ + 1]
    /\ UNCHANGED <<callVars, taskVars, cancelled, shutdown, snapshot_rx, startup, stream, client,
                   client_rx, requests, reason>>

GossipEnds(k) ==
    /\ gossip[k] > 0
    /\ ReleasePermit(k)
    /\ gossip' = [gossip EXCEPT ![k] = @ - 1]
    /\ UNCHANGED <<callVars, taskVars, cancelled, shutdown, snapshot_rx, startup, stream, client,
                   client_rx, requests, reason>>

PingTask(i) == PingTick(i) \/ PingSent(i) \/ PingDetectsDead(i)
Incoming(i) ==
    \/ IncomingRequest(i) \/ IncomingDeshredRequest(i) \/ IncomingAnswered(i) \/ IncomingAnswerFails(i)
    \/ IncomingHalfClosed(i) \/ IncomingFails(i)
Loop(i) ==
    \/ SnapshotFilter(i) \/ SnapshotTake(i) \/ SnapshotSent(i) \/ SnapshotClosed(i)
    \/ SnapshotDone(i) \/ ReplaySent(i) \/ ReplayClosed(i)
    \/ LoopRequests(i) \/ LoopUpdate(i) \/ LoopClosed(i) \/ LoopLagged(i)

Next ==
    \/ StartupEnds \/ Shutdown
    \/ \E k \in Keys : SubscribeGossip(k) \/ GossipEnds(k)
    \/ \E i \in Sessions :
          \/ \E wantsSnapshot \in BOOLEAN : Subscribe(i, wantsSnapshot)
          \/ SubscribeDeshred(i)
          \/ PingTask(i) \/ PingCancelled(i)
          \/ Incoming(i) \/ IncomingCancelled(i)
          \/ Loop(i) \/ LoopCancelled(i) \/ LastSent(i)
          \/ ClientReads(i) \/ ClientLeaves(i)

Spec == Init /\ [][Next]_vars

-----------------------------------------------------------------------------
(* Properties                                                              *)

Holders(k) == {i \in Sessions : key[i] = k /\ Alive(loop[i])}

\* The tracker counts exactly the sessions whose loop runs, on every way a session
\* can end, and never lets a subscriber have more than its limit.
PermitsExact ==
    \A k \in Keys : /\ counters[k] = Cardinality(Holders(k)) + gossip[k]
                    /\ LimitEnforce => counters[k] <= Limit

\* A client dropped for lagging finds the error in its stream: it is never left with
\* a stream that just ends.
LagIsReported ==
    \A i \in Sessions :
        reason[i] = "lagged" /\ last[i] = "done" /\ client[i] = "there" =>
            Contains(stream[i], "err")

Ended(i) == \A t \in {loop[i], ping[i], incoming[i], last[i]} : ~Alive(t)
=============================================================================
