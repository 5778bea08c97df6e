------------------------------- MODULE Gossip -------------------------------
(***************************************************************************)
(* The gossip contact info feed (contact_info.rs): one writer task applies *)
(* notifications to a table and broadcasts them on a bounded ring; each    *)
(* subscriber gets a snapshot of the table and then the updates after it,  *)
(* and starts over from a new snapshot when the ring has overrun it.       *)
(***************************************************************************)
EXTENDS Naturals, Sequences, FiniteSets, Options

CONSTANTS
    Clients,                \* subscribers
    Pubkeys,                \* gossip nodes
    Infos,                  \* contents of a contact info
    StartupCount,           \* notifications with is_startup, which come first
    MaxEvents,              \* bound: notifications of a behaviour
    RingCapacity,           \* capacity of the broadcast channel
    ChannelCapacity,        \* capacity of a subscriber's stream channel
    MaxResnapshotAttempts   \* MAX_RESNAPSHOT_ATTEMPTS

ASSUME GossipAssumption ==
    /\ {StartupCount, MaxEvents, MaxResnapshotAttempts} \subseteq Nat
    /\ {RingCapacity, ChannelCapacity} \subseteq Nat \ {0}
    \* an address has a port, a u16
    /\ \A i \in Infos : IsSome(i.rpc) => i.rpc = Some(Get(i.rpc)) /\ Get(i.rpc) \in 0 .. 2^16 - 1

VARIABLES
    nodes,      \* ContactInfoTable.nodes: pubkey -> MessageContactInfo
    log,        \* log[i]: the event broadcast with seq i; the ring holds the last RingCapacity
    complete,   \* complete_tx: the startup replay is done
    held,       \* the notification the writer has taken and not applied yet, or <<>>
    pc,         \* control of each contact_info_client_loop
    next,       \* position of the subscriber's receiver: seq of the event it reads next
    snapshot,   \* the snapshot being handed over: its revision and its topology
    attempts,   \* resnapshot_attempts
    chan,       \* the stream channel: snapshots and updates not yet read by the client
    cancelled,  \* the session's cancellation token
    pinging,    \* the session's ping task is running
    closed,     \* the client has gone: the stream's receiver is dropped
    clientRev,  \* the client: revision of the last message it has read
    clientView, \* the client: the table it has built, if it has had a snapshot
    published   \* history: published[r] is the table at revision r

tableVars == <<nodes, log, complete, held, published>>
loopVars == <<pc, next, snapshot, attempts>>
clientVars == <<closed, clientRev, clientView>>
sessionVars == <<cancelled, pinging>>
vars == <<tableVars, loopVars, chan, sessionVars, clientVars>>

-----------------------------------------------------------------------------
(* Messages of the plugin and of the wire                                  *)

\* Of the numbers and of the optional socket addresses of a contact info one is kept.
MessageContactInfo(pubkey, info) ==
    [pubkey |-> pubkey, shred_version |-> info.shred_version, rpc |-> info.rpc]
MessageContactInfoRemoved(pubkey) == [pubkey |-> pubkey]

\* The plugin's callbacks.
notify_contact_info(pubkey, info, is_startup) ==
    [kind |-> "node", message |-> MessageContactInfo(pubkey, info), is_startup |-> is_startup]
notify_contact_info_removed(pubkey) ==
    [kind |-> "removed", message |-> MessageContactInfoRemoved(pubkey), is_startup |-> FALSE]

\* What the validator may tell next: the startup replay, which has no removals, comes
\* first.
NotificationsAt(rev) ==
    {notify_contact_info(p, info, rev < StartupCount) : p \in Pubkeys, info \in Infos}
    \cup {n \in {notify_contact_info_removed(p) : p \in Pubkeys} : rev >= StartupCount}

EmptyTable == [p \in {} |-> 0]
Tables == UNION {[S -> [pubkey : Pubkeys, shred_version : {i.shred_version : i \in Infos},
                        rpc : {i.rpc : i \in Infos}]] : S \in SUBSET Pubkeys}

\* A Node message inserts, a Removed message removes.
ApplyTo(table, n) ==
    LET pubkey == n.message.pubkey
    IN  IF n.kind = "node"
        THEN [p \in DOMAIN table \cup {pubkey} |-> IF p = pubkey THEN n.message ELSE table[p]]
        ELSE [p \in DOMAIN table \ {pubkey} |-> table[p]]

\* The key's bytes, the number widened to u32, the address as text.
create_contact_info_node(node) ==
    [pubkey |-> Octets(KeyBytes, node.pubkey), shred_version |-> node.shred_version,
     rpc |-> Map(node.rpc, ToText)]

create_gossip_snapshot(seq, topology) ==
    [oneof |-> "snapshot", seq |-> seq,
     nodes |-> {create_contact_info_node(topology[p]) : p \in DOMAIN topology}]

create_gossip_update(seq, n) ==
    IF n.kind = "node"
    THEN [oneof |-> "node", seq |-> seq, node |-> create_contact_info_node(n.message)]
    ELSE [oneof |-> "removed", seq |-> seq, pubkey |-> Octets(KeyBytes, n.message.pubkey)]

create_gossip_ping == [oneof |-> "ping", seq |-> 0]

\* Err(status), with which the server gives a session up; it tells nothing about the table, and
\* neither does a ping.
GossipError == [oneof |-> "error", seq |-> 0]
TellsNothing(m) == m.oneof \in {"ping", "error"}

\* table.version: bumped once per broadcast
version == Len(log)

LoopStates == {"waiting", "subscribe", "lock", "send_snapshot", "stream", "send_update", "send_error", "done"}

Init ==
    /\ nodes = EmptyTable
    /\ log = <<>>
    /\ complete = FALSE
    /\ held = <<>>
    /\ published = <<>>
    /\ pc = [c \in Clients |-> "waiting"]
    /\ next = [c \in Clients |-> 1]
    /\ snapshot = [c \in Clients |-> [rev |-> 0, topology |-> EmptyTable]]
    /\ attempts = [c \in Clients |-> 0]
    /\ chan = [c \in Clients |-> <<>>]
    /\ cancelled = [c \in Clients |-> FALSE]
    /\ pinging = [c \in Clients |-> TRUE]
    /\ closed = [c \in Clients |-> FALSE]
    /\ clientRev = [c \in Clients |-> 0]
    /\ clientView = [c \in Clients |-> None]

-----------------------------------------------------------------------------
(* contact_info_loop, the single writer                                    *)

\* The first notification that is not of the startup replay completes the table,
\* before it is applied.
TakeNotification ==
    /\ held = <<>>
    /\ version < MaxEvents
    /\ \E n \in NotificationsAt(version) :
          /\ held' = <<n>>
          /\ complete' = (complete \/ ~n.is_startup)
    /\ UNCHANGED <<nodes, log, published, loopVars, chan, sessionVars, clientVars>>

\* Mutant: the broadcast leaves the critical section, so that a snapshot taken right
\* after it finds the table one notification behind the version.
ApplyAfterBroadcast ==
    /\ held # <<>>
    /\ nodes' = IF published = <<>> THEN nodes ELSE published[Len(published)]
    /\ log' = Append(log, held[1])
    /\ published' = Append(published, ApplyTo(IF published = <<>> THEN nodes
                                              ELSE published[Len(published)], held[1]))
    /\ held' = <<>>
    /\ UNCHANGED <<complete, loopVars, chan, sessionVars, clientVars>>

\* One critical section: version, table and broadcast change together.
ApplyAndBroadcast ==
    /\ held # <<>>
    /\ nodes' = ApplyTo(nodes, held[1])
    /\ log' = Append(log, held[1])
    /\ published' = Append(published, ApplyTo(nodes, held[1]))
    /\ held' = <<>>
    /\ UNCHANGED <<complete, loopVars, chan, sessionVars, clientVars>>

-----------------------------------------------------------------------------
(* contact_info_client_loop                                                *)

Goto(c, label) == pc' = [pc EXCEPT ![c] = label]

RoomFor(c) == Len(chan[c]) < ChannelCapacity

Push(c, m) == chan' = [chan EXCEPT ![c] = Append(@, m)]

\* Dropping the session cancels its token (and releases its permit).
EndSession(c) ==
    /\ Goto(c, "done")
    /\ cancelled' = [cancelled EXCEPT ![c] = TRUE]
    /\ UNCHANGED pinging

WaitUntilComplete(c) ==
    /\ pc[c] = "waiting"
    /\ complete
    /\ Goto(c, "subscribe")
    /\ UNCHANGED <<tableVars, next, snapshot, attempts, chan, sessionVars, clientVars>>

\* A session that is given up first sends the client an error, and waits for room for it.
SeeCancelled(c) ==
    /\ pc[c] \in {"waiting", "stream"}
    /\ cancelled[c]
    /\ Goto(c, "send_error")
    /\ UNCHANGED <<tableVars, next, snapshot, attempts, chan, sessionVars, clientVars>>

\* The result of the send is ignored.
SendError(c) ==
    /\ pc[c] = "send_error"
    /\ IF closed[c]
       THEN UNCHANGED chan
       ELSE RoomFor(c) /\ Push(c, GossipError)
    /\ EndSession(c)
    /\ UNCHANGED <<tableVars, next, snapshot, attempts, clientVars>>

\* subscribe_and_snapshot: the ring is subscribed to first, then the table is locked.
Subscribe(c) ==
    /\ pc[c] = "subscribe"
    /\ next' = [next EXCEPT ![c] = version + 1]
    /\ Goto(c, "lock")
    /\ UNCHANGED <<tableVars, snapshot, attempts, chan, sessionVars, clientVars>>

TakeSnapshot(c) ==
    /\ pc[c] = "lock"
    /\ snapshot' = [snapshot EXCEPT ![c] = [rev |-> version, topology |-> nodes]]
    /\ Goto(c, "send_snapshot")
    /\ UNCHANGED <<tableVars, next, attempts, chan, sessionVars, clientVars>>

SendSnapshot(c) ==
    /\ pc[c] = "send_snapshot"
    /\ IF closed[c]
       THEN EndSession(c) /\ UNCHANGED chan
       ELSE /\ RoomFor(c)
            /\ Push(c, create_gossip_snapshot(snapshot[c].rev, snapshot[c].topology))
            /\ Goto(c, "stream")
            /\ UNCHANGED sessionVars
    /\ UNCHANGED <<tableVars, next, snapshot, attempts, clientVars>>

\* The ring has overwritten an event this receiver has not read.
Overrun(c) == version >= next[c] + RingCapacity

RecvLagged(c) ==
    /\ pc[c] = "stream"
    /\ Overrun(c)
    /\ attempts' = [attempts EXCEPT ![c] = @ + 1]
    /\ IF attempts[c] + 1 > MaxResnapshotAttempts
       THEN Goto(c, "send_error")
       ELSE Goto(c, "subscribe")
    /\ UNCHANGED <<tableVars, next, snapshot, chan, sessionVars, clientVars>>

\* Mutant: skips the first event after the snapshot as well.
AlreadyInSnapshotOffByOne(c) == next[c] <= snapshot[c].rev + 1

\* event.seq <= snapshot_seq
AlreadyInSnapshot(c) == next[c] <= snapshot[c].rev

RecvEvent(c) ==
    /\ pc[c] = "stream"
    /\ next[c] <= version
    /\ ~Overrun(c)
    /\ IF AlreadyInSnapshot(c)
       THEN /\ next' = [next EXCEPT ![c] = @ + 1]
            /\ UNCHANGED pc
       ELSE /\ Goto(c, "send_update")
            /\ UNCHANGED next
    /\ UNCHANGED <<tableVars, snapshot, attempts, chan, sessionVars, clientVars>>

\* The event was taken off the ring when it was received: it is sent even if the
\* ring overruns the receiver meanwhile.
SendUpdate(c) ==
    /\ pc[c] = "send_update"
    /\ next' = [next EXCEPT ![c] = @ + 1]
    /\ IF closed[c]
       THEN EndSession(c) /\ UNCHANGED <<chan, attempts>>
       ELSE /\ RoomFor(c)
            /\ Push(c, create_gossip_update(next[c], log[next[c]]))
            /\ attempts' = [attempts EXCEPT ![c] = 0]
            /\ Goto(c, "stream")
            /\ UNCHANGED sessionVars
    /\ UNCHANGED <<tableVars, snapshot, clientVars>>

-----------------------------------------------------------------------------
(* The ping task of spawn_subscriber                                       *)

\* A ping waits for room like everything else.
SendPing(c) ==
    /\ pinging[c]
    /\ ~closed[c]
    /\ RoomFor(c)
    /\ Push(c, create_gossip_ping)
    /\ UNCHANGED <<tableVars, loopVars, sessionVars, clientVars>>

\* Mutant: a ping that fails does not end the session.
PingDeadClientIgnored(c) ==
    /\ pinging[c]
    /\ closed[c]
    /\ pinging' = [pinging EXCEPT ![c] = FALSE]
    /\ UNCHANGED <<tableVars, loopVars, chan, cancelled, clientVars>>

PingDeadClient(c) ==
    /\ pinging[c]
    /\ closed[c]
    /\ cancelled' = [cancelled EXCEPT ![c] = TRUE]
    /\ pinging' = [pinging EXCEPT ![c] = FALSE]
    /\ UNCHANGED <<tableVars, loopVars, chan, clientVars>>

PingCancelled(c) ==
    /\ pinging[c]
    /\ cancelled[c]
    /\ pinging' = [pinging EXCEPT ![c] = FALSE]
    /\ UNCHANGED <<tableVars, loopVars, chan, cancelled, clientVars>>

-----------------------------------------------------------------------------
(* The client and the server's shutdown                                    *)

\* The client's reading of a node
NodeOf(node) ==
    [pubkey |-> Get(FromOctets(KeyBytes, node.pubkey)), shred_version |-> node.shred_version,
     rpc |-> AndThen(node.rpc, LAMBDA text : ParseBelow(2^16, text))]

\* The table the client has after an update
Seen(view, m) ==
    CASE m.oneof = "snapshot" ->
            LET topology == {NodeOf(node) : node \in m.nodes}
            IN  [p \in {node.pubkey : node \in topology} |->
                    CHOOSE node \in topology : node.pubkey = p]
      [] m.oneof = "node" -> ApplyTo(view, [kind |-> "node", message |-> NodeOf(m.node)])
      [] m.oneof = "removed" ->
            ApplyTo(view, [kind |-> "removed",
                           message |-> [pubkey |-> Get(FromOctets(KeyBytes, m.pubkey))]])

ClientRead(c) ==
    /\ ~closed[c]
    /\ chan[c] # <<>>
    /\ LET m == Head(chan[c])
       IN  /\ clientRev' = [clientRev EXCEPT ![c] = IF TellsNothing(m) THEN @ ELSE m.seq]
           /\ clientView' = [clientView EXCEPT ![c] =
                                IF TellsNothing(m) THEN @ ELSE Some(Seen(UnwrapOr(@, EmptyTable), m))]
    /\ chan' = [chan EXCEPT ![c] = Tail(@)]
    /\ UNCHANGED <<tableVars, loopVars, sessionVars, closed>>

ClientClose(c) ==
    /\ ~closed[c]
    /\ closed' = [closed EXCEPT ![c] = TRUE]
    /\ UNCHANGED <<tableVars, loopVars, chan, sessionVars, clientRev, clientView>>

ServerShutdown ==
    /\ \E c \in Clients : ~cancelled[c]
    /\ cancelled' = [c \in Clients |-> TRUE]
    /\ UNCHANGED <<tableVars, loopVars, chan, pinging, clientVars>>

-----------------------------------------------------------------------------

Writer == TakeNotification \/ ApplyAndBroadcast

Loop(c) ==
    \/ WaitUntilComplete(c) \/ SeeCancelled(c) \/ SendError(c)
    \/ Subscribe(c) \/ TakeSnapshot(c) \/ SendSnapshot(c)
    \/ RecvLagged(c) \/ RecvEvent(c) \/ SendUpdate(c)

Ping(c) == PingDeadClient(c) \/ PingCancelled(c)

Next ==
    \/ Writer
    \/ \E c \in Clients : Loop(c) \/ Ping(c) \/ SendPing(c) \/ ClientRead(c) \/ ClientClose(c)
    \/ ServerShutdown

Spec == Init /\ [][Next]_vars

\* The runtime runs every task that is ready, the ping timer keeps firing, and a
\* client that is still there keeps reading.  A send that waits for room is in line with
\* the pings (strong fairness).  Notifications may stop at any time.
Fairness ==
    /\ WF_vars(ApplyAndBroadcast)
    /\ \A c \in Clients : WF_vars(Loop(c)) /\ WF_vars(Ping(c)) /\ WF_vars(ClientRead(c))
                         /\ SF_vars(SendSnapshot(c)) /\ SF_vars(SendUpdate(c))
                         /\ SF_vars(SendError(c))

FairSpec == Spec /\ Fairness

-----------------------------------------------------------------------------
(* Properties                                                              *)

\* A subscriber's view is at every moment the table of one revision, taken after
\* the startup replay, and only moves forward: the snapshot, the skipped events,
\* the updates and the re-snapshots of contact_info_client_loop fit together.
Topology == INSTANCE TopologyView WITH rev <- clientRev, view <- clientView
ImplementsTopologyView == Topology!Spec

\* A session whose client has gone comes to its end, so its permit is released,
\* although the loop itself may wait on the ring, or on the channel with a last error: the
\* ping task notices, and a send to a dropped receiver fails.
DeadClientReleased ==
    \A c \in Clients : closed[c] ~> pc[c] = "done"

\* Once the notifications stop, a client that stays and is not given up on holds
\* the latest table: no event is left behind in the ring.
EventuallySynchronised ==
    \A c \in Clients :
        <>[](\/ ~complete \/ closed[c] \/ cancelled[c] \/ pc[c] = "done"
             \/ clientRev[c] = version /\ clientView[c] = Some(nodes))
=============================================================================
