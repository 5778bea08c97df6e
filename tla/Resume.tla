------------------------------- MODULE Resume -------------------------------
(***************************************************************************)
(* The Rust client that recovers missed data: AutoReconnect (reconnect.rs) *)
(* keeps a checkpoint and reopens the stream from it, and DedupStream      *)
(* (dedup.rs), wrapped around it, hides what the replay repeats.           *)
(*                                                                         *)
(* SubscribeRequestSink (lib.rs) sends new requests into the open stream   *)
(* and shares the latest one with AutoReconnect.                           *)
(*                                                                         *)
(* The server is the one Delivery shows: a block is published whole, the   *)
(* stored blocks from from_slot on are replayed, and what was broadcast    *)
(* while the request waited follows the replay.  A reconnection may reach  *)
(* another node, whose blocks may differ.                                  *)
(***************************************************************************)
EXTENDS Integers, FiniteSets, Sequences, SequencesExt

CONSTANTS
    Slots,          \* slots of the run, a range of naturals
    StoredBefore,   \* slots the server already stored when the client subscribed
    Data,           \* payloads of every block that match the user's filters
    Nodes,          \* nodes behind the endpoint, one blockhash per node and slot
    UserKinds,      \* which of "created", "status" the user's filters match
    Policies,       \* reconnection policies: "none", "skip", "recover"
    UserMeta,       \* blocks_meta of the user's requests: "own" or "absent"
    CheckpointSlotBuffer,   \* CHECKPOINT_SLOT_BUFFER
    SlotRetention,  \* slot_retention
    MaxRetries,     \* backoff.max_retries
    Codes,          \* gRPC status codes the network or the server fails with
    MaxDisorder,    \* how far behind a newer block a slot may be published
    SlowReplay,     \* a bank may be created and published while a request waits
    Window,         \* slots the server keeps for replay
    MaxReconnects,  \* bound: reconnections after which the network stays up
    MaxSends        \* bound: requests the user sends after the first

ASSUME ResumeAssumption ==
    /\ Slots \subseteq Nat /\ IsFiniteSet(Slots) /\ StoredBefore \subseteq Slots
    /\ IsFiniteSet(Data) /\ Nodes # {}
    /\ UserKinds \subseteq {"created", "status"}
    /\ Policies \subseteq {"none", "skip", "recover"}
    /\ UserMeta \subseteq {"own", "absent"}
    /\ {CheckpointSlotBuffer, MaxRetries, MaxDisorder, MaxReconnects, MaxSends} \subseteq Nat
    /\ SlotRetention \in Nat \ {0} /\ Window \in Nat \ {0}
    /\ SlowReplay \in BOOLEAN

VARIABLES
    banks,      \* server: slots whose bank was created
    stored,     \* server: published slots kept for replay
    done,       \* server: slots ever published
    node,       \* node the current connection reaches
    conn,       \* state of the stream: "up", "handshake", "connecting", "stopped"
    wire,       \* messages on the way to the client
    live,       \* broadcasts that wait behind the replay
    from,       \* from_slot of the reconnection, or NoSlot
    attempts,   \* BackoffInstance.attempts
    last_checkpoint,
    reconnect_count,
    last_reconnect_count,   \* DedupStream's copy
    dedup,      \* DedupState and the quarantine of ReplayBuffer
    out,        \* messages the user has received
    twice,      \* messages the user has received more than once
    gap,        \* history: the stream went on without a replay it needed
    policy,     \* ReconnectConfig.policy
    shared,     \* the sink's latest request, shared with AutoReconnect
    base,       \* the request the connection attempts use
    pending,    \* requests in the sink's channel, not read by the server yet
    inforce,    \* server: the request whose filters apply
    missed,     \* history: the sink took a request while no stream was open
    unsealed    \* history: a request without the user's own blocks_meta was in force

serverVars == <<banks, stored, done>>
connectionVars == <<node, conn, wire, live, from, attempts>>
clientVars == <<last_checkpoint, reconnect_count, last_reconnect_count, dedup, out, twice>>
requestVars == <<policy, shared, base, pending, inforce, missed, unsealed>>
resumeVars == <<serverVars, connectionVars, clientVars, gap, requestVars>>

NoSlot == -1
Oldest(S) == CHOOSE s \in S : \A t \in S : s <= t

\* A set of numbers in ascending order, and the elements of a sequence at some places of it
InOrder(S) == [k \in 1..Cardinality(S) |-> CHOOSE n \in S : Cardinality({m \in S : m < n}) = k - 1]
Pick(seq, places) == LET order == InOrder(places) IN [k \in DOMAIN order |-> seq[order[k]]]

Msg(kind, s, arg, n) == [kind |-> kind, slot |-> s, arg |-> arg, node |-> n]
CreatedBank(s) == Msg("created", s, 0, 0)
\* A block as the server sends it, as far as the request's filters match: a block
\* meta that only the injected filter matches is "internal".
BlockOf(s, n, request) ==
    SetToSeq({Msg("data", s, d, n) : d \in Data})
      \o (CASE request.blocks_meta = "own"      -> <<Msg("meta", s, 0, n)>>
            [] request.blocks_meta = "injected" -> <<Msg("internal", s, 0, n)>>
            [] OTHER                            -> <<>>)
      \o (IF "status" \in UserKinds THEN <<Msg("status", s, 0, 0)>> ELSE <<>>)
BlockLen(request) ==
    Cardinality(Data) + (IF request.blocks_meta \in {"own", "injected"} THEN 1 ELSE 0)
                      + (IF "status" \in UserKinds THEN 1 ELSE 0)
Error(code) == Msg(code, 0, 0, 0)

NewDedup == [inflight |-> [s \in {} |-> s], sealed |-> [s \in {} |-> s],
             slot_order |-> <<>>, quarantine |-> [s \in Slots |-> <<>>]]

\* A subscribe request: which one of the user's it is, and its blocks_meta filters.
Request(v, meta) == [v |-> v, blocks_meta |-> meta]
\* inject_autoreconnect_filter
Inject(request) ==
    IF request.blocks_meta = "absent" THEN [request EXCEPT !.blocks_meta = "injected"] ELSE request

ResumeInit ==
    /\ policy \in Policies
    /\ \E meta \in UserMeta :
          inforce = IF policy = "recover" THEN Inject(Request(0, meta)) ELSE Request(0, meta)
    /\ shared = inforce
    /\ base = inforce
    /\ pending = <<>>
    /\ missed = FALSE
    /\ unsealed = (inforce.blocks_meta # "own")
    /\ banks = StoredBefore
    /\ stored = StoredBefore
    /\ done = StoredBefore
    /\ node \in Nodes
    /\ conn = "up"
    /\ wire = <<>>
    /\ live = <<>>
    /\ from = NoSlot
    /\ attempts = 0
    /\ last_checkpoint = NoSlot
    /\ reconnect_count = 0
    /\ last_reconnect_count = 0
    /\ dedup = NewDedup
    /\ out = {}
    /\ twice = {}
    /\ gap = FALSE

-----------------------------------------------------------------------------
(* The server's side of the stream                                         *)

Send(msgs) ==
    /\ wire' = IF conn = "up" THEN wire \o msgs ELSE wire
    /\ live' = IF conn = "handshake" THEN live \o msgs ELSE live

CreateBank(s) ==
    /\ s \notin banks
    /\ \A t \in Slots : t < s => t \in banks
    /\ banks' = banks \cup {s}
    /\ Send(IF "created" \in UserKinds THEN <<CreatedBank(s)>> ELSE <<>>)
    /\ UNCHANGED <<stored, done, node, conn, from, attempts, clientVars, gap, requestVars>>

PublishBlock(s) ==
    /\ s \in banks \ done
    /\ \A t \in Slots : t < s - MaxDisorder => t \in done
    /\ SlowReplay \/ ~Contains(live, CreatedBank(s))
    /\ stored' = stored \cup {s}
    /\ done' = done \cup {s}
    /\ Send(BlockOf(s, node, inforce))
    /\ UNCHANGED <<banks, node, conn, from, attempts, clientVars, gap, requestVars>>

PruneOldest ==
    /\ conn # "stopped"
    /\ Cardinality(stored) > Window
    /\ stored' = stored \ {Oldest(stored)}
    /\ UNCHANGED <<banks, done, connectionVars, clientVars, gap, requestVars>>

\* The stored blocks from the requested slot on, in the order of their slots.
Replay ==
    LET slots == InOrder({s \in stored : s >= from})
        len == BlockLen(inforce)
    IN  [b \in 1..(Len(slots) * len) |->
            BlockOf(slots[1 + ((b - 1) \div len)], node, inforce)[1 + ((b - 1) % len)]]

\* The replay request is answered: refused below the oldest stored slot, not
\* answered at all (an internal error) when there is nothing to replay.
ServeReplay ==
    /\ conn = "handshake"
    /\ conn' = "up"
    /\ \E replay \in {Replay} :
          wire' = IF stored # {} /\ from < Oldest(stored) THEN <<Error("OutOfRange")>>
                  ELSE IF replay = <<>> THEN <<Error("Internal")>>
                  ELSE replay \o live
    /\ live' = <<>>
    /\ UNCHANGED <<serverVars, node, from, attempts, clientVars, gap, requestVars>>

\* client_loop takes the latest request; the from_slot of one it skips, and what was
\* broadcast before, is gone.
ReadRequest ==
    /\ conn \in {"up", "handshake"}
    /\ pending # <<>>
    /\ inforce' = Last(pending)
    /\ pending' = <<>>
    /\ unsealed' = (unsealed \/ inforce'.blocks_meta # "own")
    /\ conn' = "up"
    /\ gap' = (gap \/ conn = "handshake")
    /\ live' = <<>>
    /\ UNCHANGED <<serverVars, node, wire, from, attempts, clientVars, policy, shared, base, missed>>

-----------------------------------------------------------------------------
(* SubscribeRequestSink                                                    *)

\* start_send: the request goes to the sender of the latest connection and is then
\* shared.  Between the error and the next connection that is the old sender: its
\* channel may still take the request, which no server reads, or refuse it.
StartSend(meta) ==
    LET own == Request(shared.v + 1, meta)
        item == IF shared.blocks_meta = "injected" THEN Inject(own) ELSE own
    IN  /\ shared.v < MaxSends
        /\ conn # "stopped"
        /\ shared' = item
        /\ pending' = IF conn = "connecting" THEN pending ELSE Append(pending, item)
        /\ missed' = (missed \/ conn = "connecting")
        /\ UNCHANGED <<serverVars, connectionVars, clientVars, gap, policy, base, inforce, unsealed>>

-----------------------------------------------------------------------------
(* AutoReconnect                                                           *)

\* BlockMeta moves the checkpoint: slot.saturating_sub(CHECKPOINT_SLOT_BUFFER)
Checkpoint(m) ==
    IF m.kind \in {"meta", "internal"}
    THEN IF m.slot < CheckpointSlotBuffer THEN 0 ELSE m.slot - CheckpointSlotBuffer
    ELSE last_checkpoint

\* Mutant: reconnects with the request the stream was opened with.
RequestToOpenInitial == base

\* make_connection_future: the latest request at the time of the error
RequestToOpen == shared

\* A recoverable error: the connection future is made with the current checkpoint.
\* Without a reconnection policy the error ends the stream.
Reconnect(checkpoint) ==
    /\ wire' = <<>>
    /\ live' = <<>>
    /\ pending' = <<>>
    /\ conn' = IF policy = "none" \/ MaxRetries = 0 THEN "stopped" ELSE "connecting"
    /\ from' = IF policy = "recover" THEN checkpoint ELSE NoSlot
    /\ attempts' = 0
    /\ last_checkpoint' = checkpoint
    /\ base' = RequestToOpen
    /\ missed' = FALSE
    /\ UNCHANGED <<serverVars, node, reconnect_count, last_reconnect_count, dedup, out, twice,
                   gap, policy, shared, inforce, unsealed>>

is_recoverable_status_code(code) ==
    code \in {"Cancelled", "Unknown", "DeadlineExceeded", "ResourceExhausted", "Aborted",
              "Internal", "Unavailable", "DataLoss", "OutOfRange"}

Stop ==
    /\ conn' = "stopped"
    /\ wire' = <<>> /\ live' = <<>>
    /\ UNCHANGED <<serverVars, node, from, attempts, clientVars, gap, requestVars>>

\* The stream yields a status: OutOfRange forgets the checkpoint, an unrecoverable one
\* stops for good.
Status(code) ==
    IF is_recoverable_status_code(code)
    THEN Reconnect(IF code = "OutOfRange" THEN NoSlot ELSE last_checkpoint)
    ELSE Stop

\* The network or the server fails.
StreamFails(code) ==
    /\ reconnect_count < MaxReconnects
    /\ conn \in {"up", "handshake"}
    /\ Status(code)

\* The server's answer to the replay request
ServerError ==
    /\ conn = "up"
    /\ wire # <<>> /\ Head(wire).kind \in {"OutOfRange", "Internal"}
    /\ Status(Head(wire).kind)

StreamEnd ==
    /\ conn \in {"up", "handshake"}
    /\ Stop

\* A failed attempt to connect: the transport fails, also behind a status, or the
\* subscribe call is answered by a status.
is_recoverable_client_error(error) == error.transport \/ is_recoverable_status_code(error.code)

\* Backoff::retry: another attempt after a recoverable error, while BackoffInstance is
\* not exhausted.
ConnectFails(error) ==
    /\ conn = "connecting"
    /\ IF ~is_recoverable_client_error(error) \/ attempts >= MaxRetries
       THEN conn' = "stopped" /\ UNCHANGED attempts
       ELSE attempts' = attempts + 1 /\ UNCHANGED conn
    /\ UNCHANGED <<serverVars, node, wire, live, from, clientVars, gap, requestVars>>

Connected ==
    /\ conn = "connecting"
    /\ node' \in Nodes
    /\ reconnect_count' = reconnect_count + 1
    /\ conn' = IF from = NoSlot THEN "up" ELSE "handshake"
    /\ gap' = (gap \/ from = NoSlot)
    /\ inforce' = base
    /\ unsealed' = (unsealed \/ base.blocks_meta # "own")
    /\ UNCHANGED <<serverVars, wire, live, from, attempts, last_checkpoint,
                   last_reconnect_count, dedup, out, twice, policy, shared, base, pending, missed>>

-----------------------------------------------------------------------------
(* DedupStream.  Maps are functions whose domain is the set of keys.       *)

Put(f, k, v) == [x \in DOMAIN f \cup {k} |-> IF x = k THEN v ELSE f[x]]
Drop(f, S) == [x \in DOMAIN f \ S |-> f[x]]

Tracked(d) == DOMAIN d.inflight \cup DOMAIN d.sealed
Replaying(d, s) == s \in DOMAIN d.inflight /\ d.inflight[s].replaying

NewSlotState == [keys |-> {}, replaying |-> FALSE, statuses |-> {}]

\* slot_mut
SlotMut(d, s) ==
    [d EXCEPT !.slot_order = IF s \in Tracked(d) THEN @ ELSE Append(@, s),
              !.inflight = IF s \in DOMAIN @ THEN @ ELSE Put(@, s, NewSlotState)]

\* DedupState::prune
Prune(d) ==
    LET excess == Len(d.slot_order) - SlotRetention
        old == {d.slot_order[i] : i \in 1..excess}
    IN  [d EXCEPT !.slot_order = SubSeq(@, (IF excess > 0 THEN excess ELSE 0) + 1, Len(@)),
                  !.inflight = Drop(@, old),
                  !.sealed = Drop(@, old)]

ClearSlot(d, s) ==
    [d EXCEPT !.inflight = Drop(@, {s}),
              !.sealed = Drop(@, {s}),
              !.slot_order = Pick(@, {i \in DOMAIN @ : @[i] # s})]

\* prepare_for_replay of ReplayBuffer and of DedupState
PrepareForReplay(d) ==
    [d EXCEPT !.quarantine = [s \in Slots |-> <<>>],
              !.inflight = [s \in DOMAIN @ |-> [@[s] EXCEPT !.replaying = TRUE]]]

\* What poll_next does with a message: the new state and the messages handed on.
Result(d, msgs) == [d |-> d, msgs |-> msgs]

\* Statuses: a set per slot, kept after the slot is sealed.
ObserveStatus(d, m) ==
    LET s == m.slot
        e == IF m.kind = "created" /\ ~Replaying(d, s) THEN ClearSlot(d, s) ELSE d
        f == SlotMut(e, s)
    IN  IF s \in DOMAIN e.sealed
        THEN Result([e EXCEPT !.sealed[s].statuses = @ \cup {m.kind}],
                    IF m.kind \in e.sealed[s].statuses THEN <<>> ELSE <<m>>)
        ELSE IF m.kind \in f.inflight[s].statuses
             THEN Result(f, <<>>)
             ELSE Result(Prune([f EXCEPT !.inflight[s].statuses = @ \cup {m.kind}]), <<m>>)

\* Mutant: the replay of a partial slot is discarded.
ReconcileDiscards(d, s, keys) == <<>>

\* ReplayBuffer::reconcile: what the partial slot has not handed on yet.  The keys of
\* a slot's payloads are their indices, the same on every node.
Reconcile(d, s, keys) ==
    LET held == d.quarantine[s]
    IN  Pick(held, {i \in DOMAIN held : /\ held[i].arg \notin keys
                                        /\ \A j \in 1..(i - 1) : held[j].arg # held[i].arg})

\* Mutant: the blockhash of a replayed slot is not compared.
SameBlockNever(d, m) == FALSE

\* The verdict on a replayed slot: the stored blockhash against the replayed one.
SameBlock(d, m) == d.sealed[m.slot].blockhash = m.node

\* BlockMeta: a sealed slot is discarded or flushed by its blockhash, a partial one
\* reconciled; the first BlockMeta seals the slot.
ObserveMeta(d, m) ==
    LET s == m.slot
    IN  IF s \in DOMAIN d.sealed
        THEN Result([d EXCEPT !.sealed[s].blockhash = m.node, !.quarantine[s] = <<>>],
                    IF SameBlock(d, m) THEN <<>> ELSE d.quarantine[s] \o <<m>>)
        ELSE LET old == IF s \in DOMAIN d.inflight THEN d.inflight[s] ELSE NewSlotState
                 seal == [blockhash |-> m.node, statuses |-> old.statuses]
                 e == Prune([d EXCEPT !.inflight = Drop(@, {s}), !.sealed = Put(@, s, seal)])
             IN  IF old.replaying
                 THEN Result([e EXCEPT !.quarantine[s] = <<>>],
                             Reconcile(d, s, old.keys) \o <<m>>)
                 ELSE Result(e, <<m>>)

\* Mutant: the payloads of every tracked slot wait, whether it is replayed or not.
ObserveDataWaits(d, m) ==
    LET s == m.slot
        e == SlotMut(d, s)
    IN  IF s \in Tracked(d)
        THEN Result([d EXCEPT !.quarantine[s] = Append(@, m)], <<>>)
        ELSE Result([e EXCEPT !.inflight[s].keys = @ \cup {m.arg}], <<m>>)

\* Payloads of a sealed or a replayed slot wait for its BlockMeta.
ObserveData(d, m) ==
    LET s == m.slot
        e == SlotMut(d, s)
    IN  IF s \in DOMAIN d.sealed \/ Replaying(d, s)
        THEN Result([d EXCEPT !.quarantine[s] = Append(@, m)], <<>>)
        ELSE IF m.arg \in e.inflight[s].keys
             THEN Result(e, <<>>)
             ELSE Result(Prune([e EXCEPT !.inflight[s].keys = @ \cup {m.arg}]), <<m>>)

Observe(d, m) ==
    CASE m.kind \in {"created", "status"} -> ObserveStatus(d, m)
      [] m.kind = "meta"                  -> ObserveMeta(d, m)
      [] OTHER                            -> ObserveData(d, m)

\* ReplayBuffer::prune
PruneQuarantine(d) ==
    [d EXCEPT !.quarantine = [s \in Slots |-> IF s \in Tracked(d) THEN @[s] ELSE <<>>]]

HandOn(msgs) ==
    /\ out' = out \cup Range(msgs)
    /\ twice' = twice \cup {m \in Range(msgs) :
                              m \in out \/ Cardinality({i \in DOMAIN msgs : msgs[i] = m}) > 1}

\* A message only the injected __autoreconnect filter matched.
InternalOnly(m) == m.kind = "internal"

\* poll_next of AutoReconnect, and of DedupStream on what it lets through; the other
\* policies have no DedupStream.
Receive ==
    /\ conn = "up"
    /\ wire # <<>>
    /\ Head(wire).kind \notin {"OutOfRange", "Internal"}
    /\ LET m == Head(wire)
           d == IF reconnect_count # last_reconnect_count THEN PrepareForReplay(dedup) ELSE dedup
       IN  /\ last_checkpoint' = Checkpoint(m)
           /\ IF InternalOnly(m)
              THEN UNCHANGED <<dedup, last_reconnect_count, out, twice>>
              ELSE IF policy # "recover"
              THEN HandOn(<<m>>) /\ UNCHANGED <<dedup, last_reconnect_count>>
              ELSE \E r \in {Observe(d, m)} :
                      /\ dedup' = PruneQuarantine(r.d)
                      /\ last_reconnect_count' = reconnect_count
                      /\ HandOn(r.msgs)
    /\ wire' = Tail(wire)
    /\ UNCHANGED <<serverVars, node, conn, live, from, attempts, reconnect_count, gap,
                   requestVars>>

-----------------------------------------------------------------------------

\* The server's side is followed as long as there is a stream.
Cluster == conn # "stopped" /\ \E s \in Slots : CreateBank(s) \/ PublishBlock(s)
Progress == ServeReplay \/ ReadRequest \/ ServerError \/ Connected \/ Receive

ResumeNext ==
    \/ Cluster \/ PruneOldest
    \/ Progress
    \/ StreamEnd
    \/ \E code \in Codes :
          \/ StreamFails(code)
          \/ \E transport \in BOOLEAN : ConnectFails([transport |-> transport, code |-> code])
    \/ \E meta \in UserMeta : StartSend(meta)

ResumeSpec == ResumeInit /\ [][ResumeNext]_resumeVars

\* The cluster goes on; and the server answers requests, a connection attempt that
\* can succeed does in the end, and the user polls the stream.
FairResumeSpec == ResumeSpec /\ WF_resumeVars(Cluster) /\ WF_resumeVars(Progress)

-----------------------------------------------------------------------------
(* Properties                                                              *)

\* A client without quirks behind its endpoint: one node, so that a replayed block is the block
\* that was broadcast, a server that answers a replay before it publishes the banks created since
\* the request, and a dedup state that no slot of the run falls out of.
SteadyServer == (\A m, n \in Nodes : m = n) /\ ~SlowReplay /\ Cardinality(Slots) <= SlotRetention

\* The user never receives the same update twice, however often the stream breaks
\* and whatever the replay repeats ("Wrapper stream that filters out duplicate
\* subscribe updates").
NoDuplicates == twice = {}

Delivered(s) ==
    /\ \A d \in Data : \E n \in Nodes : Msg("data", s, d, n) \in out
    /\ \E n \in Nodes : Msg("meta", s, 0, n) \in out

\* The checkpoint's buffer and the server's window are as wide as the disorder of the slots, also
\* of those stored before the client subscribed.
WithinReach ==
    /\ MaxDisorder <= CheckpointSlotBuffer /\ MaxDisorder <= Window
    /\ \A s \in StoredBefore, t \in Slots : t < s - MaxDisorder => t \in StoredBefore

\* Reconnections lose nothing.  A BlockMeta is handed on only after every payload of that
\* block: quarantine and reconciliation never seal a slot with a part missing.  And a
\* client that has read all there was holds every block published since it subscribed,
\* unless it had to go on without a replay or did not ask for block metas itself: the
\* checkpoint is far enough back, and nothing stays in quarantine.
NothingLost ==
    /\ \A m \in out : m.kind = "meta" =>
           \A d \in Data : Msg("data", m.slot, d, m.node) \in out
    /\ (conn = "up" /\ wire = <<>> /\ ~gap /\ ~unsealed) =>
           \A s \in done \ StoredBefore : Delivered(s)

\* An open stream whose server has read all requests serves the user's latest request,
\* also after reconnections ("on reconnect, we load the latest request so the new
\* connection gets the user's current filters, not the stale initial ones").  The one
\* exception is a request the sink took between the error and the new connection.
LatestRequestInForce ==
    (conn \in {"up", "handshake"} /\ pending = <<>> /\ ~missed) => inforce = shared

\* A published block reaches the user in the end unless the stream stops for good, has
\* to go on without a replay, or the user's requests do not ask for block metas.
EventuallyDelivered ==
    \A s \in Slots \ StoredBefore :
        s \in done ~> (Delivered(s) \/ gap \/ unsealed \/ conn = "stopped")
=============================================================================
