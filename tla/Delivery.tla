------------------------------ MODULE Delivery ------------------------------
(***************************************************************************)
(* How block content reaches a subscriber: the validator's threads call    *)
(* the plugin (plugin/entry.rs), geyser_loop batches and broadcasts at     *)
(* Processed, block_reconstruction_loop rebuilds blocks and broadcasts     *)
(* them at every level they reach, and client_loop joins the replay of     *)
(* stored slots with the live broadcast (grpc.rs).                         *)
(*                                                                         *)
(* The storage of block_reconstruction_loop is the one of BlockStorage,    *)
(* reduced to what that module shows of it on a single branch of slots: a  *)
(* slot freezes when its data and its block meta are in, its statuses are  *)
(* queued in order and gc drops the oldest slots.                          *)
(***************************************************************************)
EXTENDS Integers, Sequences, FiniteSets, Functions

CONSTANTS
    Slots,          \* consecutive slots of one branch
    Data,           \* the transactions and entries of every slot
    ClientLevels,   \* commitment levels the subscriber may ask for
    FromSlots,      \* values of from_slot it may ask for; 0 stands for none
    MaxBatch,       \* MESSAGE_BATCH_SIZE
    RingCapacity,   \* capacity of the broadcast channels
    NotifiedLevels, \* bound: the commitment levels the validator notifies
    ReplayedCapacity,               \* replay_stored_slots
    MinimumFinalizedSlotToBuffer,   \* MINIMUM_FINALIZED_SLOT_TO_BUFFER
    MaxQueue        \* bound: messages in flight to each of the two loops

ASSUME DeliveryAssumption ==
    /\ Slots \subseteq Nat \ {0} /\ IsFiniteSet(Slots)
    /\ Data # {} /\ IsFiniteSet(Data)
    /\ ClientLevels \subseteq 1..3
    /\ FromSlots \subseteq Nat
    /\ {MaxBatch, RingCapacity, MaxQueue} \subseteq Nat \ {0}
    /\ NotifiedLevels \subseteq 1..3
    /\ {ReplayedCapacity, MinimumFinalizedSlotToBuffer} \subseteq Nat

VARIABLES
    notified,   \* what the validator has notified already
    grpc_channel,   \* plugin -> geyser_loop
    taken,      \* batch geyser_loop has broadcast and not yet forwarded
    block_reconstruction_channel,   \* -> block_reconstruction_loop
    work,       \* rest of the batches block_reconstruction_loop is adding
    created,    \* storage: tracked slots
    content,    \* storage: data of the slots being processed and of frozen ones
    meta,       \* storage: slots whose block meta was taken in
    replayed,   \* storage: frozen slots kept for replay
    frozen,     \* storage: slots that have frozen
    wanted,     \* storage: highest commitment known for each slot
    emitted,    \* storage: highest commitment queued for each slot
    ready,      \* storage: ready_queue, (slot, level) pairs
    outbox,     \* broadcasts block_reconstruction_loop has yet to send for a ready block
    pc,         \* control of client_loop
    level,      \* commitment of the client's receiver
    from,       \* from_slot of the latest request
    request,    \* the replay request waits to be served
    response,   \* the messages of the replay response
    rx,         \* broadcasts the client's receiver has not read
    lagged,     \* the ring has overrun the receiver
    early,      \* history: nothing had been notified when the latest filter was set
    got         \* what the client has received under its latest filter

pluginVars == <<notified, grpc_channel>>
storageVars == <<created, content, meta, replayed, frozen, wanted, emitted, ready>>
loopVars == <<taken, block_reconstruction_channel, work, outbox>>
requestVars == <<pc, level, from, request, response, early>>
vars == <<pluginVars, loopVars, storageVars, requestVars, rx, lagged, got>>

Processed == 1
Confirmed == 2
Finalized == 3
Levels == Processed..Finalized

Msg(kind, s, arg) == [kind |-> kind, slot |-> s, arg |-> arg]
CreatedBank(s) == Msg("created", s, 0)
DataOf(s, d)   == Msg("data", s, d)
BlockMeta(s)   == Msg("meta", s, 0)     \* as notified: only for the reconstruction
ContentOf(s)   == Msg("content", s, 0)  \* frozen_block.messages()
Block(s)       == Msg("block", s, 0)    \* Message::Block followed by Message::BlockMeta
Status(s, l)   == Msg("status", s, l)

Nothing == [data |-> [s \in Slots |-> {}], block |-> {}, status |-> [s \in Slots |-> {}]]

Init ==
    /\ notified = {}
    /\ grpc_channel = <<>>
    /\ taken = <<>>
    /\ block_reconstruction_channel = <<>>
    /\ work = <<>>
    /\ created = {} /\ meta = {} /\ replayed = {} /\ frozen = {}
    /\ content = [s \in Slots |-> {}]
    /\ wanted = [s \in Slots |-> 0]
    /\ emitted = [s \in Slots |-> 0]
    /\ ready = <<>>
    /\ outbox = <<>>
    /\ pc = "start"
    /\ level = Processed
    /\ from = 0
    /\ request = FALSE
    /\ response = {}
    /\ rx = <<>>
    /\ lagged = FALSE
    /\ early = FALSE
    /\ got = Nothing

\* SubscriberChannels::send: the client's receiver sees the ring of its level.
Broadcast(l, batch) ==
    IF l = level /\ pc # "closed" /\ ~lagged
    THEN IF Len(rx) = RingCapacity
         THEN lagged' = TRUE /\ rx' = <<>>
         ELSE rx' = Append(rx, batch) /\ UNCHANGED lagged
    ELSE UNCHANGED <<rx, lagged>>

-----------------------------------------------------------------------------
(* The plugin's callbacks                                                  *)

Notify(m) ==
    /\ m \notin notified
    /\ Len(grpc_channel) < MaxQueue
    /\ Len(block_reconstruction_channel) < MaxQueue
    /\ notified' = notified \cup {m}

\* CreatedBank stands for the lifecycle statuses: through geyser_loop to Processed
\* subscribers, at once to the others.
UpdateSlotStatusLifecycle(s) ==
    /\ Notify(CreatedBank(s))
    /\ s - 1 \in Slots => CreatedBank(s - 1) \in notified
    /\ grpc_channel' = Append(grpc_channel, CreatedBank(s))
    /\ IF level = Processed THEN UNCHANGED <<rx, lagged>>
                            ELSE Broadcast(level, <<CreatedBank(s)>>)
    /\ UNCHANGED <<loopVars, storageVars, requestVars, got>>

\* Processed, Confirmed and Rooted bypass geyser_loop.
UpdateSlotStatusCommitment(s, l) ==
    /\ CreatedBank(s) \in notified
    /\ Notify(Status(s, l))
    /\ block_reconstruction_channel' =
          Append(block_reconstruction_channel, <<Status(s, l)>>)
    /\ UNCHANGED <<grpc_channel, taken, work, outbox, storageVars, requestVars,
                   rx, lagged, got>>

\* notify_transaction and notify_entry
NotifyData(s, d) ==
    /\ CreatedBank(s) \in notified
    /\ Notify(DataOf(s, d))
    /\ grpc_channel' = Append(grpc_channel, DataOf(s, d))
    /\ UNCHANGED <<loopVars, storageVars, requestVars, rx, lagged, got>>

\* The bank is frozen: some of its data (its accounts at least) were notified before.
NotifyBlockMetadata(s) ==
    /\ \E d \in Data : DataOf(s, d) \in notified
    /\ Notify(BlockMeta(s))
    /\ grpc_channel' = Append(grpc_channel, BlockMeta(s))
    /\ UNCHANGED <<loopVars, storageVars, requestVars, rx, lagged, got>>

-----------------------------------------------------------------------------
(* geyser_loop                                                             *)

IsMeta(m) == m.kind = "meta"

\* PartitionedBuffer takes up to MaxBatch messages and stops after a block meta, which it
\* keeps apart from the others.
BatchSizes ==
    {k \in 1..Len(grpc_channel) :
        k <= MaxBatch /\ \A i \in 1..(k - 1) : ~IsMeta(grpc_channel[i])}
EndsInMeta(batch) == IsMeta(batch[Len(batch)])
Metas(batch) == IF EndsInMeta(batch) THEN <<batch[Len(batch)]>> ELSE <<>>
NotMetas(batch) == IF EndsInMeta(batch) THEN SubSeq(batch, 1, Len(batch) - 1) ELSE batch

\* The batch without the block meta is broadcast at Processed.
GeyserBroadcast ==
    /\ taken = <<>>
    /\ \E k \in BatchSizes :
          LET batch == SubSeq(grpc_channel, 1, k)
          IN  /\ taken' = batch
              /\ grpc_channel' = SubSeq(grpc_channel, k + 1, Len(grpc_channel))
              /\ IF NotMetas(batch) = <<>> THEN UNCHANGED <<rx, lagged>>
                                           ELSE Broadcast(Processed, NotMetas(batch))
    /\ UNCHANGED <<notified, block_reconstruction_channel, work, outbox, storageVars,
                   requestVars, got>>

\* ... and then forwarded to the reconstruction, the block meta last.
GeyserForward ==
    /\ taken # <<>>
    /\ taken' = <<>>
    /\ block_reconstruction_channel' =
          block_reconstruction_channel
            \o (IF NotMetas(taken) = <<>> THEN <<>> ELSE <<NotMetas(taken)>>)
            \o (IF Metas(taken) = <<>> THEN <<>> ELSE <<Metas(taken)>>)
    /\ UNCHANGED <<pluginVars, work, outbox, storageVars, requestVars, rx, lagged, got>>

-----------------------------------------------------------------------------
(* block_reconstruction_loop and its storage                               *)

StatusDue(s) ==
    /\ s \in replayed
    /\ emitted[s] < wanted[s]
    /\ \A a \in replayed : a < s => emitted[a] > emitted[s]

Draining == \E s \in Slots : StatusDue(s)

\* next_batch: whatever has come in by now, up to BUFFERED_MESSAGES_CAPACITY (which
\* exceeds MaxQueue); ready blocks are broadcast only after the last of them is added.
ReconstructTake ==
    /\ work = <<>> /\ ready = <<>> /\ outbox = <<>> /\ ~Draining
    /\ \E n \in 1..Len(block_reconstruction_channel) :
          /\ work' = SubSeq(block_reconstruction_channel, 1, n)
          /\ block_reconstruction_channel' =
                SubSeq(block_reconstruction_channel, n + 1, Len(block_reconstruction_channel))
    /\ UNCHANGED <<pluginVars, taken, outbox, storageVars, requestVars, rx, lagged, got>>

\* The slot freezes when all its data and its block meta have come in.
Freeze(s) ==
    IF content'[s] = Data /\ s \in meta' /\ s \notin frozen
    THEN frozen' = frozen \cup {s} /\ replayed' = replayed \cup {s}
    ELSE UNCHANGED <<frozen, replayed>>

AddCreated(m) ==
    /\ m.kind = "created"
    /\ created' = created \cup {m.slot}
    /\ UNCHANGED <<content, meta, frozen, replayed, wanted>>

AddData(m) ==
    /\ m.kind = "data"
    /\ content' = IF m.slot \in created \ frozen
                  THEN [content EXCEPT ![m.slot] = @ \cup {m.arg}] ELSE content
    /\ UNCHANGED meta
    /\ Freeze(m.slot)
    /\ UNCHANGED <<created, wanted>>

\* A block meta for a slot with no data yet is dropped (handle_block_meta).
AddMeta(m) ==
    /\ m.kind = "meta"
    /\ meta' = IF content[m.slot] # {} THEN meta \cup {m.slot} ELSE meta
    /\ UNCHANGED content
    /\ Freeze(m.slot)
    /\ UNCHANGED <<created, wanted>>

AddStatus(m) ==
    /\ m.kind = "status"
    /\ wanted' = [s \in Slots |-> IF s <= m.slot /\ wanted[s] < m.arg
                                  THEN m.arg ELSE wanted[s]]
    /\ UNCHANGED <<created, content, meta, frozen, replayed>>

ReconstructAdd ==
    /\ work # <<>> /\ ~Draining
    /\ LET m == Head(Head(work))
       IN  AddCreated(m) \/ AddData(m) \/ AddMeta(m) \/ AddStatus(m)
    /\ work' = IF Len(Head(work)) = 1 THEN Tail(work)
                                      ELSE <<Tail(Head(work))>> \o Tail(work)
    /\ UNCHANGED <<pluginVars, taken, block_reconstruction_channel, outbox, emitted, ready,
                   requestVars, rx, lagged, got>>

\* What gc leaves of the frozen slots: it drops the oldest one while there are more
\* than the capacity and more than the minimum of finalized ones, which leaves the
\* largest set of newest slots at which it stops.
GcKeeps(S, finalized) ==
    LET Stops(R) == \/ Cardinality(R) <= ReplayedCapacity
                    \/ Cardinality(R \cap finalized) <= MinimumFinalizedSlotToBuffer
        Newest(R) == \A t \in R : \A u \in S \ R : u < t
    IN  UNION {R \in SUBSET S : Newest(R) /\ Stops(R)}

\* A SlotStatus output: queued for the frozen block, and gc after a Finalized one.
ReconstructStatus(s) ==
    /\ StatusDue(s)
    /\ emitted' = [emitted EXCEPT ![s] = @ + 1]
    /\ ready' = Append(ready, <<s, emitted[s] + 1>>)
    /\ replayed' = IF emitted'[s] = Finalized
                   THEN GcKeeps(replayed, {t \in Slots : emitted'[t] = Finalized})
                   ELSE replayed
    /\ UNCHANGED <<pluginVars, loopVars, created, content, meta, frozen, wanted,
                   requestVars, rx, lagged, got>>

\* Mutant: the slot status goes out before the block.
FanOutStatusFirst(s, l) ==
    <<<<Levels, <<Status(s, l)>>>>, <<{l}, <<ContentOf(s)>>>>, <<{l}, <<Block(s)>>>>>>

\* What is broadcast for a ready block, and to which levels: the content unless it
\* is at Processed, then Block and BlockMeta, then the status to everyone.
FanOut(s, l) ==
    (IF l = Processed THEN <<>> ELSE <<<<{l}, <<ContentOf(s)>>>>>>)
      \o <<<<{l}, <<Block(s)>>>>, <<Levels, <<Status(s, l)>>>>>>

PopReadyBlock ==
    /\ work = <<>> /\ ~Draining /\ outbox = <<>>
    /\ ready # <<>>
    /\ outbox' = FanOut(Head(ready)[1], Head(ready)[2])
    /\ ready' = Tail(ready)
    /\ UNCHANGED <<pluginVars, taken, block_reconstruction_channel, work, created, content,
                   meta, replayed, frozen, wanted, emitted, requestVars, rx, lagged, got>>

ReconstructBroadcast ==
    /\ outbox # <<>>
    /\ outbox' = Tail(outbox)
    /\ IF level \in Head(outbox)[1] THEN Broadcast(level, Head(outbox)[2])
                                    ELSE UNCHANGED <<rx, lagged>>
    /\ UNCHANGED <<pluginVars, taken, block_reconstruction_channel, work, storageVars,
                   requestVars, got>>

\* Mutant: the Block message of a stored slot is not replayed.
ReplayOfNoBlock(s) == {ContentOf(s)} \cup {Status(s, l) : l \in 1..emitted[s]}

\* What a stored slot contributes to a replay: content, block and the statuses so far.
ReplayOf(s) == {ContentOf(s), Block(s)} \cup {Status(s, l) : l \in 1..emitted[s]}

ReplayedSlots == {s \in replayed : s >= from /\ emitted[s] >= level}

Oldest(S) == CHOOSE s \in S : \A t \in S : s <= t

\* The response goes to the client as a whole: the order of its slots does not show.
ReplayMessages == UNION {ReplayOf(s) : s \in ReplayedSlots}

\* A request is served between two batches.  One below the oldest slot is refused;
\* one that finds no slot gets no answer, which the client sees as an error too.
ServeReplay ==
    /\ work = <<>> /\ ready = <<>> /\ outbox = <<>> /\ ~Draining
    /\ request
    /\ request' = FALSE
    /\ IF (replayed # {} /\ from < Oldest(replayed)) \/ ReplayedSlots = {}
       THEN pc' = "closed" /\ UNCHANGED response
       ELSE pc' = "replay" /\ response' = ReplayMessages
    /\ UNCHANGED <<pluginVars, loopVars, storageVars, level, from, early, rx, lagged, got>>

-----------------------------------------------------------------------------
(* client_loop                                                             *)

\* What the client holds after these messages
Receive(g, msgs) ==
    [data   |-> [s \in Slots |-> IF ContentOf(s) \in msgs THEN Data
                                ELSE g.data[s] \cup {d \in Data : DataOf(s, d) \in msgs}],
     block  |-> g.block \cup {s \in Slots : Block(s) \in msgs},
     status |-> [s \in Slots |-> g.status[s] \cup {l \in Levels : Status(s, l) \in msgs}]]

\* Until a filter is set the receiver is drained and nothing is forwarded.
DrainUnfiltered ==
    /\ pc = "start"
    /\ rx # <<>>
    /\ rx' = Tail(rx)
    /\ UNCHANGED <<pluginVars, loopVars, storageVars, requestVars, lagged, got>>

\* The first filter, or a later one (the last of those that came in): subscribe to its
\* level if that changes, which forgets what the old receiver held and that it lagged,
\* then ask for a replay.  What was received under the filter before does not count.
SetFilter ==
    /\ pc \in {"start", "live"}
    /\ \E l \in ClientLevels, f \in FromSlots :
          /\ level' = l
          /\ rx' = IF l = level THEN rx ELSE <<>>
          /\ lagged' = (lagged /\ l = level)
          /\ from' = f
          /\ request' = (f # 0)
          /\ pc' = IF f = 0 THEN "live" ELSE "await"
          /\ early' = (notified = {})
    /\ got' = Nothing
    /\ UNCHANGED <<pluginVars, loopVars, storageVars, response>>

\* Mutant: live messages that piled up during the replay are skipped.
DeliverReplayAndSkip ==
    /\ pc = "replay"
    /\ got' = Receive(got, response)
    /\ response' = {}
    /\ pc' = "live"
    /\ rx' = <<>>
    /\ UNCHANGED <<pluginVars, loopVars, storageVars, level, from, request, early, lagged>>

\* The replayed messages are sent one by one while the ring goes on filling.
DeliverReplay ==
    /\ pc = "replay"
    /\ got' = Receive(got, response)
    /\ response' = {}
    /\ pc' = "live"
    /\ UNCHANGED <<pluginVars, loopVars, storageVars, level, from, request, early, rx, lagged>>

DeliverLive ==
    /\ pc = "live"
    /\ ~lagged
    /\ rx # <<>>
    /\ got' = Receive(got, Range(Head(rx)))
    /\ rx' = Tail(rx)
    /\ UNCHANGED <<pluginVars, loopVars, storageVars, requestVars, lagged>>

\* Lagged on the ring, a full stream channel, a client that went away or a
\* cancelled session: the stream ends.
Disconnect ==
    /\ pc \in {"start", "live"}
    /\ pc' = "closed"
    /\ rx' = <<>>
    /\ UNCHANGED <<pluginVars, loopVars, storageVars, level, from, request, response, early,
                   lagged, got>>

-----------------------------------------------------------------------------

Plugin ==
    \E s \in Slots :
        \/ UpdateSlotStatusLifecycle(s)
        \/ NotifyBlockMetadata(s)
        \/ \E l \in NotifiedLevels : UpdateSlotStatusCommitment(s, l)
        \/ \E d \in Data : NotifyData(s, d)

Next ==
    \/ Plugin
    \/ GeyserBroadcast \/ GeyserForward
    \/ ReconstructTake \/ ReconstructAdd
    \/ \E s \in Slots : ReconstructStatus(s)
    \/ PopReadyBlock \/ ReconstructBroadcast \/ ServeReplay
    \/ DrainUnfiltered \/ SetFilter \/ DeliverReplay \/ DeliverLive \/ Disconnect

Spec == Init /\ [][Next]_vars

-----------------------------------------------------------------------------
(* Properties                                                              *)

\* A subscriber that was there before the slot gets all the content of a block
\* before Message::Block, and Message::Block before the status of its own level:
\* at Processed this joins two tasks, since the content comes from geyser_loop and
\* the block from block_reconstruction_loop.
ContentThenBlockThenStatus ==
    early => \A s \in Slots :
                /\ s \in got.block => got.data[s] = Data
                /\ level \in got.status[s] => s \in got.block

\* A Confirmed or Finalized subscriber that resumes with from_slot never sees a slot
\* reach its level without having received that slot's content and block.  (A Processed
\* subscriber may miss the part of a slot that was broadcast before it came.)
ReplayNoGap ==
    (from # 0 /\ pc = "live" /\ level # Processed) =>
        \A s \in Slots :
            s >= from /\ level \in got.status[s] => got.data[s] = Data /\ s \in got.block

\* Once such a subscriber has read its receiver to the end it holds every slot that
\* reached its level, from from_slot on: the live messages that were broadcast while
\* the replay was served and sent fill in exactly what the replay lacks.
NothingMissed ==
    (/\ from # 0 /\ pc = "live" /\ level # Processed /\ ~lagged /\ rx = <<>>
     /\ work = <<>> /\ ready = <<>> /\ outbox = <<>> /\ ~Draining) =>
        \A s \in Slots :
            s >= from /\ emitted[s] >= level =>
                /\ got.data[s] = Data
                /\ s \in got.block
                /\ level..emitted[s] \subseteq got.status[s]
=============================================================================
