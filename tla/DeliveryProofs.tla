--------------------------- MODULE DeliveryProofs ---------------------------
(***************************************************************************)
(* ContentThenBlockThenStatus, ReplayNoGap and NothingMissed for every set *)
(* of slots and data and for channels of every size.  The first inductive  *)
(* invariant follows the data of a slot on their two ways to the client,   *)
(* through geyser_loop's broadcast and through the reconstruction, and     *)
(* shows that the first is always ahead of the second.  The other says     *)
(* where whatever a resumed subscriber is owed is: in its hands, in the    *)
(* replay, in the ring, about to be broadcast or still queued.             *)
(***************************************************************************)
EXTENDS Delivery, TLAPS, FiniteSetTheorems, WellFoundedInduction

-----------------------------------------------------------------------------
(* Types                                                                   *)

Kinds == {"created", "data", "meta", "content", "block", "status"}
Messages == [kind : Kinds, slot : Slots, arg : Data \cup Nat]

\* What the callbacks send through geyser_loop, and what the reconstruction gets
CallbackMessages ==
    {m \in Messages : m.kind \in {"created", "data", "meta"} /\ (m.kind = "data" => m.arg \in Data)}
ReconstructMessages ==
    CallbackMessages \cup {m \in Messages : m.kind = "status" /\ m.arg \in Levels}

Batches == Seq(ReconstructMessages) \ {<<>>}

ChannelTypes ==
    /\ grpc_channel \in Seq(CallbackMessages)
    /\ taken \in Seq(CallbackMessages)
    /\ block_reconstruction_channel \in Seq(Batches)
    /\ work \in Seq(Batches)

\* A frozen slot has all its data; only frozen slots are stored, and queued.
StorageTypes ==
    /\ content \in [Slots -> SUBSET Data]
    /\ frozen \subseteq Slots
    /\ \A s \in frozen : content[s] = Data
    /\ replayed \subseteq frozen
    /\ wanted \in [Slots -> 0 .. Finalized]
    /\ emitted \in [Slots -> 0 .. Finalized]
    /\ ready \in Seq(frozen \X Levels)

\* Nothing is received before a filter is set; a replay is asked for then and held until it is sent.
ClientTypes ==
    /\ level \in Levels
    /\ outbox \in Seq((SUBSET Nat) \X Seq(Messages))
    /\ rx \in Seq(Seq(Messages))
    /\ got \in [data : [Slots -> SUBSET Data], block : SUBSET Slots, status : [Slots -> SUBSET Levels]]
    /\ pc = "start" => got = Nothing /\ ~early
    /\ response # {} => pc = "replay"
    /\ request => pc = "await"

\* Before the first notification nothing is anywhere.
EmptyInv ==
    notified = {} =>
        /\ grpc_channel = <<>> /\ taken = <<>> /\ block_reconstruction_channel = <<>> /\ work = <<>>
        /\ outbox = <<>> /\ ready = <<>> /\ rx = <<>>
        /\ \A s \in Slots : content[s] = {} /\ wanted[s] = 0

-----------------------------------------------------------------------------
(* What the client has been sent                                           *)

\* The receiver has been there from the start and takes everything.
Following == early /\ ~lagged /\ pc # "closed"

CarriesData(batch, s, d) == DataOf(s, d) \in Range(batch) \/ ContentOf(s) \in Range(batch)
CarriesBlock(batch, s) == Block(s) \in Range(batch)

\* The client holds the datum, or the block, once it has read the first n batches.
DataBy(s, d, n) == d \in got.data[s] \/ \E i \in 1 .. n : CarriesData(rx[i], s, d)
BlockBy(s, n) == s \in got.block \/ \E i \in 1 .. n : CarriesBlock(rx[i], s)

ResponseInOrder ==
    \A s \in Slots :
        /\ Block(s) \in response => ContentOf(s) \in response
        /\ Status(s, level) \in response => Block(s) \in response

\* A batch that may follow the first n in the ring
Follows(batch, n) ==
    \A s \in Slots :
        /\ CarriesBlock(batch, s) => \A d \in Data : DataBy(s, d, n)
        /\ Status(s, level) \in Range(batch) => BlockBy(s, n)

\* The batches in the ring are in order ...
RxInOrder == \A i \in 1 .. Len(rx) : Follows(rx[i], i - 1)

\* ... and so are those that block_reconstruction_loop is about to send behind them.
ToUs(j) == level \in outbox[j][1]
OutboxInOrder ==
    \A i \in 1 .. Len(outbox) : ToUs(i) => \A s \in Slots :
        /\ CarriesBlock(outbox[i][2], s) =>
              \A d \in Data : \/ DataBy(s, d, Len(rx))
                              \/ \E j \in 1 .. i - 1 : ToUs(j) /\ CarriesData(outbox[j][2], s, d)
        /\ Status(s, level) \in Range(outbox[i][2]) =>
              \/ BlockBy(s, Len(rx))
              \/ \E j \in 1 .. i - 1 : ToUs(j) /\ CarriesBlock(outbox[j][2], s)

\* A datum on its way to the reconstruction, or in its storage
InChannel(q, m) == \E i \in 1 .. Len(q) : m \in Range(q[i])
OnTheWay(s, d) ==
    \/ DataOf(s, d) \in Range(taken)
    \/ InChannel(block_reconstruction_channel, DataOf(s, d))
    \/ InChannel(work, DataOf(s, d))
    \/ d \in content[s]

\* At Processed geyser_loop has broadcast whatever it forwards.
BroadcastFirst ==
    level = Processed => \A s \in Slots, d \in Data : OnTheWay(s, d) => DataBy(s, d, Len(rx))

SentInv ==
    /\ ContentThenBlockThenStatus
    /\ ResponseInOrder
    /\ Following => RxInOrder /\ OutboxInOrder /\ BroadcastFirst

DeliveryInv == ChannelTypes /\ StorageTypes /\ ClientTypes /\ EmptyInv /\ SentInv

-----------------------------------------------------------------------------
(* Messages and sequences of them                                          *)

\* The messages of each task are of its kinds.
LEMMA MessageTypes ==
    ASSUME NEW s \in Slots
    PROVE  /\ CreatedBank(s) \in CallbackMessages
           /\ BlockMeta(s) \in CallbackMessages
           /\ \A d \in Data : DataOf(s, d) \in CallbackMessages
           /\ \A l \in Levels : Status(s, l) \in ReconstructMessages
           /\ ContentOf(s) \in Messages
           /\ Block(s) \in Messages
           /\ \A l \in Nat : Status(s, l) \in Messages
BY DEF CreatedBank, BlockMeta, DataOf, Status, ContentOf, Block, Msg, CallbackMessages,
       ReconstructMessages, Messages, Kinds, Levels, Processed, Finalized

LEMMA MessageSets ==
    /\ CallbackMessages \subseteq ReconstructMessages
    /\ ReconstructMessages \subseteq Messages
BY DEF CallbackMessages, ReconstructMessages

\* What the callbacks send is not a block or a commitment status.
LEMMA MessageKinds ==
    ASSUME NEW s
    PROVE  /\ Block(s) \notin ReconstructMessages
           /\ \A l : Status(s, l) \notin CallbackMessages
           /\ ContentOf(s) \notin ReconstructMessages
           /\ \A d : ~IsMeta(DataOf(s, d))
BY DEF CreatedBank, BlockMeta, DataOf, Status, ContentOf, Block, Msg, CallbackMessages,
       ReconstructMessages, Messages, Kinds, IsMeta

\* Two messages are the same only if they say the same.
LEMMA MessagesDiffer ==
    ASSUME NEW s, NEW t
    PROVE  /\ Block(s) = Block(t) => s = t
           /\ ContentOf(s) # Block(t) 
           /\ \A l : Status(s, l) # Block(t) /\ Status(s, l) # ContentOf(t)
           /\ \A l, k : Status(s, l) = Status(t, k) => s = t /\ l = k
           /\ \A d, l : DataOf(s, d) # Status(t, l)
BY DEF CreatedBank, BlockMeta, DataOf, Status, ContentOf, Block, Msg

LEMMA RangeOfOne == ASSUME NEW m PROVE Range(<<m>>) = {m}
BY DEF Range

LEMMA RangeOfSeq ==
    ASSUME NEW S, NEW q \in Seq(S)
    PROVE  /\ Range(q) \subseteq S
           /\ \A i \in 1 .. Len(q) : q[i] \in Range(q)
           /\ \A m \in Range(q) : \E i \in 1 .. Len(q) : m = q[i]
BY DEF Range

LEMMA RangeOfPart ==
    ASSUME NEW S, NEW q \in Seq(S), NEW a \in Nat \ {0}, NEW b \in 0 .. Len(q)
    PROVE  SubSeq(q, a, b) \in Seq(S) /\ Range(SubSeq(q, a, b)) \subseteq Range(q)
BY DEF Range

LEMMA RangeOfTail ==
    ASSUME NEW S, NEW q \in Seq(S), q # <<>>
    PROVE  Tail(q) \in Seq(S) /\ Range(Tail(q)) \subseteq Range(q) /\ Head(q) \in Range(q)
BY DEF Range

LEMMA AppendedSeq ==
    ASSUME NEW S, NEW q \in Seq(S), NEW b \in S
    PROVE  /\ Len(q) \in Nat /\ Len(Append(q, b)) = Len(q) + 1
           /\ Append(q, b)[Len(q) + 1] = b
           /\ \A i \in 1 .. Len(q) : Append(q, b)[i] = q[i]
OBVIOUS

LEMMA TailOfSeq ==
    ASSUME NEW S, NEW q \in Seq(S), q # <<>>
    PROVE  /\ Len(q) \in Nat \ {0} /\ Len(Tail(q)) = Len(q) - 1 /\ Head(q) = q[1] /\ q[1] \in S
           /\ \A i \in 1 .. Len(Tail(q)) : Tail(q)[i] = q[i + 1]
OBVIOUS

\* A batch without its block meta
LEMMA BatchParts ==
    ASSUME NEW S, NEW b \in Seq(S), b # <<>>
    PROVE  /\ NotMetas(b) \in Seq(S) /\ Metas(b) \in Seq(S)
           /\ Range(NotMetas(b)) \subseteq Range(b)
           /\ Range(Metas(b)) \subseteq Range(b)
           /\ \A m \in Range(b) : m \in Range(NotMetas(b)) \/ IsMeta(m)
<1>1. CASE EndsInMeta(b)
  <2>1. /\ NotMetas(b) = SubSeq(b, 1, Len(b) - 1)
        /\ Metas(b) = <<b[Len(b)]>>
    BY <1>1 DEF NotMetas, Metas
  <2>2. Len(b) \in Nat \ {0} /\ Len(b) - 1 \in 0 .. Len(b) /\ b[Len(b)] \in S
    OBVIOUS
  <2>3. NotMetas(b) \in Seq(S) /\ Range(NotMetas(b)) \subseteq Range(b)
    BY <2>1, <2>2, RangeOfPart
  <2>4. Metas(b) \in Seq(S) /\ Range(Metas(b)) \subseteq Range(b)
    BY <2>1, <2>2, RangeOfOne, RangeOfSeq
  <2>5. ASSUME NEW m \in Range(b), ~IsMeta(m) PROVE m \in Range(NotMetas(b))
    <3>1. PICK i \in 1 .. Len(b) : m = b[i]
      BY RangeOfSeq
    <3>2. i # Len(b)
      BY <3>1, <2>5, <1>1 DEF EndsInMeta
    <3>3. i \in 1 .. Len(NotMetas(b)) /\ NotMetas(b)[i] = m
      BY <3>1, <3>2, <2>1, <2>2
    <3> QED
      BY <3>3, <2>3, RangeOfSeq
  <2> QED
    BY <2>3, <2>4, <2>5
<1>2. CASE ~EndsInMeta(b)
  <2>1. NotMetas(b) = b /\ Metas(b) = <<>>
    BY <1>2 DEF NotMetas, Metas
  <2> QED
    BY <2>1 DEF Range
<1> QED
  BY <1>1, <1>2

LEMMA ChannelAppend ==
    ASSUME NEW S, NEW q \in Seq(S), NEW b, NEW m
    PROVE  InChannel(Append(q, b), m) => InChannel(q, m) \/ m \in Range(b)
BY DEF InChannel

LEMMA ChannelJoin ==
    ASSUME NEW S, NEW q \in Seq(S), NEW r \in Seq(S), NEW m
    PROVE  InChannel(q \o r, m) => InChannel(q, m) \/ InChannel(r, m)
<1> SUFFICES ASSUME InChannel(q \o r, m), ~InChannel(q, m) PROVE InChannel(r, m)
  OBVIOUS
<1>1. PICK i \in 1 .. Len(q \o r) : m \in Range((q \o r)[i])
  BY DEF InChannel
<1>2. ~(i <= Len(q))
  BY <1>1 DEF InChannel
<1>3. i - Len(q) \in 1 .. Len(r) /\ (q \o r)[i] = r[i - Len(q)]
  BY <1>1, <1>2
<1> QED
  BY <1>1, <1>3 DEF InChannel

LEMMA ChannelOfOne ==
    ASSUME NEW b, NEW m
    PROVE  /\ InChannel(<<b>>, m) => m \in Range(b)
           /\ ~InChannel(<<>>, m)
BY DEF InChannel

LEMMA ChannelPart ==
    ASSUME NEW S, NEW q \in Seq(S), NEW a \in Nat \ {0}, NEW b \in 0 .. Len(q), NEW m
    PROVE  InChannel(SubSeq(q, a, b), m) => InChannel(q, m)
<1> SUFFICES ASSUME InChannel(SubSeq(q, a, b), m) PROVE InChannel(q, m)
  OBVIOUS
<1>1. PICK i \in 1 .. Len(SubSeq(q, a, b)) : m \in Range(SubSeq(q, a, b)[i])
  BY DEF InChannel
<1>2. a + i - 1 \in 1 .. Len(q) /\ SubSeq(q, a, b)[i] = q[a + i - 1]
  BY <1>1
<1> QED
  BY <1>1, <1>2 DEF InChannel

LEMMA ChannelTail ==
    ASSUME NEW S, NEW q \in Seq(S), q # <<>>, NEW m
    PROVE  /\ InChannel(Tail(q), m) => InChannel(q, m)
           /\ m \in Range(Head(q)) => InChannel(q, m)
<1>1. ASSUME InChannel(Tail(q), m) PROVE InChannel(q, m)
  <2>1. PICK i \in 1 .. Len(Tail(q)) : m \in Range(Tail(q)[i])
    BY <1>1 DEF InChannel
  <2>2. i + 1 \in 1 .. Len(q) /\ Tail(q)[i] = q[i + 1]
    BY <2>1
  <2> QED
    BY <2>1, <2>2 DEF InChannel
<1>2. ASSUME m \in Range(Head(q)) PROVE InChannel(q, m)
  <2>1. 1 \in 1 .. Len(q) /\ Head(q) = q[1]
    OBVIOUS
  <2> QED
    BY <1>2, <2>1 DEF InChannel
<1> QED
  BY <1>1, <1>2

-----------------------------------------------------------------------------
(* The types are kept                                                      *)

LEMMA ChannelTypesKept ==
    ASSUME ChannelTypes, [Next]_vars
    PROVE  ChannelTypes'
<1> USE DEF pluginVars, loopVars
<1>1. CASE Plugin
  <2> PICK s \in Slots : \/ UpdateSlotStatusLifecycle(s)
                         \/ NotifyBlockMetadata(s)
                         \/ \E l \in NotifiedLevels : UpdateSlotStatusCommitment(s, l)
                         \/ \E d \in Data : NotifyData(s, d)
    BY <1>1 DEF Plugin
  <2>1. CASE UpdateSlotStatusLifecycle(s)
    BY <2>1, MessageTypes DEF UpdateSlotStatusLifecycle, ChannelTypes
  <2>2. CASE NotifyBlockMetadata(s)
    BY <2>2, MessageTypes DEF NotifyBlockMetadata, ChannelTypes
  <2>3. ASSUME NEW l \in NotifiedLevels, UpdateSlotStatusCommitment(s, l) PROVE ChannelTypes'
    <3>1. <<Status(s, l)>> \in Batches
      BY MessageTypes, DeliveryAssumption DEF Batches, Levels, Processed, Finalized
    <3> QED
      BY <2>3, <3>1 DEF UpdateSlotStatusCommitment, ChannelTypes
  <2>4. ASSUME NEW d \in Data, NotifyData(s, d) PROVE ChannelTypes'
    BY <2>4, MessageTypes DEF NotifyData, ChannelTypes
  <2> QED
    BY <2>1, <2>2, <2>3, <2>4
<1>2. CASE GeyserBroadcast
  <2>1. PICK k \in BatchSizes : /\ taken' = SubSeq(grpc_channel, 1, k)
                                /\ grpc_channel' = SubSeq(grpc_channel, k + 1, Len(grpc_channel))
    BY <1>2 DEF GeyserBroadcast
  <2>2. k \in 1 .. Len(grpc_channel)
    BY DEF BatchSizes
  <2>3. taken' \in Seq(CallbackMessages) /\ grpc_channel' \in Seq(CallbackMessages)
    BY <2>1, <2>2 DEF ChannelTypes
  <2> QED
    BY <1>2, <2>3 DEF GeyserBroadcast, ChannelTypes
<1>3. CASE GeyserForward
  <2>1. taken \in Seq(ReconstructMessages) /\ taken # <<>>
    BY <1>3, MessageSets DEF GeyserForward, ChannelTypes
  <2>2. /\ NotMetas(taken) # <<>> => NotMetas(taken) \in Batches
        /\ Metas(taken) # <<>> => Metas(taken) \in Batches
    BY <2>1, BatchParts DEF Batches
  <2>3. /\ (IF NotMetas(taken) = <<>> THEN <<>> ELSE <<NotMetas(taken)>>) \in Seq(Batches)
        /\ (IF Metas(taken) = <<>> THEN <<>> ELSE <<Metas(taken)>>) \in Seq(Batches)
    BY <2>2
  <2> QED
    BY <1>3, <2>3 DEF GeyserForward, ChannelTypes
<1>4. CASE ReconstructTake
  <2>1. PICK n \in 1 .. Len(block_reconstruction_channel) :
          /\ work' = SubSeq(block_reconstruction_channel, 1, n)
          /\ block_reconstruction_channel' =
                SubSeq(block_reconstruction_channel, n + 1, Len(block_reconstruction_channel))
    BY <1>4 DEF ReconstructTake
  <2>2. work' \in Seq(Batches) /\ block_reconstruction_channel' \in Seq(Batches)
    BY <2>1 DEF ChannelTypes
  <2> QED
    BY <1>4, <2>2 DEF ReconstructTake, ChannelTypes
<1>5. CASE ReconstructAdd
  <2>1. Head(work) \in Batches /\ Tail(work) \in Seq(Batches)
    BY <1>5 DEF ReconstructAdd, ChannelTypes
  <2>2. ASSUME NEW b \in Batches, Len(b) # 1 PROVE Tail(b) \in Batches
    <3>1. b \in Seq(ReconstructMessages) /\ b # <<>>
      BY DEF Batches
    <3>2. Tail(b) \in Seq(ReconstructMessages) /\ Len(Tail(b)) = Len(b) - 1 /\ Len(b) - 1 # 0
      BY <2>2, <3>1
    <3>3. Tail(b) # <<>>
      BY <3>2
    <3> QED
      BY <3>2, <3>3 DEF Batches
  <2>3. work' \in Seq(Batches)
    BY <1>5, <2>1, <2>2 DEF ReconstructAdd
  <2> QED
    BY <1>5, <2>3 DEF ReconstructAdd, ChannelTypes
<1>6. ASSUME NEW s \in Slots, ReconstructStatus(s) PROVE ChannelTypes'
  BY <1>6 DEF ReconstructStatus, ChannelTypes
<1>7. CASE PopReadyBlock \/ ReconstructBroadcast \/ ServeReplay \/ DrainUnfiltered \/ SetFilter
           \/ DeliverReplay \/ DeliverLive \/ Disconnect
  BY <1>7 DEF PopReadyBlock, ReconstructBroadcast, ServeReplay, DrainUnfiltered, SetFilter,
              DeliverReplay, DeliverLive, Disconnect, ChannelTypes
<1>8. CASE UNCHANGED vars
  BY <1>8 DEF vars, ChannelTypes
<1> QED
  BY <1>1, <1>2, <1>3, <1>4, <1>5, <1>6, <1>7, <1>8 DEF Next

\* The head of the work is a message for the storage.
LEMMA WorkHead ==
    ASSUME ChannelTypes, work # <<>>
    PROVE  /\ Head(work) \in Seq(ReconstructMessages) /\ Head(work) # <<>>
           /\ Head(Head(work)) \in ReconstructMessages
           /\ Head(Head(work)) \in Range(Head(work))
<1>1. Head(work) \in Batches
  BY DEF ChannelTypes
<1>2. Head(work) \in Seq(ReconstructMessages) /\ Head(work) # <<>>
  BY <1>1 DEF Batches
<1> QED
  BY <1>2, RangeOfTail, RangeOfSeq

\* A slot freezes with all its data, and stays as it is.
LEMMA FreezeKeeps ==
    ASSUME StorageTypes, NEW s \in Slots, Freeze(s),
           content' \in [Slots -> SUBSET Data],
           \A t \in frozen : content'[t] = content[t],
           UNCHANGED <<wanted, emitted, ready>>
    PROVE  StorageTypes'
<1>1. frozen \subseteq frozen' /\ frozen' \subseteq frozen \cup {s} /\ replayed' \subseteq frozen'
      /\ (s \in frozen' => s \in frozen \/ content'[s] = Data)
  BY DEF Freeze, StorageTypes
<1>2. ready' \in Seq(frozen' \X Levels)
  BY <1>1 DEF StorageTypes
<1> QED
  BY <1>1, <1>2 DEF StorageTypes

LEMMA StorageTypesKept ==
    ASSUME ChannelTypes, StorageTypes, [Next]_vars
    PROVE  StorageTypes'
<1> USE DEF storageVars
<1>1. CASE Plugin
  BY <1>1 DEF Plugin, UpdateSlotStatusLifecycle, NotifyBlockMetadata, UpdateSlotStatusCommitment,
              NotifyData, StorageTypes
<1>2. CASE GeyserBroadcast \/ GeyserForward \/ ReconstructTake
  BY <1>2 DEF GeyserBroadcast, GeyserForward, ReconstructTake, StorageTypes
<1>3. CASE ReconstructAdd
  <2> PICK m : m = Head(Head(work))
    OBVIOUS
  <2>1. m \in ReconstructMessages /\ UNCHANGED <<emitted, ready>>
        /\ (AddCreated(m) \/ AddData(m) \/ AddMeta(m) \/ AddStatus(m))
    BY <1>3, WorkHead DEF ReconstructAdd
  <2>2. m.slot \in Slots /\ (m.kind = "data" => m.arg \in Data) /\ (m.kind = "status" => m.arg \in Levels)
    BY <2>1 DEF ReconstructMessages, CallbackMessages, Messages
  <2>3. CASE AddCreated(m)
    BY <2>1, <2>3 DEF AddCreated, StorageTypes
  <2>4. CASE AddData(m)
    <3>1. content' \in [Slots -> SUBSET Data] /\ \A t \in frozen : content'[t] = content[t]
      BY <2>2, <2>4 DEF AddData, StorageTypes
    <3>2. Freeze(m.slot) /\ UNCHANGED wanted
      BY <2>4 DEF AddData
    <3> QED
      BY <2>1, <2>2, <3>1, <3>2, FreezeKeeps
  <2>5. CASE AddMeta(m)
    <3>1. content' \in [Slots -> SUBSET Data] /\ \A t \in frozen : content'[t] = content[t]
      BY <2>5 DEF AddMeta, StorageTypes
    <3>2. Freeze(m.slot) /\ UNCHANGED wanted
      BY <2>5 DEF AddMeta
    <3> QED
      BY <2>1, <2>2, <3>1, <3>2, FreezeKeeps
  <2>6. CASE AddStatus(m)
    <3>1. wanted' \in [Slots -> 0 .. Finalized]
      BY <2>2, <2>6 DEF AddStatus, StorageTypes, Levels, Processed, Finalized
    <3> QED
      BY <2>1, <2>6, <3>1 DEF AddStatus, StorageTypes
  <2> QED
    BY <2>1, <2>3, <2>4, <2>5, <2>6
<1>4. ASSUME NEW s \in Slots, ReconstructStatus(s) PROVE StorageTypes'
  <2>1. s \in frozen /\ emitted[s] + 1 \in Levels
    BY <1>4 DEF ReconstructStatus, StatusDue, StorageTypes, Levels, Processed, Finalized
  <2>2. emitted' \in [Slots -> 0 .. Finalized] /\ ready' \in Seq(frozen \X Levels)
    BY <1>4, <2>1 DEF ReconstructStatus, StorageTypes, Levels, Processed, Finalized
  <2>3. replayed' \subseteq replayed
    BY <1>4 DEF ReconstructStatus, GcKeeps
  <2> QED
    BY <1>4, <2>2, <2>3 DEF ReconstructStatus, StorageTypes
<1>5. CASE PopReadyBlock
  <2>1. ready' \in Seq(frozen \X Levels)
    BY <1>5 DEF PopReadyBlock, StorageTypes
  <2> QED
    BY <1>5, <2>1 DEF PopReadyBlock, StorageTypes
<1>6. CASE ReconstructBroadcast \/ ServeReplay \/ DrainUnfiltered \/ SetFilter
           \/ DeliverReplay \/ DeliverLive \/ Disconnect
  BY <1>6 DEF ReconstructBroadcast, ServeReplay, DrainUnfiltered, SetFilter,
              DeliverReplay, DeliverLive, Disconnect, StorageTypes
<1>7. CASE UNCHANGED vars
  BY <1>7 DEF vars, StorageTypes
<1> QED
  BY <1>1, <1>2, <1>3, <1>4, <1>5, <1>6, <1>7 DEF Next

\* The ring takes batches of messages.
LEMMA BroadcastTypes ==
    ASSUME rx \in Seq(Seq(Messages)), NEW l, NEW batch \in Seq(Messages), Broadcast(l, batch)
    PROVE  rx' \in Seq(Seq(Messages))
<1>1. rx' = rx \/ rx' = <<>> \/ rx' = Append(rx, batch)
  BY DEF Broadcast
<1>2. Append(rx, batch) \in Seq(Seq(Messages)) /\ <<>> \in Seq(Seq(Messages))
  OBVIOUS
<1> QED
  BY <1>1, <1>2, Zenon

Holdings == [data : [Slots -> SUBSET Data], block : SUBSET Slots, status : [Slots -> SUBSET Levels]]

LEMMA ReceiveTypes ==
    ASSUME NEW g \in Holdings, NEW msgs
    PROVE  Receive(g, msgs) \in Holdings
<1>1. [s \in Slots |-> IF ContentOf(s) \in msgs THEN Data
                       ELSE g.data[s] \cup {d \in Data : DataOf(s, d) \in msgs}]
        \in [Slots -> SUBSET Data]
  BY DEF Holdings
<1>2. g.block \cup {s \in Slots : Block(s) \in msgs} \in SUBSET Slots
  BY DEF Holdings
<1>3. [s \in Slots |-> g.status[s] \cup {l \in Levels : Status(s, l) \in msgs}]
        \in [Slots -> SUBSET Levels]
  BY DEF Holdings
<1> QED
  BY <1>1, <1>2, <1>3 DEF Receive, Holdings

\* What is received adds to what the client holds.
LEMMA ReceiveAdds ==
    ASSUME NEW g \in Holdings, NEW msgs, NEW s \in Slots
    PROVE  /\ \A d \in Data : d \in g.data[s] \/ DataOf(s, d) \in msgs \/ ContentOf(s) \in msgs
                                 => d \in Receive(g, msgs).data[s]
           /\ s \in Receive(g, msgs).block <=> s \in g.block \/ Block(s) \in msgs
           /\ \A l \in Levels : l \in Receive(g, msgs).status[s] <=>
                                    l \in g.status[s] \/ Status(s, l) \in msgs
BY DEF Receive, Holdings

\* What is sent for a ready block
LEMMA FanOutTypes ==
    ASSUME NEW s \in Slots, NEW l \in Nat
    PROVE  FanOut(s, l) \in Seq((SUBSET Nat) \X Seq(Messages))
<1>1. /\ <<ContentOf(s)>> \in Seq(Messages)
      /\ <<Block(s)>> \in Seq(Messages)
      /\ <<Status(s, l)>> \in Seq(Messages)
  BY MessageTypes
<1>2. {l} \in SUBSET Nat /\ Levels \in SUBSET Nat
  BY DEF Levels, Processed, Finalized
<1>3. /\ <<{l}, <<ContentOf(s)>>>> \in (SUBSET Nat) \X Seq(Messages)
      /\ <<{l}, <<Block(s)>>>> \in (SUBSET Nat) \X Seq(Messages)
      /\ <<Levels, <<Status(s, l)>>>> \in (SUBSET Nat) \X Seq(Messages)
  BY <1>1, <1>2
<1>4. ASSUME NEW S, NEW a \in S, NEW b \in S, NEW c \in S
      PROVE  <<a>> \o <<b, c>> \in Seq(S) /\ <<>> \o <<b, c>> \in Seq(S)
  OBVIOUS
<1> QED
  BY <1>3, <1>4 DEF FanOut

LEMMA ClientTypesKept ==
    ASSUME ChannelTypes, StorageTypes, ClientTypes, [Next]_vars
    PROVE  ClientTypes'
<1> USE DEF requestVars, loopVars
<1>1. CASE Plugin
  <2> PICK s \in Slots : \/ UpdateSlotStatusLifecycle(s)
                         \/ NotifyBlockMetadata(s)
                         \/ \E l \in NotifiedLevels : UpdateSlotStatusCommitment(s, l)
                         \/ \E d \in Data : NotifyData(s, d)
    BY <1>1 DEF Plugin
  <2>1. CASE UpdateSlotStatusLifecycle(s)
    <3>1. <<CreatedBank(s)>> \in Seq(Messages)
      BY MessageTypes, MessageSets
    <3>2. rx' \in Seq(Seq(Messages))
      BY <2>1, <3>1, BroadcastTypes DEF UpdateSlotStatusLifecycle, ClientTypes
    <3> QED
      BY <2>1, <3>2 DEF UpdateSlotStatusLifecycle, ClientTypes
  <2>2. CASE NotifyBlockMetadata(s)
    BY <2>2 DEF NotifyBlockMetadata, ClientTypes
  <2>3. ASSUME NEW l \in NotifiedLevels, UpdateSlotStatusCommitment(s, l) PROVE ClientTypes'
    BY <2>3 DEF UpdateSlotStatusCommitment, ClientTypes
  <2>4. ASSUME NEW d \in Data, NotifyData(s, d) PROVE ClientTypes'
    BY <2>4 DEF NotifyData, ClientTypes
  <2> QED
    BY <2>1, <2>2, <2>3, <2>4
<1>2. CASE GeyserBroadcast
  <2>1. PICK k \in BatchSizes :
          IF NotMetas(SubSeq(grpc_channel, 1, k)) = <<>> THEN UNCHANGED <<rx, lagged>>
          ELSE Broadcast(Processed, NotMetas(SubSeq(grpc_channel, 1, k)))
    BY <1>2 DEF GeyserBroadcast
  <2>2. k \in 1 .. Len(grpc_channel) /\ grpc_channel \in Seq(Messages)
    BY MessageSets DEF BatchSizes, ChannelTypes
  <2>3. SubSeq(grpc_channel, 1, k) \in Seq(Messages) /\ SubSeq(grpc_channel, 1, k) # <<>>
    BY <2>2
  <2>4. NotMetas(SubSeq(grpc_channel, 1, k)) \in Seq(Messages)
    BY <2>3, BatchParts
  <2>5. rx' \in Seq(Seq(Messages))
    BY <2>1, <2>4, BroadcastTypes DEF ClientTypes
  <2> QED
    BY <1>2, <2>5 DEF GeyserBroadcast, ClientTypes
<1>3. CASE GeyserForward \/ ReconstructTake \/ ReconstructAdd \/ \E s \in Slots : ReconstructStatus(s)
  <2>1. UNCHANGED <<level, outbox, rx, got, pc, early, request, response>>
    BY <1>3 DEF GeyserForward, ReconstructTake, ReconstructAdd, ReconstructStatus
  <2> QED
    BY <2>1 DEF ClientTypes
<1>4. CASE PopReadyBlock
  <2>1. Head(ready) \in frozen \X Levels
    BY <1>4 DEF PopReadyBlock, StorageTypes
  <2>2. Head(ready)[1] \in Slots /\ Head(ready)[2] \in Nat
    BY <2>1 DEF StorageTypes, Levels, Processed, Finalized
  <2>3. outbox' \in Seq((SUBSET Nat) \X Seq(Messages))
    BY <1>4, <2>2, FanOutTypes DEF PopReadyBlock
  <2> QED
    BY <1>4, <2>3 DEF PopReadyBlock, ClientTypes
<1>5. CASE ReconstructBroadcast
  <2>1. Head(outbox) \in (SUBSET Nat) \X Seq(Messages)
        /\ outbox' \in Seq((SUBSET Nat) \X Seq(Messages))
    BY <1>5 DEF ReconstructBroadcast, ClientTypes
  <2>2. Head(outbox)[2] \in Seq(Messages)
    BY <2>1
  <2>3. rx' \in Seq(Seq(Messages))
    BY <1>5, <2>2, BroadcastTypes DEF ReconstructBroadcast, ClientTypes
  <2> QED
    BY <1>5, <2>1, <2>3 DEF ReconstructBroadcast, ClientTypes
<1>6. CASE ServeReplay
  BY <1>6 DEF ServeReplay, ClientTypes
<1>7. CASE DrainUnfiltered
  BY <1>7 DEF DrainUnfiltered, ClientTypes
<1>8. CASE SetFilter
  <2>1. level' \in Levels /\ pc' # "start" /\ rx' \in Seq(Seq(Messages))
    BY <1>8, DeliveryAssumption DEF SetFilter, ClientTypes, Levels, Processed, Finalized
  <2>2. got' \in Holdings
    BY <1>8 DEF SetFilter, Holdings, Nothing
  <2>3. pc # "replay" /\ UNCHANGED <<response, outbox>> /\ (request' => pc' = "await")
    BY <1>8 DEF SetFilter
  <2> QED
    BY <2>1, <2>2, <2>3 DEF ClientTypes, Holdings
<1>9. CASE DeliverReplay
  <2>1. got' \in Holdings
    BY <1>9, ReceiveTypes DEF DeliverReplay, ClientTypes, Holdings
  <2> QED
    BY <1>9, <2>1 DEF DeliverReplay, ClientTypes, Holdings
<1>10. CASE DeliverLive
  <2>1. got' \in Holdings
    BY <1>10, ReceiveTypes DEF DeliverLive, ClientTypes, Holdings
  <2> QED
    BY <1>10, <2>1 DEF DeliverLive, ClientTypes, Holdings
<1>11. CASE Disconnect
  BY <1>11 DEF Disconnect, ClientTypes
<1>12. CASE UNCHANGED vars
  BY <1>12 DEF vars, ClientTypes
<1> QED
  BY <1>1, <1>2, <1>3, <1>4, <1>5, <1>6, <1>7, <1>8, <1>9, <1>10, <1>11, <1>12 DEF Next

\* Until the validator notifies something no task has anything to do.
LEMMA EmptyKept ==
    ASSUME StorageTypes, EmptyInv, [Next]_vars
    PROVE  EmptyInv'
<1> SUFFICES ASSUME notified' = {} PROVE EmptyInv'
  BY DEF EmptyInv
<1> USE DEF pluginVars, loopVars, storageVars, requestVars
<1>1. ~Plugin
  BY DEF Plugin, UpdateSlotStatusLifecycle, NotifyBlockMetadata, UpdateSlotStatusCommitment,
         NotifyData, Notify
<1>2. notified = {}
  BY <1>1 DEF Next, GeyserBroadcast, GeyserForward, ReconstructTake, ReconstructAdd,
     ReconstructStatus, PopReadyBlock, ReconstructBroadcast, ServeReplay, DrainUnfiltered,
     SetFilter, DeliverReplay, DeliverLive, Disconnect, vars
<1>3. ~GeyserBroadcast /\ ~GeyserForward /\ ~ReconstructTake /\ ~ReconstructAdd
      /\ ~PopReadyBlock /\ ~ReconstructBroadcast /\ ~DrainUnfiltered /\ ~DeliverLive
  BY <1>2 DEF EmptyInv, GeyserBroadcast, BatchSizes, GeyserForward, ReconstructTake,
     ReconstructAdd, PopReadyBlock, ReconstructBroadcast, DrainUnfiltered, DeliverLive
<1>4. ASSUME NEW s \in Slots PROVE ~ReconstructStatus(s)
  BY <1>2 DEF EmptyInv, ReconstructStatus, StatusDue, StorageTypes
<1>5. ServeReplay \/ SetFilter \/ DeliverReplay \/ Disconnect \/ UNCHANGED vars
  BY <1>1, <1>3, <1>4 DEF Next
<1> QED
  BY <1>2, <1>5 DEF EmptyInv, ServeReplay, SetFilter, DeliverReplay, Disconnect, vars

-----------------------------------------------------------------------------
(* The order is kept                                                       *)

\* What was on its way to the client still is.
RingGrows ==
    /\ \A s \in Slots, d \in Data : DataBy(s, d, Len(rx)) => DataBy(s, d, Len(rx))'
    /\ \A s \in Slots : BlockBy(s, Len(rx)) => BlockBy(s, Len(rx))'

\* A broadcast goes behind what is in the ring.
LEMMA BroadcastSends ==
    ASSUME ClientTypes, Following => RxInOrder,
           NEW l, NEW batch \in Seq(Messages), Broadcast(l, batch),
           UNCHANGED <<got, early, pc, level>>,
           Following /\ l = level => Follows(batch, Len(rx)),
           Following'
    PROVE  /\ Following /\ RxInOrder' /\ RingGrows
           /\ l = level =>
                /\ \A s \in Slots, d \in Data : CarriesData(batch, s, d) => DataBy(s, d, Len(rx))'
                /\ \A s \in Slots : CarriesBlock(batch, s) => BlockBy(s, Len(rx))'
<1>1. Following /\ (l = level => rx' = Append(rx, batch)) /\ (l # level => rx' = rx)
  BY DEF Following, Broadcast
<1>2. CASE l # level
  BY <1>1, <1>2 DEF RxInOrder, RingGrows, Follows, DataBy, BlockBy
<1>3. CASE l = level
  <2>1. /\ Len(rx) \in Nat /\ Len(rx') = Len(rx) + 1 /\ rx'[Len(rx) + 1] = batch
        /\ \A i \in 1 .. Len(rx) : rx'[i] = rx[i]
    <3>1. rx \in Seq(Seq(Messages)) /\ rx' = Append(rx, batch)
      BY <1>1, <1>3 DEF ClientTypes
    <3> QED
      BY <3>1, AppendedSeq
  <2>2. ASSUME NEW n \in 0 .. Len(rx), NEW s \in Slots
        PROVE  /\ \A d \in Data : DataBy(s, d, n) => DataBy(s, d, n)'
               /\ BlockBy(s, n) => BlockBy(s, n)'
    BY <2>1 DEF DataBy, BlockBy
  <2>3. ASSUME NEW s \in Slots
        PROVE  /\ \A d \in Data : DataBy(s, d, Len(rx)) => DataBy(s, d, Len(rx))'
               /\ BlockBy(s, Len(rx)) => BlockBy(s, Len(rx))'
    BY <2>1 DEF DataBy, BlockBy
  <2>4. ASSUME NEW s \in Slots
        PROVE  /\ \A d \in Data : CarriesData(batch, s, d) => DataBy(s, d, Len(rx))'
               /\ CarriesBlock(batch, s) => BlockBy(s, Len(rx))'
    <3>1. Len(rx') \in 1 .. Len(rx') /\ rx'[Len(rx')] = batch
      BY <2>1
    <3> QED
      BY <3>1 DEF DataBy, BlockBy
  <2>5. ASSUME NEW i \in 1 .. Len(rx') PROVE Follows(rx[i], i - 1)'
    <3>1. i - 1 \in 0 .. Len(rx) /\ Follows(rx'[i], i - 1)
      <4>1. CASE i = Len(rx) + 1
        BY <1>1, <1>3, <2>1, <4>1
      <4>2. CASE i # Len(rx) + 1
        BY <1>1, <2>1, <4>2 DEF RxInOrder
      <4> QED
        BY <4>1, <4>2
    <3> QED
      BY <2>2, <3>1 DEF Follows
  <2> QED
    BY <1>1, <2>3, <2>4, <2>5 DEF RxInOrder, RingGrows
<1> QED
  BY <1>2, <1>3

\* What a step has to show that leaves the client alone, but for the ring.
LEMMA FrameKept ==
    ASSUME SentInv, UNCHANGED <<level, early, got, response>>,
           Following' => Following /\ RxInOrder' /\ RingGrows
    PROVE  /\ ContentThenBlockThenStatus'
           /\ ResponseInOrder'
           /\ Following' /\ UNCHANGED outbox => OutboxInOrder'
           /\ (Following' /\ \A s \in Slots, d \in Data : OnTheWay(s, d)' => OnTheWay(s, d))
                 => BroadcastFirst'
<1>1. ContentThenBlockThenStatus' /\ ResponseInOrder'
  BY DEF SentInv, ContentThenBlockThenStatus, ResponseInOrder
<1>2. ASSUME Following', UNCHANGED outbox PROVE OutboxInOrder'
  BY <1>2 DEF SentInv, OutboxInOrder, RingGrows, ToUs
<1>3. ASSUME Following', \A s \in Slots, d \in Data : OnTheWay(s, d)' => OnTheWay(s, d)
      PROVE  BroadcastFirst'
  BY <1>3 DEF SentInv, BroadcastFirst, RingGrows
<1> QED
  BY <1>1, <1>2, <1>3

\* In particular one that leaves the ring alone, too.
LEMMA QuietRing ==
    ASSUME SentInv, UNCHANGED <<level, early, got, rx>>, Following' => Following
    PROVE  Following' => Following /\ RxInOrder' /\ RingGrows
<1>1. RingGrows
  BY DEF RingGrows, DataBy, BlockBy
<1>2. ASSUME Following' PROVE RxInOrder'
  BY <1>2 DEF SentInv, RxInOrder, Follows, DataBy, BlockBy
<1> QED
  BY <1>1, <1>2

\* A callback sends nothing that the client has to wait for.
LEMMA CallbackFollows ==
    ASSUME NEW batch \in Seq(CallbackMessages), NEW n
    PROVE  Follows(batch, n)
<1>1. Range(batch) \subseteq CallbackMessages
  BY RangeOfSeq
<1>2. \A s \in Slots : Block(s) \notin Range(batch) /\ Status(s, level) \notin Range(batch)
  BY <1>1, MessageKinds, MessageSets
<1> QED
  BY <1>2 DEF Follows, CarriesBlock

LEMMA PluginSends ==
    ASSUME DeliveryInv, Plugin
    PROVE  SentInv'
<1> USE DEF requestVars, loopVars, storageVars
<1> PICK s \in Slots : \/ UpdateSlotStatusLifecycle(s)
                       \/ NotifyBlockMetadata(s)
                       \/ \E l \in NotifiedLevels : UpdateSlotStatusCommitment(s, l)
                       \/ \E d \in Data : NotifyData(s, d)
  BY DEF Plugin
<1>1. UNCHANGED <<level, early, got, response, pc, outbox>>
  BY DEF UpdateSlotStatusLifecycle, NotifyBlockMetadata, UpdateSlotStatusCommitment, NotifyData
<1>2. Following' => Following /\ RxInOrder' /\ RingGrows
  <2>1. CASE UNCHANGED <<rx, lagged>>
    BY <1>1, <2>1, QuietRing DEF DeliveryInv, Following
  <2>2. CASE ~UNCHANGED <<rx, lagged>>
    <3>1. UpdateSlotStatusLifecycle(s)
      BY <2>2 DEF NotifyBlockMetadata, UpdateSlotStatusCommitment, NotifyData
    <3>2. Broadcast(level, <<CreatedBank(s)>>)
      BY <2>2, <3>1 DEF UpdateSlotStatusLifecycle
    <3>3. <<CreatedBank(s)>> \in Seq(CallbackMessages) /\ <<CreatedBank(s)>> \in Seq(Messages)
      BY MessageTypes, MessageSets
    <3>4. Follows(<<CreatedBank(s)>>, Len(rx))
      BY <3>3, CallbackFollows
    <3>5. ClientTypes /\ (Following => RxInOrder)
      BY DEF DeliveryInv, SentInv
    <3> QED
      BY <1>1, <3>2, <3>3, <3>4, <3>5, BroadcastSends
  <2> QED
    BY <2>1, <2>2
<1>3. ASSUME NEW t \in Slots, NEW d \in Data, OnTheWay(t, d)' PROVE OnTheWay(t, d)
  <2>1. UNCHANGED <<taken, work, content>>
    BY DEF UpdateSlotStatusLifecycle, NotifyBlockMetadata, UpdateSlotStatusCommitment, NotifyData
  <2>2. InChannel(block_reconstruction_channel, DataOf(t, d))' =>
            InChannel(block_reconstruction_channel, DataOf(t, d))
    <3>1. CASE UNCHANGED block_reconstruction_channel
      BY <3>1 DEF InChannel
    <3>2. CASE ~UNCHANGED block_reconstruction_channel
      <4>1. PICK l \in NotifiedLevels : UpdateSlotStatusCommitment(s, l)
        BY <3>2 DEF UpdateSlotStatusLifecycle, NotifyBlockMetadata, NotifyData
      <4>2. block_reconstruction_channel' = Append(block_reconstruction_channel, <<Status(s, l)>>)
        BY <4>1 DEF UpdateSlotStatusCommitment
      <4>3. DataOf(t, d) \notin Range(<<Status(s, l)>>)
        BY RangeOfOne, MessagesDiffer
      <4>4. block_reconstruction_channel \in Seq(Batches)
        BY DEF DeliveryInv, ChannelTypes
      <4>5. InChannel(Append(block_reconstruction_channel, <<Status(s, l)>>), DataOf(t, d)) =>
                InChannel(block_reconstruction_channel, DataOf(t, d))
        BY <4>3, <4>4, ChannelAppend
      <4> QED
        BY <4>2, <4>5 DEF InChannel
    <3> QED
      BY <3>1, <3>2
  <2> QED
    BY <1>3, <2>1, <2>2 DEF OnTheWay, InChannel
<1> QED
  BY <1>1, <1>2, <1>3, FrameKept DEF DeliveryInv, SentInv

\* geyser_loop broadcasts a batch before it has it to forward.
LEMMA GeyserBroadcastSends ==
    ASSUME DeliveryInv, GeyserBroadcast
    PROVE  SentInv'
<1> USE DEF requestVars, loopVars, storageVars
<1>1. PICK k \in BatchSizes :
          /\ taken' = SubSeq(grpc_channel, 1, k)
          /\ IF NotMetas(SubSeq(grpc_channel, 1, k)) = <<>> THEN UNCHANGED <<rx, lagged>>
             ELSE Broadcast(Processed, NotMetas(SubSeq(grpc_channel, 1, k)))
  BY DEF GeyserBroadcast
<1> PICK batch : batch = SubSeq(grpc_channel, 1, k)
  OBVIOUS
<1>2. batch \in Seq(CallbackMessages) /\ batch # <<>>
  <2>1. k \in 1 .. Len(grpc_channel)
    BY DEF BatchSizes
  <2>2. grpc_channel \in Seq(CallbackMessages)
    BY DEF DeliveryInv, ChannelTypes
  <2> QED
    BY <2>1, <2>2
<1>3. /\ NotMetas(batch) \in Seq(CallbackMessages)
      /\ \A m \in Range(batch) : m \in Range(NotMetas(batch)) \/ IsMeta(m)
  BY ONLY <1>2, BatchParts
<1>4. NotMetas(batch) \in Seq(Messages) /\ Follows(NotMetas(batch), Len(rx))
  BY <1>3, MessageSets, CallbackFollows
<1>5. UNCHANGED <<level, early, got, response, pc, outbox, block_reconstruction_channel, work, content>>
  BY DEF GeyserBroadcast
<1>6. ClientTypes /\ (Following => RxInOrder)
  BY DEF DeliveryInv, SentInv
<1>7. Following' => Following /\ RxInOrder' /\ RingGrows
  <2>1. CASE NotMetas(batch) = <<>>
    BY <1>1, <1>5, <2>1, QuietRing DEF DeliveryInv, Following
  <2>2. CASE NotMetas(batch) # <<>>
    BY <1>1, <1>4, <1>5, <1>6, <2>2, BroadcastSends
  <2> QED
    BY <2>1, <2>2
<1>8. ASSUME Following' PROVE BroadcastFirst'
  <2> SUFFICES ASSUME level' = Processed, NEW s \in Slots, NEW d \in Data, OnTheWay(s, d)'
               PROVE  DataBy(s, d, Len(rx))'
    BY DEF BroadcastFirst
  <2>1. CASE OnTheWay(s, d)
    BY <1>5, <1>7, <1>8, <2>1 DEF DeliveryInv, SentInv, BroadcastFirst, RingGrows
  <2>2. CASE DataOf(s, d) \in Range(taken')
    <3>1. DataOf(s, d) \in Range(NotMetas(batch))
      BY <1>1, <1>3, <2>2, MessageKinds
    <3>2. NotMetas(batch) # <<>>
      BY <3>1 DEF Range
    <3>3. CarriesData(NotMetas(batch), s, d) /\ level = Processed
      BY <1>5, <3>1 DEF CarriesData
    <3>4. Broadcast(Processed, NotMetas(batch))
      BY <1>1, <3>2
    <3> QED
      BY <1>4, <1>5, <1>6, <1>8, <3>3, <3>4, BroadcastSends
  <2> QED
    BY <1>5, <2>1, <2>2 DEF OnTheWay, InChannel
<1> QED
  BY <1>5, <1>7, <1>8, FrameKept DEF DeliveryInv, SentInv

\* Moving what is on the way to the reconstruction along, and taking it in
LEMMA MovesKept ==
    ASSUME SentInv, UNCHANGED <<level, early, got, response, pc, lagged, rx, outbox>>,
           \A s \in Slots, d \in Data : OnTheWay(s, d)' => OnTheWay(s, d)
    PROVE  SentInv'
<1>1. Following' => Following /\ RxInOrder' /\ RingGrows
  BY QuietRing DEF Following
<1> QED
  BY <1>1, FrameKept DEF SentInv

LEMMA ForwardSends ==
    ASSUME DeliveryInv, GeyserForward
    PROVE  SentInv'
<1> USE DEF requestVars, loopVars, storageVars
<1>1. UNCHANGED <<level, early, got, response, pc, lagged, rx, outbox, work, content>>
  BY DEF GeyserForward
<1>2. taken \in Seq(ReconstructMessages) /\ taken # <<>> /\ taken' = <<>>
  BY MessageSets DEF GeyserForward, DeliveryInv, ChannelTypes
<1>3. /\ NotMetas(taken) \in Seq(ReconstructMessages) /\ Metas(taken) \in Seq(ReconstructMessages)
      /\ Range(NotMetas(taken)) \subseteq Range(taken)
      /\ Range(Metas(taken)) \subseteq Range(taken)
  BY <1>2, BatchParts
<1> PICK q, a, b : /\ q = block_reconstruction_channel
                   /\ a = (IF NotMetas(taken) = <<>> THEN <<>> ELSE <<NotMetas(taken)>>)
                   /\ b = (IF Metas(taken) = <<>> THEN <<>> ELSE <<Metas(taken)>>)
  OBVIOUS
<1>4. block_reconstruction_channel' = q \o a \o b
  BY DEF GeyserForward
<1>5. q \in Seq(Batches) /\ a \in Seq(Batches) /\ b \in Seq(Batches) /\ q \o a \in Seq(Batches)
  <2>1. q \in Seq(Batches)
    BY DEF DeliveryInv, ChannelTypes
  <2>2. /\ NotMetas(taken) # <<>> => NotMetas(taken) \in Batches
        /\ Metas(taken) # <<>> => Metas(taken) \in Batches
    BY <1>3 DEF Batches
  <2>3. a \in Seq(Batches) /\ b \in Seq(Batches)
    BY <2>2
  <2> QED
    BY <2>1, <2>3
<1>6. ASSUME NEW m, InChannel(q \o a \o b, m) PROVE InChannel(q, m) \/ m \in Range(taken)
  <2>1. InChannel(q \o a, m) \/ InChannel(b, m)
    BY <1>5, <1>6, ChannelJoin
  <2>2. InChannel(q \o a, m) => InChannel(q, m) \/ InChannel(a, m)
    BY <1>5, ChannelJoin
  <2> QED
    BY <1>3, <2>1, <2>2, ChannelOfOne
<1>7. ASSUME NEW s \in Slots, NEW d \in Data, OnTheWay(s, d)' PROVE OnTheWay(s, d)
  <2>1. DataOf(s, d) \notin Range(taken')
    BY <1>2 DEF Range
  <2>2. InChannel(block_reconstruction_channel, DataOf(s, d))' => InChannel(q \o a \o b, DataOf(s, d))
    BY <1>4 DEF InChannel
  <2> QED
    BY <1>1, <1>6, <1>7, <2>1, <2>2 DEF OnTheWay, InChannel
<1> QED
  BY <1>1, <1>7, MovesKept DEF DeliveryInv

LEMMA TakeSends ==
    ASSUME DeliveryInv, ReconstructTake
    PROVE  SentInv'
<1> USE DEF requestVars, loopVars, storageVars
<1>1. UNCHANGED <<level, early, got, response, pc, lagged, rx, outbox, taken, content>>
  BY DEF ReconstructTake
<1> PICK q : q = block_reconstruction_channel
  OBVIOUS
<1>2. PICK n \in 1 .. Len(q) : /\ work' = SubSeq(q, 1, n)
                               /\ block_reconstruction_channel' = SubSeq(q, n + 1, Len(q))
  BY DEF ReconstructTake
<1>3. q \in Seq(Batches)
  BY DEF DeliveryInv, ChannelTypes
<1>4. n + 1 \in Nat \ {0} /\ 1 \in Nat \ {0} /\ n \in 0 .. Len(q) /\ Len(q) \in 0 .. Len(q)
  BY <1>2, <1>3
<1>5. ASSUME NEW m PROVE /\ InChannel(SubSeq(q, 1, n), m) => InChannel(q, m)
                         /\ InChannel(SubSeq(q, n + 1, Len(q)), m) => InChannel(q, m)
  BY <1>3, <1>4, ChannelPart
<1>6. ASSUME NEW s \in Slots, NEW d \in Data, OnTheWay(s, d)' PROVE OnTheWay(s, d)
  <2>1. /\ InChannel(block_reconstruction_channel, DataOf(s, d))' =>
             InChannel(SubSeq(q, n + 1, Len(q)), DataOf(s, d))
        /\ InChannel(work, DataOf(s, d))' => InChannel(SubSeq(q, 1, n), DataOf(s, d))
    BY <1>2 DEF InChannel
  <2> QED
    BY <1>1, <1>5, <1>6, <2>1 DEF OnTheWay
<1> QED
  BY <1>1, <1>6, MovesKept DEF DeliveryInv

LEMMA AddSends ==
    ASSUME DeliveryInv, ReconstructAdd
    PROVE  SentInv'
<1> USE DEF requestVars, loopVars, storageVars
<1>1. UNCHANGED <<level, early, got, response, pc, lagged, rx, outbox, taken,
                  block_reconstruction_channel>>
  BY DEF ReconstructAdd
<1> PICK q, b, m : q = work /\ b = Head(work) /\ m = Head(Head(work))
  OBVIOUS
<1>2. q \in Seq(Batches) /\ q # <<>> /\ Tail(q) \in Seq(Batches) /\ b \in Batches
  BY DEF DeliveryInv, ChannelTypes, ReconstructAdd
<1>3. b \in Seq(ReconstructMessages) /\ b # <<>> /\ m \in ReconstructMessages /\ m \in Range(b)
  BY WorkHead DEF DeliveryInv, ReconstructAdd
<1>4. work' = IF Len(b) = 1 THEN Tail(q) ELSE <<Tail(b)>> \o Tail(q)
  BY DEF ReconstructAdd
<1>5. ASSUME NEW x, InChannel(work, x)' PROVE InChannel(work, x)
  <2>1. InChannel(IF Len(b) = 1 THEN Tail(q) ELSE <<Tail(b)>> \o Tail(q), x)
    BY <1>4, <1>5 DEF InChannel
  <2>2. InChannel(Tail(q), x) \/ x \in Range(Tail(b))
    <3>1. CASE Len(b) = 1
      BY <2>1, <3>1
    <3>2. CASE Len(b) # 1
      <4>1. <<Tail(b)>> \in Seq(Seq(ReconstructMessages)) /\ Tail(q) \in Seq(Seq(ReconstructMessages))
        BY <1>2, <1>3 DEF Batches
      <4> QED
        BY <2>1, <3>2, <4>1, ChannelJoin, ChannelOfOne
    <3> QED
      BY <3>1, <3>2
  <2>3. InChannel(Tail(q), x) \/ x \in Range(b)
    BY <1>3, <2>2, RangeOfTail
  <2> QED
    BY <1>2, <2>3, ChannelTail
<1>6. InChannel(work, m)
  BY <1>2, <1>3, ChannelTail
<1>7. ASSUME NEW s \in Slots, NEW d \in Data, d \in content'[s], d \notin content[s]
      PROVE  m = DataOf(s, d)
  <2>1. AddCreated(m) \/ AddData(m) \/ AddMeta(m) \/ AddStatus(m)
    BY DEF ReconstructAdd
  <2>2. AddData(m)
    BY <1>7, <2>1 DEF AddCreated, AddMeta, AddStatus
  <2>3. m.kind = "data" /\ m.slot = s /\ m.arg = d
    BY <1>7, <2>2 DEF AddData, DeliveryInv, StorageTypes
  <2>4. m = [kind |-> m.kind, slot |-> m.slot, arg |-> m.arg]
    BY <1>3, MessageSets DEF Messages
  <2> QED
    BY <2>3, <2>4 DEF DataOf, Msg
<1>8. ASSUME NEW s \in Slots, NEW d \in Data, OnTheWay(s, d)' PROVE OnTheWay(s, d)
  <2>1. InChannel(work, DataOf(s, d))' => InChannel(work, DataOf(s, d))
    BY <1>5
  <2>2. InChannel(block_reconstruction_channel, DataOf(s, d))' =>
           InChannel(block_reconstruction_channel, DataOf(s, d))
    BY <1>1 DEF InChannel
  <2>3. d \in content'[s] => d \in content[s] \/ InChannel(work, DataOf(s, d))
    BY <1>6, <1>7
  <2> QED
    BY <1>1, <1>8, <2>1, <2>2, <2>3 DEF OnTheWay
<1> QED
  BY <1>1, <1>8, MovesKept DEF DeliveryInv

\* A ready block is at hand with all its content: at Processed that has been broadcast.
LEMMA PopSends ==
    ASSUME DeliveryInv, PopReadyBlock
    PROVE  SentInv'
<1> USE DEF requestVars, loopVars, storageVars
<1>1. UNCHANGED <<level, early, got, response, pc, lagged, rx, taken, block_reconstruction_channel,
                  work, content>>
  BY DEF PopReadyBlock
<1> PICK s, l : s = Head(ready)[1] /\ l = Head(ready)[2]
  OBVIOUS
<1>2. Head(ready) \in frozen \X Levels
  BY DEF PopReadyBlock, DeliveryInv, StorageTypes
<1>3. s \in Slots /\ l \in Nat /\ content[s] = Data
  BY <1>2 DEF DeliveryInv, StorageTypes, Levels, Processed, Finalized
<1>4. outbox' = FanOut(s, l)
  BY DEF PopReadyBlock
<1>5. Following' => Following /\ RxInOrder' /\ RingGrows
  BY <1>1, QuietRing DEF DeliveryInv, Following
<1>6. ASSUME NEW t \in Slots, NEW d \in Data, OnTheWay(t, d)' PROVE OnTheWay(t, d)
  BY <1>1, <1>6 DEF OnTheWay, InChannel
<1>7. level \in Levels /\ Processed \in Levels
  BY DEF DeliveryInv, ClientTypes, Levels, Processed, Finalized
<1>8. ASSUME Following' PROVE OutboxInOrder'
  <2>1. CASE l = Processed
    <3>1. outbox' = <<<<{l}, <<Block(s)>>>>, <<Levels, <<Status(s, l)>>>>>>
      <4>1. ASSUME NEW a, NEW b PROVE <<>> \o <<a, b>> = <<a, b>>
        OBVIOUS
      <4> QED
        BY <1>4, <2>1, <4>1 DEF FanOut
    <3>2. /\ Len(outbox') = 2
          /\ outbox'[1][1] = {l} /\ outbox'[1][2] = <<Block(s)>>
          /\ outbox'[2][2] = <<Status(s, l)>>
      BY <3>1
    <3>3. Range(outbox'[1][2]) = {Block(s)} /\ Range(outbox'[2][2]) = {Status(s, l)}
      BY <3>2, RangeOfOne
    <3>4. ASSUME level = l, NEW d \in Data PROVE DataBy(s, d, Len(rx))'
      <4>1. Following /\ level = Processed /\ OnTheWay(s, d)
        BY <1>3, <1>5, <1>8, <2>1, <3>4 DEF OnTheWay
      <4> QED
        BY <1>3, <1>5, <1>8, <4>1 DEF DeliveryInv, SentInv, BroadcastFirst, RingGrows
    <3>5. ASSUME NEW i \in 1 .. Len(outbox'), ToUs(i)', NEW t \in Slots
          PROVE  /\ CarriesBlock(outbox'[i][2], t) => \A d \in Data : DataBy(t, d, Len(rx))'
                 /\ Status(t, level') \in Range(outbox'[i][2]) =>
                       \E j \in 1 .. i - 1 : ToUs(j)' /\ CarriesBlock(outbox'[j][2], t)
      <4>1. CASE i = 1
        <5>1. level = l
          BY <1>1, <3>2, <3>5, <4>1 DEF ToUs
        <5>2. Status(t, level') \notin Range(outbox'[i][2])
          <6>1. \A k : Status(t, k) # Block(s)
            BY DEF Status, Block, Msg
          <6>2. \A m \in Range(outbox'[1][2]) : m = Block(s)
            BY <3>3
          <6>3. PICK k : k = level'
            OBVIOUS
          <6>4. Status(t, k) \notin Range(outbox'[1][2])
            BY <6>1, <6>2
          <6> QED
            BY <4>1, <6>3, <6>4
        <5>3. CarriesBlock(outbox'[i][2], t) => t = s
          BY <3>3, <4>1, MessagesDiffer DEF CarriesBlock
        <5> QED
          BY <3>4, <5>1, <5>2, <5>3
      <4>2. CASE i = 2
        <5>1. ~CarriesBlock(outbox'[i][2], t)
          BY <3>3, <4>2, MessagesDiffer DEF CarriesBlock
        <5>2. Status(t, level') \in Range(outbox'[i][2]) => t = s /\ level' = l
          BY <3>3, <4>2, MessagesDiffer
        <5>3. level' = l => ToUs(1)' /\ CarriesBlock(outbox'[1][2], s)
          BY <3>2, <3>3 DEF ToUs, CarriesBlock
        <5>4. 1 \in 1 .. i - 1
          BY <4>2
        <5> QED
          BY <5>1, <5>2, <5>3, <5>4
      <4> QED
        BY <3>2, <4>1, <4>2
    <3> QED
      BY <3>5 DEF OutboxInOrder
  <2>2. CASE l # Processed
    <3>1. /\ Len(outbox') = 3
          /\ outbox'[1] = <<{l}, <<ContentOf(s)>>>>
          /\ outbox'[2] = <<{l}, <<Block(s)>>>>
          /\ outbox'[3] = <<Levels, <<Status(s, l)>>>>
      <4>1. ASSUME NEW a, NEW b, NEW c, NEW q, q = <<a>> \o <<b, c>>
            PROVE  Len(q) = 3 /\ q[1] = a /\ q[2] = b /\ q[3] = c
        BY <4>1
      <4> QED
        BY <1>4, <2>2, <4>1 DEF FanOut
    <3>2. /\ Len(outbox') = 3
          /\ outbox'[1][1] = {l} /\ outbox'[1][2] = <<ContentOf(s)>>
          /\ outbox'[2][1] = {l} /\ outbox'[2][2] = <<Block(s)>>
          /\ outbox'[3][2] = <<Status(s, l)>>
      BY <3>1
    <3>3. /\ Range(outbox'[1][2]) = {ContentOf(s)}
          /\ Range(outbox'[2][2]) = {Block(s)} 
          /\ Range(outbox'[3][2]) = {Status(s, l)}
      BY <3>2, RangeOfOne
    <3>4. ASSUME NEW i \in 1 .. Len(outbox'), ToUs(i)', NEW t \in Slots
          PROVE  /\ CarriesBlock(outbox'[i][2], t) => \A d \in Data :
                       \E j \in 1 .. i - 1 : ToUs(j)' /\ CarriesData(outbox'[j][2], t, d)
                 /\ Status(t, level') \in Range(outbox'[i][2]) =>
                       \E j \in 1 .. i - 1 : ToUs(j)' /\ CarriesBlock(outbox'[j][2], t)
      <4>1. CASE i = 1
        BY <3>3, <4>1, MessagesDiffer DEF CarriesBlock
      <4>2. CASE i = 2
        <5>1. Status(t, level') \notin Range(outbox'[i][2])
          BY <3>3, <4>2, MessagesDiffer
        <5>2. CarriesBlock(outbox'[i][2], t) => t = s
          BY <3>3, <4>2, MessagesDiffer DEF CarriesBlock
        <5>3. ToUs(1)' /\ \A d \in Data : CarriesData(outbox'[1][2], s, d)
          BY <3>2, <3>3, <3>4, <4>2 DEF ToUs, CarriesData
        <5>4. 1 \in 1 .. i - 1
          BY <4>2
        <5> QED
          BY <5>1, <5>2, <5>3, <5>4
      <4>3. CASE i = 3
        <5>1. ~CarriesBlock(outbox'[i][2], t)
          BY <3>3, <4>3, MessagesDiffer DEF CarriesBlock
        <5>2. Status(t, level') \in Range(outbox'[i][2]) => t = s /\ level' = l
          <6>1. Range(outbox'[i][2]) = {Status(s, l)}
            BY <3>3, <4>3
          <6> QED
            BY <6>1 DEF Status, Msg
        <5>3. level' = l => ToUs(2)' /\ CarriesBlock(outbox'[2][2], s)
          BY <3>2, <3>3 DEF ToUs, CarriesBlock
        <5>4. 2 \in 1 .. i - 1
          BY <4>3
        <5> QED
          BY <5>1, <5>2, <5>3, <5>4
      <4> QED
        BY <3>2, <4>1, <4>2, <4>3
    <3> QED
      BY <3>4 DEF OutboxInOrder
  <2> QED
    BY <2>1, <2>2
<1> QED
  BY <1>1, <1>5, <1>6, <1>8, FrameKept DEF DeliveryInv, SentInv

\* block_reconstruction_loop sends what it has ready, in order.
LEMMA ReconstructBroadcastSends ==
    ASSUME DeliveryInv, ReconstructBroadcast
    PROVE  SentInv'
<1> USE DEF requestVars, loopVars, storageVars
<1>1. UNCHANGED <<level, early, got, response, pc, taken, block_reconstruction_channel, work, content>>
  BY DEF ReconstructBroadcast
<1>2. /\ Len(outbox) \in Nat \ {0} /\ Head(outbox) = outbox[1]
      /\ outbox[1] \in (SUBSET Nat) \X Seq(Messages)
      /\ Len(outbox') = Len(outbox) - 1
      /\ \A i \in 1 .. Len(outbox') : outbox'[i] = outbox[i + 1]
  BY DEF ReconstructBroadcast, DeliveryInv, ClientTypes
<1> PICK batch : batch = outbox[1][2]
  OBVIOUS
<1>3. batch \in Seq(Messages)
  BY <1>2
<1>4. ClientTypes /\ (Following => RxInOrder)
  BY DEF DeliveryInv, SentInv
<1>5. IF ToUs(1) THEN Broadcast(level, batch) ELSE UNCHANGED <<rx, lagged>>
  BY <1>2 DEF ReconstructBroadcast, ToUs
<1>6. Following /\ ToUs(1) => Follows(batch, Len(rx))
  <2>1. 1 \in 1 .. Len(outbox) /\ \A j : j \notin 1 .. 1 - 1
    BY <1>2
  <2> QED
    BY <2>1 DEF DeliveryInv, SentInv, OutboxInOrder, Follows
<1>7. ASSUME Following'
      PROVE  /\ Following /\ RxInOrder' /\ RingGrows
             /\ ToUs(1) =>
                /\ \A s \in Slots, d \in Data : CarriesData(batch, s, d) => DataBy(s, d, Len(rx))'
                /\ \A s \in Slots : CarriesBlock(batch, s) => BlockBy(s, Len(rx))'
  <2>1. CASE ToUs(1)
    BY <1>1, <1>3, <1>4, <1>5, <1>6, <1>7, <2>1, BroadcastSends
  <2>2. CASE ~ToUs(1)
    BY <1>1, <1>5, <1>7, <2>2, QuietRing DEF DeliveryInv, Following
  <2> QED
    BY <2>1, <2>2
<1>8. ASSUME NEW t \in Slots, NEW d \in Data, OnTheWay(t, d)' PROVE OnTheWay(t, d)
  BY <1>1, <1>8 DEF OnTheWay, InChannel
<1>9. ASSUME Following' PROVE OutboxInOrder'
  <2> SUFFICES ASSUME NEW i \in 1 .. Len(outbox'), ToUs(i)', NEW s \in Slots
               PROVE
        /\ CarriesBlock(outbox'[i][2], s) =>
              \A d \in Data : \/ DataBy(s, d, Len(rx))'
                              \/ \E j \in 1 .. i - 1 : ToUs(j)' /\ CarriesData(outbox'[j][2], s, d)
        /\ Status(s, level') \in Range(outbox'[i][2]) =>
              \/ BlockBy(s, Len(rx))'
              \/ \E j \in 1 .. i - 1 : ToUs(j)' /\ CarriesBlock(outbox'[j][2], s)
    BY DEF OutboxInOrder
  <2>1. i + 1 \in 1 .. Len(outbox) /\ outbox'[i] = outbox[i + 1] /\ ToUs(i + 1)
    BY <1>1, <1>2 DEF ToUs
  <2>2. ASSUME NEW j \in 1 .. (i + 1) - 1, j # 1
        PROVE  j - 1 \in 1 .. i - 1 /\ outbox'[j - 1] = outbox[j] /\ (ToUs(j) => ToUs(j - 1)')
    <3>1. j - 1 \in 1 .. i - 1 /\ j - 1 \in 1 .. Len(outbox') /\ (j - 1) + 1 = j
      BY <1>2, <2>2
    <3>2. outbox'[j - 1] = outbox[j]
      BY <1>2, <3>1
    <3> QED
      BY <1>1, <3>1, <3>2 DEF ToUs
  <2>3. /\ Following /\ OutboxInOrder /\ RingGrows
        /\ ToUs(1) =>
             /\ \A d \in Data : CarriesData(batch, s, d) => DataBy(s, d, Len(rx))'
             /\ CarriesBlock(batch, s) => BlockBy(s, Len(rx))'
    BY <1>7, <1>9 DEF DeliveryInv, SentInv
  <2>4. ASSUME CarriesBlock(outbox'[i][2], s), NEW d \in Data
        PROVE  \/ DataBy(s, d, Len(rx))'
               \/ \E j \in 1 .. i - 1 : ToUs(j)' /\ CarriesData(outbox'[j][2], s, d)
    <3>1. \/ DataBy(s, d, Len(rx))
          \/ \E j \in 1 .. (i + 1) - 1 : ToUs(j) /\ CarriesData(outbox[j][2], s, d)
      BY <2>1, <2>3, <2>4 DEF OutboxInOrder
    <3>2. CASE DataBy(s, d, Len(rx))
      BY <2>3, <3>2 DEF RingGrows
    <3>3. ASSUME NEW j \in 1 .. (i + 1) - 1, ToUs(j), CarriesData(outbox[j][2], s, d)
          PROVE  \/ DataBy(s, d, Len(rx))'
                 \/ \E k \in 1 .. i - 1 : ToUs(k)' /\ CarriesData(outbox'[k][2], s, d)
      <4>1. CASE j = 1
        BY <2>3, <3>3, <4>1
      <4>2. CASE j # 1
        <5>1. j - 1 \in 1 .. i - 1 /\ ToUs(j - 1)' /\ CarriesData(outbox'[j - 1][2], s, d)
          BY <2>2, <3>3, <4>2
        <5> QED
          BY <5>1
      <4> QED
        BY <4>1, <4>2
    <3> QED
      BY <3>1, <3>2, <3>3
  <2>5. ASSUME Status(s, level') \in Range(outbox'[i][2])
        PROVE  \/ BlockBy(s, Len(rx))'
               \/ \E j \in 1 .. i - 1 : ToUs(j)' /\ CarriesBlock(outbox'[j][2], s)
    <3>1. \/ BlockBy(s, Len(rx))
          \/ \E j \in 1 .. (i + 1) - 1 : ToUs(j) /\ CarriesBlock(outbox[j][2], s)
      BY <1>1, <2>1, <2>3, <2>5 DEF OutboxInOrder
    <3>2. CASE BlockBy(s, Len(rx))
      BY <2>3, <3>2 DEF RingGrows
    <3>3. ASSUME NEW j \in 1 .. (i + 1) - 1, ToUs(j), CarriesBlock(outbox[j][2], s)
          PROVE  \/ BlockBy(s, Len(rx))'
                 \/ \E k \in 1 .. i - 1 : ToUs(k)' /\ CarriesBlock(outbox'[k][2], s)
      <4>1. CASE j = 1
        BY <2>3, <3>3, <4>1
      <4>2. CASE j # 1
        <5>1. j - 1 \in 1 .. i - 1 /\ ToUs(j - 1)' /\ CarriesBlock(outbox'[j - 1][2], s)
          BY <2>2, <3>3, <4>2
        <5> QED
          BY <5>1
      <4> QED
        BY <4>1, <4>2
    <3> QED
      BY <3>1, <3>2, <3>3
  <2> QED
    BY <2>4, <2>5
<1> QED
  BY <1>1, <1>7, <1>8, <1>9, FrameKept DEF DeliveryInv, SentInv

-----------------------------------------------------------------------------
(* The client                                                              *)

\* What is received in order stays in order.
LEMMA ReceivedInOrder ==
    ASSUME ClientTypes, ContentThenBlockThenStatus, NEW msgs, got' = Receive(got, msgs),
           UNCHANGED <<level, early>>,
           early => \A s \in Slots :
                      /\ Block(s) \in msgs => \A d \in Data : \/ d \in got.data[s]
                                                              \/ ContentOf(s) \in msgs
                      /\ Status(s, level) \in msgs => s \in got.block \/ Block(s) \in msgs
    PROVE  ContentThenBlockThenStatus'
<1> SUFFICES ASSUME early, NEW s \in Slots
             PROVE  /\ s \in got'.block => got'.data[s] = Data
                    /\ level \in got'.status[s] => s \in got'.block
  BY DEF ContentThenBlockThenStatus
<1>1. got \in Holdings /\ got' \in Holdings /\ level \in Levels
  BY ReceiveTypes DEF ClientTypes, Holdings
<1>2. got'.data[s] \subseteq Data
  BY <1>1 DEF Holdings
<1>3. /\ \A d \in Data : d \in got.data[s] \/ DataOf(s, d) \in msgs \/ ContentOf(s) \in msgs
                            => d \in got'.data[s]
      /\ s \in got'.block <=> s \in got.block \/ Block(s) \in msgs
      /\ level \in got'.status[s] <=> level \in got.status[s] \/ Status(s, level) \in msgs
  BY <1>1, ReceiveAdds
<1>4. ASSUME s \in got'.block PROVE got'.data[s] = Data
  <2>1. \A d \in Data : d \in got.data[s] \/ ContentOf(s) \in msgs
    BY <1>3, <1>4 DEF ContentThenBlockThenStatus
  <2> QED
    BY <1>2, <1>3, <2>1
<1>5. ASSUME level \in got'.status[s] PROVE s \in got'.block
  BY <1>3, <1>5 DEF ContentThenBlockThenStatus
<1> QED
  BY <1>4, <1>5

LEMMA ServeSends ==
    ASSUME DeliveryInv, ServeReplay
    PROVE  SentInv'
<1> USE DEF loopVars, storageVars
<1>1. UNCHANGED <<level, early, got, lagged, rx, outbox, taken, block_reconstruction_channel,
                  work, content>>
  BY DEF ServeReplay
<1>2. Following' => Following /\ RxInOrder' /\ RingGrows
  <2>1. Following' => Following
    BY <1>1 DEF ServeReplay, Following, DeliveryInv, ClientTypes
  <2> QED
    BY <1>1, <2>1, QuietRing DEF DeliveryInv
<1>3. ResponseInOrder'
  <2>1. CASE UNCHANGED response
    BY <1>1, <2>1 DEF DeliveryInv, SentInv, ResponseInOrder
  <2>2. CASE response' = ReplayMessages
    <3> SUFFICES ASSUME NEW s \in Slots
                 PROVE  /\ Block(s) \in ReplayMessages => ContentOf(s) \in ReplayMessages
                        /\ Status(s, level) \in ReplayMessages => Block(s) \in ReplayMessages
      BY <1>1, <2>2 DEF ResponseInOrder
    <3>1. ASSUME NEW m \in ReplayMessages, m = Block(s) \/ m = Status(s, level)
          PROVE  s \in ReplayedSlots
      <4>1. PICK t \in ReplayedSlots : m \in ReplayOf(t)
        BY DEF ReplayMessages
      <4>2. m = ContentOf(t) \/ m = Block(t) \/ \E l \in 1 .. emitted[t] : m = Status(t, l)
        BY <4>1 DEF ReplayOf
      <4>3. t = s
        BY <3>1, <4>2 DEF ContentOf, Block, Status, Msg
      <4> QED
        BY <4>1, <4>3
    <3>2. s \in ReplayedSlots => ContentOf(s) \in ReplayMessages /\ Block(s) \in ReplayMessages
      BY DEF ReplayMessages, ReplayOf
    <3> QED
      BY <3>1, <3>2
  <2> QED
    BY <2>1, <2>2 DEF ServeReplay
<1>4. ContentThenBlockThenStatus'
  BY <1>1 DEF DeliveryInv, SentInv, ContentThenBlockThenStatus
<1>5. ASSUME Following' PROVE OutboxInOrder' /\ BroadcastFirst'
  BY <1>1, <1>2, <1>5 DEF DeliveryInv, SentInv, OutboxInOrder, ToUs, BroadcastFirst, RingGrows,
                          OnTheWay, InChannel
<1> QED
  BY <1>2, <1>3, <1>4, <1>5 DEF SentInv

LEMMA SetFilterSends ==
    ASSUME DeliveryInv, SetFilter
    PROVE  SentInv'
<1> USE DEF loopVars, storageVars
<1>1. /\ pc # "replay" /\ got' = Nothing
      /\ UNCHANGED <<response, outbox, taken, block_reconstruction_channel, work, content>>
  BY DEF SetFilter
<1>2. response = {}
  BY <1>1 DEF DeliveryInv, ClientTypes
<1>3. ContentThenBlockThenStatus' /\ ResponseInOrder'
  BY <1>1, <1>2 DEF ContentThenBlockThenStatus, ResponseInOrder, Nothing
<1>4. ASSUME early' PROVE RxInOrder' /\ OutboxInOrder' /\ BroadcastFirst'
  <2>1. notified = {}
    BY <1>4 DEF SetFilter
  <2>2. /\ taken' = <<>> /\ block_reconstruction_channel' = <<>> /\ work' = <<>>
        /\ outbox' = <<>> /\ rx' = <<>> /\ \A s \in Slots : content'[s] = {}
    BY <1>1, <2>1 DEF SetFilter, DeliveryInv, EmptyInv
  <2>3. ASSUME NEW s \in Slots, NEW d \in Data PROVE ~OnTheWay(s, d)'
    BY <2>2 DEF OnTheWay, InChannel, Range
  <2> QED
    BY <2>2, <2>3 DEF RxInOrder, OutboxInOrder, BroadcastFirst
<1> QED
  BY <1>3, <1>4 DEF SentInv, Following

LEMMA DeliverReplaySends ==
    ASSUME DeliveryInv, DeliverReplay
    PROVE  SentInv'
<1> USE DEF loopVars, storageVars
<1>1. /\ UNCHANGED <<level, early, rx, lagged, outbox, taken, block_reconstruction_channel,
                     work, content>>
      /\ got' = Receive(got, response) /\ response' = {}
  BY DEF DeliverReplay
<1>2. ContentThenBlockThenStatus'
  <2>1. ClientTypes /\ ContentThenBlockThenStatus /\ ResponseInOrder
    BY DEF DeliveryInv, SentInv
  <2>2. \A s \in Slots :
           /\ Block(s) \in response => ContentOf(s) \in response
           /\ Status(s, level) \in response => Block(s) \in response
    BY <2>1 DEF ResponseInOrder
  <2> QED
    BY <1>1, <2>1, <2>2, ReceivedInOrder
<1>3. ResponseInOrder'
  BY <1>1 DEF ResponseInOrder
<1>4. got \in Holdings
  BY DEF DeliveryInv, ClientTypes, Holdings
<1>5. ASSUME NEW s \in Slots
      PROVE  /\ \A d \in Data : d \in got.data[s] => d \in got'.data[s]
             /\ s \in got.block => s \in got'.block
  BY <1>1, <1>4, ReceiveAdds
<1>6. ASSUME NEW s \in Slots, NEW n
      PROVE  /\ \A d \in Data : DataBy(s, d, n) => DataBy(s, d, n)'
             /\ BlockBy(s, n) => BlockBy(s, n)'
  BY <1>1, <1>5 DEF DataBy, BlockBy
<1>7. RingGrows
  BY <1>1, <1>5 DEF RingGrows, DataBy, BlockBy
<1>8. ASSUME Following' PROVE RxInOrder' /\ OutboxInOrder' /\ BroadcastFirst'
  <2>1. Following
    BY <1>1, <1>8 DEF DeliverReplay, Following
  <2>2. RxInOrder /\ OutboxInOrder /\ BroadcastFirst
    BY <2>1 DEF DeliveryInv, SentInv
  <2>3. RxInOrder'
    <3> SUFFICES ASSUME NEW i \in 1 .. Len(rx) PROVE Follows(rx[i], i - 1)'
      BY <1>1 DEF RxInOrder
    <3>1. Follows(rx[i], i - 1)
      BY <2>2 DEF RxInOrder
    <3> QED
      BY <1>1, <1>6, <3>1 DEF Follows
  <2>4. OutboxInOrder'
    BY <1>1, <1>7, <2>2 DEF OutboxInOrder, ToUs, RingGrows
  <2>5. BroadcastFirst'
    BY <1>1, <1>7, <2>2 DEF BroadcastFirst, RingGrows, OnTheWay, InChannel
  <2> QED
    BY <2>3, <2>4, <2>5
<1> QED
  BY <1>2, <1>3, <1>8 DEF SentInv

LEMMA DeliverLiveSends ==
    ASSUME DeliveryInv, DeliverLive
    PROVE  SentInv'
<1> USE DEF requestVars, loopVars, storageVars
<1>1. /\ UNCHANGED <<level, early, lagged, pc, response, outbox, taken, block_reconstruction_channel,
                     work, content>>
      /\ got' = Receive(got, Range(rx[1]))
      /\ Len(rx) \in Nat \ {0} /\ Len(rx') = Len(rx) - 1
      /\ \A i \in 1 .. Len(rx') : rx'[i] = rx[i + 1]
  BY DEF DeliverLive, DeliveryInv, ClientTypes
<1>2. early => Following /\ RxInOrder /\ OutboxInOrder /\ BroadcastFirst
  BY DEF DeliverLive, Following, DeliveryInv, SentInv
<1>3. ContentThenBlockThenStatus'
  <2>1. early => Follows(rx[1], 0)
    BY <1>1, <1>2 DEF RxInOrder
  <2>2. early => \A s \in Slots :
           /\ Block(s) \in Range(rx[1]) => \A d \in Data : d \in got.data[s]
           /\ Status(s, level) \in Range(rx[1]) => s \in got.block
    BY <2>1 DEF Follows, DataBy, BlockBy, CarriesBlock
  <2>3. ClientTypes /\ ContentThenBlockThenStatus
    BY DEF DeliveryInv, SentInv
  <2> QED
    BY <1>1, <2>2, <2>3, ReceivedInOrder
<1>4. ResponseInOrder'
  BY <1>1 DEF DeliveryInv, SentInv, ResponseInOrder
<1>5. got \in Holdings
  BY DEF DeliveryInv, ClientTypes, Holdings
<1>6. ASSUME NEW s \in Slots
      PROVE  /\ \A d \in Data : d \in got.data[s] \/ CarriesData(rx[1], s, d) => d \in got'.data[s]
             /\ s \in got.block \/ CarriesBlock(rx[1], s) => s \in got'.block
  BY <1>1, <1>5, ReceiveAdds DEF CarriesData, CarriesBlock
<1>7. ASSUME NEW s \in Slots, NEW n \in 1 .. Len(rx), NEW k, k = n - 1
      PROVE  /\ \A d \in Data : DataBy(s, d, n) => DataBy(s, d, k)'
             /\ BlockBy(s, n) => BlockBy(s, k)'
  <2>1. ASSUME NEW i \in 1 .. n, i # 1 PROVE i - 1 \in 1 .. k /\ rx'[i - 1] = rx[i]
    BY <1>1, <1>7, <2>1
  <2>2. ASSUME NEW d \in Data, DataBy(s, d, n) PROVE DataBy(s, d, k)'
    <3>1. CASE d \in got.data[s]
      BY <1>6, <3>1 DEF DataBy
    <3>2. ASSUME NEW i \in 1 .. n, CarriesData(rx[i], s, d) PROVE DataBy(s, d, k)'
      BY <1>6, <2>1, <3>2 DEF DataBy
    <3> QED
      BY <2>2, <3>1, <3>2 DEF DataBy
  <2>3. ASSUME BlockBy(s, n) PROVE BlockBy(s, k)'
    <3>1. CASE s \in got.block
      BY <1>6, <3>1 DEF BlockBy
    <3>2. ASSUME NEW i \in 1 .. n, CarriesBlock(rx[i], s) PROVE BlockBy(s, k)'
      BY <1>6, <2>1, <3>2 DEF BlockBy
    <3> QED
      BY <2>3, <3>1, <3>2 DEF BlockBy
  <2> QED
    BY <2>2, <2>3
<1>8. RingGrows
  <2> PICK n, k : n = Len(rx) /\ k = Len(rx')
    OBVIOUS
  <2>1. n \in 1 .. Len(rx) /\ k = n - 1
    BY <1>1
  <2>2. \A s \in Slots : /\ \A d \in Data : DataBy(s, d, n) => DataBy(s, d, k)'
                         /\ BlockBy(s, n) => BlockBy(s, k)'
    BY <1>7, <2>1
  <2> QED
    BY <2>2 DEF RingGrows, DataBy, BlockBy
<1>9. ASSUME Following' PROVE RxInOrder' /\ OutboxInOrder' /\ BroadcastFirst'
  <2>1. RxInOrder /\ OutboxInOrder /\ BroadcastFirst
    BY <1>1, <1>2, <1>9 DEF Following
  <2>2. ASSUME NEW i \in 1 .. Len(rx') PROVE Follows(rx[i], i - 1)'
    <3>1. i + 1 \in 1 .. Len(rx) /\ i \in 1 .. Len(rx) /\ rx'[i] = rx[i + 1] /\ (i + 1) - 1 = i
      BY <1>1
    <3>2. Follows(rx'[i], i)
      BY <2>1, <3>1 DEF RxInOrder
    <3> QED
      BY <1>1, <1>7, <3>1, <3>2 DEF Follows
  <2>3. OutboxInOrder'
    BY <1>1, <1>8, <2>1 DEF OutboxInOrder, ToUs, RingGrows
  <2>4. BroadcastFirst'
    BY <1>1, <1>8, <2>1 DEF BroadcastFirst, RingGrows, OnTheWay, InChannel
  <2> QED
    BY <2>2, <2>3, <2>4 DEF RxInOrder
<1> QED
  BY <1>3, <1>4, <1>9 DEF SentInv

-----------------------------------------------------------------------------
(* The theorem                                                             *)

LEMMA DeliveryInvInit == Init => DeliveryInv
<1> SUFFICES ASSUME Init PROVE DeliveryInv
  OBVIOUS
<1>1. ChannelTypes
  BY DEF Init, ChannelTypes
<1>2. StorageTypes
  BY DEF Init, StorageTypes, Finalized
<1>3. ClientTypes
  <2>1. Nothing \in Holdings
    BY DEF Nothing, Holdings
  <2> QED
    BY <2>1 DEF Init, ClientTypes, Holdings, Levels, Processed, Finalized
<1>4. EmptyInv
  BY DEF Init, EmptyInv
<1>5. SentInv
  BY DEF Init, SentInv, ContentThenBlockThenStatus, ResponseInOrder, Following
<1> QED
  BY <1>1, <1>2, <1>3, <1>4, <1>5 DEF DeliveryInv

LEMMA DeliveryInvNext ==
    ASSUME DeliveryInv, [Next]_vars
    PROVE  DeliveryInv'
<1>1. ChannelTypes' /\ StorageTypes' /\ ClientTypes' /\ EmptyInv'
  BY ChannelTypesKept, StorageTypesKept, ClientTypesKept, EmptyKept DEF DeliveryInv
<1>2. SentInv'
  <2>1. CASE Plugin
    BY <2>1, PluginSends
  <2>2. CASE GeyserBroadcast \/ GeyserForward
    BY <2>2, GeyserBroadcastSends, ForwardSends
  <2>3. CASE ReconstructTake \/ ReconstructAdd
    BY <2>3, TakeSends, AddSends
  <2>4. ASSUME NEW s \in Slots, ReconstructStatus(s) PROVE SentInv'
    <3>1. UNCHANGED <<level, early, got, response, pc, lagged, rx, outbox, taken,
                      block_reconstruction_channel, work, content>>
      BY <2>4 DEF ReconstructStatus, requestVars, loopVars
    <3>2. ASSUME NEW t \in Slots, NEW d \in Data, OnTheWay(t, d)' PROVE OnTheWay(t, d)
      BY <3>1, <3>2 DEF OnTheWay, InChannel
    <3> QED
      BY <3>1, <3>2, MovesKept DEF DeliveryInv
  <2>5. CASE PopReadyBlock \/ ReconstructBroadcast \/ ServeReplay
    BY <2>5, PopSends, ReconstructBroadcastSends, ServeSends
  <2>6. CASE SetFilter \/ DeliverReplay \/ DeliverLive
    BY <2>6, SetFilterSends, DeliverReplaySends, DeliverLiveSends
  <2>7. CASE DrainUnfiltered \/ Disconnect
    <3>1. UNCHANGED <<level, early, got, response>> /\ ~Following'
      BY <2>7 DEF DrainUnfiltered, Disconnect, Following, requestVars, DeliveryInv, ClientTypes
    <3> QED
      BY <3>1 DEF DeliveryInv, SentInv, ContentThenBlockThenStatus, ResponseInOrder
  <2>8. CASE UNCHANGED vars
    <3>1. UNCHANGED <<level, early, got, response, pc, lagged, rx, outbox, taken,
                      block_reconstruction_channel, work, content>>
      BY <2>8 DEF vars, requestVars, loopVars, storageVars
    <3>2. ASSUME NEW t \in Slots, NEW d \in Data, OnTheWay(t, d)' PROVE OnTheWay(t, d)
      BY <3>1, <3>2 DEF OnTheWay, InChannel
    <3> QED
      BY <3>1, <3>2, MovesKept DEF DeliveryInv
  <2> QED
    BY <2>1, <2>2, <2>3, <2>4, <2>5, <2>6, <2>7, <2>8 DEF Next
<1> QED
  BY <1>1, <1>2 DEF DeliveryInv

\* A client_loop that was there before the first notification gets the whole content of a
\* block before Message::Block, and that before the status of its level: geyser_loop's
\* broadcast of a transaction overtakes its way through block_reconstruction_loop, for every
\* set of slots, every batch size and every capacity of the channels and of the ring.
THEOREM BlockAlwaysFollowsItsContent == Spec => []ContentThenBlockThenStatus
<1>1. Init => DeliveryInv
  BY DeliveryInvInit
<1>2. DeliveryInv /\ [Next]_vars => DeliveryInv'
  BY DeliveryInvNext
<1>3. DeliveryInv => ContentThenBlockThenStatus
  BY DEF DeliveryInv, SentInv
<1> QED
  BY <1>1, <1>2, <1>3, PTL DEF Spec

-----------------------------------------------------------------------------
(* A subscriber that resumes                                               *)

\* A commitment reaches the ancestors of a slot too, and is only queued for frozen slots.
WantedInv ==
    /\ \A s, t \in Slots : s <= t => wanted[t] <= wanted[s]
    /\ \A s \in Slots : emitted[s] <= wanted[s] /\ (emitted[s] > 0 => s \in frozen)

\* What gc leaves is newer than what it drops, and enough of it is.  A slot that freezes below
\* one that was dropped is finalized at once: gc is about to drop it too.
FinalizedSlots == {s \in Slots : emitted[s] = Finalized}
Newer(t) == {s \in replayed : t < s}
Enough(S) ==
    /\ Cardinality(S) >= ReplayedCapacity
    /\ Cardinality(S \cap FinalizedSlots) >= MinimumFinalizedSlotToBuffer
PrunedInv ==
    \A t \in frozen \ replayed :
        /\ wanted[t] = Finalized
        /\ Enough(Newer(t))
        /\ \A s \in replayed : t < s \/ (wanted[s] = Finalized /\ emitted[s] < Finalized)

\* What has been sent of a slot's statuses has been queued before.
Queued(s, l) == \E i \in 1 .. Len(ready) : ready[i] = <<s, l>>
UnderWay(m) ==
    \/ \E i \in 1 .. Len(outbox) : m \in Range(outbox[i][2])
    \/ \E i \in 1 .. Len(rx) : m \in Range(rx[i])
StatusEmitted ==
    \A s \in Slots, l \in Levels : Queued(s, l) \/ UnderWay(Status(s, l)) => l <= emitted[s]

\* The response is there until it is delivered, and nothing is received before it.
ResponseFirst ==
    /\ response # {} => pc = "replay"
    /\ pc \in {"start", "await", "replay"} => got = Nothing

\* What the client is owed of slot s at its level, and at the later ones
Parts(s) == {ContentOf(s), Block(s)}
Due(s, l) == IF l = level THEN Parts(s) \cup {Status(s, l)} ELSE {Status(s, l)}

\* The client holds message m ...
Holds(m) ==
    CASE m.kind = "content" -> got.data[m.slot] = Data
      [] m.kind = "block"   -> m.slot \in got.block
      [] OTHER              -> m.arg \in got.status[m.slot]

\* ... or will once it has read the response and the first n batches of the ring, or these and
\* the first n of the outbox.
HeldBy(m, n) == Holds(m) \/ m \in response \/ \E i \in 1 .. n : m \in Range(rx[i])
SentBy(m, n) == HeldBy(m, Len(rx)) \/ \E i \in 1 .. n : ToUs(i) /\ m \in Range(outbox[i][2])

\* The subscriber has resumed and takes everything.
Resumed == from # 0 /\ level # Processed /\ pc \in {"replay", "live"}
Reading == Resumed /\ ~lagged

\* Every status that is due, and at the client's level the slot's content and block, is
\* held, on its way or still queued.
AllSent ==
    \A s \in Slots, l \in Levels : s >= from /\ level <= l /\ l <= emitted[s] =>
        Queued(s, l) \/ \A m \in Due(s, l) : SentBy(m, Len(outbox))

\* The parts of a slot come before the status of the client's level.
HeldInOrder == \A s \in Slots : s >= from /\ level \in got.status[s] => \A m \in Parts(s) : Holds(m)
RingInOrder ==
    \A i \in 1 .. Len(rx), s \in Slots :
        s >= from /\ Status(s, level) \in Range(rx[i]) => \A m \in Parts(s) : HeldBy(m, i - 1)
ToSendInOrder ==
    \A i \in 1 .. Len(outbox), s \in Slots :
        s >= from /\ ToUs(i) /\ Status(s, level) \in Range(outbox[i][2])
            => \A m \in Parts(s) : SentBy(m, i - 1)

ResumedInv ==
    /\ Resumed => HeldInOrder
    /\ Reading => AllSent /\ RingInOrder /\ ToSendInOrder

ReplayInv == from \in Nat /\ WantedInv /\ PrunedInv /\ StatusEmitted /\ ResponseFirst /\ ResumedInv

-----------------------------------------------------------------------------
(* The storage, and what it queues                                         *)

LEMMA LevelNumbers ==
    /\ Levels \subseteq Nat /\ 0 .. Finalized \subseteq Nat
    /\ \A l \in Levels : l >= 1 /\ l <= Finalized
    /\ Processed \in Levels
BY DEF Levels, Processed, Finalized

LEMMA OldestIsLeast ==
    ASSUME NEW S \in SUBSET Nat, S # {}
    PROVE  Oldest(S) \in S /\ \A t \in S : Oldest(S) <= t
<1>1. PICK e \in S : \A t \in S : ~(<<t, e>> \in OpToRel(<, Nat))
  BY NatLessThanWellFounded, WFMin
<1>2. \A t \in S : ~(t < e)
  BY <1>1 DEF OpToRel
<1>3. \A t \in S : e <= t
  BY <1>2
<1> QED
  BY <1>3 DEF Oldest

LEMMA NewestExists ==
    ASSUME NEW S \in SUBSET Nat, IsFiniteSet(S), NEW D \in SUBSET S, D # {}
    PROVE  \E d \in D : \A t \in D : t <= d
<1> DEFINE UpFrom(d) == {u \in S : d <= u}
           Sizes == {Cardinality(UpFrom(d)) : d \in D}
<1>1. ASSUME NEW d PROVE IsFiniteSet(UpFrom(d)) /\ Cardinality(UpFrom(d)) \in Nat
  BY FS_Subset, FS_CardinalityType
<1>2. Sizes \in SUBSET Nat /\ Sizes # {}
  BY <1>1
<1>3. PICK n : n = Oldest(Sizes)
  OBVIOUS
<1>4. n \in Sizes /\ \A m \in Sizes : n <= m
  BY <1>2, <1>3, OldestIsLeast
<1>5. PICK d \in D : n = Cardinality(UpFrom(d))
  BY <1>4
<1>6. ASSUME NEW t \in D, ~(t <= d) PROVE FALSE
  <2>1. d \in Nat /\ t \in Nat /\ d < t
    BY <1>6
  <2>a. ASSUME NEW u \in UpFrom(t) PROVE u \in UpFrom(d)
    <3>1. u \in S /\ u \in Nat /\ t <= u
      OBVIOUS
    <3> QED
      BY <2>1, <3>1
  <2>b. d \in UpFrom(d) /\ d \notin UpFrom(t)
    BY <2>1
  <2>2. UpFrom(t) \in SUBSET UpFrom(d) /\ d \in UpFrom(d) /\ d \notin UpFrom(t)
    BY <2>a, <2>b
  <2>3. /\ Cardinality(UpFrom(t)) <= Cardinality(UpFrom(d))
        /\ Cardinality(UpFrom(t)) # Cardinality(UpFrom(d))
    BY <1>1, <2>2, FS_Subset
  <2>4. n <= Cardinality(UpFrom(t))
    BY <1>4
  <2> QED
    BY <1>1, <1>5, <2>3, <2>4
<1> QED
  BY <1>6

\* gc keeps the newest of the slots it looks at ...
LEMMA GcKeepsNewest ==
    ASSUME NEW S, NEW finalized
    PROVE  /\ GcKeeps(S, finalized) \subseteq S
           /\ \A t \in GcKeeps(S, finalized), u \in S \ GcKeeps(S, finalized) : u < t
BY DEF GcKeeps

\* ... does not stop at one that it drops ...
LEMMA GcGoesOn ==
    ASSUME NEW S \in SUBSET Nat, IsFiniteSet(S), NEW finalized, NEW t \in S \ GcKeeps(S, finalized),
           NEW N, N = {u \in S : t <= u}
    PROVE  /\ Cardinality(N) > ReplayedCapacity
           /\ Cardinality(N \cap finalized) > MinimumFinalizedSlotToBuffer
<1>1. N \in SUBSET S /\ t \in N /\ \A a \in N : \A u \in S \ N : u < a
  OBVIOUS
<1>2. /\ ~(Cardinality(N) <= ReplayedCapacity)
      /\ ~(Cardinality(N \cap finalized) <= MinimumFinalizedSlotToBuffer)
  BY <1>1 DEF GcKeeps
<1>3. IsFiniteSet(N) /\ IsFiniteSet(N \cap finalized)
  BY <1>1, FS_Subset
<1>4. Cardinality(N) \in Nat /\ Cardinality(N \cap finalized) \in Nat
  BY <1>3, FS_CardinalityType
<1> QED
  BY <1>2, <1>4, DeliveryAssumption DEF DeliveryAssumption

\* ... stops where it has to keep them ...
LEMMA GcLeavesEnough ==
    ASSUME NEW S \in SUBSET Nat, IsFiniteSet(S), NEW finalized, NEW K, K = GcKeeps(S, finalized), S \ K # {}
    PROVE  /\ Cardinality(K) >= ReplayedCapacity
           /\ Cardinality(K \cap finalized) >= MinimumFinalizedSlotToBuffer
<1>1. PICK d \in S \ K : \A t \in S \ K : t <= d
  BY NewestExists
<1>2. K \subseteq S /\ \A t \in K : d < t
  BY GcKeepsNewest
<1>3. PICK N : N = {u \in S : d <= u}
  OBVIOUS
<1>4. N = K \cup {d}
  <2>1. ASSUME NEW u \in N PROVE u \in K \cup {d}
    <3>1. u \in S /\ u \in Nat /\ d \in Nat /\ d <= u
      BY <1>3
    <3>2. u \notin K => u <= d
      BY <1>1, <3>1
    <3> QED
      BY <3>1, <3>2
  <2>2. ASSUME NEW u \in K \cup {d} PROVE u \in N
    <3>1. u \in S /\ u \in Nat /\ d \in Nat /\ (u = d \/ d < u)
      BY <1>2
    <3> QED
      BY <1>3, <3>1
  <2> QED
    BY <2>1, <2>2
<1>5. Cardinality(N) > ReplayedCapacity /\ Cardinality(N \cap finalized) > MinimumFinalizedSlotToBuffer
  BY <1>1, <1>3, GcGoesOn
<1>6. IsFiniteSet(K) /\ IsFiniteSet(K \cap finalized)
  BY <1>2, FS_Subset
<1>7. Cardinality(N) <= Cardinality(K) + 1 /\ Cardinality(K) \in Nat /\ Cardinality(N) \in Nat
  <2>1. Cardinality(K) \in Nat
    BY <1>6, FS_CardinalityType
  <2>2. Cardinality(K \cup {d}) = IF d \in K THEN Cardinality(K) ELSE Cardinality(K) + 1
    BY <1>6, FS_AddElement
  <2> QED
    BY <1>4, <2>1, <2>2
<1>8. N \cap finalized = K \cap finalized \/ N \cap finalized = (K \cap finalized) \cup {d}
  BY <1>4
<1>9. /\ Cardinality(N \cap finalized) <= Cardinality(K \cap finalized) + 1
      /\ Cardinality(K \cap finalized) \in Nat /\ Cardinality(N \cap finalized) \in Nat
  <2>1. Cardinality(K \cap finalized) \in Nat
    BY <1>6, FS_CardinalityType
  <2>2. Cardinality((K \cap finalized) \cup {d}) =
          IF d \in K \cap finalized THEN Cardinality(K \cap finalized) ELSE Cardinality(K \cap finalized) + 1
    BY <1>6, FS_AddElement
  <2> QED
    BY <1>8, <2>1, <2>2
<1> QED
  BY <1>5, <1>7, <1>9, DeliveryAssumption DEF DeliveryAssumption

\* ... and drops a finalized slot with enough newer ones.
LEMMA GcDropsOld ==
    ASSUME NEW S \in SUBSET Nat, IsFiniteSet(S), NEW finalized, NEW x \in finalized, x \in S,
           NEW N, N \subseteq {u \in S : x < u},
           Cardinality(N) >= ReplayedCapacity,
           Cardinality(N \cap finalized) >= MinimumFinalizedSlotToBuffer
    PROVE  x \notin GcKeeps(S, finalized)
<1> SUFFICES ASSUME x \in GcKeeps(S, finalized) PROVE FALSE
  OBVIOUS
<1>1. PICK R \in SUBSET S :
        /\ x \in R
        /\ \A t \in R : \A u \in S \ R : u < t
        /\ Cardinality(R) <= ReplayedCapacity \/ Cardinality(R \cap finalized) <= MinimumFinalizedSlotToBuffer
  BY DEF GcKeeps
<1>2. x \notin N /\ N \cup {x} \subseteq R
  BY <1>1
<1>3. IsFiniteSet(R) /\ IsFiniteSet(R \cap finalized) /\ IsFiniteSet(N) /\ IsFiniteSet(N \cap finalized)
  BY <1>1, FS_Subset
<1>4. /\ Cardinality(N \cup {x}) = Cardinality(N) + 1
      /\ Cardinality((N \cap finalized) \cup {x}) = Cardinality(N \cap finalized) + 1
  BY <1>2, <1>3, FS_AddElement
<1>5. N \cup {x} \in SUBSET R /\ (N \cap finalized) \cup {x} \in SUBSET (R \cap finalized)
  BY <1>2
<1>6. /\ Cardinality(N \cup {x}) <= Cardinality(R)
      /\ Cardinality((N \cap finalized) \cup {x}) <= Cardinality(R \cap finalized)
  BY <1>3, <1>5, FS_Subset
<1>7. /\ Cardinality(N) \in Nat /\ Cardinality(N \cap finalized) \in Nat
      /\ Cardinality(R) \in Nat /\ Cardinality(R \cap finalized) \in Nat
  BY <1>3, FS_CardinalityType
<1> QED
  BY <1>1, <1>4, <1>6, <1>7, DeliveryAssumption DEF DeliveryAssumption

LEMMA EnoughOfMore ==
    ASSUME NEW S, NEW T, NEW F, NEW G, S \subseteq T, F \subseteq G, IsFiniteSet(T),
           Cardinality(S) >= ReplayedCapacity,
           Cardinality(S \cap F) >= MinimumFinalizedSlotToBuffer
    PROVE  /\ Cardinality(T) >= ReplayedCapacity
           /\ Cardinality(T \cap G) >= MinimumFinalizedSlotToBuffer
<1>1. IsFiniteSet(T \cap G) /\ IsFiniteSet(S) /\ IsFiniteSet(S \cap F)
  BY FS_Subset
<1>2. S \cap F \in SUBSET (T \cap G)
  OBVIOUS
<1>3. Cardinality(S) <= Cardinality(T) /\ Cardinality(S \cap F) <= Cardinality(T \cap G)
  BY <1>1, <1>2, FS_Subset
<1>4. /\ Cardinality(T) \in Nat /\ Cardinality(T \cap G) \in Nat
      /\ Cardinality(S) \in Nat /\ Cardinality(S \cap F) \in Nat
  BY <1>1, FS_CardinalityType
<1> QED
  BY <1>3, <1>4, DeliveryAssumption DEF DeliveryAssumption

LEMMA StorageNumbers ==
    ASSUME DeliveryInv
    PROVE  /\ Slots \subseteq Nat /\ IsFiniteSet(Slots) /\ Finalized = 3
           /\ replayed \subseteq frozen /\ frozen \subseteq Slots /\ IsFiniteSet(replayed)
           /\ emitted \in [Slots -> 0 .. 3] /\ wanted \in [Slots -> 0 .. 3]
BY DeliveryAssumption, FS_Subset DEF DeliveryAssumption, DeliveryInv, StorageTypes, Finalized

\* The steps of the storage
LEMMA StorageSteps ==
    ASSUME DeliveryInv, [Next]_vars
    PROVE  \/ UNCHANGED <<replayed, frozen, emitted, wanted>>
           \/ \E m \in Messages : AddStatus(m) /\ UNCHANGED emitted
           \/ \E s : /\ s \notin frozen /\ frozen' = frozen \cup {s} /\ replayed' = replayed \cup {s}
                     /\ UNCHANGED <<emitted, wanted>>
           \/ \E s \in Slots : ReconstructStatus(s)
<1> USE DEF storageVars
<1>1. CASE ReconstructAdd
  <2>1. PICK m : m = Head(Head(work))
    OBVIOUS
  <2>2. m \in Messages
    BY <1>1, <2>1, WorkHead, MessageSets DEF ReconstructAdd, DeliveryInv
  <2>3. AddCreated(m) \/ AddData(m) \/ AddMeta(m) \/ AddStatus(m)
    BY <1>1, <2>1 DEF ReconstructAdd
  <2>4. UNCHANGED emitted
    BY <1>1 DEF ReconstructAdd
  <2> QED
    BY <2>2, <2>3, <2>4 DEF AddCreated, AddData, AddMeta, Freeze
<1>2. CASE ~ReconstructAdd /\ ~\E s \in Slots : ReconstructStatus(s)
  BY <1>2 DEF Next, Plugin, UpdateSlotStatusLifecycle, NotifyBlockMetadata, UpdateSlotStatusCommitment,
       NotifyData, GeyserBroadcast, GeyserForward, ReconstructTake, PopReadyBlock, ReconstructBroadcast,
       ServeReplay, DrainUnfiltered, SetFilter, DeliverReplay, DeliverLive, Disconnect, vars
<1> QED
  BY <1>1, <1>2

\* A commitment status only raises what is wanted.
LEMMA StatusRaises ==
    ASSUME DeliveryInv, DeliveryInv', NEW m, AddStatus(m), NEW s \in Slots
    PROVE  wanted[s] <= wanted'[s] /\ (wanted[s] = Finalized => wanted'[s] = Finalized)
<1>1. wanted'[s] = IF s <= m.slot /\ wanted[s] < m.arg THEN m.arg ELSE wanted[s]
  BY DEF AddStatus
<1>2. wanted[s] \in 0 .. 3 /\ wanted'[s] \in 0 .. 3 /\ Finalized = 3
  BY DEF DeliveryInv, StorageTypes, Finalized
<1> QED
  BY <1>1, <1>2

LEMMA WantedInvKept ==
    ASSUME DeliveryInv, DeliveryInv', WantedInv, [Next]_vars
    PROVE  WantedInv'
<1>t. /\ Slots \subseteq Nat /\ emitted \in [Slots -> 0 .. 3] /\ wanted \in [Slots -> 0 .. 3]
      /\ replayed \subseteq frozen
  BY StorageNumbers
<1>1. CASE UNCHANGED <<replayed, frozen, emitted, wanted>>
  BY <1>1 DEF WantedInv
<1>2. ASSUME NEW m \in Messages, AddStatus(m), UNCHANGED emitted PROVE WantedInv'
  <2>1. m.slot \in Nat /\ UNCHANGED frozen
    BY <1>2, <1>t DEF AddStatus, Messages
  <2>2. \A s \in Slots : wanted'[s] = IF s <= m.slot /\ wanted[s] < m.arg THEN m.arg ELSE wanted[s]
    BY <1>2 DEF AddStatus
  <2>3. \A s \in Slots : wanted'[s] \in 0 .. 3 /\ wanted[s] \in 0 .. 3 /\ emitted[s] \in 0 .. 3
    BY <1>t DEF DeliveryInv, StorageTypes, Finalized
  <2>4. ASSUME NEW s \in Slots, NEW u \in Slots, s <= u PROVE wanted'[u] <= wanted'[s]
    <3>1. s \in Nat /\ u \in Nat /\ wanted[u] <= wanted[s]
      BY <1>t, <2>4 DEF WantedInv
    <3> QED
      BY <2>1, <2>2, <2>3, <2>4, <3>1
  <2>5. ASSUME NEW s \in Slots PROVE emitted'[s] <= wanted'[s] /\ (emitted'[s] > 0 => s \in frozen')
    BY <1>2, <2>1, <2>3, StatusRaises DEF WantedInv
  <2> QED
    BY <2>4, <2>5 DEF WantedInv
<1>3. ASSUME NEW s, frozen' = frozen \cup {s}, UNCHANGED <<emitted, wanted>> PROVE WantedInv'
  BY <1>3 DEF WantedInv
<1>4. ASSUME NEW x \in Slots, ReconstructStatus(x) PROVE WantedInv'
  <2>1. /\ x \in frozen /\ emitted[x] < wanted[x] /\ UNCHANGED <<frozen, wanted>>
        /\ emitted' = [emitted EXCEPT ![x] = @ + 1]
    BY <1>4, <1>t DEF ReconstructStatus, StatusDue
  <2>2. ASSUME NEW s \in Slots PROVE emitted'[s] <= wanted'[s] /\ (emitted'[s] > 0 => s \in frozen')
    BY <1>t, <2>1 DEF WantedInv
  <2> QED
    BY <2>1, <2>2 DEF WantedInv
<1> QED
  BY <1>1, <1>2, <1>3, <1>4, StorageSteps

LEMMA PrunedInvKept ==
    ASSUME DeliveryInv, DeliveryInv', WantedInv, PrunedInv, [Next]_vars
    PROVE  PrunedInv'
<1>t. /\ Slots \subseteq Nat /\ IsFiniteSet(Slots) /\ Finalized = 3
      /\ replayed \subseteq frozen /\ frozen \subseteq Slots /\ IsFiniteSet(replayed)
      /\ emitted \in [Slots -> 0 .. 3] /\ wanted \in [Slots -> 0 .. 3]
  BY StorageNumbers
<1>u. replayed' \subseteq frozen' /\ frozen' \subseteq Slots /\ IsFiniteSet(replayed')
  BY <1>t, FS_Subset DEF DeliveryInv, StorageTypes
<1>1. CASE UNCHANGED <<replayed, frozen, emitted, wanted>>
  BY <1>1 DEF PrunedInv, Enough, Newer, FinalizedSlots
<1>2. ASSUME NEW m, AddStatus(m), UNCHANGED emitted PROVE PrunedInv'
  <2>1. UNCHANGED <<replayed, frozen, emitted>>
    BY <1>2 DEF AddStatus
  <2>2. \A s \in Slots : wanted[s] = Finalized => wanted'[s] = Finalized
    BY <1>2, StatusRaises
  <2>3. \A t : Enough(Newer(t)) <=> Enough(Newer(t))'
    BY <2>1 DEF Enough, Newer, FinalizedSlots
  <2> QED
    BY <1>t, <2>1, <2>2, <2>3 DEF PrunedInv
<1>3. ASSUME NEW x, x \notin frozen, frozen' = frozen \cup {x}, replayed' = replayed \cup {x},
             UNCHANGED <<emitted, wanted>>
      PROVE  PrunedInv'
  <2> SUFFICES ASSUME NEW t \in frozen' \ replayed'
               PROVE  /\ wanted'[t] = Finalized
                      /\ Enough(Newer(t))'
                      /\ \A s \in replayed' : t < s \/ (wanted'[s] = Finalized /\ emitted'[s] < Finalized)
    BY DEF PrunedInv
  <2>1. /\ t \in frozen \ replayed /\ t # x /\ t \in Slots /\ x \in Slots
        /\ wanted[t] = Finalized /\ Enough(Newer(t))
        /\ \A s \in replayed : t < s \/ (wanted[s] = Finalized /\ emitted[s] < Finalized)
    BY <1>3, <1>t, <1>u DEF PrunedInv
  <2>2. Enough(Newer(t))'
    <3>1. Newer(t) \subseteq Newer(t)' /\ FinalizedSlots \subseteq FinalizedSlots' /\ IsFiniteSet(Newer(t)')
      BY <1>3, <1>u, FS_Subset DEF Newer, FinalizedSlots
    <3> QED
      BY <2>1, <3>1, EnoughOfMore DEF Enough
  <2>3. t < x \/ (wanted[x] = Finalized /\ emitted[x] < Finalized)
    <3>1. ~(t < x) => wanted[t] <= wanted[x]
      BY <1>t, <2>1 DEF WantedInv
    <3>2. emitted[x] <= 0
      BY <1>3, <1>t, <2>1 DEF WantedInv
    <3>3. wanted[x] \in 0 .. 3 /\ emitted[x] \in 0 .. 3
      BY <1>t, <2>1
    <3> QED
      BY <1>t, <2>1, <3>1, <3>2, <3>3
  <2> QED
    BY <1>3, <2>1, <2>2, <2>3
<1>4. ASSUME NEW x \in Slots, ReconstructStatus(x) PROVE PrunedInv'
  <2>1. /\ x \in replayed /\ UNCHANGED <<frozen, wanted>>
        /\ emitted' = [emitted EXCEPT ![x] = @ + 1]
        /\ replayed' = IF emitted'[x] = Finalized THEN GcKeeps(replayed, FinalizedSlots') ELSE replayed
    BY <1>4 DEF ReconstructStatus, StatusDue, FinalizedSlots
  <2>2. FinalizedSlots \subseteq FinalizedSlots' /\ emitted'[x] = emitted[x] + 1
        /\ \A s \in Slots : s # x => emitted'[s] = emitted[s]
    <3>1. emitted[x] + 1 <= 3 /\ emitted'[x] = emitted[x] + 1
      BY <1>t, <2>1 DEF DeliveryInv, StorageTypes
    <3> QED
      BY <1>t, <2>1, <3>1 DEF FinalizedSlots
  <2>3. CASE emitted'[x] # Finalized
    <3> SUFFICES ASSUME NEW t \in frozen \ replayed PROVE
                      /\ wanted[t] = Finalized
                      /\ Enough(Newer(t))'
                      /\ \A s \in replayed : t < s \/ (wanted[s] = Finalized /\ emitted'[s] < Finalized)
      BY <2>1, <2>3 DEF PrunedInv
    <3>1. /\ wanted[t] = Finalized /\ Enough(Newer(t))
          /\ \A s \in replayed : t < s \/ (wanted[s] = Finalized /\ emitted[s] < Finalized)
      BY DEF PrunedInv
    <3>2. Newer(t)' = Newer(t) /\ IsFiniteSet(Newer(t))
      BY <1>t, <2>1, <2>3, FS_Subset DEF Newer
    <3>3. Enough(Newer(t))'
      BY <2>2, <3>1, <3>2, EnoughOfMore DEF Enough
    <3>4. emitted'[x] < Finalized
      BY <1>t, <1>4, <2>3 DEF DeliveryInv, StorageTypes
    <3> QED
      BY <1>t, <2>2, <3>1, <3>3, <3>4
  <2>4. CASE emitted'[x] = Finalized
    <3> PICK F : F = FinalizedSlots'
      OBVIOUS
    <3> PICK K : K = GcKeeps(replayed, F)
      OBVIOUS
    <3>1. /\ replayed' = K /\ K \subseteq replayed /\ replayed \in SUBSET Nat
          /\ \A t \in K, u \in replayed \ K : u < t
      BY <1>t, <2>1, <2>4, GcKeepsNewest
    <3>2. replayed \ K # {} => /\ Cardinality(K) >= ReplayedCapacity
                               /\ Cardinality(K \cap F) >= MinimumFinalizedSlotToBuffer
      BY <1>t, <3>1, GcLeavesEnough
    <3> SUFFICES ASSUME NEW t \in frozen \ K PROVE
                      /\ wanted[t] = Finalized
                      /\ Enough(Newer(t))'
                      /\ \A s \in K : t < s \/ (wanted[s] = Finalized /\ emitted'[s] < Finalized)
      BY <2>1, <3>1 DEF PrunedInv
    <3>3. CASE t \in replayed
      <4>1. wanted[t] = Finalized
        <5>1. PICK N : N = {u \in replayed : t <= u}
          OBVIOUS
        <5>2. Cardinality(N \cap F) > MinimumFinalizedSlotToBuffer
          BY <1>t, <3>1, <3>3, <5>1, GcGoesOn
        <5>3. N \cap F # {}
          BY <5>2, FS_EmptySet, DeliveryAssumption DEF DeliveryAssumption
        <5>4. PICK u \in Slots : u \in replayed /\ t <= u /\ emitted'[u] = Finalized
          BY <5>1, <5>3 DEF FinalizedSlots
        <5>5. emitted'[u] <= wanted[u]
          BY <1>t, <1>4, <2>1, <2>2 DEF WantedInv, ReconstructStatus, StatusDue
        <5>6. wanted[u] <= wanted[t] /\ t \in Slots
          BY <1>t, <3>3, <5>4 DEF WantedInv
        <5> QED
          BY <1>t, <5>4, <5>5, <5>6
      <4>2. Newer(t)' = K
        BY <3>1, <3>3 DEF Newer
      <4> QED
        BY <3>1, <3>2, <3>3, <4>1, <4>2 DEF Enough
    <3>4. CASE t \notin replayed
      <4>1. /\ wanted[t] = Finalized /\ Enough(Newer(t))
            /\ \A s \in replayed : t < s \/ (wanted[s] = Finalized /\ emitted[s] < Finalized)
        BY <3>4 DEF PrunedInv
      <4>2. Enough(Newer(t))'
        <5>1. CASE \E d \in replayed \ K : t < d
          <6>1. PICK d \in replayed \ K : t < d
            BY <5>1
          <6>2. ASSUME NEW s \in K PROVE t < s
            <7>1. d < s /\ d \in Nat /\ s \in Nat /\ t \in Nat
              BY <1>t, <3>1
            <7> QED
              BY <6>1, <7>1
          <6>3. Newer(t)' = K
            BY <3>1, <6>2 DEF Newer
          <6> QED
            BY <3>2, <5>1, <6>3 DEF Enough
        <5>2. CASE ~\E d \in replayed \ K : t < d
          <6>1. Newer(t)' = Newer(t) /\ IsFiniteSet(Newer(t))
            BY <1>t, <3>1, <5>2, FS_Subset DEF Newer
          <6> QED
            BY <2>2, <4>1, <6>1, EnoughOfMore DEF Enough
        <5> QED
          BY <5>1, <5>2
      <4>3. t < x \/ x \notin K
        <5> SUFFICES ASSUME ~(t < x) PROVE x \notin K
          OBVIOUS
        <5>0. ASSUME NEW u \in replayed, t < u PROVE x < u
          <6>1. t \in Nat /\ u \in Nat /\ x \in Nat
            BY <1>t
          <6> QED
            BY <5>0, <6>1
        <5>1. Newer(t) \subseteq {u \in replayed : x < u} /\ IsFiniteSet(Newer(t))
          BY <1>t, <5>0, FS_Subset DEF Newer
        <5>2. /\ Cardinality(Newer(t)) >= ReplayedCapacity
              /\ Cardinality(Newer(t) \cap F) >= MinimumFinalizedSlotToBuffer
          BY <2>2, <4>1, <5>1, EnoughOfMore DEF Enough
        <5>3. x \in F
          BY <2>4 DEF FinalizedSlots
        <5> QED
          BY <1>t, <2>1, <3>1, <5>1, <5>2, <5>3, GcDropsOld
      <4> QED
        BY <1>t, <2>2, <3>1, <4>1, <4>2, <4>3
    <3> QED
      BY <3>3, <3>4
  <2> QED
    BY <2>3, <2>4
<1> QED
  BY <1>1, <1>2, <1>3, <1>4, StorageSteps

\* What a broadcast puts into the ring is its batch.
LEMMA BroadcastAdds ==
    ASSUME rx \in Seq(Seq(Messages)), NEW l, NEW batch \in Seq(Messages), Broadcast(l, batch),
           NEW m, NEW i \in 1 .. Len(rx'), m \in Range(rx'[i])
    PROVE  m \in Range(batch) \/ \E j \in 1 .. Len(rx) : m \in Range(rx[j])
<1>1. rx' = rx \/ rx' = <<>> \/ rx' = Append(rx, batch)
  BY DEF Broadcast
<1>2. CASE rx' = <<>>
  BY <1>2
<1>3. CASE rx' = Append(rx, batch)
  <2>1. /\ Len(rx) \in Nat /\ Len(rx') = Len(rx) + 1 /\ rx'[Len(rx) + 1] = batch
        /\ \A j \in 1 .. Len(rx) : rx'[j] = rx[j]
    BY <1>3, AppendedSeq
  <2>2. i = Len(rx) + 1 \/ i \in 1 .. Len(rx)
    BY <2>1
  <2> QED
    BY <2>1, <2>2
<1> QED
  BY <1>1, <1>2, <1>3

\* The statuses among the messages of a fan-out
LEMMA FanOutStatus ==
    ASSUME NEW s \in Slots, NEW l \in Levels, NEW i \in 1 .. Len(FanOut(s, l))
    PROVE  /\ FanOut(s, l)[i][2] \in {<<ContentOf(s)>>, <<Block(s)>>, <<Status(s, l)>>}
           /\ \A t, k : Status(t, k) \in Range(FanOut(s, l)[i][2]) => t = s /\ k = l
<1>1. ASSUME NEW a, NEW b, NEW c
      PROVE  /\ \A j \in 1 .. Len(<<a>> \o <<b, c>>) : (<<a>> \o <<b, c>>)[j] \in {a, b, c}
             /\ \A j \in 1 .. Len(<<>> \o <<b, c>>) : (<<>> \o <<b, c>>)[j] \in {a, b, c}
  OBVIOUS
<1>2. FanOut(s, l)[i] \in {<<{l}, <<ContentOf(s)>>>>, <<{l}, <<Block(s)>>>>, <<Levels, <<Status(s, l)>>>>}
  BY <1>1, Zenon DEF FanOut
<1>3. FanOut(s, l)[i][2] \in {<<ContentOf(s)>>, <<Block(s)>>, <<Status(s, l)>>}
  BY <1>2
<1>4. \A t, k : Status(t, k) \in Range(FanOut(s, l)[i][2]) => Status(t, k) \in {ContentOf(s), Block(s), Status(s, l)}
  BY <1>3, RangeOfOne
<1> QED
  BY <1>3, <1>4, MessagesDiffer

LEMMA EmittedGrows ==
    ASSUME DeliveryInv, [Next]_vars, NEW s \in Slots
    PROVE  emitted[s] \in Nat /\ emitted'[s] \in Nat /\ emitted[s] <= emitted'[s]
<1> USE DEF storageVars
<1>1. emitted \in [Slots -> Nat]
  BY LevelNumbers DEF DeliveryInv, StorageTypes
<1>2. ASSUME NEW t \in Slots, ReconstructStatus(t) PROVE emitted' = [emitted EXCEPT ![t] = @ + 1]
  BY <1>2 DEF ReconstructStatus
<1>3. CASE ~\E t \in Slots : ReconstructStatus(t)
  <2>1. UNCHANGED emitted
    BY <1>3 DEF Next, Plugin, UpdateSlotStatusLifecycle, NotifyBlockMetadata, UpdateSlotStatusCommitment,
       NotifyData, GeyserBroadcast, GeyserForward, ReconstructTake, ReconstructAdd, PopReadyBlock,
       ReconstructBroadcast, ServeReplay, DrainUnfiltered, SetFilter, DeliverReplay, DeliverLive, Disconnect, vars
  <2> QED
    BY <1>1, <2>1
<1> QED
  BY <1>1, <1>2, <1>3

LEMMA StatusEmittedKept ==
    ASSUME DeliveryInv, StatusEmitted, [Next]_vars
    PROVE  StatusEmitted'
<1> USE DEF storageVars, loopVars, requestVars
<1> SUFFICES ASSUME NEW s \in Slots, NEW l \in Levels, Queued(s, l)' \/ UnderWay(Status(s, l))'
             PROVE  l <= emitted'[s]
  BY DEF StatusEmitted
<1>e. emitted[s] \in Nat /\ emitted'[s] \in Nat /\ emitted[s] <= emitted'[s] /\ l \in Nat
  BY EmittedGrows, LevelNumbers
<1>f. ASSUME Queued(s, l) \/ UnderWay(Status(s, l)) PROVE l <= emitted'[s]
  BY <1>e, <1>f DEF StatusEmitted
<1> SUFFICES ASSUME ~Queued(s, l) /\ ~UnderWay(Status(s, l)) PROVE l <= emitted'[s]
  BY <1>f
<1>t. /\ outbox \in Seq((SUBSET Nat) \X Seq(Messages)) /\ rx \in Seq(Seq(Messages))
      /\ ready \in Seq(frozen \X Levels) /\ frozen \subseteq Slots
  BY DEF DeliveryInv, ClientTypes, StorageTypes
<1>1. CASE UNCHANGED <<rx, outbox, ready>>
  BY <1>1 DEF Queued, UnderWay
<1>2. ASSUME NEW k, NEW batch \in Seq(Messages), Broadcast(k, batch), UNCHANGED <<outbox, ready>>,
             Range(batch) \subseteq CallbackMessages
      PROVE  FALSE
  <2>1. PICK i \in 1 .. Len(rx') : Status(s, l) \in Range(rx'[i])
    BY <1>2 DEF Queued, UnderWay
  <2>2. Status(s, l) \in Range(batch)
    BY <1>2, <1>t, <2>1, BroadcastAdds DEF UnderWay
  <2> QED
    BY <1>2, <2>2, MessageKinds
<1>3. CASE Plugin
  <2>1. PICK t \in Slots : \/ UpdateSlotStatusLifecycle(t)
                           \/ NotifyBlockMetadata(t)
                           \/ \E k \in NotifiedLevels : UpdateSlotStatusCommitment(t, k)
                           \/ \E d \in Data : NotifyData(t, d)
    BY <1>3 DEF Plugin
  <2>2. UNCHANGED <<outbox, ready>> /\ (UNCHANGED rx \/ Broadcast(level, <<CreatedBank(t)>>))
    BY <2>1 DEF UpdateSlotStatusLifecycle, NotifyBlockMetadata, UpdateSlotStatusCommitment, NotifyData
  <2>3. <<CreatedBank(t)>> \in Seq(Messages) /\ Range(<<CreatedBank(t)>>) \subseteq CallbackMessages
    BY MessageTypes, MessageSets, RangeOfOne
  <2> QED
    BY <1>1, <1>2, <2>2, <2>3
<1>4. CASE GeyserBroadcast
  <2>1. PICK k \in BatchSizes :
          IF NotMetas(SubSeq(grpc_channel, 1, k)) = <<>> THEN UNCHANGED <<rx, lagged>>
          ELSE Broadcast(Processed, NotMetas(SubSeq(grpc_channel, 1, k)))
    BY <1>4 DEF GeyserBroadcast
  <2>2. k \in 1 .. Len(grpc_channel) /\ grpc_channel \in Seq(CallbackMessages)
    BY DEF BatchSizes, DeliveryInv, ChannelTypes
  <2>3. SubSeq(grpc_channel, 1, k) \in Seq(CallbackMessages) /\ SubSeq(grpc_channel, 1, k) # <<>>
    BY <2>2
  <2>4. NotMetas(SubSeq(grpc_channel, 1, k)) \in Seq(CallbackMessages)
    BY <2>3, BatchParts
  <2>5. /\ NotMetas(SubSeq(grpc_channel, 1, k)) \in Seq(Messages)
        /\ Range(NotMetas(SubSeq(grpc_channel, 1, k))) \subseteq CallbackMessages
    BY <2>4, MessageSets, RangeOfSeq
  <2>6. UNCHANGED <<outbox, ready>>
    BY <1>4 DEF GeyserBroadcast
  <2> QED
    BY <1>1, <1>2, <2>1, <2>5, <2>6
<1>5. CASE ReconstructBroadcast
  <2>1. outbox # <<>> /\ outbox' = Tail(outbox) /\ UNCHANGED ready
        /\ (Broadcast(level, outbox[1][2]) \/ UNCHANGED rx)
    BY <1>5, <1>t DEF ReconstructBroadcast
  <2>2. /\ outbox[1] \in (SUBSET Nat) \X Seq(Messages) /\ Len(outbox) \in Nat \ {0}
        /\ Len(outbox') = Len(outbox) - 1
        /\ \A i \in 1 .. Len(outbox') : outbox'[i] = outbox[i + 1]
    BY <1>t, <2>1, TailOfSeq
  <2>3. outbox[1][2] \in Seq(Messages)
    BY <2>2
  <2>4. ASSUME NEW i \in 1 .. Len(outbox'), Status(s, l) \in Range(outbox'[i][2]) PROVE FALSE
    <3>1. i + 1 \in 1 .. Len(outbox) /\ outbox'[i] = outbox[i + 1]
      BY <2>2
    <3> QED
      BY <2>4, <3>1 DEF UnderWay
  <2>5. PICK i \in 1 .. Len(rx') : Status(s, l) \in Range(rx'[i])
    BY <2>1, <2>4 DEF Queued, UnderWay
  <2>6. 1 \in 1 .. Len(outbox)
    BY <2>2
  <2>7. Status(s, l) \in Range(outbox[1][2]) \/ \E j \in 1 .. Len(rx) : Status(s, l) \in Range(rx[j])
    <3>1. CASE UNCHANGED rx
      BY <3>1, <2>5
    <3>2. CASE Broadcast(level, outbox[1][2])
      BY <3>2, <2>3, <2>5, <1>t, BroadcastAdds
    <3> QED
      BY <2>1, <3>1, <3>2
  <2> QED
    BY <2>6, <2>7 DEF UnderWay
<1>6. CASE PopReadyBlock
  <2>1. ready # <<>> /\ ready' = Tail(ready) /\ outbox' = FanOut(ready[1][1], ready[1][2]) /\ UNCHANGED rx
    BY <1>6, <1>t DEF PopReadyBlock
  <2>2. /\ ready[1] \in frozen \X Levels /\ Len(ready) \in Nat \ {0}
        /\ Len(ready') = Len(ready) - 1
        /\ \A i \in 1 .. Len(ready') : ready'[i] = ready[i + 1]
    BY <1>t, <2>1, TailOfSeq
  <2>3. PICK t \in Slots, k \in Levels : ready[1] = <<t, k>>
    BY <1>t, <2>2
  <2>4. ~Queued(s, l)'
    BY <2>2 DEF Queued
  <2>5. PICK i \in 1 .. Len(FanOut(t, k)) : Status(s, l) \in Range(FanOut(t, k)[i][2])
    BY <2>1, <2>3, <2>4 DEF UnderWay
  <2>6. s = t /\ l = k
    BY <2>5, FanOutStatus
  <2> QED
    BY <2>2, <2>3, <2>6 DEF Queued
<1>7. ASSUME NEW t \in Slots, ReconstructStatus(t) PROVE l <= emitted'[s]
  <2>1. ready' = Append(ready, <<t, emitted[t] + 1>>) /\ UNCHANGED <<rx, outbox>> /\ t \in frozen
        /\ emitted' = [emitted EXCEPT ![t] = @ + 1]
    BY <1>7 DEF ReconstructStatus, StatusDue, DeliveryInv, StorageTypes
  <2>2. emitted \in [Slots -> Nat] /\ emitted'[t] = emitted[t] + 1
    BY <2>1, LevelNumbers DEF DeliveryInv, StorageTypes
  <2>3. PICK i \in 1 .. Len(ready') : ready'[i] = <<s, l>>
    BY <2>1 DEF Queued, UnderWay
  <2>4. /\ Len(ready') = Len(ready) + 1 /\ Len(ready) \in Nat
        /\ ready'[Len(ready) + 1] = <<t, emitted[t] + 1>>
        /\ \A j \in 1 .. Len(ready) : ready'[j] = ready[j]
    <3>1. ASSUME NEW S, NEW q \in Seq(S), NEW b
          PROVE  /\ Len(q) \in Nat /\ Len(Append(q, b)) = Len(q) + 1
                 /\ Append(q, b)[Len(q) + 1] = b
                 /\ \A j \in 1 .. Len(q) : Append(q, b)[j] = q[j]
      OBVIOUS
    <3> QED
      BY <1>t, <2>1, <3>1
  <2>5. i = Len(ready) + 1
    BY <2>3, <2>4 DEF Queued
  <2>6. s = t /\ l = emitted[t] + 1
    BY <2>3, <2>4, <2>5
  <2> QED
    BY <2>2, <2>6
<1>8. CASE DrainUnfiltered \/ SetFilter \/ DeliverLive \/ Disconnect
  <2>1. UNCHANGED <<outbox, ready>> /\ (rx' = rx \/ rx' = <<>> \/ (rx # <<>> /\ rx' = Tail(rx)))
    BY <1>8 DEF DrainUnfiltered, SetFilter, DeliverLive, Disconnect
  <2>2. PICK i \in 1 .. Len(rx') : Status(s, l) \in Range(rx'[i])
    BY <2>1 DEF Queued, UnderWay
  <2>3. \E j \in 1 .. Len(rx) : Status(s, l) \in Range(rx[j])
    <3>1. CASE rx' = rx
      BY <3>1, <2>2
    <3>2. CASE rx' = <<>>
      BY <3>2, <2>2
    <3>3. CASE rx # <<>> /\ rx' = Tail(rx)
      <4>1. i + 1 \in 1 .. Len(rx) /\ rx'[i] = rx[i + 1]
        BY <1>t, <2>2, <3>3, TailOfSeq
      <4> QED
        BY <2>2, <4>1
    <3> QED
      BY <2>1, <3>1, <3>2, <3>3
  <2> QED
    BY <2>3 DEF UnderWay
<1>9. CASE GeyserForward \/ ReconstructTake \/ ReconstructAdd \/ ServeReplay \/ DeliverReplay \/ UNCHANGED vars
  BY <1>1, <1>9 DEF GeyserForward, ReconstructTake, ReconstructAdd, ServeReplay, DeliverReplay, vars
<1> QED
  BY <1>3, <1>4, <1>5, <1>6, <1>7, <1>8, <1>9 DEF Next

LEMMA ResponseFirstKept ==
    ASSUME DeliveryInv, ResponseFirst, [Next]_vars
    PROVE  ResponseFirst'
<1> USE DEF requestVars, loopVars, storageVars
<1>1. ASSUME UNCHANGED <<pc, response, got>> PROVE ResponseFirst'
  BY <1>1 DEF ResponseFirst
<1>2. CASE Plugin \/ GeyserBroadcast \/ GeyserForward \/ ReconstructTake \/ ReconstructAdd
           \/ (\E s \in Slots : ReconstructStatus(s)) \/ PopReadyBlock \/ ReconstructBroadcast
           \/ DrainUnfiltered \/ UNCHANGED vars
  BY <1>1, <1>2 DEF Plugin, UpdateSlotStatusLifecycle, NotifyBlockMetadata, UpdateSlotStatusCommitment,
       NotifyData, GeyserBroadcast, GeyserForward, ReconstructTake, ReconstructAdd, ReconstructStatus,
       PopReadyBlock, ReconstructBroadcast, DrainUnfiltered, vars
<1>3. CASE ServeReplay \/ SetFilter \/ DeliverReplay \/ DeliverLive \/ Disconnect
  BY <1>3 DEF ServeReplay, SetFilter, DeliverReplay, DeliverLive, Disconnect, ResponseFirst, DeliveryInv, ClientTypes
<1> QED
  BY <1>2, <1>3 DEF Next

-----------------------------------------------------------------------------
(* What a subscriber that has resumed is owed                              *)

DueMessages ==
    {ContentOf(s) : s \in Slots} \cup {Block(s) : s \in Slots}
        \cup {Status(s, l) : s \in Slots, l \in Levels}

LEMMA DueTypes ==
    ASSUME NEW s \in Slots, NEW l \in Levels
    PROVE  Parts(s) \subseteq DueMessages /\ Due(s, l) \subseteq DueMessages
           /\ (level = l => Parts(s) \subseteq Due(s, l)) /\ Status(s, l) \in Due(s, l)
           /\ \A m \in Due(s, l) : m = Status(s, l) \/ (level = l /\ m \in Parts(s))
BY DEF Parts, Due, DueMessages

LEMMA HoldsMeans ==
    ASSUME NEW s
    PROVE  /\ Holds(ContentOf(s)) <=> got.data[s] = Data
           /\ Holds(Block(s)) <=> s \in got.block
           /\ \A l : Holds(Status(s, l)) <=> l \in got.status[s]
BY DEF Holds, ContentOf, Block, Status, Msg

\* What the client takes in it holds, and keeps.
LEMMA TakenIsHeld ==
    ASSUME ClientTypes, NEW msgs, got' = Receive(got, msgs), NEW m \in DueMessages
    PROVE  Holds(m) \/ m \in msgs => Holds(m)'
<1>1. got \in Holdings /\ got' \in Holdings
  BY ReceiveTypes DEF ClientTypes, Holdings
<1>2. ASSUME NEW s \in Slots
      PROVE  /\ got.data[s] = Data \/ ContentOf(s) \in msgs => got'.data[s] = Data
             /\ s \in got.block \/ Block(s) \in msgs => s \in got'.block
             /\ \A l \in Levels : l \in got.status[s] \/ Status(s, l) \in msgs => l \in got'.status[s]
  <2>1. got'.data[s] \subseteq Data
    BY <1>1 DEF Holdings
  <2>2. /\ \A d \in Data : d \in got.data[s] \/ ContentOf(s) \in msgs => d \in got'.data[s]
        /\ s \in got.block \/ Block(s) \in msgs => s \in got'.block
        /\ \A l \in Levels : l \in got.status[s] \/ Status(s, l) \in msgs => l \in got'.status[s]
    BY <1>1, ReceiveAdds
  <2> QED
    BY <2>1, <2>2
<1>3. ASSUME NEW s
      PROVE  /\ Holds(ContentOf(s))' <=> got'.data[s] = Data
             /\ Holds(Block(s))' <=> s \in got'.block
             /\ \A l : Holds(Status(s, l))' <=> l \in got'.status[s]
  BY DEF Holds, ContentOf, Block, Status, Msg
<1> QED
  BY <1>2, <1>3, HoldsMeans DEF DueMessages

\* A step that leaves all of this alone
LEMMA ResumedQuiet ==
    ASSUME ResumedInv, UNCHANGED <<from, level, pc, got, response, rx, lagged, outbox, ready, emitted>>
    PROVE  ResumedInv'
<1>1. ASSUME NEW m, NEW n PROVE HeldBy(m, n)' <=> HeldBy(m, n)
  BY DEF HeldBy, Holds
<1>2. ASSUME NEW m, NEW n PROVE SentBy(m, n)' <=> SentBy(m, n)
  BY <1>1 DEF SentBy, ToUs
<1>3. /\ HeldInOrder => HeldInOrder'
      /\ RingInOrder => RingInOrder'
      /\ ToSendInOrder => ToSendInOrder'
      /\ AllSent => AllSent'
  BY <1>1, <1>2 DEF HeldInOrder, RingInOrder, ToSendInOrder, AllSent, Holds, Parts, Due, Queued, ToUs
<1> QED
  BY <1>3 DEF ResumedInv, Resumed, Reading

\* The ring of a client that keeps reading takes the batch.
LEMMA RingTakes ==
    ASSUME ClientTypes, NEW batch \in Seq(Messages), Broadcast(level, batch),
           UNCHANGED <<from, level, pc, got, response>>, Reading',
           Reading => RingInOrder,
           Reading => \A s \in Slots : s >= from /\ Status(s, level) \in Range(batch) =>
                          \A m \in Parts(s) : HeldBy(m, Len(rx))
    PROVE  /\ Reading /\ RingInOrder'
           /\ \A m : HeldBy(m, Len(rx)) \/ m \in Range(batch) => HeldBy(m, Len(rx))'
<1>1. Reading /\ rx' = Append(rx, batch)
  BY DEF Reading, Resumed, Broadcast
<1>2. /\ Len(rx) \in Nat /\ Len(rx') = Len(rx) + 1 /\ rx'[Len(rx) + 1] = batch
      /\ \A i \in 1 .. Len(rx) : rx'[i] = rx[i]
  <2>1. rx \in Seq(Seq(Messages))
    BY DEF ClientTypes
  <2> QED
    BY <1>1, <2>1, AppendedSeq
<1>3. ASSUME NEW m, NEW n \in 0 .. Len(rx), HeldBy(m, n) PROVE HeldBy(m, n)'
  BY <1>2, <1>3 DEF HeldBy, Holds
<1>4. ASSUME NEW m, HeldBy(m, Len(rx)) \/ m \in Range(batch) PROVE HeldBy(m, Len(rx))'
  <2>1. CASE HeldBy(m, Len(rx))
    BY <1>2, <2>1 DEF HeldBy, Holds
  <2>2. CASE m \in Range(batch)
    <3>1. Len(rx') \in 1 .. Len(rx') /\ rx'[Len(rx')] = batch
      BY <1>2
    <3> QED
      BY <2>2, <3>1 DEF HeldBy
  <2> QED
    BY <1>4, <2>1, <2>2
<1>5. ASSUME NEW i \in 1 .. Len(rx'), NEW s \in Slots, s >= from, Status(s, level) \in Range(rx'[i])
      PROVE  \A m \in Parts(s) : HeldBy(m, i - 1)'
  <2>1. i - 1 \in 0 .. Len(rx)
    BY <1>2
  <2>2. \A m \in Parts(s) : HeldBy(m, i - 1)
    <3>1. CASE i = Len(rx) + 1
      <4>1. rx'[i] = batch /\ i - 1 = Len(rx)
        BY <1>2, <3>1
      <4> QED
        BY <1>1, <1>5, <4>1
    <3>2. CASE i # Len(rx) + 1
      <4>1. i \in 1 .. Len(rx) /\ rx'[i] = rx[i]
        BY <1>2, <3>2
      <4> QED
        BY <1>1, <1>5, <4>1 DEF RingInOrder
    <3> QED
      BY <3>1, <3>2
  <2> QED
    BY <1>3, <2>1, <2>2
<1>6. RingInOrder'
  BY <1>5 DEF RingInOrder, Parts
<1> QED
  BY <1>1, <1>4, <1>6

\* So does one that leaves the rest to be sent as it is.
LEMMA ResumedBroadcast ==
    ASSUME ClientTypes, ResumedInv, NEW batch \in Seq(Messages), Broadcast(level, batch),
           UNCHANGED <<from, level, pc, got, response, outbox, ready, emitted>>,
           \A s \in Slots : Status(s, level) \notin Range(batch)
    PROVE  ResumedInv'
<1>1. Resumed' => HeldInOrder'
  BY DEF ResumedInv, Resumed, HeldInOrder, Holds, Parts
<1>2. ASSUME Reading' PROVE AllSent' /\ RingInOrder' /\ ToSendInOrder'
  <2>1. Reading => AllSent /\ RingInOrder /\ ToSendInOrder
    BY DEF ResumedInv
  <2>2. /\ Reading /\ RingInOrder'
        /\ \A m : HeldBy(m, Len(rx)) => HeldBy(m, Len(rx))'
    BY <1>2, <2>1, RingTakes
  <2>3. ASSUME NEW m, NEW n, SentBy(m, n) PROVE SentBy(m, n)'
    BY <2>2, <2>3 DEF SentBy, ToUs
  <2>4. AllSent'
    BY <2>1, <2>2, <2>3 DEF AllSent, Due, Queued, Parts
  <2>5. ToSendInOrder'
    BY <2>1, <2>2, <2>3 DEF ToSendInOrder, ToUs, Parts
  <2> QED
    BY <2>2, <2>4, <2>5
<1> QED
  BY <1>1, <1>2 DEF ResumedInv

LEMMA ResumedPlugin ==
    ASSUME DeliveryInv, ResumedInv, Plugin
    PROVE  ResumedInv'
<1> USE DEF requestVars, loopVars, storageVars
<1>1. PICK t \in Slots : \/ UpdateSlotStatusLifecycle(t)
                         \/ NotifyBlockMetadata(t)
                         \/ \E k \in NotifiedLevels : UpdateSlotStatusCommitment(t, k)
                         \/ \E d \in Data : NotifyData(t, d)
  BY DEF Plugin
<1>2. /\ UNCHANGED <<from, level, pc, got, response, outbox, ready, emitted>>
      /\ UNCHANGED <<rx, lagged>> \/ Broadcast(level, <<CreatedBank(t)>>)
  BY <1>1 DEF UpdateSlotStatusLifecycle, NotifyBlockMetadata, UpdateSlotStatusCommitment, NotifyData
<1>3. <<CreatedBank(t)>> \in Seq(Messages)
  BY MessageTypes, MessageSets
<1>4. \A s \in Slots : Status(s, level) \notin Range(<<CreatedBank(t)>>)
  BY RangeOfOne, MessageTypes, MessageKinds
<1>5. CASE UNCHANGED <<rx, lagged>>
  BY <1>2, <1>5, ResumedQuiet
<1>6. CASE Broadcast(level, <<CreatedBank(t)>>)
  <2>1. ClientTypes
    BY DEF DeliveryInv
  <2> QED
    BY <1>2, <1>3, <1>4, <1>6, <2>1, ResumedBroadcast
<1> QED
  BY <1>2, <1>5, <1>6

\* geyser_loop's broadcast is for Processed subscribers.
LEMMA ResumedGeyserBroadcast ==
    ASSUME ResumedInv, GeyserBroadcast
    PROVE  ResumedInv'
<1> USE DEF requestVars, loopVars, storageVars
<1>1. UNCHANGED <<from, level, pc, got, response, outbox, ready, emitted>>
  BY DEF GeyserBroadcast
<1>2. UNCHANGED <<rx, lagged>> \/ \E batch : Broadcast(Processed, batch)
  BY DEF GeyserBroadcast
<1>3. CASE level = Processed
  BY <1>1, <1>3 DEF ResumedInv, Resumed, Reading
<1>4. CASE level # Processed
  <2>1. UNCHANGED <<rx, lagged>>
    BY <1>2, <1>4 DEF Broadcast
  <2> QED
    BY <1>1, <2>1, ResumedQuiet
<1> QED
  BY <1>3, <1>4

\* A new status is queued.
LEMMA ResumedStatus ==
    ASSUME DeliveryInv, ResumedInv, NEW t \in Slots, ReconstructStatus(t)
    PROVE  ResumedInv'
<1> USE DEF requestVars, loopVars, storageVars
<1> PICK e : e = emitted[t] + 1
  OBVIOUS
<1>1. /\ UNCHANGED <<from, level, pc, got, response, rx, lagged, outbox>>
      /\ ready' = Append(ready, <<t, e>>)
      /\ emitted' = [emitted EXCEPT ![t] = @ + 1]
  BY DEF ReconstructStatus
<1>2. emitted \in [Slots -> Nat] /\ ready \in Seq(frozen \X Levels)
  BY LevelNumbers DEF DeliveryInv, StorageTypes
<1>3. /\ Len(ready') = Len(ready) + 1 /\ Len(ready) \in Nat
      /\ ready'[Len(ready) + 1] = <<t, e>>
      /\ \A j \in 1 .. Len(ready) : ready'[j] = ready[j]
  <2>1. ASSUME NEW S, NEW q \in Seq(S), NEW b
        PROVE  /\ Len(q) \in Nat /\ Len(Append(q, b)) = Len(q) + 1
               /\ Append(q, b)[Len(q) + 1] = b
               /\ \A j \in 1 .. Len(q) : Append(q, b)[j] = q[j]
    OBVIOUS
  <2> QED
    BY <1>1, <1>2, <2>1
<1>4. ASSUME NEW s, NEW l, Queued(s, l) PROVE Queued(s, l)'
  <2>1. PICK i \in 1 .. Len(ready) : ready[i] = <<s, l>>
    BY <1>4 DEF Queued
  <2>2. i \in 1 .. Len(ready') /\ ready'[i] = <<s, l>>
    BY <1>3, <2>1
  <2> QED
    BY <2>2 DEF Queued
<1>5. Queued(t, e)'
  <2>1. Len(ready) + 1 \in 1 .. Len(ready')
    BY <1>3
  <2>2. ready'[Len(ready) + 1] = <<t, e>>
    BY <1>3
  <2> QED
    BY <2>1, <2>2 DEF Queued
<1>6. ASSUME NEW m, NEW n PROVE HeldBy(m, n)' <=> HeldBy(m, n)
  BY <1>1 DEF HeldBy, Holds
<1>7. ASSUME NEW m, NEW n PROVE SentBy(m, n)' <=> SentBy(m, n)
  BY <1>1, <1>6 DEF SentBy, ToUs
<1>8. /\ HeldInOrder => HeldInOrder'
      /\ RingInOrder => RingInOrder'
      /\ ToSendInOrder => ToSendInOrder'
  BY <1>1, <1>6, <1>7 DEF HeldInOrder, RingInOrder, ToSendInOrder, Holds, Parts, ToUs
<1>9. ASSUME AllSent PROVE AllSent'
  <2> SUFFICES ASSUME NEW s \in Slots, NEW l \in Levels, s >= from, level <= l, l <= emitted'[s]
               PROVE  Queued(s, l)' \/ \A m \in Due(s, l) : SentBy(m, Len(outbox))
    BY <1>1, <1>7 DEF AllSent, Due, Parts
  <2>1. CASE l <= emitted[s]
    <3>1. Queued(s, l) \/ \A m \in Due(s, l) : SentBy(m, Len(outbox))
      BY <1>9, <2>1, Zenon DEF AllSent
    <3>2. Queued(s, l) => Queued(s, l)'
      BY <1>4
    <3> QED
      BY ONLY <3>1, <3>2
  <2>2. CASE ~(l <= emitted[s])
    <3>1. s = t /\ l = e
      BY <1>1, <1>2, <2>2, LevelNumbers
    <3> QED
      BY <1>1, <1>5, <3>1
  <2> QED
    BY <2>1, <2>2
<1> QED
  BY <1>1, <1>8, <1>9 DEF ResumedInv, Resumed, Reading

\* What is sent for a ready block above Processed: content, block and status, in this order
LEMMA FanOutAbove ==
    ASSUME NEW s \in Slots, NEW l \in Levels, NEW q, q = FanOut(s, l)
    PROVE  /\ Len(q) \in Nat
           /\ \E i \in 1 .. Len(q) : level \in Levels => level \in q[i][1] /\ Status(s, l) \in Range(q[i][2])
           /\ (l = level /\ level # Processed) =>
                 /\ Len(q) = 3
                 /\ level \in q[1][1] /\ ContentOf(s) \in Range(q[1][2])
                 /\ level \in q[2][1] /\ Block(s) \in Range(q[2][2])
                 /\ q[1][2] = <<ContentOf(s)>> /\ q[2][2] = <<Block(s)>>
<1>1. ASSUME NEW a, NEW b, NEW c
      PROVE  /\ Len(<<a>> \o <<b, c>>) = 3 /\ (<<a>> \o <<b, c>>)[1] = a
             /\ (<<a>> \o <<b, c>>)[2] = b /\ (<<a>> \o <<b, c>>)[3] = c
             /\ Len(<<>> \o <<b, c>>) = 2 /\ (<<>> \o <<b, c>>)[2] = c
  OBVIOUS
<1>2. /\ l # Processed => /\ Len(q) = 3 /\ q[1] = <<{l}, <<ContentOf(s)>>>>
                          /\ q[2] = <<{l}, <<Block(s)>>>> /\ q[3] = <<Levels, <<Status(s, l)>>>>
      /\ l = Processed => Len(q) = 2 /\ q[2] = <<Levels, <<Status(s, l)>>>>
  <2>1. l # Processed => q = <<<<{l}, <<ContentOf(s)>>>>>> \o <<<<{l}, <<Block(s)>>>>, <<Levels, <<Status(s, l)>>>>>>
    BY DEF FanOut
  <2>2. l = Processed => q = <<>> \o <<<<{l}, <<Block(s)>>>>, <<Levels, <<Status(s, l)>>>>>>
    BY DEF FanOut
  <2>3. ASSUME NEW a, NEW b, NEW c, NEW x, x = <<a>> \o <<b, c>>
        PROVE  Len(x) = 3 /\ x[1] = a /\ x[2] = b /\ x[3] = c
    BY <2>3
  <2>4. ASSUME NEW b, NEW c, NEW x, x = <<>> \o <<b, c>>
        PROVE  Len(x) = 2 /\ x[2] = c
    BY <2>4
  <2>5. CASE l # Processed
    <3>1. PICK a, b, c : a = <<{l}, <<ContentOf(s)>>>> /\ b = <<{l}, <<Block(s)>>>> /\ c = <<Levels, <<Status(s, l)>>>>
      OBVIOUS
    <3>2. q = <<a>> \o <<b, c>>
      BY <2>1, <2>5, <3>1
    <3>3. Len(q) = 3 /\ q[1] = a /\ q[2] = b /\ q[3] = c
      BY <2>3, <3>2
    <3> QED
      BY <2>5, <3>1, <3>3
  <2>6. CASE l = Processed
    <3>1. PICK b, c : b = <<{l}, <<Block(s)>>>> /\ c = <<Levels, <<Status(s, l)>>>>
      OBVIOUS
    <3>2. q = <<>> \o <<b, c>>
      BY <2>2, <2>6, <3>1
    <3>3. Len(q) = 2 /\ q[2] = c
      BY <2>4, <3>2
    <3> QED
      BY <2>6, <3>1, <3>3
  <2> QED
    BY <2>5, <2>6
<1>3. \A m : m \in Range(<<m>>)
  BY RangeOfOne
<1>4. CASE l = Processed
  <2>1. 2 \in 1 .. Len(q) /\ (level \in Levels => level \in q[2][1]) /\ Status(s, l) \in Range(q[2][2])
    BY <1>2, <1>3, <1>4
  <2> QED
    BY <1>2, <1>4, <2>1
<1>5. CASE l # Processed
  <2>1. 3 \in 1 .. Len(q) /\ (level \in Levels => level \in q[3][1]) /\ Status(s, l) \in Range(q[3][2])
    BY <1>2, <1>3, <1>5
  <2>2. /\ q[1][1] = {l} /\ q[1][2] = <<ContentOf(s)>>
        /\ q[2][1] = {l} /\ q[2][2] = <<Block(s)>>
    BY <1>2, <1>5
  <2> QED
    BY <1>2, <1>3, <1>5, <2>1, <2>2
<1> QED
  BY <1>4, <1>5

LEMMA ResumedPop ==
    ASSUME DeliveryInv, ResumedInv, PopReadyBlock
    PROVE  ResumedInv'
<1> USE DEF requestVars, loopVars, storageVars
<1>1. /\ UNCHANGED <<from, level, pc, got, response, rx, lagged, emitted>>
      /\ outbox = <<>> /\ ready # <<>> /\ ready' = Tail(ready)
      /\ outbox' = FanOut(Head(ready)[1], Head(ready)[2])
  BY DEF PopReadyBlock
<1>2. /\ Len(ready) \in Nat \ {0} /\ Len(ready') = Len(ready) - 1
      /\ Head(ready) = ready[1] /\ ready[1] \in frozen \X Levels
      /\ \A i \in 1 .. Len(ready') : ready'[i] = ready[i + 1]
  <2>1. ready \in Seq(frozen \X Levels)
    BY DEF DeliveryInv, StorageTypes
  <2> QED
    BY <1>1, <2>1, TailOfSeq
<1>3. PICK t \in Slots, k \in Levels : ready[1] = <<t, k>>
  BY <1>2 DEF DeliveryInv, StorageTypes
<1>4. outbox' = FanOut(t, k)
  BY <1>1, <1>2, <1>3
<1>5. level \in Levels
  BY DEF DeliveryInv, ClientTypes
<1>6. /\ Len(outbox') \in Nat
      /\ \E i \in 1 .. Len(outbox') : ToUs(i)' /\ Status(t, k) \in Range(outbox'[i][2])
      /\ (k = level /\ level # Processed) =>
            /\ Len(outbox') = 3
            /\ ToUs(1)' /\ ContentOf(t) \in Range(outbox'[1][2])
            /\ ToUs(2)' /\ Block(t) \in Range(outbox'[2][2])
            /\ outbox'[1][2] = <<ContentOf(t)>> /\ outbox'[2][2] = <<Block(t)>>
  <2>1. /\ Len(outbox') \in Nat
        /\ \E i \in 1 .. Len(outbox') : level \in Levels => level \in outbox'[i][1] /\ Status(t, k) \in Range(outbox'[i][2])
        /\ (k = level /\ level # Processed) =>
                 /\ Len(outbox') = 3
                 /\ level \in outbox'[1][1] /\ ContentOf(t) \in Range(outbox'[1][2])
                 /\ level \in outbox'[2][1] /\ Block(t) \in Range(outbox'[2][2])
                 /\ outbox'[1][2] = <<ContentOf(t)>> /\ outbox'[2][2] = <<Block(t)>>
    BY <1>4, FanOutAbove
  <2> QED
    BY <1>1, <1>5, <2>1 DEF ToUs
<1>7. ASSUME NEW m, NEW n PROVE HeldBy(m, n)' <=> HeldBy(m, n)
  BY <1>1 DEF HeldBy, Holds
<1>8. ASSUME NEW m, SentBy(m, Len(outbox)), NEW n PROVE SentBy(m, n)'
  <2>1. Len(outbox) = 0
    BY <1>1
  <2>2. HeldBy(m, Len(rx))
    BY <1>8, <2>1 DEF SentBy
  <2> QED
    BY <1>1, <1>7, <2>2 DEF SentBy
<1>9. Resumed' => HeldInOrder'
  BY <1>1 DEF ResumedInv, Resumed, HeldInOrder, Holds, Parts
<1>10. ASSUME Reading' PROVE AllSent' /\ RingInOrder' /\ ToSendInOrder'
  <2>1. AllSent /\ RingInOrder /\ level # Processed
    BY <1>1, <1>10 DEF ResumedInv, Reading, Resumed
  <2>2. RingInOrder'
    BY <1>1, <1>7, <2>1 DEF RingInOrder, Parts
  <2>3. ASSUME NEW m \in Due(t, k) PROVE SentBy(m, Len(outbox))'
    <3>1. m = Status(t, k) \/ (level = k /\ m \in {ContentOf(t), Block(t)})
      BY DueTypes DEF Parts
    <3>2. \E i \in 1 .. Len(outbox') : ToUs(i)' /\ m \in Range(outbox'[i][2])
      <4>1. CASE m = Status(t, k)
        BY <1>6, <4>1
      <4>2. CASE level = k /\ m \in {ContentOf(t), Block(t)}
        <5>1. Len(outbox') = 3
          BY <1>6, <2>1, <4>2
        <5>2. 1 \in 1 .. Len(outbox') /\ 2 \in 1 .. Len(outbox')
          BY <5>1
        <5> QED
          BY <1>6, <2>1, <4>2, <5>2
      <4> QED
        BY <3>1, <4>1, <4>2
    <3> QED
      BY <3>2 DEF SentBy
  <2>4. ASSUME NEW s \in Slots, NEW l \in Levels, s >= from, level <= l, l <= emitted[s]
        PROVE  Queued(s, l)' \/ \A m \in Due(s, l) : SentBy(m, Len(outbox))'
    <3>1. CASE ~Queued(s, l)
      BY <1>8, <2>1, <2>4, <3>1 DEF AllSent
    <3>2. ASSUME NEW i \in 1 .. Len(ready), ready[i] = <<s, l>>
          PROVE  Queued(s, l)' \/ \A m \in Due(s, l) : SentBy(m, Len(outbox))'
      <4>1. CASE i = 1
        BY <1>3, <2>3, <3>2, <4>1
      <4>2. CASE i # 1
        <5>1. i - 1 \in 1 .. Len(ready') /\ (i - 1) + 1 = i
          BY <1>2, <3>2, <4>2
        <5>2. ready'[i - 1] = <<s, l>>
          BY <1>2, <3>2, <5>1
        <5> QED
          BY <5>1, <5>2 DEF Queued
      <4> QED
        BY <4>1, <4>2
    <3> QED
      BY <3>1, <3>2 DEF Queued
  <2>5. AllSent'
    BY <1>1, <2>4 DEF AllSent, Due, Parts
  <2>6. ASSUME NEW i \in 1 .. Len(outbox'), NEW s \in Slots, Status(s, level) \in Range(outbox'[i][2])
        PROVE  \A m \in Parts(s) : SentBy(m, i - 1)'
    <3>1. s = t /\ level = k
      BY <1>4, <2>6, FanOutStatus
    <3>2. i = 3
      <4>1. /\ Len(outbox') = 3 /\ outbox'[1][2] = <<ContentOf(t)>> /\ outbox'[2][2] = <<Block(t)>>
        BY <1>6, <2>1, <3>1
      <4>2. Range(outbox'[1][2]) = {ContentOf(t)} /\ Range(outbox'[2][2]) = {Block(t)}
        BY <4>1, RangeOfOne
      <4>3. i # 1 /\ i # 2
        <5>1. Status(s, level) # ContentOf(t) /\ Status(s, level) # Block(t)
          BY MessagesDiffer
        <5> QED
          BY <2>6, <4>2, <5>1
      <4>4. i \in 1 .. 3
        BY <4>1
      <4> QED
        BY <4>3, <4>4
    <3>3. 1 \in 1 .. i - 1 /\ 2 \in 1 .. i - 1
      BY <3>2
    <3>4. /\ ToUs(1)' /\ ContentOf(s) \in Range(outbox'[1][2])
          /\ ToUs(2)' /\ Block(s) \in Range(outbox'[2][2])
      BY <1>6, <2>1, <3>1
    <3> QED
      BY <3>3, <3>4 DEF SentBy, Parts
  <2>7. ToSendInOrder'
    BY <1>1, <2>6 DEF ToSendInOrder, Parts
  <2> QED
    BY <2>2, <2>5, <2>7
<1> QED
  BY <1>9, <1>10 DEF ResumedInv

-----------------------------------------------------------------------------
(* The outbox is sent, the replay is served, the client reads              *)

LEMMA ResumedReconstructBroadcast ==
    ASSUME DeliveryInv, ResumedInv, ReconstructBroadcast
    PROVE  ResumedInv'
<1> USE DEF requestVars, loopVars, storageVars
<1>1. /\ UNCHANGED <<from, level, pc, got, response, ready, emitted>>
      /\ outbox # <<>> /\ outbox' = Tail(outbox)
      /\ IF level \in Head(outbox)[1] THEN Broadcast(level, Head(outbox)[2]) ELSE UNCHANGED <<rx, lagged>>
  BY DEF ReconstructBroadcast
<1>c. ClientTypes
  BY DEF DeliveryInv
<1>2. /\ Len(outbox) \in Nat \ {0} /\ Len(outbox') = Len(outbox) - 1
      /\ Head(outbox) = outbox[1] /\ outbox[1][2] \in Seq(Messages)
      /\ \A i \in 1 .. Len(outbox') : outbox'[i] = outbox[i + 1]
  <2>1. outbox \in Seq((SUBSET Nat) \X Seq(Messages))
    BY <1>c DEF ClientTypes
  <2>2. outbox[1] \in (SUBSET Nat) \X Seq(Messages)
    BY <1>1, <2>1, TailOfSeq
  <2>3. outbox[1][2] \in Seq(Messages)
    BY <2>2
  <2> QED
    BY <1>1, <2>1, <2>3, TailOfSeq
<1>3. Resumed' => HeldInOrder'
  BY <1>1 DEF ResumedInv, Resumed, HeldInOrder, Holds, Parts
<1>4. ASSUME Reading' PROVE AllSent' /\ RingInOrder' /\ ToSendInOrder'
  <2>1. Reading => AllSent /\ RingInOrder /\ ToSendInOrder
    BY DEF ResumedInv
  <2>2. /\ Reading /\ RingInOrder'
        /\ \A m : HeldBy(m, Len(rx)) \/ (ToUs(1) /\ m \in Range(outbox[1][2])) => HeldBy(m, Len(rx))'
    <3>1. CASE ToUs(1)
      <4>1. Broadcast(level, outbox[1][2])
        BY <1>1, <1>2, <3>1 DEF ToUs
      <4>2. Reading => \A s \in Slots : s >= from /\ Status(s, level) \in Range(outbox[1][2]) =>
                          \A m \in Parts(s) : HeldBy(m, Len(rx))
        <5> SUFFICES ASSUME Reading, NEW s \in Slots, s >= from, Status(s, level) \in Range(outbox[1][2]),
                            NEW m \in Parts(s)
                     PROVE  HeldBy(m, Len(rx))
          OBVIOUS
        <5>1. 1 \in 1 .. Len(outbox)
          BY <1>2
        <5>2. SentBy(m, 1 - 1)
          BY <2>1, <3>1, <5>1 DEF ToSendInOrder
        <5>3. ~\E i \in 1 .. 1 - 1 : TRUE
          OBVIOUS
        <5> QED
          BY <5>2, <5>3 DEF SentBy
      <4> QED
        BY <1>1, <1>2, <1>4, <1>c, <2>1, <4>1, <4>2, RingTakes
    <3>2. CASE ~ToUs(1)
      <4>1. UNCHANGED <<rx, lagged>>
        BY <1>1, <1>2, <3>2 DEF ToUs
      <4>2. Reading
        BY <1>1, <1>4, <4>1 DEF Reading, Resumed
      <4>3. ASSUME NEW m, NEW n PROVE HeldBy(m, n)' <=> HeldBy(m, n)
        BY <1>1, <4>1 DEF HeldBy, Holds
      <4>4. RingInOrder'
        BY <1>1, <2>1, <4>1, <4>2, <4>3 DEF RingInOrder, Parts
      <4> QED
        BY <3>2, <4>1, <4>2, <4>3, <4>4
    <3> QED
      BY <3>1, <3>2
  <2>3. ASSUME NEW m, NEW n \in 1 .. Len(outbox), SentBy(m, n) PROVE SentBy(m, n - 1)'
    <3> PICK p : p = n - 1
      OBVIOUS
    <3> SUFFICES SentBy(m, p)'
      OBVIOUS
    <3>1. CASE HeldBy(m, Len(rx))
      BY <2>2, <3>1 DEF SentBy
    <3>2. ASSUME NEW i \in 1 .. n, ToUs(i), m \in Range(outbox[i][2]) PROVE SentBy(m, p)'
      <4>1. CASE i = 1
        BY <2>2, <3>2, <4>1 DEF SentBy
      <4>2. CASE i # 1
        <5>1. i - 1 \in 1 .. n - 1 /\ i - 1 \in 1 .. Len(outbox') /\ (i - 1) + 1 = i
          BY <1>2, <3>2, <4>2
        <5>2. outbox'[i - 1] = outbox[i]
          BY <1>2, <5>1
        <5>3. PICK j : j = i - 1
          OBVIOUS
        <5>4. j \in 1 .. p /\ outbox'[j] = outbox[i]
          BY <5>1, <5>2, <5>3
        <5>5. ToUs(j)' /\ m \in Range(outbox'[j][2])
          BY <1>1, <3>2, <5>4 DEF ToUs
        <5> QED
          BY <5>4, <5>5 DEF SentBy
      <4> QED
        BY <4>1, <4>2
    <3> QED
      BY <2>3, <3>1, <3>2 DEF SentBy
  <2>4. AllSent'
    <3> SUFFICES ASSUME NEW s \in Slots, NEW l \in Levels, s >= from, level <= l, l <= emitted[s],
                        ~Queued(s, l), NEW m \in Due(s, l)
                 PROVE  SentBy(m, Len(outbox))'
      BY <1>1 DEF AllSent, Queued, Due, Parts
    <3>1. SentBy(m, Len(outbox))
      BY <2>1, <2>2 DEF AllSent
    <3>2. PICK k \in 1 .. Len(outbox) : k = Len(outbox)
      BY <1>2
    <3>3. SentBy(m, k - 1)'
      BY <2>3, <3>1, <3>2
    <3>4. Len(outbox') = k - 1
      BY <1>2, <3>2
    <3> QED
      BY <3>3, <3>4 DEF SentBy
  <2>5. ToSendInOrder'
    <3> SUFFICES ASSUME NEW i \in 1 .. Len(outbox'), NEW s \in Slots, s >= from, ToUs(i)',
                        Status(s, level) \in Range(outbox'[i][2]), NEW m \in Parts(s)
                 PROVE  SentBy(m, i - 1)'
      BY <1>1 DEF ToSendInOrder, Parts
    <3>0. i + 1 \in 1 .. Len(outbox) /\ (i + 1) - 1 = i
      BY <1>2
    <3>1. PICK j \in 1 .. Len(outbox) : j = i + 1 /\ j - 1 = i
      BY <3>0
    <3>2. outbox'[i] = outbox[j]
      BY <1>2, <3>1
    <3>3. ToUs(j) /\ Status(s, level) \in Range(outbox[j][2])
      BY <1>1, <3>2 DEF ToUs
    <3>4. SentBy(m, j - 1)
      BY <2>1, <2>2, <3>3 DEF ToSendInOrder
    <3>5. i \in 1 .. Len(outbox)
      BY <1>2, <3>1
    <3>6. SentBy(m, i)
      BY <3>1, <3>4
    <3> QED
      BY <2>3, <3>5, <3>6
  <2> QED
    BY <2>2, <2>4, <2>5
<1> QED
  BY <1>3, <1>4 DEF ResumedInv

\* With nothing left to queue, every frozen slot that gc has dropped is older than what is stored ...
LEMMA DrainedIsDone ==
    ASSUME DeliveryInv, WantedInv, ~Draining, NEW s \in replayed
    PROVE  emitted[s] = wanted[s]
<1>t. /\ Slots \subseteq Nat /\ replayed \subseteq Slots
      /\ emitted \in [Slots -> 0 .. 3] /\ wanted \in [Slots -> 0 .. 3]
  BY StorageNumbers
<1> SUFFICES ASSUME emitted[s] # wanted[s] PROVE FALSE
  OBVIOUS
<1>1. PICK S : S = {a \in replayed : emitted[a] # wanted[a]}
  OBVIOUS
<1>2. PICK e : e = Oldest(S)
  OBVIOUS
<1>3. e \in S /\ \A a \in S : e <= a
  BY <1>t, <1>1, <1>2, OldestIsLeast
<1>4. e \in replayed /\ emitted[e] < wanted[e]
  BY <1>t, <1>1, <1>3 DEF WantedInv
<1>5. PICK a \in replayed : a < e /\ ~(emitted[a] > emitted[e])
  BY <1>t, <1>4 DEF Draining, StatusDue
<1>6. wanted[e] <= wanted[a]
  BY <1>t, <1>4, <1>5 DEF WantedInv
<1>7. emitted[a] # wanted[a]
  BY <1>t, <1>4, <1>5, <1>6
<1>8. e <= a
  BY <1>1, <1>3, <1>5, <1>7
<1> QED
  BY <1>t, <1>4, <1>5, <1>8

\* ... so every slot from an accepted from_slot on that has reached the level is stored.
LEMMA AcceptedIsStored ==
    ASSUME DeliveryInv, WantedInv, PrunedInv, ~Draining, replayed # {}, ~(from < Oldest(replayed)),
           from \in Nat, NEW s \in Slots, s >= from, emitted[s] >= level
    PROVE  s \in ReplayedSlots
<1>1. Slots \subseteq Nat /\ replayed \subseteq frozen /\ frozen \subseteq Slots
      /\ level >= 1 /\ level \in Nat /\ emitted[s] \in Nat
  BY StorageNumbers, LevelNumbers DEF DeliveryInv, ClientTypes
<1>2. s \in frozen
  BY <1>1 DEF WantedInv
<1>3. Oldest(replayed) \in replayed
  BY <1>1, OldestIsLeast
<1>4. s \in replayed
  <2>1. PICK o \in replayed : o = Oldest(replayed)
    BY <1>3
  <2>2. emitted[o] = wanted[o] /\ wanted[o] \in 0 .. 3
    BY <1>1, DrainedIsDone, StorageNumbers
  <2>3. s \notin replayed => s < o
    BY <1>2, <2>2 DEF PrunedInv, Finalized
  <2>4. o \in Nat
    BY <1>1
  <2> QED
    BY <1>1, <2>1, <2>3, <2>4
<1> QED
  BY <1>4 DEF ReplayedSlots

LEMMA ResumedServe ==
    ASSUME DeliveryInv, WantedInv, PrunedInv, StatusEmitted, ResponseFirst, from \in Nat, ServeReplay
    PROVE  ResumedInv'
<1> USE DEF requestVars, loopVars, storageVars
<1>1. /\ UNCHANGED <<from, level, got, rx, outbox, ready, emitted>>
      /\ outbox = <<>> /\ request /\ ~Draining
      /\ pc' = "closed" \/ (replayed # {} /\ ~(from < Oldest(replayed)) /\ response' = ReplayMessages)
  BY DEF ServeReplay, ReplayedSlots
<1>2. got = Nothing
  BY <1>1 DEF DeliveryInv, ClientTypes, ResponseFirst
<1> SUFFICES ASSUME replayed # {}, ~(from < Oldest(replayed)), response' = ReplayMessages
             PROVE  ResumedInv'
  BY <1>1 DEF ResumedInv, Resumed, Reading
<1>3. ASSUME NEW s \in Slots, s >= from, level <= emitted[s]
      PROVE  /\ \A m \in Parts(s) : \A n : HeldBy(m, n)'
             /\ \A l \in Levels : l <= emitted[s] => \A n : HeldBy(Status(s, l), n)'
  <2>1. emitted[s] >= level
    BY <1>3, LevelNumbers DEF DeliveryInv, StorageTypes, ClientTypes
  <2>2. s \in ReplayedSlots
    BY <1>1, <1>3, <2>1, AcceptedIsStored
  <2>3. Parts(s) \subseteq response' /\ \A l \in 1 .. emitted[s] : Status(s, l) \in response'
    BY <2>2 DEF ReplayMessages, ReplayOf, Parts
  <2>4. \A l \in Levels : l <= emitted[s] => l \in 1 .. emitted[s]
    BY LevelNumbers
  <2> QED
    BY <2>3, <2>4 DEF HeldBy
<1>4. HeldInOrder'
  BY <1>1, <1>2 DEF HeldInOrder, Nothing
<1>5. AllSent'
  <2> SUFFICES ASSUME NEW s \in Slots, NEW l \in Levels, s >= from, level <= l, l <= emitted[s], NEW m \in Due(s, l)'
               PROVE  SentBy(m, Len(outbox))'
    BY <1>1 DEF AllSent
  <2>1. level <= emitted[s]
    BY LevelNumbers DEF DeliveryInv, StorageTypes, ClientTypes
  <2>2. m = Status(s, l) \/ m \in Parts(s)
    BY <1>1 DEF Due
  <2>3. HeldBy(m, Len(rx))'
    BY <1>3, <2>1, <2>2
  <2> QED
    BY <2>3 DEF SentBy
<1>6. RingInOrder'
  <2> SUFFICES ASSUME NEW i \in 1 .. Len(rx), NEW s \in Slots, s >= from,
                      Status(s, level) \in Range(rx[i]), NEW m \in Parts(s)
               PROVE  HeldBy(m, i - 1)'
    BY <1>1 DEF RingInOrder, Parts
  <2>1. level <= emitted[s]
    BY DEF StatusEmitted, UnderWay, DeliveryInv, ClientTypes
  <2> QED
    BY <1>3, <2>1
<1>7. ToSendInOrder'
  BY <1>1 DEF ToSendInOrder
<1> QED
  BY <1>4, <1>5, <1>6, <1>7 DEF ResumedInv

\* What the client takes in, it holds from then on.
LEMMA ResumedDeliverReplay ==
    ASSUME DeliveryInv, ResponseFirst, ResumedInv, DeliverReplay
    PROVE  ResumedInv'
<1> USE DEF requestVars, loopVars, storageVars
<1>1. /\ UNCHANGED <<from, level, rx, lagged, outbox, ready, emitted>>
      /\ pc = "replay" /\ got' = Receive(got, response)
  BY DEF DeliverReplay
<1>2. ClientTypes /\ level \in Levels /\ got = Nothing
  BY <1>1 DEF DeliveryInv, ClientTypes, ResponseFirst
<1>3. ASSUME NEW m \in DueMessages, NEW n, HeldBy(m, n) PROVE HeldBy(m, n)'
  BY <1>1, <1>2, <1>3, TakenIsHeld DEF HeldBy
<1>4. ASSUME NEW m \in DueMessages, NEW n, SentBy(m, n) PROVE SentBy(m, n)'
  BY <1>1, <1>3, <1>4 DEF SentBy, ToUs
<1>5. HeldInOrder'
  <2> SUFFICES ASSUME NEW s \in Slots, level \in got'.status[s], NEW m \in Parts(s)
               PROVE  Holds(m)'
    BY <1>1 DEF HeldInOrder, Parts
  <2>1. Status(s, level) \in response
    BY <1>1, <1>2 DEF Receive, Nothing
  <2>2. Block(s) \in response /\ ContentOf(s) \in response
    BY <2>1 DEF DeliveryInv, SentInv, ResponseInOrder
  <2>3. m \in DueMessages /\ m \in response
    BY <2>2, <1>2, DueTypes DEF Parts
  <2> QED
    BY <1>1, <1>2, <2>3, TakenIsHeld
<1>6. ASSUME Reading' PROVE AllSent' /\ RingInOrder' /\ ToSendInOrder'
  <2>1. AllSent /\ RingInOrder /\ ToSendInOrder
    BY <1>1, <1>6 DEF ResumedInv, Reading, Resumed
  <2>2. AllSent'
    <3> SUFFICES ASSUME NEW s \in Slots, NEW l \in Levels, s >= from, level <= l, l <= emitted[s],
                        ~Queued(s, l), NEW m \in Due(s, l)
                 PROVE  SentBy(m, Len(outbox))'
      BY <1>1 DEF AllSent, Queued, Due, Parts
    <3>1. SentBy(m, Len(outbox)) /\ m \in DueMessages
      BY <2>1, DueTypes DEF AllSent
    <3>2. SentBy(m, Len(outbox))' <=> \E n : n = Len(outbox) /\ SentBy(m, n)'
      BY <1>1 DEF SentBy
    <3> QED
      BY <1>1, <1>4, <3>1, <3>2
  <2>3. RingInOrder'
    <3> SUFFICES ASSUME NEW i \in 1 .. Len(rx), NEW s \in Slots, s >= from,
                        Status(s, level) \in Range(rx[i]), NEW m \in Parts(s)
                 PROVE  HeldBy(m, i - 1)'
      BY <1>1 DEF RingInOrder, Parts
    <3>1. HeldBy(m, i - 1) /\ m \in DueMessages
      BY <2>1, <1>2, DueTypes DEF RingInOrder
    <3> QED
      BY <1>3, <3>1
  <2>4. ToSendInOrder'
    <3> SUFFICES ASSUME NEW i \in 1 .. Len(outbox), NEW s \in Slots, s >= from, ToUs(i),
                        Status(s, level) \in Range(outbox[i][2]), NEW m \in Parts(s)
                 PROVE  SentBy(m, i - 1)'
      BY <1>1 DEF ToSendInOrder, Parts, ToUs
    <3>1. SentBy(m, i - 1) /\ m \in DueMessages
      BY <2>1, <1>2, DueTypes DEF ToSendInOrder
    <3> QED
      BY <1>4, <3>1
  <2> QED
    BY <2>2, <2>3, <2>4
<1> QED
  BY <1>5, <1>6 DEF ResumedInv

LEMMA ResumedDeliverLive ==
    ASSUME DeliveryInv, ResponseFirst, ResumedInv, DeliverLive
    PROVE  ResumedInv'
<1> USE DEF requestVars, loopVars, storageVars
<1>1. /\ UNCHANGED <<from, level, pc, response, lagged, outbox, ready, emitted>>
      /\ pc = "live" /\ ~lagged /\ rx # <<>> /\ rx' = Tail(rx)
      /\ got' = Receive(got, Range(Head(rx)))
  BY DEF DeliverLive
<1>2. ClientTypes /\ level \in Levels /\ response = {}
  BY <1>1 DEF DeliveryInv, ClientTypes, ResponseFirst
<1>3. /\ Len(rx) \in Nat \ {0} /\ Len(rx') = Len(rx) - 1 /\ Head(rx) = rx[1]
      /\ \A i \in 1 .. Len(rx') : rx'[i] = rx[i + 1]
  <2>1. rx \in Seq(Seq(Messages))
    BY <1>2 DEF ClientTypes
  <2> QED
    BY <1>1, <2>1, TailOfSeq
<1> SUFFICES ASSUME Resumed PROVE ResumedInv'
  BY <1>1 DEF ResumedInv, Resumed, Reading
<1>4. HeldInOrder /\ AllSent /\ RingInOrder /\ ToSendInOrder
  BY <1>1 DEF ResumedInv, Reading
<1>5. ASSUME NEW m \in DueMessages, NEW n \in 1 .. Len(rx), HeldBy(m, n) PROVE HeldBy(m, n - 1)'
  <2> PICK p : p = n - 1
    OBVIOUS
  <2> SUFFICES HeldBy(m, p)'
    OBVIOUS
  <2>1. CASE Holds(m) \/ m \in Range(rx[1])
    <3>1. Holds(m)'
      BY <1>1, <1>2, <1>3, <2>1, TakenIsHeld
    <3> QED
      BY <3>1 DEF HeldBy
  <2>2. ASSUME NEW i \in 1 .. n, i # 1, m \in Range(rx[i]) PROVE HeldBy(m, p)'
    <3>1. i - 1 \in 1 .. p /\ i - 1 \in 1 .. Len(rx') /\ (i - 1) + 1 = i
      BY <1>3, <2>2
    <3>2. PICK j : j = i - 1
      OBVIOUS
    <3>3. j \in 1 .. p /\ rx'[j] = rx[i]
      BY <1>3, <3>1, <3>2
    <3> QED
      BY <2>2, <3>3 DEF HeldBy
  <2> QED
    BY <1>2, <1>5, <2>1, <2>2 DEF HeldBy
<1>6. ASSUME NEW m \in DueMessages, HeldBy(m, Len(rx)) PROVE HeldBy(m, Len(rx))'
  <2>1. PICK k \in 1 .. Len(rx) : k = Len(rx)
    BY <1>3
  <2>2. HeldBy(m, k - 1)'
    BY <1>5, <1>6, <2>1
  <2>3. Len(rx') = k - 1
    BY <1>3, <2>1
  <2> QED
    BY <2>2, <2>3 DEF HeldBy
<1>7. ASSUME NEW m \in DueMessages, NEW n, SentBy(m, n) PROVE SentBy(m, n)'
  BY <1>1, <1>6, <1>7 DEF SentBy, ToUs
<1>8. HeldInOrder'
  <2> SUFFICES ASSUME NEW s \in Slots, s >= from, level \in got'.status[s], NEW m \in Parts(s)
               PROVE  Holds(m)'
    BY <1>1 DEF HeldInOrder, Parts
  <2>1. m \in DueMessages
    BY <1>2, DueTypes
  <2>2. level \in got.status[s] \/ Status(s, level) \in Range(rx[1])
    BY <1>1, <1>2, <1>3 DEF Receive
  <2>3. CASE level \in got.status[s]
    BY <1>1, <1>2, <1>4, <2>1, <2>3, TakenIsHeld DEF HeldInOrder
  <2>4. CASE Status(s, level) \in Range(rx[1])
    <3>1. 1 \in 1 .. Len(rx)
      BY <1>3
    <3>2. HeldBy(m, 1 - 1)
      BY <1>4, <2>4, <3>1 DEF RingInOrder
    <3>3. ~\E i \in 1 .. 1 - 1 : TRUE
      OBVIOUS
    <3>4. Holds(m)
      BY <1>2, <3>2, <3>3 DEF HeldBy
    <3> QED
      BY <1>1, <1>2, <2>1, <3>4, TakenIsHeld
  <2> QED
    BY <2>2, <2>3, <2>4
<1>9. AllSent'
  <2> SUFFICES ASSUME NEW s \in Slots, NEW l \in Levels, s >= from, level <= l, l <= emitted[s],
                      ~Queued(s, l), NEW m \in Due(s, l)
               PROVE  SentBy(m, Len(outbox))'
    BY <1>1 DEF AllSent, Queued, Due, Parts
  <2>1. PICK n : n = Len(outbox)
    OBVIOUS
  <2>2. SentBy(m, n) /\ m \in DueMessages
    BY <1>4, <2>1, DueTypes DEF AllSent
  <2>3. SentBy(m, n)' /\ n = Len(outbox')
    BY <1>1, <1>7, <2>1, <2>2
  <2> QED
    BY <2>3 DEF SentBy
<1>10. RingInOrder'
  <2> SUFFICES ASSUME NEW i \in 1 .. Len(rx'), NEW s \in Slots, s >= from,
                      Status(s, level) \in Range(rx'[i]), NEW m \in Parts(s)
               PROVE  HeldBy(m, i - 1)'
    BY <1>1 DEF RingInOrder, Parts
  <2>1. i + 1 \in 1 .. Len(rx) /\ (i + 1) - 1 = i /\ i \in 1 .. Len(rx)
    BY <1>3
  <2>2. PICK j \in 1 .. Len(rx) : j = i + 1 /\ j - 1 = i
    BY <2>1
  <2>3. rx'[i] = rx[j]
    BY <1>3, <2>2
  <2>4. HeldBy(m, j - 1)
    BY <1>4, <2>3 DEF RingInOrder
  <2>5. HeldBy(m, i) /\ m \in DueMessages
    BY <1>2, <2>2, <2>4, DueTypes
  <2> QED
    BY <1>5, <2>1, <2>5
<1>11. ToSendInOrder'
  <2> SUFFICES ASSUME NEW i \in 1 .. Len(outbox), NEW s \in Slots, s >= from, ToUs(i),
                      Status(s, level) \in Range(outbox[i][2]), NEW m \in Parts(s)
               PROVE  SentBy(m, i - 1)'
    BY <1>1 DEF ToSendInOrder, Parts, ToUs
  <2>1. SentBy(m, i - 1) /\ m \in DueMessages
    BY <1>2, <1>4, DueTypes DEF ToSendInOrder
  <2> QED
    BY <1>7, <2>1
<1> QED
  BY <1>8, <1>9, <1>10, <1>11 DEF ResumedInv

LEMMA ResumedInvKept ==
    ASSUME DeliveryInv, ReplayInv, [Next]_vars
    PROVE  ResumedInv'
<1> USE DEF requestVars, loopVars, storageVars
<1>1. WantedInv /\ PrunedInv /\ StatusEmitted /\ ResponseFirst /\ ResumedInv /\ from \in Nat
  BY DEF ReplayInv
<1>2. CASE Plugin \/ GeyserBroadcast
  BY <1>1, <1>2, ResumedPlugin, ResumedGeyserBroadcast
<1>3. CASE GeyserForward \/ ReconstructTake \/ ReconstructAdd \/ UNCHANGED vars
  <2>1. UNCHANGED <<from, level, pc, got, response, rx, lagged, outbox, ready, emitted>>
    BY <1>3 DEF GeyserForward, ReconstructTake, ReconstructAdd, vars
  <2> QED
    BY <1>1, <2>1, ResumedQuiet
<1>4. ASSUME NEW s \in Slots, ReconstructStatus(s) PROVE ResumedInv'
  BY <1>1, <1>4, ResumedStatus
<1>5. CASE PopReadyBlock \/ ReconstructBroadcast
  BY <1>1, <1>5, ResumedPop, ResumedReconstructBroadcast
<1>6. CASE ServeReplay
  BY <1>1, <1>6, ResumedServe
<1>7. CASE DeliverReplay \/ DeliverLive
  BY <1>1, <1>7, ResumedDeliverReplay, ResumedDeliverLive
<1>8. CASE DrainUnfiltered \/ SetFilter \/ Disconnect
  <2>1. ~Resumed'
    BY <1>8 DEF DrainUnfiltered, SetFilter, Disconnect, Resumed
  <2> QED
    BY <2>1 DEF ResumedInv, Reading
<1> QED
  BY <1>2, <1>3, <1>4, <1>5, <1>6, <1>7, <1>8 DEF Next

LEMMA ReplayInvInit == Init => ReplayInv
<1> SUFFICES ASSUME Init PROVE ReplayInv
  OBVIOUS
<1>1. StatusEmitted
  BY DEF Init, StatusEmitted, Queued, UnderWay
<1>2. ResumedInv
  BY DEF Init, ResumedInv, Reading, Resumed
<1> QED
  BY <1>1, <1>2 DEF Init, ReplayInv, WantedInv, PrunedInv, ResponseFirst

LEMMA ReplayInvNext ==
    ASSUME DeliveryInv, DeliveryInv', ReplayInv, [Next]_vars
    PROVE  ReplayInv'
<1>1. from' \in Nat
  <2>1. CASE SetFilter
    BY <2>1, DeliveryAssumption DEF SetFilter, DeliveryAssumption
  <2>2. CASE ~SetFilter
    <3>1. UNCHANGED from
      BY <2>2 DEF Next, Plugin, UpdateSlotStatusLifecycle, NotifyBlockMetadata, UpdateSlotStatusCommitment,
         NotifyData, GeyserBroadcast, GeyserForward, ReconstructTake, ReconstructAdd, ReconstructStatus,
         PopReadyBlock, ReconstructBroadcast, ServeReplay, DrainUnfiltered, DeliverReplay, DeliverLive,
         Disconnect, vars, requestVars
    <3> QED
      BY <3>1 DEF ReplayInv
  <2> QED
    BY <2>1, <2>2
<1>2. WantedInv /\ PrunedInv /\ StatusEmitted /\ ResponseFirst
  BY DEF ReplayInv
<1> QED
  BY <1>1, <1>2, WantedInvKept, PrunedInvKept, StatusEmittedKept, ResponseFirstKept, ResumedInvKept DEF ReplayInv

\* What the client holds satisfies the two properties.
LEMMA ResumedHolds ==
    ASSUME DeliveryInv, ReplayInv
    PROVE  ReplayNoGap /\ NothingMissed
<1>1. ASSUME from # 0, pc = "live", level # Processed PROVE HeldInOrder
  BY <1>1 DEF ReplayInv, ResumedInv, Resumed
<1>2. ReplayNoGap
  BY <1>1, HoldsMeans DEF ReplayNoGap, HeldInOrder, Parts
<1>3. ASSUME from # 0, pc = "live", level # Processed, ~lagged, rx = <<>>, ready = <<>>, outbox = <<>>,
             NEW s \in Slots, s >= from, emitted[s] >= level
      PROVE  got.data[s] = Data /\ s \in got.block /\ level .. emitted[s] \subseteq got.status[s]
  <2>1. AllSent /\ response = {}
    BY <1>3 DEF ReplayInv, ResumedInv, Resumed, Reading, ResponseFirst
  <2>2. level \in Levels /\ emitted[s] \in 0 .. Finalized
    BY DEF DeliveryInv, ClientTypes, StorageTypes
  <2>3. ASSUME NEW l \in level .. emitted[s], NEW m \in Due(s, l) PROVE Holds(m)
    <3>1. l \in Levels /\ level <= l /\ l <= emitted[s]
      BY <2>2 DEF Levels, Processed, Finalized
    <3>2. SentBy(m, Len(outbox))
      BY <1>3, <2>1, <3>1 DEF AllSent, Queued
    <3> QED
      BY <1>3, <2>1, <3>2 DEF SentBy, HeldBy
  <2>4. level \in level .. emitted[s]
    BY <1>3, <2>2 DEF Levels, Processed, Finalized
  <2>5. ContentOf(s) \in Due(s, level) /\ Block(s) \in Due(s, level) /\ \A l : Status(s, l) \in Due(s, l)
    BY DEF Due, Parts
  <2> QED
    BY <2>3, <2>4, <2>5, HoldsMeans
<1>4. NothingMissed
  BY <1>3 DEF NothingMissed
<1> QED
  BY <1>2, <1>4

\* A Confirmed or Finalized subscriber that resumes at an accepted from_slot never learns that a
\* slot reached its level without having received the slot's content and block.  ServeReplay runs
\* between two batches of block_reconstruction_loop, so the stored slots hold every status sent
\* so far and the ring whatever is sent from then on; and a slot that freezes below one gc has
\* dropped is gone again before the next request is served.
THEOREM ReplayNeverGaps == Spec => []ReplayNoGap
<1>1. Init => DeliveryInv /\ ReplayInv
  BY DeliveryInvInit, ReplayInvInit
<1>2. DeliveryInv /\ ReplayInv /\ [Next]_vars => (DeliveryInv /\ ReplayInv)'
  BY DeliveryInvNext, ReplayInvNext
<1>3. DeliveryInv /\ ReplayInv => ReplayNoGap
  BY ResumedHolds
<1> QED
  BY <1>1, <1>2, <1>3, PTL DEF Spec

\* ... and once it has read its receiver to the end, with nothing left to be broadcast, it holds
\* the content, the block and every status from its level on of every slot from from_slot on.
THEOREM NothingIsMissed == Spec => []NothingMissed
<1>1. Init => DeliveryInv /\ ReplayInv
  BY DeliveryInvInit, ReplayInvInit
<1>2. DeliveryInv /\ ReplayInv /\ [Next]_vars => (DeliveryInv /\ ReplayInv)'
  BY DeliveryInvNext, ReplayInvNext
<1>3. DeliveryInv /\ ReplayInv => NothingMissed
  BY ResumedHolds
<1> QED
  BY <1>1, <1>2, <1>3, PTL DEF Spec
=============================================================================
