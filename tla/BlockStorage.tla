---------------------------- MODULE BlockStorage ----------------------------
(***************************************************************************)
(* BlockMachineStorage (block_reconstruction.rs): rebuilds blocks from the *)
(* plugin's notifications, freezes them when they are complete, queues a   *)
(* frozen block once per commitment level it reaches and keeps a window of *)
(* frozen blocks for clients that replay from an earlier slot.             *)
(*                                                                         *)
(* The storage is owned by one task.  BlockMachineStorage::add handles a   *)
(* message and then drains the state machine's outputs; here each output,  *)
(* and each turn of the gc loop, is a step of its own, and no other        *)
(* operation is enabled until the drain is over (Idle).                    *)
(***************************************************************************)
EXTENDS BlocksStateMachine, Sequences

CONSTANTS
    Pubkeys,            \* accounts that are written
    MaxWriteVersion,    \* bound: slot -> write versions of one account in one bank
    TxnCount,           \* blockmeta.executed_transaction_count of every block
    EntryCount,         \* blockmeta.entries_count of every block
    ReplayedCapacity,   \* replayed_capacity
    MinimumFinalizedSlotToBuffer,   \* MINIMUM_FINALIZED_SLOT_TO_BUFFER
    MaxBanks            \* bound: slot -> banks created for it

ASSUME StorageAssumption ==
    /\ {TxnCount, EntryCount} \subseteq Nat
    /\ ReplayedCapacity \in Nat
    /\ MinimumFinalizedSlotToBuffer \in Nat
    /\ {MaxWriteVersion, MaxBanks} \subseteq [Slots -> Nat]

VARIABLES
    processing_slots,   \* slot -> ProcessingSlot
    replayed_slot,      \* slot -> FrozenBlock: bank and messages
    slot_commitment_progression_map,    \* slot -> SlotProgression
    ready_queue,        \* (status, block) pairs waiting to be broadcast
    min_slot,           \* oldest replayable slot, or NoSlot
    num_buffered_finalized_slot,
    gc_running,         \* TRUE inside the while loop of gc
    bank,               \* environment: banks created so far for a slot
    notified,           \* environment: block data notified for the current bank
    metaNotified,       \* environment: slots whose current bank's block meta was notified
    popped              \* history: commitment levels popped for the current bank

storageVars == <<processing_slots, replayed_slot, slot_commitment_progression_map,
                 ready_queue, min_slot, num_buffered_finalized_slot, gc_running>>
envVars == <<bank, notified, metaNotified>>
vars == <<machineVars, storageVars, envVars, popped>>

NoSlot == -1

Txns    == [kind : {"txn"}, index : 1..TxnCount]
Entries == [kind : {"entry"}, index : 1..EntryCount]
BlockData(s) ==
    Txns \cup Entries
      \cup [kind : {"account"}, pubkey : Pubkeys, write_version : 1..MaxWriteVersion[s]]

SlotProgression == [commitment : Seq(CommitmentLevel), max_commitment : CommitmentLevel]

\* Maps as functions whose domain is the set of keys.
EmptyMap == [s \in {} |-> s]
Put(f, k, v) == [x \in DOMAIN f \cup {k} |-> IF x = k THEN v ELSE f[x]]
Remove(f, k) == [x \in DOMAIN f \ {k} |-> f[x]]
MapInto(f, S, T) == DOMAIN f \subseteq S /\ \A x \in DOMAIN f : f[x] \in T

Elements(q) == {q[i] : i \in DOMAIN q}

\* The elements of q at the positions K, in their order
Rank(K, i) == Cardinality({k \in K : k <= i})
Retain(q, K) == [j \in 1..Cardinality(K) |-> q[CHOOSE i \in K : Rank(K, i) = j]]

\* refresh_min_slot: the first key of the ordered map
FirstKey(S) == IF S = {} THEN NoSlot ELSE CHOOSE s \in S : \A t \in S : s <= t

Init ==
    /\ MachineInit
    /\ processing_slots = EmptyMap
    /\ replayed_slot = EmptyMap
    /\ slot_commitment_progression_map = EmptyMap
    /\ ready_queue = <<>>
    /\ min_slot = NoSlot
    /\ num_buffered_finalized_slot = 0
    /\ gc_running = FALSE
    /\ bank = [s \in Slots |-> 0]
    /\ notified = [s \in Slots |-> {}]
    /\ metaNotified = {}
    /\ popped = [s \in Slots |-> 0]

\* The task is between two calls: add has drained every output.
Idle == ~gc_running /\ ~OutputDue

-----------------------------------------------------------------------------
(* ProcessingSlot                                                          *)

NewProcessingSlot ==
    [original_messages |-> <<>>, account_write_version_map |-> [p \in Pubkeys |-> 0],
     blockmeta |-> FALSE, is_sealed |-> FALSE]

AddEvent(buf, m) ==
    LET wv == buf.account_write_version_map
    IN  [buf EXCEPT
            !.original_messages = Append(@, m),
            !.account_write_version_map =
                IF m.kind = "account" /\ wv[m.pubkey] < m.write_version
                THEN [wv EXCEPT ![m.pubkey] = m.write_version] ELSE wv]

CountKind(msgs, kind) == Cardinality({i \in DOMAIN msgs : msgs[i].kind = kind})

\* Mutant: seals without waiting for the entries.
SealableNoEntries(buf) ==
    ~buf.is_sealed /\ buf.blockmeta /\ CountKind(buf.original_messages, "txn") >= TxnCount

\* ProcessingSlot::try_seal returns Ok
Sealable(buf) ==
    /\ ~buf.is_sealed
    /\ buf.blockmeta
    /\ CountKind(buf.original_messages, "txn") >= TxnCount
    /\ CountKind(buf.original_messages, "entry") >= EntryCount

\* The seal filter: an account update survives if it is the account's last one.
IsLatest(buf, m) ==
    m.kind = "account" => buf.account_write_version_map[m.pubkey] = m.write_version

Seal(buf, b) ==
    [bank |-> b,
     messages |-> Retain(buf.original_messages,
                         {i \in DOMAIN buf.original_messages :
                             IsLatest(buf, buf.original_messages[i])})]

-----------------------------------------------------------------------------
(* add: the message's handler.  The outputs are drained by the actions of  *)
(* the next section before anything else happens.                          *)

\* BlockMachineStorage::try_seal: seal the buffer once and report the summary.
TrySeal(s, buf) ==
    IF Sealable(buf)
    THEN /\ processing_slots' = Put(processing_slots, s, [buf EXCEPT !.is_sealed = TRUE])
         /\ AcceptSummary(s)
    ELSE /\ processing_slots' = Put(processing_slots, s, buf)
         /\ UNCHANGED machineVars

UnchangedButProcessing ==
    UNCHANGED <<replayed_slot, slot_commitment_progression_map, ready_queue, min_slot,
                num_buffered_finalized_slot, gc_running, popped>>

AddFirstShredReceived(s) ==
    /\ Idle
    /\ bank[s] = 0
    /\ TrackSlot(s)
    /\ UNCHANGED <<storageVars, envVars, popped>>

\* A second bank for a slot (a dump and repair) happens only before the slot, or
\* another branch, is rooted.
AddCreatedBank(s) ==
    /\ Idle
    /\ bank[s] < MaxBanks[s]
    /\ ~Rejected(s)
    /\ bank' = [bank EXCEPT ![s] = @ + 1]
    /\ notified' = [notified EXCEPT ![s] = {}]
    /\ metaNotified' = metaNotified \ {s}
    /\ popped' = [popped EXCEPT ![s] = 0]
    /\ IF bank[s] > 0 /\ s \in tracked THEN ResetBank(s) ELSE TrackSlot(s)
    /\ UNCHANGED storageVars

\* A bank dies while it is replayed, hence before its block meta is notified.
AddDead(s) ==
    /\ Idle
    /\ s \notin metaNotified
    /\ MarkDead(s)
    /\ UNCHANGED <<storageVars, envVars, popped>>

AddCommitment(s, level) ==
    /\ Idle
    /\ bank[s] > 0
    /\ ~Rejected(s)
    /\ wanted[s] < level
    /\ ConsensusEvent(s, level)
    /\ UNCHANGED <<storageVars, envVars, popped>>

\* Accounts are written before the bank freezes, so before its block meta;
\* transactions and entries come from other threads, in any order.
Notifiable(s, m) ==
    /\ bank[s] > 0
    /\ m \notin notified[s]
    /\ m.kind = "account" => s \notin metaNotified

AddBlockData(s, m) ==
    /\ Idle
    /\ Notifiable(s, m)
    /\ notified' = [notified EXCEPT ![s] = @ \cup {m}]
    /\ IF s \notin tracked \/ s \in DOMAIN replayed_slot
       THEN UNCHANGED <<processing_slots, machineVars>>
       ELSE LET buf == IF s \in DOMAIN processing_slots
                       THEN processing_slots[s] ELSE NewProcessingSlot
            IN  TrySeal(s, AddEvent(buf, m))
    /\ UnchangedButProcessing
    /\ UNCHANGED <<bank, metaNotified>>

AddBlockMeta(s) ==
    /\ Idle
    /\ bank[s] > 0
    /\ s \notin metaNotified
    /\ metaNotified' = metaNotified \cup {s}
    /\ IF s \in DOMAIN processing_slots
       THEN TrySeal(s, [processing_slots[s] EXCEPT !.blockmeta = TRUE])
       ELSE UNCHANGED <<processing_slots, machineVars>>
    /\ UnchangedButProcessing
    /\ UNCHANGED <<bank, notified>>

-----------------------------------------------------------------------------
(* on_blockmachine_output, one action per kind of output                   *)

OnFrozenBlock(s) ==
    /\ ~gc_running
    /\ PopFrozen(s)
    /\ IF s \in DOMAIN processing_slots
       THEN /\ processing_slots' = Remove(processing_slots, s)
            /\ min_slot' = IF min_slot = NoSlot \/ s < min_slot THEN s ELSE min_slot
            /\ replayed_slot' = Put(replayed_slot, s, Seal(processing_slots[s], bank[s]))
       ELSE UNCHANGED <<processing_slots, min_slot, replayed_slot>>
    /\ UNCHANGED <<slot_commitment_progression_map, ready_queue,
                   num_buffered_finalized_slot, gc_running, envVars, popped>>

\* The progression entry after a status: recorded once, the maximum raised.
Progress(prog, s, level) ==
    IF s \notin DOMAIN prog
    THEN Put(prog, s, [commitment |-> <<level>>, max_commitment |-> level])
    ELSE [prog EXCEPT
            ![s].commitment = IF level \in Elements(@) THEN @ ELSE Append(@, level),
            ![s].max_commitment = IF @ < level THEN level ELSE @]

NewlyFinalized(prog, s, level) ==
    level = Finalized /\ (s \in DOMAIN prog => level \notin Elements(prog[s].commitment))

OnSlotStatus(s) ==
    LET level == emitted[s] + 1
        prog == slot_commitment_progression_map
    IN  /\ ~gc_running
        /\ PopStatus(s)
        /\ slot_commitment_progression_map' = Progress(prog, s, level)
        /\ num_buffered_finalized_slot' =
              IF NewlyFinalized(prog, s, level) THEN num_buffered_finalized_slot + 1
                                                ELSE num_buffered_finalized_slot
        /\ ready_queue' = IF s \in DOMAIN replayed_slot
                          THEN Append(ready_queue, [slot |-> s, commitment |-> level,
                                                    block |-> replayed_slot[s]])
                          ELSE ready_queue
        /\ gc_running' = (level = Finalized)
        /\ UNCHANGED <<processing_slots, replayed_slot, min_slot, envVars, popped,
                       tracked, summarized, frozen, wanted, notices>>

\* Mutant: forgets to lower the count of finalized slots.
PruneSlotNoDecrement(s) ==
    /\ processing_slots' = Remove(processing_slots, s)
    /\ replayed_slot' = Remove(replayed_slot, s)
    /\ slot_commitment_progression_map' = Remove(slot_commitment_progression_map, s)
    /\ UNCHANGED num_buffered_finalized_slot

\* Mutant: forgets the buffer of the slot.
PruneSlotKeepsBuffer(s) ==
    /\ replayed_slot' = Remove(replayed_slot, s)
    /\ slot_commitment_progression_map' = Remove(slot_commitment_progression_map, s)
    /\ UNCHANGED <<processing_slots, num_buffered_finalized_slot>>

\* prune_slot(slot, _), apart from min_slot
PruneSlot(s) ==
    LET prog == slot_commitment_progression_map
    IN  /\ processing_slots' = Remove(processing_slots, s)
        /\ replayed_slot' = Remove(replayed_slot, s)
        /\ slot_commitment_progression_map' = Remove(prog, s)
        /\ num_buffered_finalized_slot' =
              IF /\ s \in DOMAIN prog
                 /\ prog[s].max_commitment = Finalized
                 /\ num_buffered_finalized_slot > 0
              THEN num_buffered_finalized_slot - 1 ELSE num_buffered_finalized_slot

\* Mutant: min_slot is left as it was.
RefreshMinSlotSkipped == UNCHANGED min_slot

RefreshMinSlot == min_slot' = FirstKey(DOMAIN replayed_slot')

OnForkOrDead(n) ==
    /\ ~gc_running
    /\ n.kind \in {"ForksDetected", "DeadSlotDetected"}
    /\ PopNotice(n)
    /\ PruneSlot(n.slot)
    /\ RefreshMinSlot
    /\ UNCHANGED <<ready_queue, gc_running, envVars, popped>>

\* Mutant: the ready queue keeps the blocks of the old bank.
OnBankResetKeepsQueue(n) ==
    /\ ~gc_running
    /\ n.kind = "BankReset"
    /\ PopNotice(n)
    /\ PruneSlot(n.slot)
    /\ RefreshMinSlot
    /\ UNCHANGED <<ready_queue, gc_running, envVars, popped>>

\* slot_reset
OnBankReset(n) ==
    /\ ~gc_running
    /\ n.kind = "BankReset"
    /\ PopNotice(n)
    /\ PruneSlot(n.slot)
    /\ RefreshMinSlot
    /\ ready_queue' = Retain(ready_queue,
                             {i \in DOMAIN ready_queue : ready_queue[i].slot # n.slot})
    /\ UNCHANGED <<gc_running, envVars, popped>>

\* gc, called after a Finalized status: one action per turn of its loop
GcPruning ==
    /\ Cardinality(DOMAIN replayed_slot) > ReplayedCapacity
    /\ num_buffered_finalized_slot > MinimumFinalizedSlotToBuffer

GcPrune ==
    /\ gc_running
    /\ GcPruning
    /\ PruneSlot(FirstKey(DOMAIN replayed_slot))
    /\ UNCHANGED <<machineVars, min_slot, ready_queue, gc_running, envVars, popped>>

GcDone ==
    /\ gc_running
    /\ ~GcPruning
    /\ gc_running' = FALSE
    /\ min_slot' = FirstKey(DOMAIN replayed_slot)
    /\ MachineGc
    /\ UNCHANGED <<processing_slots, replayed_slot, slot_commitment_progression_map,
                   ready_queue, num_buffered_finalized_slot, envVars, popped>>

-----------------------------------------------------------------------------

PopReadyBlock ==
    /\ Idle
    /\ ready_queue # <<>>
    /\ popped' = [popped EXCEPT ![Head(ready_queue).slot] = Head(ready_queue).commitment]
    /\ ready_queue' = Tail(ready_queue)
    /\ UNCHANGED <<machineVars, envVars, processing_slots, replayed_slot, min_slot,
                   slot_commitment_progression_map, num_buffered_finalized_slot, gc_running>>

\* ReplayIter: the frozen blocks from a slot on that reached a commitment level
ReplayFromSlot(from, minCommitment) ==
    {s \in DOMAIN replayed_slot :
        /\ s >= from
        /\ s \in DOMAIN slot_commitment_progression_map
        /\ slot_commitment_progression_map[s].max_commitment >= minCommitment}

AddMessage(s) ==
    \/ AddFirstShredReceived(s)
    \/ AddCreatedBank(s)
    \/ AddDead(s)
    \/ \E level \in CommitmentLevel : AddCommitment(s, level)
    \/ \E m \in BlockData(s) : AddBlockData(s, m)
    \/ AddBlockMeta(s)

OnOutput ==
    \/ \E s \in Slots : OnFrozenBlock(s) \/ OnSlotStatus(s)
    \/ \E n \in notices : OnForkOrDead(n) \/ OnBankReset(n)
    \/ GcPrune
    \/ GcDone

Next ==
    \/ \E s \in Slots : AddMessage(s)
    \/ OnOutput
    \/ PopReadyBlock

Spec == Init /\ [][Next]_vars

-----------------------------------------------------------------------------
(* Properties                                                              *)

FinalizedSlots ==
    {s \in DOMAIN slot_commitment_progression_map :
        slot_commitment_progression_map[s].max_commitment = Finalized}

\* num_buffered_finalized_slot, which is raised by on_blockmachine_output when a
\* Finalized status is first recorded and lowered by prune_slot from
\* max_commitment, always is the number of slots buffered as finalized: gc and
\* its minimum never work from a drifted count.
FinalizedCountExact == num_buffered_finalized_slot = Cardinality(FinalizedSlots)

\* min_slot, which replay requests are checked against, is the oldest frozen
\* block that is kept, whatever froze, was pruned or was reset.
MinSlotExact == ~gc_running => min_slot = FirstKey(DOMAIN replayed_slot)

ResetDue(s) == Notice("BankReset", s) \in notices

\* The statuses queued for a slot's current bank are exactly the ones the state
\* machine emitted and the loop has not popped, in order: no pruning by gc loses
\* the Confirmed or Finalized status of a block, and none is queued twice.  A replay
\* at a level has those of the blocks still kept whose status of that level is out.
ReadyInOrder ==
    \A s \in Slots :
        ~ResetDue(s) =>
            LET queued == {i \in DOMAIN ready_queue : ready_queue[i].slot = s}
            IN  /\ {ready_queue[i].commitment : i \in queued} = popped[s] + 1 .. emitted[s]
                /\ \A i, j \in queued : i < j => ready_queue[i].commitment < ready_queue[j].commitment
                /\ \A level \in CommitmentLevel :
                      s \in ReplayFromSlot(s, level) <=>
                          s \in DOMAIN replayed_slot /\ emitted[s] >= level

\* Nothing outlives its bank: once a reset has been handled no block of the dumped bank
\* is replayed or waits to be broadcast, and between two calls of add nothing is kept
\* that can no longer be cleaned up, since progressions belong to frozen blocks and
\* buffers to tracked slots without one (slot_reset and prune_slot clear all four maps).
NothingOutlivesItsBank ==
    /\ \A i \in DOMAIN ready_queue :
          LET r == ready_queue[i] IN ResetDue(r.slot) \/ r.block.bank = bank[r.slot]
    /\ \A s \in DOMAIN replayed_slot :
          ResetDue(s) \/ replayed_slot[s].bank = bank[s]
    /\ Idle => /\ DOMAIN slot_commitment_progression_map \subseteq DOMAIN replayed_slot
               /\ DOMAIN processing_slots \subseteq tracked \ DOMAIN replayed_slot

\* A frozen block holds every transaction and entry of its bank and, for each
\* account, the last update that was notified and no other.
FrozenBlockComplete ==
    \A s \in DOMAIN replayed_slot :
        \/ ResetDue(s)
        \/ Elements(replayed_slot[s].messages) =
              Txns \cup Entries \cup
              {m \in notified[s] :
                  /\ m.kind = "account"
                  /\ \A o \in notified[s] :
                        o.kind = "account" /\ o.pubkey = m.pubkey => o.write_version <= m.write_version}
=============================================================================
