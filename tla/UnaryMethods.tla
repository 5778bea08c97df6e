---------------------------- MODULE UnaryMethods ----------------------------
(***************************************************************************)
(* BlockMetaStorage and the unary methods it answers (grpc.rs). The plugin *)
(* sends every slot status and block meta to a task that keeps, behind one *)
(* lock, the newest slot of each commitment level, the recent block metas  *)
(* and the recent blockhashes with the levels they have reached. Callers   *)
(* read it under a semaphore.                                              *)
(***************************************************************************)
EXTENDS Integers, Sequences, FiniteSets

CONSTANTS
    Slots,          \* the slots of the cluster
    MaxBanks,       \* bound: slot -> banks, and so blockhashes, it may have
    Callers,        \* concurrent unary calls
    Asked,          \* bound: what they ask, [method, commitment, blockhash]
    MaxQueue,       \* bound: messages in the channel, which is unbounded in the code
    KeepSlots,      \* KEEP_SLOTS
    MaxRecent,      \* MAX_RECENT_BLOCKHASHES + 32
    UnaryConcurrencyLimit,  \* unary_concurrency_limit
    NoSlot

ASSUME UnaryAssumption ==
    /\ Slots \subseteq Nat /\ IsFiniteSet(Slots)
    /\ MaxBanks \in [Slots -> Nat] /\ {KeepSlots, MaxRecent, MaxQueue} \subseteq Nat
    /\ UnaryConcurrencyLimit \in Nat \ {0}
    /\ NoSlot \notin Nat

Levels == {"processed", "confirmed", "finalized"}
\* A blockhash names the bank it was computed from; only some blocks have a height.
HasHeight(blockhash) == blockhash[2] < 2

VARIABLES
    bank,           \* validator: slot -> its latest bank, 0 for none
    metaSent,       \* validator: blockhashes whose block meta was notified
    notified,       \* validator: (blockhash, level) pairs notified
    queue,          \* blocks_meta_tx: an unbounded channel
    task,           \* "running" | "cancelled" | "disabled" (unary_disabled): the writing side
    blocks,         \* slot -> blockhash of its block meta, or NoBlock
    blockhashes,    \* blockhash -> [slot, levels], for those in the table
    latest,         \* processed, confirmed, finalized: level -> slot or NoSlot
    call,           \* caller -> "idle" | "waiting" | "reading"
    due             \* history: (blockhash, level) pairs whose status came after the meta

validator == <<bank, metaSent, notified>>
storage == <<blocks, blockhashes, latest>>
vars == <<validator, queue, task, storage, call, due>>

NoBlock == <<>>
NoAnswer == [result |-> "none"]

Init ==
    /\ bank = [s \in Slots |-> 0]
    /\ metaSent = {} /\ notified = {}
    /\ queue = <<>> /\ task \in {"running", "disabled"}
    /\ blocks = [s \in Slots |-> NoBlock]
    /\ blockhashes = [h \in {} |-> h]
    /\ latest = [l \in Levels |-> NoSlot]
    /\ call = [c \in Callers |-> "idle"]
    /\ due = {}

-----------------------------------------------------------------------------
(* The validator and the plugin's callbacks (external order: the other     *)
(* notifications of a slot follow its bank, a bank's levels come in order, *)
(* slots are rooted in order, and below the root nothing is created,       *)
(* frozen or confirmed any more)                                           *)

Current(s) == <<s, bank[s]>>
AboveRoot(s) == \A n \in notified : n[2] = "finalized" => n[1][1] < s

\* send_blocks_meta_message. With the unary methods disabled there is no channel, and a
\* task that has ended has dropped its receiver: from then on callbacks change nothing.
SendBlocksMeta(m) == task = "running" /\ Len(queue) < MaxQueue /\ queue' = Append(queue, m)

CreateBank(s) ==
    /\ bank[s] < MaxBanks[s] /\ AboveRoot(s)
    /\ <<Current(s), "confirmed">> \notin notified
    /\ bank' = [bank EXCEPT ![s] = @ + 1]
    /\ SendBlocksMeta([kind |-> "slot", slot |-> s, status |-> "created_bank"])
    /\ UNCHANGED <<metaSent, notified, task, storage, call, due>>

\* update_slot_status
UpdateSlotStatus(s, level) ==
    /\ bank[s] > 0 /\ AboveRoot(s) /\ <<Current(s), level>> \notin notified
    /\ level = "confirmed" => <<Current(s), "processed">> \in notified
    /\ level = "finalized" => <<Current(s), "confirmed">> \in notified
    /\ notified' = notified \cup {<<Current(s), level>>}
    /\ SendBlocksMeta([kind |-> "slot", slot |-> s, status |-> level])
    /\ due' = IF Current(s) \in metaSent THEN due \cup {<<Current(s), level>>} ELSE due
    /\ UNCHANGED <<bank, metaSent, task, storage, call>>

\* notify_block_metadata
NotifyBlockMetadata(s) ==
    /\ bank[s] > 0 /\ Current(s) \notin metaSent
    /\ \A n \in notified : n[2] = "finalized" => n[1][1] <= s
    /\ metaSent' = metaSent \cup {Current(s)}
    /\ SendBlocksMeta([kind |-> "meta", slot |-> s, blockhash |-> Current(s)])
    /\ UNCHANGED <<bank, notified, task, storage, call, due>>

-----------------------------------------------------------------------------
(* The task                                                                *)

\* The pointer of the level is replaced, whichever slot it named.
Pointers(m) == IF m.status \in Levels THEN [latest EXCEPT ![m.status] = m.slot] ELSE latest

\* Any status of a slot whose block is known makes the entry of its blockhash.
Entry(table, m, h) ==
    LET old == IF h \in DOMAIN table THEN table[h] ELSE [slot |-> m.slot, levels |-> {}]
    IN  [g \in DOMAIN table \cup {h} |->
            IF g = h THEN [old EXCEPT !.levels = @ \cup ({m.status} \cap Levels)] ELSE table[g]]

\* checked_sub: nothing is dropped while the window reaches below slot 0.
KeptBlock(s, finalized) == finalized >= KeepSlots => s >= finalized - KeepSlots

\* Mutant: blockhashes are kept no longer than blocks.
KeptBlockhashShort(s, finalized) == finalized >= KeepSlots => s >= finalized - KeepSlots
KeptBlockhash(s, finalized) == finalized >= MaxRecent => s >= finalized - MaxRecent

ApplySlot(m) ==
    LET h == blocks[m.slot]
        table == IF h = NoBlock THEN blockhashes ELSE Entry(blockhashes, m, h)
    IN  /\ latest' = Pointers(m)
        /\ IF m.status = "finalized"
           THEN /\ blocks' = [s \in Slots |-> IF KeptBlock(s, m.slot) THEN blocks[s] ELSE NoBlock]
                /\ blockhashes' = [g \in {x \in DOMAIN table : KeptBlockhash(table[x].slot, m.slot)} |-> table[g]]
           ELSE blocks' = blocks /\ blockhashes' = table

ApplyMeta(m) ==
    /\ blocks' = [blocks EXCEPT ![m.slot] = m.blockhash]
    /\ UNCHANGED <<blockhashes, latest>>

\* One turn of the loop, under the write lock
Apply ==
    /\ task = "running" /\ queue # <<>>
    /\ queue' = Tail(queue)
    /\ LET m == Head(queue) IN IF m.kind = "slot" THEN ApplySlot(m) ELSE ApplyMeta(m)
    /\ UNCHANGED <<validator, task, call, due>>

\* The token is cancelled, or the plugin is gone and the channel closed: what is queued
\* goes with the receiver, the tables stay as they are for those who still ask.
Cancel ==
    /\ task = "running"
    /\ task' = "cancelled" /\ queue' = <<>>
    /\ UNCHANGED <<validator, storage, call, due>>

-----------------------------------------------------------------------------
(* Calls                                                                   *)

Reading == {c \in Callers : call[c] = "reading"}

\* ping, get_version and subscribe_first_available_slot need no storage. A commitment
\* that is not there is Processed; one the proto does not know is refused before the
\* semaphore is asked.
AnsweredAtOnce(r) ==
    IF r.method = "ping" THEN [result |-> "pong"]
    ELSE IF task = "disabled" THEN [result |-> "unimplemented"]
    ELSE IF r.commitment \notin Levels \cup {"default"} THEN [result |-> "unknown"]
    ELSE NoAnswer

Ask(c, r) ==
    /\ call[c] = "idle" /\ AnsweredAtOnce(r) = NoAnswer
    /\ call' = [call EXCEPT ![c] = "waiting"]
    /\ UNCHANGED <<validator, queue, task, storage, due>>

Acquire(c) ==
    /\ call[c] = "waiting"
    /\ Cardinality(Reading) < UnaryConcurrencyLimit
    /\ call' = [call EXCEPT ![c] = "reading"]
    /\ UNCHANGED <<validator, queue, task, storage, due>>

\* Mutant: the level a caller asks for is not looked at.
LevelOfIgnored(r) == "processed"

LevelOf(r) == IF r.commitment = "default" THEN "processed" ELSE r.commitment

\* get_block for get_slot, get_block_height and get_latest_blockhash; the last two
\* build no response of a block without a height.
GetBlock(r) ==
    LET slot == latest[LevelOf(r)]
    IN  IF slot = NoSlot \/ (slot \in Slots /\ blocks[slot] = NoBlock) THEN [result |-> "not_available"]
        ELSE IF r.method # "get_slot" /\ ~HasHeight(blocks[slot]) THEN [result |-> "no_response"]
        ELSE [result |-> "block", slot |-> slot, blockhash |-> blocks[slot]]

\* is_blockhash_valid
IsBlockhashValid(r) ==
    IF Cardinality(DOMAIN blockhashes) < MaxRecent \/ latest[LevelOf(r)] = NoSlot THEN [result |-> "startup"]
    ELSE [result |-> "valid", slot |-> latest[LevelOf(r)],
          valid |-> r.blockhash \in DOMAIN blockhashes /\ LevelOf(r) \in blockhashes[r.blockhash].levels]

AnswerTo(r) ==
    IF AnsweredAtOnce(r) # NoAnswer THEN AnsweredAtOnce(r)
    ELSE IF r.method = "is_blockhash_valid" THEN IsBlockhashValid(r) ELSE GetBlock(r)

\* The read lock is held to the end: the answer is AnswerTo of this state.
Read(c) ==
    /\ call[c] = "reading"
    /\ call' = [call EXCEPT ![c] = "idle"]
    /\ UNCHANGED <<validator, queue, task, storage, due>>

\* The client resets the call: its future, and the permit with it, is dropped.
Reset(c) ==
    /\ call[c] \in {"waiting", "reading"}
    /\ call' = [call EXCEPT ![c] = "idle"]
    /\ UNCHANGED <<validator, queue, task, storage, due>>

Next ==
    \/ \E s \in Slots : CreateBank(s) \/ NotifyBlockMetadata(s) \/ \E l \in Levels : UpdateSlotStatus(s, l)
    \/ Apply \/ Cancel
    \/ \E c \in Callers : (\E r \in Asked : Ask(c, r)) \/ Acquire(c) \/ Read(c) \/ Reset(c)

Spec == Init /\ [][Next]_vars

-----------------------------------------------------------------------------
(* Properties                                                              *)

Drained == task = "running" /\ queue = <<>>
Root == latest["finalized"]

\* The tables are windows of the right size once the task has caught up.  A blockhash whose
\* slot got a status after its block meta has that level until it is more than
\* MAX_RECENT_BLOCKHASHES + 32 slots below the root, although its block goes much earlier;
\* and no block or blockhash below its window is left, skipped slots and abandoned forks
\* included, so that neither table grows with the chain.
WindowsExact ==
    Drained =>
        /\ \A d \in due :
              \/ Root # NoSlot /\ Root > d[1][1] + MaxRecent
              \/ d[1] \in DOMAIN blockhashes /\ d[2] \in blockhashes[d[1]].levels
        /\ Root # NoSlot =>
              /\ \A s \in Slots : blocks[s] # NoBlock => s + KeepSlots >= Root
              /\ \A h \in DOMAIN blockhashes : h[1] + MaxRecent >= Root

\* An answer is true of the validator: the slot of a block that is handed out was
\* notified at the level asked for, and its blockhash is one of a bank of that slot; a
\* blockhash is called valid only if a bank of its slot had that level.
AnswersAreTrue ==
    \A r \in Asked :
        LET a == AnswerTo(r)
            reached(s) == \E n \in notified : n[1][1] = s /\ n[2] = (IF r.commitment = "default" THEN "processed" ELSE r.commitment)
        IN  /\ a.result = "block" => reached(a.slot) /\ a.blockhash \in metaSent /\ a.blockhash[1] = a.slot
            /\ a.result = "valid" =>
                reached(a.slot) /\ (a.valid => r.blockhash \in metaSent /\ reached(r.blockhash[1]))
=============================================================================
