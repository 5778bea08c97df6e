------------------------- MODULE UnaryMethodsProofs -------------------------
(***************************************************************************)
(* AnswersAreTrue and WindowsExact for every set of slots, banks, callers  *)
(* and questions and for windows of every size.  Both are about the tables *)
(* after the task has worked through its channel; their inductive          *)
(* invariants say what the channel may hold in between.                    *)
(***************************************************************************)
EXTENDS UnaryMethods, SequenceTheorems, TLAPS

-----------------------------------------------------------------------------
(* Types                                                                   *)

Hashes == Slots \X Nat

IsSlot(m) == m.kind = "slot" /\ m.slot \in Slots /\ m.status \in Levels \cup {"created_bank"}
IsMeta(m) == m.kind = "meta" /\ m.blockhash \in Hashes /\ m.slot = m.blockhash[1]
Messages ==
    [kind : {"slot"}, slot : Slots, status : Levels \cup {"created_bank"}]
        \cup [kind : {"meta"}, slot : Slots, blockhash : Hashes]

\* The validator's own books: a bank is numbered when it is created, and what was notified
\* of it came later.
ValidatorTypes ==
    /\ bank \in [Slots -> Nat]
    /\ metaSent \subseteq Hashes
    /\ \A h \in metaSent : h[2] <= bank[h[1]]
    /\ notified \subseteq Hashes \X Levels
    /\ due \subseteq Hashes \X Levels

QueueTypes ==
    /\ queue \in Seq(Messages)
    /\ \A i \in DOMAIN queue : IsSlot(queue[i]) \/ IsMeta(queue[i])

TableTypes ==
    /\ blocks \in [Slots -> Hashes \cup {NoBlock}]
    /\ latest \in [Levels -> Slots \cup {NoSlot}]
    /\ DOMAIN blockhashes \subseteq Hashes
    /\ \A h \in DOMAIN blockhashes :
          /\ blockhashes[h] \in [slot : Slots, levels : SUBSET Levels]
          /\ blockhashes[h].slot = h[1]

Types == ValidatorTypes /\ QueueTypes /\ TableTypes

-----------------------------------------------------------------------------
(* Truth: what is in the channel or in a table was notified before.        *)

Reached(s, level) == \E n \in notified : n[1][1] = s /\ n[2] = level

TrueMessage(m) ==
    /\ IsSlot(m) /\ m.status \in Levels => Reached(m.slot, m.status)
    /\ IsMeta(m) => m.blockhash \in metaSent

QueueTrue == \A i \in DOMAIN queue : TrueMessage(queue[i])

TablesTrue ==
    /\ \A l \in Levels : latest[l] # NoSlot => Reached(latest[l], l)
    /\ \A s \in Slots : blocks[s] # NoBlock => blocks[s] \in metaSent /\ blocks[s][1] = s
    /\ \A h \in DOMAIN blockhashes :
          /\ h \in metaSent
          /\ \A l \in blockhashes[h].levels : Reached(h[1], l)

TruthInv == Types /\ QueueTrue /\ TablesTrue

-----------------------------------------------------------------------------
(* Windows: the root only goes up, and a status finds its block.           *)

Finalizes(m) == m.kind = "slot" /\ m.status = "finalized"

\* Nothing below a root comes after it.
RootedInOrder ==
    /\ \A i, j \in DOMAIN queue : i < j /\ Finalizes(queue[i]) => queue[i].slot <= queue[j].slot
    /\ Root # NoSlot => \A j \in DOMAIN queue : Root <= queue[j].slot

\* No table reaches below its window.
TablesBounded ==
    Root # NoSlot =>
        /\ \A s \in Slots : blocks[s] # NoBlock => s + KeepSlots >= Root
        /\ \A h \in DOMAIN blockhashes : h[1] + MaxRecent >= Root

MetaOf(m, s) == m.kind = "meta" /\ m.slot = s

\* The task finds the block h at its slot when it comes to position j of the channel:
\* it is in the table, or its block meta is ahead, and no other meta of the slot follows.
Finds(j, h) ==
    \/ blocks[h[1]] = h /\ \A k \in 1 .. j - 1 : ~MetaOf(queue[k], h[1])
    \/ \E i \in 1 .. j - 1 :
          /\ queue[i].kind = "meta" /\ queue[i].slot = h[1] /\ queue[i].blockhash = h
          /\ \A k \in i + 1 .. j - 1 : ~MetaOf(queue[k], h[1])

FindsNext(h) == Finds(Len(queue) + 1, h)

\* A status that is notified next will find the bank it is about, if its meta was sent.
NextFinds == \A h \in metaSent : h[2] = bank[h[1]] /\ AboveRoot(h[1]) => FindsNext(h)

Recorded(d) == d[1] \in DOMAIN blockhashes /\ d[2] \in blockhashes[d[1]].levels
OutOfWindow(d) == Root # NoSlot /\ Root > d[1][1] + MaxRecent
OnItsWay(d) ==
    \E j \in DOMAIN queue :
        /\ queue[j].kind = "slot" /\ queue[j].slot = d[1][1] /\ queue[j].status = d[2]
        /\ Finds(j, d[1])

\* A level that is due is recorded, out of the window, or on its way.
DueInv == \A d \in due : OutOfWindow(d) \/ Recorded(d) \/ OnItsWay(d)

InOrder == RootedInOrder /\ TablesBounded /\ NextFinds /\ DueInv

WindowInv ==
    /\ TruthInv
    /\ task = "running" => InOrder

-----------------------------------------------------------------------------
(* The channel                                                             *)

LEMMA SlotMessage ==
    ASSUME NEW s \in Slots, NEW status \in Levels \cup {"created_bank"}, NEW m,
           m = [kind |-> "slot", slot |-> s, status |-> status]
    PROVE  m \in Messages /\ IsSlot(m) /\ ~IsMeta(m) /\ m.slot = s /\ m.status = status
BY DEF Messages, IsSlot, IsMeta

LEMMA MetaMessage ==
    ASSUME NEW h \in Hashes, NEW m,
           m = [kind |-> "meta", slot |-> h[1], blockhash |-> h]
    PROVE  m \in Messages /\ IsMeta(m) /\ ~IsSlot(m) /\ m.slot = h[1] /\ m.blockhash = h
BY DEF Messages, IsSlot, IsMeta, Hashes

LEMMA Pushed ==
    ASSUME QueueTypes, NEW m \in Messages, queue' = Append(queue, m)
    PROVE  /\ Len(queue) \in Nat /\ Len(queue') = Len(queue) + 1
           /\ DOMAIN queue = 1 .. Len(queue) /\ DOMAIN queue' = 1 .. Len(queue) + 1
           /\ queue' \in Seq(Messages)
           /\ queue'[Len(queue) + 1] = m
           /\ \A i \in DOMAIN queue : queue'[i] = queue[i]
BY DEF QueueTypes

LEMMA Popped ==
    ASSUME QueueTypes, queue # <<>>, queue' = Tail(queue)
    PROVE  /\ Len(queue) \in Nat /\ Len(queue) > 0 /\ Len(queue') = Len(queue) - 1
           /\ DOMAIN queue = 1 .. Len(queue) /\ DOMAIN queue' = 1 .. Len(queue) - 1
           /\ queue' \in Seq(Messages)
           /\ Head(queue) = queue[1]
           /\ \A i \in DOMAIN queue' : queue'[i] = queue[i + 1]
BY DEF QueueTypes

LEMMA PushKeepsQueue ==
    ASSUME QueueTypes, QueueTrue, NEW m \in Messages, queue' = Append(queue, m),
           IsSlot(m) \/ IsMeta(m), TrueMessage(m)',
           notified \subseteq notified', metaSent \subseteq metaSent'
    PROVE  QueueTypes' /\ QueueTrue'
<1>1. QueueTypes'
  BY Pushed DEF QueueTypes
<1>2. ASSUME NEW i \in DOMAIN queue', NEW q, q = queue'[i]
      PROVE  TrueMessage(q)'
  <2>1. CASE i \in DOMAIN queue
    <3>1. q = queue[i] /\ TrueMessage(queue[i])
      BY <1>2, <2>1, Pushed DEF QueueTrue
    <3> QED
      BY <3>1 DEF TrueMessage, Reached
  <2>2. CASE i \notin DOMAIN queue
    <3>1. q = m
      BY <1>2, <2>2, Pushed
    <3> QED
      BY <3>1
  <2> QED
    BY <2>1, <2>2
<1> QED
  BY <1>1, <1>2 DEF QueueTrue

LEMMA TablesStayTrue ==
    ASSUME TableTypes, TablesTrue, UNCHANGED storage,
           notified \subseteq notified', metaSent \subseteq metaSent'
    PROVE  TableTypes' /\ TablesTrue'
<1>1. TableTypes'
  BY DEF TableTypes, storage
<1>2. \A s, l : Reached(s, l) => Reached(s, l)'
  BY DEF Reached
<1>3. blocks' = blocks /\ blockhashes' = blockhashes /\ latest' = latest
  BY DEF storage
<1>4. TablesTrue'
  BY <1>2, <1>3 DEF TablesTrue
<1> QED
  BY <1>1, <1>4

-----------------------------------------------------------------------------
(* Truth is kept                                                           *)

LEMMA TruthInit ==
    ASSUME Init
    PROVE  TruthInv
<1>1. ValidatorTypes
  BY DEF Init, ValidatorTypes, Hashes
<1>2. QueueTypes /\ QueueTrue
  BY DEF Init, QueueTypes, QueueTrue, Messages
<1>3. TableTypes
  BY DEF Init, TableTypes
<1>4. TablesTrue
  BY DEF Init, TablesTrue, Levels
<1> QED
  BY <1>1, <1>2, <1>3, <1>4 DEF TruthInv, Types

LEMMA CreateBankTruth ==
    ASSUME TruthInv, NEW s \in Slots, CreateBank(s)
    PROVE  TruthInv'
<1> DEFINE m == [kind |-> "slot", slot |-> s, status |-> "created_bank"]
<1>1. /\ queue' = Append(queue, m) /\ bank' = [bank EXCEPT ![s] = @ + 1]
      /\ UNCHANGED <<metaSent, notified, storage, due>>
  BY DEF CreateBank, SendBlocksMeta
<1>2. ValidatorTypes'
  <2>1. bank' \in [Slots -> Nat] /\ \A t \in Slots : bank[t] <= bank'[t]
    BY <1>1 DEF TruthInv, Types, ValidatorTypes
  <2>2. ASSUME NEW h \in metaSent
        PROVE  h[2] <= bank'[h[1]]
    BY <2>1, <2>2 DEF TruthInv, Types, ValidatorTypes, Hashes
  <2> QED
    BY <1>1, <2>1, <2>2 DEF TruthInv, Types, ValidatorTypes
<1>3. QueueTypes' /\ QueueTrue'
  <2>1. m \in Messages /\ IsSlot(m) /\ ~IsMeta(m) /\ m.status = "created_bank"
    BY SlotMessage
  <2>2. TrueMessage(m)'
    BY <2>1 DEF TrueMessage, Levels, IsMeta
  <2> HIDE DEF m
  <2> QED
    BY <1>1, <2>1, <2>2, PushKeepsQueue DEF TruthInv, Types
<1>4. TableTypes' /\ TablesTrue'
  BY <1>1, TablesStayTrue DEF TruthInv, Types
<1> QED
  BY <1>2, <1>3, <1>4 DEF TruthInv, Types

LEMMA UpdateSlotStatusTruth ==
    ASSUME TruthInv, NEW s \in Slots, NEW level \in Levels, UpdateSlotStatus(s, level)
    PROVE  TruthInv'
<1> DEFINE m == [kind |-> "slot", slot |-> s, status |-> level]
<1>1. /\ queue' = Append(queue, m) /\ notified' = notified \cup {<<Current(s), level>>}
      /\ due' \subseteq due \cup {<<Current(s), level>>}
      /\ UNCHANGED <<bank, metaSent, storage>>
  BY DEF UpdateSlotStatus, SendBlocksMeta
<1>2. Current(s) \in Hashes /\ Current(s)[1] = s
  BY DEF TruthInv, Types, ValidatorTypes, Current, Hashes
<1>3. ValidatorTypes'
  BY <1>1, <1>2 DEF TruthInv, Types, ValidatorTypes
<1>4. QueueTypes' /\ QueueTrue'
  <2>1. m \in Messages /\ IsSlot(m) /\ ~IsMeta(m) /\ m.slot = s /\ m.status = level
    BY SlotMessage
  <2>2. Reached(s, level)'
    <3>1. <<Current(s), level>> \in notified' /\ <<Current(s), level>>[1][1] = s
                                              /\ <<Current(s), level>>[2] = level
      BY <1>1, <1>2
    <3>2. PICK n : n = <<Current(s), level>>
      OBVIOUS
    <3> QED
      BY <3>1, <3>2 DEF Reached
  <2>3. TrueMessage(m)'
    BY <2>1, <2>2 DEF TrueMessage, IsMeta
  <2> HIDE DEF m
  <2> QED
    BY <1>1, <2>1, <2>3, PushKeepsQueue DEF TruthInv, Types
<1>5. TableTypes' /\ TablesTrue'
  BY <1>1, TablesStayTrue DEF TruthInv, Types
<1> QED
  BY <1>3, <1>4, <1>5 DEF TruthInv, Types

LEMMA NotifyBlockMetadataTruth ==
    ASSUME TruthInv, NEW s \in Slots, NotifyBlockMetadata(s)
    PROVE  TruthInv'
<1>0. PICK m : m = [kind |-> "meta", slot |-> s, blockhash |-> Current(s)]
  OBVIOUS
<1>1. /\ queue' = Append(queue, m) /\ metaSent' = metaSent \cup {Current(s)}
      /\ UNCHANGED <<bank, notified, storage, due>>
  BY <1>0 DEF NotifyBlockMetadata, SendBlocksMeta
<1>2. Current(s) \in Hashes /\ Current(s)[1] = s /\ Current(s)[2] = bank[s] /\ bank[s] \in Nat
  BY DEF TruthInv, Types, ValidatorTypes, Current, Hashes
<1>3. ValidatorTypes'
  BY <1>1, <1>2 DEF TruthInv, Types, ValidatorTypes
<1>4. QueueTypes' /\ QueueTrue'
  <2>1. m \in Messages /\ IsMeta(m) /\ ~IsSlot(m) /\ m.blockhash = Current(s)
    BY <1>0, <1>2, MetaMessage
  <2>2. TrueMessage(m)'
    BY <1>1, <2>1 DEF TrueMessage, IsSlot
  <2> QED
    BY <1>1, <2>1, <2>2, PushKeepsQueue DEF TruthInv, Types
<1>5. TableTypes' /\ TablesTrue'
  BY <1>1, TablesStayTrue DEF TruthInv, Types
<1> QED
  BY <1>3, <1>4, <1>5 DEF TruthInv, Types

\* What the table of blockhashes has to be
TableTrue(table) ==
    /\ DOMAIN table \subseteq Hashes
    /\ \A h \in DOMAIN table :
          /\ table[h] \in [slot : Slots, levels : SUBSET Levels]
          /\ table[h].slot = h[1]
          /\ h \in metaSent
          /\ \A l \in table[h].levels : Reached(h[1], l)

\* The table with the entry that the status m makes of the block at its slot
TableAfter(m) == IF blocks[m.slot] = NoBlock THEN blockhashes ELSE Entry(blockhashes, m, blocks[m.slot])

LEMMA EntryOfBlock ==
    ASSUME NEW table, NEW m, NEW h, IsSlot(m), h \in Hashes, h[1] = m.slot, DOMAIN table \subseteq Hashes,
           \A g \in DOMAIN table : table[g] \in [slot : Slots, levels : SUBSET Levels] /\ table[g].slot = g[1]
    PROVE  /\ DOMAIN Entry(table, m, h) = DOMAIN table \cup {h}
           /\ \A g \in DOMAIN table : g # h => Entry(table, m, h)[g] = table[g]
           /\ Entry(table, m, h)[h] \in [slot : Slots, levels : SUBSET Levels]
           /\ Entry(table, m, h)[h].slot = h[1]
           /\ h \notin DOMAIN table => Entry(table, m, h)[h].levels = {m.status} \cap Levels
           /\ h \in DOMAIN table =>
                  Entry(table, m, h)[h].levels = table[h].levels \cup ({m.status} \cap Levels)
<1>1. PICK old : old = IF h \in DOMAIN table THEN table[h] ELSE [slot |-> m.slot, levels |-> {}]
  OBVIOUS
<1>2. old \in [slot : Slots, levels : SUBSET Levels] /\ old.slot = h[1]
  BY <1>1 DEF IsSlot
<1>3. PICK new : new = [old EXCEPT !.levels = @ \cup ({m.status} \cap Levels)]
  OBVIOUS
<1>4. /\ new \in [slot : Slots, levels : SUBSET Levels] /\ new.slot = h[1]
      /\ new.levels = old.levels \cup ({m.status} \cap Levels)
  BY <1>2, <1>3
<1>5. Entry(table, m, h) = [g \in DOMAIN table \cup {h} |-> IF g = h THEN new ELSE table[g]]
  BY <1>1, <1>3 DEF Entry
<1> QED
  BY <1>1, <1>4, <1>5

\* A status adds its level to the entry of the block at its slot, and leaves the others.
LEMMA TableAfterStatus ==
    ASSUME TruthInv, NEW m, IsSlot(m), TrueMessage(m)
    PROVE  /\ TableTrue(TableAfter(m))
           /\ DOMAIN blockhashes \subseteq DOMAIN TableAfter(m)
           /\ \A g \in DOMAIN blockhashes : blockhashes[g].levels \subseteq TableAfter(m)[g].levels
           /\ \A g \in DOMAIN TableAfter(m) : g \in DOMAIN blockhashes \/ g[1] = m.slot
           /\ \A h \in Hashes : h[1] = m.slot /\ blocks[m.slot] = h /\ m.status \in Levels =>
                  h \in DOMAIN TableAfter(m) /\ m.status \in TableAfter(m)[h].levels
<1>1. TableTrue(blockhashes)
  BY DEF TruthInv, Types, TableTypes, TablesTrue, TableTrue
<1>2. m.slot \in Slots
  BY DEF IsSlot
<1>3. CASE blocks[m.slot] = NoBlock
  <2>1. TableAfter(m) = blockhashes
    BY <1>3 DEF TableAfter
  <2>2. NoBlock \notin Hashes
    BY DEF NoBlock, Hashes
  <2> QED
    BY <1>1, <1>3, <2>1, <2>2
<1>4. CASE blocks[m.slot] # NoBlock
  <2>1. PICK h : h = blocks[m.slot]
    OBVIOUS
  <2>2. h \in Hashes /\ h \in metaSent /\ h[1] = m.slot
    BY <1>2, <1>4, <2>1 DEF TruthInv, Types, TableTypes, TablesTrue
  <2>3. PICK e : e = Entry(blockhashes, m, h)
    OBVIOUS
  <2>4. TableAfter(m) = e
    BY <1>4, <2>1, <2>3 DEF TableAfter
  <2>5. /\ DOMAIN e = DOMAIN blockhashes \cup {h}
        /\ \A g \in DOMAIN blockhashes : g # h => e[g] = blockhashes[g]
        /\ e[h] \in [slot : Slots, levels : SUBSET Levels]
        /\ e[h].slot = h[1]
        /\ h \notin DOMAIN blockhashes => e[h].levels = {m.status} \cap Levels
        /\ h \in DOMAIN blockhashes => e[h].levels = blockhashes[h].levels \cup ({m.status} \cap Levels)
    <3>1. PICK table : table = blockhashes
      OBVIOUS
    <3>2. /\ DOMAIN table \subseteq Hashes
          /\ \A g \in DOMAIN table : table[g] \in [slot : Slots, levels : SUBSET Levels] /\ table[g].slot = g[1]
      BY <1>1, <3>1 DEF TableTrue
    <3>3. e = Entry(table, m, h)
      BY <2>3, <3>1
    <3>4. /\ DOMAIN Entry(table, m, h) = DOMAIN table \cup {h}
          /\ \A g \in DOMAIN table : g # h => Entry(table, m, h)[g] = table[g]
          /\ Entry(table, m, h)[h] \in [slot : Slots, levels : SUBSET Levels]
          /\ Entry(table, m, h)[h].slot = h[1]
          /\ h \notin DOMAIN table => Entry(table, m, h)[h].levels = {m.status} \cap Levels
          /\ h \in DOMAIN table =>
                  Entry(table, m, h)[h].levels = table[h].levels \cup ({m.status} \cap Levels)
      BY <2>2, <3>2, EntryOfBlock, Zenon
    <3> QED
      BY <3>1, <3>3, <3>4, Zenon
  <2>6. ASSUME NEW l \in e[h].levels
        PROVE  Reached(h[1], l)
    <3>1. CASE h \in DOMAIN blockhashes /\ l \in blockhashes[h].levels
      BY <1>1, <3>1 DEF TableTrue
    <3>2. CASE l \in {m.status} \cap Levels
      BY <2>2, <3>2 DEF TrueMessage
    <3> QED
      BY <2>5, <2>6, <3>1, <3>2
  <2>7. TableTrue(e)
    BY <1>1, <2>2, <2>5, <2>6 DEF TableTrue
  <2>8. \A g \in DOMAIN blockhashes : blockhashes[g].levels \subseteq e[g].levels
    BY <2>5
  <2>9. m.status \in Levels => m.status \in e[h].levels
    BY <2>5
  <2> QED
    BY <2>1, <2>2, <2>4, <2>5, <2>7, <2>8, <2>9
<1> QED
  BY <1>3, <1>4

\* What ApplySlot does, in terms of the table after the status
LEMMA ApplySlotSteps ==
    ASSUME NEW m, ApplySlot(m)
    PROVE  /\ latest' = Pointers(m)
           /\ m.status = "finalized" =>
                 /\ blocks' = [s \in Slots |-> IF KeptBlock(s, m.slot) THEN blocks[s] ELSE NoBlock]
                 /\ blockhashes' = [g \in {x \in DOMAIN TableAfter(m) : KeptBlockhash(TableAfter(m)[x].slot, m.slot)}
                                       |-> TableAfter(m)[g]]
           /\ m.status # "finalized" => blocks' = blocks /\ blockhashes' = TableAfter(m)
BY DEF ApplySlot, TableAfter

LEMMA ApplySlotTruth ==
    ASSUME TruthInv, NEW m, IsSlot(m), TrueMessage(m), ApplySlot(m), UNCHANGED validator
    PROVE  TableTypes' /\ TablesTrue'
<1>0. /\ metaSent' = metaSent /\ notified' = notified
      /\ \A s, l : Reached(s, l)' <=> Reached(s, l)
  BY DEF validator, Reached
<1>1. PICK table : table = TableAfter(m)
  OBVIOUS
<1>2. TableTrue(table)
  BY <1>1, TableAfterStatus
<1>3. DOMAIN blockhashes' \subseteq DOMAIN table /\ \A g \in DOMAIN blockhashes' : blockhashes'[g] = table[g]
  BY <1>1, ApplySlotSteps
<1>4. /\ blocks' \in [Slots -> Hashes \cup {NoBlock}]
      /\ \A s \in Slots : blocks'[s] # NoBlock => blocks'[s] = blocks[s]
  BY ApplySlotSteps DEF TruthInv, Types, TableTypes
<1>5. /\ latest' \in [Levels -> Slots \cup {NoSlot}]
      /\ \A l \in Levels : latest'[l] = latest[l] \/ (l = m.status /\ latest'[l] = m.slot)
  <2>1. latest' = Pointers(m) /\ latest \in [Levels -> Slots \cup {NoSlot}] /\ m.slot \in Slots
    BY ApplySlotSteps DEF IsSlot, TruthInv, Types, TableTypes
  <2> QED
    BY <2>1 DEF Pointers
<1>6. TableTypes'
  BY <1>2, <1>3, <1>4, <1>5 DEF TableTypes, TableTrue
<1>7. ASSUME NEW l \in Levels, latest'[l] # NoSlot
      PROVE  Reached(latest'[l], l)
  <2>1. CASE latest'[l] = latest[l]
    BY <1>7, <2>1 DEF TruthInv, TablesTrue
  <2>2. CASE l = m.status /\ latest'[l] = m.slot
    BY <2>2 DEF TrueMessage
  <2> QED
    BY <1>5, <2>1, <2>2
<1>8. \A h \in DOMAIN blockhashes' : h \in metaSent /\ \A l \in blockhashes'[h].levels : Reached(h[1], l)
  BY <1>2, <1>3 DEF TableTrue
<1>9. \A s \in Slots : blocks'[s] # NoBlock => blocks'[s] \in metaSent /\ blocks'[s][1] = s
  BY <1>4 DEF TruthInv, TablesTrue
<1>10. TablesTrue'
  <2>1. \A l \in Levels : latest'[l] # NoSlot => \E n \in notified' : n[1][1] = latest'[l] /\ n[2] = l
    BY <1>0, <1>7 DEF Reached
  <2>2. \A h \in DOMAIN blockhashes' : \A l \in blockhashes'[h].levels :
           \E n \in notified' : n[1][1] = h[1] /\ n[2] = l
    BY <1>0, <1>8 DEF Reached
  <2> QED
    BY <1>0, <1>8, <1>9, <2>1, <2>2 DEF TablesTrue, Reached
<1> QED
  BY <1>6, <1>10

LEMMA ApplyMetaTruth ==
    ASSUME TruthInv, NEW m, IsMeta(m), TrueMessage(m), ApplyMeta(m), UNCHANGED validator
    PROVE  TableTypes' /\ TablesTrue'
<1>0. /\ metaSent' = metaSent /\ notified' = notified /\ blockhashes' = blockhashes /\ latest' = latest
  BY DEF validator, ApplyMeta
<1>1. m.slot \in Slots /\ m.blockhash \in Hashes /\ m.blockhash \in metaSent /\ m.blockhash[1] = m.slot
  BY DEF IsMeta, Hashes, TrueMessage
<1>2. /\ blocks' \in [Slots -> Hashes \cup {NoBlock}]
      /\ \A s \in Slots : blocks'[s] = IF s = m.slot THEN m.blockhash ELSE blocks[s]
  BY <1>1 DEF ApplyMeta, TruthInv, Types, TableTypes
<1>3. TableTypes'
  BY <1>0, <1>2 DEF TruthInv, Types, TableTypes
<1>4. TablesTrue'
  BY <1>0, <1>1, <1>2 DEF TruthInv, TablesTrue, Reached
<1> QED
  BY <1>3, <1>4

\* One turn of the task: the message at the head and the two kinds it can be of
LEMMA ApplyHead ==
    ASSUME TruthInv, Apply
    PROVE  /\ queue # <<>> /\ queue' = Tail(queue) /\ task = "running" /\ task' = task
           /\ UNCHANGED validator /\ due' = due
           /\ TrueMessage(queue[1])
           /\ \/ IsSlot(queue[1]) /\ ApplySlot(queue[1])
              \/ IsMeta(queue[1]) /\ ApplyMeta(queue[1])
<1>1. queue # <<>> /\ queue' = Tail(queue) /\ task = "running" /\ task' = task /\ UNCHANGED validator /\ due' = due
  BY DEF Apply
<1>2. Head(queue) = queue[1] /\ 1 \in DOMAIN queue
  BY <1>1, Popped DEF TruthInv, Types
<1>3. TrueMessage(queue[1]) /\ (IsSlot(queue[1]) \/ IsMeta(queue[1]))
  BY <1>2 DEF TruthInv, QueueTrue, Types, QueueTypes
<1>4. (queue[1].kind = "slot" /\ ApplySlot(queue[1])) \/ (queue[1].kind # "slot" /\ ApplyMeta(queue[1]))
  BY <1>2 DEF Apply
<1> QED
  BY <1>1, <1>3, <1>4 DEF IsSlot, IsMeta

LEMMA ApplyTruth ==
    ASSUME TruthInv, Apply
    PROVE  TruthInv'
<1>1. PICK m : m = queue[1]
  OBVIOUS
<1>2. TableTypes' /\ TablesTrue'
  BY <1>1, ApplyHead, ApplySlotTruth, ApplyMetaTruth
<1>3. ValidatorTypes'
  BY ApplyHead DEF TruthInv, Types, ValidatorTypes, validator
<1>4. QueueTypes' /\ QueueTrue'
  <2>1. /\ queue' \in Seq(Messages)
        /\ \A i \in DOMAIN queue' : i + 1 \in DOMAIN queue /\ queue'[i] = queue[i + 1]
    BY ApplyHead, Popped DEF TruthInv, Types
  <2>2. QueueTypes'
    BY <2>1 DEF TruthInv, Types, QueueTypes
  <2>3. \A q : TrueMessage(q) => TrueMessage(q)'
    BY ApplyHead DEF TrueMessage, Reached, validator
  <2>4. ASSUME NEW i \in DOMAIN queue', NEW q, q = queue'[i]
        PROVE  TrueMessage(q)'
    BY <2>1, <2>3, <2>4 DEF TruthInv, QueueTrue
  <2> QED
    BY <2>2, <2>4 DEF QueueTrue
<1> QED
  BY <1>2, <1>3, <1>4 DEF TruthInv, Types

LEMMA CancelTruth ==
    ASSUME TruthInv, Cancel
    PROVE  TruthInv'
<1>1. queue' = <<>> /\ UNCHANGED <<validator, storage, due>>
  BY DEF Cancel
<1>2. QueueTypes' /\ QueueTrue'
  BY <1>1 DEF QueueTypes, QueueTrue
<1>3. TableTypes' /\ TablesTrue'
  BY <1>1, TablesStayTrue DEF TruthInv, Types, validator
<1>4. ValidatorTypes'
  BY <1>1 DEF TruthInv, Types, ValidatorTypes, validator
<1> QED
  BY <1>2, <1>3, <1>4 DEF TruthInv, Types

\* Everything but the calls themselves
work == <<validator, queue, task, storage, due>>

LEMMA TruthUnchanged ==
    ASSUME TruthInv, UNCHANGED work
    PROVE  TruthInv'
<1>1. ValidatorTypes' /\ QueueTypes' /\ TableTypes'
  BY DEF work, validator, storage, TruthInv, Types, ValidatorTypes, QueueTypes, TableTypes
<1>2. QueueTrue' /\ TablesTrue'
  BY DEF work, validator, storage, TruthInv, QueueTrue, TablesTrue, TrueMessage, Reached
<1> QED
  BY <1>1, <1>2 DEF TruthInv, Types

\* The calls read and change nothing.
LEMMA CallsChangeNothing ==
    ASSUME [Next]_vars
    PROVE  \/ \E s \in Slots : CreateBank(s) \/ NotifyBlockMetadata(s) \/ \E l \in Levels : UpdateSlotStatus(s, l)
           \/ Apply \/ Cancel
           \/ UNCHANGED work
BY DEF Next, vars, work, Ask, Acquire, Read, Reset, validator, storage

LEMMA TruthInductive ==
    ASSUME TruthInv, [Next]_vars
    PROVE  TruthInv'
BY CallsChangeNothing, CreateBankTruth, NotifyBlockMetadataTruth, UpdateSlotStatusTruth,
   ApplyTruth, CancelTruth, TruthUnchanged

\* What a true table answers is true.
LEMMA TruthAnswers ==
    ASSUME TruthInv
    PROVE  AnswersAreTrue
<1> SUFFICES ASSUME NEW r \in Asked
             PROVE  /\ AnswerTo(r).result = "block" =>
                          /\ \E n \in notified : n[1][1] = AnswerTo(r).slot /\ n[2] = (IF r.commitment = "default" THEN "processed" ELSE r.commitment)
                          /\ AnswerTo(r).blockhash \in metaSent /\ AnswerTo(r).blockhash[1] = AnswerTo(r).slot
                    /\ AnswerTo(r).result = "valid" =>
                          /\ \E n \in notified : n[1][1] = AnswerTo(r).slot /\ n[2] = (IF r.commitment = "default" THEN "processed" ELSE r.commitment)
                          /\ AnswerTo(r).valid =>
                                /\ r.blockhash \in metaSent
                                /\ \E n \in notified : n[1][1] = r.blockhash[1] /\ n[2] = (IF r.commitment = "default" THEN "processed" ELSE r.commitment)
  BY DEF AnswersAreTrue
<1>1. PICK level : level = LevelOf(r)
  OBVIOUS
<1>2. level = (IF r.commitment = "default" THEN "processed" ELSE r.commitment)
  BY <1>1 DEF LevelOf
<1>3. CASE AnsweredAtOnce(r) # NoAnswer
  BY <1>3 DEF AnswerTo, AnsweredAtOnce, NoAnswer
<1>4. CASE AnsweredAtOnce(r) = NoAnswer
  <2>1. level \in Levels
    BY <1>1, <1>4 DEF AnsweredAtOnce, NoAnswer, LevelOf, Levels
  <2>2. latest[level] = NoSlot \/ (latest[level] \in Slots /\ Reached(latest[level], level))
    BY <2>1 DEF TruthInv, Types, TableTypes, TablesTrue
  <2>3. CASE r.method = "is_blockhash_valid"
    <3>1. AnswerTo(r) = IsBlockhashValid(r)
      BY <1>4, <2>3 DEF AnswerTo
    <3>2. AnswerTo(r).result = "valid" =>
            /\ latest[level] # NoSlot /\ AnswerTo(r).slot = latest[level]
            /\ AnswerTo(r).valid = (r.blockhash \in DOMAIN blockhashes /\ level \in blockhashes[r.blockhash].levels)
      BY <1>1, <3>1 DEF IsBlockhashValid
    <3>3. AnswerTo(r).result # "block"
      BY <3>1 DEF IsBlockhashValid
    <3>4. r.blockhash \in DOMAIN blockhashes /\ level \in blockhashes[r.blockhash].levels =>
             r.blockhash \in metaSent /\ Reached(r.blockhash[1], level)
      BY DEF TruthInv, TablesTrue
    <3> QED
      BY <1>2, <2>2, <3>2, <3>3, <3>4 DEF Reached
  <2>4. CASE r.method # "is_blockhash_valid"
    <3>1. AnswerTo(r) = GetBlock(r)
      BY <1>4, <2>4 DEF AnswerTo
    <3>2. AnswerTo(r).result = "block" =>
            /\ latest[level] \in Slots /\ blocks[latest[level]] # NoBlock
            /\ AnswerTo(r).slot = latest[level] /\ AnswerTo(r).blockhash = blocks[latest[level]]
      BY <1>1, <2>2, <3>1 DEF GetBlock
    <3>3. AnswerTo(r).result # "valid"
      BY <3>1 DEF GetBlock
    <3>4. \A s \in Slots : blocks[s] # NoBlock => blocks[s] \in metaSent /\ blocks[s][1] = s
      BY DEF TruthInv, TablesTrue
    <3>5. NoSlot \notin Slots
      BY UnaryAssumption DEF UnaryAssumption
    <3> QED
      BY <1>2, <2>2, <3>2, <3>3, <3>4, <3>5 DEF Reached
  <2> QED
    BY <2>3, <2>4
<1> QED
  BY <1>3, <1>4

\* Every answer is true of the validator: what get_slot, get_block_height, get_latest_blockhash
\* and is_blockhash_valid read in the tables was notified, at the level asked for.
THEOREM AnswersAlwaysTrue == Spec => []AnswersAreTrue
<1>1. Init => TruthInv
  BY TruthInit
<1>2. TruthInv /\ [Next]_vars => TruthInv'
  BY TruthInductive
<1>3. TruthInv => AnswersAreTrue
  BY TruthAnswers
<1> QED
  BY <1>1, <1>2, <1>3, PTL DEF Spec

-----------------------------------------------------------------------------
(* The windows are kept: what a callback adds to the channel               *)

LEMMA FindsNextIs ==
    ASSUME NEW h
    PROVE  /\ \A j : j = Len(queue) + 1 => (FindsNext(h) <=> Finds(j, h))
           /\ \A j : j = Len(queue') + 1 => (FindsNext(h)' <=> Finds(j, h)')
BY DEF FindsNext, Finds

LEMMA PushFinds ==
    ASSUME QueueTypes, NEW m \in Messages, queue' = Append(queue, m), blocks' = blocks,
           NEW h, NEW j \in 1 .. Len(queue) + 1, Finds(j, h)
    PROVE  Finds(j, h)'
<1>1. Len(queue) \in Nat /\ \A k \in 1 .. j - 1 : queue'[k] = queue[k]
  BY Pushed
<1> QED
  BY <1>1 DEF Finds, MetaOf

LEMMA PushFindsNext ==
    ASSUME QueueTypes, NEW m \in Messages, queue' = Append(queue, m), blocks' = blocks,
           NEW h, ~MetaOf(m, h[1]), FindsNext(h)
    PROVE  FindsNext(h)'
<1>1. PICK j : j = Len(queue) + 1
  OBVIOUS
<1>2. /\ j \in Nat /\ j >= 1 /\ j + 1 = Len(queue') + 1 /\ queue'[j] = m
      /\ \A k \in 1 .. j - 1 : queue'[k] = queue[k]
  BY <1>1, Pushed
<1>3. Finds(j, h)
  BY <1>1, FindsNextIs
<1>4. \A jj : jj = j + 1 => Finds(jj, h)'
  <2>1. \A k \in 1 .. j : k = j \/ k \in 1 .. j - 1
    BY <1>2
  <2>2. CASE blocks[h[1]] = h /\ \A k \in 1 .. j - 1 : ~MetaOf(queue[k], h[1])
    BY <1>2, <2>1, <2>2 DEF Finds, MetaOf
  <2>3. CASE \E i \in 1 .. j - 1 :
                /\ queue[i].kind = "meta" /\ queue[i].slot = h[1] /\ queue[i].blockhash = h
                /\ \A k \in i + 1 .. j - 1 : ~MetaOf(queue[k], h[1])
    <3>1. PICK i \in 1 .. j - 1 :
                /\ queue[i].kind = "meta" /\ queue[i].slot = h[1] /\ queue[i].blockhash = h
                /\ \A k \in i + 1 .. j - 1 : ~MetaOf(queue[k], h[1])
      BY <2>3
    <3>2. i \in 1 .. j /\ queue'[i] = queue[i]
      BY <1>2, <3>1
    <3>3. \A k \in i + 1 .. j : ~MetaOf(queue'[k], h[1])
      BY <1>2, <2>1, <3>1 DEF MetaOf
    <3>4. ASSUME NEW jj, jj = j + 1
          PROVE  \E x \in 1 .. jj - 1 :
                    /\ queue'[x].kind = "meta" /\ queue'[x].slot = h[1] /\ queue'[x].blockhash = h
                    /\ \A k \in x + 1 .. jj - 1 : ~MetaOf(queue'[k], h[1])
      <4>1. jj - 1 = j
        BY <1>2, <3>4
      <4> QED
        BY <3>1, <3>2, <3>3, <4>1
    <3> QED
      BY <3>4 DEF Finds, MetaOf
  <2> QED
    BY <1>3, <2>2, <2>3 DEF Finds
<1> QED
  BY <1>2, <1>4, FindsNextIs

\* The block meta that was sent last is the one a next status finds.
LEMMA PushMetaFindsNext ==
    ASSUME QueueTypes, NEW m \in Messages, queue' = Append(queue, m),
           NEW h, m.kind = "meta", m.slot = h[1], m.blockhash = h
    PROVE  FindsNext(h)'
<1>1. PICK j : j = Len(queue) + 1
  OBVIOUS
<1>2. j \in Nat /\ j >= 1 /\ j + 1 = Len(queue') + 1 /\ queue'[j] = m
  BY <1>1, Pushed
<1>3. \A jj : jj = j + 1 => Finds(jj, h)'
  BY <1>2 DEF Finds
<1> QED
  BY <1>2, <1>3, FindsNextIs

LEMMA PushOnItsWay ==
    ASSUME QueueTypes, NEW m \in Messages, queue' = Append(queue, m), blocks' = blocks,
           NEW d, OnItsWay(d)
    PROVE  OnItsWay(d)'
<1>1. PICK j \in DOMAIN queue : /\ queue[j].kind = "slot" /\ queue[j].slot = d[1][1] /\ queue[j].status = d[2]
                                /\ Finds(j, d[1])
  BY DEF OnItsWay
<1>2. j \in DOMAIN queue' /\ queue'[j] = queue[j] /\ j \in 1 .. Len(queue) + 1
  BY Pushed
<1>3. Finds(j, d[1])'
  BY <1>1, <1>2, PushFinds
<1> QED
  BY <1>1, <1>2, <1>3 DEF OnItsWay

LEMMA SlotsAreNumbers ==
    ASSUME QueueTypes, NEW i \in DOMAIN queue
    PROVE  queue[i].slot \in Slots /\ queue[i].slot \in Nat
BY UnaryAssumption DEF UnaryAssumption, QueueTypes, IsSlot, IsMeta, Hashes

LEMMA PushRooted ==
    ASSUME TruthInv, RootedInOrder, NEW m \in Messages, queue' = Append(queue, m), UNCHANGED storage,
           \A n \in notified : n[2] = "finalized" => n[1][1] <= m.slot
    PROVE  RootedInOrder'
<1>0. QueueTypes /\ latest' = latest
  BY DEF TruthInv, Types, storage
<1>1. ASSUME NEW i \in DOMAIN queue, Finalizes(queue[i])
      PROVE  queue[i].slot <= m.slot
  <2>1. IsSlot(queue[i]) /\ queue[i].status \in Levels /\ TrueMessage(queue[i])
    BY <1>0, <1>1 DEF QueueTypes, Finalizes, IsMeta, Levels, TruthInv, QueueTrue
  <2>2. Reached(queue[i].slot, "finalized")
    BY <1>1, <2>1 DEF TrueMessage, Finalizes
  <2> QED
    BY <2>2 DEF Reached
<1>2. ASSUME Root # NoSlot
      PROVE  Root <= m.slot
  <2>1. Reached(Root, "finalized")
    BY <1>2 DEF TruthInv, TablesTrue, Root, Levels
  <2> QED
    BY <2>1 DEF Reached
<1>3. /\ Len(queue) \in Nat /\ DOMAIN queue' = 1 .. Len(queue) + 1 /\ DOMAIN queue = 1 .. Len(queue)
      /\ queue'[Len(queue) + 1] = m
      /\ \A i \in DOMAIN queue : queue'[i] = queue[i]
  BY <1>0, Pushed
<1>4. ASSUME NEW i \in DOMAIN queue', NEW j \in DOMAIN queue', i < j, Finalizes(queue'[i])
      PROVE  queue'[i].slot <= queue'[j].slot
  <2>1. i \in DOMAIN queue /\ queue'[i] = queue[i]
    BY <1>3, <1>4
  <2>2. CASE j \in DOMAIN queue
    BY <1>3, <1>4, <2>1, <2>2 DEF RootedInOrder
  <2>3. CASE j \notin DOMAIN queue
    <3>1. j = Len(queue) + 1
      BY <1>3, <2>3
    <3> QED
      BY <1>1, <1>3, <1>4, <2>1, <3>1
  <2> QED
    BY <2>2, <2>3
<1>5. ASSUME Root # NoSlot, NEW j \in DOMAIN queue'
      PROVE  Root <= queue'[j].slot
  <2>1. CASE j \in DOMAIN queue
    BY <1>3, <1>5, <2>1 DEF RootedInOrder
  <2>2. CASE j \notin DOMAIN queue
    <3>1. j = Len(queue) + 1
      BY <1>3, <2>2
    <3> QED
      BY <1>2, <1>3, <1>5, <3>1
  <2> QED
    BY <2>1, <2>2
<1> QED
  BY <1>0, <1>4, <1>5 DEF RootedInOrder, Finalizes, Root

LEMMA TablesStayBounded ==
    ASSUME TablesBounded, UNCHANGED storage
    PROVE  TablesBounded'
BY DEF TablesBounded, storage, Root

\* What is due stays so when a callback only adds to the channel.
LEMMA PushDue ==
    ASSUME TruthInv, DueInv, NEW m \in Messages, queue' = Append(queue, m), UNCHANGED storage,
           NEW d \in due
    PROVE  (OutOfWindow(d) \/ Recorded(d) \/ OnItsWay(d))'
<1>1. CASE OutOfWindow(d)
  BY <1>1 DEF OutOfWindow, Root, storage
<1>2. CASE Recorded(d)
  BY <1>2 DEF Recorded, storage
<1>3. CASE OnItsWay(d)
  BY <1>3, PushOnItsWay DEF storage, TruthInv, Types
<1> QED
  BY <1>1, <1>2, <1>3 DEF DueInv

LEMMA CreateBankInOrder ==
    ASSUME TruthInv, InOrder, NEW s \in Slots, CreateBank(s)
    PROVE  InOrder'
<1>1. PICK m : m = [kind |-> "slot", slot |-> s, status |-> "created_bank"]
  OBVIOUS
<1>2. /\ queue' = Append(queue, m) /\ bank' = [bank EXCEPT ![s] = @ + 1] /\ AboveRoot(s)
      /\ UNCHANGED <<metaSent, notified, storage, due>>
  BY <1>1 DEF CreateBank, SendBlocksMeta
<1>3. m \in Messages /\ m.slot = s /\ m.kind = "slot"
  BY <1>1, SlotMessage
<1>4. s \in Nat /\ \A n \in notified : n[2] = "finalized" => n[1][1] <= m.slot
  <2>1. \A n \in notified : n[1][1] \in Nat
    BY UnaryAssumption DEF UnaryAssumption, TruthInv, Types, ValidatorTypes, Hashes
  <2> QED
    BY <1>2, <1>3, <2>1, UnaryAssumption DEF UnaryAssumption, AboveRoot
<1>5. RootedInOrder' /\ TablesBounded'
  BY <1>2, <1>3, <1>4, PushRooted, TablesStayBounded DEF InOrder
<1>6. ASSUME NEW h \in metaSent', h[2] = bank'[h[1]], AboveRoot(h[1])'
      PROVE  FindsNext(h)'
  <2>1. h \in metaSent /\ h \in Hashes /\ h[2] <= bank[h[1]] /\ bank[h[1]] \in Nat /\ h[1] \in Slots
    BY <1>2, <1>6 DEF TruthInv, Types, ValidatorTypes, Hashes
  <2>2. h[1] # s /\ bank'[h[1]] = bank[h[1]]
    BY <1>2, <1>6, <2>1 DEF TruthInv, Types, ValidatorTypes
  <2>3. AboveRoot(h[1])
    BY <1>2, <1>6 DEF AboveRoot
  <2>4. FindsNext(h)
    BY <1>6, <2>1, <2>2, <2>3 DEF InOrder, NextFinds
  <2>5. ~MetaOf(m, h[1])
    BY <1>3 DEF MetaOf
  <2>6. QueueTypes /\ blocks' = blocks
    BY <1>2 DEF storage, TruthInv, Types
  <2> QED
    BY <1>2, <1>3, <2>4, <2>5, <2>6, PushFindsNext
<1>7. DueInv'
  BY <1>2, <1>3, PushDue DEF InOrder, DueInv
<1> QED
  BY <1>5, <1>6, <1>7 DEF InOrder, NextFinds

LEMMA UpdateSlotStatusInOrder ==
    ASSUME TruthInv, InOrder, NEW s \in Slots, NEW level \in Levels, UpdateSlotStatus(s, level)
    PROVE  InOrder'
<1>1. PICK m : m = [kind |-> "slot", slot |-> s, status |-> level]
  OBVIOUS
<1>2. /\ queue' = Append(queue, m) /\ notified \subseteq notified' /\ AboveRoot(s)
      /\ due' = IF Current(s) \in metaSent THEN due \cup {<<Current(s), level>>} ELSE due
      /\ UNCHANGED <<bank, metaSent, storage>>
  BY <1>1 DEF UpdateSlotStatus, SendBlocksMeta
<1>3. m \in Messages /\ m.slot = s /\ m.kind = "slot" /\ m.status = level
  BY <1>1, SlotMessage
<1>4. s \in Nat /\ \A n \in notified : n[2] = "finalized" => n[1][1] <= m.slot
  <2>1. \A n \in notified : n[1][1] \in Nat
    BY UnaryAssumption DEF UnaryAssumption, TruthInv, Types, ValidatorTypes, Hashes
  <2> QED
    BY <1>2, <1>3, <2>1, UnaryAssumption DEF UnaryAssumption, AboveRoot
<1>5. RootedInOrder' /\ TablesBounded'
  BY <1>2, <1>3, <1>4, PushRooted, TablesStayBounded DEF InOrder
<1>6. QueueTypes /\ blocks' = blocks
  BY <1>2 DEF storage, TruthInv, Types
<1>7. ASSUME NEW h \in metaSent', h[2] = bank'[h[1]], AboveRoot(h[1])'
      PROVE  FindsNext(h)'
  <2>1. AboveRoot(h[1])
    BY <1>2, <1>7 DEF AboveRoot
  <2>2. FindsNext(h)
    BY <1>2, <1>7, <2>1 DEF InOrder, NextFinds
  <2>3. ~MetaOf(m, h[1])
    BY <1>3 DEF MetaOf
  <2> QED
    BY <1>2, <1>3, <1>6, <2>2, <2>3, PushFindsNext
<1>8. ASSUME NEW d \in due'
      PROVE  (OutOfWindow(d) \/ Recorded(d) \/ OnItsWay(d))'
  <2>1. CASE d \in due
    BY <1>2, <1>3, <2>1, PushDue DEF InOrder
  <2>2. CASE d \notin due
    <3>1. d = <<Current(s), level>> /\ Current(s) \in metaSent
      BY <1>2, <1>8, <2>2
    <3>2. d[1] \in metaSent /\ d[2] = level /\ d[1][1] = s /\ d[1][2] = bank[s]
      BY <3>1 DEF Current
    <3>3. FindsNext(d[1])
      BY <1>2, <3>2 DEF InOrder, NextFinds
    <3>4. PICK j : j = Len(queue) + 1
      OBVIOUS
    <3>5. j \in 1 .. Len(queue) + 1 /\ j \in DOMAIN queue' /\ queue'[j] = m
      BY <1>2, <1>3, <1>6, <3>4, Pushed
    <3>6. Finds(j, d[1])
      BY <3>3, <3>4, FindsNextIs
    <3>7. Finds(j, d[1])'
      BY <1>2, <1>3, <1>6, <3>5, <3>6, PushFinds
    <3>8. OnItsWay(d)'
      BY <1>3, <3>2, <3>5, <3>7 DEF OnItsWay
    <3> QED
      BY <3>8
  <2> QED
    BY <2>1, <2>2
<1> QED
  BY <1>5, <1>7, <1>8 DEF InOrder, NextFinds, DueInv

LEMMA NotifyBlockMetadataInOrder ==
    ASSUME TruthInv, InOrder, NEW s \in Slots, NotifyBlockMetadata(s)
    PROVE  InOrder'
<1>1. PICK m : m = [kind |-> "meta", slot |-> s, blockhash |-> Current(s)]
  OBVIOUS
<1>2. /\ queue' = Append(queue, m) /\ metaSent' = metaSent \cup {Current(s)}
      /\ \A n \in notified : n[2] = "finalized" => n[1][1] <= s
      /\ UNCHANGED <<bank, notified, storage, due>>
  BY <1>1 DEF NotifyBlockMetadata, SendBlocksMeta
<1>3. PICK c : c = Current(s)
  OBVIOUS
<1>4. c \in Hashes /\ c[1] = s /\ c[2] = bank[s] /\ bank[s] \in Nat
  BY <1>3 DEF TruthInv, Types, ValidatorTypes, Current, Hashes
<1>5. m \in Messages /\ m.slot = s /\ m.kind = "meta" /\ m.blockhash = c
  BY <1>1, <1>3, <1>4, MetaMessage DEF IsMeta
<1>6. RootedInOrder' /\ TablesBounded'
  BY <1>2, <1>5, PushRooted, TablesStayBounded DEF InOrder
<1>7. QueueTypes /\ blocks' = blocks
  BY <1>2 DEF storage, TruthInv, Types
<1>8. ASSUME NEW h \in metaSent', h[2] = bank'[h[1]], AboveRoot(h[1])'
      PROVE  FindsNext(h)'
  <2>1. CASE h = c
    BY <1>2, <1>4, <1>5, <1>7, <2>1, PushMetaFindsNext
  <2>2. CASE h # c
    <3>1. h \in metaSent /\ h \in Hashes /\ bank' = bank /\ notified' = notified
      BY <1>2, <1>3, <1>8, <2>2 DEF TruthInv, Types, ValidatorTypes
    <3>2. AboveRoot(h[1])
      BY <1>8, <3>1 DEF AboveRoot
    <3>3. FindsNext(h)
      BY <1>8, <3>1, <3>2 DEF InOrder, NextFinds
    <3>4. h[1] # s
      BY <1>4, <1>8, <2>2, <3>1 DEF Hashes
    <3>5. ~MetaOf(m, h[1])
      BY <1>5, <3>4 DEF MetaOf
    <3> QED
      BY <1>2, <1>5, <1>7, <3>3, <3>5, PushFindsNext
  <2> QED
    BY <2>1, <2>2
<1>9. DueInv'
  BY <1>2, <1>5, PushDue DEF InOrder, DueInv
<1> QED
  BY <1>6, <1>8, <1>9 DEF InOrder, NextFinds

-----------------------------------------------------------------------------
(* The windows are kept: what the task does                                *)

\* The root goes up, and to the slot that is finalized.
LEMMA ApplyRoot ==
    ASSUME TruthInv, RootedInOrder, Apply
    PROVE  /\ Finalizes(queue[1]) => Root' = queue[1].slot
           /\ ~Finalizes(queue[1]) => Root' = Root
           /\ Root # NoSlot => Root' # NoSlot /\ Root' >= Root /\ Root \in Nat /\ Root' \in Nat
           /\ Root' # NoSlot => Root' \in Nat
<1>1. 1 \in DOMAIN queue /\ QueueTypes
  BY ApplyHead, Popped DEF TruthInv, Types
<1>2. queue[1].slot \in Slots /\ queue[1].slot \in Nat
  BY <1>1, SlotsAreNumbers
<1>3. Root # NoSlot => Root <= queue[1].slot
  BY <1>1 DEF RootedInOrder
<1>4. latest \in [Levels -> Slots \cup {NoSlot}] /\ Root \in Slots \cup {NoSlot}
  BY DEF TruthInv, Types, TableTypes, Root, Levels
<1>5. NoSlot \notin Nat /\ Slots \subseteq Nat
  BY UnaryAssumption DEF UnaryAssumption
<1>6. CASE Finalizes(queue[1])
  <2>1. latest' = [latest EXCEPT !["finalized"] = queue[1].slot]
    BY <1>6, ApplyHead, ApplySlotSteps DEF Finalizes, Pointers, IsMeta, Levels
  <2>2. Root' = queue[1].slot
    BY <1>4, <2>1 DEF Root, Levels
  <2> QED
    BY <1>2, <1>3, <1>4, <1>5, <1>6, <2>2
<1>7. CASE ~Finalizes(queue[1])
  <2>1. latest'["finalized"] = latest["finalized"]
    <3>1. CASE IsSlot(queue[1]) /\ ApplySlot(queue[1])
      <4>1. latest' = Pointers(queue[1]) /\ queue[1].status # "finalized"
        BY <1>7, <3>1, ApplySlotSteps DEF Finalizes, IsSlot
      <4> QED
        BY <1>4, <4>1 DEF Pointers
    <3>2. CASE ApplyMeta(queue[1])
      BY <3>2 DEF ApplyMeta
    <3> QED
      BY <3>1, <3>2, ApplyHead
  <2>2. Root' = Root
    BY <2>1 DEF Root
  <2> QED
    BY <1>4, <1>5, <1>7, <2>2
<1> QED
  BY <1>6, <1>7

LEMMA ApplyRooted ==
    ASSUME TruthInv, RootedInOrder, Apply
    PROVE  RootedInOrder'
<1>1. /\ Len(queue) \in Nat /\ 1 \in DOMAIN queue
      /\ DOMAIN queue' \subseteq Nat
      /\ \A i \in DOMAIN queue' : i + 1 \in DOMAIN queue /\ 1 < i + 1 /\ queue'[i] = queue[i + 1]
  BY ApplyHead, Popped DEF TruthInv, Types
<1>2. ASSUME NEW i \in DOMAIN queue', NEW j \in DOMAIN queue', i < j, Finalizes(queue'[i])
      PROVE  queue'[i].slot <= queue'[j].slot
  <2>1. i + 1 < j + 1
    BY <1>1, <1>2
  <2> QED
    BY <1>1, <1>2, <2>1 DEF RootedInOrder
<1>3. ASSUME Root' # NoSlot, NEW j \in DOMAIN queue'
      PROVE  Root' <= queue'[j].slot
  <2>1. CASE Finalizes(queue[1])
    BY <1>1, <1>3, <2>1, ApplyRoot DEF RootedInOrder
  <2>2. CASE ~Finalizes(queue[1])
    BY <1>1, <1>3, <2>2, ApplyRoot DEF RootedInOrder
  <2> QED
    BY <2>1, <2>2
<1> QED
  BY <1>2, <1>3 DEF RootedInOrder, Finalizes

LEMMA ApplyBounded ==
    ASSUME TruthInv, RootedInOrder, TablesBounded, Apply
    PROVE  TablesBounded'
<1>0. /\ NoSlot \notin Nat /\ Slots \subseteq Nat /\ KeepSlots \in Nat /\ MaxRecent \in Nat
      /\ \A h \in Hashes : h[1] \in Nat
  BY UnaryAssumption DEF UnaryAssumption, Hashes
<1>1. PICK m : m = queue[1]
  OBVIOUS
<1>2. 1 \in DOMAIN queue /\ m.slot \in Nat /\ m.slot \in Slots
  BY <1>1, ApplyHead, Popped, SlotsAreNumbers DEF TruthInv, Types
<1>3. Root # NoSlot => Root <= m.slot
  BY <1>1, <1>2 DEF RootedInOrder
<1>4. SUFFICES ASSUME Root' # NoSlot
               PROVE  /\ \A s \in Slots : blocks'[s] # NoBlock => s + KeepSlots >= Root'
                      /\ \A h \in DOMAIN blockhashes' : h[1] + MaxRecent >= Root'
  BY DEF TablesBounded
<1>5. CASE IsSlot(m) /\ ApplySlot(m)
  <2>1. PICK table : table = TableAfter(m)
    OBVIOUS
  <2>2. TableTrue(table) /\ \A g \in DOMAIN table : g \in DOMAIN blockhashes \/ g[1] = m.slot
    BY <1>1, <1>5, <2>1, ApplyHead, TableAfterStatus
  <2>3. CASE m.status = "finalized"
    <3>1. Root' = m.slot
      BY <1>1, <1>5, <2>3, ApplyRoot DEF Finalizes, IsSlot
    <3>2. ASSUME NEW s \in Slots, blocks'[s] # NoBlock
          PROVE  s + KeepSlots >= m.slot
      <4>1. KeptBlock(s, m.slot)
        BY <1>5, <2>3, <3>2, ApplySlotSteps
      <4> QED
        BY <1>0, <1>2, <4>1 DEF KeptBlock
    <3>3. ASSUME NEW h \in DOMAIN blockhashes'
          PROVE  h[1] + MaxRecent >= m.slot
      <4>1. h \in DOMAIN table /\ KeptBlockhash(table[h].slot, m.slot)
        BY <1>5, <2>1, <2>3, <3>3, ApplySlotSteps
      <4>2. h[1] \in Nat /\ table[h].slot = h[1]
        BY <1>0, <2>2, <4>1 DEF TableTrue
      <4> QED
        BY <1>0, <1>2, <4>1, <4>2 DEF KeptBlockhash
    <3> QED
      BY <3>1, <3>2, <3>3
  <2>4. CASE m.status # "finalized"
    <3>1. Root' = Root /\ blocks' = blocks /\ blockhashes' = table
      BY <1>1, <1>5, <2>1, <2>4, ApplyRoot, ApplySlotSteps DEF Finalizes
    <3>2. Root \in Nat /\ Root <= m.slot
      BY <1>3, <1>4, <3>1, ApplyRoot
    <3>3. ASSUME NEW h \in DOMAIN table
          PROVE  h[1] + MaxRecent >= Root
      <4>1. CASE h \in DOMAIN blockhashes
        BY <1>4, <3>1, <4>1 DEF TablesBounded
      <4>2. CASE h[1] = m.slot
        BY <1>0, <1>2, <3>2, <4>2
      <4> QED
        BY <2>2, <3>3, <4>1, <4>2
    <3> QED
      BY <1>4, <3>1, <3>3 DEF TablesBounded
  <2> QED
    BY <2>3, <2>4
<1>6. CASE IsMeta(m) /\ ApplyMeta(m)
  <2>1. Root' = Root /\ blockhashes' = blockhashes
    BY <1>1, <1>6, ApplyRoot DEF Finalizes, IsMeta, ApplyMeta
  <2>2. Root \in Nat /\ Root <= m.slot
    BY <1>3, <1>4, <2>1, ApplyRoot
  <2>3. ASSUME NEW s \in Slots, blocks'[s] # NoBlock
        PROVE  s + KeepSlots >= Root
    <3>1. CASE s = m.slot
      BY <1>0, <2>2, <3>1
    <3>2. CASE s # m.slot
      <4>1. blocks'[s] = blocks[s]
        BY <1>6, <2>3, <3>2 DEF ApplyMeta, TruthInv, Types, TableTypes
      <4> QED
        BY <1>4, <2>1, <2>3, <4>1 DEF TablesBounded
    <3> QED
      BY <3>1, <3>2
  <2> QED
    BY <1>4, <2>1, <2>3 DEF TablesBounded
<1> QED
  BY <1>1, <1>5, <1>6, ApplyHead

\* A position of the channel comes one nearer, and finds the same block.
LEMMA ApplyFinds ==
    ASSUME TruthInv, Apply, NEW h, h[1] \in Slots, h # NoBlock, NEW j \in Nat, j >= 1, j <= Len(queue), Finds(j + 1, h),
           Finalizes(queue[1]) => KeptBlock(h[1], queue[1].slot)
    PROVE  Finds(j, h)'
<1>1. PICK m : m = queue[1]
  OBVIOUS
<1>2. \A k \in 1 .. j - 1 : queue'[k] = queue[k + 1]
  BY ApplyHead, Popped DEF TruthInv, Types
<1>3. ~MetaOf(m, h[1]) => blocks'[h[1]] = blocks[h[1]]
  <2> SUFFICES ASSUME ~MetaOf(m, h[1]) PROVE blocks'[h[1]] = blocks[h[1]]
    OBVIOUS
  <2>1. CASE IsSlot(m) /\ ApplySlot(m)
    <3>1. CASE m.status = "finalized"
      <4>1. KeptBlock(h[1], m.slot)
        BY <1>1, <2>1, <3>1 DEF Finalizes, IsSlot
      <4> QED
        BY <2>1, <3>1, <4>1, ApplySlotSteps
    <3>2. CASE m.status # "finalized"
      BY <2>1, <3>2, ApplySlotSteps
    <3> QED
      BY <3>1, <3>2
  <2>2. CASE IsMeta(m) /\ ApplyMeta(m)
    <3>1. h[1] # m.slot
      BY <2>2 DEF MetaOf, IsMeta
    <3> QED
      BY <2>2, <3>1 DEF ApplyMeta, TruthInv, Types, TableTypes
  <2> QED
    BY <1>1, <2>1, <2>2, ApplyHead
<1>4. CASE blocks[h[1]] = h /\ \A k \in 1 .. j : ~MetaOf(queue[k], h[1])
  <2>1. blocks'[h[1]] = h
    BY <1>1, <1>3, <1>4
  <2>2. \A k \in 1 .. j - 1 : ~MetaOf(queue'[k], h[1])
    <3>1. \A k \in 1 .. j - 1 : k + 1 \in 1 .. j
      OBVIOUS
    <3> QED
      BY <1>2, <1>4, <3>1
  <2> QED
    BY <2>1, <2>2 DEF Finds, MetaOf
<1>5. ASSUME NEW i \in 1 .. j, queue[i].kind = "meta", queue[i].slot = h[1], queue[i].blockhash = h,
             \A k \in i + 1 .. j : ~MetaOf(queue[k], h[1])
      PROVE  Finds(j, h)'
  <2>1. CASE i = 1
    <3>1. ApplyMeta(m) /\ m.slot = h[1] /\ m.blockhash = h
      BY <1>1, <1>5, <2>1, ApplyHead DEF IsSlot
    <3>2. blocks'[h[1]] = h
      BY <3>1 DEF ApplyMeta, TruthInv, Types, TableTypes
    <3>3. \A k \in 1 .. j - 1 : ~MetaOf(queue'[k], h[1])
      <4>1. \A k \in 1 .. j - 1 : k + 1 \in i + 1 .. j
        BY <2>1
      <4> QED
        BY <1>2, <1>5, <4>1
    <3> QED
      BY <3>2, <3>3 DEF Finds, MetaOf
  <2>2. CASE i # 1
    <3>1. PICK x : x = i - 1
      OBVIOUS
    <3>2. x \in 1 .. j - 1 /\ queue'[x] = queue[i]
      BY <1>2, <2>2, <3>1
    <3>3. \A k \in x + 1 .. j - 1 : ~MetaOf(queue'[k], h[1])
      <4>1. \A k \in x + 1 .. j - 1 : k + 1 \in i + 1 .. j /\ k \in 1 .. j - 1
        BY <3>1, <3>2
      <4> QED
        BY <1>2, <1>5, <4>1
    <3>4. \E y \in 1 .. j - 1 :
             /\ queue'[y].kind = "meta" /\ queue'[y].slot = h[1] /\ queue'[y].blockhash = h
             /\ \A k \in y + 1 .. j - 1 : ~MetaOf(queue'[k], h[1])
      BY <1>5, <3>2, <3>3
    <3> QED
      BY <3>4 DEF Finds, MetaOf
  <2> QED
    BY <2>1, <2>2
<1>6. j + 1 - 1 = j
  OBVIOUS
<1> QED
  BY <1>4, <1>5, <1>6 DEF Finds

LEMMA ApplyNextFinds ==
    ASSUME TruthInv, NextFinds, Apply
    PROVE  NextFinds'
<1>0. QueueTypes /\ UNCHANGED validator /\ queue # <<>> /\ queue' = Tail(queue)
  BY ApplyHead DEF TruthInv, Types
<1>1. Len(queue) \in Nat /\ Len(queue) >= 1 /\ Len(queue') + 1 = Len(queue) /\ 1 \in DOMAIN queue
  BY <1>0, Popped
<1>2. ASSUME NEW h \in metaSent, h[2] = bank[h[1]], AboveRoot(h[1])
      PROVE  FindsNext(h)'
  <2>1. h \in Hashes /\ h[1] \in Slots /\ h[1] \in Nat /\ h # NoBlock
    BY UnaryAssumption DEF UnaryAssumption, TruthInv, Types, ValidatorTypes, Hashes, NoBlock
  <2>2. FindsNext(h)
    BY <1>2 DEF NextFinds
  <2>3. ASSUME Finalizes(queue[1])
        PROVE  KeptBlock(h[1], queue[1].slot)
    <3>1. Reached(queue[1].slot, "finalized")
      BY <2>3, ApplyHead DEF TrueMessage, Finalizes, IsMeta, Levels
    <3>2. queue[1].slot < h[1] /\ queue[1].slot \in Nat
      BY <1>0, <1>1, <1>2, <3>1, SlotsAreNumbers DEF Reached, AboveRoot
    <3> QED
      BY <2>1, <3>2, UnaryAssumption DEF UnaryAssumption, KeptBlock
  <2>4. PICK j : j = Len(queue)
    OBVIOUS
  <2>5. Finds(j + 1, h)
    BY <2>2, <2>4, FindsNextIs
  <2>6. Finds(j, h)'
    BY <1>1, <2>1, <2>3, <2>4, <2>5, ApplyFinds
  <2> QED
    BY <1>1, <2>4, <2>6, FindsNextIs
<1>3. metaSent' = metaSent /\ bank' = bank /\ \A s : AboveRoot(s)' <=> AboveRoot(s)
  BY <1>0 DEF validator, AboveRoot
<1>4. ASSUME NEW h \in metaSent', h[2] = bank'[h[1]], AboveRoot(h[1])'
      PROVE  FindsNext(h)'
  BY <1>2, <1>3, <1>4
<1> QED
  BY <1>4 DEF NextFinds

\* What is in the table after the status stays, or falls out of the window.
LEMMA RecordedStays ==
    ASSUME TruthInv, RootedInOrder, Apply, NEW m, m = queue[1], IsSlot(m), ApplySlot(m),
           NEW d \in due, d[1] \in DOMAIN TableAfter(m), d[2] \in TableAfter(m)[d[1]].levels
    PROVE  Recorded(d)' \/ OutOfWindow(d)'
<1>1. PICK table : table = TableAfter(m)
  OBVIOUS
<1>2. TableTrue(table)
  BY <1>1, ApplyHead, TableAfterStatus
<1>3. CASE m.status # "finalized"
  <2>1. blockhashes' = table
    BY <1>1, <1>3, ApplySlotSteps
  <2> QED
    BY <1>1, <2>1 DEF Recorded
<1>4. CASE m.status = "finalized"
  <2>1. /\ DOMAIN blockhashes' = {x \in DOMAIN table : KeptBlockhash(table[x].slot, m.slot)}
        /\ \A x \in DOMAIN blockhashes' : blockhashes'[x] = table[x]
    BY <1>1, <1>4, ApplySlotSteps
  <2>2. table[d[1]].slot = d[1][1] /\ d[1][1] \in Nat /\ MaxRecent \in Nat
    BY <1>1, <1>2, UnaryAssumption DEF UnaryAssumption, TableTrue, Hashes
  <2>3. CASE KeptBlockhash(d[1][1], m.slot)
    BY <1>1, <2>1, <2>2, <2>3 DEF Recorded
  <2>4. CASE ~KeptBlockhash(d[1][1], m.slot)
    <3>1. Root' = m.slot /\ m.slot \in Nat /\ NoSlot \notin Nat
      BY <1>4, ApplyRoot, UnaryAssumption DEF Finalizes, IsSlot, UnaryAssumption
    <3>2. m.slot > d[1][1] + MaxRecent
      BY <2>2, <2>4, <3>1 DEF KeptBlockhash
    <3> QED
      BY <3>1, <3>2 DEF OutOfWindow
  <2> QED
    BY <2>3, <2>4
<1> QED
  BY <1>3, <1>4

LEMMA ApplyDue ==
    ASSUME TruthInv, RootedInOrder, DueInv, Apply
    PROVE  DueInv'
<1>0. QueueTypes /\ queue # <<>> /\ queue' = Tail(queue) /\ due' = due
  BY ApplyHead DEF TruthInv, Types
<1>1. /\ Len(queue) \in Nat /\ DOMAIN queue = 1 .. Len(queue) /\ DOMAIN queue' = 1 .. Len(queue) - 1
      /\ 1 \in DOMAIN queue /\ \A i \in DOMAIN queue' : queue'[i] = queue[i + 1]
  BY <1>0, Popped
<1>2. PICK m : m = queue[1]
  OBVIOUS
<1>3. ASSUME NEW d \in due
      PROVE  OutOfWindow(d)' \/ Recorded(d)' \/ OnItsWay(d)'
  <2>0. d[1] \in Hashes /\ d[2] \in Levels /\ d[1][1] \in Slots /\ d[1][1] \in Nat /\ d[1] # NoBlock
    <3>1. d \in Hashes \X Levels
      BY DEF TruthInv, Types, ValidatorTypes
    <3>2. d[1] \in Hashes /\ d[2] \in Levels
      BY <3>1
    <3>3. \A h \in Hashes : h[1] \in Slots /\ h[1] \in Nat
      BY UnaryAssumption DEF UnaryAssumption, Hashes
    <3>4. NoBlock \notin Hashes
      BY DEF NoBlock, Hashes
    <3> QED
      BY <3>2, <3>3, <3>4
  <2>1. CASE OutOfWindow(d)
    <3>1. Root # NoSlot /\ Root > d[1][1] + MaxRecent
      BY <2>1 DEF OutOfWindow
    <3>2. Root' # NoSlot /\ Root' > d[1][1] + MaxRecent
      BY <2>0, <3>1, ApplyRoot, UnaryAssumption DEF UnaryAssumption
    <3> QED
      BY <3>2 DEF OutOfWindow
  <2>2. CASE Recorded(d)
    <3>1. CASE IsSlot(m) /\ ApplySlot(m)
      <4>1. d[1] \in DOMAIN TableAfter(m) /\ d[2] \in TableAfter(m)[d[1]].levels
        BY <1>2, <2>2, <3>1, ApplyHead, TableAfterStatus DEF Recorded
      <4> QED
        BY <1>2, <3>1, <4>1, RecordedStays
    <3>2. CASE ApplyMeta(m)
      BY <2>2, <3>2 DEF ApplyMeta, Recorded
    <3> QED
      BY <1>2, <3>1, <3>2, ApplyHead
  <2>3. CASE OnItsWay(d)
    <3>1. PICK j \in DOMAIN queue : /\ queue[j].kind = "slot" /\ queue[j].slot = d[1][1] /\ queue[j].status = d[2]
                                    /\ Finds(j, d[1])
      BY <2>3 DEF OnItsWay
    <3>2. CASE j = 1
      <4>1. IsSlot(m) /\ ApplySlot(m) /\ m.slot = d[1][1] /\ m.status = d[2]
        BY <1>2, <3>1, <3>2, ApplyHead DEF IsMeta
      <4>2. blocks[m.slot] = d[1]
        BY <3>1, <3>2, <4>1 DEF Finds
      <4>3. d[1] \in DOMAIN TableAfter(m) /\ d[2] \in TableAfter(m)[d[1]].levels
        BY <1>2, <2>0, <4>1, <4>2, ApplyHead, TableAfterStatus
      <4> QED
        BY <1>2, <4>1, <4>3, RecordedStays
    <3>3. CASE j # 1
      <4>1. PICK i : i = j - 1
        OBVIOUS
      <4>2. i \in Nat /\ i >= 1 /\ i <= Len(queue) /\ i + 1 = j /\ i \in DOMAIN queue' /\ queue'[i] = queue[j]
        BY <1>1, <3>1, <3>3, <4>1
      <4>3. ASSUME Finalizes(queue[1])
            PROVE  KeptBlock(d[1][1], queue[1].slot)
        <5>1. queue[1].slot <= d[1][1] /\ queue[1].slot \in Nat
          BY <1>0, <1>1, <3>1, <3>3, <4>3, SlotsAreNumbers DEF RootedInOrder
        <5> QED
          BY <2>0, <5>1, UnaryAssumption DEF UnaryAssumption, KeptBlock
      <4>4. PICK h : h = d[1]
        OBVIOUS
      <4>5. Finds(i + 1, h)
        BY <3>1, <4>2, <4>4
      <4>6. Finds(i, h)'
        BY <2>0, <4>2, <4>3, <4>4, <4>5, ApplyFinds
      <4> QED
        BY <3>1, <4>2, <4>4, <4>6 DEF OnItsWay
    <3> QED
      BY <3>2, <3>3
  <2> QED
    BY <2>1, <2>2, <2>3 DEF DueInv
<1> QED
  BY <1>0, <1>3 DEF DueInv

LEMMA InOrderUnchanged ==
    ASSUME InOrder, UNCHANGED work
    PROVE  InOrder'
<1>1. UNCHANGED <<bank, metaSent, notified, queue, blocks, blockhashes, latest, due>>
  BY DEF work, validator, storage
<1>2. RootedInOrder' /\ TablesBounded'
  BY <1>1 DEF InOrder, RootedInOrder, TablesBounded, Root, Finalizes
<1>3. \A h : FindsNext(h) => FindsNext(h)'
  BY <1>1 DEF FindsNext, Finds, MetaOf
<1>4. \A s : AboveRoot(s)' <=> AboveRoot(s)
  BY <1>1 DEF AboveRoot
<1>5. NextFinds'
  BY <1>1, <1>3, <1>4 DEF InOrder, NextFinds
<1>6. \A d : OnItsWay(d) => OnItsWay(d)'
  BY <1>1 DEF OnItsWay, Finds, MetaOf
<1>7. \A d : (Recorded(d) => Recorded(d)') /\ (OutOfWindow(d) => OutOfWindow(d)')
  BY <1>1 DEF Recorded, OutOfWindow, Root
<1>8. DueInv'
  BY <1>1, <1>6, <1>7 DEF InOrder, DueInv
<1> QED
  BY <1>2, <1>5, <1>8 DEF InOrder

LEMMA WindowInit ==
    ASSUME Init
    PROVE  WindowInv
<1>1. TruthInv
  BY TruthInit
<1>2. RootedInOrder /\ TablesBounded
  BY DEF Init, RootedInOrder, TablesBounded, Root, Levels
<1>3. NextFinds /\ DueInv
  BY DEF Init, NextFinds, DueInv
<1> QED
  BY <1>1, <1>2, <1>3 DEF WindowInv, InOrder

LEMMA WindowInductive ==
    ASSUME WindowInv, [Next]_vars
    PROVE  WindowInv'
<1>1. TruthInv /\ TruthInv'
  BY TruthInductive DEF WindowInv
<1>2. ASSUME task' = "running"
      PROVE  InOrder'
  <2>1. CASE \E s \in Slots : CreateBank(s) \/ NotifyBlockMetadata(s) \/ \E l \in Levels : UpdateSlotStatus(s, l)
    <3>1. InOrder
      BY <1>2, <2>1 DEF WindowInv, CreateBank, NotifyBlockMetadata, UpdateSlotStatus
    <3> QED
      BY <1>1, <2>1, <3>1, CreateBankInOrder, NotifyBlockMetadataInOrder, UpdateSlotStatusInOrder
  <2>2. CASE Apply
    <3>1. InOrder
      BY <1>1, <2>2, ApplyHead DEF WindowInv
    <3> QED
      BY <1>1, <2>2, <3>1, ApplyRooted, ApplyBounded, ApplyNextFinds, ApplyDue DEF InOrder
  <2>3. CASE Cancel
    BY <1>2, <2>3 DEF Cancel
  <2>4. CASE UNCHANGED work
    BY <1>2, <2>4, InOrderUnchanged DEF WindowInv, work
  <2> QED
    BY <2>1, <2>2, <2>3, <2>4, CallsChangeNothing
<1> QED
  BY <1>1, <1>2 DEF WindowInv

LEMMA WindowsFollow ==
    ASSUME WindowInv
    PROVE  WindowsExact
<1> SUFFICES ASSUME Drained
             PROVE  /\ \A d \in due : OutOfWindow(d) \/ Recorded(d)
                    /\ TablesBounded
  BY DEF WindowsExact, OutOfWindow, Recorded, TablesBounded
<1>1. InOrder /\ queue = <<>>
  BY DEF Drained, WindowInv
<1>2. \A d : ~OnItsWay(d)
  BY <1>1 DEF OnItsWay
<1> QED
  BY <1>1, <1>2 DEF InOrder, DueInv

\* The tables are windows of the right size: no level that is due is missing before its
\* blockhash leaves the window, and nothing below a window is left, whatever was queued
\* between the callbacks and the task.
THEOREM WindowsAlwaysExact == Spec => []WindowsExact
<1>1. Init => WindowInv
  BY WindowInit
<1>2. WindowInv /\ [Next]_vars => WindowInv'
  BY WindowInductive
<1>3. WindowInv => WindowsExact
  BY WindowsFollow
<1> QED
  BY <1>1, <1>2, <1>3, PTL DEF Spec
=============================================================================
