------------------------- MODULE BlockStorageProofs -------------------------
(***************************************************************************)
(* Proofs about BlockStorage, for any set of slots, any tree of parents,   *)
(* any amount of data, any capacity and any minimum:                       *)
(*   - the count of finalized slots that gc relies on and the oldest slot  *)
(*     that replay requests are checked against are exact (StorageInv);    *)
(*   - a kept block is whole, the ready queue holds each status once and   *)
(*     in order, and nothing outlives its bank (BankInv).                  *)
(***************************************************************************)
EXTENDS BlockStorage, FiniteSetTheorems, WellFoundedInduction, TLAPS

\* The part of the type invariant the proofs need: keys, counters and levels.
StorageTypeOK ==
    /\ DOMAIN replayed_slot \subseteq Slots
    /\ MapInto(slot_commitment_progression_map, Slots, SlotProgression)
    /\ min_slot \in Slots \cup {NoSlot}
    /\ num_buffered_finalized_slot \in Nat
    /\ gc_running \in BOOLEAN
    /\ tracked \subseteq Slots
    /\ wanted \in [Slots -> 0..Finalized]
    /\ emitted \in [Slots -> 0..Finalized]
    /\ notices \subseteq [kind : NoticeKinds, slot : Slots]

\* The list of recorded levels, which raises the count, and the maximum, which
\* lowers it, agree on what is finalized.
ProgressionConsistent ==
    \A s \in DOMAIN slot_commitment_progression_map :
        LET p == slot_commitment_progression_map[s]
        IN  p.max_commitment = Finalized <=> Finalized \in Elements(p.commitment)

StorageInv ==
    /\ StorageTypeOK
    /\ ProgressionConsistent
    /\ FinalizedCountExact
    /\ MinSlotExact

-----------------------------------------------------------------------------

LEMMA PutProperties ==
    ASSUME NEW f, NEW k, NEW v
    PROVE  /\ DOMAIN Put(f, k, v) = DOMAIN f \cup {k}
           /\ Put(f, k, v)[k] = v
           /\ \A x \in DOMAIN f : x # k => Put(f, k, v)[x] = f[x]
BY DEF Put

LEMMA RemoveProperties ==
    ASSUME NEW f, NEW k
    PROVE  /\ DOMAIN Remove(f, k) = DOMAIN f \ {k}
           /\ \A x \in DOMAIN f \ {k} : Remove(f, k)[x] = f[x]
BY DEF Remove

\* refresh_min_slot finds the least key whenever there is one.
LEMMA FirstKeyProperties ==
    ASSUME NEW S \in SUBSET Nat
    PROVE  /\ S = {} => FirstKey(S) = NoSlot
           /\ S # {} => FirstKey(S) \in S /\ \A t \in S : FirstKey(S) <= t
           /\ \A s \in S : (\A t \in S : s <= t) => FirstKey(S) = s
<1>1. S # {} => \E s \in S : \A t \in S : s <= t
  <2>. SUFFICES ASSUME S # {} PROVE \E s \in S : \A t \in S : s <= t
    OBVIOUS
  <2>1. PICK s \in S : \A t \in S : ~ (<<t, s>> \in OpToRel(<, Nat))
    BY NatLessThanWellFounded, WFMin
  <2>2. \A t \in S : ~ (t < s)
    BY <2>1 DEF OpToRel
  <2>. QED
    BY <2>2
<1>2. S # {} => FirstKey(S) \in S /\ \A t \in S : FirstKey(S) <= t
  BY <1>1 DEF FirstKey
<1>3. S = {} => FirstKey(S) = NoSlot
  BY DEF FirstKey
<1>4. \A s \in S : (\A t \in S : s <= t) => FirstKey(S) = s
  <2>. SUFFICES ASSUME NEW s \in S, \A t \in S : s <= t PROVE FirstKey(S) = s
    OBVIOUS
  <2>1. FirstKey(S) \in S /\ FirstKey(S) <= s /\ s <= FirstKey(S)
    BY <1>2
  <2>2. FirstKey(S) \in Nat /\ s \in Nat
    BY <2>1
  <2>. HIDE DEF FirstKey
  <2>. QED
    BY <2>1, <2>2
<1>. QED
  BY <1>2, <1>3, <1>4

-----------------------------------------------------------------------------
(* The facts an action must establish: each lemma takes what an action     *)
(* does to the variables of one conjunct.                                  *)

\* A slot of the progression map is finalized in FinalizedSlots and nowhere else.
LEMMA FinalizedSlotsFinite ==
    ASSUME StorageTypeOK
    PROVE  IsFiniteSet(FinalizedSlots) /\ Cardinality(FinalizedSlots) \in Nat
<1>1. FinalizedSlots \in SUBSET Slots
  BY DEF FinalizedSlots, StorageTypeOK, MapInto
<1>. QED
  BY <1>1, SlotsAssumption, FS_Subset, FS_CardinalityType

LEMMA InitStorageInv == Init => StorageInv
<1>. SUFFICES ASSUME Init PROVE StorageInv
  OBVIOUS
<1>1. StorageTypeOK
  <2>1. 0 \in 0..Finalized
    BY DEF Finalized
  <2>2. wanted \in [Slots -> 0..Finalized] /\ emitted \in [Slots -> 0..Finalized]
    BY <2>1 DEF Init, MachineInit
  <2>3. MapInto(slot_commitment_progression_map, Slots, SlotProgression)
    BY DEF Init, MapInto, EmptyMap
  <2>. QED
    BY <2>2, <2>3 DEF Init, MachineInit, StorageTypeOK, EmptyMap
<1>2. ProgressionConsistent
  BY DEF Init, ProgressionConsistent, EmptyMap
<1>3. FinalizedCountExact
  <2>1. FinalizedSlots = {}
    BY DEF Init, FinalizedSlots, EmptyMap
  <2>. QED
    BY <2>1, FS_EmptySet DEF Init, FinalizedCountExact
<1>4. MinSlotExact
  BY DEF Init, MinSlotExact, EmptyMap, FirstKey
<1>. QED
  BY <1>1, <1>2, <1>3, <1>4 DEF StorageInv

\* prune_slot keeps the progression map well formed and the count exact.
LEMMA PruneSlotKeepsCount ==
    ASSUME StorageTypeOK, ProgressionConsistent, FinalizedCountExact, NEW s, PruneSlot(s)
    PROVE  /\ DOMAIN replayed_slot' = DOMAIN replayed_slot \ {s}
           /\ MapInto(slot_commitment_progression_map, Slots, SlotProgression)'
           /\ (num_buffered_finalized_slot \in Nat)'
           /\ ProgressionConsistent'
           /\ FinalizedCountExact'
<1>. DEFINE prog == slot_commitment_progression_map
<1>1. /\ DOMAIN replayed_slot' = DOMAIN replayed_slot \ {s}
      /\ DOMAIN prog' = DOMAIN prog \ {s}
      /\ \A x \in DOMAIN prog' : prog'[x] = prog[x]
  BY RemoveProperties DEF PruneSlot
<1>2. MapInto(prog, Slots, SlotProgression)'
  BY <1>1 DEF StorageTypeOK, MapInto
<1>3. ProgressionConsistent'
  BY <1>1 DEF ProgressionConsistent
<1>4. FinalizedSlots' = FinalizedSlots \ {s}
  BY <1>1 DEF FinalizedSlots
<1>5. IsFiniteSet(FinalizedSlots) /\ Cardinality(FinalizedSlots) \in Nat
  BY FinalizedSlotsFinite
<1>6. Cardinality(FinalizedSlots') =
        IF s \in FinalizedSlots THEN Cardinality(FinalizedSlots) - 1
                                ELSE Cardinality(FinalizedSlots)
  BY <1>4, <1>5, FS_RemoveElement
<1>7. s \in FinalizedSlots <=> s \in DOMAIN prog /\ prog[s].max_commitment = Finalized
  BY DEF FinalizedSlots
<1>8. s \in FinalizedSlots => Cardinality(FinalizedSlots) > 0
  BY <1>5, FS_EmptySet
<1>9. num_buffered_finalized_slot' = Cardinality(FinalizedSlots')
  BY <1>5, <1>6, <1>7, <1>8 DEF PruneSlot, FinalizedCountExact, StorageTypeOK
<1>10. (num_buffered_finalized_slot \in Nat)'
  BY <1>5, <1>6, <1>8, <1>9
<1>. QED
  BY <1>1, <1>2, <1>3, <1>9, <1>10 DEF FinalizedCountExact

LEMMA ElementsAppend ==
    ASSUME NEW S, NEW q \in Seq(S), NEW e
    PROVE  Elements(Append(q, e)) = Elements(q) \cup {e}
<1>. DEFINE r == Append(q, e)
<1>1. /\ DOMAIN q = 1..Len(q) /\ Len(q) \in Nat
      /\ DOMAIN r = 1..(Len(q) + 1)
      /\ \A i \in 1..Len(q) : r[i] = q[i]
      /\ r[Len(q) + 1] = e
  OBVIOUS
<1>2. ASSUME NEW x \in Elements(r) PROVE x \in Elements(q) \cup {e}
  <2>1. PICK i \in DOMAIN r : x = r[i]
    BY DEF Elements
  <2>2. CASE i \in 1..Len(q)
    BY <1>1, <2>1, <2>2 DEF Elements
  <2>3. CASE i = Len(q) + 1
    BY <1>1, <2>1, <2>3
  <2>. QED
    BY <1>1, <2>1, <2>2, <2>3
<1>3. ASSUME NEW x \in Elements(q) PROVE x \in Elements(r)
  <2>1. PICK i \in DOMAIN q : x = q[i]
    BY DEF Elements
  <2>2. i \in DOMAIN r /\ r[i] = x
    BY <1>1, <2>1
  <2>. QED
    BY <2>2 DEF Elements
<1>4. e \in Elements(r)
  <2>1. Len(q) + 1 \in DOMAIN r
    BY <1>1
  <2>. QED
    BY <1>1, <2>1 DEF Elements
<1>. QED
  BY <1>2, <1>3, <1>4

\* What the progression map is after a status of slot s has been recorded.
Progressed(prog, s, level, new) ==
    /\ DOMAIN new = DOMAIN prog \cup {s}
    /\ \A x \in DOMAIN prog \ {s} : new[x] = prog[x]
    /\ new[s] \in SlotProgression
    /\ Elements(new[s].commitment) =
          {level} \cup (IF s \in DOMAIN prog THEN Elements(prog[s].commitment) ELSE {})
    /\ new[s].max_commitment =
          IF s \in DOMAIN prog /\ prog[s].max_commitment >= level
          THEN prog[s].max_commitment ELSE level

\* Recording a status adds its level to the list of the slot, once, and raises
\* the slot's maximum to it.
LEMMA ProgressProperties ==
    ASSUME NEW prog, MapInto(prog, Slots, SlotProgression), NEW s \in Slots,
           NEW level \in CommitmentLevel, NEW new, new = Progress(prog, s, level)
    PROVE  Progressed(prog, s, level, new)
<1>0. CommitmentLevel \subseteq Nat
  BY DEF CommitmentLevel, Processed, Finalized
<1>1. CASE s \notin DOMAIN prog
  <2>. DEFINE p == [commitment |-> <<level>>, max_commitment |-> level]
  <2>1. new = Put(prog, s, p)
    BY <1>1 DEF Progress
  <2>2. /\ DOMAIN new = DOMAIN prog \cup {s}
        /\ \A x \in DOMAIN prog \ {s} : new[x] = prog[x]
        /\ new[s] = p
    BY <2>1 DEF Put
  <2>3. p \in SlotProgression /\ Elements(p.commitment) = {level}
    BY DEF SlotProgression, Elements
  <2>. QED
    BY <1>1, <2>2, <2>3 DEF Progressed
<1>2. CASE s \in DOMAIN prog
  <2>. DEFINE c == prog[s].commitment
              d == IF level \in Elements(c) THEN c ELSE Append(c, level)
              m == IF prog[s].max_commitment < level THEN level
                   ELSE prog[s].max_commitment
  <2>1. /\ prog[s] \in SlotProgression
        /\ c \in Seq(CommitmentLevel)
        /\ prog[s].max_commitment \in CommitmentLevel
    BY <1>2 DEF MapInto, SlotProgression
  <2>2. /\ DOMAIN new = DOMAIN prog
        /\ \A x \in DOMAIN prog \ {s} : new[x] = prog[x]
        /\ new[s] = [commitment |-> d, max_commitment |-> m]
    BY <1>2, <2>1 DEF Progress, SlotProgression
  <2>3. d \in Seq(CommitmentLevel) /\ m \in CommitmentLevel
    BY <2>1
  <2>4. Elements(d) = {level} \cup Elements(c)
    <3>1. CASE level \in Elements(c)
      BY <3>1
    <3>2. CASE level \notin Elements(c)
      BY <2>1, <3>2, ElementsAppend
    <3>. QED
      BY <3>1, <3>2
  <2>5. m = IF prog[s].max_commitment >= level THEN prog[s].max_commitment ELSE level
    BY <1>0, <2>1
  <2>. HIDE DEF d, m
  <2>6. new[s] \in SlotProgression /\ new[s].commitment = d /\ new[s].max_commitment = m
    BY <2>2, <2>3 DEF SlotProgression
  <2>. QED
    BY <1>2, <2>2, <2>4, <2>5, <2>6 DEF Progressed
<1>. QED
  BY <1>1, <1>2

LEMMA OnSlotStatusStep ==
    ASSUME StorageInv, NEW s \in Slots, OnSlotStatus(s)
    PROVE  StorageInv'
<1>. DEFINE level == emitted[s] + 1
            prog == slot_commitment_progression_map
<1>. USE DEF StorageInv
<1>0. /\ level \in CommitmentLevel
      /\ emitted' = [emitted EXCEPT ![s] = level]
      /\ emitted' \in [Slots -> 0..Finalized]
  BY DEF OnSlotStatus, PopStatus, StatusDue, StorageTypeOK, CommitmentLevel,
         Processed, Finalized
<1>1. prog' = Progress(prog, s, level)
  BY DEF OnSlotStatus
<1>2. MapInto(prog, Slots, SlotProgression)
  BY DEF StorageTypeOK
<1>. HIDE DEF level
<1>3. /\ DOMAIN prog' = DOMAIN prog \cup {s}
      /\ \A x \in DOMAIN prog \ {s} : prog'[x] = prog[x]
      /\ prog'[s] \in SlotProgression
      /\ Elements(prog'[s].commitment) =
            {level} \cup (IF s \in DOMAIN prog THEN Elements(prog[s].commitment) ELSE {})
      /\ prog'[s].max_commitment =
            IF s \in DOMAIN prog /\ prog[s].max_commitment >= level
            THEN prog[s].max_commitment ELSE level
  <2>1. Progressed(prog, s, level, prog')
    BY <1>0, <1>1, <1>2, ProgressProperties
  <2>. QED
    BY <2>1 DEF Progressed
<1>4. MapInto(prog, Slots, SlotProgression)'
  BY <1>2, <1>3 DEF MapInto
<1>5. s \in DOMAIN prog => /\ prog[s].max_commitment \in CommitmentLevel
                           /\ prog[s].max_commitment = Finalized
                                <=> Finalized \in Elements(prog[s].commitment)
  BY <1>2 DEF MapInto, SlotProgression, ProgressionConsistent
<1>6. prog'[s].max_commitment = Finalized <=> Finalized \in Elements(prog'[s].commitment)
  BY <1>0, <1>3, <1>5 DEF CommitmentLevel, Processed, Finalized
<1>7. ProgressionConsistent'
  BY <1>3, <1>6 DEF ProgressionConsistent
<1>8. FinalizedSlots' = IF prog'[s].max_commitment = Finalized
                        THEN FinalizedSlots \cup {s} ELSE FinalizedSlots \ {s}
  BY <1>3 DEF FinalizedSlots
<1>9. NewlyFinalized(prog, s, level) <=>
        prog'[s].max_commitment = Finalized /\ s \notin FinalizedSlots
  BY <1>0, <1>3, <1>5
     DEF NewlyFinalized, FinalizedSlots, CommitmentLevel, Processed, Finalized
<1>10. s \in FinalizedSlots => prog'[s].max_commitment = Finalized
  BY <1>0, <1>3, <1>5 DEF FinalizedSlots, CommitmentLevel, Processed, Finalized
<1>11. Cardinality(FinalizedSlots') = IF NewlyFinalized(prog, s, level)
                                      THEN Cardinality(FinalizedSlots) + 1
                                      ELSE Cardinality(FinalizedSlots)
  <2>1. IsFiniteSet(FinalizedSlots)
    BY FinalizedSlotsFinite
  <2>2. CASE prog'[s].max_commitment = Finalized
    BY <2>1, <2>2, <1>8, <1>9, FS_AddElement
  <2>3. CASE prog'[s].max_commitment # Finalized
    <3>1. FinalizedSlots' = FinalizedSlots
      BY <2>3, <1>8, <1>10
    <3>. QED
      BY <2>3, <3>1, <1>9
  <2>. QED
    BY <2>2, <2>3
<1>12. FinalizedCountExact' /\ (num_buffered_finalized_slot \in Nat)'
  BY <1>11 DEF OnSlotStatus, level, FinalizedCountExact, StorageTypeOK
<1>13. UNCHANGED <<replayed_slot, min_slot, tracked, wanted, notices>> /\ ~gc_running
       /\ gc_running' \in BOOLEAN
  BY DEF OnSlotStatus
<1>14. StorageTypeOK'
  BY <1>0, <1>4, <1>12, <1>13 DEF StorageTypeOK
<1>15. MinSlotExact'
  BY <1>13 DEF MinSlotExact
<1>. QED
  BY <1>7, <1>12, <1>14, <1>15

\* A slot that freezes becomes the oldest one exactly when it is below min_slot.
LEMMA OnFrozenBlockStep ==
    ASSUME StorageInv, NEW s \in Slots, OnFrozenBlock(s)
    PROVE  StorageInv'
<1>. USE DEF StorageInv
<1>1. /\ UNCHANGED <<slot_commitment_progression_map, num_buffered_finalized_slot,
                     gc_running, tracked, wanted, emitted, notices>>
      /\ ~gc_running
  BY DEF OnFrozenBlock, PopFrozen
<1>2. ProgressionConsistent' /\ FinalizedCountExact'
  BY <1>1 DEF ProgressionConsistent, FinalizedCountExact, FinalizedSlots
<1>3. CASE s \notin DOMAIN processing_slots
  BY <1>1, <1>2, <1>3 DEF OnFrozenBlock, StorageTypeOK, MinSlotExact
<1>4. CASE s \in DOMAIN processing_slots
  <2>. DEFINE D == DOMAIN replayed_slot
  <2>1. /\ DOMAIN replayed_slot' = D \cup {s}
        /\ min_slot' = IF min_slot = NoSlot \/ s < min_slot THEN s ELSE min_slot
    BY <1>4, PutProperties DEF OnFrozenBlock
  <2>2. StorageTypeOK'
    BY <1>1, <2>1 DEF StorageTypeOK
  <2>3. D \in SUBSET Nat /\ D \cup {s} \in SUBSET Nat
    BY SlotsAssumption DEF StorageTypeOK
  <2>4. min_slot = FirstKey(D)
    BY <1>1 DEF MinSlotExact
  <2>5. min_slot' \in D \cup {s} /\ \A t \in D \cup {s} : min_slot' <= t
    <3>1. CASE D = {}
      <4>1. min_slot = NoSlot
        BY <2>3, <2>4, <3>1, FirstKeyProperties
      <4>. QED
        BY <2>1, <2>3, <3>1, <4>1
    <3>2. CASE D # {}
      <4>1. min_slot \in D /\ \A t \in D : min_slot <= t
        BY <2>3, <2>4, <3>2, FirstKeyProperties
      <4>2. min_slot # NoSlot /\ min_slot \in Nat
        BY <2>3, <4>1 DEF NoSlot
      <4>. QED
        BY <2>1, <2>3, <4>1, <4>2
    <3>. QED
      BY <3>1, <3>2
  <2>6. min_slot' = FirstKey(D \cup {s})
    BY <2>3, <2>5, FirstKeyProperties
  <2>7. MinSlotExact'
    BY <2>1, <2>6 DEF MinSlotExact
  <2>. QED
    BY <1>2, <2>2, <2>7
<1>. QED
  BY <1>3, <1>4

\* refresh_min_slot after any change of the map of frozen blocks.
LEMMA FirstKeyType ==
    ASSUME NEW S \in SUBSET Slots
    PROVE  FirstKey(S) \in Slots \cup {NoSlot}
<1>1. S \in SUBSET Nat
  BY SlotsAssumption
<1>. QED
  BY <1>1, FirstKeyProperties

LEMMA PruneAndRefreshStep ==
    ASSUME StorageInv, NEW s, PruneSlot(s), RefreshMinSlot,
           UNCHANGED <<gc_running, tracked, wanted, emitted>>, notices' \subseteq notices
    PROVE  StorageInv'
<1>. USE DEF StorageInv
<1>1. /\ DOMAIN replayed_slot' = DOMAIN replayed_slot \ {s}
      /\ MapInto(slot_commitment_progression_map, Slots, SlotProgression)'
      /\ (num_buffered_finalized_slot \in Nat)'
      /\ ProgressionConsistent'
      /\ FinalizedCountExact'
  BY PruneSlotKeepsCount
<1>2. DOMAIN replayed_slot' \in SUBSET Slots
  BY <1>1 DEF StorageTypeOK
<1>3. min_slot' = FirstKey(DOMAIN replayed_slot') /\ min_slot' \in Slots \cup {NoSlot}
  BY <1>2, FirstKeyType DEF RefreshMinSlot
<1>4. StorageTypeOK'
  BY <1>1, <1>2, <1>3 DEF StorageTypeOK
<1>5. MinSlotExact'
  BY <1>3 DEF MinSlotExact
<1>. QED
  BY <1>1, <1>4, <1>5

LEMMA GcPruneStep ==
    ASSUME StorageInv, GcPrune
    PROVE  StorageInv'
<1>. USE DEF StorageInv
<1>0. /\ PruneSlot(FirstKey(DOMAIN replayed_slot))
      /\ gc_running /\ UNCHANGED <<gc_running, min_slot, tracked, wanted, emitted, notices>>
  BY DEF GcPrune, machineVars
<1>1. /\ DOMAIN replayed_slot' \subseteq DOMAIN replayed_slot
      /\ MapInto(slot_commitment_progression_map, Slots, SlotProgression)'
      /\ (num_buffered_finalized_slot \in Nat)'
      /\ ProgressionConsistent'
      /\ FinalizedCountExact'
  BY <1>0, PruneSlotKeepsCount
<1>2. StorageTypeOK'
  BY <1>0, <1>1 DEF StorageTypeOK
<1>. QED
  BY <1>0, <1>1, <1>2 DEF MinSlotExact

\* A message only changes the buffers and the state machine.
LEMMA AddMessageStep ==
    ASSUME StorageInv, NEW s \in Slots, AddMessage(s)
    PROVE  StorageInv'
<1>. USE DEF StorageInv
<1>1. UNCHANGED <<replayed_slot, slot_commitment_progression_map, min_slot,
                  num_buffered_finalized_slot, gc_running>>
  BY DEF AddMessage, AddFirstShredReceived, AddCreatedBank, AddDead, AddCommitment,
         AddBlockData, AddBlockMeta, UnchangedButProcessing, storageVars
<1>2. /\ tracked' \subseteq Slots
      /\ wanted' \in [Slots -> 0..Finalized]
      /\ emitted' \in [Slots -> 0..Finalized]
      /\ notices' \subseteq [kind : NoticeKinds, slot : Slots]
  <2>. DEFINE Good == /\ tracked' \subseteq Slots
                      /\ wanted' \in [Slots -> 0..Finalized]
                      /\ emitted' \in [Slots -> 0..Finalized]
                      /\ notices' \subseteq [kind : NoticeKinds, slot : Slots]
  <2>0. ASSUME UNCHANGED <<wanted, emitted, notices>>, tracked' \subseteq tracked \cup {s}
        PROVE  Good
    BY <2>0 DEF StorageTypeOK
  <2>1. ASSUME NEW kind \in NoticeKinds, NEW t \in Slots
        PROVE  Notice(kind, t) \in [kind : NoticeKinds, slot : Slots]
    BY DEF Notice
  <2>2. CASE AddFirstShredReceived(s)
    BY <2>0, <2>2 DEF AddFirstShredReceived, TrackSlot
  <2>3. CASE AddCreatedBank(s)
    <3>1. CASE TrackSlot(s)
      BY <2>0, <3>1 DEF TrackSlot
    <3>2. CASE ResetBank(s)
      <4>1. notices' \subseteq [kind : NoticeKinds, slot : Slots]
        BY <2>1, <3>2 DEF ResetBank, StorageTypeOK, NoticeKinds
      <4>. QED
        BY <3>2, <4>1 DEF ResetBank, StorageTypeOK, Finalized
    <3>. QED
      BY <2>3, <3>1, <3>2 DEF AddCreatedBank
  <2>4. CASE AddDead(s)
    <3>1. notices' \subseteq [kind : NoticeKinds, slot : Slots]
      BY <2>1, <2>4 DEF AddDead, MarkDead, StorageTypeOK, NoticeKinds
    <3>. QED
      BY <2>4, <3>1 DEF AddDead, MarkDead, StorageTypeOK
  <2>5. ASSUME NEW level \in CommitmentLevel, AddCommitment(s, level) PROVE Good
    <3>. DEFINE forks == IF level = Finalized THEN {t \in tracked : Conflict(s, t)} ELSE {}
    <3>1. /\ notices' = notices \cup {Notice("ForksDetected", t) : t \in forks}
          /\ emitted' = emitted
          /\ tracked' = tracked \ forks
          /\ wanted' = [t \in Slots |->
                          IF t \in {s} \cup Ancestors[s] /\ wanted[t] < level
                          THEN level ELSE wanted[t]]
      BY <2>5 DEF AddCommitment, ConsensusEvent
    <3>2. forks \subseteq Slots
      BY DEF StorageTypeOK
    <3>3. \A t \in forks : Notice("ForksDetected", t) \in [kind : NoticeKinds, slot : Slots]
      BY <2>1, <3>2 DEF NoticeKinds
    <3>4. level \in 0..Finalized
      BY DEF CommitmentLevel, Processed, Finalized
    <3>. HIDE DEF forks
    <3>5. notices' \subseteq [kind : NoticeKinds, slot : Slots]
      BY <3>1, <3>3 DEF StorageTypeOK
    <3>6. wanted' \in [Slots -> 0..Finalized]
      BY <3>1, <3>4 DEF StorageTypeOK
    <3>. QED
      BY <3>1, <3>5, <3>6 DEF StorageTypeOK
  <2>6. ASSUME NEW buf, TrySeal(s, buf) PROVE Good
    BY <2>0, <2>6 DEF TrySeal, AcceptSummary, machineVars
  <2>7. ASSUME NEW m \in BlockData(s), AddBlockData(s, m) PROVE Good
    BY <2>0, <2>6, <2>7 DEF AddBlockData, machineVars
  <2>8. CASE AddBlockMeta(s)
    BY <2>0, <2>6, <2>8 DEF AddBlockMeta, machineVars
  <2>. QED
    BY <2>2, <2>3, <2>4, <2>5, <2>7, <2>8 DEF AddMessage
<1>3. StorageTypeOK'
  BY <1>1, <1>2 DEF StorageTypeOK
<1>4. ProgressionConsistent' /\ FinalizedCountExact' /\ MinSlotExact'
  BY <1>1 DEF ProgressionConsistent, FinalizedCountExact, FinalizedSlots, MinSlotExact
<1>. QED
  BY <1>3, <1>4

LEMMA NextKeepsStorageInv == StorageInv /\ [Next]_vars => StorageInv'
<1>. SUFFICES ASSUME StorageInv, [Next]_vars PROVE StorageInv'
  OBVIOUS
<1>1. CASE \E s \in Slots : AddMessage(s)
  BY <1>1, AddMessageStep
<1>2. CASE \E s \in Slots : OnFrozenBlock(s) \/ OnSlotStatus(s)
  BY <1>2, OnFrozenBlockStep, OnSlotStatusStep
<1>3. CASE \E n \in notices : OnForkOrDead(n) \/ OnBankReset(n)
  <2>1. PICK n \in notices : OnForkOrDead(n) \/ OnBankReset(n)
    BY <1>3
  <2>2. /\ PruneSlot(n.slot) /\ RefreshMinSlot
        /\ UNCHANGED <<gc_running, tracked, wanted, emitted>> /\ notices' \subseteq notices
    BY <2>1 DEF OnForkOrDead, OnBankReset, PopNotice
  <2>. QED
    BY <2>2, PruneAndRefreshStep
<1>4. CASE GcPrune
  BY <1>4, GcPruneStep
<1>5. CASE GcDone
  <2>1. /\ UNCHANGED <<replayed_slot, slot_commitment_progression_map,
                       num_buffered_finalized_slot, wanted, emitted, notices>>
        /\ tracked' \subseteq tracked
        /\ gc_running' = FALSE
        /\ min_slot' = FirstKey(DOMAIN replayed_slot)
    BY <1>5 DEF GcDone, MachineGc
  <2>2. min_slot' \in Slots \cup {NoSlot}
    BY <2>1, FirstKeyType DEF StorageInv, StorageTypeOK
  <2>3. StorageTypeOK'
    BY <2>1, <2>2 DEF StorageInv, StorageTypeOK
  <2>4. ProgressionConsistent' /\ FinalizedCountExact' /\ MinSlotExact'
    BY <2>1 DEF StorageInv, ProgressionConsistent, FinalizedCountExact, FinalizedSlots,
                MinSlotExact
  <2>. QED
    BY <2>3, <2>4 DEF StorageInv
<1>6. CASE PopReadyBlock \/ UNCHANGED vars
  <2>1. UNCHANGED <<replayed_slot, slot_commitment_progression_map, min_slot,
                    num_buffered_finalized_slot, gc_running, tracked, wanted, emitted,
                    notices>>
    BY <1>6 DEF PopReadyBlock, vars, machineVars, storageVars
  <2>. QED
    BY <2>1 DEF StorageInv, StorageTypeOK, ProgressionConsistent, FinalizedCountExact,
                FinalizedSlots, MinSlotExact
<1>. QED
  BY <1>1, <1>2, <1>3, <1>4, <1>5, <1>6 DEF Next, OnOutput

\* The inductive invariant holds in every reachable state of the storage.
THEOREM StorageInvariant == Spec => []StorageInv
BY InitStorageInv, NextKeepsStorageInv, PTL DEF Spec

\* gc never works from a drifted count: num_buffered_finalized_slot is the number
\* of slots buffered as finalized, for every set of slots and every fork tree.
THEOREM FinalizedCountCorrect == Spec => []FinalizedCountExact
<1>1. StorageInv => FinalizedCountExact
  BY DEF StorageInv
<1>. QED
  BY <1>1, StorageInvariant, PTL

\* The oldest slot a replay request may ask for is the oldest frozen block kept.
THEOREM MinSlotCorrect == Spec => []MinSlotExact
<1>1. StorageInv => MinSlotExact
  BY DEF StorageInv
<1>. QED
  BY <1>1, StorageInvariant, PTL

-----------------------------------------------------------------------------
(* Ancestors.  The definition is a least set; these are the facts a tree   *)
(* gives.                                                                  *)

LEMMA AncestorsClosed ==
    ASSUME NEW s \in Slots
    PROVE  /\ Ancestors[s] \subseteq Slots
           /\ Parent[s] \in Slots => Parent[s] \in Ancestors[s]
           /\ WithParents(Ancestors[s])
           /\ \A C \in SUBSET Slots :
                 (Parent[s] \in Slots => Parent[s] \in C) /\ WithParents(C) => Ancestors[s] \subseteq C
<1>1. Ancestors[s] = {a \in Slots : \A C \in SUBSET Slots :
                        (Parent[s] \in Slots => Parent[s] \in C) /\ WithParents(C) => a \in C}
  BY DEF Ancestors
<1>. HIDE DEF Ancestors
<1>2. WithParents(Ancestors[s])
  BY <1>1 DEF WithParents
<1>. QED
  BY <1>1, <1>2

LEMMA AncestorsBelow ==
    ASSUME NEW s \in Slots, NEW a \in Ancestors[s]
    PROVE  a \in Slots /\ a < s
<1>. DEFINE C == {x \in Slots : x < s}
<1>1. C \in SUBSET Slots /\ (Parent[s] \in Slots => Parent[s] \in C)
  BY ParentAssumption
<1>2. WithParents(C)
  BY SlotsAssumption, ParentAssumption DEF WithParents
<1>3. Ancestors[s] \subseteq C
  BY <1>1, <1>2, AncestorsClosed
<1>. QED
  BY <1>3

LEMMA AncestorsTransitive ==
    ASSUME NEW s \in Slots, NEW b \in Ancestors[s]
    PROVE  Ancestors[b] \subseteq Ancestors[s]
<1>1. b \in Slots /\ Ancestors[s] \in SUBSET Slots /\ WithParents(Ancestors[s])
  BY AncestorsClosed
<1>2. Parent[b] \in Slots => Parent[b] \in Ancestors[s]
  BY <1>1 DEF WithParents
<1>. QED
  BY <1>1, <1>2, AncestorsClosed

\* Beyond its parent a slot has the ancestors of its parent.
LEMMA AncestorsUnfold ==
    ASSUME NEW s \in Slots, NEW a \in Ancestors[s]
    PROVE  Parent[s] \in Slots /\ (a = Parent[s] \/ a \in Ancestors[Parent[s]])
<1>1. Parent[s] \in Slots
  <2>1. {} \in SUBSET Slots /\ WithParents({})
    BY DEF WithParents
  <2>2. Parent[s] \notin Slots => Ancestors[s] \subseteq {}
    BY <2>1, AncestorsClosed
  <2>. QED
    BY <2>2
<1>. DEFINE C == {Parent[s]} \cup Ancestors[Parent[s]]
<1>2. C \in SUBSET Slots /\ Parent[s] \in C
  BY <1>1, AncestorsClosed
<1>3. WithParents(C)
  BY <1>1, AncestorsClosed DEF WithParents
<1>4. Ancestors[s] \subseteq C
  BY <1>2, <1>3, AncestorsClosed
<1>. QED
  BY <1>1, <1>4

Comparable(x, y) == x = y \/ x \in Ancestors[y] \/ y \in Ancestors[x]

LEMMA AncestorsComparable ==
    ASSUME NEW s \in Slots
    PROVE  \A a, b \in Ancestors[s] : Comparable(a, b)
<1>. DEFINE C == {x \in Ancestors[s] : \A y \in Ancestors[s] : Comparable(x, y)}
<1>1. Ancestors[s] \subseteq Slots /\ C \in SUBSET Slots
  BY AncestorsClosed
<1>2. ASSUME Parent[s] \in Slots PROVE Parent[s] \in C
  <2>1. Parent[s] \in Ancestors[s]
    BY <1>2, AncestorsClosed
  <2>2. \A y \in Ancestors[s] : y = Parent[s] \/ y \in Ancestors[Parent[s]]
    BY AncestorsUnfold
  <2>. QED
    BY <2>1, <2>2 DEF Comparable
<1>3. ASSUME NEW x \in C, Parent[x] \in Slots PROVE Parent[x] \in C
  <2>1. x \in Slots /\ x \in Ancestors[s] /\ Parent[x] \in Ancestors[s]
    BY <1>1, <1>3, AncestorsClosed DEF WithParents
  <2>2. ASSUME NEW y \in Ancestors[s] PROVE Comparable(Parent[x], y)
    <3>1. Comparable(x, y) /\ y \in Slots
      BY <1>1
    <3>2. CASE x = y
      BY <1>3, <2>1, <3>2, AncestorsClosed DEF Comparable
    <3>3. CASE x \in Ancestors[y]
      BY <1>3, <3>1, <3>3, AncestorsClosed DEF Comparable, WithParents
    <3>4. CASE y \in Ancestors[x]
      <4>1. y = Parent[x] \/ y \in Ancestors[Parent[x]]
        BY <2>1, <3>4, AncestorsUnfold
      <4>. QED
        BY <4>1 DEF Comparable
    <3>. QED
      BY <3>1, <3>2, <3>3, <3>4 DEF Comparable
  <2>. QED
    BY <2>1, <2>2
<1>4. WithParents(C)
  BY <1>3 DEF WithParents
<1>5. Ancestors[s] \subseteq C
  BY <1>1, <1>2, <1>4, AncestorsClosed
<1>. QED
  BY <1>5

\* What is on another branch than an ancestor is on another branch.
LEMMA ConflictDown ==
    ASSUME NEW s \in Slots, NEW a \in Ancestors[s], NEW x \in Slots, Conflict(a, x)
    PROVE  Conflict(s, x)
<1>1. a # x /\ a \notin Ancestors[x] /\ x \notin Ancestors[a] /\ a \in Slots
  BY AncestorsClosed DEF Conflict
<1>2. s # x
  BY <1>1
<1>3. s \notin Ancestors[x]
  BY <1>1, AncestorsTransitive
<1>4. x \notin Ancestors[s]
  BY <1>1, AncestorsComparable DEF Comparable
<1>. QED
  BY <1>2, <1>3, <1>4 DEF Conflict

-----------------------------------------------------------------------------
(* Sequences: what retain keeps, and counting messages of a kind           *)

\* Positions of a sequence up to i
LEMMA RankStep ==
    ASSUME NEW n \in Nat, NEW K \in SUBSET (1 .. n)
    PROVE  /\ IsFiniteSet(K) /\ Cardinality(K) \in Nat
           /\ Rank(K, 0) = 0 /\ Rank(K, n) = Cardinality(K)
           /\ \A i \in Nat : Rank(K, i) \in Nat
           /\ \A i \in Nat : Rank(K, i + 1) = IF i + 1 \in K THEN Rank(K, i) + 1 ELSE Rank(K, i)
           /\ \A i \in Nat, k \in K : i < k => Rank(K, i) < Rank(K, k)
<1>0. IsFiniteSet(K) /\ Cardinality(K) \in Nat
  <2>1. 1 \in Int /\ n \in Int
    OBVIOUS
  <2>2. IsFiniteSet(1 .. n)
    BY <2>1, FS_Interval
  <2>. QED
    BY <2>2, FS_Subset, FS_CardinalityType
<1>1. \A k \in K : k \in Nat /\ 1 <= k /\ k <= n
  OBVIOUS
<1>2. ASSUME NEW i \in Nat
      PROVE  IsFiniteSet({k \in K : k <= i}) /\ Cardinality({k \in K : k <= i}) \in Nat
  <2>1. {k \in K : k <= i} \in SUBSET K
    OBVIOUS
  <2>. QED
    BY <1>0, <2>1, FS_Subset, FS_CardinalityType
<1>3. Rank(K, 0) = 0
  <2>0. \A k \in K : ~(k <= 0)
    BY <1>1
  <2>1. {k \in K : k <= 0} = {}
    BY <2>0
  <2>. QED
    BY <2>1, FS_EmptySet DEF Rank
<1>4. Rank(K, n) = Cardinality(K)
  <2>1. {k \in K : k <= n} = K
    BY <1>1
  <2>. QED
    BY <2>1 DEF Rank
<1>5. ASSUME NEW i \in Nat
      PROVE  Rank(K, i + 1) = IF i + 1 \in K THEN Rank(K, i) + 1 ELSE Rank(K, i)
  <2>1. \A k \in K : k <= i + 1 <=> k <= i \/ k = i + 1
    BY <1>1
  <2>2. CASE i + 1 \in K
    <3>1. {k \in K : k <= i + 1} = {k \in K : k <= i} \cup {i + 1}
      BY <2>1, <2>2
    <3>2. i + 1 \notin {k \in K : k <= i}
      OBVIOUS
    <3>3. Cardinality({k \in K : k <= i} \cup {i + 1}) = Cardinality({k \in K : k <= i}) + 1
      BY <1>2, <3>2, FS_AddElement
    <3>. QED
      BY <2>2, <3>1, <3>3 DEF Rank
  <2>3. CASE i + 1 \notin K
    <3>1. {k \in K : k <= i + 1} = {k \in K : k <= i}
      BY <2>1, <2>3
    <3>. QED
      BY <2>3, <3>1 DEF Rank
  <2>. QED
    BY <2>2, <2>3
<1>6. ASSUME NEW i \in Nat, NEW k \in K, i < k PROVE Rank(K, i) < Rank(K, k)
  <2>1. k \in Nat
    BY <1>1
  <2>2. PICK A : A = {x \in K : x <= i}
    OBVIOUS
  <2>3. PICK B : B = {x \in K : x <= k}
    OBVIOUS
  <2>4. A \in SUBSET B /\ k \in B /\ k \notin A
    <3>1. \A x \in K : x <= i => x <= k
      BY <1>1, <1>6, <2>1
    <3>2. k <= k /\ ~(k <= i)
      BY <1>6, <2>1
    <3>. QED
      BY <2>2, <2>3, <3>1, <3>2
  <2>5. IsFiniteSet(B) /\ Cardinality(A) \in Nat /\ Cardinality(B) \in Nat
    BY <1>2, <2>1, <2>2, <2>3
  <2>6. Cardinality(A) <= Cardinality(B) /\ Cardinality(A) # Cardinality(B)
    BY <2>4, <2>5, FS_Subset
  <2>7. Rank(K, i) = Cardinality(A) /\ Rank(K, k) = Cardinality(B)
    BY <2>2, <2>3 DEF Rank
  <2>. QED
    BY <2>5, <2>6, <2>7
<1>7. ASSUME NEW i \in Nat PROVE Rank(K, i) \in Nat
  BY <1>2 DEF Rank
<1>. QED
  BY <1>0, <1>3, <1>4, <1>5, <1>6, <1>7

\* Every rank up to the number of positions is that of a position.
LEMMA RankOnto ==
    ASSUME NEW n \in Nat, NEW K \in SUBSET (1 .. n), NEW j \in 1 .. Cardinality(K)
    PROVE  \E i \in K : Rank(K, i) = j
<1>0. /\ Cardinality(K) \in Nat /\ j \in Nat /\ 1 <= j /\ j <= Cardinality(K)
      /\ Rank(K, 0) = 0 /\ Rank(K, n) = Cardinality(K)
  BY RankStep
<1>. DEFINE T == {i \in Nat : Rank(K, i) >= j}
<1>1. T \in SUBSET Nat /\ n \in T
  BY <1>0
<1>2. PICK i \in T : \A t \in T : i <= t
  <2>1. PICK i \in T : \A t \in T : ~ (<<t, i>> \in OpToRel(<, Nat))
    BY <1>1, NatLessThanWellFounded, WFMin
  <2>2. \A t \in T : ~ (t < i)
    BY <2>1 DEF OpToRel
  <2>. QED
    BY <2>2
<1>3. i \in Nat /\ Rank(K, i) >= j
  OBVIOUS
<1>4. i # 0
  BY <1>0, <1>3
<1>5. PICK p \in Nat : i = p + 1
  BY <1>3, <1>4
<1>6. p \notin T
  BY <1>2, <1>5
<1>7. Rank(K, p) \in Nat /\ Rank(K, i) \in Nat
      /\ Rank(K, i) = IF i \in K THEN Rank(K, p) + 1 ELSE Rank(K, p)
  BY <1>3, <1>5, RankStep
<1>8. ~(Rank(K, p) >= j)
  BY <1>6
<1>. QED
  BY <1>0, <1>3, <1>7, <1>8

\* r is the elements of q at the positions K, in their order.
InOrder(r, q, K) ==
    \E h \in [DOMAIN r -> K] :
        /\ \A j \in DOMAIN r : r[j] = q[h[j]]
        /\ \A i, j \in DOMAIN r : i < j => h[i] < h[j]
        /\ \A k \in K : \E j \in DOMAIN r : h[j] = k

\* What retain leaves are the elements at the positions kept, in their order.
LEMMA RetainProperties ==
    ASSUME NEW S, NEW q \in Seq(S), NEW K \in SUBSET DOMAIN q, NEW r, r = Retain(q, K)
    PROVE  /\ r \in Seq(S)
           /\ InOrder(r, q, K)
           /\ Elements(r) = {q[k] : k \in K}
<1>. DEFINE h == [j \in 1 .. Cardinality(K) |-> CHOOSE i \in K : Rank(K, i) = j]
<1>1. PICK n \in Nat : DOMAIN q = 1 .. n /\ K \in SUBSET (1 .. n)
  OBVIOUS
<1>2. Cardinality(K) \in Nat
  BY <1>1, RankStep
<1>3. DOMAIN r = 1 .. Cardinality(K) /\ \A j \in DOMAIN r : r[j] = q[h[j]]
  BY DEF Retain
<1>4. ASSUME NEW j \in 1 .. Cardinality(K) PROVE h[j] \in K /\ Rank(K, h[j]) = j
  BY <1>1, RankOnto
<1>5. h \in [DOMAIN r -> K]
  BY <1>3, <1>4
<1>. HIDE DEF h
<1>6. ASSUME NEW i \in DOMAIN r, NEW j \in DOMAIN r, i < j PROVE h[i] < h[j]
  <2>1. /\ h[i] \in K /\ Rank(K, h[i]) = i /\ h[i] \in Nat
        /\ h[j] \in K /\ Rank(K, h[j]) = j /\ h[j] \in Nat
        /\ i \in Nat /\ j \in Nat
    BY <1>1, <1>3, <1>4
  <2>2. h[j] < h[i] => j < i
    <3>1. PICK a \in K : a = h[i] /\ a \in Nat /\ Rank(K, a) = i
      BY <2>1
    <3>2. PICK b \in K : b = h[j] /\ b \in Nat /\ Rank(K, b) = j
      BY <2>1
    <3>3. b < a => Rank(K, b) < Rank(K, a)
      BY <1>1, <3>1, <3>2, RankStep
    <3>. QED
      BY <3>1, <3>2, <3>3
  <2>3. h[i] # h[j]
    BY <1>6, <2>1
  <2>. QED
    BY <1>6, <2>1, <2>2, <2>3
<1>7. ASSUME NEW k \in K PROVE \E j \in DOMAIN r : h[j] = k
  <2>. DEFINE j == Rank(K, k)
  <2>1. k \in Nat /\ k \in 1 .. n /\ j \in Nat /\ 0 < j
    <3>1. k \in Nat /\ k \in 1 .. n /\ 0 < k
      BY <1>1
    <3>2. Rank(K, 0) = 0 /\ Rank(K, 0) < Rank(K, k) /\ Rank(K, k) \in Nat
      BY <1>1, <3>1, RankStep
    <3>. QED
      BY <3>1, <3>2
  <2>2. j <= Cardinality(K)
    <3>1. {x \in K : x <= k} \in SUBSET K /\ IsFiniteSet(K)
      BY <1>1, RankStep
    <3>. QED
      BY <3>1, FS_Subset DEF Rank
  <2>3. j \in DOMAIN r
    BY <1>2, <1>3, <2>1, <2>2
  <2>4. h[j] \in K /\ Rank(K, h[j]) = Rank(K, k) /\ h[j] \in Nat
    BY <1>1, <1>3, <1>4, <2>3
  <2>. HIDE DEF j
  <2>5. ~(h[j] < k) /\ ~(k < h[j])
    <3>1. /\ h[j] < k => Rank(K, h[j]) < Rank(K, k)
          /\ k < h[j] => Rank(K, k) < Rank(K, h[j])
      BY <1>1, <2>1, <2>4, RankStep
    <3>. QED
      BY <2>4, <3>1, <2>1, <1>1, RankStep
  <2>. QED
    BY <2>1, <2>3, <2>4, <2>5
<1>8. r \in Seq(S)
  <2>1. \A j \in 1 .. Cardinality(K) : r[j] \in S
    BY <1>1, <1>3, <1>5
  <2>2. r = [j \in 1 .. Cardinality(K) |-> r[j]]
    BY DEF Retain
  <2>. QED
    BY <1>2, <2>1, <2>2
<1>9. Elements(r) = {q[k] : k \in K}
  BY <1>3, <1>5, <1>7 DEF Elements
<1>. QED
  BY <1>3, <1>5, <1>6, <1>7, <1>8, <1>9 DEF InOrder

-----------------------------------------------------------------------------
(* The inductive invariant of a bank's life.  It says, slot by slot, what  *)
(* the state machine, the validator and the four maps know of the slot's   *)
(* current bank.                                                           *)

AllData == UNION {BlockData(s) : s \in Slots}
Blocks == [bank : Nat, messages : Seq(AllData)]
QueueEntries == [slot : Slots, commitment : CommitmentLevel, block : Blocks]
ProcessingSlots ==
    [original_messages : Seq(AllData), account_write_version_map : [Pubkeys -> Nat],
     blockmeta : BOOLEAN, is_sealed : BOOLEAN]

BankTypeOK ==
    /\ MapInto(processing_slots, Slots, ProcessingSlots)
    /\ MapInto(replayed_slot, Slots, Blocks)
    /\ ready_queue \in Seq(QueueEntries)
    /\ bank \in [Slots -> Nat]
    /\ notified \in [Slots -> SUBSET AllData]
    /\ popped \in [Slots -> Nat]

PruneDue(s) == Notice("ForksDetected", s) \in notices \/ Notice("DeadSlotDetected", s) \in notices

\* A slot is summarized with all its data and is then tracked until it is decided; a
\* reset is due only for a bank of which nothing is known yet.
MachineOf(s) ==
    /\ emitted[s] <= wanted[s]
    /\ emitted[s] > 0 => s \in frozen
    /\ s \in frozen => s \in summarized
    /\ s \in summarized => /\ s \in metaNotified
                           /\ Txns \cup Entries \subseteq notified[s]
                           /\ s \in tracked \/ Rejected(s)
    /\ notified[s] \subseteq BlockData(s)
    /\ bank[s] = 0 => notified[s] = {} /\ s \notin metaNotified
    /\ ResetDue(s) => /\ s \in tracked /\ s \notin summarized
                      /\ notified[s] = {} /\ popped[s] = 0
    /\ PruneDue(s) => s \notin tracked

\* The write version kept for an account is the highest in the buffer.
VersionsOf(buf) ==
    LET messages == Elements(buf.original_messages)
        versions == buf.account_write_version_map
    IN  /\ \A m \in messages : m.kind = "account" => m.write_version <= versions[m.pubkey]
        /\ \A p \in Pubkeys : versions[p] # 0 =>
              \E m \in messages :
                  m.kind = "account" /\ m.pubkey = p /\ m.write_version = versions[p]

Injective(q) == \A i, j \in DOMAIN q : q[i] = q[j] => i = j

\* The buffer holds what was notified of the bank, each message once.
HoldsBank(buf, s) ==
    /\ buf.original_messages \in Seq(BlockData(s))
    /\ Injective(buf.original_messages)
    /\ Elements(buf.original_messages) = notified[s]
    /\ VersionsOf(buf)
    /\ buf.blockmeta => s \in metaNotified
    /\ buf.is_sealed <=> s \in summarized

BufferOf(s) ==
    /\ s \in DOMAIN processing_slots =>
          s \notin frozen /\ (ResetDue(s) \/ PruneDue(s) \/ s \in tracked)
    /\ s \in tracked /\ s \notin frozen /\ ~ResetDue(s) =>
          IF s \in DOMAIN processing_slots THEN HoldsBank(processing_slots[s], s)
                                           ELSE notified[s] = {} /\ s \notin summarized

LatestAccounts(M) ==
    {m \in M : /\ m.kind = "account"
               /\ \A o \in M : o.kind = "account" /\ o.pubkey = m.pubkey =>
                                   o.write_version <= m.write_version}

\* A block that is kept is that of the current bank, whole, and its progression is the
\* status last emitted; only a finalized block is dropped while its slot is tracked.
KeptOf(s) ==
    /\ s \in DOMAIN replayed_slot /\ ~ResetDue(s) =>
          /\ s \in frozen
          /\ replayed_slot[s].bank = bank[s]
          /\ Elements(replayed_slot[s].messages) = Txns \cup Entries \cup LatestAccounts(notified[s])
          /\ s \in DOMAIN slot_commitment_progression_map <=> emitted[s] > 0
          /\ s \in DOMAIN slot_commitment_progression_map =>
                slot_commitment_progression_map[s].max_commitment = emitted[s]
    /\ s \in DOMAIN slot_commitment_progression_map =>
          /\ s \in DOMAIN replayed_slot
          /\ ResetDue(s) => slot_commitment_progression_map[s].max_commitment # Finalized
    /\ s \in tracked /\ s \in frozen /\ s \notin DOMAIN replayed_slot => emitted[s] = Finalized

\* The queue holds what was emitted and not popped, in order.
QueueOf(s) ==
    ~ResetDue(s) =>
        /\ popped[s] <= emitted[s]
        /\ \A i \in DOMAIN ready_queue : ready_queue[i].slot = s =>
              /\ popped[s] < ready_queue[i].commitment
              /\ ready_queue[i].commitment <= emitted[s]
              /\ ready_queue[i].block.bank = bank[s]
        /\ \A c \in popped[s] + 1 .. emitted[s] : \E i \in DOMAIN ready_queue :
              ready_queue[i].slot = s /\ ready_queue[i].commitment = c
        /\ \A i, j \in DOMAIN ready_queue :
              ready_queue[i].slot = s /\ ready_queue[j].slot = s /\ i < j =>
                  ready_queue[i].commitment < ready_queue[j].commitment

BankOf(s) == MachineOf(s) /\ BufferOf(s) /\ KeptOf(s)

\* Finalization goes down to the ancestors and rules out the other branches.
TreeInv ==
    \A f \in Slots : wanted[f] = Finalized =>
        /\ \A a \in Ancestors[f] : wanted[a] = Finalized
        /\ \A x \in tracked : ~Conflict(f, x)

\* A slot that froze after a later one was finalized: it catches up before anything
\* else happens, hence before gc may take it for a finalized one.
Late(x) ==
    /\ x \in tracked /\ x \in frozen
    /\ emitted[x] < Finalized
    /\ \E f \in Slots : x < f /\ emitted[f] = Finalized

LateInv ==
    /\ \A x, y \in Slots : Late(x) /\ Late(y) => x = y
    /\ \A s \in Slots : FrozenDue(s) =>
          (\A x \in Slots : ~Late(x)) /\ \A t \in Slots : FrozenDue(t) => t = s
    /\ gc_running => \A x \in Slots : ~Late(x)

BankInv ==
    /\ StorageInv
    /\ BankTypeOK
    /\ \A s \in Slots : BankOf(s)
    /\ \A s \in Slots : QueueOf(s)
    /\ TreeInv
    /\ LateInv

-----------------------------------------------------------------------------

LEMMA NoticeFacts ==
    ASSUME NEW k, NEW l, NEW s, NEW t
    PROVE  Notice(k, s) = Notice(l, t) <=> k = l /\ s = t
BY DEF Notice

LEMMA Levels ==
    ASSUME StorageInv
    PROVE  /\ \A s \in Slots : emitted[s] \in Nat /\ emitted[s] <= 3
           /\ \A s \in Slots : wanted[s] \in Nat /\ wanted[s] <= 3
           /\ Finalized = 3
BY DEF StorageInv, StorageTypeOK, Finalized

\* A late slot is an ancestor of a finalized one.
LEMMA LateIsAncestor ==
    ASSUME StorageInv, TreeInv, NEW x \in Slots, NEW f \in Slots, x < f,
           x \in tracked, wanted[f] = Finalized
    PROVE  x \in Ancestors[f] /\ wanted[x] = Finalized
<1>1. x \in Int /\ f \in Int
  BY SlotsAssumption
<1>2. ~Conflict(f, x)
  BY DEF TreeInv
<1>3. f \notin Ancestors[x] /\ f # x
  BY <1>1, AncestorsBelow
<1>4. x \in Ancestors[f]
  BY <1>2, <1>3 DEF Conflict
<1>. QED
  BY <1>4 DEF TreeInv

\* Between two calls of add nothing is due, and no slot is late.
LEMMA IdleFacts ==
    ASSUME BankInv, Idle
    PROVE  /\ ~gc_running
           /\ notices = {}
           /\ \A s \in Slots : ~ResetDue(s) /\ ~PruneDue(s) /\ ~FrozenDue(s) /\ ~Late(s)
<1>1. ~gc_running /\ notices = {} /\ \A s \in Slots : ~FrozenDue(s) /\ ~StatusDue(s)
  BY DEF Idle, OutputDue
<1>2. \A s \in Slots : ~ResetDue(s) /\ ~PruneDue(s)
  BY <1>1 DEF ResetDue, PruneDue
<1>3. ASSUME NEW x \in Slots, Late(x) PROVE FALSE
  <2>1. PICK f \in Slots : x < f /\ emitted[f] = Finalized
    BY <1>3 DEF Late
  <2>2. /\ x \in tracked /\ x \in frozen /\ emitted[x] < Finalized
        /\ \A s \in Slots : emitted[s] \in Nat /\ emitted[s] <= 3
        /\ \A s \in Slots : wanted[s] \in Nat /\ wanted[s] <= 3
        /\ Finalized = 3
    BY <1>3, Levels DEF BankInv, Late
  <2>3. wanted[f] = Finalized
    BY <2>1, <2>2 DEF BankInv, BankOf, MachineOf
  <2>4. x \in Ancestors[f] /\ wanted[x] = Finalized
    BY <2>1, <2>2, <2>3, LateIsAncestor DEF BankInv
  <2>5. ASSUME NEW a \in Ancestors[x], a \in tracked, a \in frozen
        PROVE  emitted[a] > emitted[x]
    <3>1. a \in Slots /\ a < x
      BY AncestorsBelow
    <3>2. a < f
      BY <2>1, <3>1, SlotsAssumption
    <3>3. ~Late(a)
      BY <1>3, <3>1, SlotsAssumption DEF BankInv, LateInv
    <3>4. ~(emitted[a] < Finalized)
      BY <2>1, <2>5, <3>1, <3>2, <3>3 DEF Late
    <3>. QED
      BY <2>2, <3>1, <3>4
  <2>6. StatusDue(x)
    BY <2>2, <2>4, <2>5 DEF StatusDue
  <2>. QED
    BY <1>1, <2>6
<1>. QED
  BY <1>1, <1>2, <1>3

\* What an action leaves alone of a slot
SameMachine(t) ==
    /\ t \in tracked' <=> t \in tracked
    /\ t \in summarized' <=> t \in summarized
    /\ t \in frozen' <=> t \in frozen
    /\ t \in metaNotified' <=> t \in metaNotified
    /\ emitted'[t] = emitted[t]
    /\ wanted'[t] = wanted[t]
    /\ Rejected(t) => Rejected(t)'
    /\ bank'[t] = bank[t]
    /\ notified'[t] = notified[t]
    /\ ResetDue(t)' <=> ResetDue(t)
    /\ PruneDue(t)' <=> PruneDue(t)
SameBuffer(t) ==
    /\ t \in DOMAIN processing_slots' <=> t \in DOMAIN processing_slots
    /\ t \in DOMAIN processing_slots => processing_slots'[t] = processing_slots[t]
SameBlock(t) ==
    /\ t \in DOMAIN replayed_slot' <=> t \in DOMAIN replayed_slot
    /\ t \in DOMAIN replayed_slot => replayed_slot'[t] = replayed_slot[t]
    /\ t \in DOMAIN slot_commitment_progression_map' <=>
          t \in DOMAIN slot_commitment_progression_map
    /\ t \in DOMAIN slot_commitment_progression_map =>
          slot_commitment_progression_map'[t] = slot_commitment_progression_map[t]

LEMMA SlotLeftAlone ==
    ASSUME NEW t \in Slots, BankOf(t), SameMachine(t), SameBuffer(t), SameBlock(t),
           popped'[t] = popped[t] \/ ~ResetDue(t)
    PROVE  BankOf(t)'
<1>1. MachineOf(t)'
  BY DEF BankOf, MachineOf, SameMachine
<1>2. BufferOf(t)'
  <2>1. ASSUME NEW buf, HoldsBank(buf, t) PROVE HoldsBank(buf, t)'
    BY <2>1 DEF HoldsBank, VersionsOf, SameMachine
  <2>. QED
    BY <2>1 DEF BankOf, BufferOf, SameMachine, SameBuffer
<1>3. KeptOf(t)'
  BY DEF BankOf, KeptOf, SameMachine, SameBlock
<1>. QED
  BY <1>1, <1>2, <1>3 DEF BankOf

LEMMA QueueLeftAlone ==
    ASSUME NEW t \in Slots, QueueOf(t), ready_queue' = ready_queue,
           ResetDue(t)' \/ (ResetDue(t)' <=> ResetDue(t)),
           ResetDue(t)' \/ (popped'[t] = popped[t] /\ emitted'[t] = emitted[t] /\ bank'[t] = bank[t])
    PROVE  QueueOf(t)'
BY DEF QueueOf

LEMMA InitBankInv == Init => BankInv
<1>. SUFFICES ASSUME Init PROVE BankInv
  OBVIOUS
<1>1. StorageInv
  BY InitStorageInv
<1>2. BankTypeOK
  BY DEF Init, BankTypeOK, EmptyMap, MapInto
<1>3. ASSUME NEW s \in Slots PROVE BankOf(s)
  <2>1. /\ emitted[s] = 0 /\ wanted[s] = 0 /\ bank[s] = 0 /\ notified[s] = {}
        /\ s \notin tracked /\ s \notin summarized /\ s \notin frozen /\ s \notin metaNotified
        /\ ~ResetDue(s) /\ ~PruneDue(s)
        /\ s \notin DOMAIN replayed_slot /\ s \notin DOMAIN processing_slots
        /\ s \notin DOMAIN slot_commitment_progression_map
    BY DEF Init, MachineInit, EmptyMap, ResetDue, PruneDue
  <2>. QED
    BY <2>1 DEF BankOf, MachineOf, BufferOf, KeptOf
<1>4. ASSUME NEW s \in Slots PROVE QueueOf(s)
  BY DEF Init, MachineInit, QueueOf
<1>5. TreeInv
  BY DEF Init, MachineInit, TreeInv, Finalized
<1>6. LateInv
  BY DEF Init, MachineInit, LateInv, Late, FrozenDue
<1>. QED
  BY <1>1, <1>2, <1>3, <1>4, <1>5, <1>6 DEF BankInv

\* Once no slot is late, none becomes late unless one freezes or is finalized.
LEMMA StaysOnTime ==
    ASSUME \A x \in Slots : ~Late(x),
           \A x \in Slots : x \in tracked' /\ x \in frozen' =>
               x \in tracked /\ x \in frozen /\ emitted'[x] = emitted[x],
           \A f \in Slots : emitted'[f] = Finalized => emitted[f] = Finalized,
           \A s, t \in Slots : FrozenDue(s)' /\ FrozenDue(t)' => s = t
    PROVE  LateInv'
<1>1. ASSUME NEW x \in Slots PROVE ~Late(x)'
  BY DEF Late
<1>. QED
  BY <1>1 DEF LateInv

-----------------------------------------------------------------------------
(* add: the handlers                                                       *)

\* A slot that is tracked anew has no block, no status and no data of its bank.
LEMMA TrackSlotStep ==
    ASSUME BankInv, StorageInv', NEW s \in Slots, Idle, TrackSlot(s),
           bank[s] = 0 \/ (s \notin tracked /\ ~Rejected(s)),
           UNCHANGED storageVars,
           bank' \in [Slots -> Nat],
           \A t \in Slots : t # s => bank'[t] = bank[t],
           notified' = [notified EXCEPT ![s] = {}],
           metaNotified' = metaNotified \ {s},
           popped' \in [Slots -> Nat],
           popped'[s] <= popped[s],
           \A t \in Slots : t # s => popped'[t] = popped[t]
    PROVE  BankInv'
<1>. USE DEF BankInv
<1>1. /\ ~gc_running /\ notices = {}
      /\ \A t \in Slots : ~ResetDue(t) /\ ~PruneDue(t) /\ ~FrozenDue(t) /\ ~Late(t)
  BY IdleFacts
<1>2. /\ tracked' = IF Rejected(s) THEN tracked ELSE tracked \cup {s}
      /\ UNCHANGED <<summarized, frozen, wanted, emitted, notices>>
      /\ UNCHANGED <<processing_slots, replayed_slot, slot_commitment_progression_map,
                     ready_queue, gc_running>>
  BY DEF TrackSlot, storageVars
<1>3. \A t \in Slots : /\ ResetDue(t)' <=> ResetDue(t)
                       /\ PruneDue(t)' <=> PruneDue(t)
                       /\ Rejected(t)' <=> Rejected(t)
  BY <1>2 DEF ResetDue, PruneDue, Rejected
<1>4. MachineOf(s) /\ BufferOf(s) /\ KeptOf(s) /\ QueueOf(s)
  BY DEF BankOf
<1>5. s \notin summarized /\ s \notin frozen /\ emitted[s] = 0
  <2>1. s \notin summarized /\ s \notin frozen /\ ~(emitted[s] > 0)
    BY <1>4 DEF MachineOf
  <2>. QED
    BY <2>1, Levels
<1>6. s \notin DOMAIN replayed_slot /\ s \notin DOMAIN slot_commitment_progression_map
  BY <1>1, <1>4, <1>5 DEF KeptOf
<1>7. BankTypeOK'
  <2>1. notified' \in [Slots -> SUBSET AllData]
    BY DEF BankTypeOK
  <2>. QED
    BY <1>2, <2>1 DEF BankTypeOK
<1>8. ASSUME NEW t \in Slots, t # s PROVE BankOf(t)' /\ QueueOf(t)'
  <2>1. SameMachine(t)
    BY <1>2, <1>3, <1>8 DEF SameMachine, BankTypeOK
  <2>2. SameBuffer(t) /\ SameBlock(t)
    BY <1>2 DEF SameBuffer, SameBlock
  <2>3. popped'[t] = popped[t] /\ BankOf(t) /\ QueueOf(t)
    BY <1>8
  <2>4. BankOf(t)'
    BY <2>1, <2>2, <2>3, SlotLeftAlone
  <2>5. QueueOf(t)'
    BY <1>2, <2>1, <2>3, QueueLeftAlone DEF SameMachine
  <2>. QED
    BY <2>4, <2>5
<1>9. notified'[s] = {} /\ s \notin metaNotified'
  BY DEF BankTypeOK
<1>10. BankOf(s)'
  <2>1. MachineOf(s)'
    BY <1>1, <1>2, <1>3, <1>4, <1>5, <1>9 DEF MachineOf
  <2>2. BufferOf(s)'
    <3>1. CASE s \notin DOMAIN processing_slots
      BY <1>2, <1>5, <1>9, <3>1 DEF BufferOf
    <3>2. CASE s \in DOMAIN processing_slots
      <4>1. s \in tracked /\ bank[s] = 0
        BY <1>1, <1>4, <3>2 DEF BufferOf
      <4>2. notified[s] = {} /\ s \notin metaNotified
        BY <1>4, <4>1 DEF MachineOf
      <4>3. HoldsBank(processing_slots[s], s)
        BY <1>1, <1>4, <1>5, <3>2, <4>1 DEF BufferOf
      <4>4. HoldsBank(processing_slots[s], s)'
        BY <1>2, <1>9, <4>2, <4>3 DEF HoldsBank, VersionsOf
      <4>. QED
        BY <1>2, <1>5, <3>2, <4>1, <4>4 DEF BufferOf
    <3>. QED
      BY <3>1, <3>2
  <2>3. KeptOf(s)'
    BY <1>2, <1>5, <1>6 DEF KeptOf
  <2>. QED
    BY <2>1, <2>2, <2>3 DEF BankOf
<1>11. QueueOf(s)'
  <2>1. \A i \in DOMAIN ready_queue : ready_queue[i].slot # s
    <3>1. SUFFICES ASSUME NEW i \in DOMAIN ready_queue, ready_queue[i].slot = s PROVE FALSE
      OBVIOUS
    <3>2. popped[s] < ready_queue[i].commitment /\ ready_queue[i].commitment <= 0
      BY <1>1, <1>4, <1>5, <3>1 DEF QueueOf
    <3>3. popped[s] \in Nat /\ ready_queue[i] \in QueueEntries
      BY DEF BankTypeOK
    <3>4. ready_queue[i].commitment \in Nat
      BY <3>3 DEF QueueEntries, CommitmentLevel, Processed, Finalized
    <3>. QED
      BY <3>2, <3>3, <3>4
  <2>2. emitted'[s] = 0 /\ popped'[s] \in Nat /\ popped'[s] <= 0
    <3>1. popped[s] <= 0 /\ popped[s] \in Nat
      BY <1>1, <1>4, <1>5 DEF QueueOf, BankTypeOK
    <3>. QED
      BY <1>2, <1>5, <3>1
  <2>. QED
    BY <1>2, <2>1, <2>2 DEF QueueOf
<1>12. TreeInv'
  BY <1>2 DEF TreeInv, Rejected
<1>13. LateInv'
  <2>1. \A t \in Slots : ~FrozenDue(t)'
    BY <1>1, <1>2, <1>5 DEF FrozenDue
  <2>. QED
    BY <1>1, <1>2, <1>5, <2>1, StaysOnTime
<1>. QED
  BY <1>7, <1>8, <1>10, <1>11, <1>12, <1>13

LEMMA FirstShredStep ==
    ASSUME BankInv, StorageInv', NEW s \in Slots, AddFirstShredReceived(s)
    PROVE  BankInv'
<1>1. /\ Idle /\ bank[s] = 0 /\ TrackSlot(s)
      /\ UNCHANGED storageVars /\ UNCHANGED <<bank, notified, metaNotified, popped>>
  BY DEF AddFirstShredReceived, envVars
<1>2. MachineOf(s) /\ BankTypeOK
  BY DEF BankInv, BankOf
<1>3. notified[s] = {} /\ s \notin metaNotified
  BY <1>1, <1>2 DEF MachineOf
<1>4. /\ notified' = [notified EXCEPT ![s] = {}] /\ metaNotified' = metaNotified \ {s}
      /\ popped'[s] <= popped[s]
  BY <1>1, <1>2, <1>3 DEF BankTypeOK
<1>. QED
  BY <1>1, <1>2, <1>4, TrackSlotStep DEF BankTypeOK

\* A second bank: until the reset is handled the slot is as new, apart from the four maps.
LEMMA ResetBankStep ==
    ASSUME BankInv, StorageInv', NEW s \in Slots, Idle, ResetBank(s),
           bank[s] > 0, s \in tracked, ~Rejected(s),
           UNCHANGED storageVars,
           bank' = [bank EXCEPT ![s] = @ + 1],
           notified' = [notified EXCEPT ![s] = {}],
           metaNotified' = metaNotified \ {s},
           popped' = [popped EXCEPT ![s] = 0]
    PROVE  BankInv'
<1>. USE DEF BankInv
<1>1. /\ ~gc_running /\ notices = {}
      /\ \A t \in Slots : ~ResetDue(t) /\ ~PruneDue(t) /\ ~FrozenDue(t) /\ ~Late(t)
  BY IdleFacts
<1>2. /\ notices' = notices \cup {Notice("BankReset", s)}
      /\ summarized' = summarized \ {s}
      /\ frozen' = frozen \ {s}
      /\ tracked' = tracked
      /\ UNCHANGED <<processing_slots, replayed_slot, slot_commitment_progression_map,
                     ready_queue, gc_running>>
  BY DEF ResetBank, storageVars
<1>3. /\ wanted'[s] = 0 /\ emitted'[s] = 0
      /\ \A t \in Slots : t # s => wanted'[t] = wanted[t] /\ emitted'[t] = emitted[t]
  BY DEF ResetBank, StorageInv, StorageTypeOK
<1>4. /\ bank' \in [Slots -> Nat] /\ notified' \in [Slots -> SUBSET AllData]
      /\ popped' \in [Slots -> Nat]
      /\ bank'[s] # 0 /\ notified'[s] = {} /\ popped'[s] = 0
      /\ \A t \in Slots : t # s => /\ bank'[t] = bank[t] /\ notified'[t] = notified[t]
                                   /\ popped'[t] = popped[t]
  BY DEF BankTypeOK
<1>5. /\ \A t \in Slots : ResetDue(t)' <=> t = s
      /\ \A t \in Slots : ~PruneDue(t)'
  BY <1>1, <1>2, NoticeFacts DEF ResetDue, PruneDue
<1>6. wanted[s] # Finalized
  BY DEF Rejected
<1>7. \A f \in Slots : wanted'[f] = Finalized <=> wanted[f] = Finalized
  BY <1>3, <1>6 DEF Finalized
<1>8. \A t \in Slots : Rejected(t)' <=> Rejected(t)
  BY <1>7 DEF Rejected
<1>9. MachineOf(s) /\ BufferOf(s) /\ KeptOf(s)
  BY DEF BankOf
<1>10. BankTypeOK'
  BY <1>2, <1>4 DEF BankTypeOK
<1>11. ASSUME NEW t \in Slots, t # s PROVE BankOf(t)' /\ QueueOf(t)'
  <2>1. SameMachine(t)
    BY <1>1, <1>2, <1>3, <1>4, <1>5, <1>8, <1>11 DEF SameMachine
  <2>2. SameBuffer(t) /\ SameBlock(t)
    BY <1>2 DEF SameBuffer, SameBlock
  <2>3. popped'[t] = popped[t] /\ BankOf(t) /\ QueueOf(t)
    BY <1>4, <1>11
  <2>4. BankOf(t)'
    BY <2>1, <2>2, <2>3, SlotLeftAlone
  <2>5. QueueOf(t)'
    BY <1>2, <2>1, <2>3, QueueLeftAlone DEF SameMachine
  <2>. QED
    BY <2>4, <2>5
<1>12. BankOf(s)'
  <2>1. MachineOf(s)'
    BY <1>2, <1>3, <1>4, <1>5 DEF MachineOf
  <2>2. BufferOf(s)'
    BY <1>2, <1>5 DEF BufferOf
  <2>3. KeptOf(s)'
    <3>1. s \in DOMAIN slot_commitment_progression_map =>
            /\ s \in DOMAIN replayed_slot
            /\ slot_commitment_progression_map[s].max_commitment # Finalized
      <4>1. emitted[s] # Finalized
        BY <1>6, <1>9, Levels DEF MachineOf
      <4>. QED
        BY <1>1, <1>9, <4>1 DEF KeptOf
    <3>. QED
      BY <1>2, <1>5, <3>1 DEF KeptOf
  <2>. QED
    BY <2>1, <2>2, <2>3 DEF BankOf
<1>13. QueueOf(s)'
  BY <1>5 DEF QueueOf
<1>14. TreeInv'
  <2>1. ASSUME NEW f \in Slots, wanted'[f] = Finalized
        PROVE  /\ \A a \in Ancestors[f] : wanted'[a] = Finalized
               /\ \A x \in tracked' : ~Conflict(f, x)
    <3>1. Ancestors[f] \subseteq Slots
      BY AncestorsClosed
    <3>. QED
      BY <1>2, <1>7, <2>1, <3>1 DEF TreeInv
  <2>. QED
    BY <2>1 DEF TreeInv
<1>15. LateInv'
  <2>1. \A t \in Slots : ~FrozenDue(t)'
    BY <1>1, <1>2 DEF FrozenDue
  <2>2. \A f \in Slots : emitted'[f] = Finalized => emitted[f] = Finalized
    BY <1>3 DEF Finalized
  <2>3. \A x \in Slots : x \in tracked' /\ x \in frozen' =>
            x \in tracked /\ x \in frozen /\ emitted'[x] = emitted[x]
    BY <1>2, <1>3
  <2>. QED
    BY <1>1, <2>1, <2>2, <2>3, StaysOnTime
<1>. QED
  BY <1>10, <1>11, <1>12, <1>13, <1>14, <1>15

LEMMA CreatedBankStep ==
    ASSUME BankInv, StorageInv', NEW s \in Slots, AddCreatedBank(s)
    PROVE  BankInv'
<1>1. /\ Idle /\ ~Rejected(s)
      /\ bank' = [bank EXCEPT ![s] = @ + 1]
      /\ notified' = [notified EXCEPT ![s] = {}]
      /\ metaNotified' = metaNotified \ {s}
      /\ popped' = [popped EXCEPT ![s] = 0]
      /\ UNCHANGED storageVars
  BY DEF AddCreatedBank
<1>2. bank \in [Slots -> Nat] /\ popped \in [Slots -> Nat]
  BY DEF BankInv, BankTypeOK
<1>3. CASE bank[s] > 0 /\ s \in tracked
  <2>1. ResetBank(s)
    BY <1>3 DEF AddCreatedBank
  <2>. QED
    BY <1>1, <1>3, <2>1, ResetBankStep
<1>4. CASE ~(bank[s] > 0 /\ s \in tracked)
  <2>1. TrackSlot(s)
    BY <1>4 DEF AddCreatedBank
  <2>2. bank[s] = 0 \/ (s \notin tracked /\ ~Rejected(s))
    BY <1>1, <1>2, <1>4
  <2>3. /\ bank' \in [Slots -> Nat] /\ popped' \in [Slots -> Nat]
        /\ \A t \in Slots : t # s => bank'[t] = bank[t]
        /\ \A t \in Slots : t # s => popped'[t] = popped[t]
        /\ popped'[s] <= popped[s]
    BY <1>1, <1>2
  <2>. QED
    BY <1>1, <2>1, <2>2, <2>3, TrackSlotStep
<1>. QED
  BY <1>3, <1>4

\* A dead slot was not summarized: its buffer is pruned by the notice.
LEMMA DeadStep ==
    ASSUME BankInv, StorageInv', NEW s \in Slots, AddDead(s)
    PROVE  BankInv'
<1>. USE DEF BankInv
<1>1. /\ ~gc_running /\ notices = {}
      /\ \A t \in Slots : ~ResetDue(t) /\ ~PruneDue(t) /\ ~FrozenDue(t) /\ ~Late(t)
  BY IdleFacts DEF AddDead
<1>2. /\ s \notin metaNotified
      /\ tracked' = tracked \ {s}
      /\ notices' = IF s \in tracked THEN {Notice("DeadSlotDetected", s)} ELSE {}
      /\ UNCHANGED <<summarized, frozen, wanted, emitted>>
      /\ UNCHANGED <<processing_slots, replayed_slot, slot_commitment_progression_map,
                     ready_queue, gc_running, bank, notified, metaNotified, popped>>
  BY <1>1 DEF AddDead, MarkDead, storageVars, envVars
<1>3. /\ \A t \in Slots : ~ResetDue(t)'
      /\ \A t \in Slots : PruneDue(t)' <=> t = s /\ s \in tracked
  BY <1>2, NoticeFacts DEF ResetDue, PruneDue
<1>4. \A t \in Slots : Rejected(t)' <=> Rejected(t)
  BY <1>2 DEF Rejected
<1>5. MachineOf(s) /\ BufferOf(s) /\ KeptOf(s)
  BY DEF BankOf
<1>6. BankTypeOK'
  BY <1>2 DEF BankTypeOK
<1>7. ASSUME NEW t \in Slots PROVE QueueOf(t)'
  BY <1>1, <1>2, <1>3, QueueLeftAlone
<1>8. ASSUME NEW t \in Slots, t # s PROVE BankOf(t)'
  <2>1. SameMachine(t)
    BY <1>1, <1>2, <1>3, <1>4, <1>8 DEF SameMachine
  <2>2. SameBuffer(t) /\ SameBlock(t) /\ popped'[t] = popped[t]
    BY <1>2 DEF SameBuffer, SameBlock
  <2>. QED
    BY <2>1, <2>2, SlotLeftAlone
<1>9. BankOf(s)'
  <2>0. s \notin summarized /\ s \notin frozen
    BY <1>2, <1>5 DEF MachineOf
  <2>1. MachineOf(s)'
    BY <1>2, <1>3, <1>5, <2>0 DEF MachineOf
  <2>2. BufferOf(s)'
    BY <1>1, <1>2, <1>3, <1>5 DEF BufferOf
  <2>3. KeptOf(s)'
    BY <1>1, <1>2, <1>3, <1>5 DEF KeptOf
  <2>. QED
    BY <2>1, <2>2, <2>3 DEF BankOf
<1>10. TreeInv'
  BY <1>2 DEF TreeInv
<1>11. LateInv'
  <2>1. \A t \in Slots : ~FrozenDue(t)'
    BY <1>1, <1>2 DEF FrozenDue
  <2>. QED
    BY <1>1, <1>2, <2>1, StaysOnTime
<1>. QED
  BY <1>6, <1>7, <1>8, <1>9, <1>10, <1>11

\* A commitment, and what finalizing a slot rules out.
LEMMA CommitmentStep ==
    ASSUME BankInv, StorageInv', NEW s \in Slots, NEW level \in CommitmentLevel,
           AddCommitment(s, level)
    PROVE  BankInv'
<1>. USE DEF BankInv
<1>1. /\ ~gc_running /\ notices = {}
      /\ \A t \in Slots : ~ResetDue(t) /\ ~PruneDue(t) /\ ~FrozenDue(t) /\ ~Late(t)
  BY IdleFacts DEF AddCommitment
<1>2. PICK forks : forks = IF level = Finalized THEN {t \in tracked : Conflict(s, t)} ELSE {}
  OBVIOUS
<1>3. /\ wanted[s] < level
      /\ wanted' = [t \in Slots |->
                      IF t \in {s} \cup Ancestors[s] /\ wanted[t] < level
                      THEN level ELSE wanted[t]]
      /\ tracked' = tracked \ forks
      /\ notices' = {Notice("ForksDetected", t) : t \in forks}
      /\ UNCHANGED <<summarized, frozen, emitted>>
      /\ UNCHANGED <<processing_slots, replayed_slot, slot_commitment_progression_map,
                     ready_queue, gc_running, bank, notified, metaNotified, popped>>
  BY <1>1, <1>2 DEF AddCommitment, ConsensusEvent, storageVars, envVars
<1>4. /\ \A t \in Slots : ~ResetDue(t)'
      /\ \A t \in Slots : PruneDue(t)' <=> t \in forks
  BY <1>3, NoticeFacts DEF ResetDue, PruneDue
<1>5. /\ level \in Nat /\ level <= 3 /\ Finalized = 3
      /\ \A t \in Slots : emitted[t] \in Nat /\ emitted[t] <= 3
      /\ \A t \in Slots : wanted[t] \in Nat /\ wanted[t] <= 3
  BY Levels DEF CommitmentLevel, Processed, Finalized
<1>6. /\ \A t \in Slots : wanted[t] <= wanted'[t]
      /\ \A t \in Slots : wanted[t] = Finalized => wanted'[t] = Finalized
      /\ \A t \in {s} \cup Ancestors[s] : level = Finalized => wanted'[t] = Finalized
      /\ \A t \in Slots : wanted'[t] = Finalized =>
            wanted[t] = Finalized \/ (level = Finalized /\ t \in {s} \cup Ancestors[s])
  <2>1. Ancestors[s] \subseteq Slots
    BY AncestorsClosed
  <2>. QED
    BY <1>3, <1>5, <2>1
<1>7. \A t \in Slots : Rejected(t) \/ t \in forks => Rejected(t)'
  BY <1>2, <1>6 DEF Rejected
<1>8. BankTypeOK'
  BY <1>3 DEF BankTypeOK
<1>9. ASSUME NEW t \in Slots PROVE QueueOf(t)'
  BY <1>1, <1>3, <1>4, QueueLeftAlone
<1>10. ASSUME NEW t \in Slots PROVE BankOf(t)'
  <2>0. MachineOf(t) /\ BufferOf(t) /\ KeptOf(t)
    BY DEF BankOf
  <2>1. MachineOf(t)'
    <3>1. emitted'[t] <= wanted'[t]
      BY <1>3, <1>5, <1>6, <2>0 DEF MachineOf, StorageInv, StorageTypeOK
    <3>2. t \in tracked \/ Rejected(t) => t \in tracked' \/ Rejected(t)'
      BY <1>3, <1>7
    <3>. QED
      BY <1>3, <1>4, <2>0, <3>1, <3>2 DEF MachineOf
  <2>2. BufferOf(t)'
    <3>1. ASSUME NEW buf, HoldsBank(buf, t) PROVE HoldsBank(buf, t)'
      BY <1>3, <3>1 DEF HoldsBank, VersionsOf
    <3>. QED
      BY <1>1, <1>3, <1>4, <2>0, <3>1 DEF BufferOf
  <2>3. KeptOf(t)'
    BY <1>1, <1>3, <1>4, <2>0 DEF KeptOf
  <2>. QED
    BY <2>1, <2>2, <2>3 DEF BankOf
<1>11. TreeInv'
  <2>1. ASSUME NEW f \in Slots, wanted'[f] = Finalized
        PROVE  /\ \A a \in Ancestors[f] : wanted'[a] = Finalized
               /\ \A x \in tracked' : ~Conflict(f, x)
    <3>0. Ancestors[f] \subseteq Slots
      BY AncestorsClosed
    <3>1. CASE wanted[f] = Finalized
      BY <1>3, <1>6, <3>0, <3>1 DEF TreeInv
    <3>2. CASE level = Finalized /\ f \in {s} \cup Ancestors[s]
      <4>1. Ancestors[f] \subseteq Ancestors[s]
        BY <3>2, AncestorsTransitive
      <4>2. ASSUME NEW x \in tracked', Conflict(f, x) PROVE FALSE
        <5>1. x \in Slots /\ x \in tracked /\ ~Conflict(s, x)
          BY <1>2, <1>3, <3>2 DEF StorageInv, StorageTypeOK
        <5>. QED
          BY <3>2, <4>2, <5>1, ConflictDown
      <4>. QED
        BY <1>6, <3>2, <4>1, <4>2
    <3>. QED
      BY <1>6, <2>1, <3>1, <3>2
  <2>. QED
    BY <2>1 DEF TreeInv
<1>12. LateInv'
  <2>1. \A t \in Slots : ~FrozenDue(t)'
    BY <1>1, <1>3 DEF FrozenDue
  <2>. QED
    BY <1>1, <1>3, <2>1, StaysOnTime
<1>. QED
  BY <1>8, <1>9, <1>10, <1>11, <1>12

-----------------------------------------------------------------------------
(* Buffers: what add_event, try_seal and seal do to a bank's data          *)

LEMMA DataFacts ==
    ASSUME NEW s \in Slots, NEW m \in BlockData(s)
    PROVE  /\ m.kind \in {"txn", "entry", "account"}
           /\ m.kind = "txn" <=> m \in Txns
           /\ m.kind = "entry" <=> m \in Entries
           /\ m.kind = "account" => /\ m.pubkey \in Pubkeys
                                    /\ m.write_version \in Nat /\ m.write_version >= 1
           /\ m \in AllData
<1>1. MaxWriteVersion[s] \in Nat
  BY StorageAssumption
<1>2. m \in AllData
  BY DEF AllData
<1>3. CASE m \in Txns
  BY <1>2, <1>3 DEF Txns, Entries
<1>4. CASE m \in Entries
  BY <1>2, <1>4 DEF Txns, Entries
<1>5. CASE m \in [kind : {"account"}, pubkey : Pubkeys, write_version : 1 .. MaxWriteVersion[s]]
  BY <1>1, <1>2, <1>5 DEF Txns, Entries
<1>. QED
  BY <1>3, <1>4, <1>5 DEF BlockData

LEMMA AddEventHolds ==
    ASSUME NEW s \in Slots, NEW m \in BlockData(s), NEW buf \in ProcessingSlots,
           HoldsBank(buf, s), m \notin notified[s],
           NEW new, new = AddEvent(buf, m)
    PROVE  /\ new \in ProcessingSlots
           /\ new.original_messages \in Seq(BlockData(s))
           /\ Injective(new.original_messages)
           /\ Elements(new.original_messages) = notified[s] \cup {m}
           /\ VersionsOf(new)
           /\ new.blockmeta = buf.blockmeta /\ new.is_sealed = buf.is_sealed
<1>. DEFINE q == buf.original_messages
            wv == buf.account_write_version_map
            v == IF m.kind = "account" /\ wv[m.pubkey] < m.write_version
                 THEN [wv EXCEPT ![m.pubkey] = m.write_version] ELSE wv
<1>1. /\ q \in Seq(BlockData(s)) /\ Injective(q) /\ Elements(q) = notified[s] /\ VersionsOf(buf)
      /\ wv \in [Pubkeys -> Nat] /\ buf.blockmeta \in BOOLEAN /\ buf.is_sealed \in BOOLEAN
  BY DEF HoldsBank, ProcessingSlots
<1>2. new = [original_messages |-> Append(q, m), account_write_version_map |-> v,
             blockmeta |-> buf.blockmeta, is_sealed |-> buf.is_sealed]
  BY DEF AddEvent, ProcessingSlots
<1>3. /\ m.kind = "account" => /\ m.pubkey \in Pubkeys
                               /\ m.write_version \in Nat /\ m.write_version >= 1
      /\ \A o \in BlockData(s) : o \in AllData
      /\ \A o \in BlockData(s) : o.kind = "account" =>
            o.pubkey \in Pubkeys /\ o.write_version \in Nat /\ o.write_version >= 1
  BY DataFacts
<1>4. v \in [Pubkeys -> Nat]
  BY <1>1, <1>3
<1>5. Append(q, m) \in Seq(BlockData(s)) /\ Append(q, m) \in Seq(AllData)
  <2>1. Append(q, m) \in Seq(BlockData(s))
    BY <1>1
  <2>2. q \in Seq(AllData) /\ m \in AllData
    BY <1>3 DEF ProcessingSlots
  <2>. QED
    BY <2>1, <2>2
<1>6. Elements(Append(q, m)) = notified[s] \cup {m}
  BY <1>1, ElementsAppend
<1>7. Injective(Append(q, m))
  <2>1. \A i \in DOMAIN q : q[i] # m
    BY <1>1 DEF Elements
  <2>2. /\ DOMAIN Append(q, m) = 1 .. Len(q) + 1 /\ DOMAIN q = 1 .. Len(q) /\ Len(q) \in Nat
        /\ \A i \in 1 .. Len(q) : Append(q, m)[i] = q[i]
        /\ Append(q, m)[Len(q) + 1] = m
    BY <1>1
  <2>. QED
    BY <1>1, <2>1, <2>2 DEF Injective
<1>8. /\ \A o \in notified[s] \cup {m} : o.kind = "account" => o.write_version <= v[o.pubkey]
      /\ \A p \in Pubkeys : v[p] # 0 =>
            \E o \in notified[s] \cup {m} :
                o.kind = "account" /\ o.pubkey = p /\ o.write_version = v[p]
  <2>1. /\ \A o \in notified[s] : o.kind = "account" => o.write_version <= wv[o.pubkey]
        /\ \A p \in Pubkeys : wv[p] # 0 =>
              \E o \in notified[s] : o.kind = "account" /\ o.pubkey = p /\ o.write_version = wv[p]
    BY <1>1 DEF VersionsOf
  <2>2. \A o \in notified[s] : o \in BlockData(s)
    BY <1>1 DEF Elements
  <2>3. CASE m.kind = "account" /\ wv[m.pubkey] < m.write_version
    <3>1. /\ v[m.pubkey] = m.write_version
          /\ \A p \in Pubkeys : p # m.pubkey => v[p] = wv[p]
      BY <1>1, <1>3, <2>3
    <3>. HIDE DEF v, wv
    <3>2. wv \in [Pubkeys -> Nat]
      BY <1>1
    <3>3. \A o \in notified[s] \cup {m} : o.kind = "account" => o.write_version <= v[o.pubkey]
      BY <1>3, <2>1, <2>2, <2>3, <3>1, <3>2
    <3>4. \A p \in Pubkeys : v[p] # 0 =>
            \E o \in notified[s] \cup {m} :
                o.kind = "account" /\ o.pubkey = p /\ o.write_version = v[p]
      BY <1>3, <2>1, <2>3, <3>1
    <3>. QED
      BY <3>3, <3>4
  <2>4. CASE ~(m.kind = "account" /\ wv[m.pubkey] < m.write_version)
    <3>1. v = wv
      BY <2>4
    <3>. HIDE DEF v, wv
    <3>2. wv \in [Pubkeys -> Nat]
      BY <1>1
    <3>3. m.kind = "account" => m.write_version <= wv[m.pubkey]
      BY <1>3, <2>4, <3>2
    <3>. QED
      BY <2>1, <3>1, <3>3
  <2>. QED
    BY <2>3, <2>4
<1>. HIDE DEF v
<1>9. /\ new.original_messages = Append(q, m) /\ new.account_write_version_map = v
      /\ new.blockmeta = buf.blockmeta /\ new.is_sealed = buf.is_sealed
  BY <1>2
<1>10. new \in ProcessingSlots
  BY <1>1, <1>2, <1>4, <1>5 DEF ProcessingSlots
<1>11. VersionsOf(new)
  BY <1>6, <1>8, <1>9 DEF VersionsOf
<1>. QED
  BY <1>5, <1>6, <1>7, <1>9, <1>10, <1>11

LEMMA NewSlotHolds ==
    ASSUME NEW s \in Slots, notified[s] = {}, s \notin summarized
    PROVE  NewProcessingSlot \in ProcessingSlots /\ HoldsBank(NewProcessingSlot, s)
<1>1. /\ NewProcessingSlot.original_messages = <<>>
      /\ NewProcessingSlot.account_write_version_map = [p \in Pubkeys |-> 0]
      /\ NewProcessingSlot.blockmeta = FALSE /\ NewProcessingSlot.is_sealed = FALSE
  BY DEF NewProcessingSlot
<1>2. NewProcessingSlot \in ProcessingSlots
  BY DEF NewProcessingSlot, ProcessingSlots
<1>3. Elements(<<>>) = {} /\ <<>> \in Seq(BlockData(s))
  BY DEF Elements
<1>4. VersionsOf(NewProcessingSlot)
  BY <1>1, <1>3 DEF VersionsOf
<1>. QED
  BY <1>1, <1>2, <1>3, <1>4 DEF HoldsBank, Injective

\* As many different messages of a kind as the block has are all of them.
LEMMA AllOfKind ==
    ASSUME NEW D, NEW q \in Seq(D), Injective(q), NEW kind, NEW n \in Nat,
           CountKind(q, kind) >= n,
           \A m \in Elements(q) : m.kind = kind => m \in [kind : {kind}, index : 1 .. n]
    PROVE  [kind : {kind}, index : 1 .. n] \subseteq Elements(q)
<1>. DEFINE I == {i \in DOMAIN q : q[i].kind = kind}
            f == [i \in I |-> q[i].index]
<1>1. \A i \in I : q[i] \in [kind : {kind}, index : 1 .. n] /\ q[i] \in Elements(q)
  BY DEF Elements
<1>2. f \in [I -> 1 .. n]
  BY <1>1
<1>3. ASSUME NEW i \in I, NEW j \in I, f[i] = f[j] PROVE i = j
  <2>1. q[i] = q[j]
    BY <1>1, <1>3
  <2>. QED
    BY <2>1 DEF Injective
<1>4. f \in Injection(I, 1 .. n)
  BY <1>2, <1>3 DEF Injection, IsInjective
<1>5. IsFiniteSet(1 .. n) /\ Cardinality(1 .. n) = n
  <2>1. 1 \in Int /\ n \in Int
    OBVIOUS
  <2>. QED
    BY <2>1, FS_Interval
<1>6. Cardinality(I) >= n
  BY DEF CountKind
<1>. HIDE DEF f, I
<1>7. IsFiniteSet(I) /\ Cardinality(I) <= n /\ Cardinality(I) \in Nat
  BY <1>4, <1>5, FS_Injection, FS_CardinalityType
<1>8. f \in Surjection(I, 1 .. n)
  <2>1. Cardinality(I) = Cardinality(1 .. n)
    BY <1>5, <1>6, <1>7
  <2>. QED
    BY <1>4, <1>5, <2>1, FS_Injection
<1>9. ASSUME NEW m \in [kind : {kind}, index : 1 .. n] PROVE m \in Elements(q)
  <2>1. PICK i \in I : f[i] = m.index
    BY <1>8 DEF Surjection
  <2>2. q[i] = m
    BY <1>1, <2>1 DEF f
  <2>. QED
    BY <1>1, <2>2
<1>. QED
  BY <1>9

\* try_seal waits for every transaction and every entry of the bank.
LEMMA SealableIsWhole ==
    ASSUME NEW s \in Slots, NEW buf, buf.original_messages \in Seq(BlockData(s)),
           Injective(buf.original_messages), Sealable(buf)
    PROVE  Txns \cup Entries \subseteq Elements(buf.original_messages)
<1>. DEFINE q == buf.original_messages
<1>1. \A m \in Elements(q) : m \in BlockData(s)
  BY DEF Elements
<1>2. \A m \in Elements(q) : /\ m.kind = "txn" => m \in Txns
                             /\ m.kind = "entry" => m \in Entries
  BY <1>1, DataFacts
<1>3. TxnCount \in Nat /\ EntryCount \in Nat
  BY StorageAssumption
<1>4. CountKind(q, "txn") >= TxnCount /\ CountKind(q, "entry") >= EntryCount
  BY DEF Sealable
<1>. HIDE DEF q
<1>5. q \in Seq(BlockData(s)) /\ Injective(q)
  BY DEF q
<1>6. Txns \subseteq Elements(q)
  BY <1>2, <1>3, <1>4, <1>5, AllOfKind DEF Txns
<1>7. Entries \subseteq Elements(q)
  BY <1>2, <1>3, <1>4, <1>5, AllOfKind DEF Entries
<1>. QED
  BY <1>6, <1>7 DEF q

\* seal leaves the transactions, the entries and the last update of each account.
LEMMA SealedBlock ==
    ASSUME NEW s \in Slots, NEW buf \in ProcessingSlots, HoldsBank(buf, s),
           Txns \cup Entries \subseteq notified[s], NEW b \in Nat
    PROVE  /\ Seal(buf, b) \in Blocks /\ Seal(buf, b).bank = b
           /\ Elements(Seal(buf, b).messages) = Txns \cup Entries \cup LatestAccounts(notified[s])
<1>. DEFINE q == buf.original_messages
            wv == buf.account_write_version_map
<1>1. /\ q \in Seq(AllData) /\ q \in Seq(BlockData(s)) /\ Elements(q) = notified[s]
      /\ wv \in [Pubkeys -> Nat]
      /\ \A o \in notified[s] : o.kind = "account" => o.write_version <= wv[o.pubkey]
      /\ \A p \in Pubkeys : wv[p] # 0 =>
            \E o \in notified[s] : o.kind = "account" /\ o.pubkey = p /\ o.write_version = wv[p]
  BY DEF HoldsBank, ProcessingSlots, VersionsOf
<1>2. PICK K : K = {i \in DOMAIN q : IsLatest(buf, q[i])}
  OBVIOUS
<1>3. PICK r : r = Retain(q, K)
  OBVIOUS
<1>4. Seal(buf, b) = [bank |-> b, messages |-> r]
  BY <1>2, <1>3 DEF Seal
<1>5. r \in Seq(AllData) /\ Elements(r) = {q[k] : k \in K}
  BY <1>1, <1>2, <1>3, RetainProperties
<1>6. \A m : m \in Elements(r) <=> m \in notified[s] /\ IsLatest(buf, m)
  <2>1. \A m : m \in notified[s] <=> \E i \in DOMAIN q : m = q[i]
    BY <1>1 DEF Elements
  <2>2. \A m : m \in Elements(r) <=> \E i \in K : m = q[i]
    BY <1>5
  <2>3. \A i : i \in K <=> i \in DOMAIN q /\ IsLatest(buf, q[i])
    BY <1>2
  <2>. HIDE DEF q
  <2>. QED
    BY <2>1, <2>2, <2>3
<1>7. \A m \in notified[s] : m \in BlockData(s)
  BY <1>1 DEF Elements
<1>8. \A m \in notified[s] :
        /\ m.kind \in {"txn", "entry", "account"}
        /\ m.kind = "txn" <=> m \in Txns
        /\ m.kind = "entry" <=> m \in Entries
        /\ m.kind = "account" => m.pubkey \in Pubkeys /\ m.write_version \in Nat /\ m.write_version >= 1
  BY <1>7, DataFacts
<1>9. \A m \in notified[s] : m.kind # "account" =>
        (IsLatest(buf, m) /\ m \in Txns \cup Entries)
  BY <1>8 DEF IsLatest
<1>10. \A m \in Txns \cup Entries : m \in notified[s] /\ m.kind # "account"
  BY <1>8
<1>11. ASSUME NEW m \in notified[s], m.kind = "account"
       PROVE  IsLatest(buf, m) <=> m \in LatestAccounts(notified[s])
  <2>1. m.pubkey \in Pubkeys /\ m.write_version \in Nat /\ m.write_version >= 1
    BY <1>8, <1>11
  <2>2. ASSUME IsLatest(buf, m) PROVE m \in LatestAccounts(notified[s])
    BY <1>1, <1>11, <2>2 DEF IsLatest, LatestAccounts
  <2>3. ASSUME m \in LatestAccounts(notified[s]) PROVE IsLatest(buf, m)
    <3>1. m.write_version <= wv[m.pubkey] /\ wv[m.pubkey] \in Nat
      BY <1>1, <1>11, <2>1
    <3>2. PICK o \in notified[s] : /\ o.kind = "account" /\ o.pubkey = m.pubkey
                                   /\ o.write_version = wv[m.pubkey]
      BY <1>1, <2>1, <3>1
    <3>3. o.write_version <= m.write_version
      BY <2>3, <3>2 DEF LatestAccounts
    <3>4. wv[m.pubkey] = m.write_version
      BY <2>1, <3>1, <3>2, <3>3
    <3>. QED
      BY <3>4 DEF IsLatest
  <2>. QED
    BY <2>2, <2>3
<1>12. Elements(r) = Txns \cup Entries \cup LatestAccounts(notified[s])
  <2>1. \A m \in LatestAccounts(notified[s]) : m \in notified[s] /\ m.kind = "account"
    BY DEF LatestAccounts
  <2>. QED
    BY <1>6, <1>9, <1>10, <1>11, <2>1
<1>. QED
  BY <1>4, <1>5, <1>12 DEF Blocks

\* try_seal with the buffer after a message: the summary goes with all the data.
LEMMA TrySealStep ==
    ASSUME BankInv, StorageInv', NEW s \in Slots, Idle, NEW buf \in ProcessingSlots,
           TrySeal(s, buf), s \in tracked, s \notin summarized, bank[s] > 0,
           UnchangedButProcessing, bank' = bank,
           notified' \in [Slots -> SUBSET AllData],
           \A t \in Slots : t # s => notified'[t] = notified[t],
           \A t \in Slots : t # s => (t \in metaNotified' <=> t \in metaNotified),
           buf.original_messages \in Seq(BlockData(s)),
           Injective(buf.original_messages),
           Elements(buf.original_messages) = notified'[s],
           VersionsOf(buf),
           buf.blockmeta => s \in metaNotified',
           ~buf.is_sealed
    PROVE  BankInv'
<1>. USE DEF BankInv
<1>1. /\ ~gc_running /\ notices = {}
      /\ \A t \in Slots : ~ResetDue(t) /\ ~PruneDue(t) /\ ~FrozenDue(t) /\ ~Late(t)
  BY IdleFacts
<1>2. UNCHANGED <<replayed_slot, slot_commitment_progression_map, ready_queue, gc_running, popped>>
  BY DEF UnchangedButProcessing
<1>3. PICK new : new = IF Sealable(buf) THEN [buf EXCEPT !.is_sealed = TRUE] ELSE buf
  OBVIOUS
<1>4. /\ UNCHANGED <<tracked, frozen, wanted, emitted, notices>>
      /\ summarized' = IF Sealable(buf) THEN summarized \cup {s} ELSE summarized
      /\ processing_slots' = Put(processing_slots, s, new)
  BY <1>3 DEF TrySeal, AcceptSummary, machineVars
<1>5. /\ DOMAIN processing_slots' = DOMAIN processing_slots \cup {s}
      /\ processing_slots'[s] = new
      /\ \A t \in DOMAIN processing_slots : t # s => processing_slots'[t] = processing_slots[t]
  <2>1. processing_slots' = Put(processing_slots, s, new)
    BY <1>4
  <2>. QED
    BY <2>1 DEF Put
<1>6. /\ new \in ProcessingSlots
      /\ new.original_messages = buf.original_messages
      /\ new.account_write_version_map = buf.account_write_version_map
      /\ new.blockmeta = buf.blockmeta
      /\ new.is_sealed <=> Sealable(buf)
  <2>1. CASE Sealable(buf)
    BY <1>3, <2>1 DEF ProcessingSlots
  <2>2. CASE ~Sealable(buf)
    BY <1>3, <2>2
  <2>. QED
    BY <2>1, <2>2
<1>7. \A t \in Slots : /\ ~ResetDue(t)' /\ ~PruneDue(t)'
                       /\ Rejected(t)' <=> Rejected(t)
  BY <1>1, <1>4 DEF ResetDue, PruneDue, Rejected
<1>8. MachineOf(s) /\ BufferOf(s) /\ KeptOf(s)
  BY DEF BankOf
<1>9. s \notin frozen
  BY <1>8 DEF MachineOf
<1>10. BankTypeOK'
  <2>1. MapInto(processing_slots, Slots, ProcessingSlots)'
    BY <1>5, <1>6 DEF BankTypeOK, MapInto
  <2>. QED
    BY <1>2, <2>1 DEF BankTypeOK
<1>11. ASSUME NEW t \in Slots PROVE QueueOf(t)'
  BY <1>1, <1>2, <1>4, <1>7, QueueLeftAlone
<1>12. ASSUME NEW t \in Slots, t # s PROVE BankOf(t)'
  <2>1. SameMachine(t)
    BY <1>1, <1>4, <1>7, <1>12 DEF SameMachine
  <2>2. SameBuffer(t)
    BY <1>5, <1>12 DEF SameBuffer
  <2>3. SameBlock(t) /\ popped'[t] = popped[t]
    BY <1>2 DEF SameBlock
  <2>. QED
    BY <2>1, <2>2, <2>3, SlotLeftAlone
<1>13. \A m \in notified'[s] : m \in BlockData(s)
  BY DEF Elements
<1>14. Sealable(buf) => s \in metaNotified' /\ Txns \cup Entries \subseteq notified'[s]
  BY SealableIsWhole DEF Sealable
<1>15. s \in summarized' <=> Sealable(buf)
  BY <1>4
<1>16. BankOf(s)'
  <2>1. MachineOf(s)'
    BY <1>4, <1>7, <1>8, <1>9, <1>13, <1>14, <1>15 DEF MachineOf
  <2>2. BufferOf(s)'
    <3>1. HoldsBank(new, s)'
      <4>1. VersionsOf(new)
        BY <1>6 DEF VersionsOf
      <4>2. VersionsOf(new)'
        BY <4>1 DEF VersionsOf
      <4>. QED
        BY <1>6, <1>15, <4>2 DEF HoldsBank
    <3>. QED
      BY <1>4, <1>5, <1>9, <3>1 DEF BufferOf
  <2>3. KeptOf(s)'
    BY <1>1, <1>2, <1>4, <1>7, <1>8, <1>9 DEF KeptOf
  <2>. QED
    BY <2>1, <2>2, <2>3 DEF BankOf
<1>17. TreeInv'
  BY <1>4 DEF TreeInv
<1>18. LateInv'
  <2>1. \A t \in Slots : FrozenDue(t)' => t = s
    BY <1>1, <1>4 DEF FrozenDue
  <2>. QED
    BY <1>1, <1>4, <2>1, StaysOnTime
<1>. QED
  BY <1>10, <1>11, <1>12, <1>16, <1>17, <1>18

\* The validator notifies nothing more of a bank that was summarized.
LEMMA BlockDataStep ==
    ASSUME BankInv, StorageInv', NEW s \in Slots, NEW m \in BlockData(s), AddBlockData(s, m)
    PROVE  BankInv'
<1>. USE DEF BankInv
<1>1. /\ Idle /\ bank[s] > 0 /\ m \notin notified[s]
      /\ m.kind = "account" => s \notin metaNotified
      /\ notified' = [notified EXCEPT ![s] = @ \cup {m}]
      /\ UnchangedButProcessing /\ bank' = bank /\ metaNotified' = metaNotified
  BY DEF AddBlockData, Notifiable
<1>2. /\ ~gc_running /\ notices = {}
      /\ \A t \in Slots : ~ResetDue(t) /\ ~PruneDue(t) /\ ~FrozenDue(t) /\ ~Late(t)
  BY <1>1, IdleFacts
<1>3. MachineOf(s) /\ BufferOf(s) /\ KeptOf(s)
  BY DEF BankOf
<1>4. s \notin summarized
  <2>1. m.kind = "account" \/ m \in Txns \/ m \in Entries
    BY DataFacts
  <2>. QED
    BY <1>1, <1>3, <2>1 DEF MachineOf
<1>5. s \notin frozen /\ s \notin DOMAIN replayed_slot
  BY <1>2, <1>3, <1>4 DEF MachineOf, KeptOf
<1>6. /\ notified' \in [Slots -> SUBSET AllData]
      /\ notified'[s] = notified[s] \cup {m}
      /\ \A t \in Slots : t # s => notified'[t] = notified[t]
  <2>1. m \in AllData
    BY DataFacts
  <2>. QED
    BY <1>1, <2>1 DEF BankTypeOK
<1>7. CASE s \in tracked
  <2>1. PICK buf : buf = IF s \in DOMAIN processing_slots
                         THEN processing_slots[s] ELSE NewProcessingSlot
    OBVIOUS
  <2>2. TrySeal(s, AddEvent(buf, m))
    BY <1>5, <1>7, <2>1 DEF AddBlockData
  <2>3. buf \in ProcessingSlots /\ HoldsBank(buf, s)
    <3>1. CASE s \in DOMAIN processing_slots
      BY <1>2, <1>3, <1>5, <1>7, <2>1, <3>1 DEF BufferOf, BankTypeOK, MapInto
    <3>2. CASE s \notin DOMAIN processing_slots
      <4>1. notified[s] = {}
        BY <1>2, <1>3, <1>5, <1>7, <3>2 DEF BufferOf
      <4>. QED
        BY <1>4, <2>1, <3>2, <4>1, NewSlotHolds
    <3>. QED
      BY <3>1, <3>2
  <2>4. PICK new : new = AddEvent(buf, m)
    OBVIOUS
  <2>5. /\ new \in ProcessingSlots
        /\ new.original_messages \in Seq(BlockData(s))
        /\ Injective(new.original_messages)
        /\ Elements(new.original_messages) = notified[s] \cup {m}
        /\ VersionsOf(new)
        /\ new.blockmeta = buf.blockmeta /\ new.is_sealed = buf.is_sealed
    BY <1>1, <2>3, <2>4, AddEventHolds
  <2>6. ~new.is_sealed /\ (new.blockmeta => s \in metaNotified')
    BY <1>1, <1>4, <2>3, <2>5 DEF HoldsBank
  <2>7. TrySeal(s, new)
    BY <2>2, <2>4
  <2>8. \A t \in Slots : t # s => (t \in metaNotified' <=> t \in metaNotified)
    BY <1>1
  <2>. QED
    BY <1>1, <1>4, <1>6, <1>7, <2>5, <2>6, <2>7, <2>8, TrySealStep
<1>8. CASE s \notin tracked
  <2>1. /\ UNCHANGED <<processing_slots, tracked, summarized, frozen, wanted, emitted, notices>>
        /\ UNCHANGED <<replayed_slot, slot_commitment_progression_map, ready_queue, gc_running,
                       popped>>
    BY <1>1, <1>8 DEF AddBlockData, machineVars, UnchangedButProcessing
  <2>2. \A t \in Slots : /\ ~ResetDue(t)' /\ ~PruneDue(t)'
                         /\ Rejected(t)' <=> Rejected(t)
    BY <1>2, <2>1 DEF ResetDue, PruneDue, Rejected
  <2>3. BankTypeOK'
    BY <1>1, <1>6, <2>1 DEF BankTypeOK
  <2>4. ASSUME NEW t \in Slots PROVE QueueOf(t)'
    BY <1>1, <1>2, <2>1, <2>2, QueueLeftAlone
  <2>5. ASSUME NEW t \in Slots, t # s PROVE BankOf(t)'
    <3>1. SameMachine(t)
      BY <1>1, <1>2, <1>6, <2>1, <2>2, <2>5 DEF SameMachine
    <3>2. SameBuffer(t) /\ SameBlock(t) /\ popped'[t] = popped[t]
      BY <2>1 DEF SameBuffer, SameBlock
    <3>. QED
      BY <3>1, <3>2, SlotLeftAlone
  <2>6. BankOf(s)'
    <3>1. MachineOf(s)'
      BY <1>1, <1>3, <1>4, <1>6, <2>1, <2>2 DEF MachineOf
    <3>2. BufferOf(s)'
      BY <1>2, <1>3, <1>8, <2>1 DEF BufferOf
    <3>3. KeptOf(s)'
      BY <1>3, <1>5, <1>8, <2>1 DEF KeptOf
    <3>. QED
      BY <3>1, <3>2, <3>3 DEF BankOf
  <2>7. TreeInv'
    BY <2>1 DEF TreeInv
  <2>8. LateInv'
    <3>1. \A t \in Slots : ~FrozenDue(t)'
      BY <1>2, <2>1 DEF FrozenDue
    <3>. QED
      BY <1>2, <2>1, <3>1, StaysOnTime
  <2>. QED
    BY <2>3, <2>4, <2>5, <2>6, <2>7, <2>8
<1>. QED
  BY <1>7, <1>8

LEMMA BlockMetaStep ==
    ASSUME BankInv, StorageInv', NEW s \in Slots, AddBlockMeta(s)
    PROVE  BankInv'
<1>. USE DEF BankInv
<1>1. /\ Idle /\ bank[s] > 0 /\ s \notin metaNotified
      /\ metaNotified' = metaNotified \cup {s}
      /\ UnchangedButProcessing /\ bank' = bank /\ notified' = notified
  BY DEF AddBlockMeta
<1>2. /\ ~gc_running /\ notices = {}
      /\ \A t \in Slots : ~ResetDue(t) /\ ~PruneDue(t) /\ ~FrozenDue(t) /\ ~Late(t)
  BY <1>1, IdleFacts
<1>3. MachineOf(s) /\ BufferOf(s) /\ KeptOf(s)
  BY DEF BankOf
<1>4. s \notin summarized /\ s \notin frozen
  BY <1>1, <1>3 DEF MachineOf
<1>5. notified' \in [Slots -> SUBSET AllData]
  BY <1>1 DEF BankTypeOK
<1>6. CASE s \in DOMAIN processing_slots
  <2>1. PICK buf : buf = processing_slots[s]
    OBVIOUS
  <2>2. PICK new : new = [buf EXCEPT !.blockmeta = TRUE]
    OBVIOUS
  <2>3. s \in tracked /\ buf \in ProcessingSlots /\ HoldsBank(buf, s)
    BY <1>2, <1>3, <1>4, <1>6, <2>1 DEF BufferOf, BankTypeOK, MapInto
  <2>4. /\ new \in ProcessingSlots
        /\ new.original_messages = buf.original_messages
        /\ new.account_write_version_map = buf.account_write_version_map
        /\ new.is_sealed = buf.is_sealed
    BY <2>2, <2>3 DEF ProcessingSlots
  <2>5. /\ new.original_messages \in Seq(BlockData(s))
        /\ Injective(new.original_messages)
        /\ Elements(new.original_messages) = notified'[s]
        /\ VersionsOf(new)
        /\ ~new.is_sealed
    BY <1>1, <1>4, <2>3, <2>4 DEF HoldsBank, VersionsOf
  <2>6. TrySeal(s, new)
    BY <1>6, <2>1, <2>2 DEF AddBlockMeta
  <2>7. \A t \in Slots : t # s => /\ t \in metaNotified' <=> t \in metaNotified
                                  /\ notified'[t] = notified[t]
    BY <1>1
  <2>8. s \in metaNotified'
    BY <1>1
  <2>. QED
    BY <1>1, <1>4, <1>5, <2>3, <2>4, <2>5, <2>6, <2>7, <2>8, TrySealStep
<1>7. CASE s \notin DOMAIN processing_slots
  <2>1. /\ UNCHANGED <<processing_slots, tracked, summarized, frozen, wanted, emitted, notices>>
        /\ UNCHANGED <<replayed_slot, slot_commitment_progression_map, ready_queue, gc_running,
                       popped>>
    BY <1>1, <1>7 DEF AddBlockMeta, machineVars, UnchangedButProcessing
  <2>2. \A t \in Slots : /\ ~ResetDue(t)' /\ ~PruneDue(t)'
                         /\ Rejected(t)' <=> Rejected(t)
    BY <1>2, <2>1 DEF ResetDue, PruneDue, Rejected
  <2>3. BankTypeOK'
    BY <1>1, <2>1 DEF BankTypeOK
  <2>4. ASSUME NEW t \in Slots PROVE QueueOf(t)'
    BY <1>1, <1>2, <2>1, <2>2, QueueLeftAlone
  <2>5. ASSUME NEW t \in Slots, t # s PROVE BankOf(t)'
    <3>1. SameMachine(t)
      BY <1>1, <1>2, <2>1, <2>2, <2>5 DEF SameMachine
    <3>2. SameBuffer(t) /\ SameBlock(t) /\ popped'[t] = popped[t]
      BY <2>1 DEF SameBuffer, SameBlock
    <3>. QED
      BY <3>1, <3>2, SlotLeftAlone
  <2>6. BankOf(s)'
    <3>1. MachineOf(s)'
      BY <1>1, <1>3, <1>4, <2>1, <2>2 DEF MachineOf
    <3>2. BufferOf(s)'
      BY <1>1, <1>2, <1>3, <1>7, <2>1 DEF BufferOf
    <3>3. KeptOf(s)'
      BY <1>1, <1>2, <1>3, <2>1, <2>2 DEF KeptOf
    <3>. QED
      BY <3>1, <3>2, <3>3 DEF BankOf
  <2>7. TreeInv'
    BY <2>1 DEF TreeInv
  <2>8. LateInv'
    <3>1. \A t \in Slots : ~FrozenDue(t)'
      BY <1>2, <2>1 DEF FrozenDue
    <3>. QED
      BY <1>2, <2>1, <3>1, StaysOnTime
  <2>. QED
    BY <2>3, <2>4, <2>5, <2>6, <2>7, <2>8
<1>. QED
  BY <1>6, <1>7

-----------------------------------------------------------------------------
(* The state machine's outputs                                             *)

\* What freezes is the sealed buffer of the current bank.
LEMMA FrozenStep ==
    ASSUME BankInv, StorageInv', NEW s \in Slots, OnFrozenBlock(s)
    PROVE  BankInv'
<1>. USE DEF BankInv
<1>1. /\ ~gc_running /\ FrozenDue(s)
      /\ s \in tracked /\ s \in summarized /\ s \notin frozen
      /\ frozen' = frozen \cup {s}
      /\ UNCHANGED <<tracked, summarized, wanted, emitted, notices>>
      /\ UNCHANGED <<slot_commitment_progression_map, ready_queue, gc_running, bank, notified,
                     metaNotified, popped>>
  BY DEF OnFrozenBlock, PopFrozen, FrozenDue, envVars
<1>2. MachineOf(s) /\ BufferOf(s) /\ KeptOf(s)
  BY DEF BankOf
<1>3. ~ResetDue(s) /\ ~PruneDue(s) /\ Txns \cup Entries \subseteq notified[s]
  BY <1>1, <1>2 DEF MachineOf
<1>4. s \in DOMAIN processing_slots /\ HoldsBank(processing_slots[s], s)
  BY <1>1, <1>2, <1>3 DEF BufferOf
<1>5. emitted[s] = 0
  BY <1>1, <1>2, Levels DEF MachineOf
<1>6. s \notin DOMAIN replayed_slot /\ s \notin DOMAIN slot_commitment_progression_map
  BY <1>1, <1>2, <1>3 DEF KeptOf
<1>7. PICK block : block = Seal(processing_slots[s], bank[s])
  OBVIOUS
<1>8. /\ block \in Blocks /\ block.bank = bank[s]
      /\ Elements(block.messages) = Txns \cup Entries \cup LatestAccounts(notified[s])
  <2>1. processing_slots[s] \in ProcessingSlots /\ bank[s] \in Nat
    BY <1>4 DEF BankTypeOK, MapInto
  <2>. QED
    BY <1>3, <1>4, <1>7, <2>1, SealedBlock
<1>9. /\ DOMAIN processing_slots' = DOMAIN processing_slots \ {s}
      /\ \A t \in DOMAIN processing_slots : t # s => processing_slots'[t] = processing_slots[t]
      /\ DOMAIN replayed_slot' = DOMAIN replayed_slot \cup {s}
      /\ replayed_slot'[s] = block
      /\ \A t \in DOMAIN replayed_slot : t # s => replayed_slot'[t] = replayed_slot[t]
  <2>1. /\ processing_slots' = Remove(processing_slots, s)
        /\ replayed_slot' = Put(replayed_slot, s, block)
    BY <1>4, <1>7 DEF OnFrozenBlock
  <2>. QED
    BY <2>1 DEF Remove, Put
<1>10. \A t \in Slots : /\ ResetDue(t)' <=> ResetDue(t)
                        /\ PruneDue(t)' <=> PruneDue(t)
                        /\ Rejected(t)' <=> Rejected(t)
  BY <1>1 DEF ResetDue, PruneDue, Rejected
<1>11. BankTypeOK'
  <2>1. MapInto(processing_slots, Slots, ProcessingSlots)'
    BY <1>9 DEF BankTypeOK, MapInto
  <2>2. MapInto(replayed_slot, Slots, Blocks)'
    BY <1>8, <1>9 DEF BankTypeOK, MapInto
  <2>. QED
    BY <1>1, <2>1, <2>2 DEF BankTypeOK
<1>12. ASSUME NEW t \in Slots PROVE QueueOf(t)'
  BY <1>1, <1>10, QueueLeftAlone
<1>13. ASSUME NEW t \in Slots, t # s PROVE BankOf(t)'
  <2>1. SameMachine(t)
    BY <1>1, <1>10, <1>13 DEF SameMachine
  <2>2. SameBuffer(t)
    BY <1>9, <1>13 DEF SameBuffer
  <2>3. SameBlock(t)
    BY <1>1, <1>9, <1>13 DEF SameBlock
  <2>. QED
    BY <1>1, <2>1, <2>2, <2>3, SlotLeftAlone
<1>14. BankOf(s)'
  <2>1. MachineOf(s)'
    BY <1>1, <1>2, <1>10 DEF MachineOf
  <2>2. BufferOf(s)'
    BY <1>1, <1>9 DEF BufferOf
  <2>3. KeptOf(s)'
    BY <1>1, <1>3, <1>5, <1>6, <1>8, <1>9, <1>10 DEF KeptOf
  <2>. QED
    BY <2>1, <2>2, <2>3 DEF BankOf
<1>15. TreeInv'
  BY <1>1 DEF TreeInv
<1>16. LateInv'
  <2>1. \A x \in Slots : ~Late(x) /\ (FrozenDue(x) => x = s)
    BY <1>1 DEF LateInv
  <2>2. \A x \in Slots : Late(x)' => x = s
    BY <1>1, <2>1 DEF Late
  <2>3. \A x \in Slots : ~FrozenDue(x)'
    BY <1>1, <2>1 DEF FrozenDue
  <2>. QED
    BY <1>1, <2>2, <2>3 DEF LateInv
<1>. QED
  BY <1>11, <1>12, <1>13, <1>14, <1>15, <1>16

\* A status is queued with the block it is about, which is still kept: only finalized
\* blocks are ever dropped from a tracked slot.
LEMMA StatusStep ==
    ASSUME BankInv, StorageInv', NEW s \in Slots, OnSlotStatus(s)
    PROVE  BankInv'
<1>. USE DEF BankInv
<1>. DEFINE prog == slot_commitment_progression_map
<1>1. PICK level : level = emitted[s] + 1
  OBVIOUS
<1>2. /\ ~gc_running /\ StatusDue(s)
      /\ emitted' = [emitted EXCEPT ![s] = level]
      /\ prog' = Progress(prog, s, level)
      /\ ready_queue' = IF s \in DOMAIN replayed_slot
                        THEN Append(ready_queue, [slot |-> s, commitment |-> level,
                                                  block |-> replayed_slot[s]])
                        ELSE ready_queue
      /\ gc_running' = (level = Finalized)
      /\ UNCHANGED <<processing_slots, replayed_slot, tracked, summarized, frozen, wanted, notices,
                     bank, notified, metaNotified, popped>>
  BY <1>1 DEF OnSlotStatus, PopStatus, envVars
<1>3. /\ \A t \in Slots : emitted[t] \in Nat /\ emitted[t] <= 3
      /\ \A t \in Slots : wanted[t] \in Nat /\ wanted[t] <= 3
      /\ Finalized = 3
  BY Levels
<1>4. /\ s \in tracked /\ s \in frozen /\ emitted[s] < wanted[s]
      /\ \A a \in Ancestors[s] : a \in tracked /\ a \in frozen => emitted[a] > emitted[s]
  BY <1>2 DEF StatusDue
<1>5. /\ level \in CommitmentLevel /\ level \in Nat /\ level <= 3 /\ level > 0
      /\ level <= wanted[s]
      /\ emitted'[s] = level
      /\ \A t \in Slots : t # s => emitted'[t] = emitted[t]
  <2>1. level \in Nat /\ level <= 3 /\ level > 0 /\ level <= wanted[s]
    BY <1>1, <1>3, <1>4
  <2>. QED
    BY <1>2, <2>1 DEF CommitmentLevel, Processed, Finalized, StorageInv, StorageTypeOK
<1>6. MachineOf(s) /\ BufferOf(s) /\ KeptOf(s)
  BY DEF BankOf
<1>7. ~ResetDue(s) /\ s \in summarized
  BY <1>4, <1>6 DEF MachineOf
<1>8. s \in DOMAIN replayed_slot /\ replayed_slot[s] \in Blocks
  <2>1. emitted[s] # Finalized
    BY <1>3, <1>4
  <2>2. s \in DOMAIN replayed_slot
    BY <1>4, <1>6, <2>1 DEF KeptOf
  <2>. QED
    BY <2>2 DEF BankTypeOK, MapInto
<1>9. /\ DOMAIN prog' = DOMAIN prog \cup {s}
      /\ \A x \in DOMAIN prog \ {s} : prog'[x] = prog[x]
      /\ prog'[s].max_commitment = level
  <2>1. MapInto(prog, Slots, SlotProgression)
    BY DEF StorageInv, StorageTypeOK
  <2>2. Progressed(prog, s, level, prog')
    BY <1>2, <1>5, <2>1, ProgressProperties
  <2>3. s \in DOMAIN prog => ~(prog[s].max_commitment >= level)
    BY <1>1, <1>3, <1>6, <1>7 DEF KeptOf
  <2>. QED
    BY <2>2, <2>3 DEF Progressed
<1>. HIDE DEF prog
<1>10. PICK e : e = [slot |-> s, commitment |-> level, block |-> replayed_slot[s]]
  OBVIOUS
<1>11. /\ ready_queue' = Append(ready_queue, e)
       /\ e \in QueueEntries /\ e.slot = s /\ e.commitment = level
       /\ e.block.bank = bank[s]
  <2>1. replayed_slot[s].bank = bank[s]
    BY <1>6, <1>7, <1>8 DEF KeptOf
  <2>. QED
    BY <1>2, <1>5, <1>8, <1>10, <2>1 DEF QueueEntries
<1>12. \A t \in Slots : /\ ResetDue(t)' <=> ResetDue(t)
                        /\ PruneDue(t)' <=> PruneDue(t)
                        /\ Rejected(t)' <=> Rejected(t)
  BY <1>2 DEF ResetDue, PruneDue, Rejected
<1>13. BankTypeOK'
  <2>1. ready_queue' \in Seq(QueueEntries)
    BY <1>11 DEF BankTypeOK
  <2>. QED
    BY <1>2, <2>1 DEF BankTypeOK
<1>14. ASSUME NEW t \in Slots, t # s PROVE BankOf(t)'
  <2>1. SameMachine(t)
    BY <1>2, <1>5, <1>12, <1>14 DEF SameMachine
  <2>2. SameBuffer(t)
    BY <1>2 DEF SameBuffer
  <2>3. SameBlock(t)
    BY <1>2, <1>9, <1>14 DEF SameBlock, prog
  <2>. QED
    BY <1>2, <2>1, <2>2, <2>3, SlotLeftAlone
<1>15. BankOf(s)'
  <2>1. MachineOf(s)'
    BY <1>2, <1>4, <1>5, <1>6, <1>12 DEF MachineOf
  <2>2. BufferOf(s)'
    BY <1>2, <1>4, <1>6, <1>12 DEF BufferOf
  <2>3. KeptOf(s)'
    BY <1>2, <1>4, <1>5, <1>6, <1>7, <1>8, <1>9, <1>12 DEF KeptOf, prog
  <2>. QED
    BY <2>1, <2>2, <2>3 DEF BankOf
<1>16. ASSUME NEW t \in Slots PROVE QueueOf(t)'
  <2>1. PICK n \in Nat : /\ DOMAIN ready_queue = 1 .. n
                         /\ DOMAIN ready_queue' = 1 .. n + 1
                         /\ \A i \in 1 .. n : ready_queue'[i] = ready_queue[i]
                         /\ ready_queue'[n + 1] = e
    <3>1. ready_queue \in Seq(QueueEntries)
      BY DEF BankTypeOK
    <3>. QED
      BY <1>11, <3>1
  <2>2. QueueOf(t) /\ popped'[t] = popped[t] /\ bank'[t] = bank[t] /\ popped[t] \in Nat
    BY <1>2 DEF BankTypeOK
  <2>3. \A i \in DOMAIN ready_queue : ready_queue[i].commitment \in Nat
    <3>1. \A i \in DOMAIN ready_queue : ready_queue[i] \in QueueEntries
      BY DEF BankTypeOK
    <3>. QED
      BY <3>1 DEF QueueEntries, CommitmentLevel, Processed, Finalized
  <2>4. CASE t # s
    BY <1>5, <1>11, <1>12, <2>1, <2>2, <2>4 DEF QueueOf
  <2>5. CASE t = s
    <3>0. /\ popped[s] <= emitted[s]
          /\ \A i \in 1 .. n : ready_queue[i].slot = s =>
                /\ popped[s] < ready_queue[i].commitment
                /\ ready_queue[i].commitment <= emitted[s]
                /\ ready_queue[i].block.bank = bank[s]
          /\ \A c \in popped[s] + 1 .. emitted[s] : \E i \in 1 .. n :
                ready_queue[i].slot = s /\ ready_queue[i].commitment = c
          /\ \A i, j \in 1 .. n :
                ready_queue[i].slot = s /\ ready_queue[j].slot = s /\ i < j =>
                    ready_queue[i].commitment < ready_queue[j].commitment
      BY <1>7, <2>1, <2>2, <2>5 DEF QueueOf
    <3>2. \A i \in 1 .. n + 1 : ready_queue'[i].slot = s =>
              /\ popped[s] < ready_queue'[i].commitment
              /\ ready_queue'[i].commitment <= level
              /\ ready_queue'[i].block.bank = bank[s]
      BY <1>1, <1>3, <1>5, <1>11, <2>1, <2>2, <2>3, <2>5, <3>0
    <3>3. \A c \in popped[s] + 1 .. level : \E i \in 1 .. n + 1 :
              ready_queue'[i].slot = s /\ ready_queue'[i].commitment = c
      <4>1. SUFFICES ASSUME NEW c \in popped[s] + 1 .. level
                     PROVE  \E i \in 1 .. n + 1 : ready_queue'[i].slot = s /\ ready_queue'[i].commitment = c
        OBVIOUS
      <4>2. CASE c = level
        BY <1>11, <2>1, <4>2
      <4>3. CASE c # level
        <5>1. c \in popped[s] + 1 .. emitted[s]
          BY <1>1, <1>3, <2>2, <2>5, <4>3
        <5>. QED
          BY <2>1, <3>0, <5>1
      <4>. QED
        BY <4>2, <4>3
    <3>4. \A i, j \in 1 .. n + 1 :
              ready_queue'[i].slot = s /\ ready_queue'[j].slot = s /\ i < j =>
                  ready_queue'[i].commitment < ready_queue'[j].commitment
      <4>1. SUFFICES ASSUME NEW i \in 1 .. n + 1, NEW j \in 1 .. n + 1, i < j,
                            ready_queue'[i].slot = s, ready_queue'[j].slot = s
                     PROVE  ready_queue'[i].commitment < ready_queue'[j].commitment
        OBVIOUS
      <4>2. i \in 1 .. n /\ ready_queue'[i] = ready_queue[i]
        BY <2>1, <4>1
      <4>3. CASE j = n + 1
        <5>1. ready_queue[i].commitment <= emitted[s] /\ ready_queue[i].commitment \in Nat
          BY <2>1, <2>3, <3>0, <4>1, <4>2
        <5>. QED
          BY <1>1, <1>3, <1>11, <2>1, <4>2, <4>3, <5>1
      <4>4. CASE j \in 1 .. n
        BY <2>1, <3>0, <4>1, <4>2, <4>4
      <4>. QED
        BY <4>3, <4>4
    <3>5. /\ popped'[t] = popped[s] /\ emitted'[t] = level /\ bank'[t] = bank[s]
          /\ DOMAIN ready_queue' = 1 .. n + 1
      BY <1>5, <2>1, <2>2, <2>5
    <3>6. popped'[t] <= emitted'[t]
      BY <1>1, <1>3, <2>2, <2>5, <3>0, <3>5
    <3>. QED
      BY <2>5, <3>2, <3>3, <3>4, <3>5, <3>6 DEF QueueOf
  <2>. QED
    BY <2>4, <2>5
<1>17. TreeInv'
  BY <1>2 DEF TreeInv
<1>18. LateInv'
  <2>1. \A x \in Slots : FrozenDue(x)' <=> FrozenDue(x)
    BY <1>2 DEF FrozenDue
  <2>2. CASE level # Finalized
    <3>1. \A x \in Slots : Late(x)' <=> Late(x)
      <4>1. \A f \in Slots : /\ emitted'[f] = Finalized <=> emitted[f] = Finalized
                             /\ emitted'[f] < Finalized <=> emitted[f] < Finalized
        BY <1>1, <1>3, <1>5, <2>2
      <4>. QED
        BY <1>2, <4>1 DEF Late
    <3>. QED
      BY <1>2, <2>1, <2>2, <3>1 DEF LateInv
  <2>3. CASE level = Finalized
    <3>1. ASSUME NEW x \in Slots, Late(x)' PROVE FALSE
      <4>0. /\ x \in tracked /\ x \in frozen /\ emitted'[x] < Finalized
            /\ x \in Nat /\ s \in Nat
        BY <1>2, <3>1, SlotsAssumption DEF Late
      <4>1. x # s /\ emitted[x] < Finalized /\ emitted[s] < Finalized
        BY <1>1, <1>3, <1>5, <2>3, <4>0
      <4>2. ~(x < s)
        <5>1. SUFFICES ASSUME x < s PROVE FALSE
          OBVIOUS
        <5>2. wanted[s] = Finalized
          BY <1>3, <1>5, <2>3
        <5>3. x \in Ancestors[s]
          BY <4>0, <5>1, <5>2, LateIsAncestor
        <5>4. emitted[x] > emitted[s]
          BY <1>4, <4>0, <5>3
        <5>. QED
          BY <1>1, <1>3, <2>3, <4>1, <5>4
      <4>3. PICK f \in Slots : x < f /\ emitted'[f] = Finalized
        BY <3>1 DEF Late
      <4>4. f \in Nat /\ s < f /\ f # s
        BY <4>0, <4>1, <4>2, <4>3, SlotsAssumption
      <4>5. emitted[f] = Finalized
        BY <1>5, <4>3, <4>4
      <4>6. Late(x) /\ Late(s)
        BY <1>4, <4>0, <4>1, <4>3, <4>4, <4>5 DEF Late
      <4>. QED
        BY <4>1, <4>6 DEF LateInv
    <3>. QED
      BY <2>1, <3>1 DEF LateInv
  <2>. QED
    BY <2>2, <2>3
<1>. QED
  BY <1>13, <1>14, <1>15, <1>16, <1>17, <1>18

\* prune_slot clears a slot out of the three maps and touches no other slot.
LEMMA Pruned ==
    ASSUME BankTypeOK, NEW s, PruneSlot(s)
    PROVE  /\ s \notin DOMAIN processing_slots' /\ s \notin DOMAIN replayed_slot'
           /\ s \notin DOMAIN slot_commitment_progression_map'
           /\ \A t \in Slots : t # s => SameBuffer(t) /\ SameBlock(t)
           /\ MapInto(processing_slots, Slots, ProcessingSlots)'
           /\ MapInto(replayed_slot, Slots, Blocks)'
<1>1. /\ processing_slots' = Remove(processing_slots, s)
      /\ replayed_slot' = Remove(replayed_slot, s)
      /\ slot_commitment_progression_map' = Remove(slot_commitment_progression_map, s)
  BY DEF PruneSlot
<1>2. /\ DOMAIN processing_slots' = DOMAIN processing_slots \ {s}
      /\ \A t \in DOMAIN processing_slots \ {s} : processing_slots'[t] = processing_slots[t]
      /\ DOMAIN replayed_slot' = DOMAIN replayed_slot \ {s}
      /\ \A t \in DOMAIN replayed_slot \ {s} : replayed_slot'[t] = replayed_slot[t]
      /\ DOMAIN slot_commitment_progression_map' = DOMAIN slot_commitment_progression_map \ {s}
      /\ \A t \in DOMAIN slot_commitment_progression_map \ {s} :
            slot_commitment_progression_map'[t] = slot_commitment_progression_map[t]
  BY <1>1, RemoveProperties
<1>3. \A t \in Slots : t # s => SameBuffer(t) /\ SameBlock(t)
  BY <1>2 DEF SameBuffer, SameBlock
<1>4. MapInto(processing_slots, Slots, ProcessingSlots)' /\ MapInto(replayed_slot, Slots, Blocks)'
  BY <1>2 DEF BankTypeOK, MapInto
<1>. QED
  BY <1>2, <1>3, <1>4

\* A notice is about a slot and of a kind.
LEMMA NoticeShape ==
    ASSUME StorageInv, NEW n \in notices
    PROVE  n.slot \in Slots /\ n.kind \in NoticeKinds /\ n = Notice(n.kind, n.slot)
BY DEF StorageInv, StorageTypeOK, Notice

LEMMA ForkOrDeadStep ==
    ASSUME BankInv, StorageInv', NEW n \in notices, OnForkOrDead(n)
    PROVE  BankInv'
<1>. USE DEF BankInv
<1>1. PICK s \in Slots : s = n.slot
  BY NoticeShape
<1>2. /\ ~gc_running /\ PruneSlot(s)
      /\ n.kind \in {"ForksDetected", "DeadSlotDetected"}
      /\ n = Notice(n.kind, s)
      /\ notices' = notices \ {n}
      /\ UNCHANGED <<tracked, summarized, frozen, wanted, emitted>>
      /\ UNCHANGED <<ready_queue, gc_running, bank, notified, metaNotified, popped>>
  BY <1>1, NoticeShape DEF OnForkOrDead, PopNotice, envVars
<1>3. /\ s \notin DOMAIN processing_slots' /\ s \notin DOMAIN replayed_slot'
      /\ s \notin DOMAIN slot_commitment_progression_map'
      /\ \A t \in Slots : t # s => SameBuffer(t) /\ SameBlock(t)
      /\ MapInto(processing_slots, Slots, ProcessingSlots)'
      /\ MapInto(replayed_slot, Slots, Blocks)'
  BY <1>2, Pruned
<1>4. /\ \A t \in Slots : ResetDue(t)' <=> ResetDue(t)
      /\ \A t \in Slots : PruneDue(t)' => PruneDue(t)
      /\ \A t \in Slots : t # s => (PruneDue(t)' <=> PruneDue(t))
      /\ PruneDue(s)
  BY <1>2, NoticeFacts DEF ResetDue, PruneDue
<1>5. \A t \in Slots : Rejected(t)' <=> Rejected(t)
  BY <1>2 DEF Rejected
<1>6. MachineOf(s)
  BY DEF BankOf
<1>7. s \notin tracked
  BY <1>4, <1>6 DEF MachineOf
<1>8. BankTypeOK'
  BY <1>2, <1>3 DEF BankTypeOK
<1>9. ASSUME NEW t \in Slots PROVE QueueOf(t)'
  BY <1>2, <1>4, QueueLeftAlone
<1>10. ASSUME NEW t \in Slots, t # s PROVE BankOf(t)'
  <2>1. SameMachine(t)
    BY <1>2, <1>4, <1>5, <1>10 DEF SameMachine
  <2>. QED
    BY <1>2, <1>3, <1>10, <2>1, SlotLeftAlone
<1>11. BankOf(s)'
  <2>1. MachineOf(s)'
    BY <1>2, <1>4, <1>5, <1>6 DEF MachineOf
  <2>2. BufferOf(s)'
    BY <1>2, <1>3, <1>7 DEF BufferOf
  <2>3. KeptOf(s)'
    BY <1>2, <1>3, <1>7 DEF KeptOf
  <2>. QED
    BY <2>1, <2>2, <2>3 DEF BankOf
<1>12. TreeInv'
  BY <1>2 DEF TreeInv
<1>13. LateInv'
  BY <1>2 DEF LateInv, Late, FrozenDue
<1>. QED
  BY <1>8, <1>9, <1>10, <1>11, <1>12, <1>13

\* slot_reset: nothing of the old bank is left, in the maps or in the queue.
LEMMA BankResetStep ==
    ASSUME BankInv, StorageInv', NEW n \in notices, OnBankReset(n)
    PROVE  BankInv'
<1>. USE DEF BankInv
<1>1. PICK s \in Slots : s = n.slot
  BY NoticeShape
<1>2. PICK K : K = {i \in DOMAIN ready_queue : ready_queue[i].slot # s}
  OBVIOUS
<1>3. /\ ~gc_running /\ PruneSlot(s)
      /\ n = Notice("BankReset", s)
      /\ notices' = notices \ {n}
      /\ ready_queue' = Retain(ready_queue, K)
      /\ UNCHANGED <<tracked, summarized, frozen, wanted, emitted>>
      /\ UNCHANGED <<gc_running, bank, notified, metaNotified, popped>>
  BY <1>1, <1>2, NoticeShape DEF OnBankReset, PopNotice, envVars
<1>4. /\ s \notin DOMAIN processing_slots' /\ s \notin DOMAIN replayed_slot'
      /\ s \notin DOMAIN slot_commitment_progression_map'
      /\ \A t \in Slots : t # s => SameBuffer(t) /\ SameBlock(t)
      /\ MapInto(processing_slots, Slots, ProcessingSlots)'
      /\ MapInto(replayed_slot, Slots, Blocks)'
  BY <1>3, Pruned
<1>5. /\ \A t \in Slots : t # s => (ResetDue(t)' <=> ResetDue(t))
      /\ \A t \in Slots : PruneDue(t)' <=> PruneDue(t)
      /\ ResetDue(s) /\ ~ResetDue(s)'
  BY <1>3, NoticeFacts DEF ResetDue, PruneDue
<1>6. \A t \in Slots : Rejected(t)' <=> Rejected(t)
  BY <1>3 DEF Rejected
<1>7. MachineOf(s)
  BY DEF BankOf
<1>8. /\ s \notin summarized /\ s \notin frozen /\ notified[s] = {} /\ popped[s] = 0
      /\ emitted[s] = 0
  BY <1>5, <1>7, Levels DEF MachineOf
<1>9. /\ ready_queue \in Seq(QueueEntries)
      /\ K \in SUBSET DOMAIN ready_queue
      /\ \A i \in DOMAIN ready_queue : i \in K <=> ready_queue[i].slot # s
  BY <1>2 DEF BankTypeOK
<1>10. PICK r : r = Retain(ready_queue, K)
  OBVIOUS
<1>11. r \in Seq(QueueEntries) /\ ready_queue' = r /\ InOrder(r, ready_queue, K)
  BY <1>3, <1>9, <1>10, RetainProperties
<1>12. PICK h \in [DOMAIN r -> K] :
         /\ \A j \in DOMAIN r : r[j] = ready_queue[h[j]]
         /\ \A i, j \in DOMAIN r : i < j => h[i] < h[j]
         /\ \A k \in K : \E j \in DOMAIN r : h[j] = k
  BY <1>11 DEF InOrder
<1>13. BankTypeOK'
  BY <1>3, <1>4, <1>11 DEF BankTypeOK
<1>14. ASSUME NEW t \in Slots, t # s PROVE QueueOf(t)'
  <2>1. SUFFICES ASSUME ~ResetDue(t)' PROVE QueueOf(t)'
    BY DEF QueueOf
  <2>2. /\ popped[t] <= emitted[t]
        /\ \A i \in DOMAIN ready_queue : ready_queue[i].slot = t =>
              /\ popped[t] < ready_queue[i].commitment
              /\ ready_queue[i].commitment <= emitted[t]
              /\ ready_queue[i].block.bank = bank[t]
        /\ \A c \in popped[t] + 1 .. emitted[t] : \E i \in DOMAIN ready_queue :
              ready_queue[i].slot = t /\ ready_queue[i].commitment = c
        /\ \A i, j \in DOMAIN ready_queue :
              ready_queue[i].slot = t /\ ready_queue[j].slot = t /\ i < j =>
                  ready_queue[i].commitment < ready_queue[j].commitment
    BY <1>5, <1>14, <2>1 DEF QueueOf
  <2>3. \A j \in DOMAIN r : h[j] \in DOMAIN ready_queue
    BY <1>9, <1>12
  <2>4. \A j \in DOMAIN r : r[j].slot = t =>
              /\ popped[t] < r[j].commitment
              /\ r[j].commitment <= emitted[t]
              /\ r[j].block.bank = bank[t]
    BY <1>12, <2>2, <2>3
  <2>5. ASSUME NEW c \in popped[t] + 1 .. emitted[t]
        PROVE  \E j \in DOMAIN r : r[j].slot = t /\ r[j].commitment = c
    <3>1. PICK i \in DOMAIN ready_queue : ready_queue[i].slot = t /\ ready_queue[i].commitment = c
      BY <2>2
    <3>2. i \in K
      BY <1>9, <1>14, <3>1
    <3>3. PICK j \in DOMAIN r : h[j] = i
      BY <1>12, <3>2
    <3>. QED
      BY <1>12, <3>1, <3>3
  <2>6. ASSUME NEW i \in DOMAIN r, NEW j \in DOMAIN r, r[i].slot = t, r[j].slot = t, i < j
        PROVE  r[i].commitment < r[j].commitment
    BY <1>12, <2>2, <2>3, <2>6
  <2>. QED
    BY <1>3, <1>11, <2>2, <2>4, <2>5, <2>6 DEF QueueOf
<1>15. QueueOf(s)'
  <2>1. \A j \in DOMAIN r : r[j].slot # s
    BY <1>9, <1>12
  <2>2. popped'[s] = 0 /\ emitted'[s] = 0
    BY <1>3, <1>8
  <2>. QED
    BY <1>11, <2>1, <2>2 DEF QueueOf
<1>16. ASSUME NEW t \in Slots, t # s PROVE BankOf(t)'
  <2>1. SameMachine(t)
    BY <1>3, <1>5, <1>6, <1>16 DEF SameMachine
  <2>. QED
    BY <1>3, <1>4, <1>16, <2>1, SlotLeftAlone
<1>17. BankOf(s)'
  <2>1. MachineOf(s)'
    BY <1>3, <1>5, <1>6, <1>7 DEF MachineOf
  <2>2. BufferOf(s)'
    BY <1>3, <1>4, <1>8 DEF BufferOf
  <2>3. KeptOf(s)'
    BY <1>3, <1>4, <1>8 DEF KeptOf
  <2>. QED
    BY <2>1, <2>2, <2>3 DEF BankOf
<1>18. TreeInv'
  BY <1>3 DEF TreeInv
<1>19. LateInv'
  BY <1>3 DEF LateInv, Late, FrozenDue
<1>. QED
  BY <1>13, <1>14, <1>15, <1>16, <1>17, <1>18, <1>19

\* gc drops the oldest block kept, at or below a finalized one: no slot is late, so
\* the block was finalized or its slot is not tracked any more.
LEMMA GcPruneBankStep ==
    ASSUME BankInv, StorageInv', GcPrune
    PROVE  BankInv'
<1>. USE DEF BankInv
<1>1. PICK s : s = FirstKey(DOMAIN replayed_slot)
  OBVIOUS
<1>2. /\ gc_running /\ PruneSlot(s)
      /\ num_buffered_finalized_slot > MinimumFinalizedSlotToBuffer
      /\ UNCHANGED <<tracked, summarized, frozen, wanted, emitted, notices>>
      /\ UNCHANGED <<ready_queue, gc_running, bank, notified, metaNotified, popped>>
  BY <1>1 DEF GcPrune, GcPruning, machineVars, envVars
<1>3. PICK f \in FinalizedSlots : TRUE
  <2>1. num_buffered_finalized_slot = Cardinality(FinalizedSlots)
    BY DEF StorageInv, FinalizedCountExact
  <2>2. num_buffered_finalized_slot > 0
    BY <1>2, StorageAssumption DEF StorageInv, StorageTypeOK
  <2>3. FinalizedSlots # {}
    BY <2>1, <2>2, FS_EmptySet
  <2>. QED
    BY <2>3
<1>4. /\ f \in Slots /\ f \in DOMAIN slot_commitment_progression_map
      /\ slot_commitment_progression_map[f].max_commitment = Finalized
  BY <1>3 DEF FinalizedSlots, StorageInv, StorageTypeOK, MapInto
<1>5. KeptOf(f)
  BY <1>4 DEF BankOf
<1>6. f \in DOMAIN replayed_slot /\ emitted[f] = Finalized
  BY <1>4, <1>5 DEF KeptOf
<1>7. s \in DOMAIN replayed_slot /\ s \in Slots /\ s <= f
  <2>1. DOMAIN replayed_slot \in SUBSET Nat /\ DOMAIN replayed_slot \subseteq Slots
    BY SlotsAssumption DEF StorageInv, StorageTypeOK
  <2>. QED
    BY <1>1, <1>6, <2>1, FirstKeyProperties
<1>8. s \in tracked /\ s \in frozen => emitted[s] = Finalized
  <2>1. ~Late(s)
    BY <1>2, <1>7 DEF LateInv
  <2>2. CASE s = f
    BY <1>6, <2>2
  <2>3. CASE s < f
    <3>1. s \in tracked /\ s \in frozen => ~(emitted[s] < Finalized)
      BY <1>4, <1>6, <2>1, <2>3 DEF Late
    <3>. QED
      BY <1>7, <3>1, Levels
  <2>. QED
    BY <1>4, <1>7, <2>2, <2>3, SlotsAssumption
<1>9. /\ s \notin DOMAIN processing_slots' /\ s \notin DOMAIN replayed_slot'
      /\ s \notin DOMAIN slot_commitment_progression_map'
      /\ \A t \in Slots : t # s => SameBuffer(t) /\ SameBlock(t)
      /\ MapInto(processing_slots, Slots, ProcessingSlots)'
      /\ MapInto(replayed_slot, Slots, Blocks)'
  BY <1>2, Pruned
<1>10. \A t \in Slots : /\ ResetDue(t)' <=> ResetDue(t)
                        /\ PruneDue(t)' <=> PruneDue(t)
                        /\ Rejected(t)' <=> Rejected(t)
  BY <1>2 DEF ResetDue, PruneDue, Rejected
<1>11. BankTypeOK'
  BY <1>2, <1>9 DEF BankTypeOK
<1>12. ASSUME NEW t \in Slots PROVE QueueOf(t)'
  BY <1>2, <1>10, QueueLeftAlone
<1>13. ASSUME NEW t \in Slots, t # s PROVE BankOf(t)'
  <2>1. SameMachine(t)
    BY <1>2, <1>10 DEF SameMachine
  <2>. QED
    BY <1>2, <1>9, <1>13, <2>1, SlotLeftAlone
<1>14. BankOf(s)'
  <2>0. MachineOf(s) /\ BufferOf(s) /\ KeptOf(s)
    BY <1>7 DEF BankOf
  <2>1. MachineOf(s)'
    BY <1>2, <1>7, <1>10, <2>0 DEF MachineOf
  <2>2. BufferOf(s)'
    BY <1>2, <1>7, <1>9, <1>10, <2>0 DEF BufferOf, KeptOf
  <2>3. KeptOf(s)'
    BY <1>2, <1>8, <1>9 DEF KeptOf
  <2>. QED
    BY <2>1, <2>2, <2>3 DEF BankOf
<1>15. TreeInv'
  BY <1>2 DEF TreeInv
<1>16. LateInv'
  BY <1>2 DEF LateInv, Late, FrozenDue
<1>. QED
  BY <1>11, <1>12, <1>13, <1>14, <1>15, <1>16

LEMMA GcDoneBankStep ==
    ASSUME BankInv, StorageInv', GcDone
    PROVE  BankInv'
<1>. USE DEF BankInv
<1>1. PICK done : /\ tracked' = tracked \ done
                  /\ \A t \in done : emitted[t] = Finalized
  BY DEF GcDone, MachineGc
<1>2. /\ gc_running' = FALSE
      /\ UNCHANGED <<summarized, frozen, wanted, emitted, notices>>
      /\ UNCHANGED <<processing_slots, replayed_slot, slot_commitment_progression_map,
                     ready_queue, bank, notified, metaNotified, popped>>
  BY DEF GcDone, MachineGc, envVars
<1>3. \A t \in Slots : /\ ResetDue(t)' <=> ResetDue(t)
                       /\ PruneDue(t)' <=> PruneDue(t)
                       /\ Rejected(t)' <=> Rejected(t)
  BY <1>2 DEF ResetDue, PruneDue, Rejected
<1>4. BankTypeOK'
  BY <1>2 DEF BankTypeOK
<1>5. ASSUME NEW t \in Slots PROVE QueueOf(t)'
  BY <1>2, <1>3, QueueLeftAlone
<1>6. ASSUME NEW t \in Slots PROVE BankOf(t)'
  <2>0. MachineOf(t) /\ BufferOf(t) /\ KeptOf(t) /\ BankOf(t)
    BY DEF BankOf
  <2>1. CASE t \notin done
    <3>1. SameMachine(t) /\ SameBuffer(t) /\ SameBlock(t) /\ popped'[t] = popped[t]
      BY <1>1, <1>2, <1>3, <2>1 DEF SameMachine, SameBuffer, SameBlock
    <3>. QED
      BY <2>0, <3>1, SlotLeftAlone
  <2>2. CASE t \in done
    <3>1. t \in frozen /\ t \in summarized /\ wanted[t] = Finalized
      BY <1>1, <2>0, <2>2, Levels DEF MachineOf
    <3>2. Rejected(t)' /\ t \notin tracked' /\ ~ResetDue(t)
      BY <1>1, <1>2, <2>0, <2>2, <3>1 DEF Rejected, MachineOf
    <3>3. MachineOf(t)'
      BY <1>2, <1>3, <2>0, <3>2 DEF MachineOf
    <3>4. BufferOf(t)'
      BY <1>2, <2>0, <3>1, <3>2 DEF BufferOf
    <3>5. KeptOf(t)'
      BY <1>2, <1>3, <2>0, <3>2 DEF KeptOf
    <3>. QED
      BY <3>3, <3>4, <3>5 DEF BankOf
  <2>. QED
    BY <2>1, <2>2
<1>7. TreeInv'
  BY <1>1, <1>2 DEF TreeInv
<1>8. LateInv'
  <2>1. \A x \in Slots : /\ Late(x)' => Late(x)
                         /\ FrozenDue(x)' => FrozenDue(x)
    BY <1>1, <1>2 DEF Late, FrozenDue
  <2>. QED
    BY <1>2, <2>1 DEF LateInv
<1>. QED
  BY <1>4, <1>5, <1>6, <1>7, <1>8

-----------------------------------------------------------------------------

\* pop_ready_block takes the next status of its slot.
LEMMA PopReadyStep ==
    ASSUME BankInv, StorageInv', PopReadyBlock
    PROVE  BankInv'
<1>. USE DEF BankInv
<1>1. /\ Idle /\ ready_queue # <<>>
      /\ popped' = [popped EXCEPT ![Head(ready_queue).slot] = Head(ready_queue).commitment]
      /\ ready_queue' = Tail(ready_queue)
      /\ UNCHANGED <<tracked, summarized, frozen, wanted, emitted, notices>>
      /\ UNCHANGED <<bank, notified, metaNotified, processing_slots, replayed_slot,
                     slot_commitment_progression_map, gc_running>>
  BY DEF PopReadyBlock, machineVars, envVars
<1>2. /\ ~gc_running /\ notices = {}
      /\ \A t \in Slots : ~ResetDue(t) /\ ~PruneDue(t) /\ ~FrozenDue(t) /\ ~Late(t)
  BY <1>1, IdleFacts
<1>3. ready_queue \in Seq(QueueEntries)
  BY DEF BankTypeOK
<1>4. PICK n \in Nat : /\ DOMAIN ready_queue = 1 .. n + 1
                       /\ DOMAIN ready_queue' = 1 .. n
                       /\ \A i \in 1 .. n : ready_queue'[i] = ready_queue[i + 1]
                       /\ Head(ready_queue) = ready_queue[1]
                       /\ ready_queue' \in Seq(QueueEntries)
  <2>1. Len(ready_queue) \in Nat /\ Len(ready_queue) # 0
    BY <1>1, <1>3
  <2>2. PICK n \in Nat : Len(ready_queue) = n + 1
    BY <2>1
  <2>. QED
    BY <1>1, <1>3, <2>2
<1>5. PICK head : head = ready_queue[1]
  OBVIOUS
<1>6. PICK s : s = head.slot
  OBVIOUS
<1>7. PICK c : c = head.commitment
  OBVIOUS
<1>8. \A i \in 1 .. n + 1 : /\ ready_queue[i] \in QueueEntries
                            /\ ready_queue[i].slot \in Slots
                            /\ ready_queue[i].commitment \in Nat
  <2>1. \A i \in 1 .. n + 1 : ready_queue[i] \in QueueEntries
    BY <1>3, <1>4
  <2>. QED
    BY <2>1 DEF QueueEntries, CommitmentLevel, Processed, Finalized
<1>9. s \in Slots /\ c \in Nat /\ ready_queue[1].slot = s /\ ready_queue[1].commitment = c
  BY <1>5, <1>6, <1>7, <1>8
<1>10. /\ popped' \in [Slots -> Nat] /\ popped'[s] = c
       /\ \A t \in Slots : t # s => popped'[t] = popped[t]
       /\ \A t \in Slots : popped[t] \in Nat /\ emitted[t] \in Nat
  BY <1>1, <1>4, <1>5, <1>6, <1>7, <1>9, Levels DEF BankTypeOK
<1>11. \A t \in Slots : /\ ~ResetDue(t)' /\ ~PruneDue(t)'
                        /\ Rejected(t)' <=> Rejected(t)
  BY <1>1, <1>2 DEF ResetDue, PruneDue, Rejected
<1>12. BankTypeOK'
  BY <1>1, <1>4, <1>10 DEF BankTypeOK
<1>13. ASSUME NEW t \in Slots PROVE BankOf(t)'
  <2>1. SameMachine(t) /\ SameBuffer(t) /\ SameBlock(t)
    BY <1>1, <1>2, <1>11 DEF SameMachine, SameBuffer, SameBlock
  <2>. QED
    BY <1>2, <2>1, SlotLeftAlone
<1>14. ASSUME NEW t \in Slots
       PROVE  /\ popped[t] <= emitted[t]
              /\ \A i \in 1 .. n + 1 : ready_queue[i].slot = t =>
                    /\ popped[t] < ready_queue[i].commitment
                    /\ ready_queue[i].commitment <= emitted[t]
                    /\ ready_queue[i].block.bank = bank[t]
              /\ \A d \in popped[t] + 1 .. emitted[t] : \E i \in 1 .. n + 1 :
                    ready_queue[i].slot = t /\ ready_queue[i].commitment = d
              /\ \A i, j \in 1 .. n + 1 :
                    ready_queue[i].slot = t /\ ready_queue[j].slot = t /\ i < j =>
                        ready_queue[i].commitment < ready_queue[j].commitment
  <2>1. PICK D : D = DOMAIN ready_queue /\ D = 1 .. n + 1
    BY <1>4
  <2>2. QueueOf(t) /\ ~ResetDue(t)
    BY <1>2
  <2>3. /\ popped[t] <= emitted[t]
        /\ \A i \in D : ready_queue[i].slot = t =>
              /\ popped[t] < ready_queue[i].commitment
              /\ ready_queue[i].commitment <= emitted[t]
              /\ ready_queue[i].block.bank = bank[t]
        /\ \A d \in popped[t] + 1 .. emitted[t] : \E i \in D :
              ready_queue[i].slot = t /\ ready_queue[i].commitment = d
        /\ \A i, j \in D :
              ready_queue[i].slot = t /\ ready_queue[j].slot = t /\ i < j =>
                  ready_queue[i].commitment < ready_queue[j].commitment
    BY <2>1, <2>2 DEF QueueOf
  <2>. QED
    BY <2>1, <2>3, Zenon
<1>15. ASSUME NEW t \in Slots PROVE QueueOf(t)'
  <2>0. popped[t] \in Nat /\ emitted[t] \in Nat /\ popped'[t] \in Nat
    BY <1>10
  <2>1. popped'[t] = IF t = s THEN c ELSE popped[t]
    BY <1>10
  <2>2. popped[t] <= popped'[t] /\ popped'[t] <= emitted[t]
    BY <1>4, <1>9, <1>14, <2>0, <2>1
  <2>3. \A i \in 1 .. n : /\ i + 1 \in 1 .. n + 1 /\ 1 < i + 1 /\ 1 \in 1 .. n + 1
                          /\ ready_queue'[i] = ready_queue[i + 1]
    BY <1>4
  <2>4. ASSUME NEW i \in 1 .. n, ready_queue'[i].slot = t
        PROVE  /\ popped'[t] < ready_queue'[i].commitment
               /\ ready_queue'[i].commitment <= emitted[t]
               /\ ready_queue'[i].block.bank = bank[t]
    <3>1. ready_queue[i + 1].slot = t /\ i + 1 \in 1 .. n + 1
      BY <2>3, <2>4
    <3>2. CASE t # s
      BY <1>14, <2>1, <2>3, <3>1, <3>2
    <3>3. CASE t = s
      <4>1. ready_queue[1].commitment < ready_queue[i + 1].commitment
        BY <1>9, <1>14, <2>3, <3>1, <3>3
      <4>. QED
        BY <1>9, <1>14, <2>1, <2>3, <3>1, <3>3, <4>1
    <3>. QED
      BY <3>2, <3>3
  <2>5. ASSUME NEW d \in popped'[t] + 1 .. emitted[t]
        PROVE  \E i \in 1 .. n : ready_queue'[i].slot = t /\ ready_queue'[i].commitment = d
    <3>1. d \in popped[t] + 1 .. emitted[t] /\ d > popped'[t] /\ d \in Nat
      BY <2>0, <2>2
    <3>2. PICK i \in 1 .. n + 1 : ready_queue[i].slot = t /\ ready_queue[i].commitment = d
      BY <1>14, <3>1
    <3>3. i # 1
      BY <1>9, <2>0, <2>1, <3>1, <3>2
    <3>4. PICK j \in 1 .. n : i = j + 1
      <4>1. i - 1 \in 1 .. n /\ i = (i - 1) + 1
        BY <3>3
      <4>. QED
        BY <4>1
    <3>. QED
      BY <2>3, <3>2, <3>4
  <2>6. ASSUME NEW i \in 1 .. n, NEW j \in 1 .. n, ready_queue'[i].slot = t,
               ready_queue'[j].slot = t, i < j
        PROVE  ready_queue'[i].commitment < ready_queue'[j].commitment
    <3>1. i + 1 < j + 1 /\ i + 1 \in 1 .. n + 1 /\ j + 1 \in 1 .. n + 1
      BY <2>6
    <3>2. ready_queue[i + 1].slot = t /\ ready_queue[j + 1].slot = t
      BY <2>3, <2>6
    <3>3. ready_queue[i + 1].commitment < ready_queue[j + 1].commitment
      BY <1>14, <3>1, <3>2
    <3>. QED
      BY <2>3, <3>3
  <2>. QED
    BY <1>1, <1>4, <2>2, <2>4, <2>5, <2>6 DEF QueueOf
<1>16. TreeInv'
  BY <1>1 DEF TreeInv
<1>17. LateInv'
  <2>1. \A t \in Slots : ~FrozenDue(t)'
    BY <1>1, <1>2 DEF FrozenDue
  <2>. QED
    BY <1>1, <1>2, <2>1, StaysOnTime
<1>. QED
  BY <1>12, <1>13, <1>15, <1>16, <1>17

LEMMA StutterBankInv ==
    ASSUME BankInv, StorageInv', UNCHANGED vars
    PROVE  BankInv'
<1>. USE DEF BankInv
<1>1. /\ UNCHANGED <<tracked, summarized, frozen, wanted, emitted, notices>>
      /\ UNCHANGED <<processing_slots, replayed_slot, slot_commitment_progression_map,
                     ready_queue, gc_running, bank, notified, metaNotified, popped>>
  BY DEF vars, machineVars, storageVars, envVars
<1>2. \A t \in Slots : /\ ResetDue(t)' <=> ResetDue(t)
                       /\ PruneDue(t)' <=> PruneDue(t)
                       /\ Rejected(t)' <=> Rejected(t)
  BY <1>1 DEF ResetDue, PruneDue, Rejected
<1>3. ASSUME NEW t \in Slots PROVE BankOf(t)' /\ QueueOf(t)'
  <2>1. SameMachine(t) /\ SameBuffer(t) /\ SameBlock(t) /\ popped'[t] = popped[t]
    BY <1>1, <1>2 DEF SameMachine, SameBuffer, SameBlock
  <2>2. BankOf(t)'
    BY <2>1, SlotLeftAlone
  <2>3. QueueOf(t)'
    BY <1>1, <1>2, QueueLeftAlone
  <2>. QED
    BY <2>2, <2>3
<1>4. BankTypeOK' /\ TreeInv'
  BY <1>1 DEF BankTypeOK, TreeInv
<1>5. LateInv'
  BY <1>1 DEF LateInv, Late, FrozenDue
<1>. QED
  BY <1>3, <1>4, <1>5

LEMMA NextKeepsBankInv == BankInv /\ [Next]_vars => BankInv'
<1>. SUFFICES ASSUME BankInv, [Next]_vars PROVE BankInv'
  OBVIOUS
<1>1. StorageInv'
  BY NextKeepsStorageInv DEF BankInv
<1>2. ASSUME NEW s \in Slots, AddMessage(s) PROVE BankInv'
  BY <1>1, <1>2, FirstShredStep, CreatedBankStep, DeadStep, CommitmentStep, BlockDataStep,
     BlockMetaStep DEF AddMessage
<1>3. CASE OnOutput
  BY <1>1, <1>3, FrozenStep, StatusStep, ForkOrDeadStep, BankResetStep, GcPruneBankStep,
     GcDoneBankStep DEF OnOutput
<1>4. CASE PopReadyBlock
  BY <1>1, <1>4, PopReadyStep
<1>5. CASE UNCHANGED vars
  BY <1>1, <1>5, StutterBankInv
<1>. QED
  BY <1>2, <1>3, <1>4, <1>5 DEF Next

\* The invariant of a bank's life holds in every reachable state.
THEOREM BankInvariant == Spec => []BankInv
BY InitBankInv, NextKeepsBankInv, PTL DEF Spec

\* Once a reset has been handled no block of the dumped bank is replayed or waits to be
\* broadcast, and nothing is kept that could not be cleaned up any more.
THEOREM NothingEverOutlivesItsBank == Spec => []NothingOutlivesItsBank
<1>1. BankInv => NothingOutlivesItsBank
  <2>. SUFFICES ASSUME BankInv PROVE NothingOutlivesItsBank
    OBVIOUS
  <2>. USE DEF BankInv
  <2>1. ASSUME NEW i \in DOMAIN ready_queue
        PROVE  \/ ResetDue(ready_queue[i].slot)
               \/ ready_queue[i].block.bank = bank[ready_queue[i].slot]
    <3>0. ready_queue[i] \in QueueEntries
      BY DEF BankTypeOK
    <3>1. PICK s \in Slots : s = ready_queue[i].slot
      BY <3>0 DEF QueueEntries
    <3>2. QueueOf(s)
      OBVIOUS
    <3>. QED
      BY <3>1, <3>2 DEF QueueOf
  <2>2. ASSUME NEW s \in DOMAIN replayed_slot
        PROVE  ResetDue(s) \/ replayed_slot[s].bank = bank[s]
    BY DEF BankOf, KeptOf, BankTypeOK, MapInto
  <2>3. ASSUME Idle
        PROVE  /\ DOMAIN slot_commitment_progression_map \subseteq DOMAIN replayed_slot
               /\ DOMAIN processing_slots \subseteq tracked \ DOMAIN replayed_slot
    <3>1. \A s \in Slots : ~ResetDue(s) /\ ~PruneDue(s)
      BY <2>3, IdleFacts
    <3>2. /\ DOMAIN slot_commitment_progression_map \subseteq Slots
          /\ DOMAIN processing_slots \subseteq Slots
      BY DEF StorageInv, StorageTypeOK, BankTypeOK, MapInto
    <3>. QED
      BY <3>1, <3>2 DEF BankOf, BufferOf, KeptOf
  <2>. QED
    BY <2>1, <2>2, <2>3 DEF NothingOutlivesItsBank
<1>. QED
  BY <1>1, BankInvariant, PTL

\* The queue holds, for the current bank of each slot, every status that was emitted
\* and not popped, once and in order: gc drops no block whose statuses are still to come.
THEOREM ReadyAlwaysInOrder == Spec => []ReadyInOrder
<1>1. BankInv => ReadyInOrder
  <2>. SUFFICES ASSUME BankInv, NEW s \in Slots, ~ResetDue(s)
                PROVE  LET queued == {i \in DOMAIN ready_queue : ready_queue[i].slot = s}
                       IN  /\ {ready_queue[i].commitment : i \in queued}
                                = popped[s] + 1 .. emitted[s]
                           /\ \A i, j \in queued : i < j =>
                                 ready_queue[i].commitment < ready_queue[j].commitment
                           /\ \A level \in CommitmentLevel :
                                 s \in ReplayFromSlot(s, level) <=>
                                     s \in DOMAIN replayed_slot /\ emitted[s] >= level
    BY DEF ReadyInOrder
  <2>. USE DEF BankInv
  <2>1. PICK queued : queued = {i \in DOMAIN ready_queue : ready_queue[i].slot = s}
    OBVIOUS
  <2>2. QueueOf(s) /\ KeptOf(s)
    BY DEF BankOf
  <2>3. popped[s] \in Nat /\ emitted[s] \in Nat /\ emitted[s] <= 3
    BY Levels DEF BankTypeOK
  <2>4. \A i \in queued : /\ i \in DOMAIN ready_queue /\ ready_queue[i].slot = s
                          /\ ready_queue[i].commitment \in Nat
    <3>1. \A i \in DOMAIN ready_queue : ready_queue[i] \in QueueEntries
      BY DEF BankTypeOK
    <3>. QED
      BY <2>1, <3>1 DEF QueueEntries, CommitmentLevel, Processed, Finalized
  <2>5. \A i \in queued : ready_queue[i].commitment \in popped[s] + 1 .. emitted[s]
    BY <2>2, <2>3, <2>4 DEF QueueOf
  <2>6. \A c \in popped[s] + 1 .. emitted[s] : \E i \in queued : ready_queue[i].commitment = c
    BY <2>1, <2>2 DEF QueueOf
  <2>7. {ready_queue[i].commitment : i \in queued} = popped[s] + 1 .. emitted[s]
    BY <2>5, <2>6
  <2>8. \A i, j \in queued : i < j => ready_queue[i].commitment < ready_queue[j].commitment
    BY <2>2, <2>4 DEF QueueOf
  <2>9. ASSUME NEW level \in CommitmentLevel
        PROVE  s \in ReplayFromSlot(s, level) <=>
                   s \in DOMAIN replayed_slot /\ emitted[s] >= level
    <3>1. level \in Nat /\ level >= 1 /\ s >= s
      BY SlotsAssumption DEF CommitmentLevel, Processed, Finalized
    <3>2. s \in ReplayFromSlot(s, level) <=>
              /\ s \in DOMAIN replayed_slot
              /\ s \in DOMAIN slot_commitment_progression_map
              /\ slot_commitment_progression_map[s].max_commitment >= level
      BY <3>1 DEF ReplayFromSlot
    <3>. QED
      BY <2>2, <2>3, <3>1, <3>2 DEF KeptOf
  <2>. QED
    BY <2>1, <2>7, <2>8, <2>9
<1>. QED
  BY <1>1, BankInvariant, PTL

\* A block that is kept holds every transaction and entry of its bank and, of each
\* account, the last update and no other.
THEOREM FrozenBlockAlwaysComplete == Spec => []FrozenBlockComplete
<1>1. BankInv => FrozenBlockComplete
  <2>. SUFFICES ASSUME BankInv, NEW s \in DOMAIN replayed_slot, ~ResetDue(s)
                PROVE  Elements(replayed_slot[s].messages) =
                           Txns \cup Entries \cup LatestAccounts(notified[s])
    BY DEF FrozenBlockComplete, LatestAccounts
  <2>1. s \in Slots
    BY DEF BankInv, BankTypeOK, MapInto
  <2>. QED
    BY <2>1 DEF BankInv, BankOf, KeptOf
<1>. QED
  BY <1>1, BankInvariant, PTL
=============================================================================
