------------------------- MODULE BlocksStateMachine -------------------------
(***************************************************************************)
(* What yellowstone-grpc-geyser relies on from the external crate          *)
(* yellowstone-block-machine (BlocksStateMachine, version 0.9).  The crate *)
(* is not part of the repository: this module is its contract as           *)
(* block_reconstruction.rs uses it and as that file's tests pin it down.   *)
(*                                                                         *)
(* The crate consumes lifecycle events, block summaries and consensus      *)
(* events, and queues outputs that BlockMachineStorage::add drains.  The   *)
(* queue is abstracted to the set of outputs that are due: each Pop...     *)
(* operator takes one of them, in any order the contract allows.           *)
(***************************************************************************)
EXTENDS Integers, FiniteSets

CONSTANTS
    Slots,      \* the slots of the run, a finite set of naturals
    Parent      \* [Slots -> Int]: the parent of a slot (outside Slots: a root)

ASSUME SlotsAssumption == Slots \subseteq Nat /\ IsFiniteSet(Slots)
ASSUME ParentAssumption == Parent \in [Slots -> Int] /\ \A s \in Slots : Parent[s] < s

VARIABLES
    tracked,    \* slots that is_slot_tracked accepts
    summarized, \* slots whose BlockSummary was accepted
    frozen,     \* slots whose FrozenBlock output was popped
    wanted,     \* wanted[s]: highest commitment the cluster reported for s or a descendant
    emitted,    \* emitted[s]: highest commitment popped as a SlotStatus output
    notices     \* ForksDetected, DeadSlotDetected and BankReset outputs that are due

machineVars == <<tracked, summarized, frozen, wanted, emitted, notices>>

\* Commitment levels in the order cmp_commitment_level gives them; 0 is "none yet".
Processed == 1
Confirmed == 2
Finalized == 3
CommitmentLevel == Processed..Finalized

NoticeKinds == {"ForksDetected", "DeadSlotDetected", "BankReset"}
Notice(kind, s) == [kind |-> kind, slot |-> s]

MachineInit ==
    /\ tracked = {}
    /\ summarized = {}
    /\ frozen = {}
    /\ wanted = [s \in Slots |-> 0]
    /\ emitted = [s \in Slots |-> 0]
    /\ notices = {}

\* The slots a chain of parents leads to: the least set that holds the parent of s and
\* of each of its own members.
WithParents(C) == \A c \in C : Parent[c] \in Slots => Parent[c] \in C
Ancestors ==
    [s \in Slots |->
        {a \in Slots : \A C \in SUBSET Slots :
            (Parent[s] \in Slots => Parent[s] \in C) /\ WithParents(C) => a \in C}]

\* Two slots on different branches: at most one of them can be finalized.
Conflict(s, t) == s # t /\ s \notin Ancestors[t] /\ t \notin Ancestors[s]

\* A slot that conflicts with a finalized one will never be tracked again.
Rejected(s) == \E r \in Slots : wanted[r] = Finalized /\ (Conflict(r, s) \/ r = s)

-----------------------------------------------------------------------------
(* Events.  A lifecycle event other than the first two of a slot returns   *)
(* UntrackedSlot, which leaves the machine alone, when the slot is unknown. *)

\* FirstShredReceived, and CreatedBank for a slot whose earlier bank is gone.
TrackSlot(s) ==
    /\ tracked' = IF Rejected(s) THEN tracked ELSE tracked \cup {s}
    /\ UNCHANGED <<summarized, frozen, wanted, emitted, notices>>

\* CreatedBank for a slot that already has a bank: what was known of it is void.
ResetBank(s) ==
    /\ notices' = notices \cup {Notice("BankReset", s)}
    /\ summarized' = summarized \ {s}
    /\ frozen' = frozen \ {s}
    /\ wanted' = [wanted EXCEPT ![s] = 0]
    /\ emitted' = [emitted EXCEPT ![s] = 0]
    /\ UNCHANGED tracked

MarkDead(s) ==
    /\ tracked' = tracked \ {s}
    /\ notices' = IF s \in tracked THEN notices \cup {Notice("DeadSlotDetected", s)}
                                   ELSE notices
    /\ UNCHANGED <<summarized, frozen, wanted, emitted>>

AcceptSummary(s) ==
    /\ summarized' = IF s \in tracked THEN summarized \cup {s} ELSE summarized
    /\ UNCHANGED <<tracked, frozen, wanted, emitted, notices>>

\* A commitment holds for every ancestor too, and finalizing a slot rules out
\* every tracked slot of another branch.
ConsensusEvent(s, level) ==
    LET forks == IF level = Finalized THEN {t \in tracked : Conflict(s, t)} ELSE {}
    IN  /\ wanted' = [t \in Slots |->
                        IF t \in {s} \cup Ancestors[s] /\ wanted[t] < level
                        THEN level ELSE wanted[t]]
        /\ tracked' = tracked \ forks
        /\ notices' = notices \cup {Notice("ForksDetected", t) : t \in forks}
        /\ UNCHANGED <<summarized, frozen, emitted>>

\* gc(None): the machine may forget the slots it has finished with.
MachineGc ==
    /\ \E done \in {{}, {s \in tracked : emitted[s] = Finalized}} :
          tracked' = tracked \ done
    /\ UNCHANGED <<summarized, frozen, wanted, emitted, notices>>

-----------------------------------------------------------------------------
(* Outputs, one per pop_next_unprocess_blockstore_update.                  *)

FrozenDue(s) == s \in (tracked \cap summarized) \ frozen

\* Levels are synthesized one by one, only for frozen blocks, ancestors first.
StatusDue(s) ==
    /\ s \in tracked \cap frozen
    /\ emitted[s] < wanted[s]
    /\ \A a \in Ancestors[s] \cap tracked \cap frozen : emitted[a] > emitted[s]

OutputDue ==
    \/ notices # {}
    \/ \E s \in Slots : FrozenDue(s) \/ StatusDue(s)

PopFrozen(s) ==
    /\ FrozenDue(s)
    /\ frozen' = frozen \cup {s}
    /\ UNCHANGED <<tracked, summarized, wanted, emitted, notices>>

PopStatus(s) ==
    /\ StatusDue(s)
    /\ emitted' = [emitted EXCEPT ![s] = @ + 1]

PopNotice(n) ==
    /\ n \in notices
    /\ notices' = notices \ {n}
    /\ UNCHANGED <<tracked, summarized, frozen, wanted, emitted>>
=============================================================================
