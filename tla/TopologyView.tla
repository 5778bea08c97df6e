---------------------------- MODULE TopologyView ----------------------------
(***************************************************************************)
(* What the gossip contact info feed promises a subscriber: its view is    *)
(* always the gossip table as it was at one revision, never a mixture of   *)
(* two revisions, never a table from before the end of the startup replay, *)
(* and it never goes back in time.                                         *)
(***************************************************************************)
EXTENDS Naturals, Sequences

CONSTANTS
    Clients,        \* subscribers
    Tables,         \* the values the gossip table can take
    EmptyTable,     \* the table before the first notification
    StartupCount    \* notifications of the startup replay

VARIABLES
    published,      \* published[r]: the table at revision r
    rev,            \* rev[c]: the revision client c is at, 0 before its first snapshot
    view            \* view[c]: the table client c believes in, <<>> before its first snapshot

Init ==
    /\ published = <<>>
    /\ rev = [c \in Clients |-> 0]
    /\ view = [c \in Clients |-> <<>>]

Publish ==
    /\ \E t \in Tables : published' = Append(published, t)
    /\ UNCHANGED <<rev, view>>

Advance(c) ==
    /\ \E r \in rev[c]..Len(published) :
          /\ r >= StartupCount
          /\ rev' = [rev EXCEPT ![c] = r]
          /\ view' = [view EXCEPT ![c] = <<IF r = 0 THEN EmptyTable ELSE published[r]>>]
    /\ UNCHANGED published

Next == Publish \/ \E c \in Clients : Advance(c)

Spec == Init /\ [][Next]_<<published, rev, view>>
=============================================================================
