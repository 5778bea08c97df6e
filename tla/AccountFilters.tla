--------------------------- MODULE AccountFilters ---------------------------
(***************************************************************************)
(* The accounts part of a filter (plugin/filter/filter.rs): what one       *)
(* aggregate asks of an account, and the strategies that find the matching *)
(* aggregates of a filter without asking each of them.                     *)
(***************************************************************************)
EXTENDS Options, FiniteSets, SequencesExt

CONSTANTS
    BitsPerWord,        \* BITS_PER_WORD
    WordBytes,          \* size of a word of FilterBitSet
    MaxBitsetBytes,     \* MAX_BITSET_BYTES
    DirectScanLimit,    \* DIRECT_SCAN_LIMIT
    MaxFilters,         \* MAX_FILTERS of FilterAccountsState::new
    MaxDataSize,        \* MAX_DATA_SIZE
    TokenAccountData    \* data that TokenAccount::valid_account_data accepts

ASSUME AccountFiltersAssumption ==
    /\ BitsPerWord \in Nat \ {0} /\ WordBytes \in Nat \ {0}
    /\ MaxBitsetBytes \in Nat /\ DirectScanLimit \in Nat

-----------------------------------------------------------------------------
(* One aggregate: [name, txn_signature, accounts, accounts_cuckoo, owners, *)
(* account_state]. An empty set of accounts or owners is no constraint; a  *)
(* cuckoo filter is the set of keys it answers yes for.                    *)

\* FilterAccountsState::new refuses these; a memcmp whose text does not decode or is
\* missing has data None.
BadState(filters) ==
    \/ Len(filters) > MaxFilters
    \/ \E i \in DOMAIN filters :
          CASE filters[i].by = "memcmp"   -> filters[i].data = None \/ Len(Get(filters[i].data)) > MaxDataSize
            [] filters[i].by = "token"    -> ~filters[i].value
            [] filters[i].by = "datasize" -> \E j \in DOMAIN filters : j # i /\ filters[j].by = "datasize"
            [] filters[i].by = "lamports" -> filters[i].cmp \notin {"eq", "ne", "lt", "gt"}
            [] OTHER -> TRUE

\* FilterAccountsLamports::is_match
LamportsMatch(f, lamports) ==
    CASE f.cmp = "eq" -> lamports = f.value
      [] f.cmp = "ne" -> lamports # f.value
      [] f.cmp = "lt" -> f.value > lamports
      [] f.cmp = "gt" -> f.value < lamports

\* FilterAccountsState::is_match, conjunct by conjunct
StateMatches(filters, data, lamports) ==
    \A i \in DOMAIN filters :
        LET f == filters[i]
        IN  CASE f.by = "datasize" -> Len(data) = f.size
              [] f.by = "token"    -> data \in TokenAccountData
              [] f.by = "lamports" -> LamportsMatch(f, lamports)
              [] f.by = "memcmp"   -> /\ Len(data) >= f.offset + Len(Get(f.data))
                                      /\ SubSeq(data, f.offset + 1, f.offset + Len(Get(f.data))) = Get(f.data)

\* match_account: an index passes what it knows of the explicit list as Some(hit).
MatchAccount(a, pubkey, hit) ==
    \/ a.accounts = {} /\ ~IsSome(a.accounts_cuckoo)
    \/ a.accounts # {} /\ (IF IsSome(hit) THEN Get(hit) ELSE pubkey \in a.accounts)
    \/ IsSome(a.accounts_cuckoo) /\ pubkey \in Get(a.accounts_cuckoo)

MatchOwner(a, owner, hit) ==
    a.owners # {} => IF IsSome(hit) THEN Get(hit) ELSE owner \in a.owners

MatchTxnSignature(a, txn_signature) ==
    IsSome(a.txn_signature) => Get(a.txn_signature) = IsSome(txn_signature)

\* match_filter
MatchFilter(a, account, accountHit, ownerHit) ==
    /\ MatchTxnSignature(a, account.txn_signature)
    /\ MatchAccount(a, account.pubkey, accountHit)
    /\ MatchOwner(a, account.owner, ownerHit)
    /\ StateMatches(a.account_state, account.data, account.lamports)

\* What is pushed for the aggregate at an index: its name, or nothing.
Pushed(aggregates, i, account, accountHit, ownerHit) ==
    IF MatchFilter(aggregates[i], account, accountHit, ownerHit) THEN <<aggregates[i].name>> ELSE <<>>

-----------------------------------------------------------------------------
(* Lookup tables. The tables of FilterAccountsIndex (bitsets) and of the   *)
(* merge strategies (ascending lists) hold the same indices.               *)

AccountHits(aggregates, pubkey) == {i \in DOMAIN aggregates : pubkey \in aggregates[i].accounts}
OwnerHits(aggregates, owner) == {i \in DOMAIN aggregates : owner \in aggregates[i].owners}

\* account_fallback, account_any: with a cuckoo filter the list alone decides nothing.
\* Mutant: a cuckoo filter beside a list is forgotten.
AccountAnyNoCuckoo(aggregates) == {i \in DOMAIN aggregates : aggregates[i].accounts = {}}
AccountAny(aggregates) ==
    {i \in DOMAIN aggregates : aggregates[i].accounts = {} \/ IsSome(aggregates[i].accounts_cuckoo)}
OwnerAny(aggregates) == {i \in DOMAIN aggregates : aggregates[i].owners = {}}

Ascending(indices) == SetToSortSeq(indices, <)

\* What is pushed at each index of an ascending walk, concatenated
Walk(pushed) ==
    LET seq == Ascending(DOMAIN pushed) IN FlattenSeq([k \in DOMAIN seq |-> pushed[seq[k]]])

\* LinearScanFilter::get_filters
LinearScan(aggregates, account) ==
    Walk([i \in DOMAIN aggregates |-> Pushed(aggregates, i, account, None, None)])

\* FilterAccountsIndex::get_filters; the two early returns have no candidates.
Indexed(aggregates, account) ==
    LET accounts == AccountHits(aggregates, account.pubkey)
        owners == OwnerHits(aggregates, account.owner)
        candidates == (accounts \cup AccountAny(aggregates)) \cap (owners \cup OwnerAny(aggregates))
    IN  Walk([i \in candidates |-> Pushed(aggregates, i, account, Some(i \in accounts), Some(i \in owners))])

\* AllUnconstrainedFilter::get_filters: two cursors run along the hits.
AllUnconstrained(aggregates, account) ==
    LET accounts == AccountHits(aggregates, account.pubkey)
        owners == OwnerHits(aggregates, account.owner)
    IN  Walk([i \in DOMAIN aggregates |->
                 Pushed(aggregates, i, account, Some(i \in accounts), Some(i \in owners))])

\* next_union: the smaller head of two ascending lists, and the cursors behind it; an
\* index in both is a hit and moves both. End is beyond every index.
Head1(list, cursor, end) == IF cursor <= Len(list) THEN list[cursor] ELSE end
NextUnion(hits, any, cursors, end) ==
    LET hit == Head1(hits, cursors[1], end)
        unconstrained == Head1(any, cursors[2], end)
        index == IF hit < unconstrained THEN hit ELSE unconstrained
    IN  [index |-> index, matched |-> hit = index,
         cursors |-> <<IF hit = index THEN cursors[1] + 1 ELSE cursors[1],
                       IF unconstrained = index THEN cursors[2] + 1 ELSE cursors[2]>>]

Cursors(hits, any) == (1 .. Len(hits) + 1) \X (1 .. Len(any) + 1)

\* SingleAxisMergeFilter::get_filters: false stands for the axis that is not walked.
SingleAxisMerge(aggregates, account) ==
    LET unboundedIsOwner == Cardinality(OwnerAny(aggregates)) = Len(aggregates)
        hits == Ascending(IF unboundedIsOwner THEN AccountHits(aggregates, account.pubkey)
                                              ELSE OwnerHits(aggregates, account.owner))
        any == Ascending(IF unboundedIsOwner THEN AccountAny(aggregates) ELSE OwnerAny(aggregates))
        end == Len(aggregates) + 1
        From[c \in Cursors(hits, any)] ==
            LET n == NextUnion(hits, any, c, end)
            IN  IF n.index = end THEN <<>>
                ELSE Pushed(aggregates, n.index, account,
                            Some(unboundedIsOwner /\ n.matched), Some(~unboundedIsOwner /\ n.matched))
                     \o From[n.cursors]
    IN  From[<<1, 1>>]

\* DualAxisMergeFilter::get_filters: the axis that is behind moves on alone.
DualAxisMerge(aggregates, account) ==
    LET accounts == Ascending(AccountHits(aggregates, account.pubkey))
        owners == Ascending(OwnerHits(aggregates, account.owner))
        accountAny == Ascending(AccountAny(aggregates))
        ownerAny == Ascending(OwnerAny(aggregates))
        end == Len(aggregates) + 1
        From[c \in Cursors(accounts, accountAny) \X Cursors(owners, ownerAny)] ==
            LET a == NextUnion(accounts, accountAny, c[1], end)
                o == NextUnion(owners, ownerAny, c[2], end)
            IN  IF a.index = end \/ o.index = end THEN <<>>
                ELSE IF a.index < o.index THEN From[<<a.cursors, c[2]>>]
                ELSE IF o.index < a.index THEN From[<<c[1], o.cursors>>]
                ELSE Pushed(aggregates, a.index, account, Some(a.matched), Some(o.matched))
                     \o From[<<a.cursors, o.cursors>>]
    IN  From[<< <<1, 1>>, <<1, 1>> >>]

-----------------------------------------------------------------------------
(* FilterAccountsStrategy                                                  *)

\* The bytes FilterAccountsIndex::try_init counts before it builds anything
BitsetBytes(aggregates) ==
    LET words == (Len(aggregates) + BitsPerWord - 1) \div BitsPerWord
        memberships == FoldSeq(LAMBDA a, n : n + Cardinality(a.accounts) + Cardinality(a.owners), 0, aggregates)
    IN  words * WordBytes * (memberships + 2)

Indexable(aggregates) ==
    /\ Len(aggregates) > 1
    /\ BitsetBytes(aggregates) <= MaxBitsetBytes
    /\ \E i \in DOMAIN aggregates : aggregates[i].accounts # {} \/ aggregates[i].owners # {}

\* FilterAccountsStrategy::build
Strategy(aggregates) ==
    LET accountUnbounded == Cardinality(AccountAny(aggregates)) = Len(aggregates)
        ownerUnbounded == Cardinality(OwnerAny(aggregates)) = Len(aggregates)
    IN  CASE aggregates = <<>> -> "Empty"
          [] aggregates # <<>> /\ Indexable(aggregates) -> "Indexed"
          [] aggregates # <<>> /\ ~Indexable(aggregates) ->
                IF Len(aggregates) <= DirectScanLimit THEN "LinearScan"
                ELSE IF accountUnbounded /\ ownerUnbounded THEN "AllUnconstrained"
                ELSE IF accountUnbounded # ownerUnbounded THEN "SingleAxisMerge"
                ELSE "DualAxisMerge"

\* FilterAccountsStrategy::get_filters
GetFilters(aggregates, account) ==
    LET strategy == Strategy(aggregates)
    IN  CASE strategy = "Empty"            -> <<>>
          [] strategy = "LinearScan"       -> LinearScan(aggregates, account)
          [] strategy = "Indexed"          -> Indexed(aggregates, account)
          [] strategy = "AllUnconstrained" -> AllUnconstrained(aggregates, account)
          [] strategy = "SingleAxisMerge"  -> SingleAxisMerge(aggregates, account)
          [] strategy = "DualAxisMerge"    -> DualAxisMerge(aggregates, account)

-----------------------------------------------------------------------------
(* What a filter means, without any index                                  *)

Wanted(a, account) ==
    /\ a.txn_signature # None => (a.txn_signature[1] <=> account.txn_signature # None)
    /\ \/ a.accounts = {} /\ a.accounts_cuckoo = None
       \/ account.pubkey \in a.accounts
       \/ a.accounts_cuckoo # None /\ account.pubkey \in a.accounts_cuckoo[1]
    /\ a.owners = {} \/ account.owner \in a.owners
    /\ StateMatches(a.account_state, account.data, account.lamports)

WantedBy(aggregates, account) ==
    LET wanted == SelectSeq(aggregates, LAMBDA a : Wanted(a, account))
    IN  [k \in DOMAIN wanted |-> wanted[k].name]

\* The one case in which the strategies leave an account out: SingleAxisMerge over the
\* owners answers false for the explicit list of an aggregate that also has a cuckoo
\* filter.
ListBesideCuckooOnUnwalkedAxis(aggregates) ==
    /\ Strategy(aggregates) = "SingleAxisMerge"
    /\ Cardinality(AccountAny(aggregates)) = Len(aggregates)
    /\ \E i \in DOMAIN aggregates : aggregates[i].accounts # {}
=============================================================================
