------------------------------- MODULE Filters ------------------------------
(***************************************************************************)
(* Filter and DeshredFilter (plugin/filter/filter.rs, limits.rs, name.rs): *)
(* which requests are refused, and which updates a message gives under an  *)
(* accepted one. A request is a record of sequences of named filters, one  *)
(* per kind; a cuckoo filter is [keys, size]. Of an accepted request the   *)
(* filter keeps everything, the lists of keys as sets and the data slices  *)
(* as ranges.                                                              *)
(***************************************************************************)
EXTENDS AccountFilters

CONSTANTS
    Limits,         \* FilterLimits
    BadKeys,        \* text that is no pubkey
    BadSignatures,  \* text that is no signature
    LongNames,      \* names over name_size_limit
    Levels,         \* the commitment levels CommitmentLevelProto knows
    U64             \* 2^64, scaled: offsets and lengths are below it

ASSUME FiltersAssumption == U64 \in Nat \ {0}

Commitments == {"processed", "confirmed", "finalized"}

-----------------------------------------------------------------------------
(* FilterLimits, whose defaults allow everything (Unlimited is usize::MAX) *)

Unlimited == 2^30
FilterLimitsAccounts ==
    [max |-> Unlimited, any |-> TRUE, account_max |-> Unlimited, account_reject |-> {}, owner_max |-> Unlimited,
     owner_reject |-> {}, data_slice_max |-> Unlimited, cuckoo_max_size |-> Unlimited]
FilterLimitsSlots == [max |-> Unlimited]
FilterLimitsTransactions ==
    [max |-> Unlimited, any |-> TRUE, account_include_max |-> Unlimited, account_include_reject |-> {},
     account_exclude_max |-> Unlimited, account_required_max |-> Unlimited, cuckoo_max_size |-> Unlimited]
FilterLimitsBlocks ==
    [max |-> Unlimited, account_include_max |-> Unlimited, account_include_any |-> TRUE, account_include_reject |-> {},
     include_transactions |-> TRUE, include_accounts |-> TRUE, include_entries |-> TRUE, cuckoo_max_size |-> Unlimited]
FilterLimitsBlocksMeta == [max |-> Unlimited]
FilterLimitsEntries == [max |-> Unlimited]
FilterLimitsDeshredTransactions ==
    [max |-> Unlimited, any |-> TRUE, account_include_max |-> Unlimited, account_include_reject |-> {},
     account_exclude_max |-> Unlimited, account_required_max |-> Unlimited]

DefaultLimits ==
    [accounts |-> FilterLimitsAccounts, slots |-> FilterLimitsSlots, transactions |-> FilterLimitsTransactions,
     transactions_status |-> FilterLimitsTransactions, blocks |-> FilterLimitsBlocks,
     blocks_meta |-> FilterLimitsBlocksMeta, entries |-> FilterLimitsEntries,
     deshred_transactions |-> FilterLimitsDeshredTransactions]

CheckMax(len, max) == len <= max
CheckAny(isEmpty, any) == ~isEmpty \/ any

\* Filter::decode_pubkeys: each is a key and not rejected.
DecodePubkeys(keys, reject) == \A i \in DOMAIN keys : keys[i] \notin BadKeys \cup reject

\* check_pubkey_max counts the list as it comes, with its duplicates.
CheckPubkeys(keys, max, reject) == CheckMax(Len(keys), max) /\ DecodePubkeys(keys, reject)
CheckCuckoo(cuckoo, max) == IsSome(cuckoo) => CheckMax(Get(cuckoo).size, max)
CheckNames(filters) == \A i \in DOMAIN filters : filters[i].name \notin LongNames

-----------------------------------------------------------------------------
(* What Filter::new accepts, kind by kind                                  *)

AcceptAccounts(filters, l) ==
    /\ CheckMax(Len(filters), l.max) /\ CheckNames(filters)
    /\ \A i \in DOMAIN filters :
          LET f == filters[i]
          IN  /\ CheckAny(f.accounts = <<>> /\ f.owners = <<>> /\ ~IsSome(f.cuckoo), l.any)
              /\ CheckPubkeys(f.accounts, l.account_max, l.account_reject)
              /\ CheckPubkeys(f.owners, l.owner_max, l.owner_reject)
              /\ ~BadState(f.account_state)
              /\ CheckCuckoo(f.cuckoo, l.cuckoo_max_size)

\* The signature is not among the criteria of check_any.
AcceptTransactions(filters, l) ==
    /\ CheckMax(Len(filters), l.max) /\ CheckNames(filters)
    /\ \A i \in DOMAIN filters :
          LET f == filters[i]
          IN  /\ CheckAny(/\ f.vote = None /\ f.failed = None /\ f.include = <<>> /\ f.cuckoo = None
                          /\ f.exclude = <<>> /\ f.required = <<>> /\ f.token_accounts = None, l.any)
              /\ CheckPubkeys(f.include, l.account_include_max, l.account_include_reject)
              /\ CheckPubkeys(f.exclude, l.account_exclude_max, {})
              /\ CheckPubkeys(f.required, l.account_required_max, {})
              /\ CheckCuckoo(f.cuckoo, l.cuckoo_max_size)
              /\ IsSome(f.signature) => Get(f.signature) \notin BadSignatures
              /\ f.token_accounts \in {None, Some("all"), Some("balance_changed")}

AcceptDeshred(filters, l) ==
    /\ CheckMax(Len(filters), l.max) /\ CheckNames(filters)
    /\ \A i \in DOMAIN filters :
          LET f == filters[i]
          IN  /\ CheckAny(f.vote = None /\ f.include = <<>> /\ f.exclude = <<>> /\ f.required = <<>>, l.any)
              /\ CheckPubkeys(f.include, l.account_include_max, l.account_include_reject)
              /\ CheckPubkeys(f.exclude, l.account_exclude_max, {})
              /\ CheckPubkeys(f.required, l.account_required_max, {})

\* include_entries is held against the limit include_accounts.
AcceptBlocks(filters, l) ==
    /\ CheckMax(Len(filters), l.max) /\ CheckNames(filters)
    /\ \A i \in DOMAIN filters :
          LET f == filters[i]
          IN  /\ CheckAny(f.include = <<>>, l.account_include_any)
              /\ CheckPubkeys(f.include, l.account_include_max, l.account_include_reject)
              /\ f.include_transactions = Some(FALSE) \/ l.include_transactions
              /\ f.include_accounts \in {None, Some(FALSE)} \/ l.include_accounts
              /\ f.include_entries \in {None, Some(FALSE)} \/ l.include_accounts
              /\ CheckCuckoo(f.cuckoo, l.cuckoo_max_size)

\* FilterSlots and FilterEntries only count and name, and so does FilterBlocksMeta.
AcceptPlain(filters, l) == CheckMax(Len(filters), l.max) /\ CheckNames(filters)
AcceptBlocksMeta(filters, l) == CheckMax(Len(filters), l.max) /\ CheckNames(filters)

\* FilterAccountsDataSlice::new: the end is the sum of two u64, which wraps in a release
\* build. Ranges are in order and apart; nothing asks that one ends after it starts.
Ranges(slices) == [i \in DOMAIN slices |-> [start |-> slices[i].offset,
                                            end |-> (slices[i].offset + slices[i].length) % U64]]

AcceptDataSlice(slices, max) ==
    LET ranges == Ranges(slices)
    IN  /\ CheckMax(Len(slices), max)
        /\ \A i \in DOMAIN ranges :
              /\ \A j \in i + 1 .. Len(ranges) : ~(ranges[i].start > ranges[j].start)
              /\ \A j \in 1 .. i - 1 : ~(ranges[i].start < ranges[j].end)

\* A level the protocol knows, and of these one a subscription can have
DecodeCommitment(commitment) == commitment \in Levels \cap Commitments

\* Filter::new
FilterAccepted(request) ==
    /\ AcceptAccounts(request.accounts, Limits.accounts)
    /\ AcceptPlain(request.slots, Limits.slots)
    /\ AcceptTransactions(request.transactions, Limits.transactions)
    /\ AcceptTransactions(request.transactions_status, Limits.transactions_status)
    /\ AcceptPlain(request.entries, Limits.entries)
    /\ AcceptBlocks(request.blocks, Limits.blocks)
    /\ AcceptBlocksMeta(request.blocks_meta, Limits.blocks_meta)
    /\ DecodeCommitment(request.commitment)
    /\ AcceptDataSlice(request.accounts_data_slice, Limits.accounts.data_slice_max)

\* DeshredFilter::new
DeshredFilterAccepted(request) ==
    /\ AcceptDeshred(request.deshred_transactions, Limits.deshred_transactions)
    /\ AcceptPlain(request.slots, Limits.slots)

\* decode_pubkeys_into_set, of every list of keys there is
KeySets(filters) ==
    [i \in DOMAIN filters |->
        [field \in DOMAIN filters[i] |->
            IF field \in {"accounts", "owners", "include", "exclude", "required"} THEN ToSet(filters[i][field])
            ELSE filters[i][field]]]

\* The filter made of an accepted request
FilterOf(request) ==
    [request EXCEPT !.accounts = KeySets(@), !.transactions = KeySets(@), !.transactions_status = KeySets(@),
                    !.blocks = KeySets(@), !.accounts_data_slice = Ranges(@)]
DeshredFilterOf(request) == [request EXCEPT !.deshred_transactions = KeySets(@)]

\* Filter::default and DeshredFilter::default: what a session starts with, which lets
\* nothing through
DefaultFilter ==
    [accounts |-> <<>>, slots |-> <<>>, transactions |-> <<>>, transactions_status |-> <<>>, entries |-> <<>>,
     blocks |-> <<>>, blocks_meta |-> <<>>, commitment |-> "processed", accounts_data_slice |-> <<>>]
DefaultDeshredFilter == [deshred_transactions |-> <<>>, slots |-> <<>>]

-----------------------------------------------------------------------------
(* Transactions                                                            *)

\* Owners of parseable balances: owners_in_any_balance
OwnersInAnyBalance(pre, post) ==
    {b.owner : b \in {x \in ToSet(pre) \cup ToSet(post) : x.owner \notin BadKeys}}

\* token_balance_amount: no amount is an empty text.
Amount(balance) == UnwrapOr(Map(balance.ui_token_amount, LAMBDA ui : ui.amount), <<>>)

\* owners_with_changed_balance; of two pre balances with one index the later counts, and
\* a post balance with an unparseable owner does not count as there.
OwnersWithChangedBalance(pre, post) ==
    LET Parsed(s) == SelectSeq(s, LAMBDA b : b.owner \notin BadKeys)
        before == Parsed(pre)
        after == Parsed(post)
        LastOf(i) == CHOOSE k \in DOMAIN before : /\ before[k].account_index = i
                                                /\ \A m \in k + 1 .. Len(before) : before[m].account_index # i
        indices == {b.account_index : b \in ToSet(before)}
        seen == {b.account_index : b \in ToSet(after)}
    IN  {b.owner : b \in {x \in ToSet(after) : x.account_index \in indices
                                                  => Amount(before[LastOf(x.account_index)]) # Amount(x)}}
        \cup {before[LastOf(i)].owner : i \in indices \ seen}

\* token_owners_all and token_owners_changed are computed once per transaction; what
\* they hold does not depend on who asks first.
TokenOwners(f, tx) ==
    CASE f.token_accounts = None               -> {}
      [] f.token_accounts = Some("all")             -> OwnersInAnyBalance(tx.meta.pre_token_balances, tx.meta.post_token_balances)
      [] f.token_accounts = Some("balance_changed") -> OwnersWithChangedBalance(tx.meta.pre_token_balances, tx.meta.post_token_balances)

\* HybridSet::overlaps walks the smaller of the two.
Overlaps(set, keys) ==
    IF Cardinality(set) <= Cardinality(keys) THEN \E k \in set : k \in keys ELSE \E k \in keys : k \in set

CuckooHit(cuckoo, keys) == IsSome(cuckoo) /\ \E k \in keys : k \in Get(cuckoo).keys

\* The closure of FilterTransactions::get_updates
TransactionMatches(f, tx) ==
    LET effective == tx.account_keys \cup TokenOwners(f, tx)
    IN  /\ IsSome(f.vote) => Get(f.vote) = tx.is_vote
        /\ IsSome(f.failed) => Get(f.failed) = IsSome(tx.meta.err)
        /\ IsSome(f.signature) => /\ tx.transaction.signatures # <<>>
                                 /\ Head(tx.transaction.signatures) = Octets(SignatureBytes, Get(f.signature))
        /\ \A k \in f.required : k \in effective
        /\ \/ f.include = {} /\ f.cuckoo = None
           \/ f.include # {} /\ Overlaps(f.include, effective)
           \/ CuckooHit(f.cuckoo, effective)
        /\ ~(f.exclude # {} /\ Overlaps(f.exclude, effective))

\* all_account_keys: the static and the loaded ones
\* FilterDeshredTransactions::get_updates
DeshredMatches(f, tx) ==
    /\ IsSome(f.vote) => Get(f.vote) = tx.is_vote
    /\ f.include # {} => \E k \in tx.account_keys : k \in f.include
    /\ f.exclude # {} => ~\E k \in tx.account_keys : k \in f.exclude
    /\ \A k \in f.required : k \in tx.account_keys

-----------------------------------------------------------------------------
(* Blocks and slots                                                        *)

\* FilterBlocksInner::matches_account, matches_any_in_set
BlockMatchesAccount(f, pubkey) ==
    \/ f.include = {} /\ f.cuckoo = None
    \/ pubkey \in f.include
    \/ IsSome(f.cuckoo) /\ pubkey \in Get(f.cuckoo).keys

BlockMatchesKeys(f, keys) ==
    \/ f.include = {} /\ f.cuckoo = None
    \/ Overlaps(f.include, keys)
    \/ CuckooHit(f.cuckoo, keys)

SlotMatches(f, status, commitment) ==
    /\ f.filter_by_commitment => commitment = status
    /\ f.interslot_updates \/ status \in Commitments

-----------------------------------------------------------------------------
(* Updates: [filters, kind, message], with the parts of a block chosen     *)

NamesOf(filters) == [k \in DOMAIN filters |-> filters[k].name]

\* filtered_updates_once_*: nothing for nobody.
Once(names, kind, message) ==
    IF names = <<>> THEN <<>> ELSE <<[filters |-> names, kind |-> kind, message |-> message]>>

\* FilterAccounts::new: the aggregate of each filter
Aggregates(filters) ==
    [i \in DOMAIN filters |->
        [name |-> filters[i].name, txn_signature |-> filters[i].txn_signature,
         accounts |-> filters[i].accounts, owners |-> filters[i].owners,
         account_state |-> filters[i].account_state,
         accounts_cuckoo |-> IF IsSome(filters[i].cuckoo) THEN Some(Get(filters[i].cuckoo).keys) ELSE None]]

\* FilterBlocks::get_updates: one update per filter
BlockUpdates(filters, block) ==
    [i \in DOMAIN filters |->
        LET f == filters[i]
        IN  [filters |-> <<f.name>>, kind |-> "block",
             message |-> [block EXCEPT
                !.transactions = IF f.include_transactions # Some(FALSE)
                                 THEN SelectSeq(@, LAMBDA tx : BlockMatchesKeys(f, tx.account_keys)) ELSE <<>>,
                !.accounts = IF f.include_accounts = Some(TRUE)
                             THEN SelectSeq(@, LAMBDA a : BlockMatchesAccount(f, a.pubkey)) ELSE <<>>,
                !.entries = IF f.include_entries = Some(TRUE) THEN @ ELSE <<>>]]]

\* Filter::get_updates
GetUpdates(filter, message, commitment) ==
    LET body == message.body
    IN  CASE message.kind = "account" ->
                 Once(GetFilters(Aggregates(filter.accounts), body), "account", body)
          [] message.kind = "slot" ->
                 Once(NamesOf(SelectSeq(filter.slots, LAMBDA f : SlotMatches(f, body.status, commitment))), "slot", body)
          [] message.kind = "transaction" ->
                 Once(NamesOf(SelectSeq(filter.transactions, LAMBDA f : TransactionMatches(f, body))), "transaction", body)
                 \o Once(NamesOf(SelectSeq(filter.transactions_status, LAMBDA f : TransactionMatches(f, body))),
                         "transaction_status", body)
          [] message.kind = "deshred" -> <<>>
          [] message.kind = "entry" -> Once(NamesOf(filter.entries), "entry", body)
          [] message.kind = "block" -> BlockUpdates(filter.blocks, body)
          [] message.kind = "block_meta" -> Once(NamesOf(filter.blocks_meta), "block_meta", body)

\* DeshredFilter::get_updates
GetDeshredUpdates(filter, message, commitment) ==
    LET body == message.body
    IN  CASE message.kind = "deshred" ->
                 Once(NamesOf(SelectSeq(filter.deshred_transactions, LAMBDA f : DeshredMatches(f, body))), "deshred", body)
          [] message.kind = "slot" ->
                 Once(NamesOf(SelectSeq(filter.slots, LAMBDA f : SlotMatches(f, body.status, commitment))), "slot", body)
          [] OTHER -> <<>>
=============================================================================
