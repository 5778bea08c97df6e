----------------------------- MODULE MCUpdates ------------------------------
(* Instance of Updates for TLC. Names, keys and signatures are numbers. s1 sends    *)
(* lists of up to three of the account filters below, s2 requests of the other      *)
(* kinds.                                                                           *)
EXTENDS Updates, TLC

MCLimits ==
    [DefaultLimits EXCEPT
        !.accounts = [@ EXCEPT !.max = 3, !.account_max = 2, !.account_reject = {9}, !.owner_max = 1,
                               !.data_slice_max = 2, !.cuckoo_max_size = 1],
        !.transactions = [@ EXCEPT !.max = 1, !.account_include_max = 1, !.cuckoo_max_size = 1],
        !.blocks = [@ EXCEPT !.max = 2, !.account_include_max = 1, !.cuckoo_max_size = 1]]

Cuckoo(keys) == Some([keys |-> keys, size |-> 1])
AccountFilter(n, signed, accounts, cuckoo, owners, state) ==
    [name |-> n, txn_signature |-> signed, accounts |-> accounts, cuckoo |-> cuckoo, owners |-> owners,
     account_state |-> state]
Plain(n) == AccountFilter(n, None, <<>>, None, <<>>, <<>>)
Pool(n) == <<Plain(n),
             AccountFilter(n, None, <<1>>, None, <<>>, <<>>),
             AccountFilter(n, None, <<1>>, Cuckoo({2}), <<>>, <<>>),
             AccountFilter(n, None, <<>>, Cuckoo({2}), <<>>, <<[by |-> "datasize", size |-> 2],
                 [by |-> "memcmp", offset |-> 1, data |-> Some(<<8>>)], [by |-> "token", value |-> TRUE]>>),
             AccountFilter(n, Some(TRUE), <<>>, None, <<1>>, <<>>),
             AccountFilter(n, None, <<1, 2>>, None, <<1>>, <<[by |-> "lamports", cmp |-> "gt", value |-> 0]>>)>>
\* Singles, pairs in one order, and triples of two kinds: between them every strategy is chosen.
AccountLists ==
    {<<>>} \cup {<<Pool(1)[i]>> : i \in 1..6}
    \cup {<<Pool(1)[p[1]], Pool(2)[p[2]]>> : p \in {q \in (1..6) \X (1..6) : q[1] <= q[2]}}
    \cup {<<Pool(1)[i], Pool(2)[2], AccountFilter(3, None, <<2>>, None, <<1>>, <<>>)>> : i \in 1..6}
    \cup {<<Pool(1)[i], Pool(2)[3], Plain(3)>> : i \in 1..6}

Slice(offset, length) == [offset |-> offset, length |-> length]
TxFilter(n) == [name |-> n, vote |-> None, failed |-> None, signature |-> None, include |-> <<>>, exclude |-> <<>>,
                required |-> <<>>, cuckoo |-> None, token_accounts |-> None]
BlockFilter(n, include, cuckoo) ==
    [name |-> n, include |-> include, cuckoo |-> cuckoo, include_transactions |-> None,
     include_accounts |-> Some(TRUE), include_entries |-> Some(TRUE)]

Bad == {[Plain(1) EXCEPT !.accounts = <<9>>], [Plain(1) EXCEPT !.owners = <<1, 1>>], [Plain(1) EXCEPT !.name = 99],
        [Plain(1) EXCEPT !.account_state = <<[by |-> "token", value |-> FALSE]>>],
        [Plain(1) EXCEPT !.account_state = <<[by |-> "datasize", size |-> 1], [by |-> "datasize", size |-> 1]>>],
        [Plain(1) EXCEPT !.account_state = <<[by |-> "memcmp", offset |-> 0, data |-> None]>>],
        [Plain(1) EXCEPT !.account_state = <<[by |-> "lamports", cmp |-> "none", value |-> 1]>>]}

\* One slice that is a range and one whose end wraps to before its start
Wrapping == [DefaultFilter EXCEPT !.accounts = <<Plain(4)>>, !.accounts_data_slice = <<Slice(0, 1), Slice(4, 7)>>]
MCChanges == "s1" :> {} @@ "s2" :> {[DefaultFilter EXCEPT !.accounts = <<Plain(4)>>, !.accounts_data_slice = <<Slice(1, 1)>>]}
MCRequests ==
    "s1" :> ({[DefaultFilter EXCEPT !.accounts = l] : l \in AccountLists}
             \cup {[DefaultFilter EXCEPT !.accounts = <<b>>] : b \in Bad})
    @@ "s2" :> {[DefaultFilter EXCEPT !.accounts = <<Plain(4)>>, !.accounts_data_slice = <<Slice(0, 1), Slice(1, 1)>>],
                [DefaultFilter EXCEPT !.accounts = <<Plain(4)>>, !.accounts_data_slice = <<Slice(0, 2), Slice(1, 2)>>],
                [DefaultFilter EXCEPT !.blocks = <<BlockFilter(5, <<1>>, None), BlockFilter(6, <<>>, Cuckoo({2}))>>,
                                  !.accounts_data_slice = <<Slice(0, 1)>>],
                [DefaultFilter EXCEPT !.blocks = <<BlockFilter(5, <<>>, None)>>],
                [DefaultFilter EXCEPT !.commitment = "root"],
                [DefaultFilter EXCEPT !.transactions = <<[TxFilter(7) EXCEPT !.signature = Some(98)]>>],
                Wrapping,
                [DefaultFilter EXCEPT !.transactions = <<[TxFilter(7) EXCEPT !.required = <<3>>, !.failed = Some(TRUE), !.signature = Some(5),
                                                                         !.token_accounts = Some("all")]>>,
                                  !.transactions_status = <<[TxFilter(8) EXCEPT !.include = <<1>>, !.exclude = <<3>>,
                                                                 !.token_accounts = Some("balance_changed")]>>,
                                  !.entries = <<[name |-> 1]>>, !.blocks_meta = <<[name |-> 2]>>,
                                  !.slots = <<[name |-> 3, filter_by_commitment |-> TRUE, interslot_updates |-> FALSE]>>]}
               \cup
               {[deshred_transactions |-> <<[TxFilter(7) EXCEPT !.include = <<1>>]>>,
                 slots |-> <<[name |-> 3, filter_by_commitment |-> FALSE, interslot_updates |-> TRUE]>>],
                [deshred_transactions |-> <<[TxFilter(7) EXCEPT !.exclude = <<1, 2>>]>>, slots |-> <<>>]}

AccountNotice(i, pubkey, owner, lamports, data, txn) ==
    [kind |-> "account", slot |-> 1, is_startup |-> FALSE,
     info |-> [id |-> i, pubkey |-> Octets(32, pubkey), owner |-> Octets(32, owner), lamports |-> lamports,
               executable |-> FALSE, rent_epoch |-> 1, data |-> data, write_version |-> 0, txn |-> txn]]
A1 == AccountNotice(1, 1, 1, 1, <<7, 8>>, Some([signature |-> 5]))
A2 == AccountNotice(2, 2, 2, 0, <<7, 8, 9>>, None)

\* Three transactions: a failed one of version 0 with everything present, a legacy one
\* with everything absent, one of version 1 with lists that are present and empty.
TokenBalance(i, owner, amount, ui) ==
    [account_index |-> i, mint |-> 4, owner |-> owner, program_id |-> 6,
     ui_token_amount |-> [ui_amount |-> ui, decimals |-> 255, amount |-> amount, ui_amount_string |-> amount]]
Header == [num_required_signatures |-> 1, num_readonly_signed_accounts |-> 0, num_readonly_unsigned_accounts |-> 255]
Ix == [program_id_index |-> 255, accounts |-> <<0>>, data |-> <<1>>]
V0 == [version |-> "v0", header |-> Header, account_keys |-> <<1>>, recent_blockhash |-> 4, instructions |-> <<Ix>>,
       address_table_lookups |-> <<[account_key |-> 8, writable_indexes |-> <<>>, readonly_indexes |-> <<1>>]>>]
Legacy == [version |-> "legacy", header |-> Header, account_keys |-> <<2>>, recent_blockhash |-> 4, instructions |-> <<>>]
V1 == [version |-> "v1", header |-> Header, account_keys |-> <<3>>, lifetime_specifier |-> 4, instructions |-> <<Ix>>,
       config |-> [priority_fee |-> None, compute_unit_limit |-> Some(1), loaded_accounts_data_size_limit |-> None,
                   heap_size |-> Some(0)]]
Reward(type, commission) == [pubkey |-> 1, lamports |-> -1, post_balance |-> 0, reward_type |-> type,
                             commission |-> commission, commission_bps |-> None]
Meta == [status |-> None, fee |-> 1, pre_balances |-> <<1>>, post_balances |-> <<>>, inner_instructions |-> None,
         log_messages |-> None, pre_token_balances |-> None, post_token_balances |-> None, rewards |-> None,
         loaded_addresses |-> [writable |-> <<>>, readonly |-> <<>>], return_data |-> None,
         compute_units_consumed |-> None, cost_units |-> None]
FullMeta ==
    [Meta EXCEPT !.status = Some("error"),
        !.inner_instructions = Some(<<[index |-> 0, instructions |-> <<[instruction |-> Ix, stack_height |-> Some(2)]>>]>>),
        !.log_messages = Some(<<"log">>), !.rewards = Some(<<Reward(Some("voting"), Some(5)), Reward(None, None)>>),
        !.pre_token_balances = Some(<<TokenBalance(0, 3, 1, None), TokenBalance(1, 2, 4, Some(4))>>),
        !.post_token_balances = Some(<<TokenBalance(0, 3, 1, Some(1)), TokenBalance(1, 9, 4, None)>>),
        !.loaded_addresses = [writable |-> <<7>>, readonly |-> <<>>],
        !.return_data = Some([program_id |-> 1, data |-> <<>>]), !.compute_units_consumed = Some(3)]
EmptyMeta == [Meta EXCEPT !.inner_instructions = Some(<<>>), !.log_messages = Some(<<>>), !.rewards = Some(<<>>)]
TxNotice(i, signature, message, meta) ==
    [kind |-> "transaction", slot |-> 1,
     info |-> [id |-> i, signature |-> signature, is_vote |-> FALSE, index |-> 1,
               transaction |-> [signatures |-> <<signature>>, message |-> message], transaction_status_meta |-> meta]]
Tx == TxNotice(3, 5, V0, FullMeta)

DeshredTx == [kind |-> "deshred", slot |-> 1,
              info |-> [version |-> "v2", signature |-> 5, is_vote |-> FALSE, transaction |-> Tx.info.transaction,
                        loaded_addresses |-> Some([writable |-> <<2>>, readonly |-> <<>>]),
                        starting_shred_index |-> 0, ending_shred_index |-> 3]]
EarlyDeshredTx == [DeshredTx EXCEPT !.info.version = "v1", !.info.loaded_addresses = None]
EntryInfo == [slot |-> 1, index |-> 0, num_hashes |-> 1, hash |-> Octets(32, 1), executed_transaction_count |-> 0,
              starting_transaction_index |-> 1]
MetaInfo(time) ==
    [slot |-> 1, parent_slot |-> 0, parent_blockhash |-> 2, blockhash |-> 1, block_time |-> time,
     rewards |-> [rewards |-> <<Reward(Some("deactivated_stake"), Some(255))>>, num_partitions |-> Some(0)],
     block_height |-> Some(0), executed_transaction_count |-> 1, entry_count |-> 1]
BlockNotice(slot, time) ==
    [kind |-> "block", info |-> [MetaInfo(time) EXCEPT !.slot = slot], accounts |-> <<A1, A2>>, entries |-> <<EntryInfo>>,
     transactions |-> <<Tx, TxNotice(4, 6, Legacy, Meta), TxNotice(5, 7, V1, EmptyMeta)>>]
MCNotifications ==
    {A1, A2, Tx, DeshredTx, EarlyDeshredTx, BlockNotice(1, Some(9)), BlockNotice(2, None),
     [kind |-> "entry", info |-> EntryInfo],
     [kind |-> "block_meta", info |-> [MetaInfo(None) EXCEPT !.rewards = [rewards |-> <<>>, num_partitions |-> None]]],
     [kind |-> "slot", slot |-> 1, parent |-> Some(0), status |-> "dead", error |-> <<1>>],
     [kind |-> "slot", slot |-> 1, parent |-> None, status |-> "processed"],
     [kind |-> "slot", slot |-> 1, parent |-> None, status |-> "rooted"]}
MCTokenData == {<<7, 8>>}
=============================================================================
