------------------------------ MODULE ConvertTo -----------------------------
(***************************************************************************)
(* The validator's types to the protobuf messages of an update             *)
(* (plugin/convert_to.rs). Widening an integer leaves its value alone.     *)
(***************************************************************************)
EXTENDS Options

create_pubkeys(pubkeys) == MapSeq(pubkeys, LAMBDA key : Octets(KeyBytes, key))

create_header(header) ==
    [num_required_signatures |-> header.num_required_signatures,
     num_readonly_signed_accounts |-> header.num_readonly_signed_accounts,
     num_readonly_unsigned_accounts |-> header.num_readonly_unsigned_accounts]

create_instruction(ix) ==
    [program_id_index |-> ix.program_id_index, accounts |-> ix.accounts, data |-> ix.data]
create_instructions(ixs) == MapSeq(ixs, create_instruction)

create_lookup(lookup) ==
    [account_key |-> Octets(KeyBytes, lookup.account_key),
     writable_indexes |-> lookup.writable_indexes, readonly_indexes |-> lookup.readonly_indexes]
create_lookups(lookups) == MapSeq(lookups, create_lookup)

\* The three versions share their fields but for these: V1 has a config, and its
\* lifetime specifier travels as the recent blockhash.
create_message(m) ==
    [header |-> Some(create_header(m.header)),
     account_keys |-> create_pubkeys(m.account_keys),
     recent_blockhash |-> Octets(KeyBytes, IF m.version = "v1" THEN m.lifetime_specifier ELSE m.recent_blockhash),
     instructions |-> create_instructions(m.instructions),
     versioned |-> m.version # "legacy",
     address_table_lookups |-> IF m.version = "v0" THEN create_lookups(m.address_table_lookups) ELSE <<>>,
     config |-> IF m.version = "v1" THEN Some(m.config) ELSE None]

create_transaction(tx) ==
    [signatures |-> MapSeq(tx.signatures, LAMBDA s : Octets(SignatureBytes, s)),
     message |-> Some(create_message(tx.message))]

-----------------------------------------------------------------------------
(* TransactionStatusMeta                                                   *)

\* wincode writes an error in a form only it reads.
Serialized(err) == [serialized |-> err]
create_transaction_error(status) == Map(status, LAMBDA err : [err |-> Serialized(err)])

create_inner_instruction(ix) ==
    [program_id_index |-> ix.instruction.program_id_index, accounts |-> ix.instruction.accounts,
     data |-> ix.instruction.data, stack_height |-> ix.stack_height]
create_inner_instruction_vec(ixs) == MapSeq(ixs, create_inner_instruction)
create_inner_instructions(ixs) ==
    [index |-> ixs.index, instructions |-> create_inner_instruction_vec(ixs.instructions)]
create_inner_instructions_vec(ixs) == MapSeq(ixs, create_inner_instructions)

\* A missing ui_amount travels as 0.
create_token_balance(b) ==
    [account_index |-> b.account_index, mint |-> b.mint, owner |-> b.owner, program_id |-> b.program_id,
     ui_token_amount |-> Some([ui_amount |-> UnwrapOr(b.ui_token_amount.ui_amount, 0),
                               decimals |-> b.ui_token_amount.decimals,
                               amount |-> b.ui_token_amount.amount,
                               ui_amount_string |-> b.ui_token_amount.ui_amount_string])]
create_token_balances(balances) == MapSeq(balances, create_token_balance)

RewardTypes == <<"fee", "rent", "staking", "voting", "deactivated_stake">>

\* proto::RewardType, 0 for Unspecified
create_reward_type(rewardType) ==
    IF IsSome(rewardType) THEN CHOOSE n \in DOMAIN RewardTypes : RewardTypes[n] = Get(rewardType) ELSE 0

create_reward(r) ==
    [pubkey |-> r.pubkey, lamports |-> r.lamports, post_balance |-> r.post_balance,
     reward_type |-> create_reward_type(r.reward_type),
     commission |-> UnwrapOr(Map(r.commission, ToText), <<>>),
     commission_bps |-> UnwrapOr(Map(r.commission_bps, ToText), <<>>)]
create_rewards(rewards) == MapSeq(rewards, create_reward)

create_num_partitions(n) == [num_partitions |-> n]
create_rewards_obj(rewards, numPartitions) ==
    [rewards |-> create_rewards(rewards), num_partitions |-> Map(numPartitions, create_num_partitions)]

create_return_data(d) == [program_id |-> Octets(KeyBytes, d.program_id), data |-> d.data]

\* Inner instructions, log messages and return data have a flag for None; token balances
\* and rewards have none.
create_transaction_meta(meta) ==
    [err |-> create_transaction_error(meta.status),
     fee |-> meta.fee, pre_balances |-> meta.pre_balances, post_balances |-> meta.post_balances,
     inner_instructions |-> UnwrapOr(Map(meta.inner_instructions, create_inner_instructions_vec), <<>>),
     inner_instructions_none |-> ~IsSome(meta.inner_instructions),
     log_messages |-> UnwrapOr(meta.log_messages, <<>>),
     log_messages_none |-> ~IsSome(meta.log_messages),
     pre_token_balances |-> UnwrapOr(Map(meta.pre_token_balances, create_token_balances), <<>>),
     post_token_balances |-> UnwrapOr(Map(meta.post_token_balances, create_token_balances), <<>>),
     rewards |-> UnwrapOr(Map(meta.rewards, create_rewards), <<>>),
     loaded_writable_addresses |-> create_pubkeys(meta.loaded_addresses.writable),
     loaded_readonly_addresses |-> create_pubkeys(meta.loaded_addresses.readonly),
     return_data |-> Map(meta.return_data, create_return_data),
     return_data_none |-> ~IsSome(meta.return_data),
     compute_units_consumed |-> meta.compute_units_consumed, cost_units |-> meta.cost_units]

create_block_height(height) == [block_height |-> height]
create_timestamp(time) == [timestamp |-> time]
=============================================================================
