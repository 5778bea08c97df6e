----------------------------- MODULE ConvertFrom ----------------------------
(***************************************************************************)
(* Updates back to the validator's types (plugin/convert_from.rs), as a    *)
(* client does that reads blocks and transactions. Every function returns  *)
(* a Result.                                                               *)
(***************************************************************************)
EXTENDS Options

create_pubkey(octets) == FromOctets(KeyBytes, octets)
create_pubkey_vec(pubkeys) == Transpose(MapSeq(pubkeys, create_pubkey))

create_loaded_addresses(writable, readonly) ==
    Transpose([writable |-> create_pubkey_vec(writable), readonly |-> create_pubkey_vec(readonly)])

create_message_instruction(ix) ==
    Transpose([program_id_index |-> ToU8(ix.program_id_index), accounts |-> Some(ix.accounts), data |-> Some(ix.data)])
create_message_instructions(ixs) == Transpose(MapSeq(ixs, create_message_instruction))

Header(h) ==
    Transpose([num_required_signatures |-> ToU8(h.num_required_signatures),
               num_readonly_signed_accounts |-> ToU8(h.num_readonly_signed_accounts),
               num_readonly_unsigned_accounts |-> ToU8(h.num_readonly_unsigned_accounts)])

Lookup(table) ==
    Transpose([account_key |-> create_pubkey(table.account_key),
               writable_indexes |-> Some(table.writable_indexes),
               readonly_indexes |-> Some(table.readonly_indexes)])

\* Mutant: V0 and V1 are told apart by `versioned` alone.
VersionOfVersioned(message) == IF message.versioned THEN "v0" ELSE "legacy"

\* config is set for V1 only; versioned is set for V0 and V1.
VersionOf(message) ==
    IF IsSome(message.config) THEN "v1" ELSE IF message.versioned THEN "v0" ELSE "legacy"

create_message(message) ==
    LET version == VersionOf(message)
        hash == FromOctets(KeyBytes, message.recent_blockhash)
        common == [version |-> Some(version),
                   header |-> AndThen(message.header, Header),
                   account_keys |-> create_pubkey_vec(message.account_keys),
                   instructions |-> create_message_instructions(message.instructions)]
    IN  CASE version = "v1" ->
                 Transpose([f \in DOMAIN common \cup {"config", "lifetime_specifier"} |->
                                CASE f = "config" -> message.config
                                  [] f = "lifetime_specifier" -> hash
                                  [] OTHER -> common[f]])
          [] version = "v0" ->
                 Transpose([f \in DOMAIN common \cup {"recent_blockhash", "address_table_lookups"} |->
                                CASE f = "recent_blockhash" -> hash
                                  [] f = "address_table_lookups" ->
                                         Transpose(MapSeq(message.address_table_lookups, Lookup))
                                  [] OTHER -> common[f]])
          [] version = "legacy" ->
                 Transpose([f \in DOMAIN common \cup {"recent_blockhash"} |->
                                IF f = "recent_blockhash" THEN hash ELSE common[f]])

create_tx_versioned(tx) ==
    Transpose([signatures |-> Transpose(MapSeq(tx.signatures, LAMBDA s : FromOctets(SignatureBytes, s))),
               message |-> AndThen(tx.message, create_message)])

-----------------------------------------------------------------------------
(* TransactionStatusMeta. An Option that is read as such is Some of an     *)
(* option here.                                                            *)

create_tx_error(err) == Some(Map(err, LAMBDA e : e.err.serialized))

create_meta_inner_instruction(ixs) ==
    Transpose([index |-> ToU8(ixs.index),
               instructions |-> Transpose(MapSeq(ixs.instructions, LAMBDA ix :
                   Transpose([instruction |-> create_message_instruction(ix), stack_height |-> Some(ix.stack_height)])))])
create_meta_inner_instructions(ixs) == Transpose(MapSeq(ixs, create_meta_inner_instruction))

RewardTypes == <<"fee", "rent", "staking", "voting", "deactivated_stake">>
RewardType(n) ==
    CASE n = 0 -> Some(None)
      [] n \in DOMAIN RewardTypes -> Some(Some(RewardTypes[n]))
      [] OTHER -> None

\* An empty text is None.
Commission(text, bound) ==
    IF text = <<>> THEN Some(None) ELSE Map(ParseBelow(bound, text), LAMBDA c : Some(c))

create_reward(r) ==
    Transpose([pubkey |-> Some(r.pubkey), lamports |-> Some(r.lamports), post_balance |-> Some(r.post_balance),
               reward_type |-> RewardType(r.reward_type),
               commission |-> Commission(r.commission, 256),
               commission_bps |-> Commission(r.commission_bps, 65536)])

create_rewards_obj(rewards) ==
    Transpose([rewards |-> Transpose(MapSeq(rewards.rewards, create_reward)),
               num_partitions |-> Some(Map(rewards.num_partitions, LAMBDA wrapper : wrapper.num_partitions))])

TokenBalance(b) ==
    AndThen(b.ui_token_amount, LAMBDA ui :
        Transpose([account_index |-> ToU8(b.account_index), mint |-> Some(b.mint), owner |-> Some(b.owner),
                   program_id |-> Some(b.program_id),
                   ui_token_amount |-> Transpose([ui_amount |-> Some(Some(ui.ui_amount)), decimals |-> ToU8(ui.decimals),
                                                  amount |-> Some(ui.amount),
                                                  ui_amount_string |-> Some(ui.ui_amount_string)])]))
create_token_balances(balances) == Transpose(MapSeq(balances, TokenBalance))

\* Return data are asked for unless the flag says there are none.
ReturnData(meta) ==
    IF meta.return_data_none THEN Some(None)
    ELSE AndThen(meta.return_data, LAMBDA d :
            Map(create_pubkey(d.program_id), LAMBDA p : Some([program_id |-> p, data |-> d.data])))

\* The flag, not the emptiness of the list, says whether there are inner instructions
\* and log messages.
create_tx_meta(meta) ==
    Transpose(
        [status |-> create_tx_error(meta.err),
         fee |-> Some(meta.fee), pre_balances |-> Some(meta.pre_balances), post_balances |-> Some(meta.post_balances),
         inner_instructions |-> IF meta.inner_instructions_none THEN Some(None)
                                ELSE Map(create_meta_inner_instructions(meta.inner_instructions), LAMBDA x : Some(x)),
         log_messages |-> Some(IF meta.log_messages_none THEN None ELSE Some(meta.log_messages)),
         pre_token_balances |-> Map(create_token_balances(meta.pre_token_balances), LAMBDA x : Some(x)),
         post_token_balances |-> Map(create_token_balances(meta.post_token_balances), LAMBDA x : Some(x)),
         rewards |-> Map(Transpose(MapSeq(meta.rewards, create_reward)), LAMBDA x : Some(x)),
         loaded_addresses |-> create_loaded_addresses(meta.loaded_writable_addresses, meta.loaded_readonly_addresses),
         return_data |-> ReturnData(meta),
         compute_units_consumed |-> Some(meta.compute_units_consumed), cost_units |-> Some(meta.cost_units)])

-----------------------------------------------------------------------------

create_tx_with_meta(tx) ==
    Transpose([transaction |-> AndThen(tx.transaction, create_tx_versioned),
               meta |-> AndThen(tx.meta, create_tx_meta)])

\* A block without rewards, time or height is an error.
create_block(block) ==
    Transpose([previous_blockhash |-> Some(block.parent_blockhash), blockhash |-> Some(block.blockhash),
               parent_slot |-> Some(block.parent_slot),
               transactions |-> Transpose(MapSeq(block.transactions, create_tx_with_meta)),
               rewards |-> AndThen(block.rewards, create_rewards_obj),
               block_time |-> Map(block.block_time, LAMBDA wrapper : Some(wrapper.timestamp)),
               block_height |-> Map(block.block_height, LAMBDA wrapper : Some(wrapper.block_height))])

\* The pubkey and the account
create_account(a) ==
    Transpose([pubkey |-> create_pubkey(a.pubkey), owner |-> create_pubkey(a.owner), lamports |-> Some(a.lamports),
               data |-> Some(a.data), executable |-> Some(a.executable), rent_epoch |-> Some(a.rent_epoch)])
=============================================================================
