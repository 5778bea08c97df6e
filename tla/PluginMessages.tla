--------------------------- MODULE PluginMessages ---------------------------
(***************************************************************************)
(* What the plugin makes of the validator's notifications                  *)
(* (plugin/message.rs): from_geyser of every kind, and the message that is *)
(* broadcast. created_at is left out. An account or transaction keeps the  *)
(* identity of its notification, which stands for the Arc it is shared by. *)
(***************************************************************************)
EXTENDS ConvertTo, SequencesExt

\* From<&GeyserSlotStatus>: Rooted is Finalized, and a dead slot's error is kept aside.
SlotStatus(status) == IF status = "rooted" THEN "finalized" ELSE status

MessageSlot(n) ==
    [slot |-> n.slot, parent |-> n.parent, status |-> SlotStatus(n.status),
     dead_error |-> IF n.status = "dead" THEN Some(n.error) ELSE None]

Pubkey(octets) == Get(FromOctets(KeyBytes, octets))

MessageAccountInfo(info) ==
    [id |-> info.id, pubkey |-> Pubkey(info.pubkey), lamports |-> info.lamports, owner |-> Pubkey(info.owner),
     executable |-> info.executable, rent_epoch |-> info.rent_epoch, data |-> info.data,
     write_version |-> info.write_version, txn_signature |-> Map(info.txn, LAMBDA txn : <<txn.signature>>)]

MessageAccount(n) ==
    [f \in DOMAIN MessageAccountInfo(n.info) \cup {"slot", "is_startup"} |->
        CASE f = "slot" -> n.slot [] f = "is_startup" -> n.is_startup [] OTHER -> MessageAccountInfo(n.info)[f]]

\* The keys of a transaction: the static ones of its message and those loaded for it
AccountKeys(transaction, loaded) ==
    ToSet(transaction.message.account_keys) \cup ToSet(loaded.writable) \cup ToSet(loaded.readonly)

MessageTransactionInfo(info) ==
    [id |-> info.id, signature |-> info.signature, is_vote |-> info.is_vote,
     transaction |-> create_transaction(info.transaction),
     meta |-> create_transaction_meta(info.transaction_status_meta),
     index |-> info.index,
     account_keys |-> AccountKeys(info.transaction, info.transaction_status_meta.loaded_addresses)]

MessageTransaction(n) ==
    LET info == MessageTransactionInfo(n.info)
    IN  [f \in DOMAIN info \cup {"slot"} |-> IF f = "slot" THEN n.slot ELSE info[f]]

\* fill_account_keys: the same keys, from the converted transaction; an error unless
\* every key has the width of one.
FillAccountKeys(m) ==
    LET keys == UnwrapOr(Map(m.transaction.message, LAMBDA msg : msg.account_keys), <<>>)
                \o m.meta.loaded_writable_addresses \o m.meta.loaded_readonly_addresses
    IN  Map(Transpose(MapSeq(keys, LAMBDA k : FromOctets(KeyBytes, k))), ToSet)

NoAddresses == [writable |-> <<>>, readonly |-> <<>>]

\* from_geyser and from_geyser_v2: the first version has no shred indexes.
MessageDeshredTransactionInfo(info) ==
    LET loaded == UnwrapOr(info.loaded_addresses, NoAddresses)
        shreds == info.version = "v2"
    IN  [signature |-> info.signature, is_vote |-> info.is_vote,
         transaction |-> create_transaction(info.transaction),
         account_keys |-> AccountKeys(info.transaction, loaded),
         writable |-> loaded.writable, readonly |-> loaded.readonly,
         starting_shred_index |-> IF shreds THEN info.starting_shred_index ELSE 0,
         ending_shred_index |-> IF shreds THEN info.ending_shred_index ELSE 0]

MessageDeshredTransaction(n) ==
    LET info == MessageDeshredTransactionInfo(n.info)
    IN  [f \in DOMAIN info \cup {"slot"} |-> IF f = "slot" THEN n.slot ELSE info[f]]

MessageEntry(info) ==
    [slot |-> info.slot, index |-> info.index, num_hashes |-> info.num_hashes,
     hash |-> Get(FromOctets(KeyBytes, info.hash)),
     executed_transaction_count |-> info.executed_transaction_count,
     starting_transaction_index |-> info.starting_transaction_index]

MessageBlockMeta(info) ==
    [parent_slot |-> info.parent_slot, slot |-> info.slot,
     parent_blockhash |-> ToText(info.parent_blockhash), blockhash |-> ToText(info.blockhash),
     rewards |-> Some(create_rewards_obj(info.rewards.rewards, info.rewards.num_partitions)),
     block_time |-> Map(info.block_time, create_timestamp),
     block_height |-> Map(info.block_height, create_block_height),
     executed_transaction_count |-> info.executed_transaction_count, entries_count |-> info.entry_count]

\* MessageBlock::new: the meta and what was collected for the slot
MessageBlock(meta, transactions, accounts, entries) ==
    [f \in DOMAIN meta \cup {"transactions", "accounts", "entries", "updated_account_count"} |->
        CASE f = "transactions" -> transactions
          [] f = "accounts" -> accounts
          [] f = "entries" -> entries
          [] f = "updated_account_count" -> Len(accounts)
          [] OTHER -> meta[f]]

MessageOf(n) ==
    [kind |-> n.kind,
     body |-> CASE n.kind = "slot" -> MessageSlot(n)
                [] n.kind = "account" -> MessageAccount(n)
                [] n.kind = "transaction" -> MessageTransaction(n)
                [] n.kind = "deshred" -> MessageDeshredTransaction(n)
                [] n.kind = "entry" -> MessageEntry(n.info)
                [] n.kind = "block_meta" -> MessageBlockMeta(n.info)
                [] n.kind = "block" -> MessageBlock(MessageBlockMeta(n.info), MapSeq(n.transactions, MessageTransaction),
                                                    MapSeq(n.accounts, MessageAccount), MapSeq(n.entries, MessageEntry))]
=============================================================================
