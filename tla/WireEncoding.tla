---------------------------- MODULE WireEncoding ----------------------------
(***************************************************************************)
(* The hand-written protobuf encoding of updates (plugin/filter/message.rs *)
(* and encoder.rs). An encoding is a sequence of tokens of one byte each:  *)
(* a key, a number, or a piece of data; a pubkey, a signature and a hash   *)
(* count one byte, and every number fits in one. Lengths are computed by   *)
(* functions of their own before the bytes are written, and an account or  *)
(* a transaction that was encoded once, by whichever subscriber, leaves    *)
(* its bytes in pre_encoded for all.                                       *)
(***************************************************************************)
EXTENDS Filters

Key(tag) == <<"key", tag>>
Number(n) == <<"number", n>>
Data(bytes) == [i \in DOMAIN bytes |-> <<"data", bytes[i]>>]

\* What prost writes of a message of the generated code, and of one of the few that may
\* be empty: rewards, a time or a height
Encoded(message) == <<"encoded", message>>
EncodedNumber(n) == IF n = 0 THEN <<>> ELSE Encoded(n)
EncodedRewards(r) == IF r.rewards = <<>> /\ r.num_partitions = None THEN <<>> ELSE Encoded(r)

Flag(b) == IF b THEN 1 ELSE 0

\* A number or flag other than 0, and the bytes it takes
NumberField(tag, n) == IF n = 0 THEN <<>> ELSE <<Key(tag), Number(n)>>
NumberLen(n) == IF n = 0 THEN 0 ELSE 2

\* prost_field_encoded_len, prost_bytes_encode_raw
FieldLen(len) == 2 + len
Field(tag, content) == <<Key(tag), Number(Len(content))>> \o content
BytesField(tag, bytes) == Field(tag, Data(bytes))
TextField(tag, text) == IF text = <<>> THEN <<>> ELSE BytesField(tag, text)
TextLen(text) == IF text = <<>> THEN 0 ELSE FieldLen(Len(text))
OptionField(tag, option) == IF IsSome(option) THEN BytesField(tag, Get(option)) ELSE <<>>
OptionLen(option) == IF IsSome(option) THEN FieldLen(Len(Get(option))) ELSE 0

Total(seq, LenOf(_)) == FoldSeq(LAMBDA x, n : n + LenOf(x), 0, seq)
Each(seq, FieldOf(_)) == FlattenSeq([i \in DOMAIN seq |-> FieldOf(seq[i])])

-----------------------------------------------------------------------------
(* FilterAccountsDataSlice: a slice that reaches beyond the data is left   *)
(* out.                                                                    *)

\* Indexing data with a range that ends before it starts panics.
SlicePanics(slices, data) == \E i \in DOMAIN slices : slices[i].end <= Len(data) /\ slices[i].start > slices[i].end

GetSlice(slices, data) ==
    IF slices = <<>> THEN data
    ELSE Each(slices, LAMBDA s : IF Len(data) >= s.end THEN SubSeq(data, s.start + 1, s.end) ELSE <<>>)

GetSliceLen(slices, data) ==
    IF slices = <<>> THEN Len(data)
    ELSE Total(slices, LAMBDA s : IF Len(data) >= s.end THEN s.end - s.start ELSE 0)

-----------------------------------------------------------------------------
(* Accounts                                                                *)

AccountFields(a, data) ==
    BytesField(1, <<a.pubkey>>) \o NumberField(2, a.lamports) \o BytesField(3, <<a.owner>>)
    \o NumberField(4, Flag(a.executable)) \o NumberField(5, a.rent_epoch)
    \o (IF data = <<>> THEN <<>> ELSE BytesField(6, data))
    \o NumberField(7, a.write_version) \o OptionField(8, a.txn_signature)

\* AccountEncoder::pre_encode
PreEncodedAccount(a) == AccountFields(a, a.data)

\* account_encoded_len: pre is what get_pre_encoded gives at that moment.
AccountEncodedLen(a, slices, pre) ==
    IF slices = <<>> /\ IsSome(pre) THEN Len(Get(pre))
    ELSE LET dataLen == GetSliceLen(slices, a.data)
         IN  FieldLen(1) + NumberLen(a.lamports) + FieldLen(1) + NumberLen(Flag(a.executable))
             + NumberLen(a.rent_epoch) + (IF dataLen # 0 THEN FieldLen(dataLen) ELSE 0)
             + NumberLen(a.write_version) + OptionLen(a.txn_signature)

\* Mutant: the shared bytes are used although the subscriber asked for slices.
UsesPreEncodedAlways(slices) == TRUE
UsesPreEncoded(slices) == slices = <<>>

\* account_encode_raw: without slices the shared bytes are used, and made when missing.
AccountEncodeRaw(tag, a, slices, pre) ==
    IF UsesPreEncoded(slices)
    THEN Field(tag, IF IsSome(pre) THEN Get(pre) ELSE PreEncodedAccount(a))
    ELSE <<Key(tag), Number(AccountEncodedLen(a, slices, pre))>> \o AccountFields(a, GetSlice(slices, a.data))

-----------------------------------------------------------------------------
(* Transactions, slots, entries                                            *)

TxFields(tx) ==
    BytesField(1, <<tx.signature>>) \o NumberField(2, Flag(tx.is_vote)) \o BytesField(3, Encoded(tx.transaction))
    \o BytesField(4, Encoded(tx.meta)) \o NumberField(5, tx.index)

\* TransactionEncoder::pre_encode
PreEncodedTx(tx) == TxFields(tx)

TxEncodedLen(tx, pre) ==
    IF IsSome(pre) THEN Len(Get(pre))
    ELSE FieldLen(1) + NumberLen(Flag(tx.is_vote)) + FieldLen(Len(Encoded(tx.transaction))) + FieldLen(Len(Encoded(tx.meta)))
         + NumberLen(tx.index)

TxEncodeRaw(tag, tx, pre) == Field(tag, IF IsSome(pre) THEN Get(pre) ELSE PreEncodedTx(tx))

\* FilteredUpdateTransactionStatus
TxStatusFields(tx) ==
    NumberField(1, tx.slot) \o BytesField(2, <<tx.signature>>) \o NumberField(3, Flag(tx.is_vote))
    \o NumberField(4, tx.index) \o OptionField(5, Map(tx.meta.err, Encoded))
TxStatusLen(tx) ==
    NumberLen(tx.slot) + FieldLen(1) + NumberLen(Flag(tx.is_vote)) + NumberLen(tx.index) + OptionLen(Map(tx.meta.err, Encoded))

\* FilteredUpdateDeshredTransaction, which is never shared
DeshredTxFields(tx) ==
    BytesField(1, <<tx.signature>>) \o NumberField(2, Flag(tx.is_vote)) \o BytesField(3, Encoded(tx.transaction))
    \o Each(tx.writable, LAMBDA pk : BytesField(4, <<pk>>)) \o Each(tx.readonly, LAMBDA pk : BytesField(5, <<pk>>))
    \o NumberField(6, tx.starting_shred_index) \o NumberField(7, tx.ending_shred_index)
DeshredTxLen(tx) ==
    FieldLen(1) + NumberLen(Flag(tx.is_vote)) + FieldLen(Len(Encoded(tx.transaction)))
    + Len(tx.writable) * FieldLen(1) + Len(tx.readonly) * FieldLen(1)
    + NumberLen(tx.starting_shred_index) + NumberLen(tx.ending_shred_index)

\* FilteredUpdateSlot; processed is the default of SlotStatusProto.
StatusNumber(status) ==
    CHOOSE n \in 0 .. 6 : status = <<"processed", "confirmed", "finalized", "first_shred_received",
                                      "completed", "created_bank", "dead">>[n + 1]
SlotFields(m) ==
    NumberField(1, m.slot) \o (IF IsSome(m.parent) THEN <<Key(2), Number(Get(m.parent))>> ELSE <<>>)
    \o NumberField(3, StatusNumber(m.status)) \o OptionField(4, m.dead_error)
SlotLen(m) ==
    NumberLen(m.slot) + (IF IsSome(m.parent) THEN 2 ELSE 0)
    + NumberLen(StatusNumber(m.status)) + OptionLen(m.dead_error)

\* FilteredUpdateEntry
EntryFields(e) ==
    NumberField(1, e.slot) \o NumberField(2, e.index) \o NumberField(3, e.num_hashes)
    \o BytesField(4, <<e.hash>>) \o NumberField(5, e.executed_transaction_count)
    \o NumberField(6, e.starting_transaction_index)
EntryLen(e) ==
    NumberLen(e.slot) + NumberLen(e.index) + NumberLen(e.num_hashes) + FieldLen(1)
    + NumberLen(e.executed_transaction_count) + NumberLen(e.starting_transaction_index)

-----------------------------------------------------------------------------
(* Blocks: FilteredUpdateBlock, given the fields of its transactions and   *)
(* accounts as they are written, or their lengths                          *)

BlockFields(b, transactions, accounts) ==
    NumberField(1, b.slot) \o TextField(2, b.blockhash) \o OptionField(3, Map(b.rewards, EncodedRewards))
    \o OptionField(4, Map(b.block_time, LAMBDA t : EncodedNumber(t.timestamp)))
    \o OptionField(5, Map(b.block_height, LAMBDA h : EncodedNumber(h.block_height)))
    \o transactions
    \o NumberField(7, b.parent_slot) \o TextField(8, b.parent_blockhash)
    \o NumberField(9, b.executed_transaction_count) \o NumberField(10, b.updated_account_count)
    \o accounts
    \o NumberField(12, b.entries_count) \o Each(b.entries, LAMBDA e : Field(13, EntryFields(e)))

BlockLen(b, transactionsLen, accountsLen) ==
    NumberLen(b.slot) + TextLen(b.blockhash) + OptionLen(Map(b.rewards, EncodedRewards))
    + OptionLen(Map(b.block_time, LAMBDA t : EncodedNumber(t.timestamp)))
    + OptionLen(Map(b.block_height, LAMBDA h : EncodedNumber(h.block_height)))
    + transactionsLen
    + NumberLen(b.parent_slot) + TextLen(b.parent_blockhash) + NumberLen(b.executed_transaction_count)
    + NumberLen(b.updated_account_count) + accountsLen
    + NumberLen(b.entries_count) + Total(b.entries, LAMBDA e : FieldLen(EntryLen(e)))

-----------------------------------------------------------------------------
(* An update: FilteredUpdate and FilteredUpdateDeshred. pre gives the      *)
(* shared bytes of each account and transaction.                           *)

\* Tags of the two oneofs
TagOf(u, deshred) ==
    IF deshred THEN CASE u.kind = "deshred" -> 2 [] u.kind = "ping" -> 3 [] u.kind = "pong" -> 4 [] u.kind = "slot" -> 6
    ELSE CASE u.kind = "account" -> 2 [] u.kind = "slot" -> 3 [] u.kind = "transaction" -> 4
           [] u.kind = "block" -> 5 [] u.kind = "ping" -> 6 [] u.kind = "block_meta" -> 7 [] u.kind = "entry" -> 8
           [] u.kind = "pong" -> 9 [] u.kind = "transaction_status" -> 10
CreatedAtTag(deshred) == IF deshred THEN 5 ELSE 11

\* encoded_len of the message of an update
BodyLen(u, slices, pre) ==
    LET m == u.message
    IN  CASE u.kind = "account" ->
                 FieldLen(AccountEncodedLen(m, slices, pre[m.id])) + NumberLen(m.slot) + NumberLen(Flag(m.is_startup))
          [] u.kind = "transaction" -> FieldLen(TxEncodedLen(m, pre[m.id])) + NumberLen(m.slot)
          [] u.kind = "transaction_status" -> TxStatusLen(m)
          [] u.kind = "slot" -> SlotLen(m)
          [] u.kind = "entry" -> EntryLen(m)
          [] u.kind = "block_meta" -> Len(Encoded(m))
          [] u.kind = "ping" -> 0
          [] u.kind = "pong" -> NumberLen(m.id)
          [] u.kind = "deshred" -> FieldLen(DeshredTxLen(m)) + NumberLen(m.slot)
          [] u.kind = "block" -> 
                 BlockLen(m, Total(m.transactions, LAMBDA tx : FieldLen(TxEncodedLen(tx, pre[tx.id]))),
                             Total(m.accounts, LAMBDA a : FieldLen(AccountEncodedLen(a, slices, pre[a.id]))))

\* The accounts and transactions inside an update, and the tags of their fields
Accounts(u) ==
    CASE u.kind = "account" -> <<u.message>> [] u.kind = "block" -> u.message.accounts [] OTHER -> <<>>
Transactions(u) ==
    CASE u.kind \in {"transaction", "deshred"} -> <<u.message>> [] u.kind = "block" -> u.message.transactions
      [] OTHER -> <<>>
EncodingPanics(u, slices) == \E a \in ToSet(Accounts(u)) : SlicePanics(slices, a.data)
AccountTag(u) == IF u.kind = "block" THEN 11 ELSE 1
TxTag(u) == IF u.kind = "block" THEN 6 ELSE 1

\* encode_raw of the message of an update, given the fields of its transactions and
\* accounts as they are written
Body(u, transactions, accounts) ==
    LET m == u.message
    IN  CASE u.kind = "account" -> accounts \o NumberField(2, m.slot) \o NumberField(3, Flag(m.is_startup))
          [] u.kind \in {"transaction", "deshred"} -> transactions \o NumberField(2, m.slot)
          [] u.kind = "transaction_status" -> TxStatusFields(m)
          [] u.kind = "slot" -> SlotFields(m)
          [] u.kind = "entry" -> EntryFields(m)
          [] u.kind = "block_meta" -> Data(Encoded(m))
          [] u.kind = "ping" -> <<>>
          [] u.kind = "pong" -> NumberField(1, m.id)
          [] u.kind = "block" -> BlockFields(m, transactions, accounts)

EncodeBody(u, slices, pre) ==
    Body(u, Each(Transactions(u), LAMBDA tx :
                IF u.kind = "deshred" THEN <<Key(TxTag(u)), Number(DeshredTxLen(tx))>> \o DeshredTxFields(tx)
                ELSE TxEncodeRaw(TxTag(u), tx, pre[tx.id])),
            Each(Accounts(u), LAMBDA a : AccountEncodeRaw(AccountTag(u), a, slices, pre[a.id])))

\* OnceLock::set: the first bytes stay. A deshred transaction has no shared bytes.
AfterEncoding(u, slices, pre) ==
    LET transactions == IF u.kind = "deshred" THEN {} ELSE ToSet(Transactions(u))
        accounts == IF UsesPreEncoded(slices) THEN ToSet(Accounts(u)) ELSE {}
    IN
    [id \in DOMAIN pre |->
        IF IsSome(pre[id]) THEN pre[id]
        ELSE IF \E tx \in transactions : tx.id = id
        THEN Some(PreEncodedTx(CHOOSE tx \in transactions : tx.id = id))
        ELSE IF \E a \in accounts : a.id = id
        THEN Some(PreEncodedAccount(CHOOSE a \in accounts : a.id = id))
        ELSE None]

\* The names and the key of the message, before its length
UpdateHead(u, deshred) == Each(u.filters, LAMBDA name : BytesField(1, <<name>>)) \o <<Key(TagOf(u, deshred))>>
UpdateTail(deshred) == BytesField(CreatedAtTag(deshred), <<>>)

-----------------------------------------------------------------------------
(* What a derived encoder writes of as_subscribe_update: every length is   *)
(* that of what follows, and the data are the subscriber's own slices.     *)

ProtoUpdate(u, slices, deshred) ==
    LET body == Body(u, Each(Transactions(u), LAMBDA tx :
                            Field(TxTag(u), IF u.kind = "deshred" THEN DeshredTxFields(tx) ELSE TxFields(tx))),
                        Each(Accounts(u), LAMBDA a :
                            Field(AccountTag(u), AccountFields(a, GetSlice(slices, a.data)))))
    IN  UpdateHead(u, deshred) \o <<Number(Len(body))>> \o body \o UpdateTail(deshred)
=============================================================================
