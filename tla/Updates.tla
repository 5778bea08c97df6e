------------------------------ MODULE Updates -------------------------------
(***************************************************************************)
(* Subscribers filter and encode the messages they receive, each in a task *)
(* of its own, over messages they share: a message's length is computed in *)
(* one step and its bytes are written in a later one, and in between       *)
(* another subscriber may have left the shared encoding. What arrives is   *)
(* read back by the client into the validator's types.                     *)
(***************************************************************************)
EXTENDS WireEncoding, PluginMessages

From == INSTANCE ConvertFrom

CONSTANTS
    Subscribers,
    Requests,       \* subscriber -> the requests it may send first
    Changes,        \* subscriber -> the requests it may send later
    Notifications,  \* what the validator notifies, and the blocks of frozen slots
    Ids,            \* identities of the shared accounts and transactions
    PingIds         \* ids of pings

ASSUME UpdatesAssumption == IsFiniteSet(Subscribers)

VARIABLES
    filter,         \* subscriber -> the filter in force
    refused,        \* the subscribers that sent a request that was refused
    pc,             \* subscriber -> "idle" | "encoding" | "writing" | "written" | "panicked"
    updates,        \* subscriber -> updates of its last message still to be sent
    data_slice,     \* subscriber -> the slices these updates carry
    buf,            \* subscriber -> bytes of the update being encoded
    pre_encoded     \* identity -> Option: pre_encoded of the account or transaction

vars == <<filter, refused, pc, updates, data_slice, buf, pre_encoded>>

Init ==
    /\ filter \in [Subscribers -> {DefaultFilter, DefaultDeshredFilter}]
    /\ refused = {}
    /\ pc = [s \in Subscribers |-> "idle"]
    /\ updates = [s \in Subscribers |-> <<>>]
    /\ data_slice = [s \in Subscribers |-> <<>>]
    /\ buf = [s \in Subscribers |-> <<>>]
    /\ pre_encoded = [id \in Ids |-> None]

\* What the plugin broadcasts
Messages == {MessageOf(n) : n \in Notifications}

\* SubscribeDeshred rather than Subscribe, whose messages are of other types
IsDeshred(request) == "deshred_transactions" \in DOMAIN request
Deshred(s) == IsDeshred(filter[s])

\* Slices apply to accounts; a deshred filter has none.
SlicesOf(s) == IF Deshred(s) THEN <<>> ELSE filter[s].accounts_data_slice

\* The filter receiver parses a request, the first or a later one, while the updates of the
\* filter before may still be on their way. One that is refused ends the session behind them.
Subscribe(s, request) ==
    /\ s \notin refused /\ pc[s] # "panicked"
    /\ IsDeshred(request) = Deshred(s)
    /\ IF (IF Deshred(s) THEN DeshredFilterAccepted(request) ELSE FilterAccepted(request))
       THEN /\ filter' = [filter EXCEPT ![s] = IF Deshred(s) THEN DeshredFilterOf(request) ELSE FilterOf(request)]
            /\ UNCHANGED refused
       ELSE refused' = refused \cup {s} /\ UNCHANGED filter
    /\ UNCHANGED <<pc, updates, data_slice, buf, pre_encoded>>

\* What is to be sent goes to the stream with the slices of the filter as it is now.
Queue(s, outgoing) ==
    /\ pc[s] = "idle" /\ s \notin refused
    /\ outgoing # <<>>
    /\ updates' = [updates EXCEPT ![s] = outgoing]
    /\ data_slice' = [data_slice EXCEPT ![s] = SlicesOf(s)]
    /\ pc' = [pc EXCEPT ![s] = "encoding"]
    /\ UNCHANGED <<filter, refused, buf, pre_encoded>>

\* The update new_empty makes of a ping or a pong
EmptyUpdate(kind, message) == <<[filters |-> <<>>, kind |-> kind, message |-> message]>>

\* A request with a ping, at any time, is answered with a pong and changes no filter.
Ping(s, id) == Queue(s, EmptyUpdate("pong", [id |-> id]))

\* The ping task of the session
ServerPings(s) == Queue(s, EmptyUpdate("ping", <<>>))

UpdatesFor(s, message) ==
    IF Deshred(s) THEN GetDeshredUpdates(filter[s], message, "processed")
                     ELSE GetUpdates(filter[s], message, filter[s].commitment)

\* client_loop receives a message and filters it.
Receive(s, message) == Queue(s, UpdatesFor(s, message))

\* message::encode writes the key and the length ...
WriteLength(s) ==
    /\ pc[s] = "encoding"
    /\ LET u == Head(updates[s])
       IN  /\ ~EncodingPanics(u, data_slice[s])
           /\ buf' = [buf EXCEPT ![s] = UpdateHead(u, Deshred(s))
                                         \o <<Number(BodyLen(u, data_slice[s], pre_encoded))>>]
    /\ pc' = [pc EXCEPT ![s] = "writing"]
    /\ UNCHANGED <<filter, refused, updates, data_slice, pre_encoded>>

\* ... unless the range of a slice is none, which unwinds the task that encodes, and the
\* stream with it ...
EncoderPanics(s) ==
    /\ pc[s] = "encoding"
    /\ EncodingPanics(Head(updates[s]), data_slice[s])
    /\ pc' = [pc EXCEPT ![s] = "panicked"]
    /\ updates' = [updates EXCEPT ![s] = <<>>]
    /\ UNCHANGED <<filter, refused, data_slice, buf, pre_encoded>>

\* ... and then the message, which leaves its shared parts encoded.
WriteBody(s) ==
    /\ pc[s] = "writing"
    /\ LET u == Head(updates[s])
       IN  /\ buf' = [buf EXCEPT ![s] = @ \o EncodeBody(u, data_slice[s], pre_encoded) \o UpdateTail(Deshred(s))]
           /\ pre_encoded' = AfterEncoding(u, data_slice[s], pre_encoded)
    /\ pc' = [pc EXCEPT ![s] = "written"]
    /\ UNCHANGED <<filter, refused, updates, data_slice>>

Sent(s) ==
    /\ pc[s] = "written"
    /\ updates' = [updates EXCEPT ![s] = Tail(@)]
    /\ data_slice' = [data_slice EXCEPT ![s] = IF Len(updates[s]) > 1 THEN @ ELSE <<>>]
    /\ buf' = [buf EXCEPT ![s] = <<>>]
    /\ pc' = [pc EXCEPT ![s] = IF Len(updates[s]) > 1 THEN "encoding" ELSE "idle"]
    /\ UNCHANGED <<filter, refused, pre_encoded>>

\* bound: a subscriber that has its first filter only sends the requests of Changes.
Sendable(s) == IF filter[s] \in {DefaultFilter, DefaultDeshredFilter} THEN Requests[s] ELSE Changes[s]

Next ==
    \E s \in Subscribers :
        \/ \E request \in Sendable(s) : Subscribe(s, request)
        \/ \E id \in PingIds : Ping(s, id)
        \/ ServerPings(s)
        \/ \E message \in Messages : Receive(s, message)
        \/ WriteLength(s)
        \/ EncoderPanics(s)
        \/ WriteBody(s)
        \/ Sent(s)

Spec == Init /\ [][Next]_vars

-----------------------------------------------------------------------------
(* Properties                                                              *)

Bodies(kind) == {m.body : m \in {x \in Messages : x.kind = kind}}
Ordinary == {s \in Subscribers : ~Deshred(s)}

\* What a subscriber is sent is the protobuf encoding of the update: every length is
\* that of the bytes behind it and the account data are its own slices, whoever encoded
\* the shared account or transaction first and between whichever steps. The slices of an
\* accepted request never send a byte of an account twice.
WireIsProto ==
    /\ \A s \in Subscribers : pc[s] = "written" =>
          buf[s] = ProtoUpdate(Head(updates[s]), data_slice[s], Deshred(s))
    /\ \A s \in Ordinary : \A account \in Bodies("account") :
          Len(GetSlice(SlicesOf(s), account.data)) <= Len(account.data)

\* The choice among the five strategies does not show: whatever FilterAccountsStrategy
\* picks for the shape and size of a filter, an account goes to exactly the filters that
\* want it, in their order (save for the one known case).
StrategiesAgree ==
    \A s \in Ordinary :
        LET aggregates == Aggregates(filter[s].accounts)
        IN  ListBesideCuckooOnUnwalkedAxis(aggregates) \/
            \A account \in Bodies("account") : GetFilters(aggregates, account) = WantedBy(aggregates, account)

\* The three places that hold the keys of a transaction against an include list and a
\* cuckoo filter agree: a block update holds exactly the transactions that a transaction
\* filter with the same lists lets through, and so does a deshred filter without cuckoo.
SameRuleEverywhere ==
    \A s \in Ordinary : \A i \in DOMAIN filter[s].blocks : \A tx \in Bodies("transaction") :
        LET f == filter[s].blocks[i]
            asTransactions == [name |-> f.name, vote |-> None, failed |-> None, signature |-> None,
                               include |-> f.include, exclude |-> {}, required |-> {},
                               cuckoo |-> f.cuckoo, token_accounts |-> None]
        IN  /\ BlockMatchesKeys(f, tx.account_keys) <=> TransactionMatches(asTransactions, tx)
            /\ f.cuckoo = None => (BlockMatchesKeys(f, tx.account_keys) <=> DeshredMatches(asTransactions, tx))

\* What a filter lets through does not depend on which of the code's matchers decides:
\* neither on the strategy picked for the accounts, nor on the kind of message a list of
\* keys is held against.
MatchersAgree == StrategiesAgree /\ SameRuleEverywhere

-----------------------------------------------------------------------------
(* What the client reads                                                   *)

\* The one thing the protobuf messages cannot say: no token balances, no rewards and no
\* ui_amount come back as empty and 0.
Normal(info) ==
    LET balances(option) == Some(MapSeq(UnwrapOr(option, <<>>),
                                LAMBDA b : [b EXCEPT !.ui_token_amount.ui_amount = Some(UnwrapOr(@, 0))]))
    IN  [transaction |-> info.transaction,
         meta |-> [info.transaction_status_meta EXCEPT !.pre_token_balances = balances(@),
                                                       !.post_token_balances = balances(@),
                                                       !.rewards = Some(UnwrapOr(@, <<>>))]]

Notified(kind) == {n \in Notifications : n.kind = kind}
TransactionInfos ==
    {n.info : n \in Notified("transaction")} \cup UNION {{t.info : t \in ToSet(n.transactions)} : n \in Notified("block")}
InfoOf(tx) == CHOOSE info \in TransactionInfos : info.id = tx.id

\* The messages of an update as the client's decoder gives them
TransactionUpdate(tx) == [transaction |-> Some(tx.transaction), meta |-> Some(tx.meta)]
BlockUpdate(b) == [b EXCEPT !.transactions = MapSeq(@, TransactionUpdate)]
AccountUpdate(a, slices) ==
    [a EXCEPT !.pubkey = Octets(KeyBytes, @), !.owner = Octets(KeyBytes, @), !.data = GetSlice(slices, @)]

\* convert_from undoes convert_to: a client that reads a transaction or a block has the
\* validator's, with version, errors, rewards and everything that may be absent; a block
\* is an error for it only if the validator gave it no time or no height. The keys it
\* finds in a transaction are the ones the server filtered by.
ClientReadsBack ==
    \A s \in Subscribers : pc[s] = "written" =>
        LET u == Head(updates[s])
            m == u.message
        IN  /\ u.kind # "deshred" => \A tx \in ToSet(Transactions(u)) :
                  /\ From!create_tx_with_meta(TransactionUpdate(tx)) = Some(Normal(InfoOf(tx)))
                  /\ FillAccountKeys(tx) = Some(tx.account_keys)
            /\ \A a \in ToSet(Accounts(u)) :
                  LET read == From!create_account(AccountUpdate(a, data_slice[s]))
                  IN  IsSome(read) /\ Get(read).pubkey = a.pubkey /\ Get(read).owner = a.owner
            /\ u.kind = "block" =>
                  LET read == From!create_block(BlockUpdate(m))
                  IN  \/ ~IsSome(read) /\ \E n \in Notified("block") :
                             n.info.slot = m.slot /\ (n.info.block_time = None \/ n.info.block_height = None)
                      \/ \E n \in Notified("block") :
                             /\ n.info.slot = m.slot
                             /\ Get(read).rewards = n.info.rewards
                             /\ Get(read).block_time = n.info.block_time
                             /\ Get(read).block_height = n.info.block_height
=============================================================================
