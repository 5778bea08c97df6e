---------------------------- MODULE GossipProofs ----------------------------
(***************************************************************************)
(* The contact info feed implements TopologyView, for any number of        *)
(* subscribers, nodes and notifications and any capacity of ring and       *)
(* channel.  What is on its way to a client is a chain of revisions, from  *)
(* the one it has read last to the one its loop has sent last.             *)
(***************************************************************************)
EXTENDS Gossip, TLAPS

\* Messages and tables as the plugin makes them.
Nodes == {MessageContactInfo(p, i) : p \in Pubkeys, i \in Infos}
GoodTable(t) ==
    /\ t \in Tables
    /\ \A p \in DOMAIN t : t[p] \in Nodes /\ t[p].pubkey = p
Events ==
    {notify_contact_info(p, i, b) : p \in Pubkeys, i \in Infos, b \in BOOLEAN}
    \cup {notify_contact_info_removed(p) : p \in Pubkeys}
Messages ==
    {create_gossip_ping, GossipError}
    \cup {create_gossip_snapshot(r, t) : r \in Nat, t \in Tables}
    \cup {create_gossip_update(r, n) : r \in Nat, n \in Events}

\* The table at a revision.
TableAt(r) == IF r = 0 THEN EmptyTable ELSE published[r]

TableInv ==
    /\ log \in Seq(Events)
    /\ published \in Seq(Tables) /\ Len(published) = Len(log)
    /\ nodes = TableAt(Len(log))
    /\ \A r \in 0 .. Len(log) : GoodTable(TableAt(r))
    /\ \A r \in 1 .. Len(log) : published[r] = ApplyTo(TableAt(r - 1), log[r])
    /\ held # <<>> => held[1] \in Events
    /\ complete \in BOOLEAN /\ (complete => Len(log) >= StartupCount)

\* A message that takes a client from one revision to another.
Link(m, from, to) ==
    \/ to = from /\ m \in {create_gossip_ping, GossipError}
    \/ /\ to >= from /\ to >= StartupCount
       /\ m = create_gossip_snapshot(to, TableAt(to))
    \/ /\ to = from + 1 /\ to >= StartupCount
       /\ m = create_gossip_update(to, log[to])

\* The subscriber's loop has sent everything up to last.
SentUpTo(c, last) ==
    /\ pc[c] \notin {"waiting", "send_error", "done"} => complete
    /\ pc[c] \in {"send_snapshot", "stream", "send_update"} =>
         /\ snapshot[c].rev \in StartupCount .. Len(log)
         /\ snapshot[c].topology = TableAt(snapshot[c].rev)
    /\ pc[c] = "send_snapshot" => last <= snapshot[c].rev /\ next[c] <= snapshot[c].rev + 1
    /\ pc[c] = "stream" => /\ snapshot[c].rev <= last /\ next[c] - 1 <= last
                           /\ last \in {snapshot[c].rev, next[c] - 1}
    /\ pc[c] = "send_update" => /\ last = next[c] - 1
                                /\ next[c] <= Len(log) /\ next[c] > snapshot[c].rev

\* The revisions that the messages in the channel of a client stand for.
Chain(c, revs) ==
    /\ revs \in [0 .. Len(chan[c]) -> 0 .. Len(log)]
    /\ revs[0] = clientRev[c]
    /\ \A i \in 1 .. Len(chan[c]) : Link(chan[c][i], revs[i - 1], revs[i])
    /\ SentUpTo(c, revs[Len(chan[c])])

ViewInv(c) ==
    \/ clientView[c] = None /\ clientRev[c] = 0
    \/ clientView[c] = Some(TableAt(clientRev[c]))

ClientTypes ==
    /\ pc \in [Clients -> LoopStates]
    /\ next \in [Clients -> Nat] /\ \A c \in Clients : next[c] \in 1 .. Len(log) + 1
    /\ DOMAIN snapshot = Clients /\ snapshot = [c \in Clients |-> snapshot[c]]
    /\ chan \in [Clients -> Seq(Messages)]
    /\ clientRev \in [Clients -> Nat]
    /\ DOMAIN clientView = Clients /\ clientView = [c \in Clients |-> clientView[c]]

ClientInv(c) == ViewInv(c) /\ \E revs \in [0 .. Len(chan[c]) -> 0 .. Len(log)] : Chain(c, revs)

FeedInv == TableInv /\ ClientTypes /\ \A c \in Clients : ClientInv(c)

-----------------------------------------------------------------------------
(* Tables and messages                                                     *)

LEMMA NodesType ==
    ASSUME NEW n \in Nodes
    PROVE  /\ n = [pubkey |-> n.pubkey, shred_version |-> n.shred_version, rpc |-> n.rpc]
           /\ n \in [pubkey : Pubkeys, shred_version : {i.shred_version : i \in Infos},
                     rpc : {i.rpc : i \in Infos}]
           /\ IsSome(n.rpc) => n.rpc = Some(Get(n.rpc)) /\ Get(n.rpc) \in 0 .. 2^16 - 1
BY GossipAssumption DEF Nodes, MessageContactInfo, GossipAssumption

LEMMA EventShape ==
    ASSUME NEW n \in Events
    PROVE  \/ n.kind = "node" /\ n.message \in Nodes /\ n.message.pubkey \in Pubkeys
           \/ n.kind = "removed" /\ n.message = [pubkey |-> n.message.pubkey] /\ n.message.pubkey \in Pubkeys
BY DEF Events, notify_contact_info, notify_contact_info_removed, Nodes, MessageContactInfo,
       MessageContactInfoRemoved

LEMMA ApplyGood ==
    ASSUME NEW t, GoodTable(t), NEW n \in Events
    PROVE  GoodTable(ApplyTo(t, n))
<1> DEFINE R == [pubkey : Pubkeys, shred_version : {i.shred_version : i \in Infos}, rpc : {i.rpc : i \in Infos}]
           a == ApplyTo(t, n)
<1>1. PICK S \in SUBSET Pubkeys : t \in [S -> R]
  BY DEF GoodTable, Tables
<1>2. ASSUME NEW D \in SUBSET Pubkeys, a = [p \in D |-> a[p]],
             \A p \in D : a[p] \in Nodes /\ a[p].pubkey = p
      PROVE  GoodTable(a)
  <2>1. \A p \in D : a[p] \in R
    BY <1>2, NodesType
  <2> HIDE DEF R, a
  <2>2. a \in [D -> R] /\ DOMAIN a = D
    BY <1>2, <2>1
  <2> QED
    BY <1>2, <2>2 DEF GoodTable, Tables, R
<1>3. CASE n.kind = "node"
  <2>1. n.message \in Nodes /\ n.message.pubkey \in Pubkeys
    BY <1>3, EventShape
  <2>2. a = [p \in S \cup {n.message.pubkey} |-> IF p = n.message.pubkey THEN n.message ELSE t[p]]
    BY <1>1, <1>3 DEF ApplyTo
  <2>3. \A p \in S : t[p] \in Nodes /\ t[p].pubkey = p
    BY <1>1 DEF GoodTable
  <2> HIDE DEF a
  <2>4. \A p \in S \cup {n.message.pubkey} : a[p] \in Nodes /\ a[p].pubkey = p
    BY <2>1, <2>2, <2>3
  <2>5. S \cup {n.message.pubkey} \in SUBSET Pubkeys
    BY <2>1
  <2>6. a = [p \in S \cup {n.message.pubkey} |-> a[p]]
    BY <2>2
  <2> QED
    BY <1>2, <2>4, <2>5, <2>6 DEF a
<1>4. CASE n.kind # "node"
  <2>1. a = [p \in S \ {n.message.pubkey} |-> t[p]]
    BY <1>1, <1>4 DEF ApplyTo
  <2>2. \A p \in S : t[p] \in Nodes /\ t[p].pubkey = p
    BY <1>1 DEF GoodTable
  <2> HIDE DEF a
  <2>3. \A p \in S \ {n.message.pubkey} : a[p] \in Nodes /\ a[p].pubkey = p
    BY <2>1, <2>2
  <2>4. a = [p \in S \ {n.message.pubkey} |-> a[p]]
    BY <2>1
  <2> QED
    BY <1>2, <2>3, <2>4 DEF a
<1> QED
  BY <1>3, <1>4

\* What the client reads of a node is what the validator told: the key's width is the one
\* the reader asks for, and the printed address parses.
LEMMA NodeRoundTrip ==
    ASSUME NEW n \in Nodes
    PROVE  NodeOf(create_contact_info_node(n)) = n
<1> DEFINE wire == create_contact_info_node(n)
<1>1. /\ wire.pubkey = Octets(KeyBytes, n.pubkey) /\ wire.shred_version = n.shred_version
      /\ wire.rpc = Map(n.rpc, ToText)
  BY DEF create_contact_info_node
<1>2. Get(FromOctets(KeyBytes, wire.pubkey)) = n.pubkey
  BY <1>1 DEF Octets, FromOctets, Get, Some
<1>3. AndThen(wire.rpc, LAMBDA text : ParseBelow(2^16, text)) = n.rpc
  <2>1. CASE ~IsSome(n.rpc)
    BY <1>1, <2>1 DEF Map, AndThen, IsSome, None
  <2>2. CASE IsSome(n.rpc)
    <3> DEFINE port == Get(n.rpc)
    <3>1. n.rpc = Some(port) /\ port \in 0 .. 2^16 - 1
      BY <2>2, NodesType
    <3>2. wire.rpc = Some(<<port>>)
      BY <1>1, <2>2 DEF Map, ToText
    <3>3. AndThen(wire.rpc, LAMBDA text : ParseBelow(2^16, text)) = ParseBelow(2^16, <<port>>)
      BY <3>2 DEF AndThen, IsSome, Some, None, Get
    <3>4. ParseBelow(2^16, <<port>>) = Some(port)
      BY <3>1 DEF ParseBelow, Some
    <3> QED
      BY <3>1, <3>3, <3>4
  <2> QED
    BY <2>1, <2>2
<1>4. NodeOf(wire) = [pubkey |-> n.pubkey, shred_version |-> n.shred_version, rpc |-> n.rpc]
  BY <1>1, <1>2, <1>3 DEF NodeOf
<1> QED
  BY <1>4, NodesType

\* A client that reads a snapshot has the table it was made of.
LEMMA SnapshotRoundTrip ==
    ASSUME NEW t, GoodTable(t), NEW view, NEW r
    PROVE  Seen(view, create_gossip_snapshot(r, t)) = t
<1> DEFINE m == create_gossip_snapshot(r, t)
           topology == {NodeOf(node) : node \in m.nodes}
<1>1. m.oneof = "snapshot" /\ m.nodes = {create_contact_info_node(t[p]) : p \in DOMAIN t}
  BY DEF create_gossip_snapshot
<1>2. topology = {t[p] : p \in DOMAIN t}
  BY <1>1, NodeRoundTrip DEF GoodTable
<1>3. Seen(view, m) = [p \in {node.pubkey : node \in topology} |-> CHOOSE node \in topology : node.pubkey = p]
  BY <1>1 DEF Seen
<1> HIDE DEF m, topology
<1>4. {node.pubkey : node \in topology} = DOMAIN t
  BY <1>2 DEF GoodTable
<1>5. ASSUME NEW p \in DOMAIN t
      PROVE  (CHOOSE node \in topology : node.pubkey = p) = t[p]
  <2>1. t[p] \in topology /\ t[p].pubkey = p
    BY <1>2 DEF GoodTable
  <2>2. \A node \in topology : node.pubkey = p => node = t[p]
    BY <1>2 DEF GoodTable
  <2> QED
    BY <2>1, <2>2
<1>6. t = [p \in DOMAIN t |-> t[p]]
  BY DEF GoodTable, Tables
<1> QED
  BY <1>3, <1>4, <1>5, <1>6 DEF m

\* A client that reads an update does to its view what the writer did to the table.
LEMMA UpdateRoundTrip ==
    ASSUME NEW n \in Events, NEW view, NEW r
    PROVE  Seen(view, create_gossip_update(r, n)) = ApplyTo(view, n)
<1>1. CASE n.kind = "node"
  <2>1. NodeOf(create_contact_info_node(n.message)) = n.message
    BY <1>1, EventShape, NodeRoundTrip
  <2>2. Seen(view, create_gossip_update(r, n)) = ApplyTo(view, [kind |-> "node", message |-> n.message])
    BY <1>1, <2>1 DEF create_gossip_update, Seen
  <2> QED
    BY <1>1, <2>2 DEF ApplyTo
<1>2. CASE n.kind = "removed"
  <2>1. Get(FromOctets(KeyBytes, Octets(KeyBytes, n.message.pubkey))) = n.message.pubkey
    BY DEF Octets, FromOctets, Get, Some
  <2>2. Seen(view, create_gossip_update(r, n))
          = ApplyTo(view, [kind |-> "removed", message |-> [pubkey |-> n.message.pubkey]])
    BY <1>2, <2>1 DEF create_gossip_update, Seen
  <2> QED
    BY <1>2, <2>2 DEF ApplyTo
<1> QED
  BY <1>1, <1>2, EventShape

-----------------------------------------------------------------------------
(* Steps of the writer                                                     *)

LEMMA FeedInit ==
    ASSUME Init
    PROVE  FeedInv
<1>1. log = <<>> /\ published = <<>> /\ Len(log) = 0 /\ Len(published) = 0
  BY DEF Init
<1>2. GoodTable(EmptyTable)
  <2> DEFINE R == [pubkey : Pubkeys, shred_version : {i.shred_version : i \in Infos},
                   rpc : {i.rpc : i \in Infos}]
  <2>1. EmptyTable \in [{} -> R] /\ {} \in SUBSET Pubkeys
    BY DEF EmptyTable
  <2> HIDE DEF R
  <2>2. EmptyTable \in UNION {[S -> R] : S \in SUBSET Pubkeys} /\ DOMAIN EmptyTable = {}
    BY <2>1
  <2> QED
    BY <2>2 DEF GoodTable, Tables, R
<1>3. TableInv
  <2>1. \A r \in 0 .. Len(log) : TableAt(r) = EmptyTable
    BY <1>1 DEF TableAt
  <2>2. 0 \in 0 .. Len(log) /\ ~(\E r : r \in 1 .. Len(log))
    BY <1>1
  <2>3. nodes = EmptyTable /\ held = <<>> /\ complete = FALSE /\ log \in Seq(Events) /\ published \in Seq(Tables)
    BY <1>1 DEF Init
  <2> QED
    BY <1>1, <1>2, <2>1, <2>2, <2>3 DEF TableInv
<1>4. ClientTypes
  BY <1>1 DEF Init, ClientTypes, LoopStates
<1>5. ASSUME NEW c \in Clients
      PROVE  ClientInv(c)
  <2>1. chan[c] = <<>> /\ Len(chan[c]) = 0 /\ pc[c] = "waiting" /\ clientRev[c] = 0 /\ clientView[c] = None
    BY DEF Init
  <2> DEFINE revs == [i \in 0 .. 0 |-> 0]
  <2>2. revs \in [0 .. Len(chan[c]) -> 0 .. Len(log)]
    BY <1>1, <2>1
  <2>3. Chain(c, revs)
    BY <1>1, <2>1 DEF Chain, SentUpTo
  <2> QED
    BY <2>1, <2>2, <2>3 DEF ClientInv, ViewInv
<1> QED
  BY <1>3, <1>4, <1>5 DEF FeedInv

\* The first notification that is not of the startup replay finds all of that applied.
LEMMA TakeNotificationKeeps ==
    ASSUME FeedInv, TakeNotification
    PROVE  FeedInv'
<1>1. UNCHANGED <<nodes, log, published, loopVars, chan, sessionVars, clientVars>>
  BY DEF TakeNotification
<1>2. PICK n \in NotificationsAt(version) : held' = <<n>> /\ complete' = (complete \/ ~n.is_startup)
  BY DEF TakeNotification
<1>3. Len(log) \in Nat /\ StartupCount \in Nat /\ version = Len(log)
  BY GossipAssumption DEF FeedInv, TableInv, GossipAssumption, version
<1> DEFINE early == version < StartupCount
<1>a. early \in BOOLEAN /\ (early \/ Len(log) >= StartupCount)
  BY <1>3
<1>b. \/ \E p \in Pubkeys, info \in Infos : n = notify_contact_info(p, info, early)
      \/ Len(log) >= StartupCount /\ \E p \in Pubkeys : n = notify_contact_info_removed(p)
  BY <1>3 DEF NotificationsAt
<1> HIDE DEF early
<1>4. n \in Events
  BY <1>a, <1>b DEF Events
<1>5. ~n.is_startup => Len(log) >= StartupCount
  <2>1. ASSUME NEW p \in Pubkeys, NEW info \in Infos, n = notify_contact_info(p, info, early)
        PROVE  n.is_startup = early
    BY <2>1 DEF notify_contact_info
  <2> QED
    BY <1>a, <1>b, <2>1, Zenon
<1>6. complete' \in BOOLEAN /\ (complete' => Len(log) >= StartupCount) /\ (complete => complete')
  BY <1>2, <1>5 DEF FeedInv, TableInv
<1>7. TableInv'
  BY <1>1, <1>2, <1>4, <1>6 DEF FeedInv, TableInv, TableAt
<1>8. ClientTypes'
  BY <1>1 DEF FeedInv, ClientTypes, loopVars, clientVars
<1>9. ASSUME NEW c \in Clients
      PROVE  ClientInv(c)'
  <2>1. ViewInv(c)'
    BY <1>1 DEF FeedInv, ClientInv, ViewInv, TableAt, clientVars
  <2>2. PICK revs \in [0 .. Len(chan[c]) -> 0 .. Len(log)] : Chain(c, revs)
    BY DEF FeedInv, ClientInv
  <2>3. SentUpTo(c, revs[Len(chan[c])])'
    BY <1>1, <1>6, <2>2 DEF Chain, SentUpTo, TableAt, loopVars
  <2>4. Chain(c, revs)'
    BY <1>1, <2>2, <2>3 DEF Chain, Link, TableAt, clientVars
  <2> QED
    BY <1>1, <2>1, <2>2, <2>4 DEF ClientInv
<1> QED
  BY <1>7, <1>8, <1>9 DEF FeedInv

\* A broadcast adds a revision and changes none.
LEMMA RevisionsStay ==
    ASSUME TableInv, ApplyAndBroadcast
    PROVE  /\ Len(log) \in Nat /\ Len(log)' = Len(log) + 1
           /\ \A r \in 0 .. Len(log) : TableAt(r)' = TableAt(r)
           /\ \A r \in 1 .. Len(log) : log'[r] = log[r]
           /\ \A r : r = Len(log) + 1 => TableAt(r)' = ApplyTo(nodes, held[1]) /\ log'[r] = held[1]
<1>1. /\ log' = Append(log, held[1]) /\ published' = Append(published, ApplyTo(nodes, held[1]))
      /\ log \in Seq(Events) /\ published \in Seq(Tables) /\ held[1] \in Events
      /\ Len(log) \in Nat /\ Len(published) = Len(log)
  BY DEF ApplyAndBroadcast, TableInv
<1>2. ApplyTo(nodes, held[1]) \in Tables
  <2>1. GoodTable(nodes)
    BY <1>1 DEF TableInv
  <2> QED
    BY <1>1, <2>1, ApplyGood DEF GoodTable
<1>3. Len(log') = Len(log) + 1 /\ log'[Len(log) + 1] = held[1] /\ \A r \in 1 .. Len(log) : log'[r] = log[r]
  BY <1>1
<1>4. published'[Len(log) + 1] = ApplyTo(nodes, held[1]) /\ \A r \in 1 .. Len(log) : published'[r] = published[r]
  BY <1>1, <1>2
<1> QED
  BY <1>1, <1>3, <1>4 DEF TableAt

LEMMA ApplyKeeps ==
    ASSUME FeedInv, ApplyAndBroadcast
    PROVE  FeedInv'
<1>1. /\ UNCHANGED <<complete, loopVars, chan, sessionVars, clientVars>> /\ held' = <<>>
      /\ nodes' = ApplyTo(nodes, held[1]) /\ held[1] \in Events
      /\ log' = Append(log, held[1]) /\ published' = Append(published, ApplyTo(nodes, held[1]))
  BY DEF ApplyAndBroadcast, FeedInv, TableInv
<1>2. /\ Len(log) \in Nat /\ Len(log') = Len(log) + 1
      /\ \A r \in 0 .. Len(log) : TableAt(r)' = TableAt(r)
      /\ \A r \in 1 .. Len(log) : log'[r] = log[r]
      /\ \A r : r = Len(log) + 1 => TableAt(r)' = ApplyTo(nodes, held[1]) /\ log'[r] = held[1]
  BY RevisionsStay DEF FeedInv
<1>3. GoodTable(nodes) /\ GoodTable(ApplyTo(nodes, held[1])) /\ nodes = TableAt(Len(log))
  BY <1>1, <1>2, ApplyGood DEF FeedInv, TableInv
<1>4. TableInv'
  <2>1. log' \in Seq(Events) /\ published' \in Seq(Tables) /\ Len(published') = Len(log')
    BY <1>1, <1>2, <1>3 DEF FeedInv, TableInv, GoodTable
  <2>2. nodes' = TableAt(Len(log))'
    BY <1>1, <1>2
  <2>3. ASSUME NEW r \in 0 .. Len(log')
        PROVE  GoodTable(TableAt(r)')
    <3>1. r \in 0 .. Len(log) \/ r = Len(log) + 1
      BY <1>2
    <3>2. r \in 0 .. Len(log) => GoodTable(TableAt(r))
      BY DEF FeedInv, TableInv
    <3> QED
      BY <1>2, <1>3, <3>1, <3>2
  <2>4. ASSUME NEW r \in 1 .. Len(log')
        PROVE  published'[r] = ApplyTo(TableAt(r - 1)', log'[r])
    <3>1. CASE r = Len(log) + 1
      <4>1. published'[r] = TableAt(r)' /\ r - 1 = Len(log) /\ r - 1 \in 0 .. Len(log)
        BY <1>2, <3>1 DEF TableAt
      <4>2. TableAt(r - 1)' = nodes
        BY <1>2, <1>3, <4>1
      <4> QED
        BY <1>2, <3>1, <4>1, <4>2
    <3>2. CASE r \in 1 .. Len(log)
      <4>1. published'[r] = published[r]
        BY <1>2, <3>2 DEF TableAt
      <4>2. TableAt(r - 1)' = TableAt(r - 1) /\ log'[r] = log[r]
        BY <1>2, <3>2
      <4> QED
        BY <3>2, <4>1, <4>2 DEF FeedInv, TableInv
    <3> QED
      BY <1>2, <3>1, <3>2
  <2>5. complete' \in BOOLEAN /\ (complete' => Len(log') >= StartupCount)
    BY <1>1, <1>2, GossipAssumption DEF FeedInv, TableInv, GossipAssumption
  <2> QED
    BY <1>1, <2>1, <2>2, <2>3, <2>4, <2>5 DEF TableInv, GoodTable
<1>5. ClientTypes'
  BY <1>1, <1>2 DEF FeedInv, ClientTypes, loopVars, clientVars
<1>6. ASSUME NEW c \in Clients
      PROVE  ClientInv(c)'
  <2>1. PICK revs \in [0 .. Len(chan[c]) -> 0 .. Len(log)] : Chain(c, revs)
    BY DEF FeedInv, ClientInv
  <2>2. revs \in [0 .. Len(chan[c]) -> 0 .. Len(log')]
    BY <1>2
  <2>3. clientRev[c] \in 0 .. Len(log)
    <3>1. Len(chan[c]) \in Nat
      BY DEF FeedInv, ClientTypes
    <3>2. 0 \in 0 .. Len(chan[c])
      BY <3>1
    <3> QED
      BY <2>1, <3>2 DEF Chain
  <2>4. ViewInv(c)'
    BY <1>1, <1>2, <2>3 DEF FeedInv, ClientInv, ViewInv, clientVars
  <2>5. ASSUME NEW i \in 1 .. Len(chan[c])
        PROVE  Link(chan[c][i], revs[i - 1], revs[i])'
    <3>1. Link(chan[c][i], revs[i - 1], revs[i])
      BY <2>1 DEF Chain
    <3>2. revs[i] \in 0 .. Len(log) /\ revs[i - 1] \in 0 .. Len(log)
      BY DEF FeedInv, ClientTypes
    <3>3. TableAt(revs[i])' = TableAt(revs[i])
      BY <1>2, <3>2
    <3>4. revs[i] = revs[i - 1] + 1 => log'[revs[i]] = log[revs[i]]
      BY <1>2, <3>2
    <3> QED
      BY <1>1, <3>1, <3>3, <3>4 DEF Link
  <2>6. SentUpTo(c, revs[Len(chan[c])])'
    <3>1. SentUpTo(c, revs[Len(chan[c])])
      BY <2>1 DEF Chain
    <3>2. UNCHANGED <<complete, pc, next, snapshot, chan>>
      BY <1>1 DEF loopVars
    <3>3. next[c] \in Nat /\ StartupCount \in Nat
      BY GossipAssumption DEF FeedInv, ClientTypes, GossipAssumption
    <3>4. ASSUME pc[c] \in {"send_snapshot", "stream", "send_update"}
          PROVE  /\ snapshot[c].rev \in StartupCount .. Len(log')
                 /\ snapshot[c].topology = TableAt(snapshot[c].rev)'
      <4>1. snapshot[c].rev \in StartupCount .. Len(log) /\ snapshot[c].topology = TableAt(snapshot[c].rev)
        BY <3>1, <3>4 DEF SentUpTo
      <4>2. snapshot[c].rev \in 0 .. Len(log) /\ snapshot[c].rev \in StartupCount .. Len(log')
        BY <1>2, <3>3, <4>1
      <4>3. \A r \in 0 .. Len(log) : r = snapshot[c].rev => TableAt(r)' = snapshot[c].topology
        BY <1>2, <4>1
      <4> QED
        BY <3>2, <4>2, <4>3 DEF TableAt
    <3> QED
      BY <1>2, <3>1, <3>2, <3>3, <3>4 DEF SentUpTo
  <2>7. Chain(c, revs)'
    BY <1>1, <2>1, <2>2, <2>5, <2>6 DEF Chain, clientVars
  <2> QED
    BY <1>1, <2>2, <2>4, <2>7 DEF ClientInv
<1> QED
  BY <1>4, <1>5, <1>6 DEF FeedInv

-----------------------------------------------------------------------------
(* Steps of a subscriber                                                   *)

\* What a step of another subscriber leaves alone.
Untouched(c) ==
    /\ pc'[c] = pc[c] /\ next'[c] = next[c] /\ snapshot'[c] = snapshot[c] /\ chan'[c] = chan[c]
    /\ clientRev'[c] = clientRev[c] /\ clientView'[c] = clientView[c]

LEMMA UntouchedKeeps ==
    ASSUME NEW c \in Clients, ClientInv(c), UNCHANGED tableVars, Untouched(c)
    PROVE  ClientInv(c)'
<1>1. PICK revs \in [0 .. Len(chan[c]) -> 0 .. Len(log)] : Chain(c, revs)
  BY DEF ClientInv
<1>2. UNCHANGED <<log, published, complete>>
  BY DEF tableVars
<1>3. Chain(c, revs)'
  BY <1>1, <1>2 DEF Chain, SentUpTo, Link, TableAt, Untouched
<1>4. ViewInv(c)'
  BY <1>2 DEF ClientInv, ViewInv, TableAt, Untouched
<1> QED
  BY <1>1, <1>2, <1>3, <1>4 DEF ClientInv, Untouched

LEMMA TableKeeps ==
    ASSUME TableInv, UNCHANGED tableVars
    PROVE  TableInv'
BY DEF TableInv, TableAt, tableVars

\* A step of the loop that sends nothing: what it has sent so far stays in order.
LEMMA QuietKeeps ==
    ASSUME NEW c \in Clients, ClientInv(c), UNCHANGED tableVars,
           chan'[c] = chan[c], clientRev'[c] = clientRev[c], clientView'[c] = clientView[c],
           \A last \in 0 .. Len(log) : SentUpTo(c, last) => SentUpTo(c, last)',
           Len(chan[c]) \in Nat
    PROVE  ClientInv(c)'
<1>1. PICK revs \in [0 .. Len(chan[c]) -> 0 .. Len(log)] : Chain(c, revs)
  BY DEF ClientInv
<1>2. UNCHANGED <<log, published, complete>>
  BY DEF tableVars
<1>3. revs[Len(chan[c])] \in 0 .. Len(log)
  BY <1>1
<1>4. SentUpTo(c, revs[Len(chan[c])])
  BY <1>1 DEF Chain
<1> DEFINE last == revs[Len(chan[c])]
<1>5. \A r : r = last => SentUpTo(c, r)'
  BY <1>3, <1>4
<1>6. SentUpTo(c, revs[Len(chan[c])])'
  BY <1>5 DEF SentUpTo
<1>7. Chain(c, revs)'
  BY <1>1, <1>2, <1>6 DEF Chain, Link, TableAt
<1>8. ViewInv(c)'
  BY <1>2 DEF ClientInv, ViewInv, TableAt
<1> QED
  BY <1>1, <1>2, <1>7, <1>8 DEF ClientInv

\* A step that sends one message.
LEMMA PushKeeps ==
    ASSUME NEW c \in Clients, ClientInv(c), UNCHANGED tableVars, Len(log) \in Nat,
           chan[c] \in Seq(Messages), NEW m \in Messages, chan'[c] = Append(chan[c], m),
           clientRev'[c] = clientRev[c], clientView'[c] = clientView[c],
           \A last \in 0 .. Len(log) : SentUpTo(c, last) =>
               \E to \in 0 .. Len(log) : Link(m, last, to) /\ SentUpTo(c, to)'
    PROVE  ClientInv(c)'
<1>1. PICK revs \in [0 .. Len(chan[c]) -> 0 .. Len(log)] : Chain(c, revs)
  BY DEF ClientInv
<1>2. UNCHANGED <<log, published, complete>>
  BY DEF tableVars
<1> DEFINE n == Len(chan[c])
<1>3. n \in Nat /\ Len(chan'[c]) = n + 1 /\ chan'[c][n + 1] = m /\ \A i \in 1 .. n : chan'[c][i] = chan[c][i]
  OBVIOUS
<1>4. revs[n] \in 0 .. Len(log) /\ SentUpTo(c, revs[n])
  BY <1>1, <1>3 DEF Chain
<1>5. PICK to \in 0 .. Len(log) : Link(m, revs[n], to) /\ SentUpTo(c, to)'
  BY <1>4
<1>m. PICK more : more = [i \in 0 .. n + 1 |-> IF i = n + 1 THEN to ELSE revs[i]]
  OBVIOUS
<1>6. more \in [0 .. Len(chan'[c]) -> 0 .. Len(log')]
  BY <1>2, <1>3, <1>m
<1>7. more[0] = clientRev'[c]
  BY <1>1, <1>3, <1>m DEF Chain
<1>8. ASSUME NEW i \in 1 .. n + 1
      PROVE  Link(chan[c][i], more[i - 1], more[i])'
  <2>1. CASE i = n + 1
    <3>1. more[i - 1] = revs[n] /\ more[i] = to /\ chan'[c][i] = m
      BY <1>3, <1>m, <2>1
    <3>2. Link(m, more[i - 1], more[i])
      BY <1>5, <3>1
    <3> QED
      BY <1>2, <3>1, <3>2 DEF Link, TableAt
  <2>2. CASE i \in 1 .. n
    <3>1. more[i - 1] = revs[i - 1] /\ more[i] = revs[i] /\ chan'[c][i] = chan[c][i]
      BY <1>3, <1>m, <2>2
    <3>2. Link(chan[c][i], more[i - 1], more[i])
      BY <1>1, <2>2, <3>1 DEF Chain
    <3> QED
      BY <1>2, <3>1, <3>2 DEF Link, TableAt
  <2> QED
    BY <1>3, <2>1, <2>2
<1>9. SentUpTo(c, more[Len(chan[c])])'
  <2>1. more[Len(chan'[c])] = to
    BY <1>3, <1>m
  <2>2. \A r : r = to => SentUpTo(c, r)'
    BY <1>5
  <2> QED
    BY <2>1, <2>2 DEF SentUpTo
<1>10. Chain(c, more)'
  BY <1>3, <1>6, <1>7, <1>8, <1>9 DEF Chain
<1>11. ViewInv(c)'
  BY <1>2 DEF ClientInv, ViewInv, TableAt
<1> QED
  BY <1>6, <1>10, <1>11 DEF ClientInv

LEMMA OneClientStep ==
    ASSUME FeedInv, NEW c \in Clients, UNCHANGED tableVars, ClientTypes', ClientInv(c)',
           \A d \in Clients : d # c => Untouched(d)
    PROVE  FeedInv'
<1>1. TableInv'
  BY TableKeeps DEF FeedInv
<1>2. \A d \in Clients : ClientInv(d)'
  BY UntouchedKeeps DEF FeedInv
<1> QED
  BY <1>1, <1>2 DEF FeedInv

\* The types of what a subscriber's step handles.
LEMMA FeedTypes ==
    ASSUME FeedInv, NEW c \in Clients
    PROVE  /\ Len(log) \in Nat /\ StartupCount \in Nat /\ version = Len(log)
           /\ next[c] \in 1 .. Len(log) + 1 /\ next \in [Clients -> Nat] /\ pc \in [Clients -> LoopStates]
           /\ chan \in [Clients -> Seq(Messages)] /\ chan[c] \in Seq(Messages) /\ Len(chan[c]) \in Nat
           /\ complete => Len(log) >= StartupCount
           /\ nodes = TableAt(Len(log)) /\ ClientInv(c)
           /\ \E last \in 0 .. Len(log) : SentUpTo(c, last)
<1>1. /\ Len(log) \in Nat /\ StartupCount \in Nat /\ version = Len(log) /\ (complete => Len(log) >= StartupCount)
      /\ nodes = TableAt(Len(log))
  BY GossipAssumption DEF FeedInv, TableInv, GossipAssumption, version
<1>2. /\ next[c] \in 1 .. Len(log) + 1 /\ next \in [Clients -> Nat] /\ pc \in [Clients -> LoopStates]
      /\ chan \in [Clients -> Seq(Messages)] /\ chan[c] \in Seq(Messages) /\ Len(chan[c]) \in Nat
  BY DEF FeedInv, ClientTypes
<1>3. ClientInv(c)
  BY DEF FeedInv
<1>4. PICK revs \in [0 .. Len(chan[c]) -> 0 .. Len(log)] : Chain(c, revs)
  BY <1>3 DEF ClientInv
<1>5. revs[Len(chan[c])] \in 0 .. Len(log) /\ SentUpTo(c, revs[Len(chan[c])])
  BY <1>2, <1>4 DEF Chain
<1> QED
  BY <1>1, <1>2, <1>3, <1>5

\* A step of the loop that sends nothing.
LEMMA QuietStep ==
    ASSUME FeedInv, NEW c \in Clients, NEW label \in LoopStates, Goto(c, label),
           UNCHANGED <<tableVars, chan, clientVars>>,
           next' = [next EXCEPT ![c] = next'[c]], next'[c] \in 1 .. Len(log) + 1,
           snapshot' = [snapshot EXCEPT ![c] = snapshot'[c]],
           \A last \in 0 .. Len(log) : SentUpTo(c, last) => SentUpTo(c, last)'
    PROVE  FeedInv'
<1>1. UNCHANGED <<tableVars, log, chan, clientRev, clientView>>
  BY DEF clientVars, tableVars
<1>2. \A d \in Clients : d # c => Untouched(d)
  BY <1>1 DEF Goto, Untouched, FeedInv, ClientTypes
<1>3. ClientTypes'
  <2> USE DEF FeedInv, ClientTypes
  <2>1. pc' \in [Clients -> LoopStates]
    BY DEF Goto
  <2>2. next' \in [Clients -> Nat] /\ \A d \in Clients : next'[d] \in 1 .. Len(log') + 1
    <3>1. next'[c] \in Nat
      BY FeedTypes
    <3> QED
      BY <1>1, <3>1
  <2>3. DOMAIN snapshot' = Clients /\ snapshot' = [d \in Clients |-> snapshot'[d]]
    OBVIOUS
  <2> QED
    BY <1>1, <2>1, <2>2, <2>3
<1>4. ClientInv(c)'
  BY <1>1, FeedTypes, QuietKeeps
<1> QED
  BY <1>1, <1>2, <1>3, <1>4, OneClientStep

LEMMA QuietSteps ==
    ASSUME FeedInv, NEW c \in Clients,
           \/ WaitUntilComplete(c) \/ SeeCancelled(c) \/ Subscribe(c) \/ TakeSnapshot(c)
           \/ RecvLagged(c) \/ RecvEvent(c)
           \/ closed[c] /\ (SendSnapshot(c) \/ SendUpdate(c) \/ SendError(c))
    PROVE  FeedInv'
<1>t. /\ Len(log) \in Nat /\ StartupCount \in Nat /\ version = Len(log)
      /\ next[c] \in 1 .. Len(log) + 1 /\ next \in [Clients -> Nat] /\ pc \in [Clients -> LoopStates]
      /\ complete => Len(log) >= StartupCount
      /\ nodes = TableAt(Len(log))
      /\ DOMAIN snapshot = Clients /\ snapshot = [d \in Clients |-> snapshot[d]]
  BY FeedTypes DEF FeedInv, ClientTypes
<1>s. snapshot' = snapshot => snapshot' = [snapshot EXCEPT ![c] = snapshot'[c]]
  BY <1>t
<1>n. next' = next => next' = [next EXCEPT ![c] = next'[c]]
  BY <1>t
<1>e. ASSUME NEW label \in {"send_error", "done"}, Goto(c, label),
             UNCHANGED <<tableVars, chan, clientVars, snapshot>>,
             next' = [next EXCEPT ![c] = next'[c]], next'[c] \in 1 .. Len(log) + 1
      PROVE  FeedInv'
  <2>1. pc'[c] = label /\ label \in LoopStates
    BY <1>e, <1>t DEF Goto, LoopStates
  <2>2. \A last \in 0 .. Len(log) : SentUpTo(c, last)'
    BY <2>1 DEF SentUpTo
  <2> QED
    BY <1>e, <1>s, <2>1, <2>2, QuietStep
<1>1. CASE WaitUntilComplete(c)
  <2>1. /\ Goto(c, "subscribe") /\ UNCHANGED <<tableVars, chan, clientVars, next, snapshot>> /\ complete
        /\ complete' = complete
    BY <1>1 DEF WaitUntilComplete, tableVars
  <2>2. pc'[c] = "subscribe" /\ "subscribe" \in LoopStates
    BY <2>1, <1>t DEF Goto, LoopStates
  <2>3. \A last \in 0 .. Len(log) : SentUpTo(c, last)'
    BY <2>1, <2>2 DEF SentUpTo
  <2> QED
    BY <1>t, <1>s, <1>n, <2>1, <2>2, <2>3, QuietStep
<1>2. CASE SeeCancelled(c)
  BY <1>2, <1>e, <1>t, <1>n DEF SeeCancelled
<1>3. CASE Subscribe(c)
  <2>1. /\ Goto(c, "lock") /\ UNCHANGED <<tableVars, chan, clientVars, snapshot>>
        /\ next' = [next EXCEPT ![c] = version + 1] /\ pc[c] = "subscribe"
    BY <1>3 DEF Subscribe
  <2>2. pc'[c] = "lock" /\ "lock" \in LoopStates /\ next'[c] = Len(log) + 1 /\ complete' = complete
    BY <2>1, <1>t DEF Goto, LoopStates, tableVars
  <2>3. \A last \in 0 .. Len(log) : SentUpTo(c, last) => SentUpTo(c, last)'
    BY <2>1, <2>2 DEF SentUpTo
  <2>4. next' = [next EXCEPT ![c] = next'[c]] /\ next'[c] \in 1 .. Len(log) + 1
    BY <1>t, <2>1, <2>2
  <2> QED
    BY <1>s, <2>1, <2>2, <2>3, <2>4, QuietStep
<1>4. CASE TakeSnapshot(c)
  <2>1. /\ Goto(c, "send_snapshot") /\ UNCHANGED <<tableVars, chan, clientVars, next>>
        /\ snapshot' = [snapshot EXCEPT ![c] = [rev |-> version, topology |-> nodes]] /\ pc[c] = "lock"
    BY <1>4 DEF TakeSnapshot
  <2>2. pc'[c] = "send_snapshot" /\ "send_snapshot" \in LoopStates /\ UNCHANGED <<log, published, complete>>
    BY <2>1, <1>t DEF Goto, LoopStates, tableVars
  <2>3. snapshot'[c] = [rev |-> Len(log), topology |-> nodes]
    BY <1>t, <2>1
  <2>4. snapshot'[c].rev = Len(log) /\ snapshot'[c].topology = TableAt(Len(log))'
    BY <1>t, <2>2, <2>3 DEF TableAt
  <2>5. ASSUME NEW last \in 0 .. Len(log), SentUpTo(c, last)
        PROVE  SentUpTo(c, last)'
    <3>1. complete
      BY <2>1, <2>5 DEF SentUpTo
    <3>2. snapshot'[c].rev \in StartupCount .. Len(log')
      BY <1>t, <2>2, <2>4, <3>1
    <3>3. snapshot'[c].topology = TableAt(snapshot[c].rev)'
      BY <2>2, <2>4 DEF TableAt
    <3>4. last <= snapshot'[c].rev /\ next'[c] <= snapshot'[c].rev + 1
      BY <1>t, <2>1, <2>4
    <3> QED
      BY <2>2, <3>1, <3>2, <3>3, <3>4 DEF SentUpTo
  <2>6. snapshot' = [snapshot EXCEPT ![c] = snapshot'[c]]
    BY <1>t, <2>1, <2>3
  <2> QED
    BY <1>t, <1>n, <2>1, <2>2, <2>5, <2>6, QuietStep
<1>5. CASE RecvLagged(c)
  <2>1. CASE attempts[c] + 1 > MaxResnapshotAttempts
    BY <1>5, <2>1, <1>e, <1>t, <1>n DEF RecvLagged
  <2>2. CASE ~(attempts[c] + 1 > MaxResnapshotAttempts)
    <3>1. Goto(c, "subscribe") /\ UNCHANGED <<tableVars, chan, clientVars, next, snapshot>> /\ pc[c] = "stream"
      BY <1>5, <2>2 DEF RecvLagged
    <3>2. pc'[c] = "subscribe" /\ "subscribe" \in LoopStates /\ complete' = complete
      BY <3>1, <1>t DEF Goto, LoopStates, tableVars
    <3>3. \A last \in 0 .. Len(log) : SentUpTo(c, last) => SentUpTo(c, last)'
      BY <3>1, <3>2 DEF SentUpTo
    <3> QED
      BY <1>t, <1>s, <1>n, <3>1, <3>2, <3>3, QuietStep
  <2> QED
    BY <2>1, <2>2
<1>6. CASE RecvEvent(c)
  <2>1. /\ UNCHANGED <<tableVars, chan, clientVars, snapshot>> /\ pc[c] = "stream" /\ next[c] <= Len(log)
        /\ UNCHANGED <<log, published, complete>>
    BY <1>6, <1>t DEF RecvEvent, tableVars
  <2>2. \A last : SentUpTo(c, last) => snapshot[c].rev \in StartupCount .. Len(log)
    BY <2>1 DEF SentUpTo
  <2>3. CASE AlreadyInSnapshot(c)
    <3>1. next' = [next EXCEPT ![c] = next[c] + 1] /\ pc' = pc /\ next[c] <= snapshot[c].rev
      BY <1>6, <2>3 DEF RecvEvent, AlreadyInSnapshot
    <3>2. Goto(c, "stream") /\ "stream" \in LoopStates /\ next'[c] = next[c] + 1 /\ next'[c] \in 1 .. Len(log) + 1
      BY <1>t, <2>1, <3>1 DEF Goto, LoopStates
    <3>3. ASSUME NEW last \in 0 .. Len(log), SentUpTo(c, last)
          PROVE  SentUpTo(c, last)'
      <4>1. last = snapshot[c].rev /\ snapshot[c].rev \in StartupCount .. Len(log)
        BY <1>t, <2>1, <2>2, <3>1, <3>3 DEF SentUpTo
      <4>2. next'[c] - 1 <= last
        BY <1>t, <3>1, <3>2, <4>1
      <4> QED
        BY <1>t, <2>1, <3>1, <3>3, <4>1, <4>2 DEF SentUpTo, TableAt
    <3>4. next' = [next EXCEPT ![c] = next'[c]]
      BY <1>t, <3>1, <3>2
    <3> QED
      BY <1>s, <2>1, <3>2, <3>3, <3>4, QuietStep
  <2>4. CASE ~AlreadyInSnapshot(c)
    <3>1. Goto(c, "send_update") /\ next' = next /\ ~(next[c] <= snapshot[c].rev)
      BY <1>6, <2>4 DEF RecvEvent, AlreadyInSnapshot
    <3>2. pc'[c] = "send_update" /\ "send_update" \in LoopStates
      BY <1>t, <3>1 DEF Goto, LoopStates
    <3>3. ASSUME NEW last \in 0 .. Len(log), SentUpTo(c, last)
          PROVE  SentUpTo(c, last)'
      <4>1. last = next[c] - 1 /\ next[c] > snapshot[c].rev /\ snapshot[c].rev \in StartupCount .. Len(log)
        BY <1>t, <2>1, <2>2, <3>1, <3>3 DEF SentUpTo
      <4> QED
        BY <1>t, <2>1, <3>1, <3>2, <3>3, <4>1 DEF SentUpTo, TableAt
    <3> QED
      BY <1>t, <1>s, <1>n, <2>1, <3>1, <3>2, <3>3, QuietStep
  <2> QED
    BY <2>3, <2>4
<1>7. CASE closed[c] /\ SendSnapshot(c)
  BY <1>7, <1>e, <1>t, <1>n DEF SendSnapshot, EndSession
<1>8. CASE closed[c] /\ SendUpdate(c)
  <2>1. /\ Goto(c, "done") /\ UNCHANGED <<tableVars, chan, clientVars, snapshot>> /\ pc[c] = "send_update"
        /\ next' = [next EXCEPT ![c] = next[c] + 1]
    BY <1>8 DEF SendUpdate, EndSession
  <2>2. next[c] <= Len(log)
    BY <2>1, FeedTypes DEF SentUpTo
  <2>3. next'[c] \in 1 .. Len(log) + 1 /\ next' = [next EXCEPT ![c] = next'[c]]
    BY <1>t, <2>1, <2>2
  <2> QED
    BY <1>e, <2>1, <2>3
<1>9. CASE closed[c] /\ SendError(c)
  BY <1>9, <1>e, <1>t, <1>n DEF SendError, EndSession
<1> QED
  BY <1>1, <1>2, <1>3, <1>4, <1>5, <1>6, <1>7, <1>8, <1>9

\* A step that sends a message: the loop's own, or a ping.
LEMMA SendStep ==
    ASSUME FeedInv, NEW c \in Clients, NEW label \in LoopStates, Goto(c, label),
           UNCHANGED <<tableVars, snapshot, clientVars>>,
           next' = [next EXCEPT ![c] = next'[c]], next'[c] \in 1 .. Len(log) + 1,
           NEW m \in Messages, Push(c, m),
           \A last \in 0 .. Len(log) : SentUpTo(c, last) =>
               \E to \in 0 .. Len(log) : Link(m, last, to) /\ SentUpTo(c, to)'
    PROVE  FeedInv'
<1>1. UNCHANGED <<tableVars, log, snapshot, clientRev, clientView>>
  BY DEF clientVars, tableVars
<1>2. chan'[c] = Append(chan[c], m) /\ chan' \in [Clients -> Seq(Messages)]
  BY FeedTypes DEF Push
<1>3. \A d \in Clients : d # c => Untouched(d)
  BY <1>1 DEF Goto, Push, Untouched, FeedInv, ClientTypes
<1>4. ClientTypes'
  <2> USE DEF FeedInv, ClientTypes
  <2>1. pc' \in [Clients -> LoopStates]
    BY DEF Goto
  <2>2. next' \in [Clients -> Nat] /\ \A d \in Clients : next'[d] \in 1 .. Len(log') + 1
    <3>1. next'[c] \in Nat
      BY FeedTypes
    <3> QED
      BY <1>1, <3>1
  <2> QED
    BY <1>1, <1>2, <2>1, <2>2
<1>5. ClientInv(c)'
  BY <1>1, <1>2, FeedTypes, PushKeeps
<1> QED
  BY <1>1, <1>3, <1>4, <1>5, OneClientStep

LEMMA SendSteps ==
    ASSUME FeedInv, NEW c \in Clients,
           \/ ~closed[c] /\ (SendSnapshot(c) \/ SendUpdate(c) \/ SendError(c))
           \/ SendPing(c)
    PROVE  FeedInv'
<1>t. /\ Len(log) \in Nat /\ StartupCount \in Nat
      /\ next[c] \in 1 .. Len(log) + 1 /\ next \in [Clients -> Nat] /\ pc \in [Clients -> LoopStates]
  BY FeedTypes
<1>n. next' = next => next' = [next EXCEPT ![c] = next'[c]]
  BY <1>t
<1>1. CASE ~closed[c] /\ SendSnapshot(c)
  <2> DEFINE to == snapshot[c].rev
             m == create_gossip_snapshot(snapshot[c].rev, snapshot[c].topology)
  <2>1. /\ Goto(c, "stream") /\ UNCHANGED <<tableVars, snapshot, clientVars, next>>
        /\ pc[c] = "send_snapshot" /\ Push(c, m)
    BY <1>1 DEF SendSnapshot
  <2>2. pc'[c] = "stream" /\ "stream" \in LoopStates /\ UNCHANGED <<log, published, complete>>
    BY <2>1, <1>t DEF Goto, LoopStates, tableVars
  <2>3. /\ to \in StartupCount .. Len(log) /\ snapshot[c].topology = TableAt(to)
        /\ next[c] <= to + 1 /\ complete
    BY <2>1, FeedTypes DEF SentUpTo
  <2>4. m \in Messages
    <3>1. to \in 0 .. Len(log) /\ to \in Nat
      BY <1>t, <2>3
    <3>2. TableAt(to) \in Tables
      BY <3>1 DEF FeedInv, TableInv, GoodTable
    <3> QED
      BY <2>3, <3>1, <3>2 DEF Messages
  <2>5. ASSUME NEW last \in 0 .. Len(log), SentUpTo(c, last)
        PROVE  \E r \in 0 .. Len(log) : Link(m, last, r) /\ SentUpTo(c, r)'
    <3>1. last <= to
      BY <2>1, <2>5 DEF SentUpTo
    <3>2. Link(m, last, to)
      BY <1>t, <2>3, <3>1 DEF Link
    <3>3. \A r : r = to => SentUpTo(c, r)'
      BY <1>t, <2>1, <2>2, <2>3 DEF SentUpTo, TableAt
    <3>4. to \in 0 .. Len(log)
      BY <1>t, <2>3
    <3> HIDE DEF to, m
    <3> QED
      BY <3>2, <3>3, <3>4
  <2> HIDE DEF to, m
  <2> QED
    BY <1>t, <1>n, <2>1, <2>2, <2>4, <2>5, SendStep
<1>2. CASE ~closed[c] /\ SendUpdate(c)
  <2> DEFINE to == next[c]
             m == create_gossip_update(next[c], log[next[c]])
  <2>1. /\ Goto(c, "stream") /\ UNCHANGED <<tableVars, snapshot, clientVars>>
        /\ next' = [next EXCEPT ![c] = next[c] + 1] /\ pc[c] = "send_update" /\ Push(c, m)
    BY <1>2 DEF SendUpdate
  <2>2. pc'[c] = "stream" /\ "stream" \in LoopStates /\ UNCHANGED <<log, published, complete>>
    BY <2>1, <1>t DEF Goto, LoopStates, tableVars
  <2>3. /\ snapshot[c].rev \in StartupCount .. Len(log) /\ snapshot[c].topology = TableAt(snapshot[c].rev)
        /\ to <= Len(log) /\ to > snapshot[c].rev /\ complete
    BY <2>1, FeedTypes DEF SentUpTo
  <2>4. m \in Messages
    <3>1. log[to] \in Events /\ to \in Nat
      BY <1>t, <2>3 DEF FeedInv, TableInv
    <3> QED
      BY <3>1 DEF Messages
  <2>5. next'[c] = to + 1 /\ next'[c] \in 1 .. Len(log) + 1 /\ next' = [next EXCEPT ![c] = next'[c]]
    BY <1>t, <2>1, <2>3
  <2>6. ASSUME NEW last \in 0 .. Len(log), SentUpTo(c, last)
        PROVE  \E r \in 0 .. Len(log) : Link(m, last, r) /\ SentUpTo(c, r)'
    <3>1. last = to - 1
      BY <2>1, <2>6 DEF SentUpTo
    <3>2. Link(m, last, to)
      BY <1>t, <2>3, <3>1 DEF Link
    <3>3. \A r : r = to => SentUpTo(c, r)'
      BY <1>t, <2>1, <2>2, <2>3, <2>5 DEF SentUpTo, TableAt
    <3>4. to \in 0 .. Len(log)
      BY <1>t, <2>3
    <3> HIDE DEF to, m
    <3> QED
      BY <3>2, <3>3, <3>4
  <2> HIDE DEF to, m
  <2> QED
    BY <2>1, <2>2, <2>4, <2>5, <2>6, SendStep
<1>3. CASE SendPing(c)
  <2>1. UNCHANGED <<tableVars, loopVars, snapshot, clientVars, next, pc>> /\ Push(c, create_gossip_ping)
    BY <1>3 DEF SendPing, loopVars
  <2>2. Goto(c, pc[c]) /\ pc[c] \in LoopStates /\ UNCHANGED <<log, published, complete>>
    BY <1>t, <2>1 DEF Goto, tableVars
  <2>3. create_gossip_ping \in Messages
    BY DEF Messages
  <2>4. ASSUME NEW last \in 0 .. Len(log), SentUpTo(c, last)
        PROVE  Link(create_gossip_ping, last, last) /\ SentUpTo(c, last)'
    BY <2>1, <2>2, <2>4 DEF Link, SentUpTo, TableAt
  <2>5. \A last \in 0 .. Len(log) : SentUpTo(c, last) =>
            \E to \in 0 .. Len(log) : Link(create_gossip_ping, last, to) /\ SentUpTo(c, to)'
    BY <2>4
  <2> QED
    BY <1>t, <1>n, <2>1, <2>2, <2>3, <2>5, SendStep
<1>4. CASE ~closed[c] /\ SendError(c)
  <2>1. Goto(c, "done") /\ UNCHANGED <<tableVars, snapshot, clientVars, next>> /\ Push(c, GossipError)
    BY <1>4 DEF SendError, EndSession
  <2>2. pc'[c] = "done" /\ "done" \in LoopStates
    BY <1>t, <2>1 DEF Goto, LoopStates
  <2>3. GossipError \in Messages
    BY DEF Messages
  <2>4. \A last \in 0 .. Len(log) : Link(GossipError, last, last) /\ SentUpTo(c, last)'
    BY <2>2 DEF Link, SentUpTo
  <2>5. \A last \in 0 .. Len(log) : SentUpTo(c, last) =>
            \E to \in 0 .. Len(log) : Link(GossipError, last, to) /\ SentUpTo(c, to)'
    BY <2>4
  <2> QED
    BY <1>t, <1>n, <2>1, <2>2, <2>3, <2>5, SendStep
<1> QED
  BY <1>1, <1>2, <1>3, <1>4

-----------------------------------------------------------------------------
(* The client, and the refinement                                          *)

\* A client that reads stays where it is (a ping, an error) or holds a later revision's table.
LEMMA ReadsOneRevision ==
    ASSUME FeedInv, NEW c \in Clients, ClientRead(c), NEW revs, Chain(c, revs)
    PROVE  /\ 1 \in 1 .. Len(chan[c]) /\ revs[1] \in clientRev[c] .. Len(log)
           /\ clientRev' = [clientRev EXCEPT ![c] = revs[1]]
           /\ \/ revs[1] = clientRev[c] /\ clientView' = clientView
              \/ /\ revs[1] >= StartupCount
                 /\ clientView' = [clientView EXCEPT ![c] = Some(TableAt(revs[1]))]
<1>t. /\ Len(log) \in Nat /\ StartupCount \in Nat /\ chan[c] \in Seq(Messages) /\ chan[c] # <<>>
      /\ clientRev \in [Clients -> Nat] /\ DOMAIN clientView = Clients
      /\ clientView = [d \in Clients |-> clientView[d]]
  BY FeedTypes DEF FeedInv, ClientTypes, ClientRead
<1> DEFINE m == Head(chan[c])
           to == revs[1]
<1>1. 1 \in 1 .. Len(chan[c]) /\ m = chan[c][1] /\ 0 \in 0 .. Len(chan[c]) /\ 1 \in 0 .. Len(chan[c])
  BY <1>t
<1>2. revs[0] = clientRev[c] /\ to \in 0 .. Len(log) /\ clientRev[c] \in 0 .. Len(log)
  BY <1>1 DEF Chain
<1>3. Link(m, clientRev[c], to)
  <2>1. Link(chan[c][1], revs[1 - 1], revs[1])
    BY <1>1 DEF Chain
  <2> QED
    BY <1>1, <1>2, <2>1
<1>4. /\ clientRev' = [clientRev EXCEPT ![c] = IF TellsNothing(m) THEN clientRev[c] ELSE m.seq]
      /\ clientView' = [clientView EXCEPT ![c] =
                           IF TellsNothing(m) THEN clientView[c]
                           ELSE Some(Seen(UnwrapOr(clientView[c], EmptyTable), m))]
  BY DEF ClientRead
<1> HIDE DEF m, to
<1>5. CASE to = clientRev[c] /\ m \in {create_gossip_ping, GossipError}
  <2>1. TellsNothing(m)
    BY <1>5 DEF create_gossip_ping, GossipError, TellsNothing
  <2>2. clientRev' = [clientRev EXCEPT ![c] = to] /\ clientView' = clientView
    BY <1>t, <1>4, <1>5, <2>1
  <2>3. to \in clientRev[c] .. Len(log)
    BY <1>2, <1>5
  <2> QED
    BY <1>1, <1>5, <2>2, <2>3 DEF to
<1>6. CASE /\ to >= clientRev[c] /\ to >= StartupCount
           /\ m = create_gossip_snapshot(to, TableAt(to))
  <2>1. ~TellsNothing(m) /\ m.seq = to
    BY <1>6 DEF create_gossip_snapshot, TellsNothing
  <2>2. GoodTable(TableAt(to))
    BY <1>2 DEF FeedInv, TableInv
  <2>3. Seen(UnwrapOr(clientView[c], EmptyTable), m) = TableAt(to)
    BY <1>6, <2>2, SnapshotRoundTrip
  <2>7. clientRev' = [clientRev EXCEPT ![c] = to] /\ clientView' = [clientView EXCEPT ![c] = Some(TableAt(to))]
    BY <1>4, <2>1, <2>3
  <2>8. to \in clientRev[c] .. Len(log)
    BY <1>t, <1>2, <1>6
  <2> QED
    BY <1>1, <1>6, <2>7, <2>8 DEF to
<1>7. CASE /\ to = clientRev[c] + 1 /\ to >= StartupCount
           /\ m = create_gossip_update(to, log[to])
  <2>1. ~TellsNothing(m) /\ m.seq = to
    BY <1>7 DEF create_gossip_update, TellsNothing
  <2>2. to \in 1 .. Len(log) /\ to - 1 = clientRev[c]
    BY <1>2, <1>7, <1>t
  <2>3. log[to] \in Events /\ published[to] = ApplyTo(TableAt(clientRev[c]), log[to])
    BY <1>t, <2>2 DEF FeedInv, TableInv
  <2>4. UnwrapOr(clientView[c], EmptyTable) = TableAt(clientRev[c])
    <3>1. ViewInv(c)
      BY DEF FeedInv, ClientInv
    <3> QED
      BY <3>1 DEF ViewInv, UnwrapOr, IsSome, Some, None, Get, TableAt
  <2>5. Seen(UnwrapOr(clientView[c], EmptyTable), m) = TableAt(to)
    <3>1. TableAt(to) = published[to]
      BY <2>2 DEF TableAt
    <3> QED
      BY <1>7, <2>3, <2>4, <3>1, UpdateRoundTrip
  <2>6. to >= clientRev[c]
    BY <2>2
  <2>7. clientRev' = [clientRev EXCEPT ![c] = to] /\ clientView' = [clientView EXCEPT ![c] = Some(TableAt(to))]
    BY <1>4, <2>1, <2>5
  <2>8. to \in clientRev[c] .. Len(log)
    BY <1>t, <1>2, <2>6
  <2> QED
    BY <1>1, <1>7, <2>7, <2>8 DEF to
<1> QED
  BY <1>3, <1>5, <1>6, <1>7 DEF Link

LEMMA ReadKeeps ==
    ASSUME FeedInv, NEW c \in Clients, ClientRead(c)
    PROVE  FeedInv'
<1>t. /\ Len(log) \in Nat /\ chan[c] \in Seq(Messages) /\ chan \in [Clients -> Seq(Messages)]
      /\ chan[c] # <<>>
  BY FeedTypes DEF ClientRead
<1>1. /\ UNCHANGED <<tableVars, loopVars, sessionVars, closed>> /\ chan' = [chan EXCEPT ![c] = Tail(chan[c])]
      /\ UNCHANGED <<log, published, complete, pc, next, snapshot>>
  BY DEF ClientRead, tableVars, loopVars
<1>2. PICK revs \in [0 .. Len(chan[c]) -> 0 .. Len(log)] : Chain(c, revs)
  BY DEF FeedInv, ClientInv
<1>3. /\ 1 \in 1 .. Len(chan[c]) /\ revs[1] \in clientRev[c] .. Len(log)
      /\ clientRev' = [clientRev EXCEPT ![c] = revs[1]]
      /\ \/ revs[1] = clientRev[c] /\ clientView' = clientView
         \/ clientView' = [clientView EXCEPT ![c] = Some(TableAt(revs[1]))]
  BY <1>2, ReadsOneRevision
<1>4. /\ clientRev \in [Clients -> Nat] /\ DOMAIN clientView = Clients
      /\ clientView = [d \in Clients |-> clientView[d]]
  BY DEF FeedInv, ClientTypes
<1>5. \A d \in Clients : d # c => Untouched(d)
  BY <1>t, <1>1, <1>3, <1>4 DEF Untouched
<1>6. revs[1] \in Nat /\ clientRev'[c] = revs[1]
  BY <1>t, <1>3, <1>4
<1>7. ClientTypes'
  <2>1. chan' \in [Clients -> Seq(Messages)]
    BY <1>t, <1>1
  <2>2. clientRev' \in [Clients -> Nat]
    BY <1>3, <1>4, <1>6
  <2>3. DOMAIN clientView' = Clients /\ clientView' = [d \in Clients |-> clientView'[d]]
    BY <1>3, <1>4
  <2> QED
    BY <1>1, <2>1, <2>2, <2>3 DEF FeedInv, ClientTypes
<1>8. ViewInv(c)'
  <2>1. ViewInv(c)
    BY DEF FeedInv, ClientInv
  <2>2. \/ clientView'[c] = clientView[c] /\ revs[1] = clientRev[c]
        \/ clientView'[c] = Some(TableAt(revs[1]))
    BY <1>3, <1>4
  <2> QED
    BY <1>1, <1>6, <2>1, <2>2 DEF ViewInv, TableAt
<1> DEFINE n == Len(chan[c])
<1>9. /\ n \in Nat /\ n >= 1 /\ Len(chan'[c]) = n - 1
      /\ \A i \in 1 .. n - 1 : chan'[c][i] = chan[c][i + 1]
  BY <1>t, <1>1
<1> HIDE DEF n
<1>10. PICK rest : rest = [i \in 0 .. n - 1 |-> revs[i + 1]]
  OBVIOUS
<1>11. rest \in [0 .. Len(chan'[c]) -> 0 .. Len(log')]
  BY <1>1, <1>2, <1>9, <1>10 DEF n
<1>12. rest[0] = clientRev'[c] /\ rest[n - 1] = revs[n]
  BY <1>6, <1>9, <1>10
<1>13. ASSUME NEW i \in 1 .. n - 1
       PROVE  Link(chan[c][i], rest[i - 1], rest[i])'
  <2>1. rest[i - 1] = revs[i] /\ rest[i] = revs[i + 1] /\ chan'[c][i] = chan[c][i + 1]
    BY <1>9, <1>10
  <2>2. Link(chan[c][i + 1], revs[i], revs[i + 1])
    <3>1. i + 1 \in 1 .. n /\ (i + 1) - 1 = i
      BY <1>9
    <3>2. Link(chan[c][i + 1], revs[(i + 1) - 1], revs[i + 1])
      BY <1>2, <3>1 DEF Chain, n
    <3> QED
      BY <3>1, <3>2
  <2> QED
    BY <1>1, <2>1, <2>2 DEF Link, TableAt
<1>14. SentUpTo(c, rest[Len(chan[c])])'
  <2>1. rest[Len(chan'[c])] = revs[n]
    BY <1>9, <1>12
  <2>2. SentUpTo(c, revs[n])
    BY <1>2 DEF Chain, n
  <2> QED
    BY <1>1, <2>1, <2>2 DEF SentUpTo, TableAt
<1>15. Chain(c, rest)'
  BY <1>9, <1>11, <1>12, <1>13, <1>14 DEF Chain
<1>16. ClientInv(c)'
  BY <1>8, <1>11, <1>15 DEF ClientInv
<1> QED
  BY <1>1, <1>5, <1>7, <1>16, OneClientStep

LEMMA FeedStutter ==
    ASSUME FeedInv, UNCHANGED <<tableVars, pc, next, snapshot, chan, clientRev, clientView>>
    PROVE  FeedInv'
<1>1. TableInv'
  BY TableKeeps DEF FeedInv
<1>2. ClientTypes'
  BY DEF FeedInv, ClientTypes, tableVars
<1>3. \A d \in Clients : ClientInv(d)'
  BY UntouchedKeeps DEF FeedInv, Untouched
<1> QED
  BY <1>1, <1>2, <1>3 DEF FeedInv

LEMMA FeedInductive ==
    ASSUME FeedInv, [Next]_vars
    PROVE  FeedInv'
<1>1. CASE Writer
  BY <1>1, TakeNotificationKeeps, ApplyKeeps DEF Writer
<1>2. ASSUME NEW c \in Clients, Loop(c)
      PROVE  FeedInv'
  BY <1>2, QuietSteps, SendSteps DEF Loop
<1>3. ASSUME NEW c \in Clients, Ping(c)
      PROVE  FeedInv'
  BY <1>3, FeedStutter DEF Ping, PingDeadClient, PingCancelled, loopVars, clientVars
<1>4. ASSUME NEW c \in Clients, ClientClose(c)
      PROVE  FeedInv'
  BY <1>4, FeedStutter DEF ClientClose, loopVars, clientVars
<1>5. CASE ServerShutdown
  BY <1>5, FeedStutter DEF ServerShutdown, loopVars, clientVars
<1>6. CASE UNCHANGED vars
  BY <1>6, FeedStutter DEF vars, loopVars, clientVars
<1> QED
  BY <1>1, <1>2, <1>3, <1>4, <1>5, <1>6, SendSteps, ReadKeeps DEF Next

\* A broadcast publishes a revision, a client's reading of anything but a ping moves it to
\* one; nothing else that happens can be seen.
LEMMA StepsAreAbstract ==
    ASSUME FeedInv, [Next]_vars
    PROVE  [Topology!Next]_<<published, clientRev, clientView>>
<1>1. CASE ApplyAndBroadcast
  <2>1. published' = Append(published, ApplyTo(nodes, held[1])) /\ UNCHANGED <<clientRev, clientView>>
    BY <1>1 DEF ApplyAndBroadcast, clientVars
  <2>2. ApplyTo(nodes, held[1]) \in Tables
    <3>1. GoodTable(nodes) /\ held[1] \in Events
      BY <1>1 DEF FeedInv, TableInv, ApplyAndBroadcast
    <3> QED
      BY <3>1, ApplyGood DEF GoodTable
  <2> QED
    BY <2>1, <2>2 DEF Topology!Next, Topology!Publish
<1>2. ASSUME NEW c \in Clients, ClientRead(c)
      PROVE  [Topology!Next]_<<published, clientRev, clientView>>
  <2>1. PICK revs \in [0 .. Len(chan[c]) -> 0 .. Len(log)] : Chain(c, revs)
    BY DEF FeedInv, ClientInv
  <2>2. /\ revs[1] \in clientRev[c] .. Len(log)
        /\ clientRev' = [clientRev EXCEPT ![c] = revs[1]]
        /\ \/ revs[1] = clientRev[c] /\ clientView' = clientView
           \/ /\ revs[1] >= StartupCount
              /\ clientView' = [clientView EXCEPT ![c] = Some(TableAt(revs[1]))]
    BY <1>2, <2>1, ReadsOneRevision
  <2>3. published' = published /\ Len(published) = Len(log) /\ clientRev \in [Clients -> Nat]
    BY <1>2 DEF ClientRead, tableVars, FeedInv, TableInv, ClientTypes
  <2>4. CASE revs[1] = clientRev[c] /\ clientView' = clientView
    BY <2>2, <2>3, <2>4
  <2>5. CASE /\ revs[1] >= StartupCount
             /\ clientView' = [clientView EXCEPT ![c] = Some(TableAt(revs[1]))]
    BY <2>2, <2>3, <2>5 DEF Topology!Next, Topology!Advance, TableAt, Some
  <2> QED
    BY <2>2, <2>4, <2>5
<1>3. CASE TakeNotification
  BY <1>3 DEF TakeNotification, clientVars
<1>4. ASSUME NEW c \in Clients, Loop(c) \/ Ping(c) \/ SendPing(c) \/ ClientClose(c)
      PROVE  UNCHANGED <<published, clientRev, clientView>>
  BY <1>4 DEF Loop, Ping, SendPing, ClientClose, WaitUntilComplete, SeeCancelled, SendError, Subscribe, TakeSnapshot,
              SendSnapshot, RecvLagged, RecvEvent, SendUpdate, PingDeadClient, PingCancelled, tableVars, clientVars
<1>5. CASE ServerShutdown \/ UNCHANGED vars
  BY <1>5 DEF ServerShutdown, vars, tableVars, clientVars
<1> QED
  BY <1>1, <1>2, <1>3, <1>4, <1>5 DEF Next, Writer

\* Every subscriber of the contact info feed sees, at every moment, the table of one
\* revision of contact_info_loop, never one from before the end of the startup replay, and
\* never an earlier one than before: whatever the ring drops, however often it subscribes
\* anew, and wherever pings come in between.
THEOREM FeedImplementsTopologyView == Spec => ImplementsTopologyView
<1>1. Init => Topology!Init
  BY DEF Init, Topology!Init, None
<1> QED
  BY <1>1, FeedInit, FeedInductive, StepsAreAbstract, PTL DEF Spec, ImplementsTopologyView, Topology!Spec
=============================================================================
