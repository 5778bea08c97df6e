----------------------------- MODULE CuckooSet ------------------------------
(***************************************************************************)
(* CompressedAccountFilterSet (cuckoo/set.rs): an exact set beside a       *)
(* cuckoo filter (cuckoo/filter.rs) that goes on the wire.  One step per   *)
(* eviction of CuckooFilter::insert; the hashes of the items are chosen    *)
(* once, freely, so that every pattern of collisions is checked.           *)
(***************************************************************************)
EXTENDS Integers, FiniteSets, Sequences, Options

CONSTANTS
    Items,
    MaxCapacity,        \* max_capacity of with_capacity
    EntriesPerBucket,   \* ENTRIES_PER_BUCKET
    LoadPercent,        \* LOAD_FACTOR, in percent
    HashBits,           \* the bits of a hash a fingerprint is made of, as they occur
    MaxKicks,           \* MAX_KICKS
    DefaultHashSeed,    \* DEFAULT_HASH_SEED, of two bits
    RequestMaps,        \* the maps of a request the set is put into
    MaxAge,             \* bound: changes of the set and entries written since the first entry
    MaxWire,            \* bound: requests sent and not yet read
    BitXor(_, _)        \* the exclusive or of two bucket indices

ASSUME CuckooAssumption ==
    /\ IsFiniteSet(Items)
    /\ {MaxCapacity, MaxKicks, MaxAge, MaxWire} \subseteq Nat
    /\ {EntriesPerBucket, LoadPercent} \subseteq Nat \ {0}
    /\ \A bits \in HashBits : bits \in Nat /\ bits < 65536     \* u16
    /\ DefaultHashSeed \in 0..3
    /\ RequestMaps \subseteq {"accounts", "blocks", "transactions"} /\ RequestMaps # {}

VARIABLES
    fp_of,      \* fingerprint_from_hash(hash(item))
    i1_of,      \* index(hash(item))
    mask_of,    \* index(hash(fingerprint))
    buckets,    \* bucket index -> slots, 0 for an empty one
    items,      \* the exact set
    dirty,
    kick,       \* the eviction that is under way, or NoKick
    table_full, \* history: an insert has returned TableFullError
    request,    \* the request the user keeps: in each map, the entry with the set, if any
    written,    \* the map whose entry was written last
    age,        \* changes and entries since the first entry was written, at most MaxAge
    owed,       \* what the user is about to do: "nothing", "rebuild" or "send" the request
    wire,       \* the requests sent and not yet read
    server      \* in each map, the filter the server has made of the last request

hashVars == <<fp_of, i1_of, mask_of>>
wireVars == <<request, written, owed, wire, server>>
cuckooVars == <<hashVars, buckets, items, dirty, kick, table_full, age, wireVars>>

-----------------------------------------------------------------------------
(* with_capacity                                                           *)

CeilDiv(a, b) == (a + b - 1) \div b
NextPowerOfTwo(n) == CHOOSE p \in {2^k : k \in 0..n} : p >= n /\ \A k \in 0..n : 2^k >= n => p <= 2^k

\* Enough buckets for max_capacity at the load factor, rounded up.
BucketCount == NextPowerOfTwo(CeilDiv(MaxCapacity * 100, LoadPercent * EntriesPerBucket))

\* 0 marks an empty slot.
fingerprint_from_hash(bits) == IF bits = 0 THEN 1 ELSE bits
Fingerprints == {fingerprint_from_hash(bits) : bits \in HashBits}

Index == 0..(BucketCount - 1)

\* The number of buckets is a power of two, so that the exclusive or of two indices is one,
\* and taking it twice leads back.
ASSUME XorAssumption ==
    \A i, mask \in Index : BitXor(i, mask) \in Index /\ BitXor(BitXor(i, mask), mask) = i

Places == 0..(EntriesPerBucket - 1)
EmptyBucket == [e \in Places |-> 0]
NoKick == [item |-> 0, fp |-> 0, i |-> 0, n |-> 0]
NotEvicting == kick = NoKick
\* A change of the set counts from the first entry on.
Counted == age < MaxAge /\ age' = IF age = 0 THEN 0 ELSE age + 1
NoEntries == [map \in RequestMaps |-> None]

\* An empty set, with hashes of every pattern
CuckooInit ==
    /\ fp_of \in {[x \in Items |-> fingerprint_from_hash(bits[x])] : bits \in [Items -> HashBits]}
    /\ i1_of \in [Items -> Index]
    /\ mask_of \in [Fingerprints -> Index]
    /\ buckets = [i \in Index |-> EmptyBucket]
    /\ items = {}
    /\ dirty = FALSE
    /\ kick = NoKick
    /\ table_full = FALSE
    /\ request = NoEntries
    /\ written = CHOOSE map \in RequestMaps : TRUE     \* none yet
    /\ age = 0
    /\ owed = "nothing"
    /\ wire = <<>>
    /\ server = NoEntries

Alternate(i, fp) == BitXor(i, mask_of[fp])
I1(x) == i1_of[x]
I2(x) == Alternate(i1_of[x], fp_of[x])

PlacesOf(i, fp) == {e \in Places : buckets[i][e] = fp}
First(S) == CHOOSE e \in S : \A o \in S : e <= o

\* try_insert_to_bucket and try_remove_from_bucket: the first place that fits
Stored(i, fp) == [buckets EXCEPT ![i][First(PlacesOf(i, 0))] = fp]
Cleared(i, fp) == [buckets EXCEPT ![i][First(PlacesOf(i, fp))] = 0]

\* CuckooFilter::contains
contains(x) == PlacesOf(I1(x), fp_of[x]) # {} \/ PlacesOf(I2(x), fp_of[x]) # {}

\* CompressedAccountFilterSet::insert of a new item: one of its buckets has room ...
Insert(x) ==
    /\ NotEvicting
    /\ Counted
    /\ x \notin items
    /\ \E i \in {I1(x), I2(x)} :
          /\ PlacesOf(i, 0) # {}
          /\ i = I2(x) => I2(x) = I1(x) \/ PlacesOf(I1(x), 0) = {}
          /\ buckets' = Stored(i, fp_of[x])
    /\ items' = items \cup {x}
    /\ dirty' = TRUE
    /\ UNCHANGED <<hashVars, wireVars, kick, table_full>>

\* ... or the eviction loop starts,
InsertEvicts(x) ==
    /\ NotEvicting
    /\ Counted
    /\ x \notin items
    /\ PlacesOf(I1(x), 0) = {} /\ PlacesOf(I2(x), 0) = {}
    /\ kick' = [item |-> x, fp |-> fp_of[x], i |-> I1(x), n |-> 0]
    /\ UNCHANGED <<hashVars, wireVars, buckets, items, dirty, table_full>>

\* The bucket an evicted fingerprint goes to.
Destination(i, evicting, evicted) == Alternate(i, evicted)

\* and turns: swap the fingerprint in hand with a place's, try the other bucket.
Kick ==
    /\ ~NotEvicting
    /\ kick.n < MaxKicks
    /\ LET e == (kick.n + kick.fp) % EntriesPerBucket
           evicted == buckets[kick.i][e]
           i == Destination(kick.i, kick.fp, evicted)
           swapped == [buckets EXCEPT ![kick.i][e] = kick.fp]
           room == {o \in Places : swapped[i][o] = 0}
       IN  IF room # {}
           THEN /\ buckets' = [swapped EXCEPT ![i][First(room)] = evicted]
                /\ items' = items \cup {kick.item}
                /\ dirty' = TRUE
                /\ kick' = NoKick
           ELSE /\ buckets' = swapped
                /\ kick' = [kick EXCEPT !.fp = evicted, !.i = i, !.n = @ + 1]
                /\ UNCHANGED <<items, dirty>>
    /\ UNCHANGED <<hashVars, age, wireVars, table_full>>

\* TableFullError: the fingerprint in hand is dropped.
InsertFails ==
    /\ ~NotEvicting
    /\ kick.n = MaxKicks
    /\ kick' = NoKick
    /\ table_full' = TRUE
    /\ UNCHANGED <<hashVars, age, wireVars, buckets, items, dirty>>

\* Mutant: every copy of the fingerprint is cleared.
RemovedEveryCopy(x) ==
    [i \in Index |-> [e \in Places |->
        IF i \in {I1(x), I2(x)} /\ buckets[i][e] = fp_of[x] THEN 0 ELSE buckets[i][e]]]

\* CuckooFilter::remove: one copy of the fingerprint
Removed(x) ==
    IF PlacesOf(I1(x), fp_of[x]) # {} THEN Cleared(I1(x), fp_of[x])
    ELSE IF PlacesOf(I2(x), fp_of[x]) # {} THEN Cleared(I2(x), fp_of[x])
    ELSE buckets

\* Mutant: a removal does not mark the set.
RemoveNotDirty(x) ==
    /\ NotEvicting
    /\ Counted
    /\ x \in items
    /\ items' = items \ {x}
    /\ buckets' = Removed(x)
    /\ UNCHANGED <<hashVars, wireVars, dirty, kick, table_full>>

\* CompressedAccountFilterSet::remove
remove(x) ==
    /\ NotEvicting
    /\ Counted
    /\ x \in items
    /\ items' = items \ {x}
    /\ buckets' = Removed(x)
    /\ dirty' = TRUE
    /\ UNCHANGED <<hashVars, wireVars, kick, table_full>>

-----------------------------------------------------------------------------
(* The wire                                                                *)

\* The seed of the hasher gives both keys of SipHash; other keys are other hashes,
\* here the ones that differ everywhere.
keys_from_seed(seed) == <<seed, (seed % 2) * 2 + (seed \div 2)>>
IndexUnder(seed, x) ==
    IF keys_from_seed(seed) = keys_from_seed(DefaultHashSeed) THEN I1(x) ELSE (I1(x) + 1) % BucketCount

\* u16::to_le_bytes
to_le_bytes(fp) == <<fp % 256, fp \div 256>>

\* ProtoCuckooFilter::from: the buckets' fingerprints one after the other
to_proto ==
    LET slot(k) == buckets[k \div EntriesPerBucket][k % EntriesPerBucket]
    IN  [data |-> [b \in 1..(2 * BucketCount * EntriesPerBucket) |->
                      to_le_bytes(slot((b - 1) \div 2))[1 + ((b - 1) % 2)]],
         bucket_count |-> BucketCount, hash_seed |-> DefaultHashSeed]

\* CuckooFilter::from: whole fingerprints of whole buckets, at least one bucket
from_proto(proto) ==
    LET fingerprint(k) == proto.data[2 * k + 1] + 256 * proto.data[2 * k + 2]
        count == (Len(proto.data) \div 2) \div EntriesPerBucket
    IN  [buckets |-> IF count = 0
                     THEN [i \in {0} |-> EmptyBucket]
                     ELSE [i \in 0..(count - 1) |->
                              [e \in Places |-> fingerprint(i * EntriesPerBucket + e)]],
         seed |-> proto.hash_seed]

\* The three kinds of filter that can carry the set
to_account_filter == [account |-> {}, owner |-> {}, cuckoo |-> Some(to_proto)]
to_block_filter == [account_include |-> {}, cuckoo |-> Some(to_proto)]
to_transaction_filter ==
    [account_include |-> {}, account_exclude |-> {}, account_required |-> {},
     cuckoo |-> Some(to_proto)]

\* The set as an entry of one of the maps of a request.
filter_for(map) ==
    CASE map = "accounts" -> to_account_filter
      [] map = "blocks" -> to_block_filter
      [] map = "transactions" -> to_transaction_filter

\* The user asks whether to build the request again, and so clears the flag.
take_dirty ==
    /\ NotEvicting
    /\ owed' = IF dirty THEN "rebuild" ELSE owed
    /\ dirty' = FALSE
    /\ UNCHANGED <<hashVars, buckets, items, kick, table_full, request, written, age, wire, server>>

\* insert_into_subscribe_request, insert_into_block_subscribe_request and
\* insert_into_transaction_subscribe_request: the entry in one map is replaced, the other maps
\* keep theirs, and the flag is cleared though nothing has been sent.
insert_into_request(map) ==
    /\ NotEvicting
    /\ age < MaxAge
    /\ age' = age + 1
    /\ request' = [request EXCEPT ![map] = Some(filter_for(map))]
    /\ written' = map
    /\ owed' = "send"
    /\ dirty' = FALSE
    /\ UNCHANGED <<hashVars, buckets, items, kick, table_full, wire, server>>

\* The user sends the request it keeps, because of this set or for another reason ...
SendRequest ==
    /\ NotEvicting /\ request # NoEntries
    /\ Len(wire) < MaxWire
    /\ wire' = Append(wire, request)
    /\ owed' = IF owed = "send" THEN "nothing" ELSE owed
    /\ UNCHANGED <<hashVars, buckets, items, dirty, kick, table_full, request, written, age, server>>

\* ... and the server makes its filters anew of the next request.
FiltersOf(req) == [map \in RequestMaps |-> IF req[map] = None THEN None
                                           ELSE Map(Get(req[map]).cuckoo, from_proto)]
ServerReads ==
    /\ wire # <<>>
    /\ wire' = Tail(wire)
    /\ server' = FiltersOf(Head(wire))
    /\ UNCHANGED <<hashVars, buckets, items, dirty, kick, table_full, request, written, age, owed>>

\* The stream breaks, with what was under way on it; the next one starts with the request kept.
StreamBreaks ==
    /\ NotEvicting /\ request # NoEntries
    /\ wire' = <<>>
    /\ server' = NoEntries
    /\ owed' = IF owed = "rebuild" THEN "rebuild" ELSE "send"
    /\ UNCHANGED <<hashVars, buckets, items, dirty, kick, table_full, request, written, age>>

CuckooNext ==
    \/ \E x \in Items : Insert(x) \/ InsertEvicts(x) \/ remove(x)
    \/ Kick \/ InsertFails
    \/ take_dirty
    \/ \E map \in RequestMaps : insert_into_request(map)
    \/ SendRequest \/ ServerReads \/ StreamBreaks

CuckooSpec == CuckooInit /\ [][CuckooNext]_cuckooVars

-----------------------------------------------------------------------------
(* Properties                                                              *)

Occupied == {p \in Index \X Places : buckets[p[1]][p[2]] # 0}

\* As long as no insert has failed, every item of the set is found through the
\* filter, whatever was evicted and whichever items with the same fingerprint were
\* removed, and the filter holds one fingerprint per item.
NoFalseNegatives ==
    (NotEvicting /\ ~table_full) => /\ \A x \in items : contains(x)
                         /\ Cardinality(Occupied) = Cardinality(items)

\* What the server filters by once it has read all that was sent, or that the user is about to
\* send.
InForce ==
    IF owed = "send" THEN FiltersOf(request)
    ELSE IF wire # <<>> THEN FiltersOf(wire[Len(wire)])
    ELSE server

\* CuckooFilter::contains on the server
Lets(filter, x) ==
    /\ filter # None
    /\ LET f == Get(filter)
           i1 == IndexUnder(f.seed, x)
       IN  \E i \in {i1, Alternate(i1, fp_of[x])} \cap DOMAIN f.buckets :
              \E e \in Places : f.buckets[i][e] = fp_of[x]

\* No change of the set gets lost between the flag and the server.  Of a user who builds the
\* request anew when take_dirty says so: as long as the flag is down, what the server lets pass,
\* by the map written last and once it has read the requests under way, is what the client's
\* filter holds, after the bytes of the wire and with the hashes of the seed in them.  Changes
\* may come between taking the flag, writing the entry, sending and reading, other maps may
\* keep older entries, and the stream may break.
CleanIsSent ==
    (NotEvicting /\ ~table_full /\ ~dirty /\ owed # "rebuild") =>
        \A x \in Items : Lets(InForce[written], x) = contains(x)
=============================================================================
