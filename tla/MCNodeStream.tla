---------------------------- MODULE MCNodeStream ----------------------------
(* Instance of NodeStream for TLC: one request that is valid and one for each thing *)
(* validation refuses.                                                              *)
EXTENDS NodeStream

Cuckoo(buckets, entries, bits, len) ==
    [hash_algorithm |-> "siphash", entries_per_bucket |-> entries, fingerprint_bits |-> bits,
     bucket_count |-> buckets, data_len |-> len]
Good == [names |-> {"a"}, cuckoo_filters |-> {Cuckoo(2, 4, 16, 16)},
         filters |-> {[by |-> "memcmp", operand |-> "bytes"], [by |-> "datasize", operand |-> "none"]}]
MCRequests ==
    {Good, [Good EXCEPT !.names = {"a", "__autoreconnect"}],
     [Good EXCEPT !.filters = {[by |-> "none", operand |-> "none"]}],
     [Good EXCEPT !.filters = {[by |-> "lamports", operand |-> "none"]}],
     [Good EXCEPT !.cuckoo_filters = {Cuckoo(3, 4, 16, 24)}],
     [Good EXCEPT !.cuckoo_filters = {Cuckoo(2, 4, 16, 8)}]}
MCDeshredRequests ==
    {[is_object |-> TRUE, deshred_transactions |-> {[vote |-> "absent"], [vote |-> "true"]}],
     [is_object |-> TRUE, deshred_transactions |-> {[vote |-> "other"]}],
     [is_object |-> FALSE, deshred_transactions |-> {}]}
=============================================================================
