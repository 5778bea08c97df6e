---------------------------- MODULE MCMetering ------------------------------
EXTENDS Metering

MCCallers ==
    {[subscriber |-> "s", info |-> TRUE], [subscriber |-> "s", info |-> FALSE], [subscriber |-> "nobody", info |-> FALSE]}
MCFrameSizes == {1, 2}
=============================================================================
