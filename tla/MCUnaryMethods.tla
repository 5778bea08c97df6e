--------------------------- MODULE MCUnaryMethods ---------------------------
EXTENDS UnaryMethods

MCSlots == 0 .. 2
MCMaxBanks == [s \in MCSlots |-> IF s = 2 THEN 2 ELSE 1]
MCAsked ==
    {[method |-> "ping", commitment |-> "default"],
     [method |-> "get_slot", commitment |-> "unknown"],
     [method |-> "get_latest_blockhash", commitment |-> "confirmed"],
     [method |-> "is_blockhash_valid", commitment |-> "confirmed", blockhash |-> <<1, 1>>]}
=============================================================================
