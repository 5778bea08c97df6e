---------------------------- MODULE MCListeners -----------------------------
EXTENDS Listeners, TLC

MCConns == {"t1", "t2", "s1", "s2"}
MCTransport == [c \in MCConns |-> IF c \in {"s1", "s2"} THEN "tls" ELSE "tcp"]
MCFiles == [k \in {"identity", "cert_dir"} |-> IF k = "identity" THEN {"cert", "key"} ELSE {"a", "b"}]
MCInitialFiles == [k \in DOMAIN MCFiles |->
    IF k = "identity" THEN [f \in MCFiles[k] |-> "v1"] ELSE [f \in MCFiles[k] |-> IF f = "a" THEN "A" ELSE "absent"]]
MCBundles == "cert" :> {"v2"} @@ "key" :> {"v2"} @@ "a" :> {"A"} @@ "b" :> {"B1", "B2"}
\* B1 answers for a host of its own and by wildcard for others; B2 repeats a name of A.
MCNamesOf ==
    "A" :> {<<"api", "x">>} @@ "B1" :> {<<"*", "x">>, <<"*", "y", "x">>} @@ "B2" :> {<<"api", "x">>, <<"rpc", "x">>}
MCHostNames == {<<"api", "x">>, <<"rpc", "x">>, <<"rpc", "y", "x">>, <<"z", "rpc", "y", "x">>}
=============================================================================
