----------------------------- MODULE ConnLimit ------------------------------
(***************************************************************************)
(* RateLimitedIncoming (ratelimit/transport.rs): the number of concurrent  *)
(* connections per peer address, counted in a table that every listener    *)
(* shares under a mutex.                                                   *)
(***************************************************************************)
EXTENDS Integers, FiniteSets

CONSTANTS
    Conns,          \* sockets that connect and close, again and again
    Ips,            \* peer addresses
    NoIp,           \* the connect info yields no peer address
    Transport,      \* connection -> "tcp" | "tls" | "unix": the listener it comes by
    MaxIpConncur    \* max_ip_conncur

ASSUME ConnLimitAssumption ==
    /\ IsFiniteSet(Conns)
    /\ NoIp \notin Ips
    /\ Transport \in [Conns -> {"tcp", "tls", "unix"}]
    /\ MaxIpConncur \in Nat

VARIABLES
    active_conn_map,    \* address -> count, 0 for a missing entry
    open                \* connection -> [remote_peer, from], for those that are open

connVars == <<active_conn_map, open>>

ConnInit ==
    /\ active_conn_map = [ip \in Ips |-> 0]
    /\ open = [c \in {} |-> c]

\* extract_remote_peer_addr knows TcpConnectInfo and tonic's TlsConnectInfo. TlsIO hands
\* out a TlsConnectInfo of its own (server/tls.rs), which is neither.
ExtractRemotePeer(c, ip) == IF Transport[c] = "tcp" THEN ip ELSE NoIp

\* RateLimitedIO::try_new; a connection over the limit is refused and leaves nothing.
Accept(c, ip) ==
    LET peer == ExtractRemotePeer(c, ip)
    IN  /\ c \notin DOMAIN open
        /\ peer # NoIp => active_conn_map[peer] < MaxIpConncur
        /\ active_conn_map' = [i \in Ips |-> IF i = peer THEN active_conn_map[i] + 1 ELSE active_conn_map[i]]
        /\ open' = [x \in DOMAIN open \cup {c} |->
                      IF x = c THEN [remote_peer |-> peer, from |-> ip] ELSE open[x]]

\* Mutant: a closed connection takes the address's entry with it.
LoweredAlwaysRemoves(count) == 0

\* The entry after Drop: the lowered count is computed and compared with 0, and not
\* stored.
Lowered(count) == IF count - 1 = 0 THEN 0 ELSE count

\* Drop of RateLimitedIO
Close(c) ==
    /\ c \in DOMAIN open
    /\ active_conn_map' = [ip \in Ips |-> IF ip = open[c].remote_peer THEN Lowered(active_conn_map[ip])
                                                                      ELSE active_conn_map[ip]]
    /\ open' = [x \in DOMAIN open \ {c} |-> open[x]]

-----------------------------------------------------------------------------
(* Properties                                                              *)

ConnsOf(ip) == {c \in DOMAIN open : open[c].remote_peer = ip}

\* However connections come and go, no address that the limit can see ever holds more
\* than max_ip_conncur of them, and the two expects of Drop (the entry is there, and it
\* does not underflow) hold for every connection that is still to be dropped.
LimitHolds ==
    \A ip \in Ips : /\ Cardinality(ConnsOf(ip)) <= MaxIpConncur
                    /\ ConnsOf(ip) # {} => active_conn_map[ip] >= 1
                    /\ active_conn_map[ip] >= Cardinality(ConnsOf(ip))
=============================================================================
