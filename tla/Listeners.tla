----------------------------- MODULE Listeners ------------------------------
(***************************************************************************)
(* The listeners of the server: the certificates a TLS listener serves,    *)
(* reloaded by the file watcher's callbacks (file_watcher.rs, grpc.rs      *)
(* load_server_config_from_tls_config, server/tls.rs), the handshakes that *)
(* TlsIncoming keeps apart from its accepted sockets, the token that stops *)
(* all listeners, and the limit of connections they share (ConnLimit).     *)
(***************************************************************************)
EXTENDS ConnLimit, Sequences

CONSTANTS
    Files,          \* kind of configuration -> the files it is read from
    InitialFiles,   \* kind -> file -> contents when the server starts
    Bundles,        \* file -> what an administrator may write into it
    NamesOf,        \* bundle -> host names of its certificate, sequences of labels
    HostNames,      \* names that clients ask for
    MaxWrites       \* bound: changes of the files

TlsConns == {c \in Conns : Transport[c] = "tls"}
Kinds == DOMAIN Files      \* "identity" (IdentityPair) | "cert_dir" (CertDir)

\* A file being written is broken, or a certificate without its key, before it is whole.
Absent == "absent"
Broken == "broken"
Keyless == "keyless"
Unread == "unread"
NotWhole == {Absent, Broken, Keyless}

\* What a file of a configuration may hold.
Contents(k) ==
    NotWhole \cup {InitialFiles[k][f] : f \in Files[k]} \cup UNION {Bundles[f] : f \in Files[k]}

\* A host name has at least one label; a bundle of a directory is a parsed certificate.
ASSUME ListenersAssumption ==
    /\ MaxWrites \in Nat
    /\ \A k \in Kinds : /\ Files[k] \subseteq DOMAIN Bundles
                         /\ InitialFiles[k] \in [Files[k] -> Contents(k)]
                         /\ Unread \notin Contents(k)
    /\ "cert_dir" \in Kinds => Contents("cert_dir") \ NotWhole \subseteq DOMAIN NamesOf
    /\ \A b \in DOMAIN NamesOf : NamesOf[b] \subseteq Seq(STRING) \ {<<>>}
    /\ HostNames \subseteq Seq(STRING) \ {<<>>}

VARIABLES
    tls_config,     \* which of the two configurations the listener has
    files,          \* file -> contents
    writes,         \* bound counter
    events,         \* the notify thread's queue of changed files
    registrations,  \* callbacks in the table: "reload" (forgotten) and "observer" (a live handle)
    running,        \* callbacks of the snapshot still to run for the current event
    loading,        \* file -> contents read by the reload callback, or Unread; <<>> when none runs
    served,         \* the resolver behind ArcSwap
    lateRuns,       \* history: runs of the observer's callback after its handle was dropped
    task,           \* TLS connection -> "none" | "handshaking" | "ready" | "failed": the JoinSet
    cancelled,      \* shutdown_grpc
    incoming        \* the TLS listener's server task runs and has its TlsIncoming

watch == <<files, writes, events, registrations, running, loading, served, lateRuns>>
net == <<task, cancelled, incoming, active_conn_map, open>>
listenersVars == <<tls_config, watch, net>>

-----------------------------------------------------------------------------
(* Certificates                                                            *)

\* A configuration is a set of pairs: names, or the two files, with what they stand for.
Failed == {}

\* SniResolver::add over the bundles of a directory, in any order: a name that comes
\* twice, also as a wildcard, is an error.
Entries(contents, whole) == UNION {{<<n, contents[f]>> : n \in NamesOf[contents[f]]} : f \in whole}
Duplicate(contents, whole) ==
    \E f, g \in whole : f # g /\ NamesOf[contents[f]] \cap NamesOf[contents[g]] # {}

\* build_identity_certified_key does not ask whether the key belongs to the certificate.
BuildIdentity(contents) ==
    IF \E f \in DOMAIN contents : contents[f] \in NotWhole THEN Failed
    ELSE {<<f, contents[f]>> : f \in DOMAIN contents}

\* build_sni_resolver_from_cert_dir: a file without certificate or key is passed over,
\* one that cannot be parsed or names nothing fails the whole directory.
BuildSni(contents) ==
    LET whole == {f \in DOMAIN contents : contents[f] \notin NotWhole}
    IN  IF \/ \E f \in DOMAIN contents : contents[f] = Broken
           \/ whole = {} \/ Duplicate(contents, whole)
           \/ \E f \in whole : NamesOf[contents[f]] = {}
        THEN Failed ELSE Entries(contents, whole)

Build(contents) == IF tls_config = "identity" THEN BuildIdentity(contents) ELSE BuildSni(contents)

IsWildcard(pattern) == pattern[1] = "*"
EndsWith(name, suffix) ==
    Len(name) >= Len(suffix) /\ SubSeq(name, Len(name) - Len(suffix) + 1, Len(name)) = suffix

\* Mutant: the part before the suffix may hold dots.
WildcardMatchesAnyDepth(pattern, name) == EndsWith(name, Tail(pattern)) /\ Len(name) > Len(Tail(pattern))

\* The name ends with the suffix and what is before it is one label.
WildcardMatches(pattern, name) == EndsWith(name, Tail(pattern)) /\ Len(name) - Len(Tail(pattern)) = 1

\* SniResolver::resolve_by_name: the exact name, else the longest wildcard suffix.
ResolveByName(entries, name) ==
    LET exact == {e \in entries : e[1] = name}
        wild == {e \in entries : IsWildcard(e[1]) /\ WildcardMatches(e[1], name)}
        best == {e \in wild : \A x \in wild : Len(x[1]) <= Len(e[1])}
    IN  IF exact # {} THEN exact ELSE best

\* What the client's handshake comes to: the identity's signature must verify under its
\* certificate, a directory must know the name.
HandshakeSucceeds(name) ==
    IF tls_config = "identity" THEN \A e, x \in served : e[2] = x[2]
    ELSE ResolveByName(served, name) # {}

-----------------------------------------------------------------------------
ListenersInit ==
    /\ tls_config \in Kinds
    /\ files = InitialFiles[tls_config] /\ Build(files) # Failed     \* else there is no server
    /\ served = Build(files)
    /\ writes = 0 /\ events = <<>> /\ lateRuns = 0
    /\ registrations = {"reload", "observer"}
    /\ running = {} /\ loading = <<>>
    /\ task = [c \in TlsConns |-> "none"]
    /\ cancelled = FALSE /\ incoming = TRUE
    /\ ConnInit

(* The administrator (external): files are rewritten in place, and every   *)
(* change is an event; while the server serves                             *)

Change(f, contents) ==
    /\ writes < MaxWrites /\ ~cancelled
    /\ files' = [files EXCEPT ![f] = contents]
    /\ writes' = writes + 1
    /\ events' = Append(events, f)
    /\ UNCHANGED <<tls_config, registrations, running, loading, served, lateRuns, net>>

StartWriting(f) ==
    \E c \in IF tls_config = "identity" THEN {Broken} ELSE {Broken, Keyless} :
        files[f] \notin {Broken, Keyless} /\ Change(f, c)
FinishWriting(f) == \E b \in Bundles[f] : files[f] # b /\ Change(f, b)

-----------------------------------------------------------------------------
(* The file watcher's thread                                               *)

Idle == running = {} /\ loading = <<>>

\* handle_event: the table is cloned under the lock, the callbacks run without it.
HandleEvent ==
    /\ Idle /\ events # <<>>
    /\ events' = Tail(events)
    /\ running' = registrations
    /\ UNCHANGED <<tls_config, files, writes, registrations, loading, served, lateRuns, net>>

RunObserver ==
    /\ "observer" \in running /\ loading = <<>>
    /\ running' = running \ {"observer"}
    /\ lateRuns' = IF "observer" \in registrations THEN lateRuns ELSE lateRuns + 1
    /\ UNCHANGED <<tls_config, files, writes, events, registrations, loading, served, net>>

\* The callback of the certificate, of the key and of the folder: each builds the whole
\* configuration again, from files that may change between two reads.
StartReload ==
    /\ "reload" \in running /\ loading = <<>>
    /\ loading' = [f \in Files[tls_config] |-> Unread]
    /\ UNCHANGED <<tls_config, files, writes, events, registrations, running, served, lateRuns, net>>

ReadFile(f) ==
    /\ loading # <<>> /\ loading[f] = Unread
    /\ loading' = [loading EXCEPT ![f] = files[f]]
    /\ UNCHANGED <<tls_config, files, writes, events, registrations, running, served, lateRuns, net>>

\* Mutant: events that came while the files were read are taken as dealt with.
SwapCoalescing ==
    /\ loading # <<>> /\ \A f \in DOMAIN loading : loading[f] # Unread
    /\ served' = IF Build(loading) = Failed THEN served ELSE Build(loading)
    /\ running' = running \ {"reload"} /\ loading' = <<>> /\ events' = <<>>
    /\ UNCHANGED <<tls_config, files, writes, registrations, lateRuns, net>>

\* swap; a build that fails is logged and changes nothing.
Swap ==
    /\ loading # <<>> /\ \A f \in DOMAIN loading : loading[f] # Unread
    /\ served' = IF Build(loading) = Failed THEN served ELSE Build(loading)
    /\ running' = running \ {"reload"} /\ loading' = <<>>
    /\ UNCHANGED <<tls_config, files, writes, events, registrations, lateRuns, net>>

\* Drop of FileWatchHandle waits for the table's lock, not for callbacks that run.
DropHandle ==
    /\ "observer" \in registrations
    /\ registrations' = registrations \ {"observer"}
    /\ UNCHANGED <<tls_config, files, writes, events, running, loading, served, lateRuns, net>>

-----------------------------------------------------------------------------
(* Connections                                                             *)

\* TlsIncoming spawns the handshake of an accepted socket; there is no timeout for it.
Connect(c) ==
    /\ ~cancelled /\ task[c] = "none" /\ c \notin DOMAIN open
    /\ task' = [task EXCEPT ![c] = "handshaking"]
    /\ UNCHANGED <<tls_config, watch, cancelled, incoming, connVars>>

Hello(c) ==
    /\ task[c] = "handshaking"
    /\ \E name \in HostNames :
         task' = [task EXCEPT ![c] = IF HandshakeSucceeds(name) THEN "ready" ELSE "failed"]
    /\ UNCHANGED <<tls_config, watch, cancelled, incoming, connVars>>

\* poll_next: the error of a handshake is logged and the loop goes on.
SkipFailed(c) ==
    /\ ~cancelled /\ task[c] = "failed"
    /\ task' = [task EXCEPT ![c] = "none"]
    /\ UNCHANGED <<tls_config, watch, cancelled, incoming, connVars>>

\* Mutant: handshakes are awaited one after the other.
YieldTlsWaitsForAll(c) ==
    /\ ~cancelled /\ task[c] = "ready" /\ \A x \in TlsConns : task[x] # "handshaking"
    /\ \E ip \in Ips : Accept(c, ip)
    /\ task' = [task EXCEPT ![c] = "none"]
    /\ UNCHANGED <<tls_config, watch, cancelled, incoming>>

YieldTls(c) ==
    /\ ~cancelled /\ task[c] = "ready"
    /\ \E ip \in Ips : Accept(c, ip)
    /\ task' = [task EXCEPT ![c] = "none"]
    /\ UNCHANGED <<tls_config, watch, cancelled, incoming>>

\* A TCP or a Unix socket
AcceptPlain(c) ==
    /\ ~cancelled
    /\ \E ip \in Ips : Accept(c, ip)
    /\ UNCHANGED <<tls_config, watch, task, cancelled, incoming>>

CloseConn(c) == Close(c) /\ UNCHANGED <<tls_config, watch, task, cancelled, incoming>>

\* The TLS listener's task is over: the JoinSet of handshakes goes with its stream.
DropIncoming ==
    /\ incoming
    /\ incoming' = FALSE
    /\ task' = [c \in TlsConns |-> "none"]
    /\ UNCHANGED <<tls_config, watch, connVars>>

\* A cancelled server ends after its last connection.
ServerEnds == cancelled /\ TlsConns \cap DOMAIN open = {} /\ DropIncoming /\ UNCHANGED cancelled

\* The TLS listener fails, also when its service cannot be built, and cancels the token
\* that all listeners share.
ListenerFails == DropIncoming /\ cancelled' = TRUE

\* The service is cancelled, or another listener has failed.
Shutdown ==
    /\ ~cancelled
    /\ cancelled' = TRUE
    /\ UNCHANGED <<tls_config, watch, task, incoming, connVars>>

Watcher == HandleEvent \/ RunObserver \/ StartReload \/ Swap \/ \E f \in Files[tls_config] : ReadFile(f)
Poll == \E c \in TlsConns : SkipFailed(c) \/ YieldTls(c)

ListenersNext ==
    \/ \E f \in Files[tls_config] : StartWriting(f) \/ FinishWriting(f)
    \/ Watcher \/ DropHandle \/ Poll \/ Shutdown \/ ListenerFails \/ ServerEnds
    \/ \E c \in TlsConns : Connect(c) \/ Hello(c)
    \/ \E c \in Conns \ TlsConns : AcceptPlain(c)
    \/ \E c \in Conns : CloseConn(c)

\* The listener's task runs.
ListenersSpec ==
    /\ ListenersInit /\ [][ListenersNext]_listenersVars
    /\ WF_listenersVars(ServerEnds) /\ \A c \in TlsConns : WF_listenersVars(YieldTls(c))

-----------------------------------------------------------------------------
(* Properties                                                              *)

\* Every change of the files reaches those who watch, and only those.  Whatever is written
\* while the callbacks read, once the watcher is idle a configuration that can be built is
\* the one served, and one that cannot has left the last good one in place; dropping a
\* handle does not wait for its callback, but at most the event in progress still reaches it.
WatchersCurrent ==
    /\ served # Failed
    /\ Idle /\ events = <<>> /\ Build(files) # Failed => served = Build(files)
    /\ lateRuns <= 1

\* resolve_by_name finds the certificate that names the host, or else the one whose
\* wildcard stands for exactly its first label, and never two; how many labels a
\* wildcard has decides nothing.
NameGetsItsCert ==
    tls_config = "cert_dir" =>
        \A name \in HostNames :
            LET found == ResolveByName(served, name)
                covers(p) == p = name \/ (p[1] = "*" /\ Tail(p) = Tail(name))
            IN  /\ Cardinality(found) <= 1
                /\ found = {} <=> \A e \in served : ~covers(e[1])
                /\ \A e \in found : covers(e[1]) /\ ((\E x \in served : x[1] = name) => e[1] = name)

\* However many clients stall in their handshake or fail it, one that is through is
\* handed to the server, unless the server shuts down.  And when the service is cancelled
\* or another listener fails, stalled handshakes do not hold the listener up: it is gone
\* once it has no connection left.
HandshakesApart ==
    /\ \A c \in TlsConns : (task[c] = "ready") ~> (c \in DOMAIN open \/ cancelled)
    /\ cancelled ~> (~incoming \/ TlsConns \cap DOMAIN open # {})
=============================================================================
