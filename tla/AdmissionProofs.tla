-------------------------- MODULE AdmissionProofs ---------------------------
(***************************************************************************)
(* What lets a client in, for every set of connections and of requests,    *)
(* every configuration and every length of the run: first the listeners    *)
(* (LimitHolds, WatchersCurrent, NameGetsItsCert), then the requests       *)
(* (AuthPermitsExact, JudgedByItself, RateHolds).                          *)
(***************************************************************************)
EXTENDS Admission, Listeners, FiniteSetTheorems, SequenceTheorems, TLAPS

-----------------------------------------------------------------------------
(* The limit of connections                                                *)

\* The count of an address is a bound of its open connections, and is itself bounded.
ConnInv ==
    /\ active_conn_map \in [Ips -> 0 .. MaxIpConncur]
    /\ DOMAIN open \subseteq Conns
    /\ \A ip \in Ips : Cardinality(ConnsOf(ip)) <= active_conn_map[ip]

LEMMA ConnsOfFinite ==
    ASSUME DOMAIN open \subseteq Conns, NEW ip
    PROVE  IsFiniteSet(ConnsOf(ip)) /\ Cardinality(ConnsOf(ip)) \in Nat
BY ConnLimitAssumption, FS_Subset, FS_CardinalityType DEF ConnsOf, ConnLimitAssumption

\* try_new counts the connection that it lets in.
LEMMA AcceptPreserves ==
    ASSUME ConnInv, NEW c \in Conns, NEW ip \in Ips, Accept(c, ip)
    PROVE  ConnInv'
<1> DEFINE peer == ExtractRemotePeer(c, ip)
<1>1. /\ c \notin DOMAIN open
      /\ peer # NoIp => active_conn_map[peer] < MaxIpConncur
      /\ active_conn_map' = [i \in Ips |-> IF i = peer THEN active_conn_map[i] + 1 ELSE active_conn_map[i]]
      /\ DOMAIN open' = DOMAIN open \cup {c}
      /\ open'[c].remote_peer = peer
      /\ \A x \in DOMAIN open : open'[x] = open[x]
  BY DEF Accept
<1>2. active_conn_map' \in [Ips -> 0 .. MaxIpConncur]
  BY <1>1, ConnLimitAssumption DEF ConnInv, ConnLimitAssumption
<1>3. DOMAIN open' \subseteq Conns
  BY <1>1 DEF ConnInv
<1>4. ASSUME NEW i \in Ips
      PROVE  Cardinality(ConnsOf(i))' <= active_conn_map'[i]
  <2>0. IsFiniteSet(ConnsOf(i)) /\ Cardinality(ConnsOf(i)) \in Nat
    BY ConnsOfFinite DEF ConnInv
  <2>1. Cardinality(ConnsOf(i)) <= active_conn_map[i] /\ active_conn_map[i] \in Nat
    BY DEF ConnInv
  <2>2. CASE i = peer
    <3>1. ConnsOf(i)' = ConnsOf(i) \cup {c} /\ c \notin ConnsOf(i)
      BY <1>1, <2>2 DEF ConnsOf
    <3>2. Cardinality(ConnsOf(i)') = Cardinality(ConnsOf(i)) + 1
      BY <2>0, <3>1, FS_AddElement
    <3> QED
      BY <1>1, <2>0, <2>1, <2>2, <3>2
  <2>3. CASE i # peer
    <3>1. ConnsOf(i)' = ConnsOf(i)
      BY <1>1, <2>3 DEF ConnsOf
    <3> QED
      BY <1>1, <2>1, <2>3, <3>1
  <2> QED
    BY <2>2, <2>3
<1> QED
  BY <1>2, <1>3, <1>4 DEF ConnInv

\* Drop forgets an address only when its last connection goes.
LEMMA ClosePreserves ==
    ASSUME ConnInv, NEW c \in Conns, Close(c)
    PROVE  ConnInv'
<1>1. /\ c \in DOMAIN open
      /\ active_conn_map' = [ip \in Ips |-> IF ip = open[c].remote_peer THEN Lowered(active_conn_map[ip])
                                                                        ELSE active_conn_map[ip]]
      /\ DOMAIN open' = DOMAIN open \ {c}
      /\ \A x \in DOMAIN open \ {c} : open'[x] = open[x]
  BY DEF Close
<1>2. active_conn_map' \in [Ips -> 0 .. MaxIpConncur]
  BY <1>1, ConnLimitAssumption DEF ConnInv, ConnLimitAssumption, Lowered
<1>3. DOMAIN open' \subseteq Conns
  BY <1>1 DEF ConnInv
<1>4. ASSUME NEW i \in Ips
      PROVE  Cardinality(ConnsOf(i))' <= active_conn_map'[i]
  <2>0. IsFiniteSet(ConnsOf(i)) /\ Cardinality(ConnsOf(i)) \in Nat
    BY ConnsOfFinite DEF ConnInv
  <2>1. Cardinality(ConnsOf(i)) <= active_conn_map[i] /\ active_conn_map[i] \in Nat
    BY DEF ConnInv
  <2>2. CASE i = open[c].remote_peer
    <3>1. ConnsOf(i)' = ConnsOf(i) \ {c} /\ c \in ConnsOf(i)
      BY <1>1, <2>2 DEF ConnsOf
    <3>2. Cardinality(ConnsOf(i)') = Cardinality(ConnsOf(i)) - 1
      BY <2>0, <3>1, FS_RemoveElement
    <3>3. active_conn_map'[i] = Lowered(active_conn_map[i])
      BY <1>1, <2>2
    <3> QED
      BY <2>0, <2>1, <3>2, <3>3 DEF Lowered
  <2>3. CASE i # open[c].remote_peer
    <3>1. ConnsOf(i)' = ConnsOf(i)
      BY <1>1, <2>3 DEF ConnsOf
    <3> QED
      BY <1>1, <2>1, <2>3, <3>1
  <2> QED
    BY <2>2, <2>3
<1> QED
  BY <1>2, <1>3, <1>4 DEF ConnInv

LEMMA ConnsUnchanged ==
    ASSUME ConnInv, UNCHANGED connVars
    PROVE  ConnInv'
BY DEF ConnInv, ConnsOf, connVars

LEMMA ConnInvInductive ==
    ASSUME ConnInv, [ListenersNext]_listenersVars
    PROVE  ConnInv'
<1>1. CASE UNCHANGED connVars
  BY <1>1, ConnsUnchanged
<1>2. ASSUME NEW c \in TlsConns, YieldTls(c)
      PROVE  ConnInv'
  BY <1>2, AcceptPreserves DEF YieldTls, TlsConns
<1>3. ASSUME NEW c \in Conns, AcceptPlain(c)
      PROVE  ConnInv'
  BY <1>3, AcceptPreserves DEF AcceptPlain
<1>4. ASSUME NEW c \in Conns, CloseConn(c)
      PROVE  ConnInv'
  BY <1>4, ClosePreserves DEF CloseConn
<1>5. ASSUME NEW f \in Files[tls_config], StartWriting(f) \/ FinishWriting(f)
      PROVE  UNCHANGED connVars
  BY <1>5 DEF StartWriting, FinishWriting, Change, net, connVars
<1>6. CASE Watcher \/ DropHandle
  BY <1>6, <1>1 DEF Watcher, HandleEvent, RunObserver, StartReload, Swap, ReadFile, DropHandle, net, connVars
<1>7. CASE Shutdown \/ ListenerFails \/ ServerEnds
  BY <1>7, <1>1 DEF Shutdown, ListenerFails, ServerEnds, DropIncoming
<1>8. ASSUME NEW c \in TlsConns, Connect(c) \/ Hello(c) \/ SkipFailed(c)
      PROVE  UNCHANGED connVars
  BY <1>8 DEF Connect, Hello, SkipFailed
<1>9. CASE UNCHANGED listenersVars
  BY <1>9, <1>1 DEF listenersVars, net, connVars
<1> QED
  BY <1>1, <1>2, <1>3, <1>4, <1>5, <1>6, <1>7, <1>8, <1>9 DEF ListenersNext, Poll

\* However connections come and go over any number of listeners, no address that the
\* limit can see holds more than max_ip_conncur, and the expects of Drop hold.
THEOREM LimitAlwaysHolds == ListenersSpec => []LimitHolds
<1>1. ListenersInit => ConnInv
  <2> SUFFICES ASSUME ListenersInit PROVE ConnInv
    OBVIOUS
  <2>1. \A ip \in Ips : ConnsOf(ip) = {}
    BY DEF ListenersInit, ConnInit, ConnsOf
  <2>2. Cardinality({}) = 0
    BY FS_EmptySet
  <2>3. DOMAIN open \subseteq Conns /\ active_conn_map = [ip \in Ips |-> 0]
    BY DEF ListenersInit, ConnInit
  <2>4. \A ip \in Ips : Cardinality(ConnsOf(ip)) = 0
    BY <2>1, <2>2
  <2> QED
    BY <2>3, <2>4, ConnLimitAssumption DEF ConnInv, ConnLimitAssumption
<1>2. ConnInv /\ [ListenersNext]_listenersVars => ConnInv'
  BY ConnInvInductive
<1>3. ConnInv => LimitHolds
  <2> SUFFICES ASSUME ConnInv, NEW ip \in Ips
               PROVE  /\ Cardinality(ConnsOf(ip)) <= MaxIpConncur
                      /\ ConnsOf(ip) # {} => active_conn_map[ip] >= 1
                      /\ active_conn_map[ip] >= Cardinality(ConnsOf(ip))
    BY DEF LimitHolds
  <2>1. IsFiniteSet(ConnsOf(ip)) /\ Cardinality(ConnsOf(ip)) \in Nat
    BY ConnsOfFinite DEF ConnInv
  <2>2. ConnsOf(ip) # {} => Cardinality(ConnsOf(ip)) # 0
    BY <2>1, FS_EmptySet
  <2> QED
    BY <2>1, <2>2, ConnLimitAssumption DEF ConnInv, ConnLimitAssumption
<1> QED
  BY <1>1, <1>2, <1>3, PTL DEF ListenersSpec

-----------------------------------------------------------------------------
(* The file watcher                                                        *)

WatchTypes ==
    /\ tls_config \in Kinds
    /\ Files[tls_config] # {}
    /\ files \in [Files[tls_config] -> Contents(tls_config)]
    /\ events \in Seq(Files[tls_config])
    /\ loading = <<>> \/ loading \in [Files[tls_config] -> Contents(tls_config) \cup {Unread}]

\* With no event left, a reload still to come will see every change; one that has begun
\* has read the files as they are; and after it the last build is of the files as they
\* are.
ReloadInv ==
    /\ "reload" \in registrations
    /\ served # Failed
    /\ loading # <<>> => "reload" \in running
    /\ events = <<>> =>
         /\ "reload" \notin running /\ Build(files) # Failed => served = Build(files)
         /\ loading # <<>> => \A f \in Files[tls_config] : loading[f] \in {Unread, files[f]}

\* Before its first late run, the observer is registered or in the snapshot of one event.
ObserverInv ==
    /\ lateRuns \in {0, 1}
    /\ "observer" \in registrations \cup running => lateRuns = 0

WatchInv == WatchTypes /\ ReloadInv /\ ObserverInv

LEMMA WatchInit ==
    ASSUME ListenersInit
    PROVE  WatchInv
<1>1. tls_config \in Kinds /\ files \in [Files[tls_config] -> Contents(tls_config)]
  BY ListenersAssumption DEF ListenersInit, ListenersAssumption
<1>2. Files[tls_config] # {}
  BY <1>1 DEF ListenersInit, Build, BuildIdentity, BuildSni, Failed
<1>3. WatchTypes
  BY <1>1, <1>2 DEF ListenersInit, WatchTypes
<1>4. ReloadInv
  BY DEF ListenersInit, ReloadInv
<1>5. ObserverInv
  BY DEF ListenersInit, ObserverInv
<1> QED
  BY <1>3, <1>4, <1>5 DEF WatchInv

\* A change leaves an event behind, so nothing is claimed of what is served until the
\* thread has taken it.
LEMMA ChangePreserves ==
    ASSUME WatchInv, NEW f \in Files[tls_config], NEW c \in Contents(tls_config), Change(f, c)
    PROVE  WatchInv'
<1>1. events' # <<>> /\ events' \in Seq(Files[tls_config])
  BY DEF WatchInv, WatchTypes, Change
<1>2. WatchTypes'
  BY <1>1 DEF WatchInv, WatchTypes, Change
<1>3. ReloadInv'
  BY <1>1 DEF WatchInv, ReloadInv, Change
<1>4. ObserverInv'
  BY DEF WatchInv, ObserverInv, Change
<1> QED
  BY <1>2, <1>3, <1>4 DEF WatchInv

LEMMA HandleEventPreserves ==
    ASSUME WatchInv, HandleEvent
    PROVE  WatchInv'
<1>1. WatchTypes'
  BY DEF WatchInv, WatchTypes, HandleEvent
<1>2. ReloadInv'
  BY DEF WatchInv, ReloadInv, HandleEvent, Idle
<1>3. ObserverInv'
  BY DEF WatchInv, ObserverInv, HandleEvent
<1> QED
  BY <1>1, <1>2, <1>3 DEF WatchInv

LEMMA ObserverPreserves ==
    ASSUME WatchInv, RunObserver \/ DropHandle
    PROVE  WatchInv'
<1>1. WatchTypes'
  BY DEF WatchInv, WatchTypes, RunObserver, DropHandle
<1>2. /\ UNCHANGED <<tls_config, files, events, loading, served>>
      /\ "reload" \in registrations => "reload" \in registrations'
      /\ "reload" \in running' <=> "reload" \in running
  BY DEF RunObserver, DropHandle
<1>3. ReloadInv'
  BY <1>2 DEF WatchInv, ReloadInv, Build
<1>4. ObserverInv'
  BY DEF WatchInv, ObserverInv, RunObserver, DropHandle
<1> QED
  BY <1>1, <1>3, <1>4 DEF WatchInv

LEMMA StartReloadPreserves ==
    ASSUME WatchInv, StartReload
    PROVE  WatchInv'
<1>1. WatchTypes'
  BY DEF WatchInv, WatchTypes, StartReload
<1>2. ReloadInv'
  BY DEF WatchInv, ReloadInv, StartReload, Build
<1>3. ObserverInv'
  BY DEF WatchInv, ObserverInv, StartReload
<1> QED
  BY <1>1, <1>2, <1>3 DEF WatchInv

LEMMA ReadFilePreserves ==
    ASSUME WatchInv, NEW f \in Files[tls_config], ReadFile(f)
    PROVE  WatchInv'
<1>1. WatchTypes'
  BY DEF WatchInv, WatchTypes, ReadFile
<1>2. ReloadInv'
  BY DEF WatchInv, WatchTypes, ReloadInv, ReadFile, Build
<1>3. ObserverInv'
  BY DEF WatchInv, ObserverInv, ReadFile
<1> QED
  BY <1>1, <1>2, <1>3 DEF WatchInv

\* If no event came while the files were read, what was read is what they hold.
LEMMA SwapPreserves ==
    ASSUME WatchInv, Swap
    PROVE  WatchInv'
<1>1. WatchTypes'
  BY DEF WatchInv, WatchTypes, Swap
<1>2. ASSUME events = <<>>
      PROVE  loading = files
  BY <1>2 DEF WatchInv, WatchTypes, ReloadInv, Swap
<1>3. UNCHANGED <<tls_config, files, events, registrations>> /\ "reload" \notin running' /\ loading' = <<>>
  BY DEF Swap
<1>4. served' = IF Build(loading) = Failed THEN served ELSE Build(loading)
  BY DEF Swap
<1>5. Build(files)' = Build(files)
  BY <1>3 DEF Build
<1>6. ReloadInv'
  BY <1>2, <1>3, <1>4, <1>5 DEF WatchInv, ReloadInv, Failed
<1>7. ObserverInv'
  BY DEF WatchInv, ObserverInv, Swap
<1> QED
  BY <1>1, <1>6, <1>7 DEF WatchInv

LEMMA WatchUnchanged ==
    ASSUME WatchInv, UNCHANGED <<tls_config, watch>>
    PROVE  WatchInv'
BY DEF WatchInv, WatchTypes, ReloadInv, ObserverInv, Build, watch

LEMMA WatchInvInductive ==
    ASSUME WatchInv, [ListenersNext]_listenersVars
    PROVE  WatchInv'
<1>1. ASSUME NEW f \in Files[tls_config], StartWriting(f)
      PROVE  WatchInv'
  BY <1>1, ChangePreserves DEF StartWriting, Contents, NotWhole
<1>2. ASSUME NEW f \in Files[tls_config], FinishWriting(f)
      PROVE  WatchInv'
  BY <1>2, ChangePreserves DEF FinishWriting, Contents
<1>3. CASE Watcher
  BY <1>3, HandleEventPreserves, ObserverPreserves, StartReloadPreserves, ReadFilePreserves, SwapPreserves
  DEF Watcher
<1>4. CASE DropHandle
  BY <1>4, ObserverPreserves
<1>5. CASE Poll \/ Shutdown \/ ListenerFails \/ ServerEnds
  BY <1>5, WatchUnchanged DEF Poll, SkipFailed, YieldTls, Shutdown, ListenerFails, ServerEnds, DropIncoming
<1>6. CASE \/ \E c \in TlsConns : Connect(c) \/ Hello(c)
           \/ \E c \in Conns \ TlsConns : AcceptPlain(c)
           \/ \E c \in Conns : CloseConn(c)
  BY <1>6, WatchUnchanged DEF Connect, Hello, AcceptPlain, CloseConn
<1>7. CASE UNCHANGED listenersVars
  BY <1>7, WatchUnchanged DEF listenersVars
<1> QED
  BY <1>1, <1>2, <1>3, <1>4, <1>5, <1>6, <1>7 DEF ListenersNext

\* Whatever is written while the callbacks read, an idle watcher has served the newest
\* configuration that can be built, and a dropped handle is called at most once more.
THEOREM WatchersAlwaysCurrent == ListenersSpec => []WatchersCurrent
<1>1. ListenersInit => WatchInv
  BY WatchInit
<1>2. WatchInv /\ [ListenersNext]_listenersVars => WatchInv'
  BY WatchInvInductive
<1>3. WatchInv => WatchersCurrent
  BY DEF WatchInv, ReloadInv, ObserverInv, WatchersCurrent, Idle
<1> QED
  BY <1>1, <1>2, <1>3, PTL DEF ListenersSpec

-----------------------------------------------------------------------------
(* Names and certificates                                                  *)

Names == Seq(STRING) \ {<<>>}

\* Every entry has a name, and no name has two.
OneCertPerName(entries) ==
    /\ \A e \in entries : e[1] \in Names
    /\ \A e, x \in entries : e[1] = x[1] => e = x

NamedInv == WatchTypes /\ (tls_config = "cert_dir" => OneCertPerName(served))

\* SniResolver::add refuses what would give a name a second certificate.
LEMMA BuildSniNames ==
    ASSUME "cert_dir" \in Kinds,
           NEW contents \in [Files["cert_dir"] -> Contents("cert_dir")]
    PROVE  OneCertPerName(BuildSni(contents))
<1> DEFINE whole == {f \in DOMAIN contents : contents[f] \notin NotWhole}
<1>1. CASE BuildSni(contents) = Failed
  BY <1>1 DEF OneCertPerName, Failed
<1>2. CASE BuildSni(contents) # Failed
  <2>1. BuildSni(contents) = Entries(contents, whole) /\ ~Duplicate(contents, whole)
    BY <1>2 DEF BuildSni
  <2>2. \A e \in Entries(contents, whole) :
          \E f \in whole : \E n \in NamesOf[contents[f]] : e = <<n, contents[f]>>
    BY DEF Entries
  <2>3. \A f \in whole : NamesOf[contents[f]] \subseteq Names
    BY ListenersAssumption DEF ListenersAssumption, Names
  <2>4. \A e \in Entries(contents, whole) : e[1] \in Names
    BY <2>2, <2>3
  <2>5. ASSUME NEW e \in Entries(contents, whole), NEW x \in Entries(contents, whole), e[1] = x[1]
        PROVE  e = x
    <3>1. PICK f \in whole : \E n \in NamesOf[contents[f]] : e = <<n, contents[f]>>
      BY <2>2
    <3>2. PICK g \in whole : \E n \in NamesOf[contents[g]] : x = <<n, contents[g]>>
      BY <2>2
    <3>3. f = g
      BY <2>1, <2>5, <3>1, <3>2 DEF Duplicate
    <3> QED
      BY <2>5, <3>1, <3>2, <3>3
  <2> QED
    BY <2>1, <2>4, <2>5 DEF OneCertPerName
<1> QED
  BY <1>1, <1>2

LEMMA NamedInit ==
    ASSUME ListenersInit
    PROVE  NamedInv
<1>1. WatchTypes
  BY WatchInit DEF WatchInv
<1>2. CASE tls_config = "cert_dir"
  <2>1. served = BuildSni(files)
    BY <1>2 DEF ListenersInit, Build
  <2> QED
    BY <1>1, <1>2, <2>1, BuildSniNames DEF NamedInv, WatchTypes
<1> QED
  BY <1>1, <1>2 DEF NamedInv

LEMMA NamedInductive ==
    ASSUME WatchInv, NamedInv, [ListenersNext]_listenersVars
    PROVE  NamedInv'
<1>1. WatchTypes'
  BY WatchInvInductive DEF WatchInv
<1>2. tls_config' = tls_config /\ (UNCHANGED served \/ Swap)
  BY DEF ListenersNext, listenersVars, watch, StartWriting, FinishWriting, Change, Watcher, HandleEvent, RunObserver,
         StartReload, ReadFile, Swap, DropHandle, Poll, SkipFailed, YieldTls, Shutdown, ListenerFails,
         ServerEnds, DropIncoming, Connect, Hello, AcceptPlain, CloseConn
<1>3. CASE UNCHANGED served
  BY <1>1, <1>2, <1>3 DEF NamedInv
<1>4. CASE Swap
  <2>1. SUFFICES ASSUME tls_config = "cert_dir" PROVE OneCertPerName(served')
    BY <1>1, <1>2 DEF NamedInv
  <2>2. "cert_dir" \in Kinds /\ loading \in [Files["cert_dir"] -> Contents("cert_dir")]
    BY <1>4, <2>1 DEF WatchInv, WatchTypes, Swap
  <2>3. served' = served \/ served' = BuildSni(loading)
    BY <1>4, <2>1 DEF Swap, Build
  <2> QED
    BY <2>1, <2>2, <2>3, BuildSniNames DEF NamedInv
<1> QED
  BY <1>2, <1>3, <1>4

\* A wildcard matches the names that differ from it in the first label alone: comparing a
\* suffix of the name with the labels after the star comes to comparing the two tails.
LEMMA WildcardStandsForOneLabel ==
    ASSUME NEW p \in Names, NEW n \in Names
    PROVE  WildcardMatches(p, n) <=> Tail(p) = Tail(n)
<1> DEFINE lenP == Len(Tail(p))
           lenN == Len(Tail(n))
<1>1. /\ Len(p) \in Nat /\ Len(n) \in Nat
      /\ lenP \in Nat /\ Len(p) = lenP + 1
      /\ lenN \in Nat /\ Len(n) = lenN + 1
  BY DEF Names
<1>2. SubSeq(n, 2, Len(n)) = Tail(n)
  BY TailIsSubSeq DEF Names
<1>3. Tail(p) = Tail(n) => lenP = lenN
  BY Zenon
<1>4. WildcardMatches(p, n) <=> /\ Len(n) >= lenP /\ SubSeq(n, Len(n) - lenP + 1, Len(n)) = Tail(p)
                               /\ Len(n) - lenP = 1
  BY DEF WildcardMatches, EndsWith
<1> HIDE DEF lenP, lenN
<1>5. Len(n) - lenP = 1 => Len(n) - lenP + 1 = 2
  BY <1>1
<1>6. lenP = lenN => Len(n) - lenP = 1 /\ Len(n) >= lenP
  BY <1>1
<1> QED
  BY <1>2, <1>3, <1>4, <1>5, <1>6, Zenon

LEMMA SameNames ==
    ASSUME NEW p \in Names, NEW q \in Names, p[1] = q[1], Tail(p) = Tail(q)
    PROVE  p = q
<1> DEFINE lenP == Len(Tail(p))
           lenQ == Len(Tail(q))
<1>1. /\ Len(p) \in Nat /\ lenP \in Nat /\ Len(p) = lenP + 1
      /\ Len(q) \in Nat /\ lenQ \in Nat /\ Len(q) = lenQ + 1
      /\ \A i \in 1 .. Len(p) - 1 : Tail(p)[i] = p[i + 1]
      /\ \A i \in 1 .. Len(q) - 1 : Tail(q)[i] = q[i + 1]
  BY HeadTailProperties DEF Names
<1>2. Len(p) = Len(q)
  <2>1. lenP = lenQ
    BY Zenon
  <2> HIDE DEF lenP, lenQ
  <2> QED
    BY <1>1, <2>1
<1>3. ASSUME NEW i \in 1 .. Len(p)
      PROVE  p[i] = q[i]
  <2>1. CASE i = 1
    BY <2>1
  <2>2. CASE i # 1
    <3>1. i - 1 \in 1 .. Len(p) - 1 /\ (i - 1) + 1 = i
      BY <1>1, <2>2
    <3>2. Tail(p)[i - 1] = p[i] /\ Tail(q)[i - 1] = q[i]
      BY <1>1, <1>2, <3>1
    <3> QED
      BY <3>2
  <2> QED
    BY <2>1, <2>2
<1> QED
  BY <1>2, <1>3, SeqEqual DEF Names

\* What resolve_by_name finds in a table where no name has two certificates.
LEMMA ResolveFinds ==
    ASSUME NEW entries, OneCertPerName(entries), NEW name \in Names
    PROVE  LET found == ResolveByName(entries, name)
               covers(p) == p = name \/ (p[1] = "*" /\ Tail(p) = Tail(name))
           IN  /\ Cardinality(found) <= 1
               /\ found = {} <=> \A e \in entries : ~covers(e[1])
               /\ \A e \in found : covers(e[1]) /\ ((\E x \in entries : x[1] = name) => e[1] = name)
<1> DEFINE found == ResolveByName(entries, name)
           covers(p) == p = name \/ (p[1] = "*" /\ Tail(p) = Tail(name))
           exact == {e \in entries : e[1] = name}
           wild == {e \in entries : IsWildcard(e[1]) /\ WildcardMatches(e[1], name)}
           best == {e \in wild : \A x \in wild : Len(x[1]) <= Len(e[1])}
<1>1. found = IF exact # {} THEN exact ELSE best
  BY DEF ResolveByName
<1>2. \A e \in entries : e \in wild <=> e[1][1] = "*" /\ Tail(e[1]) = Tail(name)
  BY WildcardStandsForOneLabel DEF OneCertPerName, IsWildcard
<1>3. \A e, x \in wild : e = x
  BY <1>2, SameNames DEF OneCertPerName
<1>4. best = wild
  BY <1>3 DEF OneCertPerName, Names
<1>5. \A e, x \in exact : e = x
  BY DEF OneCertPerName
<1>6. \A e, x \in found : e = x
  BY <1>1, <1>3, <1>4, <1>5
<1>7. Cardinality(found) <= 1
  <2>1. CASE found = {}
    BY <2>1, FS_EmptySet
  <2>2. CASE found # {}
    <3>1. PICK e : found = {e}
      BY <1>6, <2>2
    <3>2. Cardinality({e}) = 1
      BY FS_Singleton
    <3> QED
      BY <3>1, <3>2
  <2> QED
    BY <2>1, <2>2
<1>8. found = {} <=> \A e \in entries : ~covers(e[1])
  BY <1>1, <1>2, <1>4
<1>9. \A e \in found : covers(e[1]) /\ ((\E x \in entries : x[1] = name) => e[1] = name)
  BY <1>1, <1>2, <1>4
<1> QED
  BY <1>7, <1>8, <1>9

\* Whatever certificates a directory has had and whatever name a client asks for, the
\* resolver in place finds the one certificate that stands for it.
THEOREM NameAlwaysGetsItsCert == ListenersSpec => []NameGetsItsCert
<1>1. ListenersInit => WatchInv /\ NamedInv
  BY WatchInit, NamedInit
<1>2. WatchInv /\ NamedInv /\ [ListenersNext]_listenersVars => WatchInv' /\ NamedInv'
  BY WatchInvInductive, NamedInductive
<1>3. NamedInv => NameGetsItsCert
  BY ResolveFinds, ListenersAssumption DEF NamedInv, NameGetsItsCert, ListenersAssumption, Names
<1> QED
  BY <1>1, <1>2, <1>3, PTL DEF ListenersSpec

-----------------------------------------------------------------------------
(* The permits of the guard                                                *)

Phases == {"idle", "waiting", "ready", "authenticating", "polling",
           "unauthenticated", "internal", "calling", "dropped"}
HoldingPhases == {"ready", "authenticating", "polling"}

Holders == {r \in Requests : Holding(r)}

PermitInv ==
    /\ phase \in [Requests -> Phases]
    /\ permits \in Nat
    /\ AuthPermitsExact

LEMMA HoldersFinite == IsFiniteSet(Holders) /\ Cardinality(Holders) \in Nat
BY AuthGuardAssumption, FS_Subset, FS_CardinalityType DEF Holders, AuthGuardAssumption

\* The three ways in which the phase of a request changes.
Entered(r) ==
    /\ phase[r] \notin HoldingPhases /\ permits > 0
    /\ phase' = [phase EXCEPT ![r] = "ready"] /\ permits' = permits - 1

Moved(r) ==
    \E to \in Phases :
        /\ phase[r] \in HoldingPhases <=> to \in HoldingPhases
        /\ phase' = [phase EXCEPT ![r] = to] /\ permits' = permits

Left(r) == \E to \in Phases \ HoldingPhases : LeaveGuard(r, to)

LEMMA EnteredPreserves ==
    ASSUME PermitInv, NEW r \in Requests, Entered(r)
    PROVE  PermitInv'
<1>1. phase' \in [Requests -> Phases] /\ permits' \in Nat
  BY DEF PermitInv, Entered, Phases
<1>2. Holders' = Holders \cup {r} /\ r \notin Holders
  BY DEF PermitInv, Entered, Holders, Holding, HoldingPhases
<1>3. Cardinality(Holders') = Cardinality(Holders) + 1
  BY <1>2, HoldersFinite, FS_AddElement
<1>4. permits + Cardinality(Holders) = ConcurrentAuthLimit
  BY DEF PermitInv, AuthPermitsExact, Holders
<1>5. permits' + Cardinality(Holders') = ConcurrentAuthLimit
  BY <1>3, <1>4, HoldersFinite DEF Entered, PermitInv
<1> QED
  BY <1>1, <1>5 DEF PermitInv, AuthPermitsExact, Holders

LEMMA MovedPreserves ==
    ASSUME PermitInv, NEW r \in Requests, Moved(r)
    PROVE  PermitInv'
<1>1. phase' \in [Requests -> Phases] /\ permits' = permits
  BY DEF PermitInv, Moved
<1>2. Holders' = Holders
  BY DEF PermitInv, Moved, Holders, Holding, HoldingPhases
<1> QED
  BY <1>1, <1>2 DEF PermitInv, AuthPermitsExact, Holders

LEMMA LeftPreserves ==
    ASSUME PermitInv, NEW r \in Requests, Left(r)
    PROVE  PermitInv'
<1>1. PICK to \in Phases \ HoldingPhases : LeaveGuard(r, to)
  BY DEF Left
<1>2. CASE ~Holding(r)
  <2>1. Moved(r)
    BY <1>1, <1>2 DEF Moved, LeaveGuard, Holding, HoldingPhases
  <2> QED
    BY <2>1, MovedPreserves
<1>3. CASE Holding(r)
  <2>1. phase' \in [Requests -> Phases] /\ permits' = permits + 1
    BY <1>1, <1>3 DEF PermitInv, LeaveGuard
  <2>2. Holders' = Holders \ {r} /\ r \in Holders
    BY <1>1, <1>3 DEF PermitInv, LeaveGuard, Holders, Holding, HoldingPhases
  <2>3. Cardinality(Holders') = Cardinality(Holders) - 1
    BY <2>2, HoldersFinite, FS_RemoveElement
  <2>4. permits + Cardinality(Holders) = ConcurrentAuthLimit
    BY DEF PermitInv, AuthPermitsExact, Holders
  <2>5. permits' + Cardinality(Holders') = ConcurrentAuthLimit
    BY <2>1, <2>3, <2>4, HoldersFinite DEF PermitInv
  <2> QED
    BY <2>1, <2>5 DEF PermitInv, AuthPermitsExact, Holders
<1> QED
  BY <1>2, <1>3

LEMMA PermitsUnchanged ==
    ASSUME PermitInv, UNCHANGED <<phase, permits>>
    PROVE  PermitInv'
BY DEF PermitInv, AuthPermitsExact, Holding

LEMMA PermitInvInductive ==
    ASSUME PermitInv, [Next]_vars
    PROVE  PermitInv'
<1>1. ASSUME NEW r \in Requests, Send(r)
      PROVE  Moved(r)
  BY <1>1 DEF Send, Arrive, Moved, Phases, HoldingPhases
<1>2. ASSUME NEW r \in Requests, SendUnguarded(r)
      PROVE  UNCHANGED <<phase, permits>>
  BY <1>2 DEF SendUnguarded, authVars
<1>3. ASSUME NEW r \in Requests, Guard(r)
      PROVE  Entered(r) \/ Moved(r) \/ Left(r) \/ UNCHANGED <<phase, permits>>
  <2>1. CASE PollReady(r)
    BY <2>1 DEF PollReady, Entered, HoldingPhases
  <2>2. CASE Call(r)
    BY <2>2 DEF Call, Moved, Phases, HoldingPhases
  <2>3. CASE Deny(r)
    BY <2>3 DEF Deny, Left, Phases, HoldingPhases
  <2>4. CASE CacheHit(r) \/ StartLookup(r) \/ JoinLookup(r)
    BY <2>4 DEF CacheHit, StartLookup, JoinLookup
  <2> QED
    BY <1>3, <2>1, <2>2, <2>3, <2>4 DEF Guard
<1>4. ASSUME NEW r \in Requests, EndpointAnswers(r)
      PROVE  UNCHANGED <<phase, permits>>
  BY <1>4 DEF EndpointAnswers, LookupAnswers
<1>5. ASSUME NEW r \in Requests, NEW ready \in {"ready", "pending", "error", "panic"}, PollInner(r, ready)
      PROVE  Moved(r) \/ Left(r)
  BY <1>5 DEF PollInner, Moved, Left, Phases, HoldingPhases
<1>6. ASSUME NEW r \in Requests, Reset(r)
      PROVE  Left(r)
  BY <1>6 DEF Reset, DropGuarded, Left, Phases, HoldingPhases
<1>7. CASE Environment \/ TimePasses \/ UNCHANGED vars
  BY <1>7, PermitsUnchanged
  DEF Environment, EndpointStep, DirectoryChanges, CacheExpires, TimePasses, vars, authVars
<1> QED
  BY <1>1, <1>2, <1>3, <1>4, <1>5, <1>6, <1>7, EnteredPreserves, MovedPreserves, LeftPreserves,
     PermitsUnchanged
  DEF Next, InnerNotReady, EnterInner, InnerPanics

\* Every permit of concurrent_auth_limit is free or held by one request in the guard,
\* whichever way requests leave it, for any number of requests and permits.
THEOREM AuthPermitsAlwaysExact == Spec => []AuthPermitsExact
<1>1. Init => PermitInv
  <2> SUFFICES ASSUME Init PROVE PermitInv
    OBVIOUS
  <2>1. phase = [r \in Requests |-> "idle"] /\ permits = ConcurrentAuthLimit
    BY DEF Init, AuthInit
  <2>2. {r \in Requests : Holding(r)} = {} /\ Cardinality({}) = 0
    BY <2>1, FS_EmptySet DEF Holding
  <2>3. AuthPermitsExact
    BY <2>1, <2>2, AuthGuardAssumption DEF AuthPermitsExact, AuthGuardAssumption
  <2> QED
    BY <2>1, <2>3, AuthGuardAssumption DEF PermitInv, Phases, AuthGuardAssumption
<1>2. PermitInv /\ [Next]_vars => PermitInv'
  BY PermitInvInductive
<1>3. PermitInv => AuthPermitsExact
  BY DEF PermitInv
<1> QED
  BY <1>1, <1>2, <1>3, PTL DEF Spec

-----------------------------------------------------------------------------
(* Whose subscription a request carries                                    *)

LookupStates == {"none", "start", "asking", "joined", "answered"}
Http == {"cached", "direct"}

JudgeTypes ==
    /\ kind \in AuthKinds
    /\ phase \in [Requests -> Phases]
    /\ lookup \in [Requests -> LookupStates]
    /\ DOMAIN info = Requests /\ DOMAIN attempts = Requests
    /\ info = [r \in Requests |-> info[r]] /\ attempts = [r \in Requests |-> attempts[r]]
    /\ cache \in [CacheKeys -> Infos \cup {NotFound}]
    /\ directory \in [AllCredentials -> Infos \cup {NotFound}]
    /\ everHeld \in [AllCredentials -> SUBSET Infos]

\* The endpoint and the cache hold nothing that was not given to the credentials.
HeldInv ==
    /\ \A c \in AllCredentials : directory[c] # NotFound => directory[c] \in everHeld[c]
    /\ \A r \in Requests : Cached(r) # NotFound => Cached(r) \in everHeld[Credentials(r)]

\* A look-up belongs to a request that is being authenticated, by a repository that looks up.
LookupInv ==
    \A r \in Requests :
        /\ phase[r] # "idle" => kind # "none"
        /\ lookup[r] # "none" => phase[r] = "authenticating"
        /\ lookup[r] \in {"start", "asking", "joined"} => kind \in Http /\ ~Immediate(r)

\* What a request carries once its look-up is answered.
Deserved(r) ==
    CASE kind = "file"    -> info[r] = FileAnswer(r)
      [] kind = "trusted" -> info[r] = TrustedAnswer(r)
      [] OTHER            -> info[r] \in {NotFound, LookupError} \/ info[r] \in everHeld[Credentials(r)]

InfoInv ==
    \A r \in Requests :
        /\ lookup[r] = "answered" \/ phase[r] \in {"polling", "calling"} => Deserved(r)
        /\ phase[r] \in {"polling", "calling"} => info[r] \notin {NotFound, LookupError}

\* A request that is answered with None has asked itself or waited often enough.
AskedInv ==
    \A r \in Requests :
        lookup[r] = "answered" /\ info[r] = NotFound /\ kind = "cached" /\ ~Immediate(r)
            => r \in asked \/ attempts[r] >= MaxAttempts

JudgeInv == JudgeTypes /\ HeldInv /\ LookupInv /\ InfoInv /\ AskedInv

\* The cache key tells apart whatever the endpoint tells apart.
LEMMA KeyGivesCredentials ==
    ASSUME NEW r \in Requests, NEW w \in Requests, CacheKey(r) = CacheKey(w)
    PROVE  Credentials(r) = Credentials(w)
<1> DEFINE F(q) == Forwarded(q)
           keyed(q) == [i \in DOMAIN F(q) |-> <<F(q)[i], Headers[q][F(q)[i]]>>]
           names(q) == {F(q)[i] : i \in DOMAIN F(q)}
<1>1. Host[r] = Host[w] /\ keyed(r) = keyed(w)
  BY DEF CacheKey
<1>2. /\ DOMAIN F(r) = DOMAIN F(w)
      /\ \A i \in DOMAIN F(r) : F(r)[i] = F(w)[i] /\ Headers[r][F(r)[i]] = Headers[w][F(w)[i]]
  <2> HIDE DEF F
  <2>1. DOMAIN keyed(r) = DOMAIN F(r) /\ DOMAIN keyed(w) = DOMAIN F(w)
    OBVIOUS
  <2>2. ASSUME NEW i \in DOMAIN F(r)
        PROVE  F(r)[i] = F(w)[i] /\ Headers[r][F(r)[i]] = Headers[w][F(w)[i]]
    <3>1. keyed(r)[i] = <<F(r)[i], Headers[r][F(r)[i]]>> /\ keyed(w)[i] = <<F(w)[i], Headers[w][F(w)[i]]>>
      BY <1>1, <2>1
    <3> QED
      BY <1>1, <3>1
  <2> QED
    BY <1>1, <2>1, <2>2
<1> HIDE DEF F
<1>3. names(r) = names(w)
  BY <1>2
<1>4. \A h \in names(r) : Headers[r][h] = Headers[w][h]
  BY <1>2
<1>5. [h \in names(r) |-> Headers[r][h]] = [h \in names(w) |-> Headers[w][h]]
  BY <1>3, <1>4
<1> QED
  BY <1>1, <1>5 DEF Credentials, F

LEMMA JudgeInit ==
    ASSUME Init
    PROVE  JudgeInv
BY AuthGuardAssumption
DEF Init, AuthInit, JudgeInv, JudgeTypes, HeldInv, LookupInv, InfoInv, AskedInv, Phases, LookupStates,
    Cached, AllCredentials, CacheKeys, AuthGuardAssumption

LEMMA JudgeUnchanged ==
    ASSUME JudgeInv, UNCHANGED authVars
    PROVE  JudgeInv'
BY DEF JudgeInv, JudgeTypes, HeldInv, LookupInv, InfoInv, AskedInv, Deserved, Cached, Immediate, authVars

\* Steps that leave the cache, the endpoint and the history of it alone.
LEMMA HeldUnchanged ==
    ASSUME HeldInv, UNCHANGED <<cache, directory, everHeld>>
    PROVE  HeldInv'
BY DEF HeldInv, Cached

LEMMA WaitingJudged ==
    ASSUME JudgeInv, NEW r \in Requests, (Arrive(r) /\ kind # "none") \/ PollReady(r)
    PROVE  JudgeInv'
<1>1. \E from, to \in Phases : /\ phase[r] = from /\ phase' = [phase EXCEPT ![r] = to]
                              /\ <<from, to>> \in {<<"idle", "waiting">>, <<"waiting", "ready">>}
                              /\ kind # "none"
  BY DEF Arrive, PollReady, Phases, JudgeInv, LookupInv
<1>2. UNCHANGED <<kind, lookup, attempts, info, cache, directory, everHeld, asked>>
  BY DEF Arrive, PollReady
<1>3. JudgeTypes'
  BY <1>1, <1>2 DEF JudgeInv, JudgeTypes
<1>4. HeldInv'
  BY <1>2, HeldUnchanged DEF JudgeInv
<1>5. LookupInv'
  BY <1>1, <1>2 DEF JudgeInv, JudgeTypes, LookupInv, Immediate
<1>6. InfoInv'
  BY <1>1, <1>2 DEF JudgeInv, JudgeTypes, InfoInv, Deserved
<1>7. AskedInv'
  BY <1>2 DEF JudgeInv, AskedInv, Immediate
<1> QED
  BY <1>3, <1>4, <1>5, <1>6, <1>7 DEF JudgeInv

LEMMA CallJudged ==
    ASSUME JudgeInv, NEW r \in Requests, Call(r)
    PROVE  JudgeInv'
<1>1. /\ phase[r] = "ready" /\ phase' = [phase EXCEPT ![r] = "authenticating"]
      /\ UNCHANGED <<kind, cache, directory, everHeld, asked>>
      /\ kind # "none"
  BY DEF Call, JudgeInv, LookupInv
<1>2. HeldInv'
  BY <1>1, HeldUnchanged DEF JudgeInv
<1>3. CASE Immediate(r)
  <2>1. /\ info' = [info EXCEPT ![r] = ImmediateAnswer(r)]
        /\ lookup' = [lookup EXCEPT ![r] = "answered"]
        /\ UNCHANGED attempts
    BY <1>3 DEF Call
  <2>2. JudgeTypes'
    BY <1>1, <2>1 DEF JudgeInv, JudgeTypes, Phases, LookupStates
  <2>3. LookupInv'
    BY <1>1, <2>1 DEF JudgeInv, JudgeTypes, LookupInv, Immediate
  <2>4. InfoInv'
    BY <1>1, <1>3, <2>1 DEF JudgeInv, JudgeTypes, InfoInv, Deserved, ImmediateAnswer, Immediate
  <2>5. AskedInv'
    BY <1>1, <1>3, <2>1 DEF JudgeInv, JudgeTypes, AskedInv, Immediate
  <2> QED
    BY <1>2, <2>2, <2>3, <2>4, <2>5 DEF JudgeInv
<1>4. CASE ~Immediate(r)
  <2>1. /\ lookup' = [lookup EXCEPT ![r] = "start"]
        /\ attempts' = [attempts EXCEPT ![r] = 1]
        /\ UNCHANGED info
    BY <1>4 DEF Call
  <2>2. JudgeTypes'
    BY <1>1, <2>1 DEF JudgeInv, JudgeTypes, Phases, LookupStates
  <2>3. kind \in Http
    BY <1>1, <1>4, AuthGuardAssumption DEF JudgeInv, JudgeTypes, Immediate, Http, AuthGuardAssumption
  <2>4. LookupInv'
    BY <1>1, <1>4, <2>1, <2>3 DEF JudgeInv, JudgeTypes, LookupInv, Immediate
  <2>5. InfoInv'
    BY <1>1, <2>1 DEF JudgeInv, JudgeTypes, InfoInv, Deserved
  <2>6. AskedInv'
    BY <1>1, <2>1 DEF JudgeInv, JudgeTypes, AskedInv, Immediate
  <2> QED
    BY <1>2, <2>2, <2>4, <2>5, <2>6 DEF JudgeInv
<1> QED
  BY <1>3, <1>4

LEMMA CacheHitJudged ==
    ASSUME JudgeInv, NEW r \in Requests, CacheHit(r)
    PROVE  JudgeInv'
<1>1. /\ lookup[r] = "start" /\ kind = "cached" /\ Cached(r) # NotFound
      /\ info' = [info EXCEPT ![r] = Cached(r)]
      /\ lookup' = [lookup EXCEPT ![r] = "answered"]
      /\ UNCHANGED <<kind, phase, attempts, cache, directory, everHeld, asked>>
  BY DEF CacheHit
<1>2. JudgeTypes'
  BY <1>1 DEF JudgeInv, JudgeTypes, LookupStates
<1>3. HeldInv'
  BY <1>1, HeldUnchanged DEF JudgeInv
<1>4. LookupInv'
  BY <1>1 DEF JudgeInv, JudgeTypes, LookupInv, Immediate
<1>5. Cached(r) \in everHeld[Credentials(r)]
  BY <1>1 DEF JudgeInv, HeldInv
<1>6. InfoInv'
  BY <1>1, <1>5 DEF JudgeInv, JudgeTypes, LookupInv, InfoInv, Deserved
<1>7. AskedInv'
  BY <1>1 DEF JudgeInv, JudgeTypes, AskedInv, Immediate
<1> QED
  BY <1>2, <1>3, <1>4, <1>6, <1>7 DEF JudgeInv

LEMMA LookupGoesOn ==
    ASSUME JudgeInv, NEW r \in Requests, StartLookup(r) \/ JoinLookup(r)
    PROVE  JudgeInv'
<1>1. /\ lookup[r] = "start"
      /\ \E to \in {"asking", "joined"} : lookup' = [lookup EXCEPT ![r] = to]
      /\ UNCHANGED <<kind, phase, attempts, info, cache, directory, everHeld, asked>>
  BY DEF StartLookup, JoinLookup
<1>2. JudgeTypes'
  BY <1>1 DEF JudgeInv, JudgeTypes, LookupStates
<1>3. HeldInv'
  BY <1>1, HeldUnchanged DEF JudgeInv
<1>4. LookupInv'
  BY <1>1 DEF JudgeInv, JudgeTypes, LookupInv, Immediate
<1>5. InfoInv'
  BY <1>1 DEF JudgeInv, JudgeTypes, InfoInv, Deserved
<1>6. AskedInv'
  BY <1>1 DEF JudgeInv, JudgeTypes, AskedInv, Immediate
<1> QED
  BY <1>2, <1>3, <1>4, <1>5, <1>6 DEF JudgeInv

\* An answer is shared with those of the same key, that is of the same credentials.
LEMMA AnswerJudged ==
    ASSUME JudgeInv, NEW r \in Requests, NEW answer \in {directory[Credentials(r)], LookupError},
           LookupAnswers(r, answer)
    PROVE  JudgeInv'
<1> DEFINE W == Joined(r)
<1>1. /\ lookup[r] = "asking"
      /\ UNCHANGED <<kind, phase, directory, everHeld>>
      /\ asked' = asked \cup {r}
  BY DEF LookupAnswers
<1>2. /\ answer \in Infos \cup {NotFound, LookupError}
      /\ answer \in Infos => answer \in everHeld[Credentials(r)]
  BY AuthGuardAssumption DEF JudgeInv, JudgeTypes, HeldInv, AllCredentials, AuthGuardAssumption
<1>3. \A w \in W : /\ w \in Requests /\ w # r /\ lookup[w] = "joined"
                   /\ CacheKey(w) = CacheKey(r) /\ Credentials(w) = Credentials(r)
  BY <1>1, KeyGivesCredentials DEF Joined
<1>4. kind \in Http
  BY <1>1 DEF JudgeInv, LookupInv
<1>5. \A w \in Requests :
        CASE w = r -> info'[w] = answer /\ lookup'[w] = "answered" /\ attempts'[w] = attempts[w]
          [] w \in W /\ answer \in Infos -> info'[w] = answer /\ lookup'[w] = "answered"
          [] w \in W /\ answer \notin Infos ->
               \/ /\ attempts[w] >= MaxAttempts /\ attempts'[w] = attempts[w]
                  /\ info'[w] = NotFound /\ lookup'[w] = "answered"
               \/ info'[w] = info[w] /\ lookup'[w] = "start"
          [] OTHER -> info'[w] = info[w] /\ lookup'[w] = lookup[w] /\ attempts'[w] = attempts[w]
  BY <1>3 DEF LookupAnswers, AfterJoinedNone
<1>6. JudgeTypes'
  <2>1. cache' \in [CacheKeys -> Infos \cup {NotFound}]
    BY DEF LookupAnswers, JudgeInv, JudgeTypes
  <2>2. lookup' \in [Requests -> LookupStates]
    BY <1>3 DEF LookupAnswers, AfterJoinedNone, JudgeInv, JudgeTypes, LookupStates
  <2>3. /\ DOMAIN info' = Requests /\ info' = [w \in Requests |-> info'[w]]
        /\ DOMAIN attempts' = Requests /\ attempts' = [w \in Requests |-> attempts'[w]]
    BY DEF LookupAnswers
  <2> QED
    BY <1>1, <2>1, <2>2, <2>3 DEF JudgeInv, JudgeTypes
<1>7. HeldInv'
  <2>1. ASSUME NEW w \in Requests, Cached(w)' # NotFound
        PROVE  Cached(w)' \in everHeld[Credentials(w)]
    <3>1. CASE CacheKey(w) = CacheKey(r) /\ cache' = [cache EXCEPT ![CacheKey(r)] = answer] /\ answer \in Infos
      <4>1. Cached(w)' = answer
        BY <3>1 DEF Cached, JudgeInv, JudgeTypes, CacheKeys
      <4> QED
        BY <1>2, <3>1, <4>1, KeyGivesCredentials
    <3>2. CASE cache'[CacheKey(w)] = cache[CacheKey(w)]
      BY <2>1, <3>2 DEF Cached, JudgeInv, HeldInv
    <3> QED
      BY <3>1, <3>2 DEF LookupAnswers, JudgeInv, JudgeTypes, CacheKeys
  <2> QED
    BY <1>1, <2>1 DEF JudgeInv, HeldInv
<1>8. LookupInv'
  BY <1>1, <1>3, <1>5 DEF JudgeInv, LookupInv, Immediate
<1>9. InfoInv'
  <2> SUFFICES ASSUME NEW w \in Requests
               PROVE  /\ lookup'[w] = "answered" \/ phase'[w] \in {"polling", "calling"} => Deserved(w)'
                      /\ phase'[w] \in {"polling", "calling"} => info'[w] \notin {NotFound, LookupError}
    BY DEF InfoInv
  <2>1. CASE w = r \/ w \in W
    <3>1. phase'[w] = "authenticating"
      BY <1>1, <1>3, <2>1 DEF JudgeInv, LookupInv
    <3>2. lookup'[w] = "answered" => info'[w] \in {answer, NotFound}
      BY <1>3, <1>5, <2>1
    <3>3. Credentials(w) = Credentials(r)
      BY <1>3, <2>1
    <3>4. lookup'[w] = "answered" => Deserved(w)'
      BY <1>1, <1>2, <1>4, <3>2, <3>3 DEF Deserved, Http
    <3> QED
      BY <3>1, <3>4
  <2>2. CASE w # r /\ w \notin W
    <3>1. info'[w] = info[w] /\ lookup'[w] = lookup[w]
      BY <1>5, <2>2
    <3> QED
      BY <1>1, <3>1 DEF JudgeInv, InfoInv, Deserved
  <2> QED
    BY <2>1, <2>2
<1>10. AskedInv'
  <2> SUFFICES ASSUME NEW w \in Requests, lookup'[w] = "answered", info'[w] = NotFound, kind' = "cached",
                      ~Immediate(w)'
               PROVE  w \in asked' \/ attempts'[w] >= MaxAttempts
    BY DEF AskedInv
  <2>1. CASE w = r
    BY <1>1, <2>1
  <2>2. CASE w # r /\ w \in W /\ answer \in Infos
    BY <1>5, <2>2, AuthGuardAssumption DEF AuthGuardAssumption
  <2>3. CASE w # r /\ w \in W /\ answer \notin Infos
    BY <1>3, <1>5, <2>3
  <2>4. CASE w # r /\ w \notin W
    BY <1>1, <1>5, <2>4 DEF JudgeInv, AskedInv, Immediate
  <2> QED
    BY <2>1, <2>2, <2>3, <2>4
<1> QED
  BY <1>6, <1>7, <1>8, <1>9, <1>10 DEF JudgeInv

LEMMA LeavingJudged ==
    ASSUME JudgeInv, NEW r \in Requests,
           Deny(r) \/ \E ready \in {"ready", "pending", "error", "panic"} : PollInner(r, ready)
    PROVE  JudgeInv'
<1>1. /\ UNCHANGED <<kind, info, cache, directory, everHeld>>
      /\ lookup' = [lookup EXCEPT ![r] = "none"]
      /\ attempts' = [attempts EXCEPT ![r] = 0] /\ asked' = asked \ {r}
  BY DEF Deny, PollInner, ForgetLookup
<1>2. /\ phase[r] \in {"authenticating", "polling"}
      /\ \E to \in {"unauthenticated", "internal", "calling", "polling", "dropped"} :
           /\ phase' = [phase EXCEPT ![r] = to]
           /\ to \in {"calling", "polling"} => info[r] \notin {NotFound, LookupError} /\ Deserved(r)
  <2>1. CASE Deny(r)
    BY <2>1 DEF Deny, LeaveGuard
  <2>2. ASSUME NEW ready \in {"ready", "pending", "error", "panic"}, PollInner(r, ready)
        PROVE  /\ phase[r] \in {"authenticating", "polling"}
               /\ info[r] \notin {NotFound, LookupError} /\ Deserved(r)
               /\ \E to \in {"internal", "calling", "polling", "dropped"} : phase' = [phase EXCEPT ![r] = to]
    BY <2>2 DEF PollInner, LeaveGuard, JudgeInv, InfoInv
  <2> QED
    BY <2>1, <2>2
<1>3. JudgeTypes'
  <2>1. phase' \in [Requests -> Phases]
    BY <1>2 DEF JudgeInv, JudgeTypes, Phases
  <2>2. lookup' \in [Requests -> LookupStates]
    BY <1>1 DEF JudgeInv, JudgeTypes, LookupStates
  <2> QED
    BY <1>1, <2>1, <2>2 DEF JudgeInv, JudgeTypes
<1>4. HeldInv'
  BY <1>1, HeldUnchanged DEF JudgeInv
<1>5. LookupInv'
  BY <1>1, <1>2 DEF JudgeInv, JudgeTypes, LookupInv, Immediate
<1>6. InfoInv'
  BY <1>1, <1>2 DEF JudgeInv, JudgeTypes, InfoInv, Deserved
<1>7. AskedInv'
  BY <1>1 DEF JudgeInv, JudgeTypes, AskedInv, Immediate
<1> QED
  BY <1>3, <1>4, <1>5, <1>6, <1>7 DEF JudgeInv

LEMMA DropJudged ==
    ASSUME JudgeInv, NEW r \in Requests, DropGuarded(r)
    PROVE  JudgeInv'
<1>1. /\ UNCHANGED <<kind, cache, directory, everHeld>>
      /\ phase[r] # "idle" /\ phase' = [phase EXCEPT ![r] = "dropped"]
      /\ info' = [info EXCEPT ![r] = NotFound]
      /\ attempts' = [attempts EXCEPT ![r] = 0] /\ asked' = asked \ {r}
  BY DEF DropGuarded, LeaveGuard, ForgetLookup
<1>2. /\ lookup' \in [Requests -> LookupStates]
      /\ lookup'[r] = "none"
      /\ \A w \in Requests : w # r => \/ lookup'[w] = lookup[w]
                                      \/ lookup'[w] = "start" /\ lookup[w] = "joined"
  BY DEF DropGuarded, Joined, JudgeInv, JudgeTypes, LookupStates
<1>3. JudgeTypes'
  BY <1>1, <1>2 DEF JudgeInv, JudgeTypes, Phases
<1>4. HeldInv'
  BY <1>1, HeldUnchanged DEF JudgeInv
<1>5. LookupInv'
  BY <1>1, <1>2 DEF JudgeInv, JudgeTypes, LookupInv, Immediate
<1>6. InfoInv'
  BY <1>1, <1>2 DEF JudgeInv, JudgeTypes, InfoInv, Deserved
<1>7. AskedInv'
  BY <1>1, <1>2 DEF JudgeInv, JudgeTypes, AskedInv, Immediate
<1> QED
  BY <1>3, <1>4, <1>5, <1>6, <1>7 DEF JudgeInv

\* The endpoint changes its mind, or the cache forgets; what was given stays given.
LEMMA EndpointJudged ==
    ASSUME JudgeInv, EndpointStep
    PROVE  JudgeInv'
<1>1. UNCHANGED <<kind, phase, lookup, attempts, info, asked>>
  BY DEF EndpointStep, DirectoryChanges, CacheExpires
<1>2. \A c \in AllCredentials : everHeld[c] \subseteq everHeld'[c]
  BY DEF EndpointStep, DirectoryChanges, CacheExpires, JudgeInv, JudgeTypes
<1>3. JudgeTypes'
  BY <1>1 DEF EndpointStep, DirectoryChanges, CacheExpires, JudgeInv, JudgeTypes
<1>4. HeldInv'
  <2>1. ASSUME NEW c \in AllCredentials, NEW new \in Infos \cup {NotFound}, DirectoryChanges(c, new)
        PROVE  HeldInv'
    BY <1>2, <2>1 DEF DirectoryChanges, JudgeInv, JudgeTypes, HeldInv, Cached, AllCredentials
  <2>2. ASSUME NEW k \in CacheKeys, CacheExpires(k)
        PROVE  HeldInv'
    BY <2>2 DEF CacheExpires, JudgeInv, JudgeTypes, HeldInv, Cached, CacheKeys
  <2> QED
    BY <2>1, <2>2 DEF EndpointStep
<1>5. LookupInv'
  BY <1>1 DEF JudgeInv, LookupInv, Immediate
<1>6. InfoInv'
  BY <1>1, <1>2 DEF JudgeInv, InfoInv, Deserved, AllCredentials
<1>7. AskedInv'
  BY <1>1 DEF JudgeInv, AskedInv, Immediate
<1> QED
  BY <1>3, <1>4, <1>5, <1>6, <1>7 DEF JudgeInv

LEMMA JudgeInvInductive ==
    ASSUME JudgeInv, [Next]_vars
    PROVE  JudgeInv'
<1>1. ASSUME NEW r \in Requests, Send(r)
      PROVE  JudgeInv'
  BY <1>1, WaitingJudged DEF Send
<1>2. ASSUME NEW r \in Requests, Guard(r)
      PROVE  JudgeInv'
  BY <1>2, WaitingJudged, CallJudged, CacheHitJudged, LookupGoesOn, LeavingJudged DEF Guard
<1>3. ASSUME NEW r \in Requests, EndpointAnswers(r)
      PROVE  JudgeInv'
  BY <1>3, AnswerJudged DEF EndpointAnswers
<1>4. ASSUME NEW r \in Requests, InnerNotReady(r) \/ EnterInner(r) \/ InnerPanics(r)
      PROVE  JudgeInv'
  BY <1>4, LeavingJudged DEF InnerNotReady, EnterInner, InnerPanics
<1>5. ASSUME NEW r \in Requests, Reset(r)
      PROVE  JudgeInv'
  BY <1>5, DropJudged DEF Reset
<1>6. CASE Environment
  BY <1>6, EndpointJudged DEF Environment
<1>7. CASE TimePasses \/ UNCHANGED vars \/ \E r \in Requests : SendUnguarded(r)
  BY <1>7, JudgeUnchanged DEF TimePasses, vars, SendUnguarded
<1> QED
  BY <1>1, <1>2, <1>3, <1>4, <1>5, <1>6, <1>7 DEF Next

LEMMA JudgeInvHolds == Spec => []JudgeInv
<1>1. Init => JudgeInv
  BY JudgeInit
<1>2. JudgeInv /\ [Next]_vars => JudgeInv'
  BY JudgeInvInductive
<1> QED
  BY <1>1, <1>2, PTL DEF Spec

\* However requests share look-ups and cache entries, and whatever the endpoint answers,
\* a request that reaches the inner service carries a subscription given to its own
\* credentials, and no other's failing look-up gets it refused.
THEOREM AlwaysJudgedByItself == Spec => []JudgedByItself
<1>1. JudgeInv => JudgedByItself
  <2> SUFFICES ASSUME JudgeInv, NEW r \in Requests
               PROVE  /\ phase[r] \in {"polling", "calling"} =>
                            CASE kind \in {"cached", "direct"} -> info[r] \in everHeld[Credentials(r)]
                              [] kind = "file"    -> info[r] = FileAnswer(r) /\ info[r] # NotFound
                              [] kind = "trusted" -> info[r] = TrustedAnswer(r) /\ info[r] # NotFound
                      /\ lookup[r] = "answered" /\ info[r] = NotFound /\ kind = "cached" /\ ~Immediate(r)
                            => r \in asked \/ attempts[r] >= MaxAttempts
    BY DEF JudgedByItself
  <2>1. kind \in {"cached", "direct", "file", "trusted", "none"}
    BY AuthGuardAssumption DEF JudgeInv, JudgeTypes, AuthGuardAssumption
  <2>2. phase[r] \in {"polling", "calling"} => /\ Deserved(r) /\ kind # "none"
                                             /\ info[r] \notin {NotFound, LookupError}
    BY DEF JudgeInv, InfoInv, LookupInv
  <2> QED
    BY <2>1, <2>2 DEF JudgeInv, AskedInv, Deserved
<1> QED
  BY <1>1, JudgeInvHolds, PTL

-----------------------------------------------------------------------------
(* The token buckets                                                       *)

Bucket == [tokens : Nat, last_refill : Nat, last_seen : Nat]

BucketTypes(windows, now) ==
    \A k \in DOMAIN windows :
        /\ LimitOf(k) \in Nat
        /\ windows[k] \in Bucket
        /\ windows[k].tokens <= LimitOf(k) * Window
        /\ windows[k].last_seen = windows[k].last_refill /\ windows[k].last_refill <= now

HitTypes(admitted) == \A k \in DOMAIN admitted : LimitOf(k) \in Nat /\ admitted[k] \in Seq(Nat)

\* What the hits since the i-th have taken out of a bucket and what is left in it together
\* are no more than a full bucket and what was refilled since; a key without a bucket has
\* been idle for so long that a full one makes no difference.
Taken(admitted, k, i) == (Len(admitted[k]) - i + 1) * Window

BalancedAt(windows, admitted, now, k, i) ==
    IF k \in DOMAIN windows
    THEN Taken(admitted, k, i) + windows[k].tokens
            <= LimitOf(k) * Window + LimitOf(k) * (windows[k].last_refill - admitted[k][i])
    ELSE Taken(admitted, k, i) <= LimitOf(k) * (now - admitted[k][i])

Balanced(windows, admitted, now) ==
    \A k \in DOMAIN admitted : \A i \in 1 .. Len(admitted[k]) : BalancedAt(windows, admitted, now, k, i)

\* RateHolds of a history
Spaced(admitted) ==
    \A k \in DOMAIN admitted : \A i \in DOMAIN admitted[k] : \A j \in i .. Len(admitted[k]) :
        (j - i + 1) * Window <= LimitOf(k) * Window + LimitOf(k) * (admitted[k][j] - admitted[k][i])

BucketsGood(windows, admitted, now) ==
    /\ now \in Nat
    /\ BucketTypes(windows, now)
    /\ HitTypes(admitted)
    /\ Balanced(windows, admitted, now)
    /\ Spaced(admitted)

RateInv == BucketsGood(active_windows_map, hits, clock)
ConfigInv == kind = "none" => ~ratelimit

\* The arithmetic of one bucket, apart from the records and sequences around it.
LEMMA Distribute ==
    ASSUME NEW a \in Int, NEW b \in Int, NEW c \in Int
    PROVE  a * (b - c) = a * b - a * c /\ (b - c) * a = a * b - a * c
OBVIOUS

LEMMA ProductMonotone ==
    ASSUME NEW a \in Nat, NEW b \in Int, NEW c \in Int, b <= c
    PROVE  a * b <= a * c
OBVIOUS

LEMMA NextProduct ==
    ASSUME NEW a \in Int, NEW b \in Int
    PROVE  (a + 1) * b = a * b + b
OBVIOUS

LEMMA UpperRange ==
    ASSUME NEW n \in Nat, NEW i \in 1 .. n, NEW j \in i .. n
    PROVE  j \in 1 .. n /\ i <= j
OBVIOUS

LEMMA SummandBelow ==
    ASSUME NEW a \in Int, NEW b \in Nat, NEW c \in Int, a + b <= c
    PROVE  a <= c
OBVIOUS

LEMMA BeforeLast ==
    ASSUME NEW n \in Nat, NEW i, NEW j, i \in 1 .. n + 1, j \in 1 .. n + 1, i <= j, j # n + 1
    PROVE  j \in 1 .. n /\ i \in 1 .. n /\ j \in i .. n
OBVIOUS

LEMMA ProductNat ==
    ASSUME NEW a \in Nat, NEW b \in Nat
    PROVE  a * b \in Nat
OBVIOUS

\* A refill adds what the time is worth, or less.
LEMMA RefilledBalance ==
    ASSUME NEW taken \in Int, NEW had \in Int, NEW has \in Int, NEW full \in Int,
           NEW limit \in Int, NEW refilled \in Int, NEW now \in Int, NEW hit \in Int,
           taken + had <= full + limit * (refilled - hit),
           has <= had + (now - refilled) * limit
    PROVE  taken + has <= full + limit * (now - hit)
<1> DEFINE lr == limit * refilled
           ln == limit * now
           lh == limit * hit
<1>1. limit * (refilled - hit) = lr - lh /\ limit * (now - hit) = ln - lh /\ (now - refilled) * limit = ln - lr
  BY Distribute
<1>2. lr \in Int /\ ln \in Int /\ lh \in Int
  OBVIOUS
<1> HIDE DEF lr, ln, lh
<1> QED
  BY <1>1, <1>2

\* A bucket that has been idle for a window is as good as full.
LEMMA IdleBalance ==
    ASSUME NEW taken \in Int, NEW had \in Nat, NEW limit \in Nat, NEW refilled \in Int,
           NEW now \in Int, NEW hit \in Int, now - refilled >= Window,
           taken + had <= limit * Window + limit * (refilled - hit)
    PROVE  taken <= limit * (now - hit)
<1> DEFINE lr == limit * refilled
           ln == limit * now
           lh == limit * hit
           lw == limit * Window
<1>0. Window \in Nat
  BY MethodRateLimitAssumption DEF MethodRateLimitAssumption
<1>1. limit * (refilled - hit) = lr - lh /\ limit * (now - hit) = ln - lh
  BY Distribute
<1>2. lw <= ln - lr
  <2>1. limit * Window <= limit * (now - refilled)
    BY <1>0, ProductMonotone
  <2>2. limit * (now - refilled) = ln - lr
    BY Distribute
  <2> QED
    BY <2>1, <2>2
<1>3. lr \in Int /\ ln \in Int /\ lh \in Int /\ lw \in Int
  BY <1>0
<1>4. taken + had <= lw + limit * (refilled - hit)
  OBVIOUS
<1> HIDE DEF lr, ln, lh, lw
<1> QED
  BY <1>1, <1>2, <1>3, <1>4

LEMMA TakenType ==
    ASSUME NEW admitted, HitTypes(admitted), NEW k \in DOMAIN admitted, NEW i \in 1 .. Len(admitted[k])
    PROVE  /\ LimitOf(k) \in Nat /\ LimitOf(k) * Window \in Nat
           /\ admitted[k] \in Seq(Nat) /\ admitted[k][i] \in Nat
           /\ Taken(admitted, k, i) \in Int
<1>1. LimitOf(k) \in Nat /\ admitted[k] \in Seq(Nat)
  BY DEF HitTypes
<1>2. admitted[k][i] \in Nat /\ Len(admitted[k]) - i + 1 \in Int
  BY <1>1
<1>3. Window \in Nat
  BY MethodRateLimitAssumption DEF MethodRateLimitAssumption
<1>4. LimitOf(k) * Window \in Nat
  BY <1>1, <1>3, ProductNat
<1> QED
  BY <1>1, <1>2, <1>3, <1>4 DEF Taken

\* retain drops only buckets whose loss nobody can notice.
LEMMA GcGood ==
    ASSUME NEW windows, NEW admitted, NEW now, BucketsGood(windows, admitted, now)
    PROVE  BucketsGood([k \in KeptByGc(windows, now) |-> windows[k]], admitted, now)
<1> DEFINE kept == [k \in KeptByGc(windows, now) |-> windows[k]]
<1>1. DOMAIN kept \subseteq DOMAIN windows /\ \A k \in DOMAIN kept : kept[k] = windows[k]
  BY DEF KeptByGc
<1>2. \A k \in DOMAIN windows : k \notin DOMAIN kept => ~(now - windows[k].last_seen <= IdleTimeout)
  BY DEF KeptByGc
<1>3. BucketTypes(kept, now)
  BY <1>1 DEF BucketsGood, BucketTypes
<1> HIDE DEF kept
<1>4. ASSUME NEW k \in DOMAIN admitted, NEW i \in 1 .. Len(admitted[k])
      PROVE  BalancedAt(kept, admitted, now, k, i)
  <2>1. BalancedAt(windows, admitted, now, k, i)
    BY DEF BucketsGood, Balanced
  <2>2. CASE k \in DOMAIN kept
    BY <1>1, <2>1, <2>2, Zenon DEF BalancedAt
  <2>3. CASE k \notin DOMAIN windows
    BY <1>1, <2>1, <2>3, Zenon DEF BalancedAt
  <2>4. CASE k \in DOMAIN windows /\ k \notin DOMAIN kept
    <3>1. /\ LimitOf(k) \in Nat /\ now \in Nat /\ windows[k] \in Bucket
          /\ windows[k].last_seen = windows[k].last_refill
      BY <2>4 DEF BucketsGood, BucketTypes
    <3>2. windows[k].tokens \in Nat /\ windows[k].last_refill \in Int /\ now \in Int
      BY <3>1 DEF Bucket
    <3>3. now - windows[k].last_refill >= Window
      BY <1>2, <2>4, <3>1, <3>2, MethodRateLimitAssumption DEF MethodRateLimitAssumption
    <3>4. Taken(admitted, k, i) \in Int /\ admitted[k][i] \in Int
      BY TakenType DEF BucketsGood
    <3>5. Taken(admitted, k, i) + windows[k].tokens
             <= LimitOf(k) * Window + LimitOf(k) * (windows[k].last_refill - admitted[k][i])
      BY <2>1, <2>4, Zenon DEF BalancedAt
    <3>6. Taken(admitted, k, i) <= LimitOf(k) * (now - admitted[k][i])
      BY <3>1, <3>2, <3>3, <3>4, <3>5, IdleBalance, Zenon
    <3> QED
      BY <2>4, <3>6, Zenon DEF BalancedAt
  <2> QED
    BY <2>2, <2>3, <2>4
<1> QED
  BY <1>3, <1>4 DEF BucketsGood, Balanced, kept

LEMMA TickGood ==
    ASSUME NEW windows, NEW admitted, NEW now, BucketsGood(windows, admitted, now)
    PROVE  BucketsGood(windows, admitted, now + 1)
<1>1. now \in Nat /\ now + 1 \in Nat
  BY DEF BucketsGood
<1>2. BucketTypes(windows, now + 1)
  BY <1>1 DEF BucketsGood, BucketTypes, Bucket
<1>3. ASSUME NEW k \in DOMAIN admitted, NEW i \in 1 .. Len(admitted[k])
      PROVE  BalancedAt(windows, admitted, now + 1, k, i)
  <2>1. BalancedAt(windows, admitted, now, k, i)
    BY DEF BucketsGood, Balanced
  <2>2. CASE k \in DOMAIN windows
    BY <2>1, <2>2, Zenon DEF BalancedAt
  <2>3. CASE k \notin DOMAIN windows
    <3> DEFINE taken == Taken(admitted, k, i)
               before == LimitOf(k) * (now - admitted[k][i])
               after == LimitOf(k) * ((now + 1) - admitted[k][i])
    <3>1. LimitOf(k) \in Nat /\ admitted[k][i] \in Nat /\ taken \in Int
      BY TakenType DEF BucketsGood
    <3>2. before \in Int /\ after \in Int
      BY <1>1, <3>1
    <3>3. taken <= before
      BY <2>1, <2>3, Zenon DEF BalancedAt
    <3>4. before <= after
      BY <1>1, <3>1, ProductMonotone
    <3>5. taken <= after
      <4> HIDE DEF taken, before, after
      <4> QED
        BY <3>1, <3>2, <3>3, <3>4
    <3> QED
      BY <2>3, <3>5, Zenon DEF BalancedAt
  <2> QED
    BY <2>2, <2>3
<1> QED
  BY <1>1, <1>2, <1>3 DEF BucketsGood, Balanced

\* A refilled bucket with the hits of its key.
Affords(bucket, admitted, key, now) ==
    /\ bucket \in Bucket /\ bucket.tokens <= LimitOf(key) * Window /\ bucket.last_refill = now
    /\ key \in DOMAIN admitted => \A i \in 1 .. Len(admitted[key]) :
          Taken(admitted, key, i) + bucket.tokens
             <= LimitOf(key) * Window + LimitOf(key) * (now - admitted[key][i])

\* The bucket that check_at looks at: found and refilled, or new and full.
LEMMA RefillGood ==
    ASSUME NEW windows, NEW admitted, NEW now, BucketsGood(windows, admitted, now),
           NEW key, LimitOf(key) \in Nat
    PROVE  LET limit == LimitOf(key)
               found == IF key \in DOMAIN windows THEN windows[key] ELSE NewBucket(limit, now)
               bucket == Refill(found, limit, now)
           IN  Affords(bucket, admitted, key, now)
<1> DEFINE limit == LimitOf(key)
           found == IF key \in DOMAIN windows THEN windows[key] ELSE NewBucket(limit, now)
           bucket == Refill(found, limit, now)
           full == limit * Window
<1>0. now \in Nat /\ Window \in Nat /\ full \in Nat
  BY MethodRateLimitAssumption, ProductNat DEF BucketsGood, MethodRateLimitAssumption
<1>1. /\ found \in Bucket /\ found.tokens <= full /\ found.last_refill <= now
      /\ key \notin DOMAIN windows => found.tokens = full /\ found.last_refill = now
  <2> HIDE DEF full
  <2>1. CASE key \in DOMAIN windows
    BY <2>1 DEF BucketsGood, BucketTypes, full
  <2>2. CASE key \notin DOMAIN windows
    <3>1. found = [tokens |-> full, last_refill |-> now, last_seen |-> now]
      BY <2>2 DEF NewBucket, full
    <3> QED
      BY <1>0, <3>1 DEF Bucket
  <2> QED
    BY <2>1, <2>2
<1> HIDE DEF found, full
<1> DEFINE gain == (now - found.last_refill) * limit
<1>2. found.tokens \in Nat /\ found.last_refill \in Nat /\ now - found.last_refill \in Nat
  BY <1>0, <1>1 DEF Bucket
<1>3. gain \in Nat
  BY <1>2, ProductNat
<1> HIDE DEF gain
<1>4. /\ bucket \in Bucket /\ bucket.tokens <= full /\ bucket.last_refill = now
      /\ bucket.tokens <= found.tokens + gain
  <2>1. CASE now > found.last_refill
    <3>1. bucket = [found EXCEPT !.tokens = Least(found.tokens + gain, full), !.last_refill = now]
      BY <2>1 DEF Refill, full, gain
    <3>2. /\ Least(found.tokens + gain, full) \in Nat /\ Least(found.tokens + gain, full) <= full
          /\ Least(found.tokens + gain, full) <= found.tokens + gain
      BY <1>0, <1>2, <1>3 DEF Least
    <3> QED
      BY <1>0, <1>1, <3>1, <3>2 DEF Bucket
  <2>2. CASE ~(now > found.last_refill)
    BY <1>0, <1>1, <1>2, <1>3, <2>2 DEF Refill
  <2> QED
    BY <2>1, <2>2
<1>5. bucket.tokens \in Nat
  BY <1>4 DEF Bucket
<1> HIDE DEF bucket, limit
<1>6. ASSUME key \in DOMAIN admitted, NEW i \in 1 .. Len(admitted[key])
      PROVE  Taken(admitted, key, i) + bucket.tokens <= full + limit * (now - admitted[key][i])
  <2>1. /\ limit \in Nat /\ Taken(admitted, key, i) \in Int /\ admitted[key][i] \in Int
    BY <1>6, TakenType DEF BucketsGood, limit
  <2>2. BalancedAt(windows, admitted, now, key, i)
    BY <1>6 DEF BucketsGood, Balanced
  <2>3. CASE key \in DOMAIN windows
    <3>1. found = windows[key]
      BY <2>3 DEF found
    <3>2. Taken(admitted, key, i) + found.tokens <= full + limit * (found.last_refill - admitted[key][i])
      BY <2>2, <2>3, <3>1, Zenon DEF BalancedAt, full, limit
    <3>3. /\ bucket.tokens <= found.tokens + (now - found.last_refill) * limit
          /\ bucket.tokens \in Int /\ found.tokens \in Int /\ found.last_refill \in Int
          /\ full \in Int /\ limit \in Int /\ now \in Int
      BY <1>0, <1>2, <1>4, <1>5, <2>1 DEF gain
    <3> QED
      BY <2>1, <3>2, <3>3, RefilledBalance, Zenon
  <2>4. CASE key \notin DOMAIN windows
    <3> DEFINE since == limit * (now - admitted[key][i])
    <3>1. Taken(admitted, key, i) <= since
      BY <2>2, <2>4, Zenon DEF BalancedAt, limit
    <3>2. since \in Int
      BY <1>0, <2>1
    <3> HIDE DEF since
    <3>3. Taken(admitted, key, i) + bucket.tokens <= full + since
      BY <1>0, <1>4, <1>5, <2>1, <3>1, <3>2
    <3> QED
      BY <3>3 DEF since
  <2> QED
    BY <2>3, <2>4
<1> QED
  BY <1>4, <1>6 DEF Affords, bucket, found, full, limit

\* The table and the history after check_at.
Charged(windows, key, bucket, passes, now) ==
    [k \in DOMAIN windows \cup {key} |->
        IF k # key THEN windows[k]
        ELSE [bucket EXCEPT !.tokens = IF passes THEN @ - Window ELSE @, !.last_seen = now]]

MoreHits(admitted, key, passes, now) ==
    IF passes THEN [k \in DOMAIN admitted \cup {key} |->
                       IF k # key THEN admitted[k]
                       ELSE IF k \notin DOMAIN admitted THEN <<now>>
                       ELSE Append(admitted[k], now)]
    ELSE admitted

\* A hit takes one token out of a bucket that has one.
LEMMA HitGood ==
    ASSUME NEW windows, NEW admitted, NEW now, BucketsGood(windows, admitted, now),
           NEW key, LimitOf(key) \in Nat, NEW bucket, Affords(bucket, admitted, key, now),
           NEW passes \in BOOLEAN, passes => Allowed(bucket)
    PROVE  BucketsGood(Charged(windows, key, bucket, passes, now), MoreHits(admitted, key, passes, now), now)
<1> DEFINE after == Charged(windows, key, bucket, passes, now)
           more == MoreHits(admitted, key, passes, now)
           limit == LimitOf(key)
           full == limit * Window
           left == IF passes THEN bucket.tokens - Window ELSE bucket.tokens
           old == IF key \in DOMAIN admitted THEN admitted[key] ELSE <<>>
           new == IF passes THEN Append(old, now) ELSE old
<1>0. /\ now \in Nat /\ Window \in Nat /\ full \in Nat /\ bucket.tokens \in Nat
      /\ bucket.tokens <= full /\ bucket \in Bucket /\ bucket.last_refill = now
      /\ passes => bucket.tokens >= Window
  BY MethodRateLimitAssumption, ProductNat
  DEF BucketsGood, MethodRateLimitAssumption, Affords, Bucket, Allowed
<1> HIDE DEF full, old, new
<1>1. /\ DOMAIN after = DOMAIN windows \cup {key}
      /\ \A k \in DOMAIN windows : k # key => after[k] = windows[k]
      /\ after[key] \in Bucket /\ after[key].tokens = left
      /\ after[key].last_refill = now /\ after[key].last_seen = now
  <2>1. left \in Nat
    BY <1>0
  <2>2. /\ after[key] = [bucket EXCEPT !.tokens = left, !.last_seen = now]
        /\ DOMAIN after = DOMAIN windows \cup {key}
        /\ \A k \in DOMAIN windows : k # key => after[k] = windows[k]
    BY DEF left, Charged
  <2> HIDE DEF left, after
  <2>3. /\ after[key] \in Bucket /\ after[key].tokens = left
        /\ after[key].last_refill = now /\ after[key].last_seen = now
    BY <1>0, <2>1, <2>2 DEF Bucket
  <2> QED
    BY <2>2, <2>3
<1> HIDE DEF after
<1>2. /\ \A k \in DOMAIN more : k # key => k \in DOMAIN admitted /\ more[k] = admitted[k]
      /\ key \in DOMAIN more => more[key] = new
  <2>1. CASE passes
    <3>1. <<now>> = Append(<<>>, now)
      BY <1>0
    <3> QED
      BY <2>1, <3>1 DEF old, new, MoreHits
  <2>2. CASE ~passes
    BY <2>2 DEF old, new, MoreHits
  <2> QED
    BY <2>1, <2>2
<1>3. left \in Nat /\ left <= full /\ left = IF passes THEN bucket.tokens - Window ELSE bucket.tokens
  BY <1>0
<1>4. old \in Seq(Nat) /\ Len(old) \in Nat
  <2>1. key \in DOMAIN admitted => admitted[key] \in Seq(Nat)
    BY DEF BucketsGood, HitTypes
  <2> QED
    BY <2>1 DEF old
<1>5. (\E i : i \in 1 .. Len(old)) => key \in DOMAIN admitted /\ old = admitted[key]
  BY <1>4 DEF old
<1>6. /\ new \in Seq(Nat) /\ Len(new) \in Nat /\ DOMAIN new = 1 .. Len(new)
      /\ \A i \in 1 .. Len(new) : new[i] \in Nat
      /\ passes => Len(new) = Len(old) + 1 /\ new[Len(old) + 1] = now
      /\ \A i \in 1 .. Len(old) : new[i] = old[i]
      /\ ~passes => new = old /\ more = admitted
  BY <1>0, <1>4 DEF new, MoreHits
<1> HIDE DEF more
<1>7. /\ full = LimitOf(key) * Window /\ limit = LimitOf(key) /\ limit \in Nat
      /\ key \in DOMAIN admitted => \A i \in 1 .. Len(admitted[key]) :
            Taken(admitted, key, i) + bucket.tokens <= full + limit * (now - admitted[key][i])
  BY DEF Affords, full
<1> HIDE DEF limit, left
<1>8. BucketTypes(after, now)
  <2>1. ASSUME NEW k \in DOMAIN windows, k # key
        PROVE  /\ LimitOf(k) \in Nat /\ after[k] \in Bucket /\ after[k].tokens <= LimitOf(k) * Window
               /\ after[k].last_seen = after[k].last_refill /\ after[k].last_refill <= now
    BY <1>1, <2>1 DEF BucketsGood, BucketTypes
  <2>2. after[key].tokens <= LimitOf(key) * Window
    BY <1>1, <1>3, <1>7
  <2>3. now <= now
    BY <1>0
  <2> QED
    BY <1>1, <2>1, <2>2, <2>3 DEF BucketTypes
<1>9. HitTypes(more)
  <2>1. ASSUME NEW k \in DOMAIN more, k # key
        PROVE  LimitOf(k) \in Nat /\ more[k] \in Seq(Nat)
    BY <1>2, <2>1, Zenon DEF BucketsGood, HitTypes
  <2>2. key \in DOMAIN more => LimitOf(key) \in Nat /\ more[key] \in Seq(Nat)
    BY <1>2, <1>6, Zenon
  <2> QED
    BY <2>1, <2>2, Zenon DEF HitTypes
<1>10. ASSUME NEW i \in 1 .. Len(new)
       PROVE  (Len(new) - i + 1) * Window + left <= full + limit * (now - new[i])
  <2>1. ASSUME i \in 1 .. Len(old)
        PROVE  /\ new[i] = old[i] /\ old[i] \in Nat
               /\ (Len(old) - i + 1) * Window + bucket.tokens <= full + limit * (now - old[i])
    <3>1. key \in DOMAIN admitted /\ old = admitted[key]
      BY <1>5, <2>1
    <3>2. new[i] = old[i] /\ old[i] \in Nat
      BY <1>4, <1>6, <2>1
    <3>3. Taken(admitted, key, i) + bucket.tokens <= full + limit * (now - admitted[key][i])
      BY <1>7, <2>1, <3>1
    <3> QED
      BY <3>1, <3>2, <3>3, Zenon DEF Taken
  <2>2. CASE ~passes
    BY <1>3, <1>6, <2>1, <2>2
  <2>3. CASE passes /\ i \in 1 .. Len(old)
    <3> DEFINE n == Len(old) - i + 1
               since == limit * (now - old[i])
               taken == n * Window
    <3>0. Len(old) \in Int /\ Len(new) = Len(old) + 1 /\ i \in Int
      BY <1>4, <1>6, <2>3
    <3>1. n \in Int /\ Len(new) - i + 1 = n + 1
      BY <3>0
    <3>2. (n + 1) * Window = taken + Window /\ taken \in Int
      <4> HIDE DEF n
      <4>1. n \in Int /\ Window \in Int
        BY <1>0, <3>1
      <4>2. (n + 1) * Window = n * Window + Window
        BY <4>1, NextProduct
      <4>3. n * Window \in Int
        BY <4>1
      <4> QED
        BY <4>2, <4>3
    <3>3. since \in Int
      BY <1>0, <1>7, <2>1, <2>3
    <3>4. taken + bucket.tokens <= full + since
      BY <2>1, <2>3
    <3>5. (Len(new) - i + 1) * Window = taken + Window
      BY <3>1, <3>2
    <3>6. limit * (now - new[i]) = since
      BY <2>1, <2>3
    <3> HIDE DEF n, since, taken
    <3>7. (taken + Window) + left <= full + since
      BY <1>0, <1>3, <2>3, <3>2, <3>3, <3>4
    <3> QED
      BY <3>5, <3>6, <3>7, Zenon
  <2>4. CASE passes /\ i = Len(old) + 1
    <3>1. Len(new) - i + 1 = 1 /\ now - new[i] = 0
      BY <1>0, <1>4, <1>6, <2>4
    <3>2. 1 * Window = Window /\ limit * 0 = 0
      BY <1>0, <1>7
    <3>3. Window + left <= full + 0
      BY <1>0, <1>3, <2>4
    <3> QED
      BY <3>1, <3>2, <3>3, Zenon
  <2>5. passes => i \in 1 .. Len(old) \/ i = Len(old) + 1
    BY <1>4, <1>6
  <2> QED
    BY <2>2, <2>3, <2>4, <2>5
<1>11. Balanced(after, more, now)
  <2>1. ASSUME NEW k \in DOMAIN more, NEW i \in 1 .. Len(more[k]), k = key
        PROVE  BalancedAt(after, more, now, k, i)
    <3>1. (Len(new) - i + 1) * Window + left <= full + limit * (now - new[i])
      BY <1>2, <1>10, <2>1
    <3> QED
      BY <1>1, <1>2, <1>7, <2>1, <3>1, Zenon DEF BalancedAt, Taken
  <2>2. ASSUME NEW k \in DOMAIN more, NEW i \in 1 .. Len(more[k]), k # key
        PROVE  BalancedAt(after, more, now, k, i)
    <3>1. k \in DOMAIN admitted /\ more[k] = admitted[k] /\ BalancedAt(windows, admitted, now, k, i)
      BY <1>2, <2>2 DEF BucketsGood, Balanced
    <3>2. Taken(more, k, i) = Taken(admitted, k, i)
      BY <3>1 DEF Taken
    <3>3. /\ k \in DOMAIN after <=> k \in DOMAIN windows
          /\ k \in DOMAIN windows => after[k] = windows[k]
      BY <1>1, <2>2
    <3> QED
      BY <3>1, <3>2, <3>3, Zenon DEF BalancedAt
  <2> QED
    BY <2>1, <2>2 DEF Balanced
<1>12. Spaced(more)
  <2> SUFFICES ASSUME NEW k \in DOMAIN more, NEW i \in DOMAIN more[k], NEW j \in i .. Len(more[k])
               PROVE  (j - i + 1) * Window <= LimitOf(k) * Window + LimitOf(k) * (more[k][j] - more[k][i])
    BY DEF Spaced
  <2>1. CASE k # key
    BY <1>2, <2>1 DEF BucketsGood, Spaced
  <2>2. CASE ~passes
    BY <1>6, <2>2 DEF BucketsGood, Spaced
  <2>3. ASSUME k = key, passes
        PROVE  /\ more[k] = new /\ i \in 1 .. Len(new) /\ j \in 1 .. Len(new) /\ i <= j
    <3>1. more[k] = new
      BY <1>2, <2>3
    <3>2. i \in 1 .. Len(new) /\ j \in i .. Len(new)
      BY <1>6, <3>1
    <3>3. j \in 1 .. Len(new) /\ i <= j
      BY <1>6, <3>2, UpperRange
    <3> QED
      BY <3>1, <3>2, <3>3
  <2>4. CASE k = key /\ passes /\ j = Len(new)
    <3> DEFINE taken == (Len(new) - i + 1) * Window
               since == limit * (now - new[i])
    <3>1. taken + left <= full + since
      BY <1>10, <2>3, <2>4
    <3>2. new[i] \in Nat /\ Len(new) - i + 1 \in Int
      BY <1>6, <2>3, <2>4
    <3>3. taken \in Int /\ since \in Int
      <4>1. Window \in Int /\ limit \in Int /\ now - new[i] \in Int
        BY <1>0, <1>7, <3>2
      <4> QED
        BY <3>2, <4>1
    <3>4. taken <= full + since
      <4>1. left \in Nat /\ full + since \in Int
        BY <1>0, <1>3, <3>3
      <4> HIDE DEF taken, since
      <4> QED
        BY <3>1, <3>3, <4>1, SummandBelow, Zenon
    <3>5. new[j] = now
      <4>1. Len(new) = Len(old) + 1 /\ new[Len(old) + 1] = now
        BY <1>6, <2>4, Zenon
      <4> QED
        BY <2>4, <4>1, Zenon
    <3>6. (j - i + 1) * Window <= full + limit * (new[j] - new[i])
      BY <2>4, <3>4, <3>5, Zenon
    <3> QED
      BY <1>7, <2>3, <2>4, <3>6, Zenon
  <2>5. CASE k = key /\ passes /\ j # Len(new)
    <3>1. j \in 1 .. Len(old) /\ i \in 1 .. Len(old) /\ j \in i .. Len(old)
      <4>1. Len(new) = Len(old) + 1
        BY <1>6, <2>5, Zenon
      <4>2. i \in 1 .. Len(old) + 1 /\ j \in 1 .. Len(old) + 1 /\ i <= j /\ j # Len(old) + 1
        BY <2>3, <2>5, <4>1, Zenon
      <4> QED
        BY <1>4, <4>2, BeforeLast, Zenon
    <3>2. new[j] = old[j] /\ new[i] = old[i]
      BY <1>6, <3>1
    <3>3. key \in DOMAIN admitted /\ old = admitted[key] /\ i \in DOMAIN admitted[key]
      BY <1>4, <1>5, <3>1
    <3>4. (j - i + 1) * Window
             <= LimitOf(key) * Window + LimitOf(key) * (admitted[key][j] - admitted[key][i])
      BY <3>1, <3>3, Zenon DEF BucketsGood, Spaced
    <3> QED
      BY <2>3, <2>5, <3>2, <3>3, <3>4, Zenon
  <2> QED
    BY <2>1, <2>2, <2>4, <2>5
<1> QED
  BY <1>0, <1>8, <1>9, <1>11, <1>12 DEF BucketsGood, after, more

\* inner_call: gc, then the refilled bucket, then the hit.
LEMMA CheckLimitGood ==
    ASSUME RateInv, NEW sub, NEW method, RatelimitOf(sub, method) \in Int, NEW passes \in BOOLEAN,
           CheckLimit(sub, method, passes)
    PROVE  RateInv'
<1> DEFINE key == RatelimitKey(sub, method)
           limit == LimitOf(key)
           windows == AfterGc(active_windows_map, clock)
           found == IF key \in DOMAIN windows THEN windows[key] ELSE NewBucket(limit, clock)
           bucket == Refill(found, limit, clock)
<1>1. limit \in Int
  BY DEF LimitOf, RatelimitKey
<1>2. BucketsGood(windows, hits, clock)
  BY GcGood DEF RateInv, AfterGc
<1>3. clock' = clock
  BY DEF CheckLimit
<1>4. CASE limit < 0
  <2>1. active_windows_map' = windows /\ hits' = hits
    BY <1>4 DEF CheckLimit
  <2> QED
    BY <1>2, <1>3, <2>1 DEF RateInv
<1>5. CASE ~(limit < 0)
  <2>1. LimitOf(key) \in Nat
    BY <1>1, <1>5
  <2>2. Affords(bucket, hits, key, clock)
    BY <1>2, <2>1, RefillGood
  <2>3. /\ passes = Allowed(bucket)
        /\ active_windows_map' = Charged(windows, key, bucket, passes, clock)
        /\ hits' = MoreHits(hits, key, passes, clock)
    BY <1>5 DEF CheckLimit, Charged, MoreHits
  <2> HIDE DEF key, limit, windows, found, bucket
  <2>4. BucketsGood(active_windows_map', hits', clock)
    BY <1>2, <2>1, <2>2, <2>3, HitGood
  <2> QED
    BY <1>3, <2>4 DEF RateInv
<1> QED
  BY <1>4, <1>5

\* Only a request with a subscription of its own comes to the limiter.
LEMMA InterceptorsGood ==
    ASSUME RateInv, JudgeInv, ConfigInv, NEW r \in Requests, RunInterceptors(r),
           PollInner(r, "ready") \/ kind = "none"
    PROVE  RateInv'
<1>1. CASE UNCHANGED rateVars
  BY <1>1 DEF RateInv, rateVars
<1>2. CASE ratelimit
  <2>1. PollInner(r, "ready") /\ kind # "none"
    BY <1>2 DEF ConfigInv, PollInner, JudgeInv, LookupInv
  <2>2. info[r] \notin {NotFound, LookupError} /\ Deserved(r)
    BY <2>1 DEF PollInner, JudgeInv, InfoInv
  <2>3. info[r] \in (Infos \cup {FileAnswer(r), TrustedAnswer(r)}) \ {NotFound}
    BY <2>2 DEF Deserved, JudgeInv, JudgeTypes, AllCredentials
  <2>4. RatelimitOf(info[r], MethodOf[r]) \in Int
    BY <2>3, AdmissionAssumption DEF AdmissionAssumption
  <2> QED
    BY <1>1, <2>4, CheckLimitGood DEF RunInterceptors
<1> QED
  BY <1>1, <1>2 DEF RunInterceptors

LEMMA RateInductive ==
    ASSUME RateInv, JudgeInv, ConfigInv, [Next]_vars
    PROVE  RateInv' /\ ConfigInv'
<1>1. UNCHANGED <<kind, ratelimit>>
  BY DEF Next, vars, config, authVars, Send, Arrive, SendUnguarded, Guard, PollReady, Call, CacheHit, StartLookup,
         JoinLookup, Deny, EndpointAnswers, LookupAnswers, InnerNotReady, EnterInner, InnerPanics,
         PollInner, Reset, DropGuarded, Environment, EndpointStep, DirectoryChanges, CacheExpires, TimePasses
<1>2. ASSUME UNCHANGED rateVars
      PROVE  RateInv'
  BY <1>2 DEF RateInv, rateVars
<1>0. ConfigInv'
  BY <1>1 DEF ConfigInv
<1>3. ASSUME NEW r \in Requests, SendUnguarded(r) \/ EnterInner(r)
      PROVE  RateInv'
  BY <1>3, InterceptorsGood DEF SendUnguarded, EnterInner
<1>4. CASE TimePasses
  BY <1>0, <1>4, TickGood DEF TimePasses, Tick, RateInv
<1>5. CASE \/ \E r \in Requests : Send(r) \/ Guard(r) \/ EndpointAnswers(r) \/ InnerNotReady(r) \/ Reset(r)
           \/ Environment \/ UNCHANGED vars
  BY <1>0, <1>2, <1>5 DEF Send, Guard, EndpointAnswers, InnerNotReady, Reset, Environment, vars
<1>6. ASSUME NEW r \in Requests, InnerPanics(r)
      PROVE  RateInv'
  <2>1. BucketsGood(AfterGc(active_windows_map, clock), hits, clock)
    BY GcGood DEF RateInv, AfterGc
  <2>2. CASE AssertFails(info[r], MethodOf[r])
    BY <2>1, <2>2 DEF AssertFails, RateInv
  <2> QED
    BY <1>2, <1>6, <2>2 DEF InnerPanics
<1> QED
  BY <1>0, <1>3, <1>4, <1>5, <1>6 DEF Next

\* For every limit, window and gc period, and for any number of requests at any instants:
\* between two admitted hits of a key lie no more than the burst and what the time between
\* them refills, although gc drops buckets that are made anew, full.
THEOREM RateAlwaysHolds == Spec => []RateHolds
<1>1. Init => RateInv /\ ConfigInv
  BY AdmissionAssumption
  DEF Init, RateInit, RateInv, BucketsGood, BucketTypes, HitTypes, Balanced, Spaced, ConfigInv,
      AdmissionAssumption
<1>2. RateInv /\ JudgeInv /\ ConfigInv /\ [Next]_vars => RateInv' /\ ConfigInv'
  BY RateInductive
<1>3. RateInv => RateHolds
  BY DEF RateInv, BucketsGood, Spaced, RateHolds
<1> QED
  BY <1>1, <1>2, <1>3, JudgeInvHolds, PTL DEF Spec
=============================================================================
