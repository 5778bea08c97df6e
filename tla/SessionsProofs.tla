--------------------------- MODULE SessionsProofs ---------------------------
(***************************************************************************)
(* The sessions, alone and inside the plugin, for every set of sessions,   *)
(* every limit, every channel capacity and every list of accounts.  A step *)
(* either starts a session, ends one, or leaves the set of running loops   *)
(* and the counters alone.  The last part is about the bytes the bodies of  *)
(* such sessions emit (Metering): every sum the bill is made of.           *)
(***************************************************************************)
EXTENDS Plugin, Metering, FiniteSetTheorems, SequenceTheorems, TLAPS

LoopStates ==
    {"none", "snapshot_filter", "snapshot", "snapshot_send", "replay", "live", "done"}

\* What the counting argument needs of the types.
PermitTypes ==
    /\ counters \in [Keys -> Nat]
    /\ gossip \in [Keys -> Nat]
    /\ key \in [Sessions -> Keys]
    /\ loop \in [Sessions -> LoopStates]

PermitInv == PermitTypes /\ PermitsExact

\* The four kinds of step, as far as permits are concerned.
Started(i) ==
    /\ loop[i] = "none"
    /\ Admits(key[i])
    /\ counters' = [counters EXCEPT ![key[i]] = @ + 1]
    /\ \E l \in {"snapshot_filter", "live"} : loop' = [loop EXCEPT ![i] = l]
    /\ UNCHANGED gossip

Finished(i) ==
    /\ Alive(loop[i])
    /\ loop' = [loop EXCEPT ![i] = "done"]
    /\ ReleasePermit(key[i])
    /\ UNCHANGED gossip

Moved(i) ==
    /\ Alive(loop[i])
    /\ \E l \in {"snapshot", "snapshot_send", "replay", "live"} : loop' = [loop EXCEPT ![i] = l]
    /\ UNCHANGED permitVars

GossipMoved(k) ==
    /\ \/ Admits(k) /\ counters' = [counters EXCEPT ![k] = @ + 1]
          /\ gossip' = [gossip EXCEPT ![k] = @ + 1]
       \/ gossip[k] > 0 /\ ReleasePermit(k) /\ gossip' = [gossip EXCEPT ![k] = @ - 1]
    /\ UNCHANGED loop

\* Holders of a key when one loop changes.
LEMMA HoldersFinite ==
    ASSUME NEW k \in Keys
    PROVE  IsFiniteSet(Holders(k)) /\ Cardinality(Holders(k)) \in Nat
BY SessionsAssumption, FS_Subset, FS_CardinalityType DEF Holders, SessionsAssumption

LEMMA StartedPreserves ==
    ASSUME PermitInv, UNCHANGED key, NEW i \in Sessions, Started(i)
    PROVE  PermitInv'
<1>1. PermitTypes'
  BY DEF PermitInv, PermitTypes, Started, LoopStates
<1>2. ASSUME NEW k \in Keys
      PROVE  /\ counters'[k] = Cardinality(Holders(k)') + gossip'[k]
             /\ LimitEnforce => counters'[k] <= Limit
  <2>1. counters[k] = Cardinality(Holders(k)) + gossip[k]
        /\ (LimitEnforce => counters[k] <= Limit)
    BY DEF PermitInv, PermitsExact
  <2>0. gossip'[k] = gossip[k] /\ gossip[k] \in Nat
    BY DEF Started, PermitInv, PermitTypes
  <2>2. CASE k = key[i]
    <3>1. i \notin Holders(k)
      BY DEF Started, Holders, Alive
    <3>2. Holders(k)' = Holders(k) \cup {i}
      BY <2>2 DEF Started, Holders, Alive, PermitInv, PermitTypes
    <3>3. Cardinality(Holders(k)') = Cardinality(Holders(k)) + 1
      BY <3>1, <3>2, HoldersFinite, FS_AddElement
    <3>4. counters'[k] = counters[k] + 1
      BY <2>2 DEF Started, PermitInv, PermitTypes
    <3>5. LimitEnforce => counters[k] < Limit
      BY <2>2 DEF Started, Admits
    <3> QED
      BY <2>0, <2>1, <3>3, <3>4, <3>5, HoldersFinite, SessionsAssumption DEF SessionsAssumption
  <2>3. CASE k # key[i]
    <3>1. Holders(k)' = Holders(k)
      BY <2>3 DEF Started, Holders, Alive, PermitInv, PermitTypes
    <3>2. counters'[k] = counters[k]
      BY <2>3 DEF Started, PermitInv, PermitTypes
    <3> QED
      BY <2>0, <2>1, <3>1, <3>2
  <2> QED
    BY <2>2, <2>3
<1> QED
  BY <1>1, <1>2 DEF PermitInv, PermitsExact

LEMMA FinishedPreserves ==
    ASSUME PermitInv, UNCHANGED key, NEW i \in Sessions, Finished(i)
    PROVE  PermitInv'
<1>1. PermitTypes'
  BY DEF PermitInv, PermitTypes, Finished, ReleasePermit, LoopStates
<1>2. ASSUME NEW k \in Keys
      PROVE  /\ counters'[k] = Cardinality(Holders(k)') + gossip'[k]
             /\ LimitEnforce => counters'[k] <= Limit
  <2>1. counters[k] = Cardinality(Holders(k)) + gossip[k]
        /\ (LimitEnforce => counters[k] <= Limit)
    BY DEF PermitInv, PermitsExact
  <2>0. gossip'[k] = gossip[k] /\ gossip[k] \in Nat
    BY DEF Finished, PermitInv, PermitTypes
  <2>2. CASE k = key[i]
    <3>1. i \in Holders(k)
      BY <2>2 DEF Finished, Holders
    <3>2. Holders(k)' = Holders(k) \ {i}
      BY <2>2 DEF Finished, Holders, Alive, PermitInv, PermitTypes
    <3>3. Cardinality(Holders(k)') = Cardinality(Holders(k)) - 1
      BY <3>1, <3>2, HoldersFinite, FS_RemoveElement
    <3>4. Cardinality(Holders(k)) # 0
      BY <3>1, HoldersFinite, FS_EmptySet
    <3>5. counters'[k] = IF counters[k] > 0 THEN counters[k] - 1 ELSE 0
      BY <2>2 DEF Finished, ReleasePermit, PermitInv, PermitTypes
    <3> QED
      BY <2>0, <2>1, <3>3, <3>4, <3>5, HoldersFinite, SessionsAssumption DEF SessionsAssumption
  <2>3. CASE k # key[i]
    <3>1. Holders(k)' = Holders(k)
      BY <2>3 DEF Finished, Holders, Alive, PermitInv, PermitTypes
    <3>2. counters'[k] = counters[k]
      BY <2>3 DEF Finished, ReleasePermit, PermitInv, PermitTypes
    <3> QED
      BY <2>0, <2>1, <3>1, <3>2
  <2> QED
    BY <2>2, <2>3
<1> QED
  BY <1>1, <1>2 DEF PermitInv, PermitsExact

LEMMA MovedPreserves ==
    ASSUME PermitInv, UNCHANGED key, NEW i \in Sessions, Moved(i)
    PROVE  PermitInv'
<1>1. PermitTypes'
  BY DEF PermitInv, PermitTypes, Moved, LoopStates, permitVars
<1>2. \A k \in Keys : Holders(k)' = Holders(k)
  BY DEF Moved, Holders, Alive, PermitInv, PermitTypes
<1>3. \A k \in Keys : counters'[k] = counters[k] /\ gossip'[k] = gossip[k]
  BY DEF Moved, permitVars
<1> QED
  BY <1>1, <1>2, <1>3 DEF PermitInv, PermitsExact

LEMMA GossipMovedPreserves ==
    ASSUME PermitInv, UNCHANGED key, NEW o \in Keys, GossipMoved(o)
    PROVE  PermitInv'
<1>1. PermitTypes'
  BY DEF PermitInv, PermitTypes, GossipMoved, ReleasePermit
<1>2. ASSUME NEW k \in Keys
      PROVE  /\ counters'[k] = Cardinality(Holders(k)') + gossip'[k]
             /\ LimitEnforce => counters'[k] <= Limit
  <2>1. counters[k] = Cardinality(Holders(k)) + gossip[k]
        /\ (LimitEnforce => counters[k] <= Limit)
    BY DEF PermitInv, PermitsExact
  <2>2. Holders(k)' = Holders(k)
    BY DEF GossipMoved, Holders
  <2>3. CASE k = o
    BY <2>1, <2>2, <2>3, HoldersFinite, SessionsAssumption
    DEF GossipMoved, ReleasePermit, Admits, PermitInv, PermitTypes, SessionsAssumption
  <2>4. CASE k # o
    BY <2>1, <2>2, <2>4 DEF GossipMoved, ReleasePermit, PermitInv, PermitTypes
  <2> QED
    BY <2>3, <2>4
<1> QED
  BY <1>1, <1>2 DEF PermitInv, PermitsExact

LEMMA UnchangedPreserves ==
    ASSUME PermitInv, UNCHANGED <<permitVars, key, loop>>
    PROVE  PermitInv'
BY DEF PermitInv, PermitTypes, PermitsExact, Holders, permitVars

\* Every action is a step of one of the kinds.
LEMMA StepKinds ==
    ASSUME PermitTypes, Next
    PROVE  /\ UNCHANGED key
           /\ \/ UNCHANGED <<permitVars, loop>>
              \/ \E i \in Sessions : Started(i) \/ Finished(i) \/ Moved(i)
              \/ \E k \in Keys : GossipMoved(k)
<1>1. CASE StartupEnds \/ Shutdown
  BY <1>1 DEF StartupEnds, Shutdown, taskVars, permitVars, callVars
<1>2. ASSUME NEW i \in Sessions, NEW w \in BOOLEAN, Subscribe(i, w)
      PROVE  UNCHANGED key /\ Started(i)
  BY <1>2 DEF Subscribe, SpawnTasks, Started, callVars
<1>3. ASSUME NEW i \in Sessions, PingTask(i) \/ PingCancelled(i)
      PROVE  UNCHANGED <<permitVars, key, loop>>
  BY <1>3 DEF PingTask, PingTick, PingSent, PingDetectsDead, PingCancelled, callVars
<1>4. ASSUME NEW i \in Sessions, Incoming(i) \/ IncomingCancelled(i)
      PROVE  UNCHANGED <<permitVars, key, loop>>
  BY <1>4 DEF Incoming, IncomingRequest, IncomingDeshredRequest, TakesRequest, IncomingAnswered, IncomingAnswerFails,
     IncomingHalfClosed, IncomingFails, IncomingCancelled, UnchangedByIncoming,
     callVars
<1>5. ASSUME NEW i \in Sessions, Loop(i) \/ LoopCancelled(i)
      PROVE  /\ UNCHANGED key
             /\ UNCHANGED <<permitVars, loop>> \/ Finished(i) \/ Moved(i)
  <2>1. CASE SnapshotFilter(i)
    BY <2>1 DEF SnapshotFilter, EndSession, Finished, Moved, Alive, UnchangedByLoop, permitVars,
       callVars
  <2>2. CASE LoopUpdate(i)
    BY <2>2 DEF LoopUpdate, UnchangedByLoop, permitVars, callVars
  <2>3. CASE SnapshotClosed(i) \/ ReplayClosed(i) \/ LoopClosed(i) \/ LoopLagged(i)
    BY <2>3 DEF SnapshotClosed, ReplayClosed, LoopClosed, LoopLagged, EndSession, Finished,
       Alive, UnchangedByLoop, permitVars, callVars
  <2>4. CASE SnapshotTake(i) \/ SnapshotSent(i) \/ SnapshotDone(i) \/ ReplaySent(i)
    BY <2>4 DEF SnapshotTake, SnapshotSent, SnapshotDone, ReplaySent, Moved, Alive,
       UnchangedByLoop, permitVars, callVars
  <2>5. CASE LoopRequests(i)
    BY <2>5 DEF LoopRequests, ReplayOf, EndSession, Finished, Moved, Alive,
       UnchangedByLoop, permitVars, callVars
  <2>6. CASE LoopCancelled(i)
    BY <2>6 DEF LoopCancelled, EndSession, Finished, Alive, UnchangedByLoop, permitVars,
       callVars
  <2> QED
    BY <1>5, <2>1, <2>2, <2>3, <2>4, <2>5, <2>6 DEF Loop
<1>6. ASSUME NEW i \in Sessions, LastSent(i) \/ ClientReads(i) \/ ClientLeaves(i)
      PROVE  UNCHANGED <<permitVars, key, loop>>
  BY <1>6 DEF LastSent, ClientReads, ClientLeaves, taskVars, permitVars, callVars
<1>7. ASSUME NEW k \in Keys, SubscribeGossip(k) \/ GossipEnds(k)
      PROVE  UNCHANGED key /\ GossipMoved(k)
  BY <1>7 DEF SubscribeGossip, GossipEnds, GossipMoved, callVars, taskVars
<1>8. ASSUME NEW i \in Sessions, SubscribeDeshred(i)
      PROVE  UNCHANGED key /\ Started(i)
  BY <1>8 DEF SubscribeDeshred, SpawnTasks, Started, callVars
<1> QED
  BY <1>1, <1>2, <1>3, <1>4, <1>5, <1>6, <1>7, <1>8 DEF Next

-----------------------------------------------------------------------------
(* The same with the plugin around the sessions                            *)

\* A step of the plugin is a step of the sessions, or stops the runtime.
LEMMA PluginSteps ==
    ASSUME PluginNext
    PROVE  Next \/ UNCHANGED vars \/ RuntimeStops
<1>1. CASE OnLoad \/ UpdateAccount \/ AccountSent \/ NotifyEndOfStartup \/ OnUnload \/ RuntimeStops
  BY <1>1 DEF OnLoad, UpdateAccount, AccountSent, NotifyEndOfStartup, OnUnload, Next
<1>2. ASSUME NEW i \in Sessions, SessionStarts(i) \/ SessionStep(i) \/ TakeFromChannel(i) \/ ChannelEnds(i)
      PROVE  Next
  BY <1>2 DEF SessionStarts, SessionStep, TakeFromChannel, ChannelEnds, Next, Loop
<1>3. ASSUME NEW k \in Keys, GossipStep(k)
      PROVE  Next
  BY <1>3 DEF GossipStep, Next
<1> QED
  BY <1>1, <1>2, <1>3 DEF PluginNext

LEMMA StoppedPreserves ==
    ASSUME PermitInv, RuntimeStops
    PROVE  PermitInv'
<1>1. /\ loop' = [i \in Sessions |-> "done"] /\ key' = key
      /\ counters' = [k \in Keys |-> 0] /\ gossip' = [k \in Keys |-> 0]
  BY DEF RuntimeStops, callVars
<1>2. PermitTypes'
  BY <1>1 DEF PermitInv, PermitTypes, LoopStates
<1>3. \A k \in Keys : Holders(k)' = {}
  BY <1>1 DEF Holders, Alive
<1>4. \A k \in Keys : counters'[k] = 0 /\ gossip'[k] = 0
  BY <1>1
<1>5. Cardinality({}) = 0 /\ 0 <= Limit
  BY FS_EmptySet, SessionsAssumption DEF SessionsAssumption
<1>6. PermitsExact'
  BY <1>3, <1>4, <1>5 DEF PermitsExact
<1> QED
  BY <1>2, <1>6 DEF PermitInv

LEMMA PermitsInit ==
    ASSUME Init
    PROVE  PermitInv
<1>1. PermitTypes
  BY DEF Init, PermitTypes, LoopStates
<1>2. \A k \in Keys : Holders(k) = {}
  BY DEF Init, Holders, Alive
<1>3. \A k \in Keys : counters[k] = 0 /\ gossip[k] = 0
  BY DEF Init
<1> QED
  BY <1>1, <1>2, <1>3, FS_EmptySet, SessionsAssumption DEF PermitInv, PermitsExact, SessionsAssumption

LEMMA PermitsKept ==
    ASSUME PermitInv, [Next]_vars
    PROVE  PermitInv'
<1>1. CASE Next
  <2>1. PermitTypes
    BY DEF PermitInv
  <2> QED
    BY <1>1, <2>1, StepKinds, StartedPreserves, FinishedPreserves, MovedPreserves,
       GossipMovedPreserves, UnchangedPreserves
<1>2. CASE UNCHANGED vars
  BY <1>2, UnchangedPreserves DEF vars, taskVars, permitVars, callVars
<1> QED
  BY <1>1, <1>2

\* The permits of a subscriber are counted exactly and its limit holds (property
\* PermitsExact), whatever the sessions, their clients and the shutdown do: every way
\* a session ends drops its permit, and no way drops it twice.
THEOREM PermitsCorrect == Spec => []PermitsExact
<1>1. PermitInv => PermitsExact
  BY DEF PermitInv
<1> QED
  BY <1>1, PermitsInit, PermitsKept, PTL DEF Spec

\* The same from the plugin's load to its unload, when the runtime drops the sessions.
THEOREM PermitsExactInPlugin == PluginSpec => []PermitsExact
<1>1. PluginInit => PermitInv
  BY PermitsInit DEF PluginInit
<1>2. PermitInv /\ [PluginNext]_allVars => PermitInv'
  BY PluginSteps, StoppedPreserves, PermitsKept DEF allVars
<1>3. PermitInv => PermitsExact
  BY DEF PermitInv
<1> QED
  BY <1>1, <1>2, <1>3, PTL DEF PluginSpec

-----------------------------------------------------------------------------
(* The last error of a client that lags                                    *)

Items == {"msg", "err"}
Reasons == {"unknown", "client_closed", "client_disconnect", "server_shutdown", "lagged"}

LagTypes ==
    /\ loop \in [Sessions -> LoopStates]
    /\ last \in [Sessions -> {"none", "sending", "done"}]
    /\ reason \in [Sessions -> Reasons]
    /\ client \in [Sessions -> {"none", "there", "gone"}]
    /\ stream \in [Sessions -> Seq(Items)]

\* The task of the last error belongs to a session that ran.
LastAfterLoop == \A i \in Sessions : loop[i] = "none" => last[i] = "none"

LagInv == LagTypes /\ LastAfterLoop /\ LagIsReported

\* What every step does that neither starts a session, nor drops a client that lags, nor
\* is one of the client's.
Calm(i) ==
    /\ UNCHANGED <<last, client>>
    /\ stream' = stream \/ \E item \in Items : stream' = [stream EXCEPT ![i] = Append(stream[i], item)]
    /\ loop' = loop \/ \E l \in LoopStates \ {"none"} : loop' = [loop EXCEPT ![i] = l]
    /\ reason' = reason \/ \E why \in Reasons \ {"lagged"} : reason' = [reason EXCEPT ![i] = why]

LEMMA AppendContains ==
    ASSUME NEW q \in Seq(Items), NEW item \in Items
    PROVE  /\ Append(q, item) \in Seq(Items)
           /\ Contains(q, "err") => Contains(Append(q, item), "err")
           /\ item = "err" => Contains(Append(q, item), "err")
<1>1. Len(q) \in Nat /\ Len(Append(q, item)) = Len(q) + 1 /\ Append(q, item)[Len(q) + 1] = item
  OBVIOUS
<1>2. \A i \in 1 .. Len(q) : Append(q, item)[i] = q[i] /\ i \in 1 .. Len(q) + 1
  BY <1>1
<1>3. Len(q) + 1 \in 1 .. Len(q) + 1
  BY <1>1
<1> QED
  BY <1>1, <1>2, <1>3 DEF Contains

LEMMA TailContains ==
    ASSUME NEW q \in Seq(Items), q # <<>>
    PROVE  /\ Tail(q) \in Seq(Items) /\ Head(q) \in Items
           /\ Contains(q, "err") /\ Head(q) # "err" => Contains(Tail(q), "err")
<1>1. /\ Len(q) \in Nat /\ Len(q) >= 1 /\ Len(Tail(q)) = Len(q) - 1 /\ Head(q) = q[1]
      /\ \A i \in 1 .. Len(q) - 1 : Tail(q)[i] = q[i + 1]
  OBVIOUS
<1>2. ASSUME NEW i \in 1 .. Len(q), q[i] = "err", Head(q) # "err"
      PROVE  Contains(Tail(q), "err")
  <2>1. i - 1 \in 1 .. Len(q) - 1 /\ (i - 1) + 1 = i
    BY <1>1, <1>2
  <2>2. Tail(q)[i - 1] = "err"
    BY <1>1, <1>2, <2>1
  <2> QED
    BY <1>1, <2>1, <2>2 DEF Contains
<1> QED
  BY <1>2 DEF Contains

LEMMA CalmKeeps ==
    ASSUME LagInv, NEW i \in Sessions, Calm(i), \A j \in Sessions : loop'[j] = "none" => loop[j] = "none"
    PROVE  LagInv'
<1>1. LagTypes'
  <2>1. loop' \in [Sessions -> LoopStates] /\ reason' \in [Sessions -> Reasons]
    BY DEF LagInv, LagTypes, Calm
  <2>2. stream' \in [Sessions -> Seq(Items)]
    <3>1. CASE stream' = stream
      BY <3>1 DEF LagInv, LagTypes
    <3>2. ASSUME NEW item \in Items, stream' = [stream EXCEPT ![i] = Append(stream[i], item)]
          PROVE  stream' \in [Sessions -> Seq(Items)]
      <4>1. stream \in [Sessions -> Seq(Items)] /\ Append(stream[i], item) \in Seq(Items)
        BY AppendContains DEF LagInv, LagTypes
      <4> QED
        BY <3>2, <4>1
    <3> QED
      BY <3>1, <3>2 DEF Calm
  <2> QED
    BY <2>1, <2>2 DEF LagInv, LagTypes, Calm
<1>2. LastAfterLoop'
  BY DEF LagInv, LastAfterLoop, Calm
<1>3. ASSUME NEW j \in Sessions, reason'[j] = "lagged", last'[j] = "done", client'[j] = "there"
      PROVE  Contains(stream'[j], "err")
  <2>1. reason[j] = "lagged" /\ last[j] = "done" /\ client[j] = "there"
    BY <1>3 DEF LagInv, LagTypes, Calm
  <2>2. Contains(stream[j], "err")
    BY <2>1 DEF LagInv, LagIsReported
  <2>3. stream'[j] = stream[j] \/ \E item \in Items : stream'[j] = Append(stream[j], item)
    BY DEF LagInv, LagTypes, Calm
  <2> QED
    BY <2>2, <2>3, AppendContains DEF LagInv, LagTypes
<1> QED
  BY <1>1, <1>2, <1>3 DEF LagInv, LagIsReported

\* A session starts with no error due, and the client is there from then on.
LEMMA SpawnKeepsLag ==
    ASSUME LagInv, NEW i \in Sessions, NEW first \in LoopStates \ {"none"}, SpawnTasks(i, first)
    PROVE  LagInv'
<1>1. /\ loop[i] = "none" /\ loop' = [loop EXCEPT ![i] = first]
      /\ client' = [client EXCEPT ![i] = "there"] /\ UNCHANGED <<last, stream, reason>>
  BY DEF SpawnTasks
<1>2. LagTypes' /\ LastAfterLoop'
  BY <1>1 DEF LagInv, LagTypes, LastAfterLoop
<1>3. last[i] = "none"
  BY <1>1 DEF LagInv, LastAfterLoop
<1>4. LagIsReported'
  BY <1>1, <1>3 DEF LagInv, LagTypes, LagIsReported
<1> QED
  BY <1>2, <1>4 DEF LagInv

LEMMA LaggedKeeps ==
    ASSUME LagInv, NEW i \in Sessions, LoopLagged(i)
    PROVE  LagInv'
<1>1. /\ loop' = [loop EXCEPT ![i] = "done"] /\ reason' = [reason EXCEPT ![i] = "lagged"]
      /\ last' = [last EXCEPT ![i] = "sending"] /\ UNCHANGED <<stream, client>>
  BY DEF LoopLagged, EndSession, UnchangedByLoop
<1>2. LagTypes'
  BY <1>1 DEF LagInv, LagTypes, LoopStates, Reasons
<1>3. LastAfterLoop'
  BY <1>1 DEF LagInv, LagTypes, LastAfterLoop
<1>4. last'[i] # "done" /\ \A j \in Sessions : j # i => last'[j] = last[j] /\ reason'[j] = reason[j]
  BY <1>1 DEF LagInv, LagTypes
<1>5. LagIsReported'
  BY <1>1, <1>4 DEF LagInv, LagIsReported
<1> QED
  BY <1>2, <1>3, <1>5 DEF LagInv

LEMMA LastKeeps ==
    ASSUME LagInv, NEW i \in Sessions, LastSent(i)
    PROVE  LagInv'
<1>1. /\ last[i] = "sending" /\ last' = [last EXCEPT ![i] = "done"] /\ UNCHANGED <<loop, reason, client>>
      /\ \/ stream' = [stream EXCEPT ![i] = Append(stream[i], "err")]
         \/ Closed(i) /\ stream' = stream
  BY DEF LastSent, Enqueue
<1>2. Append(stream[i], "err") \in Seq(Items) /\ Contains(Append(stream[i], "err"), "err")
  BY AppendContains DEF LagInv, LagTypes, Items
<1>3. LagTypes' /\ LastAfterLoop'
  BY <1>1, <1>2 DEF LagInv, LagTypes, LastAfterLoop
<1>4. client[i] = "there" => stream'[i] = Append(stream[i], "err")
  BY <1>1 DEF Closed, LagInv, LagTypes
<1>5. \A j \in Sessions : j # i => last'[j] = last[j] /\ stream'[j] = stream[j]
  BY <1>1 DEF LagInv, LagTypes
<1>6. LagIsReported'
  BY <1>1, <1>2, <1>4, <1>5 DEF LagInv, LagIsReported
<1> QED
  BY <1>3, <1>6 DEF LagInv

LEMMA ClientKeepsLag ==
    ASSUME LagInv, NEW i \in Sessions, ClientReads(i) \/ ClientLeaves(i)
    PROVE  LagInv'
<1>1. UNCHANGED <<loop, last, reason>>
  BY DEF ClientReads, ClientLeaves, taskVars
<1>a. stream \in [Sessions -> Seq(Items)] /\ client \in [Sessions -> {"none", "there", "gone"}]
  BY DEF LagInv, LagTypes
<1>b. stream[i] # <<>> => Tail(stream[i]) \in Seq(Items)
  BY <1>a, TailContains
<1>2. CASE /\ client' = [client EXCEPT ![i] = "gone"]
           /\ \/ stream' = stream
              \/ stream[i] # <<>> /\ stream' = [stream EXCEPT ![i] = Tail(stream[i])]
  <2>a. stream' \in [Sessions -> Seq(Items)] /\ client' \in [Sessions -> {"none", "there", "gone"}]
    BY <1>2, <1>a, <1>b
  <2>1. LagTypes' /\ LastAfterLoop'
    BY <1>1, <2>a DEF LagInv, LagTypes, LastAfterLoop
  <2>2. LagIsReported'
    BY <1>1, <1>2 DEF LagInv, LagTypes, LagIsReported
  <2> QED
    BY <2>1, <2>2 DEF LagInv
<1>3. CASE /\ client' = client /\ stream[i] # <<>> /\ Head(stream[i]) # "err"
           /\ stream' = [stream EXCEPT ![i] = Tail(stream[i])]
  <2>a. stream' \in [Sessions -> Seq(Items)]
    BY <1>3, <1>a, <1>b
  <2>1. LagTypes' /\ LastAfterLoop'
    BY <1>1, <1>3, <2>a DEF LagInv, LagTypes, LastAfterLoop
  <2>2. Contains(stream[i], "err") => Contains(stream'[i], "err")
    BY <1>3, TailContains DEF LagInv, LagTypes
  <2>3. \A j \in Sessions : j # i => stream'[j] = stream[j]
    BY <1>3 DEF LagInv, LagTypes
  <2>4. LagIsReported'
    BY <1>1, <1>3, <2>2, <2>3 DEF LagInv, LagIsReported
  <2> QED
    BY <2>1, <2>4 DEF LagInv
<1> QED
  <2>1. CASE ClientLeaves(i)
    BY <1>2, <2>1 DEF ClientLeaves
  <2>2. CASE ClientReads(i) /\ stream[i] = <<>>
    BY <1>2, <2>2 DEF ClientReads
  <2>3. CASE ClientReads(i) /\ stream[i] # <<>>
    <3>1. stream' = [stream EXCEPT ![i] = Tail(stream[i])]
      BY <2>3 DEF ClientReads
    <3>2. client' = IF Head(stream[i]) = "err" THEN [client EXCEPT ![i] = "gone"] ELSE client
      BY <2>3 DEF ClientReads
    <3> QED
      BY <1>2, <1>3, <2>3, <3>1, <3>2
  <2> QED
    BY <2>1, <2>2, <2>3

LEMMA StoppedKeepsLag ==
    ASSUME LagInv, RuntimeStops
    PROVE  LagInv'
<1>1. /\ loop' = [i \in Sessions |-> "done"] /\ last' = [i \in Sessions |-> "done"]
      /\ client' = [i \in Sessions |-> "gone"] /\ UNCHANGED <<stream, reason>>
  BY DEF RuntimeStops
<1>2. LagTypes'
  BY <1>1 DEF LagInv, LagTypes, LoopStates, Reasons
<1>3. \A i \in Sessions : loop'[i] = "done" /\ client'[i] = "gone"
  BY <1>1
<1> QED
  BY <1>2, <1>3 DEF LagInv, LastAfterLoop, LagIsReported

LEMMA LagStutter ==
    ASSUME LagInv, UNCHANGED <<loop, last, reason, client, stream>>
    PROVE  LagInv'
BY DEF LagInv, LagTypes, LastAfterLoop, LagIsReported

LEMMA LagKept ==
    ASSUME LagInv, [Next]_vars
    PROVE  LagInv'
<1>1. CASE UNCHANGED vars \/ StartupEnds \/ Shutdown
  BY <1>1, LagStutter DEF vars, taskVars, StartupEnds, Shutdown
<1>2. ASSUME NEW k \in Keys, SubscribeGossip(k) \/ GossipEnds(k)
      PROVE  LagInv'
  BY <1>2, LagStutter DEF SubscribeGossip, GossipEnds, taskVars
<1>3. ASSUME NEW i \in Sessions, NEW w \in BOOLEAN, Subscribe(i, w)
      PROVE  LagInv'
  <2>1. \E first \in LoopStates \ {"none"} : SpawnTasks(i, first)
    BY <1>3 DEF Subscribe, LoopStates
  <2> QED
    BY <2>1, SpawnKeepsLag
<1>4. ASSUME NEW i \in Sessions, SubscribeDeshred(i)
      PROVE  LagInv'
  BY <1>4, SpawnKeepsLag DEF SubscribeDeshred, LoopStates
<1>5. ASSUME NEW i \in Sessions,
             \/ PingTask(i) \/ PingCancelled(i) \/ Incoming(i) \/ IncomingCancelled(i)
             \/ Loop(i) \/ LoopCancelled(i)
      PROVE  LagInv'
  <2>1. CASE PingTask(i) \/ PingCancelled(i)
    <3>1. Calm(i) /\ loop' = loop
      BY <2>1 DEF PingTask, PingTick, PingSent, PingDetectsDead, PingCancelled, Enqueue, Calm, Items
    <3> QED
      BY <3>1, CalmKeeps
  <2>2. CASE Incoming(i) \/ IncomingCancelled(i)
    <3>1. Calm(i) /\ loop' = loop
      BY <2>2 DEF Incoming, IncomingRequest, IncomingDeshredRequest, TakesRequest, IncomingAnswered,
         IncomingAnswerFails, IncomingHalfClosed, IncomingFails, IncomingCancelled, UnchangedByIncoming,
         Enqueue, Calm, Items
    <3> QED
      BY <3>1, CalmKeeps
  <2>3. CASE LoopLagged(i)
    BY <2>3, LaggedKeeps
  <2>4. CASE LoopCancelled(i) \/ (Loop(i) /\ ~LoopLagged(i))
    <3>1. Calm(i)
      <4>1. CASE SnapshotFilter(i) \/ LoopRequests(i)
        BY <4>1 DEF SnapshotFilter, LoopRequests, ReplayOf, EndSession, UnchangedByLoop, Calm, LoopStates, Reasons
      <4>2. CASE SnapshotTake(i) \/ SnapshotDone(i)
        BY <4>2 DEF SnapshotTake, SnapshotDone, UnchangedByLoop, Calm, LoopStates
      <4>3. CASE SnapshotSent(i) \/ ReplaySent(i) \/ LoopUpdate(i)
        BY <4>3 DEF SnapshotSent, ReplaySent, LoopUpdate, UnchangedByLoop, Enqueue, Calm, Items, LoopStates, Reasons
      <4>4. CASE SnapshotClosed(i) \/ ReplayClosed(i) \/ LoopClosed(i)
        BY <4>4 DEF SnapshotClosed, ReplayClosed, LoopClosed, EndSession, UnchangedByLoop, Calm, LoopStates, Reasons
      <4>5. CASE LoopCancelled(i)
        BY <4>5 DEF LoopCancelled, EndSession, UnchangedByLoop, Enqueue, Calm, Items, LoopStates, Reasons
      <4> QED
        BY <2>4, <4>1, <4>2, <4>3, <4>4, <4>5 DEF Loop
    <3>2. \A j \in Sessions : loop'[j] = "none" => loop[j] = "none"
      BY <3>1 DEF Calm, LagInv, LagTypes
    <3> QED
      BY <3>1, <3>2, CalmKeeps
  <2> QED
    BY <1>5, <2>1, <2>2, <2>3, <2>4
<1> QED
  BY <1>1, <1>2, <1>3, <1>4, <1>5, LastKeeps, ClientKeepsLag DEF Next

\* A client dropped for lagging finds the error in its stream (property LagIsReported),
\* however full the channel was when client_loop gave it up: the task of its own waits
\* for room, and nothing is read past the error.
THEOREM LagAlwaysReported == PluginSpec => []LagIsReported
<1>1. PluginInit => LagInv
  <2> SUFFICES ASSUME Init PROVE LagInv
    BY DEF PluginInit
  <2>1. LagTypes
    BY DEF Init, LagTypes, LoopStates, Items, Reasons
  <2> QED
    BY <2>1 DEF Init, LagInv, LastAfterLoop, LagIsReported
<1>2. LagInv /\ [PluginNext]_allVars => LagInv'
  BY PluginSteps, StoppedKeepsLag, LagKept DEF allVars
<1>3. LagInv => LagIsReported
  BY DEF LagInv
<1> QED
  BY <1>1, <1>2, <1>3, PTL DEF PluginSpec

-----------------------------------------------------------------------------
(* The startup snapshot                                                    *)

SnapshotTypes ==
    /\ loop \in [Sessions -> LoopStates]
    /\ {sent, taken, channel} \subseteq Seq(Nat)
    /\ handed \in 0 .. Len(Accounts)
    /\ validator = "sending" => handed > 0

\* As long as someone holds the channel's receiver nothing that was sent is lost.
NothingSpilled == ReceiverAlive => sent = taken \o channel

SnapshotInv == SnapshotTypes /\ NothingSpilled

\* The receiver is taken out of the service by one client, and dropped for good.
LEMMA ReceiverNotReborn ==
    ASSUME loop \in [Sessions -> LoopStates], [PluginNext]_allVars
    PROVE  loop' \in [Sessions -> LoopStates] /\ (ReceiverAlive' => ReceiverAlive)
<1>1. CASE RuntimeStops
  <2>1. loop' = [i \in Sessions |-> "done"] /\ snapshot_rx' = FALSE
    BY <1>1 DEF RuntimeStops
  <2>2. \A i \in Sessions : loop'[i] = "done"
    BY <2>1
  <2> QED
    BY <2>1, <2>2 DEF ReceiverAlive, InSnapshot, LoopStates
<1>2. CASE UNCHANGED <<loop, snapshot_rx>>
  BY <1>2 DEF ReceiverAlive, InSnapshot
<1>3. ASSUME NEW i \in Sessions, NEW first \in LoopStates, SpawnTasks(i, first), snapshot_rx' => snapshot_rx,
             first = "live" \/ snapshot_rx
      PROVE  loop' \in [Sessions -> LoopStates] /\ (ReceiverAlive' => ReceiverAlive)
  <2>1. loop' = [loop EXCEPT ![i] = first]
    BY <1>3 DEF SpawnTasks
  <2>2. \A j \in Sessions : j # i => loop'[j] = loop[j]
    BY <2>1
  <2>3. loop'[i] = first
    BY <2>1
  <2> QED
    BY <1>3, <2>1, <2>2, <2>3 DEF ReceiverAlive, InSnapshot
<1>4. ASSUME NEW i \in Sessions, NEW l \in LoopStates, loop' = [loop EXCEPT ![i] = l], UNCHANGED snapshot_rx,
             InSnapshot(i) \/ l \in {"live", "replay", "done"}
      PROVE  loop' \in [Sessions -> LoopStates] /\ (ReceiverAlive' => ReceiverAlive)
  <2>1. \A j \in Sessions : j # i => loop'[j] = loop[j]
    BY <1>4
  <2>2. loop'[i] = l
    BY <1>4
  <2> QED
    BY <1>4, <2>1, <2>2 DEF ReceiverAlive, InSnapshot
<1>5. ASSUME NEW i \in Sessions, NEW w \in BOOLEAN, Subscribe(i, w)
      PROVE  loop' \in [Sessions -> LoopStates] /\ (ReceiverAlive' => ReceiverAlive)
  <2>1. /\ snapshot_rx' = (snapshot_rx /\ ~w)
        /\ SpawnTasks(i, IF w /\ snapshot_rx THEN "snapshot_filter" ELSE "live")
    BY <1>5 DEF Subscribe
  <2>2. CASE w /\ snapshot_rx
    BY <1>3, <2>1, <2>2 DEF LoopStates
  <2>3. CASE ~(w /\ snapshot_rx)
    BY <1>3, <2>1, <2>3 DEF LoopStates
  <2> QED
    BY <2>2, <2>3
<1>6. ASSUME NEW i \in Sessions, SubscribeDeshred(i)
      PROVE  loop' \in [Sessions -> LoopStates] /\ (ReceiverAlive' => ReceiverAlive)
  BY <1>3, <1>6 DEF SubscribeDeshred, LoopStates
<1>7. ASSUME NEW i \in Sessions, Loop(i) \/ LoopCancelled(i)
      PROVE  \/ UNCHANGED <<loop, snapshot_rx>>
             \/ /\ UNCHANGED snapshot_rx
                /\ \E l \in LoopStates : loop' = [loop EXCEPT ![i] = l] /\ (InSnapshot(i) \/ l \in {"live", "replay", "done"})
  <2>1. CASE SnapshotFilter(i) \/ LoopRequests(i)
    BY <2>1 DEF SnapshotFilter, LoopRequests, ReplayOf, EndSession, UnchangedByLoop, InSnapshot, LoopStates
  <2>2. CASE SnapshotTake(i) \/ SnapshotDone(i) \/ SnapshotSent(i) \/ ReplaySent(i)
    BY <2>2 DEF SnapshotTake, SnapshotDone, SnapshotSent, ReplaySent, UnchangedByLoop, InSnapshot, LoopStates
  <2>3. CASE LoopUpdate(i)
    BY <2>3 DEF LoopUpdate, UnchangedByLoop
  <2>4. CASE SnapshotClosed(i) \/ ReplayClosed(i) \/ LoopClosed(i) \/ LoopLagged(i) \/ LoopCancelled(i)
    BY <2>4 DEF SnapshotClosed, ReplayClosed, LoopClosed, LoopLagged, LoopCancelled, EndSession, UnchangedByLoop,
       LoopStates
  <2> QED
    BY <1>7, <2>1, <2>2, <2>3, <2>4 DEF Loop
<1>8. ASSUME NEW i \in Sessions,
             \/ PingTask(i) \/ PingCancelled(i) \/ Incoming(i) \/ IncomingCancelled(i)
             \/ LastSent(i) \/ ClientReads(i) \/ ClientLeaves(i)
      PROVE  UNCHANGED <<loop, snapshot_rx>>
  BY <1>8 DEF PingTask, PingTick, PingSent, PingDetectsDead, PingCancelled, Incoming, IncomingRequest,
     IncomingDeshredRequest, TakesRequest, IncomingAnswered, IncomingAnswerFails, IncomingHalfClosed, IncomingFails,
     IncomingCancelled, UnchangedByIncoming, LastSent, ClientReads, ClientLeaves, taskVars
<1>9. CASE StartupEnds \/ Shutdown \/ (\E k \in Keys : SubscribeGossip(k) \/ GossipEnds(k)) \/ UNCHANGED vars
  BY <1>2, <1>9 DEF StartupEnds, Shutdown, SubscribeGossip, GossipEnds, vars, taskVars
<1>10. CASE Next
  BY <1>2, <1>4, <1>5, <1>6, <1>7, <1>8, <1>9, <1>10 DEF Next
<1> QED
  BY <1>1, <1>9, <1>10, PluginSteps DEF allVars

LEMMA NatConcat ==
    ASSUME NEW s \in Seq(Nat), NEW t \in Seq(Nat), NEW u \in Seq(Nat)
    PROVE  (s \o t) \o u = s \o (t \o u)
BY ConcatAssociative

LEMMA SnapshotKept ==
    ASSUME SnapshotInv, [PluginNext]_allVars
    PROVE  SnapshotInv'
<1>t. /\ loop \in [Sessions -> LoopStates] /\ sent \in Seq(Nat) /\ taken \in Seq(Nat) /\ channel \in Seq(Nat)
      /\ handed \in 0 .. Len(Accounts) /\ (validator = "sending" => handed > 0)
      /\ Accounts \in Seq(Nat)
  BY PluginAssumption DEF SnapshotInv, SnapshotTypes, PluginAssumption
<1>0. loop' \in [Sessions -> LoopStates] /\ (ReceiverAlive' => ReceiverAlive)
  BY <1>t, ReceiverNotReborn
<1>1. ASSUME UNCHANGED <<sent, taken, handed>>, channel' = channel \/ (channel' = <<>> /\ ~ReceiverAlive'),
             validator' # "sending" \/ validator' = validator
      PROVE  SnapshotInv'
  <2>a. <<>> \in Seq(Nat)
    OBVIOUS
  <2>b. channel' \in Seq(Nat)
    BY <1>1, <1>t, <2>a
  <2>c. validator' = "sending" => handed' > 0
    BY <1>1, <1>t
  <2>1. SnapshotTypes'
    BY <1>0, <1>1, <1>t, <2>b, <2>c DEF SnapshotTypes
  <2>2. NothingSpilled'
    BY <1>0, <1>1 DEF SnapshotInv, NothingSpilled
  <2> QED
    BY <2>1, <2>2 DEF SnapshotInv
<1>2. CASE UpdateAccount
  <2>1. handed' = handed + 1 /\ handed < Len(Accounts) /\ UNCHANGED <<vars, channel, sent, taken>>
    BY <1>2 DEF UpdateAccount
  <2>2. SnapshotTypes'
    BY <1>0, <1>t, <2>1 DEF SnapshotTypes
  <2>3. NothingSpilled'
    BY <1>0, <2>1 DEF SnapshotInv, NothingSpilled
  <2> QED
    BY <2>2, <2>3 DEF SnapshotInv
<1>3. CASE AccountSent
  <2>1. CASE ~ReceiverAlive
    BY <1>1, <1>3, <2>1 DEF AccountSent, Goes
  <2>2. CASE ReceiverAlive
    <3> DEFINE a == Accounts[handed]
    <3>1. /\ channel' = Append(channel, a) /\ sent' = Append(sent, a) /\ UNCHANGED <<handed, taken>>
          /\ validator' = "startup" /\ validator = "sending"
      BY <1>3, <2>2 DEF AccountSent, Goes
    <3>2. a \in Nat
      BY <1>t, <3>1
    <3>3. SnapshotTypes'
      BY <1>0, <1>t, <3>1, <3>2 DEF SnapshotTypes
    <3>4. sent = taken \o channel
      BY <2>2 DEF SnapshotInv, NothingSpilled
    <3>5. Append(taken \o channel, a) = taken \o Append(channel, a)
      <4> HIDE DEF a
      <4>1. taken \o channel \in Seq(Nat) /\ <<a>> \in Seq(Nat)
        BY <1>t, <3>2
      <4>2. Append(taken \o channel, a) = (taken \o channel) \o <<a>>
        BY <3>2, <4>1, AppendIsConcat
      <4>3. Append(channel, a) = channel \o <<a>>
        BY <1>t, <3>2, AppendIsConcat
      <4>4. (taken \o channel) \o <<a>> = taken \o (channel \o <<a>>)
        BY <1>t, <4>1, NatConcat
      <4> QED
        BY <4>2, <4>3, <4>4
    <3> QED
      BY <3>1, <3>3, <3>4, <3>5 DEF SnapshotInv, NothingSpilled
  <2> QED
    BY <2>1, <2>2
<1>4. ASSUME NEW i \in Sessions, TakeFromChannel(i)
      PROVE  SnapshotInv'
  <2>1. /\ channel # <<>> /\ channel' = Tail(channel) /\ taken' = Append(taken, Head(channel))
        /\ UNCHANGED <<validator, handed, sent>>
    BY <1>4 DEF TakeFromChannel
  <2>2. Head(channel) \in Nat /\ Tail(channel) \in Seq(Nat)
    BY <1>t, <2>1
  <2>3. SnapshotTypes'
    BY <1>0, <1>t, <2>1, <2>2 DEF SnapshotTypes
  <2>4. Append(taken, Head(channel)) \o Tail(channel) = taken \o channel
    <3>1. channel = <<Head(channel)>> \o Tail(channel)
      BY <1>t, <2>1
    <3>2. Append(taken, Head(channel)) = taken \o <<Head(channel)>> /\ <<Head(channel)>> \in Seq(Nat)
      BY <1>t, <2>2
    <3>3. (taken \o <<Head(channel)>>) \o Tail(channel) = taken \o (<<Head(channel)>> \o Tail(channel))
      BY <1>t, <2>2, <3>2, NatConcat
    <3> QED
      BY <3>1, <3>2, <3>3
  <2>5. NothingSpilled'
    BY <1>0, <2>1, <2>4 DEF SnapshotInv, NothingSpilled
  <2> QED
    BY <2>3, <2>5 DEF SnapshotInv
<1>5. CASE RuntimeStops
  <2>1. loop' = [i \in Sessions |-> "done"] /\ snapshot_rx' = FALSE
    BY <1>5 DEF RuntimeStops
  <2>2. ~ReceiverAlive'
    BY <2>1 DEF ReceiverAlive, InSnapshot
  <2> QED
    BY <1>1, <1>5, <2>2 DEF RuntimeStops, Goes
<1>6. CASE OnLoad \/ NotifyEndOfStartup \/ OnUnload \/ UNCHANGED allVars
  BY <1>1, <1>6 DEF OnLoad, NotifyEndOfStartup, OnUnload, allVars, pluginVars, Goes
<1>7. ASSUME NEW i \in Sessions, SessionStarts(i) \/ SessionStep(i) \/ ChannelEnds(i)
      PROVE  SnapshotInv'
  BY <1>1, <1>7 DEF SessionStarts, SessionStep, ChannelEnds, ReceiverDropped, pluginVars
<1>8. ASSUME NEW k \in Keys, GossipStep(k)
      PROVE  SnapshotInv'
  BY <1>1, <1>8 DEF GossipStep, pluginVars
<1> QED
  BY <1>2, <1>3, <1>4, <1>5, <1>6, <1>7, <1>8 DEF PluginNext

\* The client of the startup snapshot goes live only when it has taken every account that
\* the validator's thread put into the channel, in that order, and the sender is gone
\* (property SnapshotWhole), whichever sessions end, are cancelled or come in between.
THEOREM SnapshotAlwaysWhole == PluginSpec => SnapshotWhole
<1>1. PluginInit => SnapshotInv
  <2> SUFFICES ASSUME PluginInit PROVE SnapshotInv
    OBVIOUS
  <2>1. Accounts \in Seq(Nat) /\ Len(Accounts) \in Nat
    BY PluginAssumption DEF PluginAssumption
  <2>2. sent = <<>> /\ taken = <<>> /\ channel = <<>> /\ handed = 0 /\ validator = "loading"
    BY DEF PluginInit
  <2>3. <<>> \in Seq(Nat) /\ <<>> \o <<>> = <<>>
    OBVIOUS
  <2>4. loop \in [Sessions -> LoopStates]
    BY DEF PluginInit, Init, LoopStates
  <2> QED
    BY <2>1, <2>2, <2>3, <2>4 DEF SnapshotInv, SnapshotTypes, NothingSpilled
<1>2. SnapshotInv /\ [PluginNext]_allVars => SnapshotInv'
  BY SnapshotKept
<1>3. ASSUME SnapshotInv, [PluginNext]_allVars, NEW i \in Sessions, loop[i] = "snapshot", loop'[i] = "live"
      PROVE  taken = sent /\ ~startup
  <2>1. loop \in [Sessions -> LoopStates] /\ taken \in Seq(Nat)
    BY <1>3 DEF SnapshotInv, SnapshotTypes
  <2>2. ReceiverAlive
    BY <1>3 DEF ReceiverAlive, InSnapshot
  <2>3. sent = taken \o channel
    BY <1>3, <2>2 DEF SnapshotInv, NothingSpilled
  <2>4. ChannelEnds(i)
    <3>1. CASE OnLoad \/ UpdateAccount \/ AccountSent \/ NotifyEndOfStartup \/ OnUnload \/ UNCHANGED allVars
      BY <1>3, <3>1 DEF OnLoad, UpdateAccount, AccountSent, NotifyEndOfStartup, OnUnload, Shutdown, StartupEnds,
         allVars, vars, taskVars
    <3>2. CASE RuntimeStops
      BY <1>3, <3>2 DEF RuntimeStops
    <3>3. ASSUME NEW k \in Keys, GossipStep(k)
          PROVE  FALSE
      BY <1>3, <3>3 DEF GossipStep, SubscribeGossip, GossipEnds, taskVars
    <3>4. ASSUME NEW j \in Sessions, SessionStarts(j) \/ TakeFromChannel(j)
          PROVE  FALSE
      BY <1>3, <2>1, <3>4 DEF SessionStarts, SubscribeDeshred, Subscribe, SpawnTasks, TakeFromChannel, SnapshotTake
    <3>5. ASSUME NEW j \in Sessions, ChannelEnds(j)
          PROVE  j = i
      BY <1>3, <2>1, <3>5 DEF ChannelEnds, SnapshotDone
    <3>6. ASSUME NEW j \in Sessions, SessionStep(j)
          PROVE  FALSE
      <4>1. CASE PingTask(j) \/ PingCancelled(j) \/ Incoming(j) \/ IncomingCancelled(j)
        BY <1>3, <4>1 DEF PingTask, PingTick, PingSent, PingDetectsDead, PingCancelled, Incoming, IncomingRequest,
           IncomingDeshredRequest, TakesRequest, IncomingAnswered, IncomingAnswerFails, IncomingHalfClosed,
           IncomingFails, IncomingCancelled, UnchangedByIncoming
      <4>2. CASE LoopUpdate(j) \/ LastSent(j) \/ ClientReads(j) \/ ClientLeaves(j)
        BY <1>3, <4>2 DEF LoopUpdate, LastSent, ClientReads, ClientLeaves, taskVars
      <4>3. CASE SnapshotFilter(j) \/ SnapshotSent(j) \/ SnapshotClosed(j)
        BY <1>3, <2>1, <4>3 DEF SnapshotFilter, SnapshotSent, SnapshotClosed, EndSession
      <4>4. CASE ReplaySent(j) \/ ReplayClosed(j) \/ LoopRequests(j)
        BY <1>3, <2>1, <4>4 DEF ReplaySent, ReplayClosed, LoopRequests, ReplayOf, EndSession
      <4>5. CASE LoopClosed(j) \/ LoopLagged(j) \/ LoopCancelled(j)
        BY <1>3, <2>1, <4>5 DEF LoopClosed, LoopLagged, LoopCancelled, EndSession
      <4> QED
        BY <3>6, <4>1, <4>2, <4>3, <4>4, <4>5 DEF SessionStep
    <3> QED
      BY <1>3, <3>1, <3>2, <3>3, <3>4, <3>5, <3>6 DEF PluginNext
  <2>5. channel = <<>> /\ ~startup
    BY <2>4 DEF ChannelEnds, SnapshotDone
  <2> QED
    BY <2>1, <2>3, <2>5
<1>4. SnapshotInv /\ [PluginNext]_allVars =>
          [\A i \in Sessions : loop[i] = "snapshot" /\ loop'[i] = "live" => taken = sent /\ ~startup]_allVars
  BY <1>3
<1> QED
  BY <1>1, <1>2, <1>4, PTL DEF PluginSpec, SnapshotWhole

-----------------------------------------------------------------------------
(* Sums                                                                    *)

IsCell(f, I, c) == \E i \in I : \E k \in 1..f[i] : c = <<i, k>>

LEMMA CellsAre ==
    ASSUME NEW f, NEW I, NEW c
    PROVE  c \in Cells(f, I) <=> IsCell(f, I, c)
<1> USE DEF IsCell
<1>1. ASSUME NEW i \in I, NEW k \in 1..f[i], c = <<i, k>> PROVE c \in Cells(f, I)
  <2>1. c \in {i} \X (1..f[i])
    BY <1>1
  <2> QED
    BY <2>1 DEF Cells
<1>2. ASSUME c \in Cells(f, I) PROVE \E i \in I : \E k \in 1..f[i] : c = <<i, k>>
  <2>1. PICK i \in I : c \in {i} \X (1..f[i])
    BY <1>2 DEF Cells
  <2>2. c = <<i, c[2]>> /\ c[2] \in 1..f[i]
    BY <2>1
  <2> QED
    BY <2>2
<1> QED
  BY <1>1, <1>2

LEMMA CellsFinite ==
    ASSUME NEW f, NEW I, IsFiniteSet(I), \A i \in I : f[i] \in Nat
    PROVE  IsFiniteSet(Cells(f, I)) /\ SumOver(f, I) \in Nat
<1> DEFINE T == {{i} \X (1..f[i]) : i \in I}
           g == [i \in I |-> {i} \X (1..f[i])]
<1>1. g \in Surjection(I, T)
  BY DEF Surjection
<1>2. IsFiniteSet(T)
  BY <1>1, FS_Surjection
<1>3. ASSUME NEW i \in I PROVE IsFiniteSet({i} \X (1..f[i]))
  <2> PICK n \in Nat : n = f[i]
    OBVIOUS
  <2>1. IsFiniteSet({i}) /\ IsFiniteSet(1..n)
    <3>1. n \in Int /\ 1 \in Int
      OBVIOUS
    <3>2. IsFiniteSet({i})
      BY FS_Singleton, Zenon
    <3> QED
      BY ONLY <3>1, <3>2, FS_Interval
  <2> QED
    BY <2>1, FS_Product
<1>4. IsFiniteSet(UNION T)
  <2>1. \A S \in T : IsFiniteSet(S)
    BY <1>3
  <2> HIDE DEF T
  <2> QED
    BY <1>2, <2>1, FS_UNION
<1> QED
  BY <1>4, FS_CardinalityType DEF Cells, SumOver

LEMMA SumOfNone == ASSUME NEW f PROVE SumOver(f, {}) = 0
BY FS_EmptySet DEF SumOver, Cells

LEMMA SumOfOne ==
    ASSUME NEW f, NEW i, f[i] \in Nat
    PROVE  SumOver(f, {i}) = f[i]
<1>1. Cells(f, {i}) = {i} \X (1..f[i])
  BY DEF Cells
<1>2. IsFiniteSet({i}) /\ Cardinality({i}) = 1
  BY FS_Singleton
<1> PICK n \in Nat : n = f[i]
  OBVIOUS
<1>3. IsFiniteSet(1..n) /\ Cardinality(1..n) = n
  <2>1. n \in Int /\ 1 \in Int
    OBVIOUS
  <2>2. IsFiniteSet(1..n) /\ Cardinality(1..n) = IF 1 > n THEN 0 ELSE n - 1 + 1
    BY ONLY <2>1, FS_Interval
  <2> QED
    BY <2>2
<1>4. Cardinality({i} \X (1..n)) = Cardinality({i}) * Cardinality(1..n)
  BY <1>2, <1>3, FS_Product
<1>5. SumOver(f, {i}) = Cardinality({i} \X (1..n))
  BY <1>1 DEF SumOver
<1>6. SumOver(f, {i}) = 1 * n
  BY <1>2, <1>3, <1>4, <1>5, Zenon
<1> QED
  BY <1>6

LEMMA SumOfBoth ==
    ASSUME NEW f, NEW I, NEW J, IsFiniteSet(I), IsFiniteSet(J), I \cap J = {},
           \A i \in I \cup J : f[i] \in Nat
    PROVE  SumOver(f, I \cup J) = SumOver(f, I) + SumOver(f, J)
<1>1. /\ IsFiniteSet(Cells(f, I)) /\ SumOver(f, I) \in Nat
      /\ IsFiniteSet(Cells(f, J)) /\ SumOver(f, J) \in Nat
  BY CellsFinite
<1>2. Cells(f, I \cup J) = Cells(f, I) \cup Cells(f, J)
  BY DEF Cells
<1>3. Cells(f, I) \cap Cells(f, J) = {}
  <2> SUFFICES ASSUME NEW c \in Cells(f, I), c \in Cells(f, J) PROVE FALSE
    OBVIOUS
  <2>0. IsCell(f, I, c) /\ IsCell(f, J, c)
    BY CellsAre, Zenon
  <2>1. PICK i \in I : \E k : c = <<i, k>>
    BY <2>0 DEF IsCell
  <2>2. PICK j \in J : \E k : c = <<j, k>>
    BY <2>0 DEF IsCell
  <2> QED
    BY <2>1, <2>2
<1>4. Cardinality(Cells(f, I) \cup Cells(f, J)) =
        Cardinality(Cells(f, I)) + Cardinality(Cells(f, J)) - Cardinality(Cells(f, I) \cap Cells(f, J))
  BY <1>1, FS_Union
<1>5. Cardinality(Cells(f, I) \cap Cells(f, J)) = 0
  BY <1>3, FS_EmptySet, Zenon
<1>6. SumOver(f, I \cup J) = SumOver(f, I) + SumOver(f, J) - 0
  BY <1>2, <1>4, <1>5, Zenon DEF SumOver
<1> QED
  BY <1>1, <1>6

LEMMA SumOfSame ==
    ASSUME NEW f, NEW g, NEW I, \A i \in I : f[i] = g[i]
    PROVE  SumOver(f, I) = SumOver(g, I)
BY DEF SumOver, Cells

SameShifted(f, g, I, m) == \A i \in I : f[i] \in Nat /\ g[i + m] = f[i]
Shifted(I, J, m) == \A j : j \in J <=> \E i \in I : j = i + m

LEMMA SumOfShifted ==
    ASSUME NEW f, NEW g, NEW I \in SUBSET Nat, IsFiniteSet(I), NEW m \in Nat,
           NEW J, SameShifted(f, g, I, m), Shifted(I, J, m)
    PROVE  SumOver(g, J) = SumOver(f, I)
<1> DEFINE S == Cells(f, I)
           T == Cells(g, J)
           h == [x \in S |-> <<x[1] + m, x[2]>>]
<1> USE DEF SameShifted, Shifted
<1>1. ASSUME NEW c \in S
      PROVE  \E i \in I : \E k \in 1..f[i] : c = <<i, k>> /\ h[c] = <<i + m, k>>
  <2>0. IsCell(f, I, c)
    BY CellsAre, Zenon
  <2>1. PICK i \in I : \E k \in 1..f[i] : c = <<i, k>>
    BY <2>0 DEF IsCell
  <2>2. PICK k \in 1..f[i] : c = <<i, k>>
    BY <2>1
  <2> QED
    BY <2>2
<1>2. ASSUME NEW c \in S PROVE h[c] \in T
  <2>1. PICK i \in I : \E k \in 1..f[i] : h[c] = <<i + m, k>>
    BY <1>1
  <2>2. PICK j : j = i + m
    OBVIOUS
  <2>3. PICK k \in 1..f[i] : h[c] = <<j, k>>
    BY <2>1, <2>2
  <2>4. j \in J /\ k \in 1..g[j]
    BY <2>2
  <2>5. IsCell(g, J, <<j, k>>)
    BY <2>4 DEF IsCell
  <2>6. <<j, k>> \in T
    BY <2>5, CellsAre, Zenon
  <2> QED
    BY <2>3, <2>6
<1>3. ASSUME NEW t \in T PROVE \E c \in S : h[c] = t
  <2>0. IsCell(g, J, t)
    BY CellsAre, Zenon
  <2>1. PICK j \in J : \E k \in 1..g[j] : t = <<j, k>>
    BY <2>0 DEF IsCell
  <2>2. PICK k \in 1..g[j] : t = <<j, k>>
    BY <2>1
  <2>3. PICK i \in I : j = i + m
    OBVIOUS
  <2>4. k \in 1..f[i]
    BY <2>3
  <2>5. PICK c : c = <<i, k>>
    OBVIOUS
  <2>6. c \in S
    <3>1. IsCell(f, I, c)
      BY <2>4, <2>5 DEF IsCell
    <3> QED
      BY <3>1, CellsAre, Zenon
  <2>7. h[c] = <<i + m, k>>
    BY <2>5, <2>6
  <2> QED
    BY <2>2, <2>3, <2>6, <2>7
<1>4. ASSUME NEW c \in S, NEW d \in S, h[c] = h[d] PROVE c = d
  <2>1. PICK i \in I : \E k : c = <<i, k>> /\ h[c] = <<i + m, k>>
    BY <1>1
  <2>2. PICK k : c = <<i, k>> /\ h[c] = <<i + m, k>>
    BY <2>1
  <2>3. PICK j \in I : \E n : d = <<j, n>> /\ h[d] = <<j + m, n>>
    BY <1>1
  <2>4. PICK n : d = <<j, n>> /\ h[d] = <<j + m, n>>
    BY <2>3
  <2>5. i + m = j + m /\ k = n
    BY <1>4, <2>2, <2>4
  <2>6. i = j
    BY <2>5
  <2> QED
    BY <2>2, <2>4, <2>5, <2>6
<1>5. h \in Bijection(S, T)
  <2>1. h \in [S -> T]
    BY <1>2
  <2>2. \A c, d \in S : h[c] = h[d] => c = d
    BY <1>4
  <2>3. \A t \in T : \E c \in S : h[c] = t
    BY <1>3
  <2> HIDE DEF h, S, T
  <2>4. h \in Injection(S, T)
    BY <2>1, <2>2 DEF Injection, IsInjective
  <2>5. h \in Surjection(S, T)
    BY <2>1, <2>3 DEF Surjection
  <2> QED
    BY <2>4, <2>5 DEF Bijection
<1>6. ExistsBijection(S, T)
  BY <1>5 DEF ExistsBijection
<1>7. IsFiniteSet(S)
  BY CellsFinite
<1>8. Cardinality(T) = Cardinality(S)
  BY <1>6, <1>7, FS_Bijection
<1> QED
  BY <1>8 DEF SumOver

-----------------------------------------------------------------------------
(* What events bill                                                        *)

Events == [code : {"bandwidth", "requests"}, request : Requests, quantity : Nat]
Of(events, code, r) == {i \in DOMAIN events : events[i].code = code /\ events[i].request = r}

LEMMA OfFinite ==
    ASSUME NEW e \in Seq(Events), NEW code, NEW r
    PROVE  /\ Of(e, code, r) \subseteq 1..Len(e) /\ Of(e, code, r) \in SUBSET Nat
           /\ IsFiniteSet(Of(e, code, r))
           /\ \A i \in 1..Len(e) : [j \in DOMAIN e |-> e[j].quantity][i] = e[i].quantity /\ e[i].quantity \in Nat
           /\ Quantity(e, code, r) = SumOver([j \in DOMAIN e |-> e[j].quantity], Of(e, code, r))
           /\ Quantity(e, code, r) \in Nat
<1>1. DOMAIN e = 1..Len(e) /\ Len(e) \in Nat /\ \A i \in 1..Len(e) : e[i] \in Events
  OBVIOUS
<1>2. Of(e, code, r) \subseteq 1..Len(e)
  BY <1>1 DEF Of
<1>3. IsFiniteSet(Of(e, code, r))
  <2>1. IsFiniteSet(1..Len(e))
    BY <1>1, FS_Interval
  <2> QED
    BY <1>2, <2>1, FS_Subset
<1>4. \A i \in 1..Len(e) : [j \in DOMAIN e |-> e[j].quantity][i] = e[i].quantity /\ e[i].quantity \in Nat
  BY <1>1 DEF Events
<1>5. Quantity(e, code, r) = SumOver([j \in DOMAIN e |-> e[j].quantity], Of(e, code, r))
  BY DEF Quantity, Of
<1>6. Quantity(e, code, r) \in Nat
  <2>1. \A i \in Of(e, code, r) : [j \in DOMAIN e |-> e[j].quantity][i] \in Nat
    BY <1>2, <1>4
  <2> QED
    BY <1>3, <1>5, <2>1, CellsFinite
<1> QED
  BY <1>1, <1>2, <1>3, <1>4, <1>5, <1>6

LEMMA QuantityOfNone == ASSUME NEW code, NEW r PROVE Quantity(<<>>, code, r) = 0
<1>1. {i \in DOMAIN <<>> : <<>>[i].code = code /\ <<>>[i].request = r} = {}
  OBVIOUS
<1> QED
  BY <1>1, SumOfNone DEF Quantity

LEMMA QuantityOfOne ==
    ASSUME NEW m \in Events, NEW code, NEW r
    PROVE  Quantity(<<m>>, code, r) = IF m.code = code /\ m.request = r THEN m.quantity ELSE 0
<1> PICK e : e = <<m>>
  OBVIOUS
<1>1. e \in Seq(Events) /\ Len(e) = 1 /\ e[1] = m /\ DOMAIN e = {1}
  OBVIOUS
<1> PICK f : f = [j \in DOMAIN e |-> e[j].quantity]
  OBVIOUS
<1>2. f[1] = m.quantity /\ m.quantity \in Nat
  BY <1>1 DEF Events
<1>3. Quantity(e, code, r) = SumOver(f, Of(e, code, r))
  BY <1>1, OfFinite
<1>4. CASE m.code = code /\ m.request = r
  <2>1. Of(e, code, r) = {1}
    BY <1>1, <1>4 DEF Of
  <2> QED
    BY <1>2, <1>3, <1>4, <2>1, SumOfOne
<1>5. CASE ~(m.code = code /\ m.request = r)
  <2>1. Of(e, code, r) = {}
    BY <1>1, <1>5 DEF Of
  <2> QED
    BY <1>3, <1>5, <2>1, SumOfNone
<1> QED
  BY <1>4, <1>5

LEMMA QuantityOfBoth ==
    ASSUME NEW a \in Seq(Events), NEW b \in Seq(Events), NEW code, NEW r
    PROVE  Quantity(a \o b, code, r) = Quantity(a, code, r) + Quantity(b, code, r)
<1> PICK e : e = a \o b
  OBVIOUS
<1> PICK m : m = Len(a)
  OBVIOUS
<1>1. /\ e \in Seq(Events) /\ m \in Nat /\ Len(b) \in Nat /\ Len(e) = m + Len(b)
      /\ \A i \in 1..m : e[i] = a[i]
      /\ \A i \in 1..Len(b) : e[i + m] = b[i]
  OBVIOUS
<1> PICK fa, fb, fe : /\ fa = [j \in DOMAIN a |-> a[j].quantity]
                      /\ fb = [j \in DOMAIN b |-> b[j].quantity]
                      /\ fe = [j \in DOMAIN e |-> e[j].quantity]
  OBVIOUS
<1> PICK I, J : I = Of(a, code, r) /\ J = Of(b, code, r)
  OBVIOUS
<1> PICK K : K = {i + m : i \in J}
  OBVIOUS
<1>2. /\ I \subseteq 1..m /\ IsFiniteSet(I) /\ Quantity(a, code, r) = SumOver(fa, I)
      /\ \A i \in 1..m : fa[i] = a[i].quantity /\ a[i].quantity \in Nat
  BY OfFinite
<1>3. /\ J \subseteq 1..Len(b) /\ J \in SUBSET Nat /\ IsFiniteSet(J) /\ Quantity(b, code, r) = SumOver(fb, J)
      /\ \A i \in 1..Len(b) : fb[i] = b[i].quantity /\ b[i].quantity \in Nat
  BY OfFinite
<1>4. /\ Of(e, code, r) \subseteq 1..Len(e) /\ IsFiniteSet(Of(e, code, r))
      /\ Quantity(e, code, r) = SumOver(fe, Of(e, code, r))
      /\ \A i \in 1..Len(e) : fe[i] = e[i].quantity /\ e[i].quantity \in Nat
  BY <1>1, OfFinite
<1>5. Of(e, code, r) = I \cup K
  <2>1. ASSUME NEW i \in 1..m PROVE i \in Of(e, code, r) <=> i \in I \cup K
    <3>1. i \in 1..Len(e) /\ i \notin K /\ DOMAIN e = 1..Len(e) /\ DOMAIN a = 1..m
      BY <1>1, <1>3
    <3> QED
      BY <1>1, <3>1 DEF Of
  <2>2. ASSUME NEW i \in 1..Len(b) PROVE i + m \in Of(e, code, r) <=> i + m \in I \cup K
    <3>1. i + m \in 1..Len(e) /\ i + m \notin I /\ DOMAIN e = 1..Len(e) /\ DOMAIN b = 1..Len(b)
      BY <1>1, <1>2
    <3>2. i + m \in K <=> i \in J
      BY <1>1, <1>3
    <3> QED
      BY <1>1, <3>1, <3>2 DEF Of
  <2>3. ASSUME NEW j \in 1..Len(e), j \notin 1..m PROVE \E i \in 1..Len(b) : j = i + m
    <3>1. j - m \in 1..Len(b) /\ j = (j - m) + m
      BY <1>1, <2>3
    <3> QED
      BY <3>1
  <2>4. I \cup K \subseteq 1..Len(e)
    BY <1>1, <1>2, <1>3
  <2>5. ASSUME NEW j PROVE j \in Of(e, code, r) <=> j \in I \cup K
    <3>1. CASE j \notin 1..Len(e)
      BY <1>4, <2>4, <3>1
    <3>2. CASE j \in 1..m
      BY <2>1, <3>2
    <3>3. CASE j \in 1..Len(e) /\ j \notin 1..m
      <4>1. PICK i \in 1..Len(b) : j = i + m
        BY <2>3, <3>3
      <4> QED
        BY <2>2, <4>1
    <3> QED
      BY <3>1, <3>2, <3>3
  <2> QED
    BY <2>5
<1>6. IsFiniteSet(K)
  BY <1>4, <1>5, FS_Subset
<1>7. I \cap K = {}
  BY <1>1, <1>2, <1>3
<1>8. SumOver(fe, I \cup K) = SumOver(fe, I) + SumOver(fe, K)
  <2>1. \A i \in I \cup K : fe[i] \in Nat
    BY <1>4, <1>5
  <2>2. IsFiniteSet(I) /\ IsFiniteSet(K)
    BY <1>2, <1>6
  <2> QED
    BY ONLY <1>7, <2>1, <2>2, SumOfBoth
<1>9. SumOver(fe, I) = SumOver(fa, I)
  <2>1. \A i \in I : fe[i] = fa[i]
    BY <1>1, <1>2, <1>4
  <2> QED
    BY ONLY <2>1, SumOfSame
<1>10. SumOver(fe, K) = SumOver(fb, J)
  <2>1. \A i \in J : fb[i] \in Nat /\ fe[i + m] = fb[i]
    <3> TAKE i \in J
    <3>1. i \in 1..Len(b) /\ i + m \in 1..Len(e)
      BY <1>1, <1>3
    <3> QED
      BY <1>1, <1>3, <1>4, <3>1
  <2>2. J \in SUBSET Nat /\ IsFiniteSet(J) /\ m \in Nat
    BY <1>1, <1>3
  <2>3. SameShifted(fb, fe, J, m)
    BY <2>1 DEF SameShifted
  <2>4. Shifted(J, K, m)
    BY DEF Shifted
  <2> QED
    BY ONLY <2>2, <2>3, <2>4, SumOfShifted
<1> QED
  BY <1>2, <1>3, <1>4, <1>5, <1>8, <1>9, <1>10
-----------------------------------------------------------------------------
(* The hooks of one subscriber                                             *)

\* a bodies, o bytes in the metric, L the requests alive, f what each has reported
HooksCount(a, o, L, f) == a = Cardinality(L) /\ (L = {} => o = 0) /\ o >= SumOver(f, L)

LEMMA SumWithout ==
    ASSUME NEW L, IsFiniteSet(L), NEW f, \A x \in L : f[x] \in Nat, NEW r \in L
    PROVE  /\ IsFiniteSet(L \ {r}) /\ SumOver(f, L \ {r}) \in Nat
           /\ SumOver(f, L) = SumOver(f, L \ {r}) + f[r]
<1>1. IsFiniteSet(L \ {r}) /\ IsFiniteSet({r})
  BY FS_RemoveElement, FS_Singleton, Zenon
<1>2. SumOver(f, L \ {r}) \in Nat
  BY <1>1, CellsFinite
<1> PICK M, N : M = L \ {r} /\ N = {r}
  OBVIOUS
<1>3. M \cap N = {} /\ M \cup N = L /\ \A x \in M \cup N : f[x] \in Nat
  OBVIOUS
<1>4. SumOver(f, M \cup N) = SumOver(f, M) + SumOver(f, N)
  BY ONLY <1>1, <1>3, M = L \ {r}, N = {r}, SumOfBoth
<1>5. SumOver(f, {r}) = f[r]
  BY SumOfOne
<1> QED
  BY <1>1, <1>2, <1>3, <1>4, <1>5

LEMMA HooksStay ==
    ASSUME NEW a, NEW o, NEW L, NEW f, NEW g, HooksCount(a, o, L, f), \A x \in L : g[x] = f[x]
    PROVE  HooksCount(a, o, L, g)
<1>1. SumOver(f, L) = SumOver(g, L)
  BY SumOfSame
<1> QED
  BY <1>1 DEF HooksCount

LEMMA HooksEnter ==
    ASSUME NEW L, IsFiniteSet(L), NEW a, NEW o \in Nat, NEW f, HooksCount(a, o, L, f),
           NEW r, r \notin L, NEW g, \A x \in L : f[x] \in Nat /\ g[x] = f[x], g[r] = 0
    PROVE  HooksCount(a + 1, o, L \cup {r}, g)
<1> PICK M : M = L \cup {r}
  OBVIOUS
<1>1. IsFiniteSet(M) /\ Cardinality(M) = Cardinality(L) + 1
  BY FS_AddElement
<1>2. M \ {r} = L /\ r \in M /\ \A x \in M : g[x] \in Nat
  OBVIOUS
<1>3. SumOver(g, M) = SumOver(g, L) + 0 /\ SumOver(g, L) \in Nat
  BY <1>1, <1>2, SumWithout
<1>4. SumOver(g, L) = SumOver(f, L)
  BY SumOfSame
<1> QED
  BY <1>1, <1>2, <1>3, <1>4 DEF HooksCount

LEMMA HooksReport ==
    ASSUME NEW L, IsFiniteSet(L), NEW a, NEW o \in Nat, NEW f, HooksCount(a, o, L, f),
           NEW r \in L, NEW n \in Nat, NEW g, \A x \in L : f[x] \in Nat,
           \A x \in L \ {r} : g[x] = f[x], g[r] = f[r] + n
    PROVE  HooksCount(a, o + n, L, g)
<1>1. \A x \in L : g[x] \in Nat
  OBVIOUS
<1>2. SumOver(f, L) = SumOver(f, L \ {r}) + f[r] /\ SumOver(f, L \ {r}) \in Nat
  BY SumWithout
<1>3. SumOver(g, L) = SumOver(g, L \ {r}) + g[r]
  BY <1>1, SumWithout
<1>4. SumOver(g, L \ {r}) = SumOver(f, L \ {r})
  BY SumOfSame
<1>5. o + n >= SumOver(g, L)
  BY <1>2, <1>3, <1>4 DEF HooksCount
<1> QED
  BY <1>5 DEF HooksCount

LEMMA HooksLeave ==
    ASSUME NEW L, IsFiniteSet(L), NEW a, NEW o \in Nat, NEW f, HooksCount(a, o, L, f),
           NEW r \in L, NEW n \in Nat, NEW g, \A x \in L : f[x] \in Nat,
           \A x \in L \ {r} : g[x] = f[x]
    PROVE  HooksCount(a - 1, IF a = 1 THEN 0 ELSE o + n, L \ {r}, g)
<1> PICK M : M = L \ {r}
  OBVIOUS
<1>1. IsFiniteSet(M) /\ Cardinality(M) = Cardinality(L) - 1 /\ Cardinality(M) \in Nat /\ Cardinality(L) \in Nat
  BY FS_RemoveElement, FS_CardinalityType
<1>2. M = {} <=> a = 1
  <2>1. M = {} <=> Cardinality(M) = 0
    BY <1>1, FS_EmptySet
  <2> QED
    BY <1>1, <2>1 DEF HooksCount
<1>3. SumOver(f, L) = SumOver(f, M) + f[r] /\ SumOver(f, M) \in Nat
  BY SumWithout
<1>4. SumOver(g, M) = SumOver(f, M)
  BY SumOfSame
<1>5. CASE a = 1
  <2>1. SumOver(g, M) = 0
    BY <1>2, <1>5, SumOfNone
  <2> QED
    BY <1>1, <1>5, <2>1 DEF HooksCount
<1>6. CASE a # 1
  <2>1. o >= SumOver(f, L)
    BY DEF HooksCount
  <2>2. o + n >= SumOver(g, M)
    BY <1>3, <1>4, <2>1
  <2> QED
    BY <1>1, <1>2, <1>6, <2>2 DEF HooksCount
<1> QED
  BY <1>5, <1>6
-----------------------------------------------------------------------------
(* The inductive invariant                                                 *)

MeteringTypes ==
    /\ call \in [Requests -> {"new", "calling", "streaming", "done"}]
    /\ caller \in [Requests -> Callers]
    /\ cumulative_bytes \in [Requests -> Nat] /\ emitted \in [Requests -> Nat]
    /\ active \in [Subscribers -> Int] /\ outbound \in [Subscribers -> Nat]
    /\ usage \in Seq(Events) /\ buffer \in Seq(Events) /\ ongoing_flush \in Seq(Events)
    /\ billed \in Seq(Events) /\ lost \in Seq(Events)

\* What is not reported was emitted, and a body that has not begun emitted nothing.
CountsReported ==
    \A r \in Requests : /\ cumulative_bytes[r] <= emitted[r]
                        /\ call[r] \in {"new", "calling"} => emitted[r] = 0 /\ cumulative_bytes[r] = 0

Total(u, b, f, p, l, code, r) ==
    Quantity(u, code, r) + Quantity(b, code, r) + Quantity(f, code, r) + Quantity(p, code, r) + Quantity(l, code, r)
Everywhere(code, r) == Total(usage, buffer, ongoing_flush, billed, lost, code, r)

BytesOf(r) ==
    /\ HasBilling(r) => emitted[r] = cumulative_bytes[r] + Everywhere("bandwidth", r)
    /\ ~HasBilling(r) => Everywhere("bandwidth", r) = 0
    /\ Everywhere("requests", r) = IF call[r] = "new" THEN 0 ELSE 1

Reported == [r \in Requests |-> emitted[r] - cumulative_bytes[r]]
HooksOf(s) == HooksCount(active[s], outbound[s], Live(s), Reported)

MeteringInv ==
    /\ MeteringTypes /\ CountsReported
    /\ \A r \in Requests : BytesOf(r)
    /\ \A s \in Subscribers : HooksOf(s)

LEMMA JoinedAreEvents == \A a, b \in Seq(Events) : a \o b \in Seq(Events)
OBVIOUS

LEMMA FirstAndRest ==
    ASSUME NEW u \in Seq(Events), u # <<>>
    PROVE  /\ Head(u) \in Events /\ Tail(u) \in Seq(Events) /\ <<Head(u)>> \in Seq(Events)
           /\ u = <<Head(u)>> \o Tail(u)
<1> PICK h, t : h = Head(u) /\ t = Tail(u)
  OBVIOUS
<1>1. h \in Events /\ t \in Seq(Events)
  OBVIOUS
<1>2. <<h>> \in Seq(Events) /\ Len(<<h>>) = 1
  BY <1>1
<1>3. u = <<h>> \o t
  OBVIOUS
<1> QED
  BY <1>1, <1>2, <1>3

LEMMA TotalIsNat ==
    ASSUME NEW u \in Seq(Events), NEW b \in Seq(Events), NEW f \in Seq(Events), NEW p \in Seq(Events),
           NEW l \in Seq(Events), NEW code, NEW r
    PROVE  /\ Quantity(u, code, r) \in Nat /\ Quantity(b, code, r) \in Nat /\ Quantity(f, code, r) \in Nat
           /\ Quantity(p, code, r) \in Nat /\ Quantity(l, code, r) \in Nat
           /\ Total(u, b, f, p, l, code, r) \in Nat
<1>1. /\ Quantity(u, code, r) \in Nat /\ Quantity(b, code, r) \in Nat /\ Quantity(f, code, r) \in Nat
      /\ Quantity(p, code, r) \in Nat /\ Quantity(l, code, r) \in Nat
  BY OfFinite
<1> QED
  BY <1>1 DEF Total

IsJoined(e, a, b) == a \in Seq(Events) /\ b \in Seq(Events) /\ e = a \o b
AddsUp(e, a, b) == \A code, r : Quantity(e, code, r) = Quantity(a, code, r) + Quantity(b, code, r)

LEMMA JoinedAddsUp ==
    ASSUME NEW e, NEW a, NEW b, IsJoined(e, a, b)
    PROVE  e \in Seq(Events) /\ AddsUp(e, a, b)
<1>0. a \in Seq(Events) /\ b \in Seq(Events) /\ e = a \o b
  BY DEF IsJoined
<1>1. ASSUME NEW code, NEW r PROVE Quantity(a \o b, code, r) = Quantity(a, code, r) + Quantity(b, code, r)
  BY <1>0, QuantityOfBoth
<1>2. e \in Seq(Events)
  BY <1>0, JoinedAreEvents, Zenon
<1> QED
  BY <1>0, <1>1, <1>2, Zenon DEF AddsUp

LEMMA TotalOfAll ==
    ASSUME NEW u \in Seq(Events), NEW b \in Seq(Events), NEW f \in Seq(Events), NEW p \in Seq(Events),
           NEW l \in Seq(Events), NEW code, NEW r
    PROVE  Quantity(u \o b \o f \o p \o l, code, r) = Total(u, b, f, p, l, code, r)
<1> PICK ub : ub = u \o b
  OBVIOUS
<1> PICK ubf : ubf = ub \o f
  OBVIOUS
<1> PICK ubfp : ubfp = ubf \o p
  OBVIOUS
<1> PICK all : all = ubfp \o l
  OBVIOUS
<1>1. ub \in Seq(Events) /\ AddsUp(ub, u, b)
  <2>1. IsJoined(ub, u, b)
    BY DEF IsJoined
  <2> QED
    BY <2>1, JoinedAddsUp, Zenon
<1>2. ubf \in Seq(Events) /\ AddsUp(ubf, ub, f)
  <2>1. IsJoined(ubf, ub, f)
    BY <1>1 DEF IsJoined
  <2> QED
    BY <2>1, JoinedAddsUp, Zenon
<1>3. ubfp \in Seq(Events) /\ AddsUp(ubfp, ubf, p)
  <2>1. IsJoined(ubfp, ubf, p)
    BY <1>2 DEF IsJoined
  <2> QED
    BY <2>1, JoinedAddsUp, Zenon
<1>4. AddsUp(all, ubfp, l)
  <2>1. IsJoined(all, ubfp, l)
    BY <1>3 DEF IsJoined
  <2> QED
    BY <2>1, JoinedAddsUp, Zenon
<1>5. u \o b \o f \o p \o l = all
  BY Zenon
<1>6. Quantity(all, code, r) = Total(u, b, f, p, l, code, r)
  BY <1>1, <1>2, <1>3, <1>4, TotalIsNat DEF Total, AddsUp
<1> QED
  BY <1>5, <1>6, Zenon

LEMMA InvGivesAccounts == MeteringInv => EveryByteAccounted
<1> SUFFICES ASSUME MeteringInv PROVE EveryByteAccounted
  OBVIOUS
<1> PICK all : all = usage \o buffer \o ongoing_flush \o billed \o lost
  OBVIOUS
<1>1. \A code, r : Quantity(all, code, r) = Everywhere(code, r)
  BY TotalOfAll DEF MeteringInv, MeteringTypes, Everywhere
<1>2. ASSUME NEW r \in Requests
      PROVE  /\ HasBilling(r) => emitted[r] = cumulative_bytes[r] + Quantity(all, "bandwidth", r)
             /\ ~HasBilling(r) => Quantity(all, "bandwidth", r) = 0
             /\ Quantity(all, "requests", r) = IF call[r] = "new" THEN 0 ELSE 1
  BY <1>1 DEF MeteringInv, BytesOf
<1>3. ASSUME NEW s \in Subscribers
      PROVE  /\ active[s] = Cardinality(Live(s))
             /\ Live(s) = {} => outbound[s] = 0
             /\ outbound[s] >= SumOver([r \in Requests |-> emitted[r] - cumulative_bytes[r]], Live(s))
  BY DEF MeteringInv, HooksOf, HooksCount, Reported
<1> QED
  BY <1>2, <1>3 DEF EveryByteAccounted

LEMMA InitAccounts == MeteringInit => MeteringInv
<1> SUFFICES ASSUME MeteringInit PROVE MeteringInv
  OBVIOUS
<1>1. MeteringTypes
  BY DEF MeteringInit, MeteringTypes
<1>2. CountsReported
  BY DEF MeteringInit, CountsReported
<1>3. ASSUME NEW code, NEW r PROVE Everywhere(code, r) = 0
  BY QuantityOfNone DEF MeteringInit, Everywhere, Total
<1>4. ASSUME NEW r \in Requests PROVE BytesOf(r)
  BY <1>3 DEF BytesOf, MeteringInit
<1>5. ASSUME NEW s \in Subscribers PROVE HooksOf(s)
  <2>1. Live(s) = {}
    BY DEF Live, MeteringInit
  <2>2. active[s] = 0 /\ outbound[s] = 0
    BY DEF MeteringInit
  <2>3. Cardinality({}) = 0 /\ SumOver(Reported, {}) = 0
    BY FS_EmptySet, SumOfNone
  <2> QED
    BY <2>1, <2>2, <2>3 DEF HooksOf, HooksCount
<1> QED
  BY <1>1, <1>2, <1>4, <1>5 DEF MeteringInv

-----------------------------------------------------------------------------
(* Steps of the sink: events move, none appears or goes                    *)

LEMMA MoveKeepsTotal ==
    ASSUME MeteringInv, UNCHANGED bodies,
           /\ usage' \in Seq(Events) /\ buffer' \in Seq(Events) /\ ongoing_flush' \in Seq(Events)
           /\ billed' \in Seq(Events) /\ lost' \in Seq(Events),
           \A code, r : Everywhere(code, r)' = Everywhere(code, r)
    PROVE  MeteringInv'
<1>1. MeteringTypes'
  BY DEF MeteringInv, MeteringTypes, bodies
<1>2. CountsReported'
  BY DEF MeteringInv, CountsReported, bodies
<1>3. \A r \in Requests : BytesOf(r)'
  BY DEF MeteringInv, BytesOf, HasBilling, bodies
<1>4. \A s \in Subscribers : HooksOf(s)'
  BY DEF MeteringInv, HooksOf, Live, Reported, bodies
<1> QED
  BY <1>1, <1>2, <1>3, <1>4 DEF MeteringInv

LEMMA SinkKeepsAccounts == ASSUME MeteringInv, Sink \/ SourceEnds \/ DropSink PROVE MeteringInv'
<1> USE DEF MeteringInv, MeteringTypes
<1>0. /\ usage \in Seq(Events) /\ buffer \in Seq(Events) /\ ongoing_flush \in Seq(Events)
      /\ billed \in Seq(Events) /\ lost \in Seq(Events) /\ <<>> \in Seq(Events)
  OBVIOUS
<1>n. \A code, r : Quantity(<<>>, code, r) = 0
  BY QuantityOfNone
<1>q. ASSUME NEW code, NEW r
      PROVE  /\ Quantity(usage, code, r) \in Nat /\ Quantity(buffer, code, r) \in Nat
             /\ Quantity(ongoing_flush, code, r) \in Nat /\ Quantity(billed, code, r) \in Nat
             /\ Quantity(lost, code, r) \in Nat
  BY OfFinite
<1>1. CASE TakeEvent
  <2>1. UNCHANGED bodies /\ billed' = billed /\ lost' = lost /\ usage # <<>> /\ usage' = Tail(usage)
    BY <1>1 DEF TakeEvent
  <2> PICK h, rest : h = Head(usage) /\ rest = Tail(usage)
    OBVIOUS
  <2>h. h \in Events /\ rest \in Seq(Events) /\ <<h>> \in Seq(Events) /\ usage = <<h>> \o rest
    BY <1>0, <2>1, FirstAndRest
  <2> PICK events : events = Append(buffer, h)
    OBVIOUS
  <2>e. events \in Seq(Events) /\ events = buffer \o <<h>>
    BY <1>0, <2>h
  <2>2. \/ ongoing_flush' = events /\ buffer' = <<>> /\ ongoing_flush = <<>>
        \/ buffer' = events /\ ongoing_flush' = ongoing_flush
    BY <1>1 DEF TakeEvent, StartFlush, Polling
  <2>3. ASSUME NEW code, NEW r PROVE Everywhere(code, r)' = Everywhere(code, r)
    <3>1. /\ Quantity(usage, code, r) = Quantity(<<h>>, code, r) + Quantity(rest, code, r)
          /\ Quantity(events, code, r) = Quantity(buffer, code, r) + Quantity(<<h>>, code, r)
          /\ Quantity(<<h>>, code, r) \in Nat /\ Quantity(rest, code, r) \in Nat
      <4>1. AddsUp(usage, <<h>>, rest)
        <5>1. IsJoined(usage, <<h>>, rest)
          BY <2>h DEF IsJoined
        <5> QED
          BY <5>1, JoinedAddsUp, Zenon
      <4>2. AddsUp(events, buffer, <<h>>)
        <5>1. IsJoined(events, buffer, <<h>>)
          BY <1>0, <2>h, <2>e DEF IsJoined
        <5> QED
          BY <5>1, JoinedAddsUp, Zenon
      <4>3. Quantity(<<h>>, code, r) \in Nat /\ Quantity(rest, code, r) \in Nat
        BY <2>h, OfFinite
      <4> QED
        BY <4>1, <4>2, <4>3 DEF AddsUp
    <3>2. Everywhere(code, r)' = Total(rest, buffer', ongoing_flush', billed, lost, code, r)
      BY <2>1 DEF Everywhere
    <3>3. CASE ongoing_flush' = events /\ buffer' = <<>> /\ ongoing_flush = <<>>
      <4>1. Everywhere(code, r)' = Total(rest, <<>>, events, billed, lost, code, r)
        BY <3>2, <3>3
      <4>2. Everywhere(code, r) = Total(usage, buffer, <<>>, billed, lost, code, r)
        BY <3>3 DEF Everywhere
      <4>3. Quantity(<<>>, code, r) = 0
        BY <1>n, Zenon
      <4>4. Everywhere(code, r)' = Quantity(rest, code, r) + 0 + Quantity(events, code, r)
                                     + Quantity(billed, code, r) + Quantity(lost, code, r)
        BY <4>1, <4>3, Zenon DEF Total
      <4>5. Everywhere(code, r) = Quantity(usage, code, r) + Quantity(buffer, code, r) + 0
                                    + Quantity(billed, code, r) + Quantity(lost, code, r)
        BY <4>2, <4>3, Zenon DEF Total
      <4> QED
        BY <1>q, <3>1, <4>4, <4>5
    <3>4. CASE buffer' = events /\ ongoing_flush' = ongoing_flush
      <4>1. Everywhere(code, r)' = Total(rest, events, ongoing_flush, billed, lost, code, r)
        BY <3>2, <3>4
      <4> QED
        BY <1>q, <2>h, <2>e, <3>1, <4>1 DEF Total, Everywhere
    <3> QED
      BY <2>2, <3>3, <3>4
  <2>4. /\ usage' \in Seq(Events) /\ buffer' \in Seq(Events) /\ ongoing_flush' \in Seq(Events)
        /\ billed' \in Seq(Events) /\ lost' \in Seq(Events)
    BY <1>0, <2>1, <2>2, <2>h, <2>e
  <2> QED
    BY <2>1, <2>3, <2>4, MoveKeepsTotal
<1>2. CASE Polling /\ StartFlush(buffer) /\ UNCHANGED <<bodies, usage, billed, lost>>
  <2>1. /\ ongoing_flush' = buffer /\ buffer' = <<>> /\ ongoing_flush = <<>>
        /\ usage' = usage /\ billed' = billed /\ lost' = lost /\ UNCHANGED bodies
    BY <1>2 DEF Polling, StartFlush
  <2>2. ASSUME NEW code, NEW r PROVE Everywhere(code, r)' = Everywhere(code, r)
    <3>1. Everywhere(code, r)' = Total(usage, <<>>, buffer, billed, lost, code, r)
      BY <2>1 DEF Everywhere
    <3>2. Everywhere(code, r) = Total(usage, buffer, <<>>, billed, lost, code, r)
      BY <2>1 DEF Everywhere
    <3> QED
      BY <1>n, <1>q, <3>1, <3>2 DEF Total
  <2> QED
    BY <1>0, <2>1, <2>2, MoveKeepsTotal
<1>3. CASE UNCHANGED <<bodies, usage, buffer, ongoing_flush, billed, lost>>
  <2>1. /\ UNCHANGED bodies /\ usage' = usage /\ buffer' = buffer /\ ongoing_flush' = ongoing_flush
        /\ billed' = billed /\ lost' = lost
    BY <1>3
  <2>2. ASSUME NEW code, NEW r PROVE Everywhere(code, r)' = Everywhere(code, r)
    BY <2>1 DEF Everywhere
  <2> QED
    BY <1>0, <2>1, <2>2, MoveKeepsTotal
<1>4. CASE FlushSucceeds \/ \E kept \in BOOLEAN : FlushFails(kept)
  <2>1. /\ UNCHANGED bodies /\ usage' = usage /\ buffer' = buffer /\ ongoing_flush' = <<>>
        /\ \/ billed' = billed \o ongoing_flush /\ lost' = lost
           \/ lost' = lost \o ongoing_flush /\ billed' = billed
    BY <1>4 DEF FlushSucceeds, FlushFails
  <2>2. ASSUME NEW code, NEW r PROVE Everywhere(code, r)' = Everywhere(code, r)
    <3>1. /\ Quantity(billed \o ongoing_flush, code, r) = Quantity(billed, code, r) + Quantity(ongoing_flush, code, r)
          /\ Quantity(lost \o ongoing_flush, code, r) = Quantity(lost, code, r) + Quantity(ongoing_flush, code, r)
      BY <1>0, QuantityOfBoth
    <3>2. Everywhere(code, r)' = Total(usage, buffer, <<>>, billed', lost', code, r)
      BY <2>1 DEF Everywhere
    <3>3. CASE billed' = billed \o ongoing_flush /\ lost' = lost
      <4>1. Everywhere(code, r)' = Total(usage, buffer, <<>>, billed \o ongoing_flush, lost, code, r)
        BY <3>2, <3>3
      <4> QED
        BY <1>n, <1>q, <3>1, <4>1 DEF Total, Everywhere
    <3>4. CASE lost' = lost \o ongoing_flush /\ billed' = billed
      <4>1. Everywhere(code, r)' = Total(usage, buffer, <<>>, billed, lost \o ongoing_flush, code, r)
        BY <3>2, <3>4
      <4> QED
        BY <1>n, <1>q, <3>1, <4>1 DEF Total, Everywhere
    <3> QED
      BY <2>1, <3>3, <3>4
  <2>3. /\ billed \o ongoing_flush \in Seq(Events) /\ lost \o ongoing_flush \in Seq(Events)
    BY <1>0
  <2>4. /\ usage' \in Seq(Events) /\ buffer' \in Seq(Events) /\ ongoing_flush' \in Seq(Events)
        /\ billed' \in Seq(Events) /\ lost' \in Seq(Events)
    BY <1>0, <2>1, <2>3
  <2> QED
    BY <2>1, <2>2, <2>4, MoveKeepsTotal
<1>5. CASE DropSink
  <2>1. /\ UNCHANGED bodies /\ billed' = billed /\ usage' = <<>> /\ buffer' = <<>> /\ ongoing_flush' = <<>>
        /\ lost' = lost \o ongoing_flush \o buffer \o usage
    BY <1>5 DEF DropSink
  <2> PICK lf : lf = lost \o ongoing_flush
    OBVIOUS
  <2> PICK lfb : lfb = lf \o buffer
    OBVIOUS
  <2>0. lf \in Seq(Events) /\ lfb \in Seq(Events)
    <3>1. lf \in Seq(Events)
      BY <1>0, JoinedAreEvents, Zenon
    <3> QED
      BY <1>0, <3>1, JoinedAreEvents, Zenon
  <2>2. lost' = lfb \o usage /\ lfb \o usage \in Seq(Events)
    BY <1>0, <2>0, <2>1
  <2>3. ASSUME NEW code, NEW r PROVE Everywhere(code, r)' = Everywhere(code, r)
    <3>1. /\ Quantity(lf, code, r) = Quantity(lost, code, r) + Quantity(ongoing_flush, code, r)
          /\ Quantity(lfb, code, r) = Quantity(lf, code, r) + Quantity(buffer, code, r)
          /\ Quantity(lfb \o usage, code, r) = Quantity(lfb, code, r) + Quantity(usage, code, r)
      <4>1. IsJoined(lf, lost, ongoing_flush) /\ IsJoined(lfb, lf, buffer) /\ IsJoined(lfb \o usage, lfb, usage)
        BY <1>0, <2>0 DEF IsJoined
      <4>2. AddsUp(lf, lost, ongoing_flush) /\ AddsUp(lfb, lf, buffer) /\ AddsUp(lfb \o usage, lfb, usage)
        BY <4>1, JoinedAddsUp, Zenon
      <4> QED
        BY <4>2 DEF AddsUp
    <3>2. Everywhere(code, r)' = Total(<<>>, <<>>, <<>>, billed, lfb \o usage, code, r)
      BY <2>1, <2>2 DEF Everywhere
    <3>3. Quantity(<<>>, code, r) = 0
      BY <1>n, Zenon
    <3>4. Everywhere(code, r)' = 0 + 0 + 0 + Quantity(billed, code, r) + Quantity(lfb \o usage, code, r)
      BY <3>2, <3>3, Zenon DEF Total
    <3>5. Everywhere(code, r) = Quantity(usage, code, r) + Quantity(buffer, code, r)
              + Quantity(ongoing_flush, code, r) + Quantity(billed, code, r) + Quantity(lost, code, r)
      BY Zenon DEF Total, Everywhere
    <3> QED
      BY ONLY <1>q, <3>1, <3>4, <3>5
  <2> QED
    BY <1>0, <2>1, <2>2, <2>3, MoveKeepsTotal
<1>6. CASE FlushWhenPending
  BY <1>2, <1>6 DEF FlushWhenPending
<1>7. CASE Drain
  BY <1>2, <1>3, <1>7 DEF Drain
<1>8. CASE SourceEnds
  BY <1>3, <1>8 DEF SourceEnds
<1> QED
  BY <1>1, <1>4, <1>5, <1>6, <1>7, <1>8 DEF Sink
-----------------------------------------------------------------------------
(* Steps of the bodies: what they report is on its way, or lost at once    *)

LEMMA SentAddsUp ==
    ASSUME MeteringTypes, NEW e, e \in Seq(Events), usage' = Sent(e), lost' = LostWith(e),
           UNCHANGED <<buffer, ongoing_flush, billed>>
    PROVE  /\ usage' \in Seq(Events) /\ buffer' \in Seq(Events) /\ ongoing_flush' \in Seq(Events)
           /\ billed' \in Seq(Events) /\ lost' \in Seq(Events)
           /\ \A code, r : Everywhere(code, r)' = Everywhere(code, r) + Quantity(e, code, r)
<1>0. /\ usage \in Seq(Events) /\ buffer \in Seq(Events) /\ ongoing_flush \in Seq(Events)
      /\ billed \in Seq(Events) /\ lost \in Seq(Events)
      /\ buffer' = buffer /\ ongoing_flush' = ongoing_flush /\ billed' = billed
  BY DEF MeteringTypes
<1> PICK u : u = usage'
  OBVIOUS
<1> PICK l : l = lost'
  OBVIOUS
<1>1. ASSUME NEW code, NEW r
      PROVE  /\ Quantity(usage, code, r) \in Nat /\ Quantity(buffer, code, r) \in Nat
             /\ Quantity(ongoing_flush, code, r) \in Nat /\ Quantity(billed, code, r) \in Nat
             /\ Quantity(lost, code, r) \in Nat /\ Quantity(e, code, r) \in Nat
  BY <1>0, OfFinite
<1>2. ASSUME NEW code, NEW r PROVE Everywhere(code, r)' = Total(u, buffer, ongoing_flush, billed, l, code, r)
  BY <1>0, Zenon DEF Everywhere
<1>3. CASE sink = "running"
  <2>1. IsJoined(u, usage, e) /\ l = lost
    BY <1>0, <1>3 DEF IsJoined, Sent, LostWith
  <2>2. u \in Seq(Events) /\ AddsUp(u, usage, e)
    BY <2>1, JoinedAddsUp, Zenon
  <2>3. ASSUME NEW code, NEW r PROVE Everywhere(code, r)' = Everywhere(code, r) + Quantity(e, code, r)
    <3>1. Quantity(u, code, r) = Quantity(usage, code, r) + Quantity(e, code, r)
      BY <2>2 DEF AddsUp
    <3> QED
      BY <1>1, <1>2, <2>1, <3>1 DEF Total, Everywhere
  <2> QED
    BY <1>0, <2>1, <2>2, <2>3
<1>4. CASE sink # "running"
  <2>1. IsJoined(l, lost, e) /\ u = usage
    BY <1>0, <1>4 DEF IsJoined, Sent, LostWith
  <2>2. l \in Seq(Events) /\ AddsUp(l, lost, e)
    BY <2>1, JoinedAddsUp, Zenon
  <2>3. ASSUME NEW code, NEW r PROVE Everywhere(code, r)' = Everywhere(code, r) + Quantity(e, code, r)
    <3>1. Quantity(l, code, r) = Quantity(lost, code, r) + Quantity(e, code, r)
      BY <2>2 DEF AddsUp
    <3> QED
      BY <1>1, <1>2, <2>1, <3>1 DEF Total, Everywhere
  <2> QED
    BY <1>0, <2>1, <2>2, <2>3
<1> QED
  BY <1>3, <1>4

\* What one step reports: nothing, or one event of r
OneOf(e, code, r, n) ==
    /\ code \in {"bandwidth", "requests"} /\ r \in Requests /\ n \in Nat
    /\ e = <<[code |-> code, request |-> r, quantity |-> n]>>
Bills(e, code, r, n) ==
    e \in Seq(Events) /\ \A c, q : Quantity(e, c, q) = IF c = code /\ q = r THEN n ELSE 0

LEMMA OneEvent ==
    ASSUME NEW e, NEW code, NEW r, NEW n, OneOf(e, code, r, n)
    PROVE  Bills(e, code, r, n)
<1>0. /\ code \in {"bandwidth", "requests"} /\ r \in Requests /\ n \in Nat
      /\ e = <<[code |-> code, request |-> r, quantity |-> n]>>
  BY DEF OneOf
<1> PICK m : m = [code |-> code, request |-> r, quantity |-> n]
  OBVIOUS
<1>1. m \in Events /\ m.code = code /\ m.request = r /\ m.quantity = n
  BY <1>0 DEF Events
<1>2. e = <<m>> /\ e \in Seq(Events)
  BY <1>0, <1>1
<1>3. ASSUME NEW c, NEW q PROVE Quantity(<<m>>, c, q) = IF m.code = c /\ m.request = q THEN m.quantity ELSE 0
  BY <1>1, QuantityOfOne
<1> QED
  BY <1>1, <1>2, <1>3 DEF Bills

LEMMA BodyTypes ==
    ASSUME MeteringInv
    PROVE  /\ \A r \in Requests : /\ emitted[r] \in Nat /\ cumulative_bytes[r] \in Nat
                                  /\ HasMetrics(r) <=> caller[r].subscriber \in Subscribers
                                  /\ HasBilling(r) \in BOOLEAN
           /\ \A s \in Subscribers : /\ active[s] \in Int /\ outbound[s] \in Nat
                                     /\ IsFiniteSet(Live(s)) /\ Live(s) \subseteq Requests
           /\ \A code, r : Everywhere(code, r) \in Nat
           /\ \A r \in Requests : Reported[r] \in Nat
<1> USE DEF MeteringInv, MeteringTypes
<1>1. ASSUME NEW r \in Requests
      PROVE  /\ emitted[r] \in Nat /\ cumulative_bytes[r] \in Nat
             /\ HasMetrics(r) <=> caller[r].subscriber \in Subscribers
             /\ HasBilling(r) \in BOOLEAN
  <2>1. emitted[r] \in Nat /\ cumulative_bytes[r] \in Nat /\ caller[r] \in Callers
    OBVIOUS
  <2>2. HasBilling(r) \in BOOLEAN
    BY <2>1, MeteringAssumption DEF HasBilling
  <2>3. HasMetrics(r) <=> caller[r].subscriber \in Subscribers
    BY <2>1 DEF HasMetrics, Subscribers
  <2> QED
    BY <2>1, <2>2, <2>3
<1>2. ASSUME NEW s \in Subscribers
      PROVE  active[s] \in Int /\ outbound[s] \in Nat /\ IsFiniteSet(Live(s)) /\ Live(s) \subseteq Requests
  <2>1. Live(s) \subseteq Requests
    BY DEF Live
  <2>2. IsFiniteSet(Live(s))
    BY <2>1, MeteringAssumption, FS_Subset
  <2> QED
    BY <2>1, <2>2
<1>3. ASSUME NEW code, NEW r PROVE Everywhere(code, r) \in Nat
  BY TotalIsNat DEF Everywhere
<1>4. ASSUME NEW r \in Requests PROVE Reported[r] \in Nat
  BY <1>1 DEF Reported, CountsReported
<1> QED
  BY <1>1, <1>2, <1>3, <1>4

\* Nothing changes for a subscriber whose bodies are not touched.
LEMMA OthersStay ==
    ASSUME MeteringInv, NEW r \in Requests, NEW s \in Subscribers, caller' = caller,
           \A q \in Requests : q # r => call'[q] = call[q] /\ Reported'[q] = Reported[q],
           caller[r].subscriber # s, active'[s] = active[s], outbound'[s] = outbound[s]
    PROVE  HooksOf(s)'
<1>1. Live(s)' = Live(s)
  BY DEF Live
<1>2. \A x \in Live(s) : Reported'[x] = Reported[x]
  BY DEF Live
<1>3. HooksCount(active[s], outbound[s], Live(s), Reported)
  BY DEF MeteringInv, HooksOf
<1>4. HooksCount(active[s], outbound[s], Live(s), Reported')
  BY <1>2, <1>3, HooksStay
<1> QED
  BY <1>1, <1>4 DEF HooksOf

LEMMA CallKeepsAccounts == ASSUME MeteringInv, NEW r \in Requests, Call(r) PROVE MeteringInv'
<1> USE DEF MeteringInv
<1>0. /\ call[r] = "new" /\ call' = [call EXCEPT ![r] = "calling"]
      /\ active' = IF HasMetrics(r) THEN [active EXCEPT ![caller[r].subscriber] = @ + 1] ELSE active
      /\ caller' = caller /\ cumulative_bytes' = cumulative_bytes /\ emitted' = emitted /\ outbound' = outbound
  BY DEF Call
<1> PICK e : e = <<Request(r)>>
  OBVIOUS
<1>1. e \in Seq(Events) /\ \A c, q : Quantity(e, c, q) = IF c = "requests" /\ q = r THEN 1 ELSE 0
  <2>1. OneOf(e, "requests", r, 1)
    BY DEF OneOf, Request
  <2>2. Bills(e, "requests", r, 1)
    BY <2>1, OneEvent, Zenon
  <2> QED
    BY <2>2 DEF Bills
<1>2. /\ usage' \in Seq(Events) /\ buffer' \in Seq(Events) /\ ongoing_flush' \in Seq(Events)
      /\ billed' \in Seq(Events) /\ lost' \in Seq(Events)
      /\ \A code, q : Everywhere(code, q)' = Everywhere(code, q) + Quantity(e, code, q)
  <2>1. usage' = Sent(e) /\ lost' = LostWith(e) /\ UNCHANGED <<buffer, ongoing_flush, billed>>
    BY DEF Call
  <2> QED
    BY <1>1, <2>1, SentAddsUp
<1>3. MeteringTypes'
  <2>1. active' \in [Subscribers -> Int]
    <3>1. active \in [Subscribers -> Int] /\ \A s \in Subscribers : active[s] + 1 \in Int
      BY DEF MeteringTypes
    <3> QED
      BY <1>0, <3>1
  <2>2. call' \in [Requests -> {"new", "calling", "streaming", "done"}]
    BY <1>0 DEF MeteringTypes
  <2> QED
    BY <1>0, <1>2, <2>1, <2>2 DEF MeteringTypes
<1>4. call' = [call EXCEPT ![r] = "calling"] /\ \A q \in Requests : call'[q] = IF q = r THEN "calling" ELSE call[q]
  BY <1>0 DEF MeteringTypes
<1>5. CountsReported'
  BY <1>0, <1>4 DEF CountsReported
<1>6. ASSUME NEW q \in Requests PROVE BytesOf(q)'
  <2>1. HasBilling(q)' <=> HasBilling(q)
    BY <1>0 DEF HasBilling
  <2>2. Everywhere("bandwidth", q)' = Everywhere("bandwidth", q)
    <3>1. Quantity(e, "bandwidth", q) = 0 /\ Everywhere("bandwidth", q) \in Nat
      BY <1>1, BodyTypes
    <3> QED
      BY <1>2, <3>1
  <2>3. Everywhere("requests", q)' = IF q = r THEN 1 ELSE Everywhere("requests", q)
    <3>1. Quantity(e, "requests", q) = (IF q = r THEN 1 ELSE 0) /\ Everywhere("requests", q) \in Nat
      BY <1>1, BodyTypes
    <3>2. q = r => Everywhere("requests", q) = 0
      BY <1>0 DEF BytesOf
    <3>3. Everywhere("requests", q)' = Everywhere("requests", q) + Quantity(e, "requests", q)
      BY <1>2
    <3> QED
      BY <3>1, <3>2, <3>3
  <2>4. BytesOf(q)
    OBVIOUS
  <2> QED
    BY <1>0, <1>4, <2>1, <2>2, <2>3, <2>4 DEF BytesOf
<1>7. ASSUME NEW s \in Subscribers PROVE HooksOf(s)'
  <2>1. Reported' = Reported
    BY <1>0 DEF Reported
  <2>2. CASE caller[r].subscriber # s
    <3>1. active'[s] = active[s] /\ outbound'[s] = outbound[s]
      BY <1>0, <2>2 DEF MeteringTypes
    <3> QED
      BY <1>0, <1>4, <2>1, <2>2, <3>1, OthersStay
  <2>3. CASE caller[r].subscriber = s
    <3>1. active'[s] = active[s] + 1 /\ outbound'[s] = outbound[s]
      <4>1. HasMetrics(r)
        BY <2>3, BodyTypes
      <4> QED
        BY <1>0, <2>3, <4>1 DEF MeteringTypes
    <3>2. Live(s)' = Live(s) \cup {r} /\ r \notin Live(s)
      BY <1>0, <1>4, <2>3 DEF Live
    <3>3. Reported[r] = 0
      BY <1>0, BodyTypes DEF Reported, CountsReported
    <3>4. HooksCount(active[s], outbound[s], Live(s), Reported)
      BY DEF HooksOf
    <3>5. HooksCount(active[s] + 1, outbound[s], Live(s) \cup {r}, Reported)
      <4>1. IsFiniteSet(Live(s)) /\ outbound[s] \in Nat /\ \A x \in Live(s) : Reported[x] \in Nat
        BY BodyTypes
      <4> QED
        BY <3>2, <3>3, <3>4, <4>1, HooksEnter
    <3> QED
      BY <2>1, <3>1, <3>2, <3>5 DEF HooksOf
  <2> QED
    BY <2>2, <2>3
<1> QED
  BY <1>3, <1>5, <1>6, <1>7

LEMMA RespondKeepsAccounts == ASSUME MeteringInv, NEW r \in Requests, Respond(r) PROVE MeteringInv'
<1> USE DEF MeteringInv
<1>0. /\ call[r] = "calling" /\ call' = [call EXCEPT ![r] = "streaming"]
      /\ caller' = caller /\ cumulative_bytes' = cumulative_bytes /\ emitted' = emitted
      /\ active' = active /\ outbound' = outbound /\ usage' = usage /\ buffer' = buffer
      /\ ongoing_flush' = ongoing_flush /\ billed' = billed /\ lost' = lost
  BY DEF Respond, sinkVars
<1>1. MeteringTypes'
  BY <1>0 DEF MeteringTypes
<1>2. \A q \in Requests : call'[q] = IF q = r THEN "streaming" ELSE call[q]
  BY <1>0 DEF MeteringTypes
<1>3. CountsReported'
  BY <1>0, <1>2 DEF CountsReported
<1>4. ASSUME NEW q \in Requests PROVE BytesOf(q)'
  <2>1. BytesOf(q) /\ (HasBilling(q)' <=> HasBilling(q))
    BY <1>0 DEF HasBilling
  <2>2. Everywhere("bandwidth", q)' = Everywhere("bandwidth", q) /\ Everywhere("requests", q)' = Everywhere("requests", q)
    BY <1>0 DEF Everywhere
  <2> QED
    BY <1>0, <1>2, <2>1, <2>2 DEF BytesOf
<1>5. ASSUME NEW s \in Subscribers PROVE HooksOf(s)'
  <2>1. Live(s)' = Live(s)
    BY <1>0, <1>2 DEF Live
  <2>2. Reported' = Reported
    BY <1>0 DEF Reported
  <2> QED
    BY <1>0, <2>1, <2>2 DEF HooksOf
<1> QED
  BY <1>1, <1>3, <1>4, <1>5

LEMMA PollFrameKeepsAccounts ==
    ASSUME MeteringInv, NEW r \in Requests, NEW n \in FrameSizes, PollFrame(r, n)
    PROVE  MeteringInv'
<1> USE DEF MeteringInv
<1> PICK total : total = cumulative_bytes[r] + n
  OBVIOUS
<1>0. /\ call[r] = "streaming" /\ emitted' = [emitted EXCEPT ![r] = @ + n]
      /\ cumulative_bytes' = [cumulative_bytes EXCEPT ![r] = IF total >= Threshold THEN 0 ELSE total]
      /\ caller' = caller /\ call' = call /\ active' = active
      /\ UNCHANGED <<buffer, ongoing_flush, billed>>
      /\ IF total >= Threshold THEN Report(r, total) ELSE UNCHANGED <<usage, lost, outbound>>
  BY DEF PollFrame
<1>t. n \in Nat /\ total \in Nat /\ emitted[r] \in Nat /\ cumulative_bytes[r] \in Nat /\ Threshold \in Nat
  BY MeteringAssumption, BodyTypes
<1>1. \A q \in Requests : /\ emitted'[q] = IF q = r THEN emitted[r] + n ELSE emitted[q]
                          /\ cumulative_bytes'[q] = IF q = r THEN (IF total >= Threshold THEN 0 ELSE total)
                                                    ELSE cumulative_bytes[q]
  BY <1>0 DEF MeteringTypes
<1> PICK reports : reports = (total >= Threshold)
  OBVIOUS
<1> PICK e : e = IF reports /\ HasBilling(r) THEN <<Bandwidth(r, total)>> ELSE <<>>
  OBVIOUS
<1>2. /\ e \in Seq(Events)
      /\ \A c, q : Quantity(e, c, q) = IF reports /\ HasBilling(r) /\ c = "bandwidth" /\ q = r THEN total ELSE 0
  <2>1. CASE reports /\ HasBilling(r)
    <3>1. OneOf(e, "bandwidth", r, total)
      BY <1>t, <2>1 DEF OneOf, Bandwidth
    <3>2. Bills(e, "bandwidth", r, total)
      BY <3>1, OneEvent, Zenon
    <3> QED
      BY <2>1, <3>2 DEF Bills
  <2>2. CASE ~(reports /\ HasBilling(r))
    <3>1. e = <<>>
      BY <2>2
    <3> QED
      BY <2>2, <3>1, QuantityOfNone
  <2> QED
    BY <2>1, <2>2
<1>3. /\ usage' = Sent(e) /\ lost' = LostWith(e)
      /\ outbound' = IF reports /\ HasMetrics(r) THEN [outbound EXCEPT ![caller[r].subscriber] = @ + total] ELSE outbound
  <2>1. CASE reports
    BY <1>0, <2>1 DEF Report
  <2>2. CASE ~reports
    <3>1. e = <<>> /\ usage' = usage /\ lost' = lost /\ outbound' = outbound
      BY <1>0, <2>2
    <3>2. usage \o <<>> = usage /\ lost \o <<>> = lost
      BY DEF MeteringTypes
    <3>3. Sent(e) = usage /\ LostWith(e) = lost
      BY <3>1, <3>2, Zenon DEF Sent, LostWith
    <3> QED
      BY <2>2, <3>1, <3>3
  <2> QED
    BY <2>1, <2>2
<1>4. /\ usage' \in Seq(Events) /\ buffer' \in Seq(Events) /\ ongoing_flush' \in Seq(Events)
      /\ billed' \in Seq(Events) /\ lost' \in Seq(Events)
      /\ \A code, q : Everywhere(code, q)' = Everywhere(code, q) + Quantity(e, code, q)
  BY <1>0, <1>2, <1>3, SentAddsUp
<1>5. MeteringTypes'
  <2>1. outbound' \in [Subscribers -> Nat]
    <3>1. outbound \in [Subscribers -> Nat] /\ \A s \in Subscribers : outbound[s] + total \in Nat
      <4>1. outbound \in [Subscribers -> Nat]
        BY DEF MeteringTypes
      <4> QED
        BY ONLY <1>t, <4>1
    <3> QED
      BY <1>3, <3>1
  <2>2. emitted' \in [Requests -> Nat] /\ cumulative_bytes' \in [Requests -> Nat]
    BY <1>0, <1>t DEF MeteringTypes
  <2> QED
    BY <1>0, <1>4, <2>1, <2>2 DEF MeteringTypes
<1>6. CountsReported'
  <2> SUFFICES ASSUME NEW q \in Requests
               PROVE  /\ cumulative_bytes'[q] <= emitted'[q]
                      /\ call[q] \in {"new", "calling"} => emitted'[q] = 0 /\ cumulative_bytes'[q] = 0
    BY <1>0 DEF CountsReported
  <2> QED
    BY <1>0, <1>1, <1>t DEF CountsReported
<1>7. ASSUME NEW q \in Requests PROVE BytesOf(q)'
  <2>1. BytesOf(q) /\ (HasBilling(q)' <=> HasBilling(q)) /\ call'[q] = call[q]
    BY <1>0 DEF HasBilling
  <2>2. Everywhere("requests", q)' = Everywhere("requests", q)
    BY <1>2, <1>4, BodyTypes
  <2>3. CASE q # r
    <3>1. Everywhere("bandwidth", q)' = Everywhere("bandwidth", q)
      BY <1>2, <1>4, <2>3, BodyTypes
    <3>2. emitted'[q] = emitted[q] /\ cumulative_bytes'[q] = cumulative_bytes[q]
      BY <1>1, <2>3
    <3> QED
      BY <2>1, <2>2, <3>1, <3>2 DEF BytesOf
  <2>4. CASE q = r
    <3>1. Everywhere("bandwidth", r)' =
            Everywhere("bandwidth", r) + (IF reports /\ HasBilling(r) THEN total ELSE 0)
      BY <1>2, <1>4
    <3>2. Everywhere("bandwidth", r) \in Nat
      BY BodyTypes
    <3>3. HasBilling(r) => emitted'[r] = cumulative_bytes'[r] + Everywhere("bandwidth", r)'
      <4> SUFFICES ASSUME HasBilling(r) PROVE emitted'[r] = cumulative_bytes'[r] + Everywhere("bandwidth", r)'
        OBVIOUS
      <4>1. emitted[r] = cumulative_bytes[r] + Everywhere("bandwidth", r)
        BY DEF BytesOf
      <4>2. emitted'[r] = emitted[r] + n /\ cumulative_bytes'[r] = IF reports THEN 0 ELSE total
        BY <1>1
      <4> QED
        BY <1>t, <3>1, <3>2, <4>1, <4>2
    <3>4. ~HasBilling(r) => Everywhere("bandwidth", r)' = 0
      BY <3>1, <3>2 DEF BytesOf
    <3> QED
      BY <2>1, <2>2, <2>4, <3>3, <3>4 DEF BytesOf
  <2> QED
    BY <2>3, <2>4
<1>8. ASSUME NEW s \in Subscribers PROVE HooksOf(s)'
  <2>1. Reported'[r] = IF reports THEN Reported[r] + total ELSE Reported[r]
    <3>1. emitted'[r] = emitted[r] + n /\ cumulative_bytes'[r] = IF reports THEN 0 ELSE total
      BY <1>1
    <3>2. Reported'[r] = emitted'[r] - cumulative_bytes'[r] /\ Reported[r] = emitted[r] - cumulative_bytes[r]
      BY DEF Reported
    <3> QED
      BY <1>t, <3>1, <3>2
  <2>2. \A q \in Requests : q # r => Reported'[q] = Reported[q]
    BY <1>1 DEF Reported
  <2>3. CASE caller[r].subscriber # s
    <3>1. outbound'[s] = outbound[s]
      BY <1>3, <2>3 DEF MeteringTypes
    <3> QED
      BY <1>0, <2>2, <2>3, <3>1, OthersStay
  <2>4. CASE caller[r].subscriber = s
    <3>1. outbound'[s] = IF reports THEN outbound[s] + total ELSE outbound[s]
      <4>1. HasMetrics(r)
        BY <2>4, BodyTypes
      <4> QED
        BY <1>3, <2>4, <4>1 DEF MeteringTypes
    <3>2. Live(s)' = Live(s) /\ r \in Live(s)
      BY <1>0, <2>4 DEF Live
    <3>3. HooksCount(active[s], outbound[s], Live(s), Reported)
      BY DEF HooksOf
    <3>4. /\ IsFiniteSet(Live(s)) /\ outbound[s] \in Nat /\ \A x \in Live(s) : Reported[x] \in Nat
          /\ \A x \in Live(s) \ {r} : Reported'[x] = Reported[x]
      BY <2>2, BodyTypes DEF Live
    <3>5. CASE reports
      <4> PICK g : g = Reported'
        OBVIOUS
      <4>1. HooksCount(active[s], outbound[s] + total, Live(s), g)
        <5>1. g[r] = Reported[r] + total
          BY <2>1, <3>5
        <5> QED
          BY <1>t, <3>2, <3>3, <3>4, <5>1, HooksReport
      <4> QED
        BY <1>0, <3>1, <3>2, <3>5, <4>1 DEF HooksOf
    <3>6. CASE ~reports
      <4> PICK g : g = Reported'
        OBVIOUS
      <4>1. HooksCount(active[s], outbound[s], Live(s), g)
        BY <2>1, <3>3, <3>4, <3>6, HooksStay
      <4> QED
        BY <1>0, <3>1, <3>2, <3>6, <4>1 DEF HooksOf
    <3> QED
      BY <3>5, <3>6
  <2> QED
    BY <2>3, <2>4
<1> QED
  BY <1>5, <1>6, <1>7, <1>8

\* The two ways a body ends: its metric goes with the last of its subscriber's.
LEMMA EndedHooks ==
    ASSUME MeteringInv, NEW r \in Requests, NEW n \in Nat, call[r] \in {"calling", "streaming"},
           caller' = caller, call' = [call EXCEPT ![r] = "done"], active' = Lowered(r),
           outbound' = Released(r, IF HasMetrics(r) THEN [outbound EXCEPT ![caller[r].subscriber] = @ + n]
                                   ELSE outbound),
           \A q \in Requests : q # r => Reported'[q] = Reported[q]
    PROVE  /\ active' \in [Subscribers -> Int] /\ outbound' \in [Subscribers -> Nat]
           /\ \A s \in Subscribers : HooksOf(s)'
<1> USE DEF MeteringInv
<1>0. \A q \in Requests : call'[q] = IF q = r THEN "done" ELSE call[q]
  BY DEF MeteringTypes
<1>1. ASSUME NEW s \in Subscribers, caller[r].subscriber # s
      PROVE  active'[s] = active[s] /\ outbound'[s] = outbound[s]
  BY <1>1 DEF Lowered, Released, MeteringTypes
<1> PICK mine : mine = caller[r].subscriber
  OBVIOUS
<1>2. CASE ~HasMetrics(r)
  <2>1. active' = active /\ outbound' = outbound /\ mine \notin Subscribers
    BY <1>2, BodyTypes DEF Lowered, Released
  <2>2. ASSUME NEW s \in Subscribers PROVE HooksOf(s)'
    <3>1. caller[r].subscriber # s /\ active'[s] = active[s] /\ outbound'[s] = outbound[s]
      BY <2>1
    <3>2. \A q \in Requests : q # r => call'[q] = call[q] /\ Reported'[q] = Reported[q]
      BY <1>0
    <3> QED
      BY ONLY MeteringInv, r \in Requests, s \in Subscribers, caller' = caller, <3>1, <3>2, OthersStay
  <2> QED
    BY <2>1, <2>2 DEF MeteringTypes
<1>3. CASE HasMetrics(r)
  <2>0. mine \in Subscribers
    BY <1>3, BodyTypes
  <2> PICK metric : metric = [outbound EXCEPT ![mine] = @ + n]
    OBVIOUS
  <2>1. /\ active' = [active EXCEPT ![mine] = @ - 1]
        /\ outbound' = IF active[mine] = 1 THEN [metric EXCEPT ![mine] = 0] ELSE metric
    BY <1>3 DEF Lowered, Released
  <2>2. active \in [Subscribers -> Int] /\ outbound \in [Subscribers -> Nat]
    BY DEF MeteringTypes
  <2>3. metric \in [Subscribers -> Nat] /\ metric[mine] = outbound[mine] + n
    <3>1. outbound[mine] + n \in Nat
      BY <2>0, <2>2
    <3> QED
      BY <2>0, <2>2, <3>1
  <2>4. active' \in [Subscribers -> Int] /\ active'[mine] = active[mine] - 1
    <3>1. active[mine] - 1 \in Int
      BY <2>0, <2>2
    <3> QED
      BY <2>0, <2>1, <2>2, <3>1
  <2>5. /\ outbound' \in [Subscribers -> Nat]
        /\ outbound'[mine] = IF active[mine] = 1 THEN 0 ELSE outbound[mine] + n
    <3>1. [metric EXCEPT ![mine] = 0] \in [Subscribers -> Nat] /\ [metric EXCEPT ![mine] = 0][mine] = 0
      BY <2>0, <2>3
    <3>2. CASE active[mine] = 1
      BY <2>1, <3>1, <3>2
    <3>3. CASE active[mine] # 1
      BY <2>1, <2>3, <3>3
    <3> QED
      BY <3>2, <3>3
  <2>6. HooksOf(mine)'
    <3>1. Live(mine)' = Live(mine) \ {r} /\ r \in Live(mine)
      BY <1>0 DEF Live
    <3>2. HooksCount(active[mine], outbound[mine], Live(mine), Reported)
      BY <2>0 DEF HooksOf
    <3>3. /\ IsFiniteSet(Live(mine)) /\ outbound[mine] \in Nat /\ \A x \in Live(mine) : Reported[x] \in Nat
      BY <2>0, BodyTypes
    <3>4. \A x \in Live(mine) \ {r} : Reported'[x] = Reported[x]
      BY DEF Live
    <3> PICK g : g = Reported'
      OBVIOUS
    <3>5. HooksCount(active[mine] - 1, IF active[mine] = 1 THEN 0 ELSE outbound[mine] + n, Live(mine) \ {r}, g)
      BY <3>1, <3>2, <3>3, <3>4, HooksLeave
    <3> QED
      BY <2>4, <2>5, <3>1, <3>5, Zenon DEF HooksOf
  <2>7. ASSUME NEW s \in Subscribers PROVE HooksOf(s)'
    <3>1. CASE s = mine
      BY <2>6, <3>1
    <3>2. CASE s # mine
      <4>1. caller[r].subscriber # s /\ active'[s] = active[s] /\ outbound'[s] = outbound[s]
        BY <1>1, <3>2
      <4>2. \A q \in Requests : q # r => call'[q] = call[q] /\ Reported'[q] = Reported[q]
        BY <1>0
      <4> QED
        BY ONLY MeteringInv, r \in Requests, s \in Subscribers, caller' = caller, <4>1, <4>2, OthersStay
    <3> QED
      BY <3>1, <3>2
  <2> QED
    BY <2>4, <2>5, <2>7
<1> QED
  BY <1>2, <1>3

LEMMA FailCallKeepsAccounts == ASSUME MeteringInv, NEW r \in Requests, FailCall(r) PROVE MeteringInv'
<1> USE DEF MeteringInv
<1>0. /\ call[r] = "calling" /\ call' = [call EXCEPT ![r] = "done"]
      /\ active' = Lowered(r) /\ outbound' = Released(r, outbound)
      /\ caller' = caller /\ cumulative_bytes' = cumulative_bytes /\ emitted' = emitted
      /\ usage' = usage /\ buffer' = buffer /\ ongoing_flush' = ongoing_flush /\ billed' = billed /\ lost' = lost
  BY DEF FailCall, sinkVars
<1>1. \A q \in Requests : call'[q] = IF q = r THEN "done" ELSE call[q]
  BY <1>0 DEF MeteringTypes
<1>2. Reported' = Reported
  BY <1>0 DEF Reported
<1>3. (IF HasMetrics(r) THEN [outbound EXCEPT ![caller[r].subscriber] = @ + 0] ELSE outbound) = outbound
  <2>1. HasMetrics(r) => [outbound EXCEPT ![caller[r].subscriber] = outbound[caller[r].subscriber] + 0] = outbound
    <3> SUFFICES ASSUME HasMetrics(r)
                 PROVE  [outbound EXCEPT ![caller[r].subscriber] = outbound[caller[r].subscriber] + 0] = outbound
      OBVIOUS
    <3>1. outbound[caller[r].subscriber] + 0 = outbound[caller[r].subscriber]
      BY BodyTypes
    <3> QED
      BY <3>1 DEF MeteringTypes
  <2> QED
    BY <2>1
<1>4. /\ active' \in [Subscribers -> Int] /\ outbound' \in [Subscribers -> Nat]
      /\ \A s \in Subscribers : HooksOf(s)'
  <2>1. outbound' = Released(r, IF HasMetrics(r) THEN [outbound EXCEPT ![caller[r].subscriber] = @ + 0]
                                ELSE outbound)
    BY <1>0, <1>3
  <2> QED
    BY <1>0, <1>2, <2>1, EndedHooks
<1>5. MeteringTypes'
  BY <1>0, <1>4 DEF MeteringTypes
<1>6. CountsReported'
  BY <1>0, <1>1 DEF CountsReported
<1>7. ASSUME NEW q \in Requests PROVE BytesOf(q)'
  <2>1. BytesOf(q) /\ (HasBilling(q)' <=> HasBilling(q))
    BY <1>0 DEF HasBilling
  <2>2. Everywhere("bandwidth", q)' = Everywhere("bandwidth", q) /\ Everywhere("requests", q)' = Everywhere("requests", q)
    BY <1>0 DEF Everywhere
  <2> QED
    BY <1>0, <1>1, <2>1, <2>2 DEF BytesOf
<1> QED
  BY <1>4, <1>5, <1>6, <1>7

LEMMA DropBodyKeepsAccounts == ASSUME MeteringInv, NEW r \in Requests, DropBody(r) PROVE MeteringInv'
<1> USE DEF MeteringInv
<1> PICK n : n = cumulative_bytes[r]
  OBVIOUS
<1>0. /\ call[r] = "streaming" /\ call' = [call EXCEPT ![r] = "done"]
      /\ cumulative_bytes' = [cumulative_bytes EXCEPT ![r] = 0]
      /\ active' = Lowered(r)
      /\ outbound' = Released(r, IF HasMetrics(r) THEN [outbound EXCEPT ![caller[r].subscriber] = @ + n]
                                 ELSE outbound)
      /\ caller' = caller /\ emitted' = emitted /\ UNCHANGED <<buffer, ongoing_flush, billed>>
  BY DEF DropBody
<1>t. n \in Nat /\ emitted[r] \in Nat
  BY BodyTypes
<1> PICK e : e = IF HasBilling(r) THEN <<Bandwidth(r, n)>> ELSE <<>>
  OBVIOUS
<1>1. /\ e \in Seq(Events)
      /\ \A c, q : Quantity(e, c, q) = IF HasBilling(r) /\ c = "bandwidth" /\ q = r THEN n ELSE 0
  <2>1. CASE HasBilling(r)
    <3>1. OneOf(e, "bandwidth", r, n)
      BY <1>t, <2>1 DEF OneOf, Bandwidth
    <3>2. Bills(e, "bandwidth", r, n)
      BY <3>1, OneEvent, Zenon
    <3> QED
      BY <2>1, <3>2 DEF Bills
  <2>2. CASE ~HasBilling(r)
    <3>1. e = <<>>
      BY <2>2
    <3> QED
      BY <2>2, <3>1, QuantityOfNone
  <2> QED
    BY <2>1, <2>2
<1>2. /\ usage' \in Seq(Events) /\ buffer' \in Seq(Events) /\ ongoing_flush' \in Seq(Events)
      /\ billed' \in Seq(Events) /\ lost' \in Seq(Events)
      /\ \A code, q : Everywhere(code, q)' = Everywhere(code, q) + Quantity(e, code, q)
  <2>1. usage' = Sent(e) /\ lost' = LostWith(e)
    BY DEF DropBody
  <2> QED
    BY <1>0, <1>1, <2>1, SentAddsUp
<1>3. /\ \A q \in Requests : call'[q] = IF q = r THEN "done" ELSE call[q]
      /\ \A q \in Requests : cumulative_bytes'[q] = IF q = r THEN 0 ELSE cumulative_bytes[q]
  BY <1>0 DEF MeteringTypes
<1>4. /\ active' \in [Subscribers -> Int] /\ outbound' \in [Subscribers -> Nat]
      /\ \A s \in Subscribers : HooksOf(s)'
  <2>1. \A q \in Requests : q # r => Reported'[q] = Reported[q]
    BY <1>0, <1>3 DEF Reported
  <2> QED
    BY <1>0, <1>t, <2>1, EndedHooks
<1>5. MeteringTypes'
  <2>1. call' \in [Requests -> {"new", "calling", "streaming", "done"}] /\ cumulative_bytes' \in [Requests -> Nat]
    BY <1>0 DEF MeteringTypes
  <2> QED
    BY <1>0, <1>2, <1>4, <2>1 DEF MeteringTypes
<1>6. CountsReported'
  BY <1>0, <1>3, <1>t DEF CountsReported
<1>7. ASSUME NEW q \in Requests PROVE BytesOf(q)'
  <2>1. BytesOf(q) /\ (HasBilling(q)' <=> HasBilling(q)) /\ emitted'[q] = emitted[q]
    BY <1>0 DEF HasBilling
  <2>2. Everywhere("requests", q)' = Everywhere("requests", q)
    <3>1. Quantity(e, "requests", q) = 0 /\ Everywhere("requests", q) \in Nat
      BY <1>1, BodyTypes
    <3> QED
      BY <1>2, <3>1
  <2>3. CASE q # r
    <3>1. Everywhere("bandwidth", q)' = Everywhere("bandwidth", q)
      <4>1. Quantity(e, "bandwidth", q) = 0 /\ Everywhere("bandwidth", q) \in Nat
        BY <1>1, <2>3, BodyTypes
      <4> QED
        BY <1>2, <4>1
    <3> QED
      BY <1>3, <2>1, <2>2, <2>3, <3>1 DEF BytesOf
  <2>4. CASE q = r
    <3>1. Everywhere("bandwidth", r)' = Everywhere("bandwidth", r) + (IF HasBilling(r) THEN n ELSE 0)
      BY <1>1, <1>2
    <3>2. Everywhere("bandwidth", r) \in Nat
      BY BodyTypes
    <3>3. HasBilling(r) => emitted'[r] = cumulative_bytes'[r] + Everywhere("bandwidth", r)'
      <4> SUFFICES ASSUME HasBilling(r) PROVE emitted'[r] = cumulative_bytes'[r] + Everywhere("bandwidth", r)'
        OBVIOUS
      <4>1. emitted[r] = n + Everywhere("bandwidth", r)
        BY DEF BytesOf
      <4>2. emitted'[r] = emitted[r] /\ cumulative_bytes'[r] = 0
        BY <1>0, <1>3
      <4> QED
        BY <1>t, <3>1, <3>2, <4>1, <4>2
    <3>4. ~HasBilling(r) => Everywhere("bandwidth", r)' = 0
      BY <3>1, <3>2 DEF BytesOf
    <3> QED
      BY <1>0, <1>3, <2>1, <2>2, <2>4, <3>3, <3>4 DEF BytesOf
  <2> QED
    BY <2>3, <2>4
<1> QED
  BY <1>4, <1>5, <1>6, <1>7

LEMMA NextKeepsAccounts == MeteringInv /\ [MeteringNext]_meteringVars => MeteringInv'
<1> SUFFICES ASSUME MeteringInv, [MeteringNext]_meteringVars PROVE MeteringInv'
  OBVIOUS
<1>1. CASE UNCHANGED meteringVars
  <2>1. /\ UNCHANGED bodies /\ usage' = usage /\ buffer' = buffer /\ ongoing_flush' = ongoing_flush
        /\ billed' = billed /\ lost' = lost
    BY <1>1 DEF meteringVars, sinkVars
  <2>2. ASSUME NEW code, NEW r PROVE Everywhere(code, r)' = Everywhere(code, r)
    BY <2>1 DEF Everywhere
  <2> QED
    BY <2>1, <2>2, MoveKeepsTotal DEF MeteringInv, MeteringTypes
<1>2. ASSUME NEW r \in Requests, Call(r) \/ Respond(r) \/ FailCall(r) \/ DropBody(r) PROVE MeteringInv'
  BY <1>2, CallKeepsAccounts, RespondKeepsAccounts, FailCallKeepsAccounts, DropBodyKeepsAccounts
<1>3. ASSUME NEW r \in Requests, NEW n \in FrameSizes, PollFrame(r, n) PROVE MeteringInv'
  BY <1>3, PollFrameKeepsAccounts
<1>4. CASE Sink \/ SourceEnds \/ DropSink
  BY <1>4, SinkKeepsAccounts
<1> QED
  BY <1>1, <1>2, <1>3, <1>4 DEF MeteringNext

\* Whatever the threshold, the frames, the batches and the order in which the bodies,
\* the sink and the endpoint take their turns: every byte is counted once, in the
\* body, on its way, billed or lost, every call is billed once, and the table of active
\* bodies and the metric of a subscriber follow the hooks alive (tools metered.rs and
\* billing.rs).
THEOREM EveryByteAlwaysAccounted == MeteringSpec => []EveryByteAccounted
<1>1. MeteringSpec => []MeteringInv
  BY InitAccounts, NextKeepsAccounts, PTL DEF MeteringSpec
<1> QED
  BY <1>1, InvGivesAccounts, PTL
=============================================================================
