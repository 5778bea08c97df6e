------------------------------- MODULE Plugin -------------------------------
(***************************************************************************)
(* The plugin in the validator (entry.rs) around the subscribe sessions:   *)
(* loading, the accounts of the startup snapshot, which the validator's    *)
(* thread hands over through a bounded channel, the end of startup, and    *)
(* unloading.  A session is one of Sessions; the one that asks for the     *)
(* snapshot takes the channel's receiver.                                  *)
(***************************************************************************)
EXTENDS Sessions

CONSTANTS
    Accounts,           \* the startup accounts, in the order of the validator
    OwnerReject,        \* those of owners in filter_limits.accounts.owner_reject
    SnapshotCapacity    \* snapshot_plugin_channel_capacity

ASSUME PluginAssumption ==
    /\ Accounts \in Seq(Nat)
    /\ SnapshotCapacity \in Nat \ {0}

VARIABLES
    validator,  \* the validator's thread: "loading", "startup", "sending" (in update_account),
                \* "running", "unloading", "stopped"
    handed,     \* startup accounts the validator has called update_account with
    channel,    \* the snapshot channel
    sent,       \* history: accounts put into the channel
    taken       \* history: accounts the client took out of it

pluginVars == <<validator, handed, channel, sent, taken>>
allVars == <<vars, pluginVars>>

PluginInit ==
    /\ Init
    /\ validator = "loading"
    /\ handed = 0
    /\ channel = <<>>
    /\ sent = <<>>
    /\ taken = <<>>

InSnapshot(i) == loop[i] \in {"snapshot_filter", "snapshot", "snapshot_send"}

\* The receiver is in the service until a client takes it, and in its client_loop then.
ReceiverAlive == snapshot_rx \/ \E i \in Sessions : InSnapshot(i)

Goes(to) == validator' = to

-----------------------------------------------------------------------------
(* The validator's thread                                                  *)

\* on_load starts the services, or cancels what it has started and fails.
OnLoad ==
    /\ validator = "loading"
    /\ \/ Goes("startup") /\ UNCHANGED vars
       \/ Goes("stopped") /\ Shutdown
    /\ UNCHANGED <<handed, channel, sent, taken>>

\* update_account with is_startup: accounts of rejected owners are dropped, and all are
\* when there is no channel; otherwise the thread sends with the mutex held.
UpdateAccount ==
    /\ validator = "startup"
    /\ handed < Len(Accounts)
    /\ handed' = handed + 1
    /\ Goes(IF startup /\ Accounts[handed + 1] \notin OwnerReject THEN "sending" ELSE "startup")
    /\ UNCHANGED <<vars, channel, sent, taken>>

\* The send waits for room.  When the receiver is gone it fails, which is logged.
AccountSent ==
    /\ validator = "sending"
    /\ ReceiverAlive => Len(channel) < SnapshotCapacity
    /\ IF ReceiverAlive
       THEN /\ channel' = Append(channel, Accounts[handed])
            /\ sent' = Append(sent, Accounts[handed])
       ELSE UNCHANGED <<channel, sent>>
    /\ Goes("startup")
    /\ UNCHANGED <<vars, handed, taken>>

\* notify_end_of_startup drops the sender, once the mutex is free.
NotifyEndOfStartup ==
    /\ validator = "startup"
    /\ handed = Len(Accounts)
    /\ IF startup THEN StartupEnds ELSE UNCHANGED vars
    /\ Goes("running")
    /\ UNCHANGED <<handed, channel, sent, taken>>

\* on_unload cancels the token, then stops the runtime.
OnUnload ==
    /\ validator \in {"startup", "running"}
    /\ Shutdown
    /\ Goes("unloading")
    /\ UNCHANGED <<handed, channel, sent, taken>>

\* The runtime drops every task that is left, with its permit and its stream, and the
\* plugin its channels.
RuntimeStops ==
    /\ validator = "unloading"
    /\ Goes("stopped")
    /\ loop' = [i \in Sessions |-> "done"]
    /\ ping' = [i \in Sessions |-> "done"]
    /\ incoming' = [i \in Sessions |-> "done"]
    /\ last' = [i \in Sessions |-> "done"]
    /\ counters' = [k \in Keys |-> 0]
    /\ gossip' = [k \in Keys |-> 0]
    /\ client' = [i \in Sessions |-> "gone"]
    /\ snapshot_rx' = FALSE
    /\ startup' = FALSE
    /\ channel' = <<>>
    /\ UNCHANGED <<callVars, cancelled, shutdown, stream, client_rx, requests, reason, handed, sent,
                   taken>>

-----------------------------------------------------------------------------
(* The sessions                                                            *)

\* The next message of the snapshot.
TakeFromChannel(i) ==
    /\ channel # <<>>
    /\ SnapshotTake(i)
    /\ channel' = Tail(channel)
    /\ taken' = Append(taken, Head(channel))
    /\ UNCHANGED <<validator, handed, sent>>

\* Mutant: the end of startup ends the snapshot, whatever is left in the channel.
ChannelEndsEarly(i) ==
    /\ SnapshotDone(i)
    /\ channel' = <<>>
    /\ UNCHANGED <<validator, handed, sent, taken>>

\* try_recv says Disconnected when the sender is gone and nothing is left.
ChannelEnds(i) ==
    /\ channel = <<>>
    /\ SnapshotDone(i)
    /\ UNCHANGED pluginVars

\* Dropping the receiver drops what is in the channel.
ReceiverDropped == channel' = IF ReceiverAlive' THEN channel ELSE <<>>

SessionStarts(i) ==
    /\ validator \notin {"loading", "stopped"}
    /\ SubscribeDeshred(i) \/ \E wantsSnapshot \in BOOLEAN : Subscribe(i, wantsSnapshot)
    /\ UNCHANGED pluginVars

\* What is no step of the snapshot's channel is a step of the session alone.
SessionStep(i) ==
    /\ \/ PingTask(i) \/ PingCancelled(i)
       \/ Incoming(i) \/ IncomingCancelled(i)
       \/ SnapshotFilter(i) \/ SnapshotSent(i) \/ SnapshotClosed(i)
       \/ ReplaySent(i) \/ ReplayClosed(i)
       \/ LoopRequests(i) \/ LoopUpdate(i) \/ LoopClosed(i) \/ LoopLagged(i)
       \/ LoopCancelled(i) \/ LastSent(i)
       \/ ClientReads(i) \/ ClientLeaves(i)
    /\ ReceiverDropped
    /\ UNCHANGED <<validator, handed, sent, taken>>

GossipStep(k) ==
    /\ validator \notin {"loading", "stopped"}
    /\ SubscribeGossip(k) \/ GossipEnds(k)
    /\ UNCHANGED pluginVars

PluginNext ==
    \/ OnLoad \/ UpdateAccount \/ AccountSent \/ NotifyEndOfStartup \/ OnUnload \/ RuntimeStops
    \/ \E i \in Sessions :
          SessionStarts(i) \/ SessionStep(i) \/ TakeFromChannel(i) \/ ChannelEnds(i)
    \/ \E k \in Keys : GossipStep(k)

PluginSpec == PluginInit /\ [][PluginNext]_allVars

\* A step of a session's task, with what it does to the snapshot channel.
Alone(step) == step /\ ReceiverDropped /\ UNCHANGED <<validator, handed, sent, taken>>

\* The runtime polls every task that can go on.  The ping task's select takes one of its
\* ready branches at random, so a token that stays cancelled is seen in the end.  The
\* channel's permits are handed out in the order of the requests, so that the pings
\* cannot keep the snapshot out of a stream that is being read.
PluginFairness ==
    /\ WF_allVars(AccountSent)
    /\ \A i \in Sessions :
          /\ WF_allVars(Alone(PingTick(i))) /\ WF_allVars(Alone(PingSent(i)))
          /\ WF_allVars(Alone(PingDetectsDead(i))) /\ SF_allVars(Alone(PingCancelled(i)))
          /\ WF_allVars(Alone(IncomingCancelled(i))) /\ WF_allVars(Alone(LoopCancelled(i)))
          /\ WF_allVars(Alone(IncomingAnswered(i))) /\ WF_allVars(Alone(IncomingAnswerFails(i)))
          /\ SF_allVars(Alone(SnapshotSent(i))) /\ WF_allVars(Alone(SnapshotClosed(i)))
          /\ WF_allVars(Alone(ReplaySent(i))) /\ WF_allVars(Alone(ReplayClosed(i)))
          /\ WF_allVars(Alone(LastSent(i)))
          /\ WF_allVars(TakeFromChannel(i))

\* Clients that neither read nor leave are up to the peer: ClientReads is not fair.
FairPluginSpec == PluginSpec /\ PluginFairness

-----------------------------------------------------------------------------
(* Properties                                                              *)

\* The snapshot client passes to the live stream only when it has taken every account
\* the validator put into the channel, in the validator's order, and no more will come
\* (client_loop_snapshot).
SnapshotWhole ==
    [][\A i \in Sessions :
          loop[i] = "snapshot" /\ loop'[i] = "live" => taken = sent /\ ~startup]_allVars

\* When the peer is gone every task of the session ends and its permit is returned,
\* also for a session no update ever passes ("zombie" client loop, comment of the
\* ping task).
NoZombieSession == \A i \in Sessions : (client[i] = "gone") ~> Ended(i)

\* A shutdown ends every task of every session whose client goes on reading, without
\* the runtime dropping them: sends that wait for room are not interrupted by the
\* token, so a client that stops reading without leaving holds its tasks.
ShutdownDrains ==
    \A i \in Sessions : WF_allVars(Alone(ClientReads(i))) => (shutdown ~> Ended(i))

\* The validator's thread waits in update_account, with the mutex that the end of
\* startup needs, for a snapshot client only: one that has gone or that goes on
\* reading lets it continue.
ValidatorReleased ==
    \A i \in Sessions :
        /\ (validator = "sending" /\ InSnapshot(i) /\ client[i] = "gone")
              ~> validator # "sending"
        /\ WF_allVars(Alone(ClientReads(i))) =>
              ((validator = "sending" /\ loop[i] \in {"snapshot", "snapshot_send"})
                  ~> validator # "sending")
=============================================================================
